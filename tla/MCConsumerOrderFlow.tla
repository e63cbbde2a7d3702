------------------------ MODULE MCConsumerOrderFlow ------------------------
(* The order flow with a few requests, keys and work orders. *)
EXTENDS ConsumerOrderFlow, TLC

Symmetry == Permutations(WorkOrders) \cup Permutations(FillRefs)
=============================================================================
