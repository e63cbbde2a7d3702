------------------------- MODULE MCConsumerDatabase -------------------------
(* The consumer database on small tables. *)
EXTENDS ConsumerDatabase, TLC

\* Work orders, fill references and signatures are only compared for equality.
Symmetry ==
  Permutations(WorkOrders) \cup Permutations(FillRefs) \cup Permutations(Signatures)
=============================================================================
