---------------------- MODULE MCConsumerWithdrawalFlow ----------------------
(* The withdrawal flow with a few withdrawals, wallets and transactions. *)
EXTENDS ConsumerWithdrawalFlow, TLC

Symmetry == Permutations(Wallets)
=============================================================================
