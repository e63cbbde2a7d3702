------------------------------- MODULE Sums -------------------------------
(***************************************************************************)
(* The sum of a column whose rows are numbered 1..n, as the SUM(column) of *)
(* the consumer store's SQL statements computes it.  The total is the last *)
(* entry of a running total, written as a recursive function so that TLC   *)
(* evaluates it and SumsProofs can reason about it for every n.            *)
(***************************************************************************)
EXTENDS Integers

RunningTotal(w, n) ==
  LET s[i \in 0..n] == IF i = 0 THEN 0 ELSE s[i - 1] + w[i] IN s

Total(w, n) == RunningTotal(w, n)[n]
=============================================================================
