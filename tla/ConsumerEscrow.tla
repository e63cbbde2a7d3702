--------------------------- MODULE ConsumerEscrow ---------------------------
(***************************************************************************)
(* What the consumer database promises about order money, with no tables,  *)
(* no ledger and no SQL: an account's free money moves into an escrow once *)
(* per order key; the escrow is then either returned in full or spent,     *)
(* with the unspent part returned; nothing ever leaves or re-enters it     *)
(* otherwise, and free money never goes below zero.                        *)
(***************************************************************************)
EXTENDS Integers

CONSTANTS
  Accounts,   \* owners of money
  Keys        \* one escrow per order idempotency key

VARIABLES
  free,       \* money an account may spend, withdraw or put in escrow
  escrow      \* the escrow of each key

EscrowVars == <<free, escrow>>

EscrowInit ==
  /\ free = [a \in Accounts |-> 0]
  /\ \A k \in Keys : escrow[k].phase = "unused"

\* Money enters or leaves an account: deposits, withdrawals, adjustments.
Transfer(a) ==
  /\ free'[a] \in Nat
  /\ free' = [free EXCEPT ![a] = free'[a]]
  /\ UNCHANGED escrow

Hold(k) ==
  LET e == escrow'[k] IN
  /\ escrow[k].phase = "unused" /\ e.phase = "held"
  /\ e.account \in Accounts
  /\ e.amount \in 1..free[e.account]
  /\ free' = [free EXCEPT ![e.account] = @ - e.amount]
  /\ escrow' = [escrow EXCEPT ![k] = e]

Return(k) ==
  LET e == escrow[k] IN
  /\ e.phase = "held"
  /\ free' = [free EXCEPT ![e.account] = @ + e.amount]
  /\ escrow' = [escrow EXCEPT ![k] = [e EXCEPT !.phase = "returned"]]

Spend(k) ==
  LET e == escrow[k] IN
  /\ e.phase = "held"
  /\ \E unspent \in 0..e.amount : free' = [free EXCEPT ![e.account] = @ + unspent]
  /\ escrow' = [escrow EXCEPT ![k] = [e EXCEPT !.phase = "spent"]]

EscrowNext ==
  \/ \E a \in Accounts : Transfer(a)
  \/ \E k \in Keys : Hold(k) \/ Return(k) \/ Spend(k)

EscrowSpec == EscrowInit /\ [][EscrowNext]_EscrowVars
=============================================================================
