------------------------ MODULE ConsumerEscrowProofs ------------------------
(***************************************************************************)
(* The consumer database implements ConsumerEscrow.  Every statement maps  *)
(* to one abstract step or to none; that a release returns everything and  *)
(* a settlement spends from the hold rests on the money invariant, because *)
(* the code makes both balance updates conditional.                        *)
(***************************************************************************)
EXTENDS ConsumerMoneyProofs

\* The abstract state, named.
Free == [a \in Accounts |-> balance[a].available]
EscrowOf(k) ==
  [phase |-> Phase(reservation[k].status), account |-> reservation[k].account,
   amount |-> reservation[k].amount]
Escrows == [k \in Orders |-> EscrowOf(k)]

\* What a write to one balance row does to the abstract free money.
LEMMA FreeMoves ==
  ASSUME TypeOK, NEW a \in Accounts, NEW x, NEW y, NEW z, SetBalance(a, x, y, z)
  PROVE  Free' = [Free EXCEPT ![a] = x] /\ Free'[a] = x /\ Free[a] = balance[a].available
<1>1. /\ balance'[a].available = x
      /\ \A c \in Accounts : c # a => balance'[c] = balance[c]
  BY SetBalanceColumns
<1> QED BY <1>1 DEF Free

\* What a write to one reservation does to the abstract escrows.
LEMMA EscrowMoves ==
  ASSUME TypeOK, TypeOK', NEW k \in Orders,
         \A j \in Orders : j # k => reservation'[j] = reservation[j]
  PROVE  Escrows' = [Escrows EXCEPT ![k] = EscrowOf(k)'] /\ Escrows'[k] = EscrowOf(k)'
           /\ Escrows[k] = EscrowOf(k)
BY DEF Escrows, EscrowOf

\* A statement that leaves available money and reservations alone.
LEMMA EscrowQuiet ==
  ASSUME UNCHANGED <<balance, reservation>>
  PROVE  UNCHANGED Escrow!EscrowVars
BY DEF Escrow!EscrowVars

\* A statement that moves available money in or out of one account.
LEMMA EscrowTransfer ==
  ASSUME TypeOK, TypeOK', NEW a \in Accounts, NEW x, NEW y, NEW z, SetBalance(a, x, y, z),
         UNCHANGED reservation
  PROVE  Escrow!EscrowNext
<1>1. Free' = [Free EXCEPT ![a] = Free'[a]]
  BY FreeMoves
<1>2. Free'[a] \in Nat
  BY DEF Free, TypeOK, Balance
<1>3. UNCHANGED Escrows
  BY DEF Escrows, EscrowOf
<1>4. Escrow!Transfer(a)
  BY <1>1, <1>2, <1>3 DEF Escrow!Transfer, Free, Escrows, EscrowOf
<1> QED BY <1>4 DEF Escrow!EscrowNext

\* reserveConsumerBalance is an abstract Hold.
LEMMA EscrowHold ==
  ASSUME MoneyInv, TypeOK', NEW s \in Sessions, reserveConsumerBalance(s)
  PROVE  Escrow!EscrowNext
<1>0. TypeOK /\ RowsBelong
  BY DEF MoneyInv, TypeInv
<1>01. stmt[s].key # 0
  BY DEF reserveConsumerBalance
<1>02. PICK k \in Orders : k = stmt[s].key
  BY <1>0, <1>01 DEF RowsBelong
<1>03. PICK a \in Accounts : a = stmt[s].account
  BY <1>0, <1>01 DEF RowsBelong
<1>04. PICK amount \in Nat : amount = ReserveAmount(stmt[s]) /\ amount > 0
  BY <1>01, ReserveAmountType DEF MoneyInv
<1>1. reservation[k].status = "none" /\ balance[a].available >= amount
  BY <1>02, <1>03, <1>04 DEF reserveConsumerBalance, WithinLimits
<1>3. SetBalance(a, balance[a].available - amount, balance[a].reserved + amount, balance[a].open)
  BY <1>03, <1>04 DEF reserveConsumerBalance
<1>4. reservation' = [reservation EXCEPT ![k] =
        [status |-> "reserved", account |-> a,
         notional |-> stmt[s].notional, amount |-> amount]]
  BY <1>02, <1>03, <1>04 DEF reserveConsumerBalance
<1>5. balance[a].available \in Nat
  BY <1>0, BalanceColumns
<1>6. /\ EscrowOf(k).phase = "unused" /\ EscrowOf(k)'.phase = "held"
      /\ EscrowOf(k)'.account = a /\ EscrowOf(k)'.amount = amount
  <2>1. reservation'[k] = [status |-> "reserved", account |-> a,
                           notional |-> stmt[s].notional, amount |-> amount]
    BY <1>0, <1>1, <1>4 DEF TypeOK
  <2> QED BY <1>1, <2>1 DEF EscrowOf, Phase
<1>7. \A j \in Orders : j # k => reservation'[j] = reservation[j]
  BY <1>0, <1>4 DEF TypeOK
<1>8. Escrows' = [Escrows EXCEPT ![k] = EscrowOf(k)'] /\ Escrows'[k] = EscrowOf(k)'
        /\ Escrows[k] = EscrowOf(k)
  BY <1>0, <1>1, <1>7, EscrowMoves
<1>9. Free' = [Free EXCEPT ![a] = Free[a] - amount] /\ Free[a] = balance[a].available
  <2>1. Free' = [Free EXCEPT ![a] = balance[a].available - amount]
          /\ Free[a] = balance[a].available
    BY <1>0, <1>1, <1>3, FreeMoves
  <2> QED BY <2>1
<1>10. amount \in 1..Free[a]
  BY <1>1, <1>04, <1>5, <1>9
<1>11. Escrow!Hold(k)
  BY <1>1, <1>6, <1>8, <1>9, <1>10 DEF Escrow!Hold, Free, Escrows, EscrowOf
<1> QED BY <1>1, <1>11 DEF Escrow!EscrowNext

\* Closing a held reservation, as the abstract state sees it.
LEMMA EscrowClose ==
  ASSUME TypeOK, TypeOK', RowsBelong, NEW k \in Orders, reservation[k].status \in Holding,
         NEW final \in {"released", "settled"},
         reservation' = [reservation EXCEPT ![k].status = final],
         NEW back \in 0..reservation[k].amount, NEW y, NEW z,
         SetBalance(reservation[k].account,
                    balance[reservation[k].account].available + back, y, z)
  PROVE  /\ Escrows[k] = EscrowOf(k) /\ EscrowOf(k).phase = "held"
         /\ EscrowOf(k).amount = reservation[k].amount
         /\ Escrows' = [Escrows EXCEPT ![k] = [EscrowOf(k) EXCEPT !.phase = Phase(final)]]
         /\ Free' = [Free EXCEPT ![EscrowOf(k).account] = Free[EscrowOf(k).account] + back]
<1> DEFINE a == reservation[k].account
<1>1. a \in Accounts
  BY DEF RowsBelong, Holding
<1>2. EscrowOf(k).phase = "held" /\ EscrowOf(k).account = a
        /\ EscrowOf(k).amount = reservation[k].amount
  BY DEF EscrowOf, Phase, Holding
<1>3. EscrowOf(k)' = [EscrowOf(k) EXCEPT !.phase = Phase(final)]
  <2>1. /\ reservation'[k].status = final
        /\ reservation'[k].account = reservation[k].account
        /\ reservation'[k].amount = reservation[k].amount
    BY DEF TypeOK, Reservation
  <2> QED BY <2>1 DEF EscrowOf
<1>4. Escrows' = [Escrows EXCEPT ![k] = EscrowOf(k)'] /\ Escrows[k] = EscrowOf(k)
  <2>1. \A j \in Orders : j # k => reservation'[j] = reservation[j]
    BY DEF TypeOK
  <2> QED BY <2>1, EscrowMoves
<1>5. Free' = [Free EXCEPT ![a] = Free[a] + back]
  <2>1. Free' = [Free EXCEPT ![a] = balance[a].available + back]
          /\ Free[a] = balance[a].available
    BY <1>1, FreeMoves
  <2> QED BY <2>1
<1> QED BY <1>2, <1>3, <1>4, <1>5

\* releaseConsumerReservation is an abstract Return.
LEMMA EscrowReturn ==
  ASSUME MoneyInv, TypeInv', NEW k \in Orders, releaseConsumerReservation(k)
  PROVE  Escrow!EscrowNext
<1>0. TypeOK /\ TypeOK' /\ RowsBelong
  BY DEF MoneyInv, TypeInv
<1>1. /\ reservation[k].status \in Holding
      /\ reservation' = [reservation EXCEPT ![k].status = "released"]
  BY DEF releaseConsumerReservation, Holding
<1>2. reservation[k].amount \in 0..reservation[k].amount
  BY <1>0 DEF TypeOK, Reservation
<1>3. SetBalance(reservation[k].account,
                 balance[reservation[k].account].available + reservation[k].amount,
                 balance[reservation[k].account].reserved - reservation[k].amount,
                 balance[reservation[k].account].open)
  BY ReleaseMoves
<1>4. /\ Escrows[k] = EscrowOf(k) /\ EscrowOf(k).phase = "held"
      /\ EscrowOf(k).amount = reservation[k].amount
      /\ Escrows' = [Escrows EXCEPT ![k] = [EscrowOf(k) EXCEPT !.phase = Phase("released")]]
      /\ Free' = [Free EXCEPT ![EscrowOf(k).account] =
                    Free[EscrowOf(k).account] + reservation[k].amount]
  BY <1>0, <1>1, <1>2, <1>3, EscrowClose
<1>5. Phase("released") = "returned"
  BY DEF Phase
<1>6. Escrow!Return(k)
  BY <1>4, <1>5 DEF Escrow!Return, Free, Escrows, EscrowOf
<1> QED BY <1>6 DEF Escrow!EscrowNext

\* reconcile is an abstract Spend.
LEMMA EscrowSpend ==
  ASSUME MoneyInv, TypeInv', NEW k \in Orders, NEW ref \in FillRefs, NEW filled \in Nat,
         NEW cost \in Nat, reconcile(k, ref, filled, cost)
  PROVE  Escrow!EscrowNext
<1> DEFINE back == reservation[k].amount - SettledAmount(filled, cost)
<1>0. TypeOK /\ TypeOK' /\ RowsBelong
  BY DEF MoneyInv, TypeInv
<1>1. /\ reservation[k].status \in Holding
      /\ reservation' = [reservation EXCEPT ![k].status = "settled"]
  BY DEF reconcile, reconcileConsumerVenueOrder, Settleable, Holding
<1>2. /\ back \in 0..reservation[k].amount
      /\ SetBalance(reservation[k].account,
                    balance[reservation[k].account].available + back,
                    balance[reservation[k].account].reserved - reservation[k].amount,
                    balance[reservation[k].account].open + filled)
  BY SettleMoves
<1> HIDE DEF back
<1>3. /\ Escrows[k] = EscrowOf(k) /\ EscrowOf(k).phase = "held"
      /\ EscrowOf(k).amount = reservation[k].amount
      /\ Escrows' = [Escrows EXCEPT ![k] = [EscrowOf(k) EXCEPT !.phase = Phase("settled")]]
      /\ Free' = [Free EXCEPT ![EscrowOf(k).account] = Free[EscrowOf(k).account] + back]
  BY <1>0, <1>1, <1>2, EscrowClose
<1>4. Phase("settled") = "spent"
  BY DEF Phase
<1>5. Escrow!Spend(k)
  BY <1>2, <1>3, <1>4 DEF Escrow!Spend, Free, Escrows, EscrowOf
<1> QED BY <1>5 DEF Escrow!EscrowNext

\* Marking a reservation submitted is invisible to the abstract state.
LEMMA EscrowMark ==
  ASSUME TypeOK, NEW k \in Orders, markConsumerReservationSubmitted(k)
  PROVE  UNCHANGED Escrow!EscrowVars
<1>1. /\ reservation[k].status = "reserved" /\ reservation'[k].status = "submitted"
      /\ reservation'[k].account = reservation[k].account
      /\ reservation'[k].amount = reservation[k].amount
      /\ \A j \in Orders : j # k => reservation'[j] = reservation[j]
      /\ balance' = balance
  BY DEF markConsumerReservationSubmitted, TypeOK, Reservation, moneyVars
<1>2. UNCHANGED <<Free, Escrows>>
  BY <1>1 DEF Free, Escrows, EscrowOf, Phase
<1> QED BY <1>2 DEF Escrow!EscrowVars, Free, Escrows, EscrowOf

\* Every step of the database is a step of the escrow or leaves it alone.
LEMMA EscrowStep ==
  ASSUME MoneyInv, TypeInv', [Next]_vars
  PROVE  [Escrow!EscrowNext]_(Escrow!EscrowVars)
<1> DEFINE Goal == Escrow!EscrowNext \/ UNCHANGED Escrow!EscrowVars
<1> SUFFICES Goal
  OBVIOUS
<1>0. TypeOK /\ TypeOK' /\ RowsBelong
  BY DEF MoneyInv, TypeInv
<1>1. ASSUME UNCHANGED <<balance, reservation>> PROVE Goal
  BY <1>1, EscrowQuiet
<1>2. CASE UNCHANGED vars
  BY <1>1, <1>2 DEF vars
<1>3. CASE DepositStep
  <2>1. ASSUME NEW d \in Deposits, NEW sig \in Signatures, confirmConsumerDeposit(d, sig)
        PROVE  Goal
    <3>1. PICK a \in Accounts : a = deposit[d].account
      BY <1>0, <2>1 DEF RowsBelong, confirmConsumerDeposit
    <3>2. UNCHANGED reservation /\ SetBalance(a, balance[a].available + deposit[d].amount,
                                              balance[a].reserved, balance[a].open)
      BY <2>1, <3>1 DEF confirmConsumerDeposit, orderVars
    <3> QED BY <1>0, <3>2, EscrowTransfer
  <2>2. ASSUME NEW i \in Incidents, NEW a \in Accounts, NEW delta,
               createConsumerBalanceAdjustment(i, a, delta)
        PROVE  Goal
    <3>1. UNCHANGED reservation /\ SetBalance(a, balance[a].available + delta,
                                              balance[a].reserved, balance[a].open)
      BY <2>2 DEF createConsumerBalanceAdjustment, orderVars
    <3> QED BY <1>0, <3>1, EscrowTransfer
  <2>3. ASSUME NEW d \in Deposits PROVE
          /\ DepositIntentExpires(d) => Goal
          /\ \A a \in Accounts, n \in Transfers : createConsumerDepositIntent(d, a, n) => Goal
    BY <1>1 DEF DepositIntentExpires, createConsumerDepositIntent, moneyVars, orderVars
  <2> HIDE DEF Goal
  <2> QED BY <1>3, <2>1, <2>2, <2>3 DEF DepositStep
<1>4. CASE ReservationStep
  <2>1. ASSUME NEW s \in Sessions PROVE
          /\ ReserveRefused(s) => Goal
          /\ \A k \in Orders, a \in Accounts, n \in Notionals, c \in VenueCosts :
               BeginReserve(s, k, a, n, c) => Goal
          /\ reserveConsumerBalance(s) => Goal
    BY <1>0, <1>1, EscrowHold DEF ReserveRefused, BeginReserve, moneyVars
  <2>2. ASSUME NEW k \in Orders PROVE
          /\ releaseConsumerReservation(k) => Goal
          /\ markConsumerReservationSubmitted(k) => Goal
          /\ \A w \in WorkOrders : recordConsumerVenueOrder(k, w) => Goal
    <3>1. releaseConsumerReservation(k) => Goal
      BY EscrowReturn
    <3>2. markConsumerReservationSubmitted(k) => Goal
      BY <1>0, EscrowMark
    <3>3. \A w \in WorkOrders : recordConsumerVenueOrder(k, w) => Goal
      BY <1>1 DEF recordConsumerVenueOrder, moneyVars
    <3> QED BY <3>1, <3>2, <3>3
  <2> HIDE DEF Goal
  <2> QED BY <1>4, <2>1, <2>2 DEF ReservationStep
<1>5. CASE ReconciliationStep
  <2>1. ASSUME NEW k \in Orders, NEW ref \in FillRefs, NEW filled \in Nat, NEW cost \in Nat
        PROVE  /\ reconcile(k, ref, filled, cost) => Goal
               /\ ReconcileRefused(k, ref, filled, cost) => Goal
    <3>1. reconcile(k, ref, filled, cost) => Goal
      BY EscrowSpend
    <3>2. ReconcileRefused(k, ref, filled, cost) => Goal
      BY <1>1 DEF ReconcileRefused, moneyVars
    <3> QED BY <3>1, <3>2
  <2>2. ASSUME NEW w \in WorkOrders PROVE
          /\ enqueueReconciliation(w) => Goal
          /\ \A k \in Orders : prepareReconciliation(k, w) => Goal
    BY <1>1 DEF enqueueReconciliation, prepareReconciliation, moneyVars
  <2>3. ASSUME NEW late \in SUBSET Orders, processReconciliationDeadlines(late) PROVE Goal
    BY <1>1, <2>3 DEF processReconciliationDeadlines, moneyVars
  <2>4. (\A x \in Notionals \cup {0} : x \in Nat) /\ (\A x \in VenueCosts : x \in Nat)
    BY AmountsPositive
  <2> HIDE DEF Goal
  <2> QED BY <1>5, <2>1, <2>2, <2>3, <2>4 DEF ReconciliationStep
<1>6. CASE WithdrawalStep
  <2>1. ASSUME NEW w \in Withdrawals, NEW a \in Accounts, NEW n \in Transfers,
               createConsumerWithdrawal(w, a, n)
        PROVE  Goal
    <3>1. UNCHANGED reservation /\ SetBalance(a, balance[a].available - n,
                                              balance[a].reserved, balance[a].open)
      BY <2>1 DEF createConsumerWithdrawal, orderVars
    <3> QED BY <1>0, <3>1, EscrowTransfer
  <2>2. ASSUME NEW w \in Withdrawals, cancelConsumerWithdrawal(w) PROVE Goal
    <3>1. PICK a \in Accounts : a = withdrawal[w].account
      BY <1>0, <2>2 DEF RowsBelong, cancelConsumerWithdrawal
    <3>2. UNCHANGED reservation /\ SetBalance(a, balance[a].available + withdrawal[w].amount,
                                              balance[a].reserved, balance[a].open)
      BY <2>2, <3>1 DEF cancelConsumerWithdrawal, orderVars
    <3> QED BY <1>0, <3>2, EscrowTransfer
  <2>3. ASSUME NEW w \in Withdrawals PROVE
          /\ PreparedWithdrawalExpires(w) => Goal
          /\ ClaimWithdrawal(w) => Goal
          /\ markWithdrawalReview(w) => Goal
          /\ \A v \in {"finalized", "failed_review"} : FinalizeWithdrawal(w, v) => Goal
          /\ \A m \in Signatures :
               /\ prepareConsumerWithdrawal(w, m) => Goal
               /\ submitPreparedConsumerWithdrawal(w, m) => Goal
               /\ WithdrawalDispatched(w, m) => Goal
    BY <1>1
       DEF PreparedWithdrawalExpires, ClaimWithdrawal, markWithdrawalReview, FinalizeWithdrawal,
           prepareConsumerWithdrawal, submitPreparedConsumerWithdrawal, WithdrawalDispatched,
           moneyVars, orderVars
  <2> HIDE DEF Goal
  <2> QED BY <1>6, <2>1, <2>2, <2>3 DEF WithdrawalStep
<1> QED BY <1>2, <1>3, <1>4, <1>5, <1>6 DEF Next

\* The SQL statements of the web tier and of the worker, interleaved in any
\* way, implement the escrow: for every order key the money is held at most
\* once and is then returned in full or spent, exactly once.
THEOREM DatabaseImplementsEscrow == Spec => ImplementsEscrow
<1>1. Init => Escrow!EscrowInit
  BY DEF Init, Escrow!EscrowInit, Phase
<1>2. MoneyInv /\ MoneyInv' /\ [Next]_vars => [Escrow!EscrowNext]_(Escrow!EscrowVars)
  BY EscrowStep DEF MoneyInv
<1> QED BY <1>1, <1>2, MoneyInvariant, PTL DEF Spec, ImplementsEscrow, Escrow!EscrowSpec
=============================================================================
