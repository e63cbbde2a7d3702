----------------------- MODULE ConsumerDatabaseProofs -----------------------
(***************************************************************************)
(* Theorems about the consumer database for every number of accounts,      *)
(* rows and concurrent statements, and for every choice of limits.         *)
(***************************************************************************)
EXTENDS ConsumerDatabase, SumsProofs

\* The fee of a filled amount is a natural number.
LEMMA FeeType ==
  ASSUME NEW x \in Nat
  PROVE  consumerFeeMicroUsdc(x) \in Nat
<1>1. (x * 10 + 9999) \div 10000 \in Nat
  OBVIOUS
<1> QED BY <1>1, LimitsAssumption DEF consumerFeeMicroUsdc

\* Amounts as natural numbers, row by row.
LEMMA AmountsPositive ==
  /\ \A x \in Notionals : x \in Nat /\ x > 0
  /\ \A x \in Transfers : x \in Nat /\ x > 0
  /\ \A x \in VenueCosts : x \in Nat
<1>1. \A x \in Nat \ {0} : x \in Nat /\ x > 0
  OBVIOUS
<1> QED BY <1>1, AmountsAssumption

\* Rows that take part in a statement belong to an account, and an amount
\* of money is positive where the code checks that it is.
RowsBelong ==
  /\ \A k \in Orders : reservation[k].status # "none" =>
       reservation[k].account \in Accounts
  /\ \A s \in Sessions : stmt[s].key # 0 =>
       stmt[s].account \in Accounts /\ stmt[s].key \in Orders
         /\ stmt[s].notional \in Notionals /\ stmt[s].notional <= MaxOrder
         /\ stmt[s].cost \in VenueCosts
  /\ \A d \in Deposits : deposit[d].status # "none" => deposit[d].account \in Accounts
  /\ \A w \in Withdrawals : withdrawal[w].status # "none" => withdrawal[w].account \in Accounts

TypeInv == TypeOK /\ RowsBelong

\* Posting integers to a typed ledger leaves it typed.
LEMMA PostType ==
  ASSUME TypeOK, NEW a \in Accounts, NEW key \in LedgerKeys, NEW p \in Entry,
         Post(key, a, p)
  PROVE  book' \in [Accounts -> Entry] /\ posted' \subseteq LedgerKeys
<1>1. book[a] \in Entry
  BY DEF TypeOK
<1>2. [treasury  |-> book[a].treasury + p.treasury,
       available |-> book[a].available + p.available,
       reserved  |-> book[a].reserved + p.reserved,
       venue     |-> book[a].venue + p.venue,
       fee       |-> book[a].fee + p.fee] \in Entry
  BY <1>1 DEF Entry
<1> QED BY <1>2 DEF TypeOK, Post

\* Writing naturals to a balance row leaves the table typed.
LEMMA SetBalanceType ==
  ASSUME TypeOK, NEW a \in Accounts, NEW x \in Nat, NEW y \in Nat, NEW z \in Nat,
         SetBalance(a, x, y, z)
  PROVE  balance' \in [Accounts -> Balance]
BY DEF TypeOK, SetBalance, Balance

\* A typed row has typed columns.
LEMMA BalanceColumns ==
  ASSUME TypeOK, NEW a \in Accounts
  PROVE  balance[a].available \in Nat /\ balance[a].reserved \in Nat /\ balance[a].open \in Nat
BY DEF TypeOK, Balance

\* A reservation statement that is running reserves a positive amount.
LEMMA ReserveAmountType ==
  ASSUME TypeInv, NEW s \in Sessions, stmt[s].key # 0
  PROVE  ReserveAmount(stmt[s]) \in Nat /\ ReserveAmount(stmt[s]) > 0
           /\ stmt[s].notional \in Nat /\ stmt[s].notional > 0
<1>0. stmt[s].notional \in Notionals /\ stmt[s].cost \in VenueCosts
  BY DEF TypeInv, RowsBelong
<1>1. stmt[s].notional \in Nat /\ stmt[s].notional > 0 /\ stmt[s].cost \in Nat
  BY <1>0, AmountsPositive
<1>2. consumerFeeMicroUsdc(stmt[s].notional) \in Nat
  BY <1>1, FeeType
<1> QED BY <1>1, <1>2 DEF ReserveAmount

\* Deposits and adjustments keep the tables typed.
LEMMA DepositTyped ==
  ASSUME TypeInv, DepositStep
  PROVE  TypeInv'
<1> USE DEF TypeInv
<1>1. ASSUME NEW d \in Deposits, NEW a \in Accounts, NEW n \in Transfers,
             createConsumerDepositIntent(d, a, n)
      PROVE  TypeInv'
  <2>1. [status |-> "pending", account |-> a, amount |-> n,
         fresh |-> TRUE, signature |-> NoSignature] \in Deposit
    BY AmountsAssumption DEF Deposit
  <2> QED BY <1>1, <2>1
       DEF TypeOK, RowsBelong, createConsumerDepositIntent, moneyVars, orderVars
<1>2. ASSUME NEW d \in Deposits, DepositIntentExpires(d) PROVE TypeInv'
  <2>1. [deposit[d] EXCEPT !.fresh = FALSE] \in Deposit
    BY DEF TypeOK, Deposit
  <2> QED BY <1>2, <2>1
       DEF TypeOK, RowsBelong, DepositIntentExpires, moneyVars, orderVars, Deposit
<1>3. ASSUME NEW d \in Deposits, NEW sig \in Signatures, confirmConsumerDeposit(d, sig)
      PROVE  TypeInv'
  <2> DEFINE a == deposit[d].account
             amount == deposit[d].amount
  <2>1. a \in Accounts /\ amount \in Nat
    BY <1>3 DEF TypeOK, RowsBelong, confirmConsumerDeposit, Deposit
  <2>2. balance' \in [Accounts -> Balance]
    <3>1. /\ balance[a].available \in Nat /\ balance[a].reserved \in Nat
          /\ balance[a].open \in Nat
      BY <2>1, BalanceColumns
    <3>2. balance[a].available + amount \in Nat
      BY <2>1, <3>1
    <3>3. SetBalance(a, balance[a].available + amount, balance[a].reserved, balance[a].open)
      BY <1>3 DEF confirmConsumerDeposit
    <3> HIDE DEF a, amount
    <3> QED BY <2>1, <3>1, <3>2, <3>3, SetBalanceType
  <2>3. book' \in [Accounts -> Entry] /\ posted' \subseteq LedgerKeys
    <3>1. Postings(-amount, amount, 0, 0, 0) \in Entry
      BY <2>1 DEF Postings, Entry
    <3>2. <<"deposit", d>> \in LedgerKeys
      BY DEF LedgerKeys
    <3> QED BY <1>3, <2>1, <3>1, <3>2, PostType DEF confirmConsumerDeposit
  <2>4. [deposit[d] EXCEPT !.status = "confirmed", !.signature = sig] \in Deposit
    BY DEF TypeOK, Deposit
  <2>5. deposit' = [deposit EXCEPT ![d] =
                      [deposit[d] EXCEPT !.status = "confirmed", !.signature = sig]]
    BY <1>3 DEF TypeOK, Deposit, confirmConsumerDeposit
  <2> QED BY <1>3, <2>1, <2>2, <2>3, <2>4, <2>5
       DEF TypeOK, RowsBelong, confirmConsumerDeposit, orderVars, Deposit
<1>4. ASSUME NEW i \in Incidents, NEW a \in Accounts, NEW delta \in Int,
             createConsumerBalanceAdjustment(i, a, delta)
      PROVE  TypeInv'
  <2>1. balance' \in [Accounts -> Balance]
    <3>1. balance[a].available + delta \in Nat
      BY <1>4, BalanceColumns DEF createConsumerBalanceAdjustment
    <3> QED BY <1>4, <3>1, BalanceColumns, SetBalanceType DEF createConsumerBalanceAdjustment
  <2>2. book' \in [Accounts -> Entry] /\ posted' \subseteq LedgerKeys
    <3>1. Postings(-delta, delta, 0, 0, 0) \in Entry
      BY DEF Postings, Entry
    <3>2. <<"adjustment", i>> \in LedgerKeys
      BY DEF LedgerKeys
    <3> QED BY <1>4, <3>1, <3>2, PostType DEF createConsumerBalanceAdjustment
  <2> QED BY <1>4, <2>1, <2>2
       DEF TypeOK, RowsBelong, createConsumerBalanceAdjustment, orderVars
<1>5. \A n \in Transfers : n \in Int /\ -n \in Int
  BY AmountsAssumption
<1> QED BY <1>1, <1>2, <1>3, <1>4, <1>5 DEF DepositStep

\* The columns the statements sum are columns of naturals.
LEMMA ColumnsType ==
  ASSUME TypeOK, NEW a
  PROVE  HeldColumn(a) \in [Orders -> Nat] /\ DailyColumn(a) \in [Orders -> Nat]
<1>1. \A k \in Orders : reservation[k].amount \in Nat /\ reservation[k].notional \in Nat
  BY DEF TypeOK, Reservation
<1> QED BY <1>1 DEF HeldColumn, DailyColumn

\* The daily sum the reservation statement compares is a natural number.
LEMMA DailyType ==
  ASSUME TypeOK, NEW a
  PROVE  DailyNotional(a) \in Nat
<1>1. DailyColumn(a) \in [1..NOrders -> Nat] /\ NOrders \in Nat
  BY ColumnsType, CountsAssumption DEF Orders
<1> QED BY <1>1, TotalBound DEF DailyNotional

\* Reservation statements keep the tables typed.
LEMMA ReservationTyped ==
  ASSUME TypeInv, ReservationStep
  PROVE  TypeInv'
<1>0. TypeOK /\ RowsBelong
  BY DEF TypeInv
<1>1. ASSUME NEW s \in Sessions, NEW k \in Orders, NEW a \in Accounts,
             NEW n \in Notionals, NEW c \in VenueCosts, BeginReserve(s, k, a, n, c)
      PROVE  TypeInv'
  <2>1. DailyNotional(a) \in Nat /\ n \in Nat /\ c \in Nat
    BY <1>0, DailyType, AmountsPositive
  <2>2. k \in 0..NOrders
    BY DEF Orders
  <2>3. [key |-> k, account |-> a, notional |-> n, cost |-> c,
         daily |-> DailyNotional(a), duplicate |-> reservation[k].status # "none"]
           \in Statement
    BY <2>1, <2>2 DEF Statement
  <2>4. stmt' \in [Sessions -> Statement]
    BY <1>0, <1>1, <2>3 DEF TypeOK, BeginReserve
  <2>5. TypeOK'
    BY <1>0, <1>1, <2>4 DEF TypeOK, BeginReserve, moneyVars
  <2>6. RowsBelong'
    BY <1>0, <1>1 DEF TypeOK, RowsBelong, BeginReserve
  <2> QED BY <2>5, <2>6 DEF TypeInv
<1>2. ASSUME NEW s \in Sessions, reserveConsumerBalance(s) PROVE TypeInv'
  <2> DEFINE t == stmt[s]
             amount == ReserveAmount(t)
             b == balance[t.account]
  <2>1. t.key # 0 /\ b.available >= amount
    BY <1>2 DEF reserveConsumerBalance, WithinLimits
  <2>2. t.account \in Accounts /\ t.key \in Orders
    BY <1>0, <2>1 DEF RowsBelong
  <2>3. amount \in Nat /\ t.notional \in Nat
    BY <2>1, ReserveAmountType
  <2>4. b.available \in Nat /\ b.reserved \in Nat /\ b.open \in Nat
    BY <1>0, <2>2, BalanceColumns
  <2>5. SetBalance(t.account, b.available - amount, b.reserved + amount, b.open)
    BY <1>2 DEF reserveConsumerBalance
  <2>6. Post(<<"reserve", t.key>>, t.account, Postings(0, -amount, amount, 0, 0))
    BY <1>2 DEF reserveConsumerBalance
  <2>7. /\ reservation' = [reservation EXCEPT ![t.key] =
             [status |-> "reserved", account |-> t.account,
              notional |-> t.notional, amount |-> amount]]
        /\ stmt' = [stmt EXCEPT ![s] = IdleStatement]
        /\ UNCHANGED <<order, fills, job, deposit, withdrawal>>
    BY <1>2 DEF reserveConsumerBalance
  <2>8. IdleStatement \in Statement /\ IdleStatement.key = 0
    BY CountsAssumption DEF IdleStatement, Statement
  <2> HIDE DEF t, amount, b
  <2>9. balance' \in [Accounts -> Balance]
    <3>1. b.available - amount \in Nat /\ b.reserved + amount \in Nat
      BY <2>1, <2>3, <2>4
    <3> QED BY <1>0, <2>2, <2>4, <2>5, <3>1, SetBalanceType
  <2>10. book' \in [Accounts -> Entry] /\ posted' \subseteq LedgerKeys
    <3>1. Postings(0, -amount, amount, 0, 0) \in Entry
      BY <2>3 DEF Postings, Entry
    <3>2. <<"reserve", t.key>> \in LedgerKeys
      BY <2>2 DEF LedgerKeys
    <3> QED BY <1>0, <2>2, <2>6, <3>1, <3>2, PostType
  <2>11. [status |-> "reserved", account |-> t.account,
          notional |-> t.notional, amount |-> amount] \in Reservation
    BY <2>2, <2>3 DEF Reservation
  <2>12. TypeOK'
    BY <1>0, <2>2, <2>7, <2>8, <2>9, <2>10, <2>11 DEF TypeOK
  <2>13. RowsBelong'
    BY <1>0, <2>2, <2>7, <2>8 DEF TypeOK, RowsBelong
  <2> QED BY <2>12, <2>13 DEF TypeInv
<1>3. ASSUME NEW s \in Sessions, ReserveRefused(s) PROVE TypeInv'
  <2>1. IdleStatement \in Statement /\ IdleStatement.key = 0
    BY CountsAssumption DEF IdleStatement, Statement
  <2>2. TypeOK'
    BY <1>0, <1>3, <2>1 DEF TypeOK, ReserveRefused, moneyVars
  <2>3. RowsBelong'
    BY <1>0, <1>3, <2>1 DEF TypeOK, RowsBelong, ReserveRefused
  <2> QED BY <2>2, <2>3 DEF TypeInv
<1>4. ASSUME NEW k \in Orders, releaseConsumerReservation(k) PROVE TypeInv'
  <2> DEFINE a == reservation[k].account
             amount == reservation[k].amount
             b == balance[a]
  <2>1. a \in Accounts /\ amount \in Nat
    BY <1>0, <1>4 DEF TypeOK, RowsBelong, Reservation, releaseConsumerReservation
  <2>2. b.available \in Nat /\ b.reserved \in Nat /\ b.open \in Nat
    BY <1>0, <2>1, BalanceColumns
  <2>3. IF b.reserved >= amount
        THEN SetBalance(a, b.available + amount, b.reserved - amount, b.open)
        ELSE UNCHANGED balance
    BY <1>4 DEF releaseConsumerReservation
  <2>4. Post(<<"release", k>>, a, Postings(0, amount, -amount, 0, 0))
    BY <1>4 DEF releaseConsumerReservation
  <2>5. [reservation[k] EXCEPT !.status = "released"] \in Reservation
    BY <1>0 DEF TypeOK, Reservation
  <2> HIDE DEF a, amount, b
  <2>6. balance' \in [Accounts -> Balance]
    <3>1. CASE b.reserved >= amount
      <4>1. b.available + amount \in Nat /\ b.reserved - amount \in Nat
        BY <2>1, <2>2, <3>1
      <4> QED BY <1>0, <2>1, <2>2, <2>3, <3>1, <4>1, SetBalanceType
    <3>2. CASE ~(b.reserved >= amount)
      BY <1>0, <2>3, <3>2 DEF TypeOK
    <3> QED BY <3>1, <3>2
  <2>7. book' \in [Accounts -> Entry] /\ posted' \subseteq LedgerKeys
    <3>1. Postings(0, amount, -amount, 0, 0) \in Entry
      BY <2>1 DEF Postings, Entry
    <3>2. <<"release", k>> \in LedgerKeys
      BY DEF LedgerKeys
    <3> QED BY <1>0, <2>1, <2>4, <3>1, <3>2, PostType
  <2>8. TypeOK'
    BY <1>0, <1>4, <2>5, <2>6, <2>7 DEF TypeOK, releaseConsumerReservation
  <2>9. RowsBelong'
    BY <1>0, <1>4 DEF TypeOK, RowsBelong, Reservation, releaseConsumerReservation
  <2> QED BY <2>8, <2>9 DEF TypeInv
<1>5. ASSUME NEW k \in Orders, markConsumerReservationSubmitted(k) PROVE TypeInv'
  <2>1. [reservation[k] EXCEPT !.status = "submitted"] \in Reservation
    BY <1>0 DEF TypeOK, Reservation
  <2>2. TypeOK'
    BY <1>0, <1>5, <2>1 DEF TypeOK, markConsumerReservationSubmitted, moneyVars
  <2>3. RowsBelong'
    BY <1>0, <1>5 DEF TypeOK, RowsBelong, Reservation, markConsumerReservationSubmitted
  <2> QED BY <2>2, <2>3 DEF TypeInv
<1>6. ASSUME NEW k \in Orders, NEW w \in WorkOrders, recordConsumerVenueOrder(k, w)
      PROVE  TypeInv'
  <2>1. [status |-> "submitted", work |-> w] \in Order
    BY DEF Order
  <2>2. TypeOK'
    BY <1>0, <1>6, <2>1 DEF TypeOK, recordConsumerVenueOrder, moneyVars
  <2>3. RowsBelong'
    BY <1>0, <1>6 DEF RowsBelong, recordConsumerVenueOrder
  <2> QED BY <2>2, <2>3 DEF TypeInv
<1> QED BY <1>1, <1>2, <1>3, <1>4, <1>5, <1>6 DEF ReservationStep

\* The parts of a settlement statement that do not depend on the target row.
LEMMA EvidenceTyped ==
  ASSUME TypeOK, NEW k \in Orders, NEW ref \in FillRefs, NEW filled \in Nat,
         InsertFill(k, ref, filled), CompleteJob(k)
  PROVE  fills' \subseteq Fill /\ job' \in [Orders -> Job]
<1>1. [ref |-> ref, order |-> k, filled |-> filled] \in Fill
  BY DEF Fill
<1>2. fills' \subseteq Fill
  BY <1>1 DEF TypeOK, InsertFill
<1>3. [job[k] EXCEPT !.status = "reconciled"] \in Job
  BY DEF TypeOK, Job
<1>4. job' \in [Orders -> Job]
  BY <1>3 DEF TypeOK, CompleteJob
<1> QED BY <1>2, <1>4

\* What a settlement takes is a natural number.
LEMMA SettledAmountType ==
  ASSUME NEW filled \in Nat, NEW cost \in Nat
  PROVE  /\ SettledAmount(filled, cost) \in Nat
         /\ SettledAmount(filled, cost) = filled + cost + consumerFeeMicroUsdc(filled)
         /\ consumerFeeMicroUsdc(filled) \in Nat
BY FeeType DEF SettledAmount

\* Reconciliation statements keep the tables typed.
LEMMA ReconciliationTyped ==
  ASSUME TypeInv, ReconciliationStep
  PROVE  TypeInv'
<1>0. TypeOK /\ RowsBelong
  BY DEF TypeInv
<1>1. ASSUME NEW k \in Orders, NEW w \in WorkOrders, prepareReconciliation(k, w)
      PROVE  TypeInv'
  <2>1. [status |-> "prepared", work |-> w] \in Job
    BY DEF Job
  <2>2. TypeOK'
    BY <1>0, <1>1, <2>1 DEF TypeOK, prepareReconciliation, moneyVars
  <2>3. RowsBelong'
    BY <1>0, <1>1 DEF RowsBelong, prepareReconciliation
  <2> QED BY <2>2, <2>3 DEF TypeInv
<1>2. ASSUME NEW w \in WorkOrders, enqueueReconciliation(w) PROVE TypeInv'
  <2>1. PICK k \in Orders :
          /\ job' = [job EXCEPT ![k].status = "awaiting_evidence"]
          /\ UNCHANGED <<moneyVars, reservation, stmt, order, fills, deposit, withdrawal>>
    BY <1>2 DEF enqueueReconciliation
  <2>2. [job[k] EXCEPT !.status = "awaiting_evidence"] \in Job
    BY <1>0 DEF TypeOK, Job
  <2>3. TypeOK'
    BY <1>0, <2>1, <2>2 DEF TypeOK, moneyVars
  <2>4. RowsBelong'
    BY <1>0, <2>1 DEF RowsBelong
  <2> QED BY <2>3, <2>4 DEF TypeInv
<1>3. ASSUME NEW late \in SUBSET Orders, processReconciliationDeadlines(late) PROVE TypeInv'
  <2>1. \A k \in Orders : [job[k] EXCEPT !.status = "failed_review"] \in Job /\ job[k] \in Job
    BY <1>0 DEF TypeOK, Job
  <2>2. job' \in [Orders -> Job]
    BY <1>3, <2>1 DEF processReconciliationDeadlines
  <2>3. TypeOK'
    BY <1>0, <1>3, <2>2 DEF TypeOK, processReconciliationDeadlines, moneyVars
  <2>4. RowsBelong'
    BY <1>0, <1>3 DEF RowsBelong, processReconciliationDeadlines
  <2> QED BY <2>3, <2>4 DEF TypeInv
<1>4. ASSUME NEW k \in Orders, NEW ref \in FillRefs, NEW filled \in Nat, NEW cost \in Nat,
             reconcile(k, ref, filled, cost)
      PROVE  TypeInv'
  <2> DEFINE a == reservation[k].account
             amount == reservation[k].amount
             unused == amount - SettledAmount(filled, cost)
             b == balance[a]
  <2>1. a \in Accounts /\ amount \in Nat /\ amount >= SettledAmount(filled, cost)
    BY <1>0, <1>4 DEF TypeOK, RowsBelong, Reservation, reconcile, reconcileConsumerVenueOrder, Settleable
  <2>2. b.available \in Nat /\ b.reserved \in Nat /\ b.open \in Nat
    BY <1>0, <2>1, BalanceColumns
  <2>3. unused \in Nat /\ consumerFeeMicroUsdc(filled) \in Nat
    <3>1. SettledAmount(filled, cost) \in Nat /\ consumerFeeMicroUsdc(filled) \in Nat
      BY SettledAmountType
    <3> QED BY <2>1, <3>1
  <2>4. IF b.reserved >= amount
        THEN SetBalance(a, b.available + unused, b.reserved - amount, b.open + filled)
        ELSE UNCHANGED balance
    BY <1>4 DEF reconcile, reconcileConsumerVenueOrder
  <2>5. Post(<<"settle", k>>, a,
             Postings(0, unused, -amount, filled + cost, consumerFeeMicroUsdc(filled)))
    BY <1>4 DEF reconcile, reconcileConsumerVenueOrder
  <2>6. [reservation[k] EXCEPT !.status = "settled"] \in Reservation
    BY <1>0 DEF TypeOK, Reservation
  <2>7. [order[k] EXCEPT !.status = "reconciled"] \in Order
    BY <1>0 DEF TypeOK, Order
  <2>8. fills' \subseteq Fill /\ job' \in [Orders -> Job]
    BY <1>0, <1>4, EvidenceTyped DEF reconcile, reconcileConsumerVenueOrder
  <2>9. /\ reservation' = [reservation EXCEPT ![k].status = "settled"]
        /\ order' = [order EXCEPT ![k].status = "reconciled"]
        /\ UNCHANGED <<stmt, deposit, withdrawal>>
    BY <1>4 DEF reconcile, reconcileConsumerVenueOrder
  <2> HIDE DEF a, amount, unused, b
  <2>10. balance' \in [Accounts -> Balance]
    <3>1. CASE b.reserved >= amount
      <4>1. b.available + unused \in Nat /\ b.reserved - amount \in Nat /\ b.open + filled \in Nat
        BY <2>1, <2>2, <2>3, <3>1
      <4> QED BY <1>0, <2>1, <2>4, <3>1, <4>1, SetBalanceType
    <3>2. CASE ~(b.reserved >= amount)
      BY <1>0, <2>4, <3>2 DEF TypeOK
    <3> QED BY <3>1, <3>2
  <2>11. book' \in [Accounts -> Entry] /\ posted' \subseteq LedgerKeys
    <3>1. Postings(0, unused, -amount, filled + cost, consumerFeeMicroUsdc(filled)) \in Entry
      BY <2>1, <2>3 DEF Postings, Entry
    <3>2. <<"settle", k>> \in LedgerKeys
      BY DEF LedgerKeys
    <3> QED BY <1>0, <2>1, <2>5, <3>1, <3>2, PostType
  <2>12. TypeOK'
    BY <1>0, <2>6, <2>7, <2>8, <2>9, <2>10, <2>11 DEF TypeOK
  <2>13. RowsBelong'
    BY <1>0, <2>1, <2>9 DEF TypeOK, RowsBelong, Reservation, a
  <2> QED BY <2>12, <2>13 DEF TypeInv
<1>5. ASSUME NEW k \in Orders, NEW ref \in FillRefs, NEW filled \in Nat, NEW cost \in Nat,
             ReconcileRefused(k, ref, filled, cost)
      PROVE  TypeInv'
  <2>1. fills' \subseteq Fill /\ job' \in [Orders -> Job]
    BY <1>0, <1>5, EvidenceTyped DEF ReconcileRefused
  <2>2. TypeOK'
    BY <1>0, <1>5, <2>1 DEF TypeOK, ReconcileRefused, moneyVars
  <2>3. RowsBelong'
    BY <1>0, <1>5 DEF RowsBelong, ReconcileRefused
  <2> QED BY <2>2, <2>3 DEF TypeInv
<1>6. (\A x \in Notionals \cup {0} : x \in Nat) /\ (\A x \in VenueCosts : x \in Nat)
  BY AmountsPositive
<1> QED BY <1>1, <1>2, <1>3, <1>4, <1>5, <1>6 DEF ReconciliationStep

\* Withdrawal statements keep the tables typed.
LEMMA WithdrawalTyped ==
  ASSUME TypeInv, WithdrawalStep
  PROVE  TypeInv'
<1>0. TypeOK /\ RowsBelong
  BY DEF TypeInv
<1>1. ASSUME NEW w \in Withdrawals, NEW a \in Accounts, NEW n \in Transfers,
             createConsumerWithdrawal(w, a, n)
      PROVE  TypeInv'
  <2> DEFINE b == balance[a]
  <2>0. n \in Nat
    BY AmountsPositive
  <2>1. n \in Nat /\ b.available >= n
    BY <1>1, <2>0 DEF createConsumerWithdrawal
  <2>2. b.available \in Nat /\ b.reserved \in Nat /\ b.open \in Nat
    BY <1>0, BalanceColumns
  <2>3. SetBalance(a, b.available - n, b.reserved, b.open)
    BY <1>1 DEF createConsumerWithdrawal
  <2>4. balance' \in [Accounts -> Balance]
    <3>1. b.available - n \in Nat
      BY <2>1, <2>2
    <3> HIDE DEF b
    <3> QED BY <1>0, <2>2, <2>3, <3>1, SetBalanceType
  <2>5. book' \in [Accounts -> Entry] /\ posted' \subseteq LedgerKeys
    <3>1. Postings(n, -n, 0, 0, 0) \in Entry
      BY <2>1 DEF Postings, Entry
    <3>2. <<"withdrawal", w>> \in LedgerKeys
      BY DEF LedgerKeys
    <3> QED BY <1>0, <1>1, <3>1, <3>2, PostType DEF createConsumerWithdrawal
  <2>6. [status |-> "queued", account |-> a, amount |-> n, fresh |-> FALSE,
         message |-> NoSignature, signature |-> NoSignature] \in Withdrawal
    BY <2>1 DEF Withdrawal
  <2>7. TypeOK'
    BY <1>0, <1>1, <2>4, <2>5, <2>6 DEF TypeOK, createConsumerWithdrawal, orderVars
  <2>8. RowsBelong'
    BY <1>0, <1>1 DEF TypeOK, RowsBelong, createConsumerWithdrawal, orderVars
  <2> QED BY <2>7, <2>8 DEF TypeInv
<1>2. ASSUME NEW w \in Withdrawals, cancelConsumerWithdrawal(w) PROVE TypeInv'
  <2> DEFINE a == withdrawal[w].account
             amount == withdrawal[w].amount
             b == balance[a]
  <2>1. a \in Accounts /\ amount \in Nat
    BY <1>0, <1>2 DEF TypeOK, RowsBelong, Withdrawal, cancelConsumerWithdrawal
  <2>2. b.available \in Nat /\ b.reserved \in Nat /\ b.open \in Nat
    BY <1>0, <2>1, BalanceColumns
  <2>3. SetBalance(a, b.available + amount, b.reserved, b.open)
    BY <1>2 DEF cancelConsumerWithdrawal
  <2>4. Post(<<"withdrawal_release", w>>, a, Postings(-amount, amount, 0, 0, 0))
    BY <1>2 DEF cancelConsumerWithdrawal
  <2>5. [withdrawal[w] EXCEPT !.status = "cancelled"] \in Withdrawal
    BY <1>0 DEF TypeOK, Withdrawal
  <2> HIDE DEF a, amount, b
  <2>6. balance' \in [Accounts -> Balance]
    <3>1. b.available + amount \in Nat
      BY <2>1, <2>2
    <3> QED BY <1>0, <2>1, <2>2, <2>3, <3>1, SetBalanceType
  <2>7. book' \in [Accounts -> Entry] /\ posted' \subseteq LedgerKeys
    <3>1. Postings(-amount, amount, 0, 0, 0) \in Entry
      BY <2>1 DEF Postings, Entry
    <3>2. <<"withdrawal_release", w>> \in LedgerKeys
      BY DEF LedgerKeys
    <3> QED BY <1>0, <2>1, <2>4, <3>1, <3>2, PostType
  <2>8. TypeOK'
    BY <1>0, <1>2, <2>5, <2>6, <2>7 DEF TypeOK, cancelConsumerWithdrawal, orderVars
  <2>9. RowsBelong'
    BY <1>0, <1>2 DEF TypeOK, RowsBelong, Withdrawal, cancelConsumerWithdrawal, orderVars
  <2> QED BY <2>8, <2>9 DEF TypeInv
<1>3. ASSUME NEW w \in Withdrawals, NEW row \in Withdrawal,
             row.account = withdrawal[w].account, withdrawal[w].status # "none",
             withdrawal' = [withdrawal EXCEPT ![w] = row],
             UNCHANGED <<moneyVars, orderVars, deposit>>
      PROVE  TypeInv'
  <2>1. TypeOK'
    BY <1>0, <1>3 DEF TypeOK, moneyVars, orderVars
  <2>2. RowsBelong'
    BY <1>0, <1>3 DEF TypeOK, RowsBelong, orderVars
  <2> QED BY <2>1, <2>2 DEF TypeInv
<1>4. ASSUME NEW w \in Withdrawals, NEW m \in Signatures PROVE
        /\ prepareConsumerWithdrawal(w, m) => TypeInv'
        /\ submitPreparedConsumerWithdrawal(w, m) => TypeInv'
        /\ WithdrawalDispatched(w, m) => TypeInv'
  <2>1. /\ [withdrawal[w] EXCEPT !.status = "prepared", !.message = m, !.fresh = TRUE]
             \in Withdrawal
        /\ [withdrawal[w] EXCEPT !.status = "submitted", !.signature = m] \in Withdrawal
        /\ withdrawal[w] \in Withdrawal
    BY <1>0 DEF TypeOK, Withdrawal
  <2>2. ASSUME prepareConsumerWithdrawal(w, m) PROVE TypeInv'
    <3>1. withdrawal' = [withdrawal EXCEPT ![w] =
            [withdrawal[w] EXCEPT !.status = "prepared", !.message = m, !.fresh = TRUE]]
      BY <1>0, <2>1, <2>2 DEF TypeOK, Withdrawal, prepareConsumerWithdrawal
    <3>2. /\ [withdrawal[w] EXCEPT !.status = "prepared", !.message = m, !.fresh = TRUE].account
               = withdrawal[w].account
          /\ withdrawal[w].status # "none"
          /\ UNCHANGED <<moneyVars, orderVars, deposit>>
      BY <2>1, <2>2 DEF prepareConsumerWithdrawal, Withdrawal
    <3> QED BY <1>3, <2>1, <3>1, <3>2
  <2>3. ASSUME submitPreparedConsumerWithdrawal(w, m) \/ WithdrawalDispatched(w, m)
        PROVE  TypeInv'
    <3>1. withdrawal' = [withdrawal EXCEPT ![w] =
            [withdrawal[w] EXCEPT !.status = "submitted", !.signature = m]]
      BY <1>0, <2>1, <2>3
         DEF TypeOK, Withdrawal, submitPreparedConsumerWithdrawal, WithdrawalDispatched
    <3>2. /\ [withdrawal[w] EXCEPT !.status = "submitted", !.signature = m].account
               = withdrawal[w].account
          /\ withdrawal[w].status # "none"
          /\ UNCHANGED <<moneyVars, orderVars, deposit>>
      BY <2>1, <2>3 DEF submitPreparedConsumerWithdrawal, WithdrawalDispatched, Withdrawal
    <3> QED BY <1>3, <2>1, <3>1, <3>2
  <2> QED BY <2>2, <2>3
<1>5. ASSUME NEW w \in Withdrawals, PreparedWithdrawalExpires(w) PROVE TypeInv'
  <2>1. /\ [withdrawal[w] EXCEPT !.fresh = FALSE] \in Withdrawal
        /\ [withdrawal[w] EXCEPT !.fresh = FALSE].account = withdrawal[w].account
    BY <1>0 DEF TypeOK, Withdrawal
  <2> QED BY <1>3, <1>5, <2>1 DEF PreparedWithdrawalExpires
<1>6. ASSUME NEW w \in Withdrawals,
             NEW v \in {"dispatching", "failed_review", "finalized"},
             withdrawal[w].status # "none",
             withdrawal' = [withdrawal EXCEPT ![w].status = v],
             UNCHANGED <<moneyVars, orderVars, deposit>>
      PROVE  TypeInv'
  <2>1. /\ [withdrawal[w] EXCEPT !.status = v] \in Withdrawal
        /\ [withdrawal[w] EXCEPT !.status = v].account = withdrawal[w].account
    BY <1>0 DEF TypeOK, Withdrawal
  <2> QED BY <1>3, <1>6, <2>1
<1>7. ASSUME NEW w \in Withdrawals PROVE
        /\ ClaimWithdrawal(w) => TypeInv'
        /\ markWithdrawalReview(w) => TypeInv'
        /\ \A v \in {"finalized", "failed_review"} : FinalizeWithdrawal(w, v) => TypeInv'
  BY <1>6 DEF ClaimWithdrawal, markWithdrawalReview, FinalizeWithdrawal
<1> QED BY <1>1, <1>2, <1>4, <1>5, <1>7 DEF WithdrawalStep

\* Stuttering changes nothing.
LEMMA StutterTyped ==
  ASSUME TypeInv, UNCHANGED vars
  PROVE  TypeInv'
BY DEF TypeInv, TypeOK, RowsBelong, vars

\* The empty database is typed.
LEMMA InitTyped ==
  ASSUME Init
  PROVE  TypeInv
BY CountsAssumption
   DEF Init, TypeInv, TypeOK, RowsBelong, Balance, Entry, Postings, Reservation, Statement,
       IdleStatement, Order, Job, Deposit, Withdrawal

\* Every statement keeps the tables typed.
LEMMA StepTyped ==
  ASSUME TypeInv, [Next]_vars
  PROVE  TypeInv'
BY DepositTyped, ReservationTyped, ReconciliationTyped, WithdrawalTyped, StutterTyped DEF Next

\* Every statement that the web tier or the worker runs leaves each table
\* with rows of its type, and every row that a statement refers to belongs
\* to an account: no balance column ever goes below zero.
THEOREM TypeCorrect == Spec => []TypeOK
<1>1. Init => TypeInv
  BY InitTyped
<1>2. TypeInv /\ [Next]_vars => TypeInv'
  BY StepTyped
<1>3. TypeInv => TypeOK
  BY DEF TypeInv
<1> QED BY <1>1, <1>2, <1>3, PTL DEF Spec

-----------------------------------------------------------------------------
(* Rows and the ledger transactions that explain them.                     *)

\* The invariant that ties a row to the ledger and an order to its
\* reservation.
RowsInv == OrderFollowsReservation /\ LedgerExplainsRows

\* A statement that leaves rows and ledger keys alone.
LEMMA RowsQuiet ==
  ASSUME RowsInv, UNCHANGED <<posted, reservation, order, deposit, withdrawal>>
  PROVE  RowsInv'
BY DEF RowsInv, OrderFollowsReservation, LedgerExplainsRows

\* A statement that changes the status of one withdrawal and posts nothing:
\* it must neither create, cancel nor revive the row.
LEMMA WithdrawalQuiet ==
  ASSUME TypeInv, RowsInv, UNCHANGED <<posted, orderVars, deposit>>, NEW w \in Withdrawals,
         withdrawal[w].status \notin {"none", "cancelled"},
         withdrawal'[w].status \notin {"none", "cancelled"},
         \A v \in Withdrawals : v # w => withdrawal'[v] = withdrawal[v]
  PROVE  RowsInv'
BY DEF RowsInv, OrderFollowsReservation, LedgerExplainsRows, orderVars

\* Deposits: a posting appears with the confirmation of its intent.
LEMMA DepositRows ==
  ASSUME TypeInv, RowsInv, DepositStep
  PROVE  RowsInv'
<1>0. deposit \in [Deposits -> Deposit]
  BY DEF TypeInv, TypeOK
<1>1. ASSUME NEW d \in Deposits, NEW a \in Accounts, NEW n \in Transfers,
             createConsumerDepositIntent(d, a, n)
      PROVE  RowsInv'
  BY <1>0, <1>1 DEF createConsumerDepositIntent, RowsInv, OrderFollowsReservation,
     LedgerExplainsRows, moneyVars, orderVars
<1>2. ASSUME NEW d \in Deposits, DepositIntentExpires(d) PROVE RowsInv'
  BY <1>0, <1>2 DEF DepositIntentExpires, RowsInv, OrderFollowsReservation,
     LedgerExplainsRows, moneyVars, orderVars, Deposit
<1>3. ASSUME NEW d \in Deposits, NEW sig \in Signatures, confirmConsumerDeposit(d, sig)
      PROVE  RowsInv'
  <2>1. /\ posted' = posted \cup {<<"deposit", d>>}
        /\ UNCHANGED <<orderVars, withdrawal>>
        /\ \A e \in Deposits : deposit'[e].status = IF e = d THEN "confirmed" ELSE deposit[e].status
    BY <1>0, <1>3 DEF confirmConsumerDeposit, Post, Deposit
  <2> QED BY <2>1 DEF RowsInv, OrderFollowsReservation, LedgerExplainsRows, orderVars
<1>4. ASSUME NEW i \in Incidents, NEW a \in Accounts, NEW delta,
             createConsumerBalanceAdjustment(i, a, delta)
      PROVE  RowsInv'
  <2>1. posted' = posted \cup {<<"adjustment", i>>} /\ UNCHANGED <<orderVars, deposit, withdrawal>>
    BY <1>4 DEF createConsumerBalanceAdjustment, Post
  <2> QED BY <2>1 DEF RowsInv, OrderFollowsReservation, LedgerExplainsRows, orderVars
<1> QED BY <1>1, <1>2, <1>3, <1>4 DEF DepositStep

\* Reservations: reserve and release post with the row they write.
LEMMA ReservationRows ==
  ASSUME TypeInv, RowsInv, ReservationStep
  PROVE  RowsInv'
<1>0. reservation \in [Orders -> Reservation] /\ order \in [Orders -> Order] /\ RowsBelong
  BY DEF TypeInv, TypeOK
<1>1. ASSUME NEW s \in Sessions PROVE
        /\ ReserveRefused(s) => RowsInv'
        /\ \A k \in Orders, a \in Accounts, n \in Notionals, c \in VenueCosts :
             BeginReserve(s, k, a, n, c) => RowsInv'
  BY RowsQuiet DEF ReserveRefused, BeginReserve, moneyVars
<1>2. ASSUME NEW s \in Sessions, reserveConsumerBalance(s) PROVE RowsInv'
  <2>1. stmt[s].key \in Orders
    BY <1>0, <1>2 DEF reserveConsumerBalance, RowsBelong
  <2> DEFINE k == stmt[s].key
  <2>2. /\ posted' = posted \cup {<<"reserve", k>>}
        /\ UNCHANGED <<order, deposit, withdrawal>>
        /\ reservation[k].status = "none"
        /\ \A j \in Orders :
             reservation'[j].status = IF j = k THEN "reserved" ELSE reservation[j].status
    BY <1>0, <1>2, <2>1 DEF reserveConsumerBalance, Post
  <2> HIDE DEF k
  <2> QED BY <2>1, <2>2 DEF RowsInv, OrderFollowsReservation, LedgerExplainsRows, k
<1>3. ASSUME NEW k \in Orders, releaseConsumerReservation(k) PROVE RowsInv'
  <2>1. /\ posted' = posted \cup {<<"release", k>>}
        /\ UNCHANGED <<order, deposit, withdrawal>>
        /\ reservation[k].status = "reserved"
        /\ \A j \in Orders :
             reservation'[j].status = IF j = k THEN "released" ELSE reservation[j].status
    BY <1>0, <1>3 DEF releaseConsumerReservation, Post, Reservation
  <2> QED BY <1>0, <2>1 DEF RowsInv, OrderFollowsReservation, LedgerExplainsRows, Order
<1>4. ASSUME NEW k \in Orders, markConsumerReservationSubmitted(k) PROVE RowsInv'
  <2>1. /\ UNCHANGED <<posted, order, deposit, withdrawal>>
        /\ reservation[k].status = "reserved"
        /\ \A j \in Orders :
             reservation'[j].status = IF j = k THEN "submitted" ELSE reservation[j].status
    BY <1>0, <1>4 DEF markConsumerReservationSubmitted, Reservation, moneyVars
  <2> QED BY <1>0, <2>1 DEF RowsInv, OrderFollowsReservation, LedgerExplainsRows, Order
<1>5. ASSUME NEW k \in Orders, NEW w \in WorkOrders, recordConsumerVenueOrder(k, w)
      PROVE  RowsInv'
  <2>1. /\ UNCHANGED <<posted, reservation, deposit, withdrawal>>
        /\ reservation[k].status = "submitted"
        /\ \A j \in Orders : order'[j].status = IF j = k THEN "submitted" ELSE order[j].status
    BY <1>0, <1>5 DEF recordConsumerVenueOrder, moneyVars
  <2> QED BY <2>1 DEF RowsInv, OrderFollowsReservation, LedgerExplainsRows
<1> QED BY <1>1, <1>2, <1>3, <1>4, <1>5 DEF ReservationStep

\* Reconciliation: the settlement posts, settles and closes the order at once.
LEMMA ReconciliationRows ==
  ASSUME TypeInv, RowsInv, ReconciliationStep
  PROVE  RowsInv'
<1>0. reservation \in [Orders -> Reservation] /\ order \in [Orders -> Order]
  BY DEF TypeInv, TypeOK
<1>1. ASSUME NEW k \in Orders, NEW ref \in FillRefs, NEW filled, NEW cost,
             reconcile(k, ref, filled, cost)
      PROVE  RowsInv'
  <2>1. /\ posted' = posted \cup {<<"settle", k>>}
        /\ UNCHANGED <<deposit, withdrawal>>
        /\ order[k].status = "submitted" /\ reservation[k].status = "submitted"
    BY <1>1 DEF reconcile, reconcileConsumerVenueOrder, Settleable, Post
  <2>2. \A j \in Orders :
          /\ reservation'[j].status = IF j = k THEN "settled" ELSE reservation[j].status
          /\ order'[j].status = IF j = k THEN "reconciled" ELSE order[j].status
    BY <1>0, <1>1 DEF reconcile, reconcileConsumerVenueOrder, Reservation, Order
  <2> QED BY <1>0, <2>1, <2>2 DEF RowsInv, OrderFollowsReservation, LedgerExplainsRows, Order
<1>2. ASSUME NEW k \in Orders, NEW ref \in FillRefs, NEW filled, NEW cost,
             ReconcileRefused(k, ref, filled, cost)
      PROVE  RowsInv'
  BY <1>2, RowsQuiet DEF ReconcileRefused, moneyVars
<1>3. ASSUME NEW k \in Orders, NEW w \in WorkOrders, prepareReconciliation(k, w)
      PROVE  RowsInv'
  BY <1>3, RowsQuiet DEF prepareReconciliation, moneyVars
<1>4. ASSUME NEW w \in WorkOrders, enqueueReconciliation(w) PROVE RowsInv'
  BY <1>4, RowsQuiet DEF enqueueReconciliation, moneyVars
<1>5. ASSUME NEW late \in SUBSET Orders, processReconciliationDeadlines(late) PROVE RowsInv'
  BY <1>5, RowsQuiet DEF processReconciliationDeadlines, moneyVars
<1> QED BY <1>1, <1>2, <1>3, <1>4, <1>5 DEF ReconciliationStep

\* Withdrawals: the debit posts with the row, the refund with the
\* cancellation, and no other statement enters or leaves "cancelled".
LEMMA WithdrawalRows ==
  ASSUME TypeInv, RowsInv, WithdrawalStep
  PROVE  RowsInv'
<1>0. withdrawal \in [Withdrawals -> Withdrawal]
  BY DEF TypeInv, TypeOK
<1>1. ASSUME NEW w \in Withdrawals, NEW a \in Accounts, NEW n \in Transfers,
             createConsumerWithdrawal(w, a, n)
      PROVE  RowsInv'
  <2>1. /\ posted' = posted \cup {<<"withdrawal", w>>}
        /\ UNCHANGED <<orderVars, deposit>>
        /\ withdrawal[w].status = "none"
        /\ \A v \in Withdrawals :
             withdrawal'[v].status = IF v = w THEN "queued" ELSE withdrawal[v].status
    BY <1>0, <1>1 DEF createConsumerWithdrawal, Post
  <2> QED BY <2>1 DEF RowsInv, OrderFollowsReservation, LedgerExplainsRows, orderVars
<1>2. ASSUME NEW w \in Withdrawals, cancelConsumerWithdrawal(w) PROVE RowsInv'
  <2>1. /\ posted' = posted \cup {<<"withdrawal_release", w>>}
        /\ UNCHANGED <<orderVars, deposit>>
        /\ withdrawal[w].status # "none"
        /\ \A v \in Withdrawals :
             withdrawal'[v].status = IF v = w THEN "cancelled" ELSE withdrawal[v].status
    BY <1>0, <1>2 DEF cancelConsumerWithdrawal, Post, Withdrawal
  <2> QED BY <2>1 DEF RowsInv, OrderFollowsReservation, LedgerExplainsRows, orderVars
<1>3. ASSUME NEW w \in Withdrawals, NEW m \in Signatures PROVE
        /\ prepareConsumerWithdrawal(w, m) => RowsInv'
        /\ submitPreparedConsumerWithdrawal(w, m) => RowsInv'
        /\ WithdrawalDispatched(w, m) => RowsInv'
  BY <1>0, WithdrawalQuiet DEF prepareConsumerWithdrawal, submitPreparedConsumerWithdrawal,
     WithdrawalDispatched, moneyVars, Withdrawal
<1>4. ASSUME NEW w \in Withdrawals PROVE
        /\ PreparedWithdrawalExpires(w) => RowsInv'
        /\ ClaimWithdrawal(w) => RowsInv'
        /\ markWithdrawalReview(w) => RowsInv'
        /\ \A v \in {"finalized", "failed_review"} : FinalizeWithdrawal(w, v) => RowsInv'
  BY <1>0, WithdrawalQuiet DEF PreparedWithdrawalExpires, ClaimWithdrawal, markWithdrawalReview,
     FinalizeWithdrawal, moneyVars, Withdrawal
<1> QED BY <1>1, <1>2, <1>3, <1>4 DEF WithdrawalStep

\* Rows and ledger keys stay together under every statement.
LEMMA RowsInvariant == Spec => [](TypeInv /\ RowsInv)
<1>1. Init => TypeInv /\ RowsInv
  <2>1. Init => RowsInv
    BY DEF Init, RowsInv, OrderFollowsReservation, LedgerExplainsRows
  <2> QED BY <2>1, InitTyped
<1>2. TypeInv /\ RowsInv /\ [Next]_vars => (TypeInv /\ RowsInv)'
  <2>1. ASSUME TypeInv, RowsInv, UNCHANGED vars PROVE RowsInv'
    BY <2>1, RowsQuiet DEF vars
  <2> QED BY <2>1, StepTyped, DepositRows, ReservationRows, ReconciliationRows, WithdrawalRows
          DEF Next
<1> QED BY <1>1, <1>2, PTL DEF Spec

\* A venue order is reconciled exactly when its reservation is settled, and
\* a submitted order always has its money held: releaseConsumerReservation,
\* recordConsumerVenueOrder and the settlement cannot cross.
THEOREM OrdersFollow == Spec => []OrderFollowsReservation
<1>1. RowsInv => OrderFollowsReservation
  BY DEF RowsInv
<1> QED BY <1>1, RowsInvariant, PTL

\* Every reservation, deposit and withdrawal row has exactly the ledger
\* transactions its status calls for: no statement is stopped by an
\* idempotency key another one used, none posts twice.
THEOREM LedgerExplains == Spec => []LedgerExplainsRows
<1>1. RowsInv => LedgerExplainsRows
  BY DEF RowsInv
<1> QED BY <1>1, RowsInvariant, PTL

-----------------------------------------------------------------------------
(* The daily limit under concurrent statements.                            *)

\* Notional that a running reservation statement may still add to the day:
\* its snapshot leaves room for it.
PendingColumn(a) ==
  [s \in Sessions |->
     IF stmt[s].key # 0 /\ stmt[s].account = a /\ stmt[s].daily + stmt[s].notional <= MaxDaily
     THEN stmt[s].notional ELSE 0]

\* What the day may come to when every running statement that can commit has.
DailyInv ==
  \A a \in Accounts :
    DailyNotional(a) + Total(PendingColumn(a), NSessions) <= MaxDaily + (NSessions - 1) * MaxOrder

\* The pending column is a column of naturals, none above the order limit.
LEMMA PendingType ==
  ASSUME TypeInv, NEW a
  PROVE  /\ PendingColumn(a) \in [1..NSessions -> Nat]
         /\ \A s \in 1..NSessions : PendingColumn(a)[s] <= MaxOrder
         /\ Total(PendingColumn(a), NSessions) \in Nat
<1>1. ASSUME NEW s \in Sessions
      PROVE  PendingColumn(a)[s] \in Nat /\ PendingColumn(a)[s] <= MaxOrder
  <2>1. stmt[s].key # 0 => stmt[s].notional \in Nat /\ stmt[s].notional <= MaxOrder
    BY AmountsPositive DEF TypeInv, RowsBelong
  <2> QED BY <2>1, LimitsAssumption DEF PendingColumn
<1>2. PendingColumn(a) \in [1..NSessions -> Nat]
  BY <1>1 DEF PendingColumn, Sessions
<1>3. NSessions \in Nat
  BY CountsAssumption
<1> QED BY <1>1, <1>2, <1>3, TotalBound DEF Sessions

\* A step that changes one statement moves the pending total by the change
\* of that statement's entry.
LEMMA PendingChange ==
  ASSUME TypeInv, TypeInv', NEW a, NEW s \in Sessions,
         \A t \in Sessions : t # s => stmt'[t] = stmt[t]
  PROVE  /\ Total(PendingColumn(a), NSessions)'
              = Total(PendingColumn(a), NSessions) + PendingColumn(a)'[s] - PendingColumn(a)[s]
         /\ PendingColumn(a)'[s] \in Nat /\ PendingColumn(a)[s] \in Nat
<1> DEFINE v == PendingColumn(a)'
           w == PendingColumn(a)
<1>1. w \in [1..NSessions -> Nat]
  BY PendingType
<1>2. v \in [1..NSessions -> Nat]
  <2>1. ASSUME NEW t \in Sessions PROVE v[t] \in Nat
    <3>1. stmt'[t].key # 0 => stmt'[t].notional \in Nat
      BY AmountsPositive DEF TypeInv, RowsBelong
    <3> QED BY <3>1 DEF PendingColumn
  <2> QED BY <2>1 DEF PendingColumn, Sessions
<1>3. NSessions \in Nat /\ s \in 1..NSessions
  BY CountsAssumption DEF Sessions
<1>4. \A t \in 1..NSessions : t # s => v[t] = w[t]
  BY DEF PendingColumn, Sessions
<1>5. Total(PendingColumn(a), NSessions)' = Total(v, NSessions)
  OBVIOUS
<1> HIDE DEF v, w
<1>6. Total(v, NSessions) = Total(w, NSessions) + v[s] - w[s]
  BY <1>1, <1>2, <1>3, <1>4, NatColumn, TotalUpdate
<1>7. v[s] \in Nat /\ w[s] \in Nat
  BY <1>1, <1>2, <1>3
<1> QED BY <1>5, <1>6, <1>7 DEF v, w

\* A step that changes one reservation moves the daily sum by the change of
\* that row's entry.
LEMMA DailyChange ==
  ASSUME TypeInv, TypeInv', NEW a, NEW k \in Orders,
         \A j \in Orders : j # k => reservation'[j] = reservation[j]
  PROVE  /\ DailyNotional(a)' = DailyNotional(a) + DailyColumn(a)'[k] - DailyColumn(a)[k]
         /\ DailyColumn(a)'[k] \in Nat /\ DailyColumn(a)[k] \in Nat
<1> DEFINE v == DailyColumn(a)'
           w == DailyColumn(a)
<1>1. w \in [1..NOrders -> Nat]
  BY ColumnsType DEF TypeInv, Orders
<1>2. v \in [1..NOrders -> Nat]
  <2>1. \A j \in Orders : reservation'[j].notional \in Nat
    BY DEF TypeInv, TypeOK, Reservation
  <2> QED BY <2>1 DEF DailyColumn, Orders
<1>3. NOrders \in Nat /\ k \in 1..NOrders
  BY CountsAssumption DEF Orders
<1>4. \A j \in 1..NOrders : j # k => v[j] = w[j]
  BY DEF DailyColumn, Orders
<1>5. DailyNotional(a)' = Total(v, NOrders) /\ DailyNotional(a) = Total(w, NOrders)
  BY DEF DailyNotional
<1> HIDE DEF v, w
<1>6. Total(v, NOrders) = Total(w, NOrders) + v[k] - w[k]
  BY <1>1, <1>2, <1>3, <1>4, NatColumn, TotalUpdate
<1>7. v[k] \in Nat /\ w[k] \in Nat
  BY <1>1, <1>2, <1>3
<1> QED BY <1>5, <1>6, <1>7 DEF v, w

\* A statement that touches neither reservations nor running statements.
LEMMA DailyQuiet ==
  ASSUME DailyInv, UNCHANGED <<reservation, stmt>>
  PROVE  DailyInv'
BY DEF DailyInv, DailyNotional, DailyColumn, PendingColumn

\* The bounds of the day as numbers.
LEMMA DailyNumbers ==
  ASSUME TypeInv, NEW a
  PROVE  /\ DailyNotional(a) \in Nat /\ Total(PendingColumn(a), NSessions) \in Nat
         /\ MaxDaily \in Nat /\ (NSessions - 1) * MaxOrder \in Nat
<1>1. NSessions - 1 \in Nat /\ MaxOrder \in Nat
  BY CountsAssumption, LimitsAssumption
<1>2. (NSessions - 1) * MaxOrder \in Nat
  BY <1>1
<1> QED BY <1>2, DailyType, PendingType, LimitsAssumption DEF TypeInv

\* BeginReserve: the snapshot is the day as it stands, so a statement that
\* can commit starts at or below the limit, and the others add one order
\* each at most.
LEMMA BeginDaily ==
  ASSUME TypeInv, TypeInv', DailyInv, NEW s \in Sessions, NEW k \in Orders, NEW b \in Accounts,
         NEW n \in Notionals, NEW c \in VenueCosts, BeginReserve(s, k, b, n, c)
  PROVE  DailyInv'
<1> SUFFICES ASSUME NEW a \in Accounts
             PROVE  DailyNotional(a)' + Total(PendingColumn(a), NSessions)'
                      <= MaxDaily + (NSessions - 1) * MaxOrder
  BY DEF DailyInv
<1>1. /\ stmt[s].key = 0 /\ reservation' = reservation
      /\ \A t \in Sessions : t # s => stmt'[t] = stmt[t]
      /\ stmt'[s].key = k /\ stmt'[s].account = b /\ stmt'[s].notional = n
      /\ stmt'[s].daily = DailyNotional(b)
  BY DEF BeginReserve, TypeInv, TypeOK
<1>2. DailyNotional(a)' = DailyNotional(a)
  BY <1>1 DEF DailyNotional, DailyColumn
<1>3. PendingColumn(a)[s] = 0
  BY <1>1 DEF PendingColumn
<1>4. /\ Total(PendingColumn(a), NSessions)'
           = Total(PendingColumn(a), NSessions) + PendingColumn(a)'[s] - PendingColumn(a)[s]
      /\ PendingColumn(a)'[s] \in Nat
  BY <1>1, PendingChange
<1>5. PendingColumn(a)'[s] = IF b = a /\ DailyNotional(b) + n <= MaxDaily THEN n ELSE 0
  BY <1>1, CountsAssumption DEF PendingColumn, Orders
<1>6. DailyNotional(a) + Total(PendingColumn(a), NSessions) <= MaxDaily + (NSessions - 1) * MaxOrder
  BY DEF DailyInv
<1>7. Total(PendingColumn(a), NSessions) <= (NSessions - 1) * MaxOrder
  <2>1. NSessions \in Nat /\ s \in 1..NSessions /\ MaxOrder \in Nat
    BY CountsAssumption, LimitsAssumption DEF Sessions
  <2> QED BY <1>3, <2>1, PendingType, TotalCap
<1>8. /\ DailyNotional(a) \in Nat /\ Total(PendingColumn(a), NSessions) \in Nat
      /\ MaxDaily \in Nat /\ (NSessions - 1) * MaxOrder \in Nat /\ n \in Nat
  BY DailyNumbers, AmountsPositive
<1> DEFINE bound == (NSessions - 1) * MaxOrder
           pending == Total(PendingColumn(a), NSessions)
<1>9. bound \in Nat /\ pending \in Nat /\ pending <= bound
        /\ DailyNotional(a) + pending <= MaxDaily + bound
        /\ Total(PendingColumn(a), NSessions)' = pending + PendingColumn(a)'[s]
  BY <1>3, <1>4, <1>6, <1>7, <1>8
<1> HIDE DEF bound, pending
<1>10. CASE b = a /\ DailyNotional(b) + n <= MaxDaily
  <2>1. DailyNotional(a)' + Total(PendingColumn(a), NSessions)' <= MaxDaily + bound
    BY <1>2, <1>5, <1>8, <1>9, <1>10
  <2> QED BY <2>1 DEF bound
<1>11. CASE ~(b = a /\ DailyNotional(b) + n <= MaxDaily)
  <2>1. DailyNotional(a)' + Total(PendingColumn(a), NSessions)' <= MaxDaily + bound
    BY <1>2, <1>5, <1>8, <1>9, <1>11
  <2> QED BY <2>1 DEF bound
<1> QED BY <1>10, <1>11

\* A statement that ends moves its entry from pending to the day, or drops it.
LEMMA EndDaily ==
  ASSUME TypeInv, TypeInv', DailyInv, NEW s \in Sessions,
         \A t \in Sessions : t # s => stmt'[t] = stmt[t], stmt'[s].key = 0,
         \A a \in Accounts : DailyNotional(a)' <= DailyNotional(a) + PendingColumn(a)[s]
  PROVE  DailyInv'
<1> SUFFICES ASSUME NEW a \in Accounts
             PROVE  DailyNotional(a)' + Total(PendingColumn(a), NSessions)'
                      <= MaxDaily + (NSessions - 1) * MaxOrder
  BY DEF DailyInv
<1>1. PendingColumn(a)'[s] = 0
  BY DEF PendingColumn
<1>2. /\ Total(PendingColumn(a), NSessions)'
           = Total(PendingColumn(a), NSessions) + PendingColumn(a)'[s] - PendingColumn(a)[s]
      /\ PendingColumn(a)[s] \in Nat
  BY PendingChange
<1>3. DailyNotional(a) + Total(PendingColumn(a), NSessions) <= MaxDaily + (NSessions - 1) * MaxOrder
  BY DEF DailyInv
<1>4. /\ DailyNotional(a) \in Nat /\ Total(PendingColumn(a), NSessions) \in Nat
      /\ MaxDaily \in Nat /\ (NSessions - 1) * MaxOrder \in Nat
  BY DailyNumbers
<1>5. DailyNotional(a)' \in Nat
  <2>1. \A j \in Orders : reservation'[j].notional \in Nat
    BY DEF TypeInv, TypeOK, Reservation
  <2>2. DailyColumn(a)' \in [1..NOrders -> Nat] /\ NOrders \in Nat
    BY <2>1, CountsAssumption DEF DailyColumn, Orders
  <2> QED BY <2>2, TotalBound DEF DailyNotional
<1> QED BY <1>1, <1>2, <1>3, <1>4, <1>5

\* A reservation that changes status without adding to the day.
LEMMA CloseDaily ==
  ASSUME TypeInv, TypeInv', DailyInv, NEW k \in Orders, UNCHANGED stmt,
         reservation[k].status \notin {"none", "released"},
         NEW final, reservation' = [reservation EXCEPT ![k].status = final]
  PROVE  DailyInv'
<1> SUFFICES ASSUME NEW a \in Accounts
             PROVE  DailyNotional(a)' + Total(PendingColumn(a), NSessions)'
                      <= MaxDaily + (NSessions - 1) * MaxOrder
  BY DEF DailyInv
<1>1. /\ reservation'[k].account = reservation[k].account
      /\ reservation'[k].notional = reservation[k].notional
      /\ reservation[k].notional \in Nat
      /\ \A j \in Orders : j # k => reservation'[j] = reservation[j]
  BY DEF TypeInv, TypeOK, Reservation
<1>2. /\ DailyNotional(a)' = DailyNotional(a) + DailyColumn(a)'[k] - DailyColumn(a)[k]
      /\ DailyColumn(a)'[k] \in Nat /\ DailyColumn(a)[k] \in Nat
  BY <1>1, DailyChange
<1>3. DailyColumn(a)'[k] <= DailyColumn(a)[k]
  BY <1>1 DEF DailyColumn
<1>4. PendingColumn(a)' = PendingColumn(a)
  BY DEF PendingColumn
<1>5. DailyNotional(a) + Total(PendingColumn(a), NSessions) <= MaxDaily + (NSessions - 1) * MaxOrder
  BY DEF DailyInv
<1>6. /\ DailyNotional(a) \in Nat /\ Total(PendingColumn(a), NSessions) \in Nat
      /\ MaxDaily \in Nat /\ (NSessions - 1) * MaxOrder \in Nat
  BY DailyNumbers
<1> QED BY <1>2, <1>3, <1>4, <1>5, <1>6

\* The reservation statement adds exactly what it had pending.
LEMMA ReserveDaily ==
  ASSUME TypeInv, TypeInv', DailyInv, NEW s \in Sessions, reserveConsumerBalance(s)
  PROVE  DailyInv'
<1> DEFINE k == stmt[s].key
<1>1. /\ k \in Orders /\ k # 0 /\ stmt[s].daily + stmt[s].notional <= MaxDaily
      /\ reservation[k].status = "none"
  BY DEF reserveConsumerBalance, WithinLimits, TypeInv, RowsBelong
<1>2. /\ reservation'[k].account = stmt[s].account /\ reservation'[k].status = "reserved"
      /\ reservation'[k].notional = stmt[s].notional
      /\ \A j \in Orders : j # k => reservation'[j] = reservation[j]
  BY <1>1 DEF reserveConsumerBalance, TypeInv, TypeOK
<1>3. /\ stmt'[s].key = 0
      /\ \A t \in Sessions : t # s => stmt'[t] = stmt[t]
  BY DEF reserveConsumerBalance, TypeInv, TypeOK, IdleStatement
<1>4. ASSUME NEW a \in Accounts
      PROVE  DailyNotional(a)' <= DailyNotional(a) + PendingColumn(a)[s]
  <2>1. /\ DailyNotional(a)' = DailyNotional(a) + DailyColumn(a)'[k] - DailyColumn(a)[k]
        /\ DailyColumn(a)'[k] \in Nat /\ DailyColumn(a)[k] \in Nat
    BY <1>1, <1>2, DailyChange
  <2>2. DailyColumn(a)[k] = 0
    BY <1>1 DEF DailyColumn
  <2>3. DailyColumn(a)'[k] = PendingColumn(a)[s]
    BY <1>1, <1>2 DEF DailyColumn, PendingColumn
  <2>4. DailyNotional(a) \in Nat
    BY DailyNumbers
  <2> QED BY <2>1, <2>2, <2>3, <2>4
<1> QED BY <1>3, <1>4, EndDaily

\* A refused statement adds nothing.
LEMMA RefuseDaily ==
  ASSUME TypeInv, TypeInv', DailyInv, NEW s \in Sessions, ReserveRefused(s)
  PROVE  DailyInv'
<1>1. /\ stmt'[s].key = 0 /\ reservation' = reservation
      /\ \A t \in Sessions : t # s => stmt'[t] = stmt[t]
  BY DEF ReserveRefused, TypeInv, TypeOK, IdleStatement
<1>2. ASSUME NEW a \in Accounts
      PROVE  DailyNotional(a)' <= DailyNotional(a) + PendingColumn(a)[s]
  <2>1. DailyNotional(a)' = DailyNotional(a)
    BY <1>1 DEF DailyNotional, DailyColumn
  <2>2. DailyNotional(a) \in Nat /\ PendingColumn(a)[s] \in Nat
    BY DailyNumbers, PendingType DEF Sessions
  <2> QED BY <2>1, <2>2
<1> QED BY <1>1, <1>2, EndDaily

\* Every statement keeps the daily invariant.
LEMMA DailyStep ==
  ASSUME TypeInv, DailyInv, [Next]_vars
  PROVE  DailyInv'
<1>0. TypeInv'
  BY StepTyped
<1>1. CASE UNCHANGED vars
  BY <1>1, DailyQuiet DEF vars
<1>2. CASE DepositStep
  BY <1>2, DailyQuiet DEF DepositStep, createConsumerDepositIntent, DepositIntentExpires,
     confirmConsumerDeposit, createConsumerBalanceAdjustment, orderVars
<1>3. CASE ReservationStep
  <2>1. ASSUME NEW k \in Orders PROVE
          /\ releaseConsumerReservation(k) => DailyInv'
          /\ markConsumerReservationSubmitted(k) => DailyInv'
    BY <1>0, CloseDaily DEF releaseConsumerReservation, markConsumerReservationSubmitted
  <2>2. ASSUME NEW k \in Orders, NEW w \in WorkOrders, recordConsumerVenueOrder(k, w)
        PROVE  DailyInv'
    BY <2>2, DailyQuiet DEF recordConsumerVenueOrder
  <2> QED BY <1>0, <1>3, <2>1, <2>2, BeginDaily, ReserveDaily, RefuseDaily DEF ReservationStep
<1>4. CASE ReconciliationStep
  <2>1. ASSUME NEW k \in Orders, NEW ref, NEW filled, NEW cost, reconcile(k, ref, filled, cost)
        PROVE  DailyInv'
    BY <1>0, <2>1, CloseDaily DEF reconcile, reconcileConsumerVenueOrder, Settleable
  <2>2. ASSUME NEW k \in Orders, NEW ref, NEW filled, NEW cost,
               ReconcileRefused(k, ref, filled, cost)
        PROVE  DailyInv'
    BY <2>2, DailyQuiet DEF ReconcileRefused
  <2>3. ASSUME NEW k \in Orders, NEW w \in WorkOrders, prepareReconciliation(k, w)
        PROVE  DailyInv'
    BY <2>3, DailyQuiet DEF prepareReconciliation
  <2>4. ASSUME NEW w \in WorkOrders, enqueueReconciliation(w) PROVE DailyInv'
    BY <2>4, DailyQuiet DEF enqueueReconciliation
  <2>5. ASSUME NEW late \in SUBSET Orders, processReconciliationDeadlines(late) PROVE DailyInv'
    BY <2>5, DailyQuiet DEF processReconciliationDeadlines
  <2> QED BY <1>4, <2>1, <2>2, <2>3, <2>4, <2>5 DEF ReconciliationStep
<1>5. CASE WithdrawalStep
  BY <1>5, DailyQuiet DEF WithdrawalStep, createConsumerWithdrawal, prepareConsumerWithdrawal,
     PreparedWithdrawalExpires, submitPreparedConsumerWithdrawal, cancelConsumerWithdrawal,
     ClaimWithdrawal, WithdrawalDispatched, markWithdrawalReview, FinalizeWithdrawal, orderVars
<1> QED BY <1>1, <1>2, <1>3, <1>4, <1>5 DEF Next

\* An empty database has spent nothing of the day.
LEMMA DailyInit ==
  ASSUME Init
  PROVE  DailyInv
<1> SUFFICES ASSUME NEW a \in Accounts
             PROVE  DailyNotional(a) + Total(PendingColumn(a), NSessions)
                      <= MaxDaily + (NSessions - 1) * MaxOrder
  BY DEF DailyInv
<1>0. TypeInv
  BY InitTyped
<1>1. DailyNotional(a) = 0
  <2>1. DailyColumn(a) \in [1..NOrders -> Nat] /\ NOrders \in Nat
    BY <1>0, ColumnsType, CountsAssumption DEF TypeInv, Orders
  <2>2. \A k \in 1..NOrders : DailyColumn(a)[k] = 0
    BY DEF Init, DailyColumn, Orders
  <2> QED BY <2>1, <2>2, TotalZero DEF DailyNotional
<1>2. Total(PendingColumn(a), NSessions) = 0
  <2>1. PendingColumn(a) \in [1..NSessions -> Nat] /\ NSessions \in Nat
    BY <1>0, PendingType, CountsAssumption
  <2>2. \A s \in 1..NSessions : PendingColumn(a)[s] = 0
    BY DEF Init, PendingColumn, Sessions, IdleStatement
  <2> QED BY <2>1, <2>2, TotalZero
<1>3. MaxDaily \in Nat /\ (NSessions - 1) * MaxOrder \in Nat
  BY <1>0, DailyNumbers
<1> QED BY <1>1, <1>2, <1>3

\* The snapshot race on the daily limit is bounded for every number of
\* concurrent reservation statements: however they interleave with releases
\* and settlements, an account passes its limit by at most one order for
\* every other statement.
THEOREM OvershootBounded == Spec => []DailyOvershootBounded
<1>1. Init => TypeInv /\ DailyInv
  BY InitTyped, DailyInit
<1>2. TypeInv /\ DailyInv /\ [Next]_vars => (TypeInv /\ DailyInv)'
  BY StepTyped, DailyStep
<1>3. TypeInv /\ DailyInv => DailyOvershootBounded
  <2> SUFFICES ASSUME TypeInv, DailyInv, NEW a \in Accounts
               PROVE  DailyNotional(a) <= MaxDaily + (NSessions - 1) * MaxOrder
    BY DEF DailyOvershootBounded
  <2>1. /\ DailyNotional(a) \in Nat /\ Total(PendingColumn(a), NSessions) \in Nat
        /\ MaxDaily \in Nat /\ (NSessions - 1) * MaxOrder \in Nat
    BY DailyNumbers
  <2>2. DailyNotional(a) + Total(PendingColumn(a), NSessions)
          <= MaxDaily + (NSessions - 1) * MaxOrder
    BY DEF DailyInv
  <2> QED BY <2>1, <2>2
<1> QED BY <1>1, <1>2, <1>3, PTL DEF Spec
=============================================================================
