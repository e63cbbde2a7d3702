------------------------ MODULE ConsumerMoneyProofs ------------------------
(***************************************************************************)
(* Where the money is, for every database and every interleaving of the    *)
(* statements: the reserved column is the sum of the open reservations,    *)
(* the balances agree with the double-entry ledger, and the whole database *)
(* implements the escrow of ConsumerEscrow.                                *)
(***************************************************************************)
EXTENDS ConsumerDatabaseProofs

MoneyInv ==
  TypeInv /\ ReservedIsHeld /\ BalanceAgreesWithLedger /\ TreasuryBacksLiabilities

-----------------------------------------------------------------------------
(* The reserved column.                                                    *)

\* The release and settlement guards always hold: a reservation that is
\* still held is covered by the account's reserved money.
LEMMA ReservedCovers ==
  ASSUME TypeOK, ReservedIsHeld, NEW k \in Orders, reservation[k].status \in Holding,
         reservation[k].account \in Accounts
  PROVE  balance[reservation[k].account].reserved >= reservation[k].amount
<1> DEFINE a == reservation[k].account
<1>1. HeldColumn(a) \in [1..NOrders -> Nat] /\ NOrders \in Nat /\ k \in 1..NOrders
  BY ColumnsType, CountsAssumption DEF Orders
<1>2. HeldColumn(a)[k] = reservation[k].amount
  BY DEF HeldColumn
<1>3. Total(HeldColumn(a), NOrders) \in Nat /\ HeldColumn(a)[k] <= Total(HeldColumn(a), NOrders)
  BY <1>1, TotalBound
<1>4. balance[a].reserved = Total(HeldColumn(a), NOrders)
  BY DEF ReservedIsHeld
<1>5. reservation[k].amount \in Nat
  BY DEF TypeOK, Reservation
<1> HIDE DEF a
<1>6. balance[a].reserved >= reservation[k].amount
  BY <1>2, <1>3, <1>4, <1>5
<1> QED BY <1>6 DEF a

\* A step that changes one reservation and moves the same amount in the
\* reserved column keeps the two equal.
LEMMA HeldChange ==
  ASSUME TypeOK, TypeOK', ReservedIsHeld, NEW k \in Orders,
         \A j \in Orders : j # k => reservation'[j] = reservation[j],
         \A c \in Accounts :
           balance'[c].reserved = balance[c].reserved + HeldColumn(c)'[k] - HeldColumn(c)[k]
  PROVE  ReservedIsHeld'
<1> SUFFICES ASSUME NEW c \in Accounts
             PROVE  balance'[c].reserved = Total(HeldColumn(c)', NOrders)
  BY DEF ReservedIsHeld
<1> DEFINE v == HeldColumn(c)'
           w == HeldColumn(c)
<1>1. v \in [1..NOrders -> Nat] /\ w \in [1..NOrders -> Nat]
  <2>1. w \in [Orders -> Nat]
    BY ColumnsType
  <2>2. \A j \in Orders : reservation'[j].amount \in Nat
    BY DEF TypeOK, Reservation
  <2>3. v \in [Orders -> Nat]
    BY <2>2 DEF HeldColumn
  <2> QED BY <2>1, <2>3 DEF Orders
<1>2. NOrders \in Nat /\ k \in 1..NOrders
  BY CountsAssumption DEF Orders
<1>3. \A j \in 1..NOrders : j # k => v[j] = w[j]
  BY DEF HeldColumn, Orders
<1>4. balance[c].reserved = Total(w, NOrders)
  BY DEF ReservedIsHeld
<1>5. balance'[c].reserved = balance[c].reserved + v[k] - w[k]
  OBVIOUS
<1> HIDE DEF v, w
<1>6. Total(v, NOrders) = Total(w, NOrders) + v[k] - w[k]
  BY <1>1, <1>2, <1>3, NatColumn, TotalUpdate
<1>7. balance'[c].reserved = Total(v, NOrders)
  BY <1>4, <1>5, <1>6
<1> QED BY <1>7 DEF v

\* A step that touches neither side keeps them equal.
LEMMA HeldQuiet ==
  ASSUME ReservedIsHeld, UNCHANGED reservation,
         \A c \in Accounts : balance'[c].reserved = balance[c].reserved
  PROVE  ReservedIsHeld'
BY DEF ReservedIsHeld, HeldColumn

\* SetBalance, column by column.
LEMMA SetBalanceColumns ==
  ASSUME TypeOK, NEW a \in Accounts, NEW x, NEW y, NEW z, SetBalance(a, x, y, z)
  PROVE  /\ balance'[a].available = x /\ balance'[a].reserved = y /\ balance'[a].open = z
         /\ \A c \in Accounts : c # a => balance'[c] = balance[c]
BY DEF TypeOK, SetBalance

-----------------------------------------------------------------------------
(* The ledger.                                                             *)

\* A ledger transaction that sums to zero and mirrors the change of the
\* balance row keeps balance and ledger in step.
LEMMA PostedMove ==
  ASSUME TypeOK, BalanceAgreesWithLedger, TreasuryBacksLiabilities,
         NEW a \in Accounts, NEW key, NEW p \in Entry, NEW x, NEW y, NEW z,
         SetBalance(a, x, y, z), Post(key, a, p),
         x = balance[a].available + p.available, y = balance[a].reserved + p.reserved,
         p.treasury + p.available + p.reserved + p.venue + p.fee = 0
  PROVE  BalanceAgreesWithLedger' /\ TreasuryBacksLiabilities'
<1>1. /\ balance'[a].available = x /\ balance'[a].reserved = y
      /\ \A c \in Accounts : c # a => balance'[c] = balance[c]
  BY SetBalanceColumns
<1>2. /\ book'[a].treasury = book[a].treasury + p.treasury
      /\ book'[a].available = book[a].available + p.available
      /\ book'[a].reserved = book[a].reserved + p.reserved
      /\ book'[a].venue = book[a].venue + p.venue
      /\ book'[a].fee = book[a].fee + p.fee
      /\ \A c \in Accounts : c # a => book'[c] = book[c]
  BY DEF TypeOK, Post
<1>3. /\ p.treasury \in Int /\ p.available \in Int /\ p.reserved \in Int
      /\ p.venue \in Int /\ p.fee \in Int
  BY DEF Entry
<1>4. /\ book[a].treasury \in Int /\ book[a].available \in Int /\ book[a].reserved \in Int
      /\ book[a].venue \in Int /\ book[a].fee \in Int
  BY DEF TypeOK, Entry
<1>5. balance[a].available \in Nat /\ balance[a].reserved \in Nat
  BY BalanceColumns
<1>6. /\ book[a].available = balance[a].available
      /\ book[a].reserved = balance[a].reserved
      /\ -book[a].treasury = balance[a].available + balance[a].reserved
                               + book[a].venue + book[a].fee
  BY DEF BalanceAgreesWithLedger, TreasuryBacksLiabilities
<1>7. book'[a].available = balance'[a].available /\ book'[a].reserved = balance'[a].reserved
  BY <1>1, <1>2, <1>6
<1>8. -book'[a].treasury = balance'[a].available + balance'[a].reserved
                             + book'[a].venue + book'[a].fee
  <2>1. /\ balance'[a].available = balance[a].available + p.available
        /\ balance'[a].reserved = balance[a].reserved + p.reserved
    BY <1>1
  <2> DEFINE t == book[a].treasury
             v == balance[a].available
             r == balance[a].reserved
             n == book[a].venue
             f == book[a].fee
  <2>2. t \in Int /\ v \in Int /\ r \in Int /\ n \in Int /\ f \in Int /\ -t = v + r + n + f
    BY <1>4, <1>5, <1>6
  <2> DEFINE pt == p.treasury
             pv == p.available
             pr == p.reserved
             pn == p.venue
             pf == p.fee
  <2>3. /\ pt \in Int /\ pv \in Int /\ pr \in Int /\ pn \in Int /\ pf \in Int
        /\ pt + pv + pr + pn + pf = 0
    BY <1>3
  <2> HIDE DEF t, v, r, n, f, pt, pv, pr, pn, pf
  <2>4. -(t + pt) = (v + pv) + (r + pr) + (n + pn) + (f + pf)
    BY <2>2, <2>3
  <2> QED BY <1>2, <2>1, <2>4 DEF t, v, r, n, f, pt, pv, pr, pn, pf
<1>9. BalanceAgreesWithLedger'
  BY <1>1, <1>2, <1>7 DEF BalanceAgreesWithLedger
<1>10. TreasuryBacksLiabilities'
  BY <1>1, <1>2, <1>8 DEF TreasuryBacksLiabilities
<1> QED BY <1>9, <1>10

\* A statement that leaves balance and ledger alone keeps them in step.
LEMMA MoneyQuiet ==
  ASSUME MoneyInv, TypeInv', UNCHANGED <<moneyVars, reservation>>
  PROVE  MoneyInv'
<1>1. ReservedIsHeld'
  BY HeldQuiet DEF MoneyInv, moneyVars
<1>2. BalanceAgreesWithLedger' /\ TreasuryBacksLiabilities'
  BY DEF MoneyInv, moneyVars, BalanceAgreesWithLedger, TreasuryBacksLiabilities
<1> QED BY <1>1, <1>2 DEF MoneyInv

\* A transfer between the treasury and the available money of one account.
LEMMA TreasuryMove ==
  ASSUME MoneyInv, TypeInv', NEW a \in Accounts, NEW key, NEW delta \in Int,
         SetBalance(a, balance[a].available + delta, balance[a].reserved, balance[a].open),
         Post(key, a, Postings(-delta, delta, 0, 0, 0)),
         UNCHANGED reservation
  PROVE  MoneyInv'
<1>0. TypeOK /\ ReservedIsHeld /\ BalanceAgreesWithLedger /\ TreasuryBacksLiabilities
  BY DEF MoneyInv, TypeInv
<1> DEFINE p == Postings(-delta, delta, 0, 0, 0)
<1>1. /\ p \in Entry /\ p.available = delta /\ p.reserved = 0
      /\ p.treasury + p.available + p.reserved + p.venue + p.fee = 0
  BY DEF Postings, Entry
<1>2. balance[a].available \in Nat /\ balance[a].reserved \in Nat
  BY <1>0, BalanceColumns
<1>3. Post(key, a, p)
  OBVIOUS
<1> HIDE DEF p
<1>4. balance[a].reserved = balance[a].reserved + p.reserved
  BY <1>1, <1>2
<1>5. BalanceAgreesWithLedger' /\ TreasuryBacksLiabilities'
  BY <1>0, <1>1, <1>3, <1>4, PostedMove
<1>6. \A c \in Accounts : balance'[c].reserved = balance[c].reserved
  BY <1>0, SetBalanceColumns
<1>7. ReservedIsHeld'
  BY <1>0, <1>6, HeldQuiet
<1> QED BY <1>5, <1>7 DEF MoneyInv

-----------------------------------------------------------------------------
(* One lemma per statement that moves order money.                         *)

\* reserveConsumerBalance moves the reserved amount from available to
\* reserved and opens the one reservation that accounts for it.
LEMMA ReserveMoves ==
  ASSUME MoneyInv, TypeInv', NEW s \in Sessions, reserveConsumerBalance(s)
  PROVE  MoneyInv'
<1>0. /\ TypeOK /\ TypeOK' /\ RowsBelong
      /\ ReservedIsHeld /\ BalanceAgreesWithLedger /\ TreasuryBacksLiabilities
  BY DEF MoneyInv, TypeInv
<1> DEFINE k == stmt[s].key
           a == stmt[s].account
           amount == ReserveAmount(stmt[s])
           p == Postings(0, -amount, amount, 0, 0)
<1>1. k # 0 /\ a \in Accounts /\ k \in Orders /\ reservation[k].status = "none"
  BY <1>0 DEF RowsBelong, reserveConsumerBalance
<1>2. amount \in Nat
  BY <1>1, ReserveAmountType DEF MoneyInv
<1>3. SetBalance(a, balance[a].available - amount, balance[a].reserved + amount, balance[a].open)
  BY DEF reserveConsumerBalance
<1>4. Post(<<"reserve", k>>, a, p)
  BY DEF reserveConsumerBalance
<1>5. reservation' = [reservation EXCEPT ![k] =
        [status |-> "reserved", account |-> a,
         notional |-> stmt[s].notional, amount |-> amount]]
  BY DEF reserveConsumerBalance
<1> HIDE DEF k, a, amount
<1>6. /\ p \in Entry /\ p.available = -amount /\ p.reserved = amount
      /\ p.treasury + p.available + p.reserved + p.venue + p.fee = 0
  BY <1>2 DEF Postings, Entry
<1> HIDE DEF p
<1>7. balance[a].available \in Nat /\ balance[a].reserved \in Nat
  BY <1>0, <1>1, BalanceColumns
<1>8. balance[a].available - amount = balance[a].available + p.available
  BY <1>2, <1>6, <1>7
<1>9. balance[a].reserved + amount = balance[a].reserved + p.reserved
  BY <1>6
<1>10. BalanceAgreesWithLedger' /\ TreasuryBacksLiabilities'
  BY <1>0, <1>1, <1>3, <1>4, <1>6, <1>8, <1>9, PostedMove
<1>11. \A c \in Accounts :
         balance'[c].reserved = balance[c].reserved + HeldColumn(c)'[k] - HeldColumn(c)[k]
  <2> TAKE c \in Accounts
  <2>1. reservation'[k].status = "reserved" /\ reservation'[k].account = a
          /\ reservation'[k].amount = amount
    BY <1>0, <1>1, <1>5 DEF TypeOK
  <2>2. HeldColumn(c)[k] = 0
    BY <1>1 DEF HeldColumn, Holding
  <2>3. HeldColumn(c)'[k] = IF c = a THEN amount ELSE 0
    BY <1>1, <2>1 DEF HeldColumn, Holding
  <2>4. balance'[a].reserved = balance[a].reserved + amount
          /\ (c # a => balance'[c] = balance[c])
    BY <1>0, <1>1, <1>3, SetBalanceColumns
  <2>5. balance[c].reserved \in Nat
    BY <1>0, BalanceColumns
  <2> QED BY <1>2, <2>2, <2>3, <2>4, <2>5
<1>12. \A j \in Orders : j # k => reservation'[j] = reservation[j]
  BY <1>0, <1>5 DEF TypeOK
<1>13. ReservedIsHeld'
  BY <1>0, <1>1, <1>11, <1>12, HeldChange
<1> QED BY <1>10, <1>13 DEF MoneyInv

\* A statement that closes a held reservation, gives part of it back and
\* books the rest to the venue and to fees.  Both the release and the
\* settlement are of this form once the guard on the balance is known to
\* hold.
LEMMA CloseMoves ==
  ASSUME MoneyInv, TypeInv', NEW k \in Orders, reservation[k].status \in Holding,
         NEW final, final \notin Holding,
         reservation' = [reservation EXCEPT ![k].status = final],
         NEW back \in Nat, NEW venue \in Nat, NEW fee \in Nat, NEW open, NEW key,
         back + venue + fee = reservation[k].amount,
         SetBalance(reservation[k].account,
                    balance[reservation[k].account].available + back,
                    balance[reservation[k].account].reserved - reservation[k].amount, open),
         Post(key, reservation[k].account,
              Postings(0, back, -reservation[k].amount, venue, fee))
  PROVE  MoneyInv'
<1>0. /\ TypeOK /\ TypeOK' /\ RowsBelong
      /\ ReservedIsHeld /\ BalanceAgreesWithLedger /\ TreasuryBacksLiabilities
  BY DEF MoneyInv, TypeInv
<1> DEFINE a == reservation[k].account
           amount == reservation[k].amount
           p == Postings(0, back, -amount, venue, fee)
<1>1. a \in Accounts /\ amount \in Nat
  BY <1>0 DEF TypeOK, RowsBelong, Reservation, Holding
<1>2. SetBalance(a, balance[a].available + back, balance[a].reserved - amount, open)
  OBVIOUS
<1>3. Post(key, a, p) /\ back + venue + fee = amount
  OBVIOUS
<1>4. /\ reservation'[k].account = a /\ reservation'[k].status = final
      /\ \A j \in Orders : j # k => reservation'[j] = reservation[j]
  BY <1>0 DEF TypeOK, Reservation
<1> HIDE DEF a, amount
<1>5. /\ p \in Entry /\ p.available = back /\ p.reserved = -amount
      /\ p.treasury + p.available + p.reserved + p.venue + p.fee = 0
  BY <1>1, <1>3 DEF Postings, Entry
<1> HIDE DEF p
<1>6. balance[a].available \in Nat /\ balance[a].reserved \in Nat
  BY <1>0, <1>1, BalanceColumns
<1>7. balance[a].available + back = balance[a].available + p.available
  BY <1>5
<1>8. balance[a].reserved - amount = balance[a].reserved + p.reserved
  BY <1>1, <1>5, <1>6
<1>9. BalanceAgreesWithLedger' /\ TreasuryBacksLiabilities'
  BY <1>0, <1>1, <1>2, <1>3, <1>5, <1>7, <1>8, PostedMove
<1>10. \A c \in Accounts :
         balance'[c].reserved = balance[c].reserved + HeldColumn(c)'[k] - HeldColumn(c)[k]
  <2> TAKE c \in Accounts
  <2>1. HeldColumn(c)[k] = IF c = a THEN amount ELSE 0
    BY DEF HeldColumn, a, amount
  <2>2. HeldColumn(c)'[k] = 0
    BY <1>4 DEF HeldColumn
  <2>3. balance'[a].reserved = balance[a].reserved - amount
          /\ (c # a => balance'[c] = balance[c])
    BY <1>0, <1>1, <1>2, SetBalanceColumns
  <2>4. balance[c].reserved \in Nat
    BY <1>0, BalanceColumns
  <2> QED BY <1>1, <2>1, <2>2, <2>3, <2>4
<1>11. ReservedIsHeld'
  BY <1>0, <1>4, <1>10, HeldChange
<1> QED BY <1>9, <1>11 DEF MoneyInv

\* releaseConsumerReservation gives everything back.
LEMMA ReleaseMoves ==
  ASSUME MoneyInv, TypeInv', NEW k \in Orders, releaseConsumerReservation(k)
  PROVE  /\ MoneyInv'
         /\ SetBalance(reservation[k].account,
                       balance[reservation[k].account].available + reservation[k].amount,
                       balance[reservation[k].account].reserved - reservation[k].amount,
                       balance[reservation[k].account].open)
<1>0. TypeOK /\ RowsBelong /\ ReservedIsHeld
  BY DEF MoneyInv, TypeInv
<1>1. /\ reservation[k].status \in Holding /\ "released" \notin Holding
      /\ reservation[k].account \in Accounts /\ reservation[k].amount \in Nat
  BY <1>0 DEF releaseConsumerReservation, Holding, RowsBelong, TypeOK, Reservation
<1>2. balance[reservation[k].account].reserved >= reservation[k].amount
  BY <1>0, <1>1, ReservedCovers
<1>3. SetBalance(reservation[k].account,
                 balance[reservation[k].account].available + reservation[k].amount,
                 balance[reservation[k].account].reserved - reservation[k].amount,
                 balance[reservation[k].account].open)
  BY <1>2 DEF releaseConsumerReservation
<1>4. Post(<<"release", k>>, reservation[k].account,
           Postings(0, reservation[k].amount, -reservation[k].amount, 0, 0))
  BY DEF releaseConsumerReservation
<1>5. reservation' = [reservation EXCEPT ![k].status = "released"]
  BY DEF releaseConsumerReservation
<1>6. reservation[k].amount + 0 + 0 = reservation[k].amount /\ 0 \in Nat
  BY <1>1
<1> QED BY <1>1, <1>3, <1>4, <1>5, <1>6, CloseMoves

\* reconcile gives back what the fill, the venue and the fee did not take.
LEMMA SettleMoves ==
  ASSUME MoneyInv, TypeInv', NEW k \in Orders, NEW ref \in FillRefs, NEW filled \in Nat,
         NEW cost \in Nat, reconcile(k, ref, filled, cost)
  PROVE  /\ MoneyInv'
         /\ reservation[k].amount - SettledAmount(filled, cost) \in 0..reservation[k].amount
         /\ SetBalance(reservation[k].account,
                       balance[reservation[k].account].available
                         + (reservation[k].amount - SettledAmount(filled, cost)),
                       balance[reservation[k].account].reserved - reservation[k].amount,
                       balance[reservation[k].account].open + filled)
<1>0. TypeOK /\ RowsBelong /\ ReservedIsHeld
  BY DEF MoneyInv, TypeInv
<1> DEFINE fee == consumerFeeMicroUsdc(filled)
           back == reservation[k].amount - SettledAmount(filled, cost)
<1>1. /\ reservation[k].status \in Holding /\ "settled" \notin Holding
      /\ reservation[k].account \in Accounts /\ reservation[k].amount \in Nat
      /\ reservation[k].amount >= SettledAmount(filled, cost)
  BY <1>0 DEF reconcile, reconcileConsumerVenueOrder, Settleable, Holding, RowsBelong, TypeOK, Reservation
<1>2. balance[reservation[k].account].reserved >= reservation[k].amount
  BY <1>0, <1>1, ReservedCovers
<1>3. SetBalance(reservation[k].account,
                 balance[reservation[k].account].available + back,
                 balance[reservation[k].account].reserved - reservation[k].amount,
                 balance[reservation[k].account].open + filled)
  BY <1>2 DEF reconcile, reconcileConsumerVenueOrder
<1>4. Post(<<"settle", k>>, reservation[k].account,
           Postings(0, back, -reservation[k].amount, filled + cost, fee))
  BY DEF reconcile, reconcileConsumerVenueOrder
<1>5. reservation' = [reservation EXCEPT ![k].status = "settled"]
  BY DEF reconcile, reconcileConsumerVenueOrder
<1>6. /\ SettledAmount(filled, cost) \in Nat /\ fee \in Nat
      /\ SettledAmount(filled, cost) = filled + cost + fee
  BY SettledAmountType
<1> HIDE DEF fee
<1>7. back \in Nat /\ back \in 0..reservation[k].amount
        /\ back + (filled + cost) + fee = reservation[k].amount /\ filled + cost \in Nat
  BY <1>1, <1>6
<1> HIDE DEF back
<1>8. MoneyInv'
  BY <1>1, <1>3, <1>4, <1>5, <1>6, <1>7, CloseMoves
<1> QED BY <1>3, <1>7, <1>8 DEF back

\* Marking a reservation submitted keeps its money held.
LEMMA MarkMoves ==
  ASSUME MoneyInv, TypeInv', NEW k \in Orders, markConsumerReservationSubmitted(k)
  PROVE  MoneyInv'
<1>0. TypeOK /\ TypeOK' /\ ReservedIsHeld
  BY DEF MoneyInv, TypeInv
<1>1. /\ reservation'[k].status = "submitted" /\ reservation[k].status = "reserved"
      /\ reservation'[k].account = reservation[k].account
      /\ reservation'[k].amount = reservation[k].amount
      /\ \A j \in Orders : j # k => reservation'[j] = reservation[j]
      /\ balance' = balance
  BY <1>0 DEF markConsumerReservationSubmitted, TypeOK, Reservation, moneyVars
<1>2. \A c \in Accounts :
        balance'[c].reserved = balance[c].reserved + HeldColumn(c)'[k] - HeldColumn(c)[k]
  <2> TAKE c \in Accounts
  <2>1. HeldColumn(c)'[k] = HeldColumn(c)[k]
    BY <1>1 DEF HeldColumn, Holding
  <2>2. HeldColumn(c)[k] \in Nat /\ balance[c].reserved \in Nat
    BY <1>0, ColumnsType, BalanceColumns
  <2> QED BY <1>1, <2>1, <2>2
<1>3. ReservedIsHeld'
  BY <1>0, <1>1, <1>2, HeldChange
<1>4. BalanceAgreesWithLedger' /\ TreasuryBacksLiabilities'
  BY DEF MoneyInv, markConsumerReservationSubmitted, moneyVars,
         BalanceAgreesWithLedger, TreasuryBacksLiabilities
<1> QED BY <1>3, <1>4 DEF MoneyInv

-----------------------------------------------------------------------------
(* The inductive step and the theorems.                                    *)

\* Every statement keeps the money invariant.
LEMMA MoneyStep ==
  ASSUME MoneyInv, [Next]_vars
  PROVE  MoneyInv'
<1>0. TypeInv /\ TypeInv'
  BY StepTyped DEF MoneyInv
<1>1. CASE UNCHANGED vars
  BY <1>0, <1>1, MoneyQuiet DEF vars, moneyVars
<1>2. CASE DepositStep
  <2>1. ASSUME NEW d \in Deposits, NEW sig \in Signatures, confirmConsumerDeposit(d, sig)
        PROVE  MoneyInv'
    <3>1. deposit[d].account \in Accounts /\ deposit[d].amount \in Int
      BY <1>0, <2>1 DEF TypeInv, TypeOK, RowsBelong, Deposit, confirmConsumerDeposit
    <3> QED BY <1>0, <2>1, <3>1, TreasuryMove DEF confirmConsumerDeposit, orderVars
  <2>2. ASSUME NEW i \in Incidents, NEW a \in Accounts, NEW delta \in Int,
               createConsumerBalanceAdjustment(i, a, delta)
        PROVE  MoneyInv'
    BY <1>0, <2>2, TreasuryMove DEF createConsumerBalanceAdjustment, orderVars
  <2>3. \A n \in Transfers : n \in Int /\ -n \in Int
    BY AmountsPositive
  <2>4. ASSUME NEW d \in Deposits PROVE
          /\ DepositIntentExpires(d) => MoneyInv'
          /\ \A a \in Accounts, n \in Transfers : createConsumerDepositIntent(d, a, n) => MoneyInv'
    BY <1>0, MoneyQuiet DEF DepositIntentExpires, createConsumerDepositIntent, orderVars
  <2> QED BY <1>2, <2>1, <2>2, <2>3, <2>4 DEF DepositStep
<1>3. CASE ReservationStep
  <2>1. ASSUME NEW s \in Sessions PROVE
          /\ ReserveRefused(s) => MoneyInv'
          /\ \A k \in Orders, a \in Accounts, n \in Notionals, c \in VenueCosts :
               BeginReserve(s, k, a, n, c) => MoneyInv'
    BY <1>0, MoneyQuiet DEF ReserveRefused, BeginReserve
  <2>2. ASSUME NEW k \in Orders, NEW w \in WorkOrders, recordConsumerVenueOrder(k, w)
        PROVE  MoneyInv'
    BY <1>0, <2>2, MoneyQuiet DEF recordConsumerVenueOrder
  <2> QED BY <1>0, <1>3, <2>1, <2>2, ReserveMoves, ReleaseMoves, MarkMoves DEF ReservationStep
<1>4. CASE ReconciliationStep
  <2>1. ASSUME NEW k \in Orders, NEW w \in WorkOrders, prepareReconciliation(k, w)
        PROVE  MoneyInv'
    BY <1>0, <2>1, MoneyQuiet DEF prepareReconciliation
  <2>2. ASSUME NEW w \in WorkOrders, enqueueReconciliation(w) PROVE MoneyInv'
    BY <1>0, <2>2, MoneyQuiet DEF enqueueReconciliation
  <2>3. ASSUME NEW late \in SUBSET Orders, processReconciliationDeadlines(late)
        PROVE  MoneyInv'
    BY <1>0, <2>3, MoneyQuiet DEF processReconciliationDeadlines
  <2>4. ASSUME NEW k \in Orders, NEW ref \in FillRefs, NEW filled \in Nat, NEW cost \in Nat
        PROVE  /\ reconcile(k, ref, filled, cost) => MoneyInv'
               /\ ReconcileRefused(k, ref, filled, cost) => MoneyInv'
    <3>1. ASSUME ReconcileRefused(k, ref, filled, cost) PROVE MoneyInv'
      BY <1>0, <3>1, MoneyQuiet DEF ReconcileRefused
    <3> QED BY <1>0, <3>1, SettleMoves
  <2>5. (\A x \in Notionals \cup {0} : x \in Nat) /\ (\A x \in VenueCosts : x \in Nat)
    BY AmountsPositive
  <2> QED BY <1>4, <2>1, <2>2, <2>3, <2>4, <2>5 DEF ReconciliationStep
<1>5. CASE WithdrawalStep
  <2>1. ASSUME NEW w \in Withdrawals, NEW a \in Accounts, NEW n \in Transfers,
               createConsumerWithdrawal(w, a, n)
        PROVE  MoneyInv'
    <3>1. n \in Int /\ -n \in Int /\ -(-n) = n
      BY AmountsPositive
    <3>2. balance[a].available \in Nat
      BY <1>0, BalanceColumns DEF TypeInv
    <3>3. balance[a].available - n = balance[a].available + (-n)
      BY <3>1, <3>2
    <3>4. Post(<<"withdrawal", w>>, a, Postings(-(-n), -n, 0, 0, 0))
      BY <2>1, <3>1 DEF createConsumerWithdrawal
    <3>5. SetBalance(a, balance[a].available + (-n), balance[a].reserved, balance[a].open)
      BY <2>1, <3>3 DEF createConsumerWithdrawal
    <3>6. UNCHANGED reservation
      BY <2>1 DEF createConsumerWithdrawal, orderVars
    <3> QED BY <1>0, <3>1, <3>4, <3>5, <3>6, TreasuryMove
  <2>2. ASSUME NEW w \in Withdrawals, cancelConsumerWithdrawal(w) PROVE MoneyInv'
    <3>1. withdrawal[w].account \in Accounts /\ withdrawal[w].amount \in Int
      BY <1>0, <2>2 DEF TypeInv, TypeOK, RowsBelong, Withdrawal, cancelConsumerWithdrawal
    <3> QED BY <1>0, <2>2, <3>1, TreasuryMove DEF cancelConsumerWithdrawal, orderVars
  <2>3. ASSUME NEW w \in Withdrawals PROVE
          /\ PreparedWithdrawalExpires(w) => MoneyInv'
          /\ ClaimWithdrawal(w) => MoneyInv'
          /\ markWithdrawalReview(w) => MoneyInv'
          /\ \A v \in {"finalized", "failed_review"} : FinalizeWithdrawal(w, v) => MoneyInv'
          /\ \A m \in Signatures :
               /\ prepareConsumerWithdrawal(w, m) => MoneyInv'
               /\ submitPreparedConsumerWithdrawal(w, m) => MoneyInv'
               /\ WithdrawalDispatched(w, m) => MoneyInv'
    BY <1>0, MoneyQuiet
       DEF PreparedWithdrawalExpires, ClaimWithdrawal, markWithdrawalReview, FinalizeWithdrawal,
           prepareConsumerWithdrawal, submitPreparedConsumerWithdrawal, WithdrawalDispatched,
           orderVars
  <2> QED BY <1>5, <2>1, <2>2, <2>3 DEF WithdrawalStep
<1> QED BY <1>1, <1>2, <1>3, <1>4, <1>5 DEF Next

\* An empty database holds and owes nothing.
LEMMA MoneyInit ==
  ASSUME Init
  PROVE  MoneyInv
<1>1. TypeInv
  BY InitTyped
<1>2. ReservedIsHeld
  <2> SUFFICES ASSUME NEW a \in Accounts
               PROVE  balance[a].reserved = Total(HeldColumn(a), NOrders)
    BY DEF ReservedIsHeld
  <2>1. HeldColumn(a) \in [1..NOrders -> Nat] /\ NOrders \in Nat
    BY <1>1, ColumnsType, CountsAssumption DEF Orders, TypeInv
  <2>2. \A k \in 1..NOrders : HeldColumn(a)[k] = 0
    BY DEF Init, HeldColumn, Holding, Orders
  <2>3. Total(HeldColumn(a), NOrders) = 0
    BY <2>1, <2>2, TotalZero
  <2> QED BY <2>3 DEF Init
<1>3. BalanceAgreesWithLedger /\ TreasuryBacksLiabilities
  BY DEF Init, Postings, BalanceAgreesWithLedger, TreasuryBacksLiabilities
<1> QED BY <1>1, <1>2, <1>3 DEF MoneyInv

\* The money invariant holds in every state the statements can reach.
LEMMA MoneyInvariant == Spec => []MoneyInv
<1>1. Init => MoneyInv
  BY MoneyInit
<1>2. MoneyInv /\ [Next]_vars => MoneyInv'
  BY MoneyStep
<1> QED BY <1>1, <1>2, PTL DEF Spec

\* The reserved column of every account is exactly the sum of its open
\* reservations, so the guards that releaseConsumerReservation and reconcile
\* put on the balance update never fail while their ledger insert succeeds.
THEOREM ReservedExplained == Spec => []ReservedIsHeld
<1>1. MoneyInv => ReservedIsHeld
  BY DEF MoneyInv
<1> QED BY <1>1, MoneyInvariant, PTL

\* The balance row the trading checks read and the ledger agree in every
\* reachable state of the database.
THEOREM LedgerAgrees == Spec => []BalanceAgreesWithLedger
<1>1. MoneyInv => BalanceAgreesWithLedger
  BY DEF MoneyInv
<1> QED BY <1>1, MoneyInvariant, PTL

\* Double entry: what the treasury owes is exactly what the consumers have
\* available or reserved plus what settlements sent to venues and to fees.
THEOREM TreasuryBacks == Spec => []TreasuryBacksLiabilities
<1>1. MoneyInv => TreasuryBacksLiabilities
  BY DEF MoneyInv
<1> QED BY <1>1, MoneyInvariant, PTL
=============================================================================
