-------------------------- MODULE ConsumerDatabase --------------------------
(***************************************************************************)
(* The Postgres database that the web tier (consumer-production-store.ts)  *)
(* and the Phala worker (consumer/runtime.js) share for real-money trading.*)
(* One variable per table, one action per SQL statement that changes it.   *)
(* A statement is a transaction of its own: the callers never group two of *)
(* them, so every interleaving of the actions below is one the database    *)
(* can see.  The callers themselves (routes, worker loops, crashes) are in *)
(* the modules that extend this one; here anybody may run any statement at *)
(* any time with any arguments, so what holds here holds for every caller. *)
(*                                                                         *)
(* Rows are numbered: an order is its idempotency key (reservation_id and  *)
(* venue_order_id are hashes of it), a withdrawal and a deposit likewise.  *)
(* The 24-hour window of the daily limit covers the whole behaviour.       *)
(***************************************************************************)
EXTENDS Sums

CONSTANTS
  Accounts,      \* account_commitment; owner_commitment is UNIQUE in the same table
  NoAccount,     \* the account of a row that has not been inserted
  NOrders,       \* number of order idempotency keys
  NSessions,     \* number of reservation statements that may run at once
  NDeposits,     \* number of deposit intents
  NWithdrawals,  \* number of withdrawal idempotency keys
  NIncidents,    \* number of incident references for operator adjustments
  WorkOrders,    \* work_order_commitment values
  NoWork,        \* the work order of a row that has not been inserted
  FillRefs,      \* venue_fill_reference values
  Signatures,    \* Solana transaction signatures
  NoSignature,   \* NULL in a signature or prepared message column
  Transfers,     \* micro-USDC amounts of deposits, withdrawals and adjustments
  Notionals,     \* micro-USDC notionals of orders and of their fills
  VenueCosts,    \* venue cost reserves, and venue costs of a fill
  MinFee,        \* the minimum fee, 50_000 micro-USDC in the code
  MaxOrder,      \* risk.max_order_micro_usdc
  MaxDaily,      \* risk.max_daily_notional_micro_usdc
  MaxPosition    \* risk.max_position_micro_usdc

ASSUME AccountsAssumption == NoAccount \notin Accounts
ASSUME CountsAssumption ==
  /\ NOrders \in Nat /\ NDeposits \in Nat /\ NWithdrawals \in Nat
  /\ NIncidents \in Nat /\ NSessions \in Nat \ {0}
ASSUME AmountsAssumption ==
  /\ Transfers \subseteq Nat \ {0} /\ Notionals \subseteq Nat \ {0} /\ VenueCosts \subseteq Nat
ASSUME LimitsAssumption ==
  /\ MinFee \in Nat \ {0} /\ MaxOrder \in Nat /\ MaxDaily \in Nat /\ MaxPosition \in Nat
ASSUME RowsAssumption == NoWork \notin WorkOrders /\ NoSignature \notin Signatures

VARIABLES
  balance,      \* consumer_balance_accounts
  book,         \* consumer_ledger_transactions: credits minus debits per ledger account
  posted,       \* consumer_ledger_transactions: the idempotency keys present
  reservation,  \* consumer_balance_reservations
  stmt,         \* reservation statements that have taken their snapshot
  order,        \* consumer_venue_orders with their reconciliation checkpoint
  fills,        \* consumer_venue_fills
  job,          \* consumer_worker_reconciliation_jobs
  deposit,      \* consumer_deposit_intents
  withdrawal    \* consumer_withdrawals

moneyVars == <<balance, book, posted>>
orderVars == <<reservation, stmt, order, fills, job>>
vars == <<balance, book, posted, reservation, stmt, order, fills, job, deposit, withdrawal>>

Orders == 1..NOrders
Sessions == 1..NSessions
Deposits == 1..NDeposits
Withdrawals == 1..NWithdrawals
Incidents == 1..NIncidents

Balance == [available: Nat, reserved: Nat, open: Nat]
Entry == [treasury: Int, available: Int, reserved: Int, venue: Int, fee: Int]
LedgerKeys ==
  ({"reserve", "release", "settle"} \X Orders)
    \cup ({"deposit"} \X Deposits)
    \cup ({"withdrawal", "withdrawal_release"} \X Withdrawals)
    \cup ({"adjustment"} \X Incidents)
Reservation ==
  [status: {"none", "reserved", "submitted", "settled", "released"},
   account: Accounts \cup {NoAccount}, notional: Nat, amount: Nat]
Statement ==
  [key: 0..NOrders, account: Accounts \cup {NoAccount},
   notional: Nat, cost: Nat, daily: Nat, duplicate: BOOLEAN]
Order == [status: {"none", "submitted", "reconciled"}, work: WorkOrders \cup {NoWork}]
Fill == [ref: FillRefs, order: Orders, filled: Nat]
Job ==
  [status: {"none", "prepared", "awaiting_evidence", "failed_review", "reconciled"},
   work: WorkOrders \cup {NoWork}]
Deposit ==
  [status: {"none", "pending", "confirmed"}, account: Accounts \cup {NoAccount},
   amount: Nat, fresh: BOOLEAN, signature: Signatures \cup {NoSignature}]
Withdrawal ==
  [status: {"none", "queued", "prepared", "dispatching", "submitted",
            "finalized", "cancelled", "failed_review"},
   account: Accounts \cup {NoAccount}, amount: Nat, fresh: BOOLEAN,
   message: Signatures \cup {NoSignature}, signature: Signatures \cup {NoSignature}]

\* Every table holds rows of its schema: the CHECK constraints that keep
\* balances from going below zero never stop a statement.
TypeOK ==
  /\ balance \in [Accounts -> Balance]
  /\ book \in [Accounts -> Entry]
  /\ posted \subseteq LedgerKeys
  /\ reservation \in [Orders -> Reservation]
  /\ stmt \in [Sessions -> Statement]
  /\ order \in [Orders -> Order]
  /\ fills \subseteq Fill
  /\ job \in [Orders -> Job]
  /\ deposit \in [Deposits -> Deposit]
  /\ withdrawal \in [Withdrawals -> Withdrawal]

-----------------------------------------------------------------------------
(* Fees, sums over the reservation table, and ledger entries.              *)

consumerFeeMicroUsdc(filled) ==
  IF filled <= 0 THEN 0
  ELSE LET proportional == (filled * 10 + 9999) \div 10000
       IN  IF proportional > MinFee THEN proportional ELSE MinFee

\* Reservations whose money is still held: not released, not settled.
Holding == {"reserved", "submitted"}

HeldColumn(a) ==
  [k \in Orders |->
     IF reservation[k].account = a /\ reservation[k].status \in Holding
     THEN reservation[k].amount ELSE 0]

\* The rows the daily CTE sums: every reservation that was not given back.
DailyColumn(a) ==
  [k \in Orders |->
     IF reservation[k].account = a /\ reservation[k].status \notin {"none", "released"}
     THEN reservation[k].notional ELSE 0]

DailyNotional(a) == Total(DailyColumn(a), NOrders)

\* A ledger transaction as its net effect on the five accounts: a credit
\* counts up, a debit counts down.
Postings(treasury, available, reserved, venue, fee) ==
  [treasury |-> treasury, available |-> available, reserved |-> reserved,
   venue |-> venue, fee |-> fee]

\* INSERT INTO consumer_ledger_transactions; the idempotency key is UNIQUE.
Post(key, a, p) ==
  /\ key \notin posted
  /\ posted' = posted \cup {key}
  /\ book' = [book EXCEPT ![a] =
       [treasury  |-> @.treasury + p.treasury,
        available |-> @.available + p.available,
        reserved  |-> @.reserved + p.reserved,
        venue     |-> @.venue + p.venue,
        fee       |-> @.fee + p.fee]]

SetBalance(a, available, reserved, open) ==
  balance' = [balance EXCEPT ![a] =
    [available |-> available, reserved |-> reserved, open |-> open]]

-----------------------------------------------------------------------------
(* Deposits and operator adjustments.                                      *)

createConsumerDepositIntent(d, a, amount) ==
  /\ deposit[d].status = "none"
  /\ deposit' = [deposit EXCEPT ![d] =
       [status |-> "pending", account |-> a, amount |-> amount,
        fresh |-> TRUE, signature |-> NoSignature]]
  /\ UNCHANGED <<moneyVars, orderVars, withdrawal>>

\* The 30 minutes of an intent pass.
DepositIntentExpires(d) ==
  /\ deposit[d].status = "pending" /\ deposit[d].fresh
  /\ deposit' = [deposit EXCEPT ![d].fresh = FALSE]
  /\ UNCHANGED <<moneyVars, orderVars, withdrawal>>

\* NOT EXISTS reads a snapshot, but the column is UNIQUE as well: a
\* signature that is already there stops the statement either way.
confirmConsumerDeposit(d, sig) ==
  LET a == deposit[d].account
      amount == deposit[d].amount
  IN
  /\ deposit[d].status = "pending" /\ deposit[d].fresh
  /\ \A e \in Deposits : deposit[e].signature # sig
  /\ deposit' = [deposit EXCEPT ![d].status = "confirmed", ![d].signature = sig]
  /\ SetBalance(a, balance[a].available + amount, balance[a].reserved, balance[a].open)
  /\ Post(<<"deposit", d>>, a, Postings(-amount, amount, 0, 0, 0))
  /\ UNCHANGED <<orderVars, withdrawal>>

\* Mutant of createConsumerBalanceAdjustment: the posting loses the sign.
AdjustmentWithoutSign(i, a, delta) ==
  LET magnitude == IF delta < 0 THEN -delta ELSE delta IN
  /\ balance[a].available + delta >= 0
  /\ SetBalance(a, balance[a].available + delta, balance[a].reserved, balance[a].open)
  /\ Post(<<"adjustment", i>>, a, Postings(-magnitude, magnitude, 0, 0, 0))
  /\ UNCHANGED <<orderVars, deposit, withdrawal>>

createConsumerBalanceAdjustment(i, a, delta) ==
  /\ balance[a].available + delta >= 0
  /\ SetBalance(a, balance[a].available + delta, balance[a].reserved, balance[a].open)
  /\ Post(<<"adjustment", i>>, a, Postings(-delta, delta, 0, 0, 0))
  /\ UNCHANGED <<orderVars, deposit, withdrawal>>

-----------------------------------------------------------------------------
(* Reservations.  The advisory lock is taken inside the statement, after   *)
(* its READ COMMITTED snapshot: the daily sum and the duplicate test come  *)
(* from the snapshot, the balance row is read again when it is updated.    *)

IdleStatement ==
  [key |-> 0, account |-> NoAccount, notional |-> 0,
   cost |-> 0, daily |-> 0, duplicate |-> FALSE]

BeginReserve(s, k, a, notional, cost) ==
  /\ stmt[s].key = 0
  /\ notional <= MaxOrder
  /\ stmt' = [stmt EXCEPT ![s] =
       [key |-> k, account |-> a, notional |-> notional, cost |-> cost,
        daily |-> DailyNotional(a), duplicate |-> reservation[k].status # "none"]]
  /\ UNCHANGED <<moneyVars, reservation, order, fills, job, deposit, withdrawal>>

ReserveAmount(t) == t.notional + consumerFeeMicroUsdc(t.notional) + t.cost

\* Mutants of WithinLimits: no look at the balance, no look at the daily sum.
WithinLimitsUnfunded(t) ==
  /\ t.daily + t.notional <= MaxDaily
  /\ balance[t.account].open + t.notional <= MaxPosition
  /\ ~t.duplicate

WithinLimitsAnyDay(t) ==
  /\ balance[t.account].available >= ReserveAmount(t)
  /\ balance[t.account].open + t.notional <= MaxPosition
  /\ ~t.duplicate

WithinLimits(t) ==
  /\ balance[t.account].available >= ReserveAmount(t)
  /\ t.daily + t.notional <= MaxDaily
  /\ balance[t.account].open + t.notional <= MaxPosition
  /\ ~t.duplicate

\* The statement updates the balance and inserts the reservation and its
\* ledger transaction.
reserveConsumerBalance(s) ==
  LET t == stmt[s]
      amount == ReserveAmount(t)
      b == balance[t.account]
  IN
  /\ t.key # 0
  /\ WithinLimits(t)
  /\ reservation[t.key].status = "none"
  /\ SetBalance(t.account, b.available - amount, b.reserved + amount, b.open)
  /\ reservation' = [reservation EXCEPT ![t.key] =
       [status |-> "reserved", account |-> t.account,
        notional |-> t.notional, amount |-> amount]]
  /\ Post(<<"reserve", t.key>>, t.account, Postings(0, -amount, amount, 0, 0))
  /\ stmt' = [stmt EXCEPT ![s] = IdleStatement]
  /\ UNCHANGED <<order, fills, job, deposit, withdrawal>>

\* No row, or a UNIQUE violation: the caller reports an error.
ReserveRefused(s) ==
  /\ stmt[s].key # 0
  /\ ~WithinLimits(stmt[s]) \/ reservation[stmt[s].key].status # "none"
  /\ stmt' = [stmt EXCEPT ![s] = IdleStatement]
  /\ UNCHANGED <<moneyVars, reservation, order, fills, job, deposit, withdrawal>>

\* Mutant of releaseConsumerReservation: the ledger transaction is forgotten.
ReleaseWithoutPosting(k) ==
  LET a == reservation[k].account
      amount == reservation[k].amount
  IN
  /\ reservation[k].status = "reserved"
  /\ reservation' = [reservation EXCEPT ![k].status = "released"]
  /\ SetBalance(a, balance[a].available + amount, balance[a].reserved - amount, balance[a].open)
  /\ UNCHANGED <<book, posted, stmt, order, fills, job, deposit, withdrawal>>

\* The balance row changes only if it holds enough reserved money; the
\* ledger transaction is inserted whether it does or not.
releaseConsumerReservation(k) ==
  LET a == reservation[k].account
      amount == reservation[k].amount
      b == balance[a]
  IN
  /\ reservation[k].status = "reserved"
  /\ reservation' = [reservation EXCEPT ![k].status = "released"]
  /\ IF b.reserved >= amount
     THEN SetBalance(a, b.available + amount, b.reserved - amount, b.open)
     ELSE UNCHANGED balance
  /\ Post(<<"release", k>>, a, Postings(0, amount, -amount, 0, 0))
  /\ UNCHANGED <<stmt, order, fills, job, deposit, withdrawal>>

\* Mutant of markConsumerReservationSubmitted: any reservation is marked.
MarkUnguarded(k) ==
  /\ reservation[k].status # "none"
  /\ reservation' = [reservation EXCEPT ![k].status = "submitted"]
  /\ UNCHANGED <<moneyVars, stmt, order, fills, job, deposit, withdrawal>>

markConsumerReservationSubmitted(k) ==
  /\ reservation[k].status = "reserved"
  /\ reservation' = [reservation EXCEPT ![k].status = "submitted"]
  /\ UNCHANGED <<moneyVars, stmt, order, fills, job, deposit, withdrawal>>

\* Mutant of recordConsumerVenueOrder: the reservation need not be submitted.
RecordUnguarded(k, w) ==
  /\ reservation[k].status # "none"
  /\ order[k].status = "none"
  /\ \A j \in Orders : order[j].work # w
  /\ order' = [order EXCEPT ![k] = [status |-> "submitted", work |-> w]]
  /\ UNCHANGED <<moneyVars, reservation, stmt, fills, job, deposit, withdrawal>>

\* An order that is already there is returned unchanged; a work order that
\* another order row carries violates UNIQUE.
recordConsumerVenueOrder(k, w) ==
  /\ reservation[k].status = "submitted"
  /\ order[k].status = "none"
  /\ \A j \in Orders : order[j].work # w
  /\ order' = [order EXCEPT ![k] = [status |-> "submitted", work |-> w]]
  /\ UNCHANGED <<moneyVars, reservation, stmt, fills, job, deposit, withdrawal>>

-----------------------------------------------------------------------------
(* Reconciliation jobs and settlement.                                     *)

\* Mutant of prepareReconciliation: the work order column is not UNIQUE.
PrepareDuplicateWork(k, w) ==
  /\ job' = IF job[k].status = "none"
            THEN [job EXCEPT ![k] = [status |-> "prepared", work |-> w]] ELSE job
  /\ UNCHANGED <<moneyVars, reservation, stmt, order, fills, deposit, withdrawal>>

\* ON CONFLICT (venue_order_id) DO NOTHING: a second call for an order changes
\* nothing; a work order that another order carries violates UNIQUE.
prepareReconciliation(k, w) ==
  /\ job[k].status = "none" => \A j \in Orders : job[j].work # w
  /\ job' = IF job[k].status = "none"
            THEN [job EXCEPT ![k] = [status |-> "prepared", work |-> w]] ELSE job
  /\ UNCHANGED <<moneyVars, reservation, stmt, order, fills, deposit, withdrawal>>

OpenJob == {"prepared", "awaiting_evidence"}

\* The job is found by its work order.
enqueueReconciliation(w) ==
  \E k \in Orders :
    /\ job[k].work = w /\ job[k].status \in OpenJob
    /\ job' = [job EXCEPT ![k].status = "awaiting_evidence"]
    /\ UNCHANGED <<moneyVars, reservation, stmt, order, fills, deposit, withdrawal>>

\* Mutant of processReconciliationDeadlines: prepared jobs are not swept.
SweepAwaitingOnly(late) ==
  /\ late # {} /\ late \subseteq {k \in Orders : job[k].status = "awaiting_evidence"}
  /\ job' = [k \in Orders |->
       IF k \in late THEN [job[k] EXCEPT !.status = "failed_review"] ELSE job[k]]
  /\ UNCHANGED <<moneyVars, reservation, stmt, order, fills, deposit, withdrawal>>

\* The open jobs in late are those past their deadline when the sweep runs.
processReconciliationDeadlines(late) ==
  /\ late # {} /\ late \subseteq {k \in Orders : job[k].status \in OpenJob}
  /\ job' = [k \in Orders |->
       IF k \in late THEN [job[k] EXCEPT !.status = "failed_review"] ELSE job[k]]
  /\ UNCHANGED <<moneyVars, reservation, stmt, order, fills, deposit, withdrawal>>

\* Mutant of SettledAmount: the fee is left out.
SettledWithoutFee(filled, cost) == filled + cost

SettledAmount(filled, cost) == filled + cost + consumerFeeMicroUsdc(filled)

\* The target CTE: the row the settlement locks and applies to.
Settleable(k, filled, cost) ==
  /\ order[k].status = "submitted"
  /\ reservation[k].status = "submitted"
  /\ reservation[k].amount >= SettledAmount(filled, cost)

\* The fill CTE does not read target.  It needs the order row (foreign key)
\* and an unused reference (UNIQUE); otherwise the whole statement fails.
FillInsertable(k, ref, filled) ==
  filled > 0 => order[k].status # "none" /\ \A f \in fills : f.ref # ref

InsertFill(k, ref, filled) ==
  fills' = IF filled > 0
           THEN fills \cup {[ref |-> ref, order |-> k, filled |-> filled]} ELSE fills

\* The completed_job CTE does not read target either.
CompleteJob(k) ==
  job' = IF job[k].status = "none" THEN job
         ELSE [job EXCEPT ![k].status = "reconciled"]

\* The settlement, as the web store and the worker both have it.
reconcileConsumerVenueOrder(k, ref, filled, cost) ==
  LET a == reservation[k].account
      amount == reservation[k].amount
      unused == amount - SettledAmount(filled, cost)
      b == balance[a]
  IN
  /\ Settleable(k, filled, cost)
  /\ FillInsertable(k, ref, filled)
  /\ reservation' = [reservation EXCEPT ![k].status = "settled"]
  /\ IF b.reserved >= amount
     THEN SetBalance(a, b.available + unused, b.reserved - amount, b.open + filled)
     ELSE UNCHANGED balance
  /\ order' = [order EXCEPT ![k].status = "reconciled"]
  /\ InsertFill(k, ref, filled)
  /\ Post(<<"settle", k>>, a,
          Postings(0, unused, -amount, filled + cost, consumerFeeMicroUsdc(filled)))
  /\ UNCHANGED <<stmt, deposit, withdrawal>>

\* The worker's statement closes the job as well.
reconcile(k, ref, filled, cost) ==
  reconcileConsumerVenueOrder(k, ref, filled, cost) /\ CompleteJob(k)

\* The same statement when it finds nothing to settle: it still commits.
\* Its target is read from the statement's snapshot, here from this state.
ReconcileRefused(k, ref, filled, cost) ==
  /\ ~Settleable(k, filled, cost)
  /\ FillInsertable(k, ref, filled)
  /\ InsertFill(k, ref, filled)
  /\ CompleteJob(k)
  /\ UNCHANGED <<moneyVars, reservation, stmt, order, deposit, withdrawal>>

-----------------------------------------------------------------------------
(* Withdrawals.                                                            *)

\* Rows are numbered in the order of created_at.
createConsumerWithdrawal(w, a, amount) ==
  LET b == balance[a] IN
  /\ withdrawal[w].status = "none"
  /\ \A v \in Withdrawals : v < w => withdrawal[v].status # "none"
  /\ b.available >= amount
  /\ SetBalance(a, b.available - amount, b.reserved, b.open)
  /\ withdrawal' = [withdrawal EXCEPT ![w] =
       [status |-> "queued", account |-> a, amount |-> amount, fresh |-> FALSE,
        message |-> NoSignature, signature |-> NoSignature]]
  /\ Post(<<"withdrawal", w>>, a, Postings(amount, -amount, 0, 0, 0))
  /\ UNCHANGED <<orderVars, deposit>>

\* Mutant of prepareConsumerWithdrawal: a cancelled withdrawal is prepared again.
PrepareUnguarded(w, m) ==
  /\ withdrawal[w].status \in {"queued", "prepared", "cancelled"}
  /\ withdrawal' = [withdrawal EXCEPT ![w].status = "prepared", ![w].message = m,
                                      ![w].fresh = TRUE]
  /\ UNCHANGED <<moneyVars, orderVars, deposit>>

prepareConsumerWithdrawal(w, m) ==
  /\ withdrawal[w].status \in {"queued", "prepared"}
  /\ withdrawal' = [withdrawal EXCEPT ![w].status = "prepared", ![w].message = m,
                                      ![w].fresh = TRUE]
  /\ UNCHANGED <<moneyVars, orderVars, deposit>>

\* The 90 seconds of a prepared transaction pass.
PreparedWithdrawalExpires(w) ==
  /\ withdrawal[w].status = "prepared" /\ withdrawal[w].fresh
  /\ withdrawal' = [withdrawal EXCEPT ![w].fresh = FALSE]
  /\ UNCHANGED <<moneyVars, orderVars, deposit>>

SignatureUnused(sig) == \A v \in Withdrawals : withdrawal[v].signature # sig

submitPreparedConsumerWithdrawal(w, m) ==
  /\ withdrawal[w].status = "prepared"
  /\ withdrawal[w].message = m
  /\ withdrawal[w].fresh
  /\ SignatureUnused(m)
  /\ withdrawal' = [withdrawal EXCEPT ![w].status = "submitted", ![w].signature = m]
  /\ UNCHANGED <<moneyVars, orderVars, deposit>>

\* Mutants of cancelConsumerWithdrawal: the treasury leg of the posting is
\* missing; a withdrawal that is being dispatched can be cancelled.
CancelOneSided(w) ==
  LET a == withdrawal[w].account
      amount == withdrawal[w].amount
  IN
  /\ withdrawal[w].status \in {"queued", "prepared"}
  /\ withdrawal' = [withdrawal EXCEPT ![w].status = "cancelled"]
  /\ SetBalance(a, balance[a].available + amount, balance[a].reserved, balance[a].open)
  /\ Post(<<"withdrawal_release", w>>, a, Postings(0, amount, 0, 0, 0))
  /\ UNCHANGED <<orderVars, deposit>>

CancelDispatching(w) ==
  LET a == withdrawal[w].account
      amount == withdrawal[w].amount
  IN
  /\ withdrawal[w].status \in {"queued", "prepared", "dispatching"}
  /\ withdrawal' = [withdrawal EXCEPT ![w].status = "cancelled"]
  /\ SetBalance(a, balance[a].available + amount, balance[a].reserved, balance[a].open)
  /\ Post(<<"withdrawal_release", w>>, a, Postings(-amount, amount, 0, 0, 0))
  /\ UNCHANGED <<orderVars, deposit>>

cancelConsumerWithdrawal(w) ==
  LET a == withdrawal[w].account
      amount == withdrawal[w].amount
  IN
  /\ withdrawal[w].status \in {"queued", "prepared"}
  /\ withdrawal' = [withdrawal EXCEPT ![w].status = "cancelled"]
  /\ SetBalance(a, balance[a].available + amount, balance[a].reserved, balance[a].open)
  /\ Post(<<"withdrawal_release", w>>, a, Postings(-amount, amount, 0, 0, 0))
  /\ UNCHANGED <<orderVars, deposit>>

\* Mutant of ClaimWithdrawal: prepared withdrawals are claimed too.
ClaimPrepared(w) ==
  /\ withdrawal[w].status \in {"queued", "prepared"}
  /\ withdrawal' = [withdrawal EXCEPT ![w].status = "dispatching"]
  /\ UNCHANGED <<moneyVars, orderVars, deposit>>

\* The worker claims the oldest queued withdrawal.
ClaimWithdrawal(w) ==
  /\ withdrawal[w].status = "queued"
  /\ \A v \in Withdrawals : v < w => withdrawal[v].status # "queued"
  /\ withdrawal' = [withdrawal EXCEPT ![w].status = "dispatching"]
  /\ UNCHANGED <<moneyVars, orderVars, deposit>>

WithdrawalDispatched(w, sig) ==
  /\ withdrawal[w].status = "dispatching"
  /\ SignatureUnused(sig)
  /\ withdrawal' = [withdrawal EXCEPT ![w].status = "submitted", ![w].signature = sig]
  /\ UNCHANGED <<moneyVars, orderVars, deposit>>

markWithdrawalReview(w) ==
  /\ withdrawal[w].status = "dispatching"
  /\ withdrawal' = [withdrawal EXCEPT ![w].status = "failed_review"]
  /\ UNCHANGED <<moneyVars, orderVars, deposit>>

\* finalizeSubmittedWithdrawals writes one of two verdicts on a submitted row.
FinalizeWithdrawal(w, verdict) ==
  /\ withdrawal[w].status = "submitted"
  /\ withdrawal' = [withdrawal EXCEPT ![w].status = verdict]
  /\ UNCHANGED <<moneyVars, orderVars, deposit>>

-----------------------------------------------------------------------------
Init ==
  /\ balance = [a \in Accounts |-> [available |-> 0, reserved |-> 0, open |-> 0]]
  /\ book = [a \in Accounts |-> Postings(0, 0, 0, 0, 0)]
  /\ posted = {}
  /\ reservation = [k \in Orders |->
       [status |-> "none", account |-> NoAccount, notional |-> 0, amount |-> 0]]
  /\ stmt = [s \in Sessions |-> IdleStatement]
  /\ order = [k \in Orders |-> [status |-> "none", work |-> NoWork]]
  /\ fills = {}
  /\ job = [k \in Orders |-> [status |-> "none", work |-> NoWork]]
  /\ deposit = [d \in Deposits |->
       [status |-> "none", account |-> NoAccount, amount |-> 0,
        fresh |-> FALSE, signature |-> NoSignature]]
  /\ withdrawal = [w \in Withdrawals |->
       [status |-> "none", account |-> NoAccount, amount |-> 0, fresh |-> FALSE,
        message |-> NoSignature, signature |-> NoSignature]]

DepositStep ==
  \/ \E d \in Deposits, a \in Accounts, n \in Transfers : createConsumerDepositIntent(d, a, n)
  \/ \E d \in Deposits : DepositIntentExpires(d)
  \/ \E d \in Deposits, sig \in Signatures : confirmConsumerDeposit(d, sig)
  \/ \E i \in Incidents, a \in Accounts, n \in Transfers :
       \/ createConsumerBalanceAdjustment(i, a, n)
       \/ createConsumerBalanceAdjustment(i, a, -n)

ReservationStep ==
  \/ \E s \in Sessions, k \in Orders, a \in Accounts, n \in Notionals, c \in VenueCosts :
       BeginReserve(s, k, a, n, c)
  \/ \E s \in Sessions : reserveConsumerBalance(s)
  \/ \E s \in Sessions : ReserveRefused(s)
  \/ \E k \in Orders : releaseConsumerReservation(k)
  \/ \E k \in Orders : markConsumerReservationSubmitted(k)
  \/ \E k \in Orders, w \in WorkOrders : recordConsumerVenueOrder(k, w)

ReconciliationStep ==
  \/ \E k \in Orders, w \in WorkOrders : prepareReconciliation(k, w)
  \/ \E w \in WorkOrders : enqueueReconciliation(w)
  \/ \E late \in SUBSET Orders : processReconciliationDeadlines(late)
  \/ \E k \in Orders, ref \in FillRefs, filled \in Notionals \cup {0}, c \in VenueCosts :
       \/ reconcile(k, ref, filled, c)
       \/ ReconcileRefused(k, ref, filled, c)

WithdrawalStep ==
  \/ \E w \in Withdrawals, a \in Accounts, n \in Transfers : createConsumerWithdrawal(w, a, n)
  \/ \E w \in Withdrawals, m \in Signatures : prepareConsumerWithdrawal(w, m)
  \/ \E w \in Withdrawals : PreparedWithdrawalExpires(w)
  \/ \E w \in Withdrawals, m \in Signatures : submitPreparedConsumerWithdrawal(w, m)
  \/ \E w \in Withdrawals : cancelConsumerWithdrawal(w)
  \/ \E w \in Withdrawals : ClaimWithdrawal(w)
  \/ \E w \in Withdrawals, sig \in Signatures : WithdrawalDispatched(w, sig)
  \/ \E w \in Withdrawals : markWithdrawalReview(w)
  \/ \E w \in Withdrawals, v \in {"finalized", "failed_review"} : FinalizeWithdrawal(w, v)

Next == DepositStep \/ ReservationStep \/ ReconciliationStep \/ WithdrawalStep

Spec == Init /\ [][Next]_vars

-----------------------------------------------------------------------------
(***************************************************************************)
(* Properties.                                                             *)
(***************************************************************************)

\* The reserved column of a balance is exactly the sum of the account's
\* reservations that are neither released nor settled.  The release and the
\* settlement statements update the balance only when it holds enough
\* reserved money but post to the ledger regardless, so this is what keeps
\* the two from drifting apart.
ReservedIsHeld ==
  \A a \in Accounts : balance[a].reserved = Total(HeldColumn(a), NOrders)

\* The balance row the trading checks read and the append-only ledger that
\* incident review reads never disagree.
BalanceAgreesWithLedger ==
  \A a \in Accounts :
    /\ book[a].available = balance[a].available
    /\ book[a].reserved = balance[a].reserved

\* Double entry: what the treasury owes is what consumers have available or
\* reserved plus what went to venues and to fees, whatever the mix of
\* deposits, settlements, withdrawals, refunds and corrections.
TreasuryBacksLiabilities ==
  \A a \in Accounts :
    -book[a].treasury = balance[a].available + balance[a].reserved
                          + book[a].venue + book[a].fee

\* A row and the ledger transactions that explain it appear together and are
\* never contradicted: a reservation is released or settled, not both, a
\* refund exists exactly for a cancelled withdrawal, and no statement is
\* ever stopped by an idempotency key another one used.
LedgerExplainsRows ==
  /\ \A k \in Orders :
       /\ <<"reserve", k>> \in posted <=> reservation[k].status # "none"
       /\ <<"release", k>> \in posted <=> reservation[k].status = "released"
       /\ <<"settle", k>> \in posted <=> reservation[k].status = "settled"
  /\ \A d \in Deposits : <<"deposit", d>> \in posted <=> deposit[d].status = "confirmed"
  /\ \A w \in Withdrawals :
       /\ <<"withdrawal", w>> \in posted <=> withdrawal[w].status # "none"
       /\ <<"withdrawal_release", w>> \in posted <=> withdrawal[w].status = "cancelled"

\* A venue order is reconciled exactly when its reservation is settled, and
\* it is never recorded for a reservation whose money was given back.
OrderFollowsReservation ==
  \A k \in Orders :
    /\ order[k].status = "reconciled" <=> reservation[k].status = "settled"
    /\ order[k].status = "submitted" => reservation[k].status = "submitted"

\* Two statements may read the same daily sum, so the daily limit can be
\* passed; it is never passed by more than one order for every other
\* statement that was running.
DailyOvershootBounded ==
  \A a \in Accounts : DailyNotional(a) <= MaxDaily + (NSessions - 1) * MaxOrder

\* The abstract specification, seen through the tables: available money is
\* free, a reservation is the escrow of its key.
Phase(status) ==
  CASE status = "none" -> "unused" [] status = "released" -> "returned"
    [] status = "settled" -> "spent" [] OTHER -> "held"

Escrow == INSTANCE ConsumerEscrow WITH
  Keys <- Orders,
  free <- [a \in Accounts |-> balance[a].available],
  escrow <- [k \in Orders |->
    [phase |-> Phase(reservation[k].status), account |-> reservation[k].account,
     amount |-> reservation[k].amount]]

\* The database implements the escrow: order money is held at most once per
\* idempotency key and leaves the hold exactly once, in full or net of what
\* the settlement spent, although releases, settlements, deposits and
\* withdrawals are independent statements that update the same rows.
ImplementsEscrow == Escrow!EscrowSpec
=============================================================================
