----------------------- MODULE ConsumerWithdrawalFlow -----------------------
(***************************************************************************)
(* A USDC withdrawal from the request to finality on Solana.  There are    *)
(* two ways out of the treasury: the consumer's browser signs a prepared   *)
(* transaction which a web route broadcasts, or the worker claims a queued *)
(* withdrawal and hands it to the dispatch service.  The worker verifies   *)
(* finality of both.  A web function may die, or lose the answer of an RPC *)
(* node or of the database, at any point; so may the tick of the worker.   *)
(*                                                                         *)
(* Every step that touches a table is a statement of ConsumerDatabase.     *)
(* A route that reads rows and then runs one guarded statement is a single *)
(* step: what it read can only have been changed by a step that commutes   *)
(* with the statement.  The submit route, which broadcasts in between, is  *)
(* split.  The 24 hours a new wallet is on hold may pass at any time.      *)
(***************************************************************************)
EXTENDS ConsumerDatabase, ConsumerCircuit, Sequences

CONSTANTS
  Wallets,        \* wallets a consumer may bind
  NoWallet,       \* no wallet bound, no destination
  NSubmits,       \* number of runs of the submit route
  FinalizeBatch,  \* rows per finality pass, LIMIT 10 in the code
  MaxTickFailures,\* bound on ticks of the worker that end early
  MaxBindings     \* bound on changes of a wallet binding

ASSUME WalletsAssumption == NoWallet \notin Wallets
ASSUME FlowCountsAssumption ==
  /\ NSubmits \in Nat /\ FinalizeBatch \in Nat \ {0}
  /\ MaxTickFailures \in Nat /\ MaxBindings \in Nat

VARIABLES
  wallet,       \* consumer_wallet_bindings, by account
  destination,  \* consumer_withdrawals.destination_wallet_commitment
  queue,        \* submitted withdrawals, by updated_at
  submit,       \* the submit route: where each run is
  worker,       \* the worker's tick
  service,      \* the dispatch service, by withdrawal
  chain,        \* transactions, by signature
  broadcasts,   \* <<withdrawal, transaction>> the web tier has sent
  failures, bindings

flowVars == <<wallet, destination, queue, submit, worker, service, chain, broadcasts,
              failures, bindings>>
databaseVars == <<balance, book, posted, reservation, stmt, order, fills, job, deposit, withdrawal>>
withdrawalVars == <<databaseVars, circuit, flowVars>>

Submits == 1..NSubmits

Submit ==
  [pc: {"idle", "read", "sent", "drift", "merging", "done", "lost"},
   row: 0..NWithdrawals, message: Signatures \cup {NoSignature}, circuit: CircuitState]
Row == [row: Withdrawals, wallet: Wallets \cup {NoWallet}]
Tick ==
  [pc: {"idle", "finalizing", "claimed", "calling", "answered", "review", "halting"},
   rows: Seq(Row), row: 0..NWithdrawals, signature: Signatures \cup {NoSignature},
   reason: Reasons]
Transaction ==
  [state: {"unused", "signed", "sent", "landed", "failed"},
   to: Wallets \cup {NoWallet}, amount: Nat]

\* Every variable of the flow has its type.
WithdrawalTypeOK ==
  /\ circuit \in CircuitState
  /\ wallet \in [Accounts -> Wallets \cup {NoWallet}]
  /\ destination \in [Withdrawals -> Wallets \cup {NoWallet}]
  /\ queue \in Seq(Withdrawals)
  /\ submit \in [Submits -> Submit]
  /\ worker \in Tick
  /\ service \in [Withdrawals -> {"none", "asked", "paid"}]
  /\ chain \in [Signatures -> Transaction]
  /\ broadcasts \subseteq Withdrawals \X Signatures
  /\ failures \in 0..MaxTickFailures /\ bindings \in 0..MaxBindings

Bound(w) == wallet[withdrawal[w].account] = destination[w]
Pays(w) == [to |-> destination[w], amount |-> withdrawal[w].amount]
Content(m) == [to |-> chain[m].to, amount |-> chain[m].amount]

\* A signature nobody has seen.  Signatures are interchangeable, so a new
\* transaction takes the first in a fixed order.
NewSignature(m) ==
  chain[m].state = "unused" /\ m = CHOOSE g \in Signatures : chain[g].state = "unused"

-----------------------------------------------------------------------------
(* The web routes under /v1/private-account.                               *)

putConsumerWalletBinding(a, wl) ==
  /\ bindings < MaxBindings
  /\ bindings' = bindings + 1
  /\ wallet' = [wallet EXCEPT ![a] = wl]
  /\ UNCHANGED <<databaseVars, circuit, destination, queue, submit, worker, service, chain,
                 broadcasts, failures>>

RequestWithdrawal(w, a, amount) ==
  /\ wallet[a] # NoWallet
  /\ createConsumerWithdrawal(w, a, amount)
  /\ destination' = [destination EXCEPT ![w] = wallet[a]]
  /\ UNCHANGED <<circuit, wallet, queue, submit, worker, service, chain, broadcasts,
                 failures, bindings>>

\* The treasury signs a transfer to the wallet that is bound now, for the
\* blockhash of the moment.  Two transfers of the same amount to the same
\* wallet under one blockhash are one transaction.
PrepareWithdrawal(w, m) ==
  LET transfer == [to |-> wallet[withdrawal[w].account], amount |-> withdrawal[w].amount] IN
  /\ withdrawal[w].status # "none" /\ Bound(w)
  /\ \/ NewSignature(m)
     \/ chain[m].state # "unused" /\ Content(m) = transfer
  /\ prepareConsumerWithdrawal(w, m)
  /\ chain' = [chain EXCEPT ![m] =
       [state |-> IF @.state = "unused" THEN "signed" ELSE @.state,
        to |-> transfer.to, amount |-> transfer.amount]]
  /\ UNCHANGED <<circuit, wallet, destination, queue, submit, worker, service, broadcasts,
                 failures, bindings>>

PreparationExpires(w) ==
  /\ PreparedWithdrawalExpires(w)
  /\ UNCHANGED <<circuit, flowVars>>

CancelWithdrawal(w) ==
  /\ withdrawal[w].status # "none" /\ Bound(w)
  /\ cancelConsumerWithdrawal(w)
  /\ UNCHANGED <<circuit, flowVars>>

GotoSubmit(r, pc) == submit' = [submit EXCEPT ![r].pc = pc]

\* The submit route reads the row; the transaction it was given must be the
\* one the row names.  Runs are numbered by arrival.
SubmitReads(r, w) ==
  /\ submit[r].pc = "idle"
  /\ \A q \in Submits : q < r => submit[q].pc # "idle"
  /\ withdrawal[w].status = "prepared" /\ withdrawal[w].fresh /\ Bound(w)
  /\ submit' = [submit EXCEPT ![r] =
       [@ EXCEPT !.pc = "read", !.row = w, !.message = withdrawal[w].message]]
  /\ UNCHANGED <<databaseVars, circuit, wallet, destination, queue, worker, service, chain,
                 broadcasts, failures, bindings>>

\* sendRawTransaction: the node takes the transaction, and its answer may
\* be lost, or refuses it.
SubmitBroadcasts(r) ==
  LET m == submit[r].message IN
  /\ submit[r].pc = "read"
  /\ chain' = [chain EXCEPT ![m].state = IF @ = "signed" THEN "sent" ELSE @]
  /\ broadcasts' = broadcasts \cup {<<submit[r].row, m>>}
  /\ GotoSubmit(r, "sent")
  /\ UNCHANGED <<databaseVars, circuit, wallet, destination, queue, worker, service,
                 failures, bindings>>

SubmitRefused(r) ==
  /\ submit[r].pc = "read"
  /\ GotoSubmit(r, "done")
  /\ UNCHANGED <<databaseVars, circuit, wallet, destination, queue, worker, service, chain,
                 broadcasts, failures, bindings>>

SubmitStores(r) ==
  /\ submit[r].pc = "sent"
  /\ submitPreparedConsumerWithdrawal(submit[r].row, submit[r].message)
  /\ queue' = Append(queue, submit[r].row)
  /\ GotoSubmit(r, "done")
  /\ UNCHANGED <<circuit, wallet, destination, worker, service, chain, broadcasts,
                 failures, bindings>>

\* The row has moved on since it was read.
StillSubmittable(r) ==
  LET row == withdrawal[submit[r].row] IN
  row.status = "prepared" /\ row.message = submit[r].message /\ row.fresh

\* Mutant of SubmitDrifts: the route answers 503 and does not halt.
SubmitIgnoresDrift(r) ==
  /\ submit[r].pc = "sent" /\ ~StillSubmittable(r)
  /\ GotoSubmit(r, "done")
  /\ UNCHANGED <<databaseVars, circuit, wallet, destination, queue, worker, service, chain,
                 broadcasts, failures, bindings>>

SubmitDrifts(r) ==
  /\ submit[r].pc = "sent" /\ ~StillSubmittable(r)
  /\ GotoSubmit(r, "drift")
  /\ UNCHANGED <<databaseVars, circuit, wallet, destination, queue, worker, service, chain,
                 broadcasts, failures, bindings>>

\* Another withdrawal has recorded the signature: the UPDATE violates UNIQUE.
SubmitConflicts(r) ==
  /\ submit[r].pc = "sent" /\ StillSubmittable(r) /\ ~SignatureUnused(submit[r].message)
  /\ GotoSubmit(r, "done")
  /\ UNCHANGED <<databaseVars, circuit, wallet, destination, queue, worker, service, chain,
                 broadcasts, failures, bindings>>

\* haltConsumerCircuit: read the row, then write it back.
DriftReadsCircuit(r) ==
  /\ submit[r].pc = "drift"
  /\ submit' = [submit EXCEPT ![r].pc = "merging", ![r].circuit = circuit]
  /\ UNCHANGED <<databaseVars, circuit, wallet, destination, queue, worker, service, chain,
                 broadcasts, failures, bindings>>

DriftHaltsCircuit(r) ==
  /\ submit[r].pc = "merging"
  /\ putCircuit(haltedState(submit[r].circuit, {"reconciliation_drift"}))
  /\ GotoSubmit(r, "done")
  /\ UNCHANGED <<databaseVars, wallet, destination, queue, worker, service, chain,
                 broadcasts, failures, bindings>>

\* The function dies, or an awaited call throws: the route answers 502.
SubmitLost(r) ==
  /\ submit[r].pc \in {"read", "sent", "drift", "merging"}
  /\ GotoSubmit(r, "lost")
  /\ UNCHANGED <<databaseVars, circuit, wallet, destination, queue, worker, service, chain,
                 broadcasts, failures, bindings>>

-----------------------------------------------------------------------------
(* The worker: tick, processWithdrawals, finalizeSubmittedWithdrawals.     *)

IdleTick ==
  [pc |-> "idle", rows |-> <<>>, row |-> 0, signature |-> NoSignature,
   reason |-> "reconciliation_drift"]

\* Mutant of tick: the finality pass is skipped.
TickWithoutFinality ==
  /\ worker.pc = "idle"
  /\ worker' = [worker EXCEPT !.pc = "finalizing"]
  /\ UNCHANGED <<databaseVars, circuit, wallet, destination, queue, submit, service, chain,
                 broadcasts, failures, bindings>>

tick ==
  /\ worker.pc = "idle"
  /\ LET batch == IF Len(queue) < FinalizeBatch THEN Len(queue) ELSE FinalizeBatch
     IN  worker' = [worker EXCEPT !.pc = "finalizing", !.rows =
           [i \in 1..batch |->
              [row |-> queue[i], wallet |-> wallet[withdrawal[queue[i]].account]]]]
  /\ UNCHANGED <<databaseVars, circuit, wallet, destination, queue, submit, service, chain,
                 broadcasts, failures, bindings>>

\* Mutant of Verdict: a transaction that is unknown or failed counts as final.
VerdictOptimistic(entry) ==
  IF entry.wallet # destination[entry.row] THEN "recipient_binding_stale" ELSE "finalized"

\* What the worker finds out about a row it has read, if the RPC node
\* answers: a transaction the chain does not know is pending, and one that
\* moved at least the amount to the wallet that was read is final.
Verdict(entry) ==
  LET w == entry.row
      tx == withdrawal[w].signature
  IN  IF entry.wallet # destination[w] THEN "recipient_binding_stale"
      ELSE IF chain[tx].state \notin {"landed", "failed"} THEN "pending"
      ELSE IF /\ chain[tx].state = "landed"
              /\ chain[tx].to = entry.wallet /\ chain[tx].amount >= withdrawal[w].amount
           THEN "finalized"
      ELSE "reconciliation_drift"

CheckedRow(rest) == [worker EXCEPT !.pc = "finalizing", !.rows = rest]

\* The transaction is unknown, or the RPC call fails: either is pending,
\* so a row whose transaction has landed may be passed over too.
RowPending ==
  /\ worker.pc = "finalizing" /\ worker.rows # <<>>
  /\ Verdict(Head(worker.rows)) # "recipient_binding_stale"
  /\ worker' = CheckedRow(Tail(worker.rows))
  /\ UNCHANGED <<databaseVars, circuit, wallet, destination, queue, submit, service, chain,
                 broadcasts, failures, bindings>>

\* A submitted row is in the queue once; it leaves its place.
Dequeue(w) ==
  LET place == CHOOSE i \in 1..Len(queue) : queue[i] = w
  IN  queue' = [i \in 1..(Len(queue) - 1) |-> IF i < place THEN queue[i] ELSE queue[i + 1]]

RowFinalized ==
  /\ worker.pc = "finalizing" /\ worker.rows # <<>>
  /\ Verdict(Head(worker.rows)) = "finalized"
  /\ FinalizeWithdrawal(Head(worker.rows).row, "finalized")
  /\ Dequeue(Head(worker.rows).row)
  /\ worker' = CheckedRow(Tail(worker.rows))
  /\ UNCHANGED <<circuit, wallet, destination, submit, service, chain, broadcasts,
                 failures, bindings>>

RowReviewed ==
  LET verdict == Verdict(Head(worker.rows)) IN
  /\ worker.pc = "finalizing" /\ worker.rows # <<>>
  /\ verdict \in Reasons
  /\ FinalizeWithdrawal(Head(worker.rows).row, "failed_review")
  /\ Dequeue(Head(worker.rows).row)
  /\ worker' = [CheckedRow(Tail(worker.rows)) EXCEPT !.pc = "halting", !.reason = verdict]
  /\ UNCHANGED <<circuit, wallet, destination, submit, service, chain, broadcasts,
                 failures, bindings>>

\* The halt that follows a review; rows left over are checked next.
ReviewHaltsCircuit ==
  /\ worker.pc = "halting"
  /\ halt({worker.reason})
  /\ worker' = IF worker.row = 0 THEN CheckedRow(worker.rows) ELSE IdleTick
  /\ UNCHANGED <<databaseVars, wallet, destination, queue, submit, service, chain,
                 broadcasts, failures, bindings>>

ClaimQueued(w) ==
  /\ worker.pc = "finalizing" /\ worker.rows = <<>>
  /\ ClaimWithdrawal(w)
  /\ worker' = [worker EXCEPT !.pc = "claimed", !.row = w]
  /\ UNCHANGED <<circuit, wallet, destination, queue, submit, service, chain, broadcasts,
                 failures, bindings>>

\* Nothing is queued, or no dispatch service is configured.
TickEnds ==
  /\ worker.pc = "finalizing" /\ worker.rows = <<>>
  /\ worker' = IdleTick
  /\ UNCHANGED <<databaseVars, circuit, wallet, destination, queue, submit, service, chain,
                 broadcasts, failures, bindings>>

\* Read the binding and call the dispatch service if it is unchanged.
CallDispatch ==
  LET w == worker.row IN
  /\ worker.pc = "claimed"
  /\ IF Bound(w)
     THEN /\ service' = [service EXCEPT ![w] = "asked"]
          /\ worker' = [worker EXCEPT !.pc = "calling"]
     ELSE /\ worker' = [worker EXCEPT !.pc = "review", !.reason = "recipient_binding_stale"]
          /\ UNCHANGED service
  /\ UNCHANGED <<databaseVars, circuit, wallet, destination, queue, submit, chain,
                 broadcasts, failures, bindings>>

\* The dispatch service (external) pays a withdrawal id at most once, at
\* any time after it was asked: also after the caller has given up.
DispatchPays(w, sig) ==
  /\ service[w] = "asked" /\ NewSignature(sig)
  /\ service' = [service EXCEPT ![w] = "paid"]
  /\ chain' = [chain EXCEPT ![sig] =
       [state |-> "sent", to |-> destination[w], amount |-> withdrawal[w].amount]]
  /\ worker' = IF worker.pc = "calling" /\ worker.row = w
               THEN [worker EXCEPT !.pc = "answered", !.signature = sig] ELSE worker
  /\ UNCHANGED <<databaseVars, circuit, wallet, destination, queue, submit, broadcasts,
                 failures, bindings>>

\* Mutant of DispatchFails: the reason is not one of the circuit's.
DispatchFailsRaw ==
  /\ worker.pc \in {"calling", "answered"}
  /\ worker' = [worker EXCEPT !.pc = "review", !.reason = "withdrawal_dispatch_failed"]
  /\ UNCHANGED <<databaseVars, circuit, wallet, destination, queue, submit, service, chain,
                 broadcasts, failures, bindings>>

\* An error, a timeout after 20 seconds, or an answer without a signature.
DispatchFails ==
  /\ worker.pc \in {"calling", "answered"}
  /\ worker' = [worker EXCEPT !.pc = "review", !.reason = "execution_failure_rate"]
  /\ UNCHANGED <<databaseVars, circuit, wallet, destination, queue, submit, service, chain,
                 broadcasts, failures, bindings>>

RecordDispatch ==
  /\ worker.pc = "answered"
  /\ WithdrawalDispatched(worker.row, worker.signature)
  /\ queue' = Append(queue, worker.row)
  /\ worker' = IdleTick
  /\ UNCHANGED <<circuit, wallet, destination, submit, service, chain, broadcasts,
                 failures, bindings>>

\* Mutant of ReviewClaimed: the row is marked and trading goes on.
ReviewQuietly ==
  /\ worker.pc = "review"
  /\ markWithdrawalReview(worker.row)
  /\ worker' = IdleTick
  /\ UNCHANGED <<circuit, wallet, destination, queue, submit, service, chain, broadcasts,
                 failures, bindings>>

ReviewClaimed ==
  /\ worker.pc = "review"
  /\ markWithdrawalReview(worker.row)
  /\ worker' = [worker EXCEPT !.pc = "halting"]
  /\ UNCHANGED <<circuit, wallet, destination, queue, submit, service, chain, broadcasts,
                 failures, bindings>>

\* The worker restarts, or a statement throws and the tick is abandoned.
TickFails ==
  /\ worker.pc # "idle" /\ failures < MaxTickFailures
  /\ failures' = failures + 1
  /\ worker' = IdleTick
  /\ UNCHANGED <<databaseVars, circuit, wallet, destination, queue, submit, service, chain,
                 broadcasts, bindings>>

\* Solana (external): a transaction that was sent is finalized with or
\* without an error, or never.
TransactionLands(m, outcome) ==
  /\ chain[m].state = "sent"
  /\ chain' = [chain EXCEPT ![m].state = outcome]
  /\ UNCHANGED <<databaseVars, circuit, wallet, destination, queue, submit, worker, service,
                 broadcasts, failures, bindings>>

\* Consumers fund their accounts through the deposit statements.
Fund == DepositStep /\ UNCHANGED <<circuit, flowVars>>

-----------------------------------------------------------------------------
WithdrawalInit ==
  /\ Init
  /\ circuit = OpenCircuit
  /\ wallet = [a \in Accounts |-> NoWallet]
  /\ destination = [w \in Withdrawals |-> NoWallet]
  /\ queue = <<>>
  /\ submit = [r \in Submits |->
       [pc |-> "idle", row |-> 0, message |-> NoSignature, circuit |-> OpenCircuit]]
  /\ worker = IdleTick
  /\ service = [w \in Withdrawals |-> "none"]
  /\ chain = [m \in Signatures |-> [state |-> "unused", to |-> NoWallet, amount |-> 0]]
  /\ broadcasts = {}
  /\ failures = 0 /\ bindings = 0

ConsumerSteps ==
  \/ Fund
  \/ \E a \in Accounts, wl \in Wallets : putConsumerWalletBinding(a, wl)
  \/ \E w \in Withdrawals, a \in Accounts, n \in Transfers : RequestWithdrawal(w, a, n)
  \/ \E w \in Withdrawals, m \in Signatures : PrepareWithdrawal(w, m)
  \/ \E w \in Withdrawals : PreparationExpires(w) \/ CancelWithdrawal(w)

SubmitSteps(r) ==
  \/ \E w \in Withdrawals : SubmitReads(r, w)
  \/ SubmitBroadcasts(r)
  \/ SubmitRefused(r)
  \/ SubmitStores(r)
  \/ SubmitDrifts(r)
  \/ SubmitConflicts(r)
  \/ DriftReadsCircuit(r)
  \/ DriftHaltsCircuit(r)
  \/ SubmitLost(r)

WorkerSteps ==
  \/ tick
  \/ RowPending
  \/ RowFinalized
  \/ RowReviewed
  \/ ReviewHaltsCircuit
  \/ \E w \in Withdrawals : ClaimQueued(w)
  \/ TickEnds
  \/ CallDispatch
  \/ DispatchFails
  \/ RecordDispatch
  \/ ReviewClaimed

WithdrawalNext ==
  \/ ConsumerSteps
  \/ \E r \in Submits : SubmitSteps(r)
  \/ WorkerSteps
  \/ TickFails
  \/ \E w \in Withdrawals, sig \in Signatures : DispatchPays(w, sig)
  \/ \E m \in Signatures, outcome \in {"landed", "failed"} : TransactionLands(m, outcome)

WithdrawalSpec == WithdrawalInit /\ [][WithdrawalNext]_withdrawalVars

\* The interval timer of the worker never stops, and each statement or call
\* of a tick returns: a dispatch that hangs is cut off after 20 seconds.
\* The RPC node may fail any number of times, but if it is asked about
\* decided transactions again and again, it answers at some time.
FairWithdrawalSpec ==
  /\ WithdrawalSpec /\ WF_withdrawalVars(WorkerSteps)
  /\ SF_withdrawalVars(RowFinalized \/ RowReviewed)

-----------------------------------------------------------------------------
(***************************************************************************)
(* Properties.                                                             *)
(***************************************************************************)

\* No withdrawal leaves through both doors: what a web route broadcasts the
\* worker never hands to the dispatch service, in either order, because a
\* row that was ever prepared is never queued again.
SingleChannel ==
  \A w \in Withdrawals :
    service[w] # "none" => \A m \in Signatures : <<w, m>> \notin broadcasts

\* Once the dispatch service was asked, the money stays debited: the answer
\* may be late, wrong or lost, and the row may be in review, but it is never
\* refunded and never queued again.
DispatchedNeverRefunded ==
  \A w \in Withdrawals :
    service[w] # "none" =>
      withdrawal[w].status \in {"dispatching", "submitted", "finalized", "failed_review"}

\* A withdrawal called finalized was paid: its own transaction landed and
\* carried its amount, neither less nor more, to the wallet it was requested
\* for.  The worker's check accepts more than the amount; that it is not more
\* follows from how the transaction came to be recorded: by the treasury's
\* signature or by the dispatch service, over whatever re-preparations,
\* shared transactions and late answers.
FinalizedWasPaid ==
  \A w \in Withdrawals :
    withdrawal[w].status = "finalized" =>
      /\ chain[withdrawal[w].signature].state = "landed"
      /\ Content(withdrawal[w].signature) = Pays(w)
      /\ \A v \in Withdrawals \ {w} : withdrawal[v].signature # withdrawal[w].signature

Recorded(m) == \E w \in Withdrawals : withdrawal[w].signature = m

InFlight(m) ==
  \E r \in Submits : submit[r].message = m /\ submit[r].pc \in {"sent", "drift", "merging"}

\* A transaction that a web route has sent is recorded on a withdrawal, or
\* the route is still at work on it, or it has halted trading, or that very
\* run of the route was lost.  A cancel, a second preparation or an expiry
\* between the read and the store are the races the halt is there for.
DriftHalts ==
  \A b \in broadcasts :
    \/ Recorded(b[2])
    \/ InFlight(b[2])
    \/ circuit.status = "halted"
    \/ \E r \in Submits : submit[r].message = b[2] /\ submit[r].pc = "lost"

\* The runbook says that the web tier may pause without affecting custody:
\* the same statement without the exception for a lost run.
PauseKeepsCustody ==
  \A b \in broadcasts : Recorded(b[2]) \/ InFlight(b[2]) \/ circuit.status = "halted"

\* While no tick has failed, a withdrawal in review means that trading is
\* halted or that the tick is about to halt it.
ReviewHalts ==
  failures = 0 =>
    \A w \in Withdrawals :
      withdrawal[w].status = "failed_review" =>
        worker.pc = "halting" \/ circuit.status = "halted"

\* A submitted withdrawal whose transaction landed is finalized or put in
\* review, whatever happens to the others and however often the RPC node
\* fails before it answers, as long as ticks do not fail for ever: ticks
\* that throw or die before they reach the row only delay it.
LandedIsDecided ==
  \A w \in Withdrawals :
    withdrawal[w].status = "submitted" /\ chain[withdrawal[w].signature].state = "landed"
      ~> withdrawal[w].status \in {"finalized", "failed_review"}
=============================================================================
