------------------------- MODULE ConsumerOrderFlow -------------------------
(***************************************************************************)
(* A pooled Phoenix order from the consumer's click to its settlement: the *)
(* web route (a Vercel function), the Phala worker's order handler, its    *)
(* tick and its reconciliation endpoint, the venue, and the database they  *)
(* share.  The web function and the worker process may die at any point,   *)
(* and the answer of the worker may be lost.                               *)
(*                                                                         *)
(* Every step that touches a table is a statement of ConsumerDatabase.     *)
(* A request is one run of the route; a session of the database is the     *)
(* connection of one request, so a client that retries is a second request *)
(* that may carry the same idempotency key or the same work order.         *)
(***************************************************************************)
EXTENDS ConsumerDatabase, ConsumerCircuit

CONSTANTS
  MaxWorkerCrashes,   \* bound on restarts of the worker
  MaxLostHalts,       \* bound on ticks that throw between a sweep and its halt
  MaxResumes          \* bound on operator resumes

ASSUME FaultsAssumption ==
  MaxWorkerCrashes \in Nat /\ MaxLostHalts \in Nat /\ MaxResumes \in Nat

VARIABLES
  request,    \* the web route: where each request is
  handler,    \* the worker's order handler for each request
  live,       \* requests whose transaction may be executing on the venue
  receipts,   \* work orders with a cached receipt in the worker's state
  ticker,     \* the worker's tick: idle, or about to halt after a sweep
  evidence,   \* the reconciliation endpoint: the order it is about to halt for
  crashes, lostHalts, resumes

callerVars == <<request, handler, live, receipts, ticker, evidence, crashes, lostHalts, resumes>>
databaseVars == <<balance, book, posted, reservation, stmt, order, fills, job, deposit, withdrawal>>
flowVars == <<databaseVars, circuit, callerVars>>

Requests == Sessions

Request ==
  [pc: {"idle", "checked", "reserving", "reserved", "calling", "failed",
        "accepted", "marked", "done", "crashed"},
   key: 0..NOrders, work: WorkOrders \cup {NoWork}]
HandlerStates == {"none", "received", "prepared", "executed", "ok", "error", "gone"}

\* Every variable of the flow has its type.
FlowTypeOK ==
  /\ circuit \in CircuitState
  /\ request \in [Requests -> Request]
  /\ handler \in [Requests -> HandlerStates]
  /\ live \subseteq Requests
  /\ receipts \subseteq WorkOrders
  /\ ticker \in {"idle", "halting"}
  /\ evidence \in 0..NOrders
  /\ crashes \in 0..MaxWorkerCrashes /\ lostHalts \in 0..MaxLostHalts
  /\ resumes \in 0..MaxResumes

At(r, pc) == request[r].pc = pc
Goto(r, pc) == request' = [request EXCEPT ![r].pc = pc]
Answer(r, state) == handler' = [handler EXCEPT ![r] = state]

-----------------------------------------------------------------------------
(* The web route POST /v1/private-account/public-live/phoenix/submit.      *)

\* The circuit is read once, before anything else; the request body names
\* the idempotency key and the work order.  Requests are numbered by arrival.
CheckCircuit(r, k, w) ==
  /\ At(r, "idle")
  /\ \A q \in Requests : q < r => ~At(q, "idle")
  /\ request' = [request EXCEPT ![r] =
       [pc |-> IF circuit.status = "open" THEN "checked" ELSE "done", key |-> k, work |-> w]]
  /\ UNCHANGED <<databaseVars, circuit, handler, live, receipts, ticker,
                 evidence, crashes, lostHalts, resumes>>

StartReserve(r, a, n, c) ==
  /\ At(r, "checked")
  /\ BeginReserve(r, request[r].key, a, n, c)
  /\ Goto(r, "reserving")
  /\ UNCHANGED <<circuit, handler, live, receipts, ticker, evidence, crashes, lostHalts, resumes>>

\* Mutant of FinishReserve: a duplicate counts as success.
FinishReserveAnyway(r) ==
  /\ \/ reserveConsumerBalance(r)
     \/ ReserveRefused(r) /\ reservation[request[r].key].status # "none"
  /\ Goto(r, IF At(r, "crashed") THEN "crashed" ELSE "reserved")
  /\ UNCHANGED <<circuit, handler, live, receipts, ticker, evidence, crashes, lostHalts, resumes>>

\* A statement that has started commits even if its client has died.
FinishReserve(r) ==
  /\ \/ /\ reserveConsumerBalance(r)
        /\ Goto(r, IF At(r, "crashed") THEN "crashed" ELSE "reserved")
     \/ /\ ReserveRefused(r)
        /\ Goto(r, IF At(r, "crashed") THEN "crashed" ELSE "done")
  /\ UNCHANGED <<circuit, handler, live, receipts, ticker, evidence, crashes, lostHalts, resumes>>

\* Access or allocation is missing, or the submit helper finds a bad input
\* before it calls the worker.
RejectBeforeCall(r) ==
  /\ At(r, "reserved")
  /\ releaseConsumerReservation(request[r].key)
  /\ Goto(r, "done")
  /\ UNCHANGED <<circuit, handler, live, receipts, ticker, evidence, crashes, lostHalts, resumes>>

CallWorker(r) ==
  /\ At(r, "reserved")
  /\ Goto(r, "calling")
  /\ Answer(r, "received")
  /\ UNCHANGED <<databaseVars, circuit, live, receipts, ticker,
                 evidence, crashes, lostHalts, resumes>>

\* Mutant of ReceiveReceipt: the status code is not looked at.
ReceiveAnyAnswer(r) ==
  /\ At(r, "calling") /\ handler[r] \in {"ok", "error"}
  /\ Goto(r, "accepted")
  /\ Answer(r, "gone")
  /\ UNCHANGED <<databaseVars, circuit, live, receipts, ticker,
                 evidence, crashes, lostHalts, resumes>>

ReceiveReceipt(r) ==
  /\ At(r, "calling") /\ handler[r] = "ok"
  /\ Goto(r, "accepted")
  /\ Answer(r, "gone")
  /\ UNCHANGED <<databaseVars, circuit, live, receipts, ticker,
                 evidence, crashes, lostHalts, resumes>>

\* An error status, or no answer: fetch fails whatever the worker is doing.
ReceiveError(r) ==
  /\ At(r, "calling")
  /\ Goto(r, "failed")
  /\ UNCHANGED <<databaseVars, circuit, handler, live, receipts, ticker,
                 evidence, crashes, lostHalts, resumes>>

\* Mutant of ReleaseAfterError: the route only reports the error.
ReportError(r) ==
  /\ At(r, "failed")
  /\ Goto(r, "done")
  /\ UNCHANGED <<databaseVars, circuit, handler, live, receipts, ticker,
                 evidence, crashes, lostHalts, resumes>>

ReleaseAfterError(r) ==
  /\ At(r, "failed")
  /\ releaseConsumerReservation(request[r].key)
  /\ Goto(r, "done")
  /\ UNCHANGED <<circuit, handler, live, receipts, ticker, evidence, crashes, lostHalts, resumes>>

\* The route halts the circuit when this or the next statement finds no
\* row; SubmissionNeverConflicts shows that neither happens.
MarkSubmitted(r) ==
  /\ At(r, "accepted")
  /\ markConsumerReservationSubmitted(request[r].key)
  /\ Goto(r, "marked")
  /\ UNCHANGED <<circuit, handler, live, receipts, ticker, evidence, crashes, lostHalts, resumes>>

RecordOrder(r) ==
  /\ At(r, "marked")
  /\ recordConsumerVenueOrder(request[r].key, request[r].work)
  /\ Goto(r, "done")
  /\ UNCHANGED <<circuit, handler, live, receipts, ticker, evidence, crashes, lostHalts, resumes>>

WebCrash(r) ==
  /\ request[r].pc \notin {"idle", "done", "crashed"}
  /\ Goto(r, "crashed")
  /\ UNCHANGED <<databaseVars, circuit, handler, live, receipts, ticker,
                 evidence, crashes, lostHalts, resumes>>

-----------------------------------------------------------------------------
(* The worker's handler for POST /venues/solana-perps/orders.              *)

\* Mutant of PrepareJob: the job row is not written before execution.
PrepareNothing(r) ==
  /\ handler[r] = "received"
  /\ Answer(r, "prepared")
  /\ UNCHANGED <<databaseVars, circuit, request, live, receipts, ticker,
                 evidence, crashes, lostHalts, resumes>>

PrepareJob(r) ==
  /\ handler[r] = "received"
  /\ prepareReconciliation(request[r].key, request[r].work)
  /\ Answer(r, "prepared")
  /\ UNCHANGED <<circuit, request, live, receipts, ticker, evidence, crashes, lostHalts, resumes>>

\* Another order has a job for this work order: the INSERT violates UNIQUE.
JobConflicts(r) ==
  /\ handler[r] = "received"
  /\ job[request[r].key].status = "none"
  /\ \E k \in Orders : job[k].work = request[r].work
  /\ Answer(r, "error")
  /\ UNCHANGED <<databaseVars, circuit, request, live, receipts, ticker,
                 evidence, crashes, lostHalts, resumes>>

\* A cached receipt, or a transaction that the venue confirms.
ExecuteAccepted(r) ==
  /\ handler[r] = "prepared"
  /\ live' = IF request[r].work \in receipts THEN live ELSE live \cup {r}
  /\ receipts' = receipts \cup {request[r].work}
  /\ Answer(r, "executed")
  /\ UNCHANGED <<databaseVars, circuit, request, ticker, evidence, crashes, lostHalts, resumes>>

\* Policy, credential or venue refuses before anything is sent.
ExecuteRejected(r) ==
  /\ handler[r] = "prepared"
  /\ Answer(r, "error")
  /\ UNCHANGED <<databaseVars, circuit, request, live, receipts, ticker,
                 evidence, crashes, lostHalts, resumes>>

\* sendRawTransaction succeeds and confirmTransaction, or the write of the
\* attempt, throws: the handler answers 500 for a transaction that exists.
ExecuteAmbiguous(r) ==
  /\ handler[r] = "prepared"
  /\ live' = live \cup {r}
  /\ Answer(r, "error")
  /\ UNCHANGED <<databaseVars, circuit, request, receipts, ticker,
                 evidence, crashes, lostHalts, resumes>>

\* The handler repeats prepareReconciliation first, which finds its own row.
EnqueueJob(r) ==
  /\ handler[r] = "executed"
  /\ enqueueReconciliation(request[r].work)
  /\ Answer(r, "ok")
  /\ UNCHANGED <<circuit, request, live, receipts, ticker, evidence, crashes, lostHalts, resumes>>

\* The job was closed while the order executed, the attempt has no
\* signature, or the statement throws: halt, and still answer 202.  If the
\* halt throws too the answer is 500: see WorkerDatabaseDown.
EnqueueFails(r) ==
  /\ handler[r] = "executed"
  /\ halt({"reconciliation_stale"})
  /\ Answer(r, "ok")
  /\ UNCHANGED <<databaseVars, request, live, receipts, ticker,
                 evidence, crashes, lostHalts, resumes>>

\* The worker cannot reach the database: 503 before execution, 500 after it.
WorkerDatabaseDown(r) ==
  /\ handler[r] \in {"received", "executed"}
  /\ Answer(r, "error")
  /\ UNCHANGED <<databaseVars, circuit, request, live, receipts, ticker,
                 evidence, crashes, lostHalts, resumes>>

\* Everything in the memory of the worker process is gone.
WorkerCrash ==
  /\ crashes < MaxWorkerCrashes
  /\ crashes' = crashes + 1
  /\ handler' = [r \in Requests |-> IF handler[r] = "none" THEN "none" ELSE "gone"]
  /\ ticker' = "idle" /\ evidence' = 0
  /\ UNCHANGED <<databaseVars, circuit, request, live, receipts, lostHalts, resumes>>

-----------------------------------------------------------------------------
(* The worker's tick, its reconciliation endpoint, and the operator.       *)

\* Mutant of Sweep: the halt after the update is forgotten.
SweepQuietly(late) ==
  /\ ticker = "idle"
  /\ processReconciliationDeadlines(late)
  /\ UNCHANGED <<circuit, callerVars>>

Sweep(late) ==
  /\ ticker = "idle"
  /\ processReconciliationDeadlines(late)
  /\ ticker' = "halting"
  /\ UNCHANGED <<circuit, request, handler, live, receipts, evidence, crashes, lostHalts, resumes>>

SweepHalts ==
  /\ ticker = "halting"
  /\ halt({"reconciliation_stale"})
  /\ ticker' = "idle"
  /\ UNCHANGED <<databaseVars, request, handler, live, receipts,
                 evidence, crashes, lostHalts, resumes>>

\* The halt throws after the update has closed the jobs: tick catches, logs
\* and goes on, and no later sweep returns those jobs again.
SweepHaltFails ==
  /\ ticker = "halting" /\ lostHalts < MaxLostHalts
  /\ lostHalts' = lostHalts + 1
  /\ ticker' = "idle"
  /\ UNCHANGED <<databaseVars, circuit, request, handler, live, receipts, evidence, crashes,
                 resumes>>

\* The venue reports a fill only of an order that is live, and of at most
\* the notional of that order (external).
Reported(k, filled) ==
  filled > 0 =>
    /\ \E r \in live : request[r].key = k
    /\ filled <= reservation[k].notional

IngestSettles(k, ref, filled, cost) ==
  /\ Reported(k, filled)
  /\ reconcile(k, ref, filled, cost)
  /\ UNCHANGED <<circuit, callerVars>>

IngestRefused(k, ref, filled, cost) ==
  /\ evidence = 0 /\ Reported(k, filled)
  /\ ReconcileRefused(k, ref, filled, cost)
  /\ evidence' = k
  /\ UNCHANGED <<circuit, request, handler, live, receipts, ticker, crashes, lostHalts, resumes>>

\* Mutant of RefusalReason: a reason the circuit does not know.
RefusalCode(k) == IF order[k].status = "none" THEN "venue_order_missing" ELSE "duplicate_settlement"

\* After a refused settlement: read the order again to find the reason.
RefusalReason(k) ==
  IF order[k].status = "none" THEN "reconciliation_drift"
  ELSE IF order[k].status = "reconciled" THEN "duplicate_settlement"
  ELSE "negative_balance"

IngestHalts ==
  /\ evidence # 0
  /\ halt({RefusalReason(evidence)})
  /\ evidence' = 0
  /\ UNCHANGED <<databaseVars, request, handler, live, receipts, ticker,
                 crashes, lostHalts, resumes>>

\* The halt throws, and the endpoint answers 409 all the same.
IngestHaltFails ==
  /\ evidence # 0
  /\ evidence' = 0
  /\ UNCHANGED <<databaseVars, circuit, request, handler, live, receipts, ticker, crashes,
                 lostHalts, resumes>>

OperatorHalts ==
  /\ circuit.status = "open"
  /\ halt({"operator_halt"})
  /\ UNCHANGED <<databaseVars, callerVars>>

OperatorResumes ==
  /\ circuit.status = "halted" /\ resumes < MaxResumes
  /\ resume
  /\ resumes' = resumes + 1
  /\ UNCHANGED <<databaseVars, request, handler, live, receipts, ticker,
                 evidence, crashes, lostHalts>>

\* Consumers fund their accounts through the deposit statements.
Fund == DepositStep /\ UNCHANGED <<circuit, callerVars>>

-----------------------------------------------------------------------------
FlowInit ==
  /\ Init
  /\ circuit = OpenCircuit
  /\ request = [r \in Requests |-> [pc |-> "idle", key |-> 0, work |-> NoWork]]
  /\ handler = [r \in Requests |-> "none"]
  /\ live = {} /\ receipts = {}
  /\ ticker = "idle" /\ evidence = 0
  /\ crashes = 0 /\ lostHalts = 0 /\ resumes = 0

WebSteps(r) ==
  \/ \E k \in Orders, w \in WorkOrders : CheckCircuit(r, k, w)
  \/ \E a \in Accounts, n \in Notionals, c \in VenueCosts : StartReserve(r, a, n, c)
  \/ FinishReserve(r)
  \/ RejectBeforeCall(r)
  \/ CallWorker(r)
  \/ ReceiveReceipt(r)
  \/ ReceiveError(r)
  \/ ReleaseAfterError(r)
  \/ MarkSubmitted(r)
  \/ RecordOrder(r)

HandlerSteps(r) ==
  \/ PrepareJob(r)
  \/ JobConflicts(r)
  \/ ExecuteAccepted(r)
  \/ ExecuteRejected(r)
  \/ ExecuteAmbiguous(r)
  \/ EnqueueJob(r)
  \/ EnqueueFails(r)
  \/ WorkerDatabaseDown(r)

EvidenceSteps ==
  \/ \E k \in Orders, ref \in FillRefs, filled \in Notionals \cup {0}, c \in VenueCosts :
       \/ IngestSettles(k, ref, filled, c)
       \/ IngestRefused(k, ref, filled, c)
  \/ IngestHalts
  \/ IngestHaltFails

FlowNext ==
  \/ Fund
  \/ \E r \in Requests : WebSteps(r) \/ WebCrash(r) \/ HandlerSteps(r)
  \/ WorkerCrash
  \/ \E late \in SUBSET Orders : Sweep(late)
  \/ SweepHalts
  \/ SweepHaltFails
  \/ EvidenceSteps
  \/ OperatorHalts
  \/ OperatorResumes

FlowSpec == FlowInit /\ [][FlowNext]_flowVars

\* A web function that runs and a handler that runs reach their next step,
\* and the worker's interval timer keeps ticking until every deadline has
\* passed.  A halt that a tick or the endpoint runs returns or throws.
\* Clients, evidence, operators and faults owe nothing.
WebProgress(r) ==
  \/ \E a \in Accounts, n \in Notionals, c \in VenueCosts : StartReserve(r, a, n, c)
  \/ FinishReserve(r) \/ RejectBeforeCall(r) \/ CallWorker(r)
  \/ ReceiveReceipt(r) \/ ReceiveError(r) \/ ReleaseAfterError(r)
  \/ MarkSubmitted(r) \/ RecordOrder(r)

SweepsJob(k) == \E late \in SUBSET Orders : k \in late /\ Sweep(late)

Fairness ==
  /\ \A r \in Requests : WF_flowVars(WebProgress(r)) /\ WF_flowVars(HandlerSteps(r))
  /\ \A k \in Orders : WF_flowVars(SweepsJob(k))
  /\ WF_flowVars(SweepHalts \/ SweepHaltFails) /\ WF_flowVars(IngestHalts \/ IngestHaltFails)

FairFlowSpec == FlowSpec /\ Fairness

-----------------------------------------------------------------------------
(***************************************************************************)
(* Properties.                                                             *)
(***************************************************************************)

\* However often a client retries, and wherever the web function or the
\* worker died before, at most one transaction goes to the venue for an
\* idempotency key, and at most one for a work order: the UNIQUE key of the
\* reservation and the job row written before execution see to it.
OneLiveOrder ==
  \A q, r \in live :
    q # r => request[q].key # request[r].key /\ request[q].work # request[r].work

\* A transaction that may exist on the venue has a reconciliation job, so
\* that its outcome is asked for even if nobody remembers the request.
LiveOrderHasJob ==
  \A r \in live :
    /\ job[request[r].key].status # "none"
    /\ job[request[r].key].work = request[r].work

\* Money is marked submitted, recorded as an order and settled only for a
\* transaction that was really sent, under the work order it was sent for.
SubmittedMoneyIsLive ==
  \A k \in Orders :
    /\ reservation[k].status \in {"submitted", "settled"} =>
         \E r \in live : request[r].key = k
    /\ order[k].status # "none" =>
         \E r \in live : request[r].key = k /\ request[r].work = order[k].work

\* Until a request releases or marks its reservation the row stays reserved,
\* whatever retries, sweeps and settlements do meanwhile, and when the
\* reservation is marked no other order row carries the work order: the
\* branches in which the route finds no row and halts trading are dead.
SubmissionNeverConflicts ==
  \A r \in Requests :
    /\ request[r].pc \in {"reserved", "calling", "failed", "accepted"} =>
         reservation[request[r].key].status = "reserved"
    /\ At(r, "marked") => /\ reservation[request[r].key].status = "submitted"
                          /\ order[request[r].key].status = "none"
                          /\ \A j \in Orders : order[j].work # request[r].work

\* Two requests never work on the reservation of one key: what a request
\* releases or marks after its awaits is the reservation it made itself.
RequestOwnsReservation ==
  \A q, r \in Requests :
    /\ q # r /\ request[q].key = request[r].key
    => ~(/\ request[q].pc \in {"reserved", "calling", "failed", "accepted", "marked"}
         /\ request[r].pc \in {"reserved", "calling", "failed", "accepted", "marked"})

\* A job that missed its deadline means that trading is halted, or that the
\* tick that closed the job is about to halt it.  Three events undo it, and
\* in their absence it holds: the worker restarts, or the halt throws, after
\* the update has closed the jobs (the next sweep does not see them), or an
\* operator resumes trading.
MissedDeadlineHalts ==
  crashes = 0 /\ lostHalts = 0 /\ resumes = 0 =>
    \A k \in Orders :
      job[k].status = "failed_review" => ticker = "halting" \/ circuit.status = "halted"

\* No job stays open: if no evidence settles it, the sweep closes it, also
\* when the handler that opened it died before, during or after execution.
JobsAreDriven ==
  \A k \in Orders : job[k].status \in OpenJob ~> job[k].status \notin OpenJob

\* Reserved money does not stay parked: the request that holds it releases
\* it or marks it submitted.  The one exception is a web function that died
\* in between: nothing in the code enforces expires_at.
ReservedMoneyMoves ==
  \A k \in Orders :
    reservation[k].status = "reserved" ~>
      \/ reservation[k].status # "reserved"
      \/ \E r \in Requests : request[r].key = k /\ At(r, "crashed")

\* A comment in the worker's order handler promises that a reservation is
\* never released after an ambiguous result: the transaction may exist.
NeverReleasedWhileLive ==
  \A r \in live : reservation[request[r].key].status # "released"
=============================================================================
