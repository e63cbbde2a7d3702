------------------------- MODULE ConsumerOrderProofs -------------------------
(***************************************************************************)
(* Proofs about the pooled order flow: however web functions, workers and  *)
(* retries interleave and die, a key and a work order go to the venue once *)
(* and money follows the transaction it was reserved for.                  *)
(***************************************************************************)
EXTENDS ConsumerOrderFlow, ConsumerEscrowProofs, TLAPS

-----------------------------------------------------------------------------
(* The inductive invariant.                                                *)

\* A request that works on a reservation of its own, and one that has done
\* so and was seen by the worker: the handler never forgets a request.
AtWork == {"reserved", "calling", "failed", "accepted", "marked"}
Reserved(r) == request[r].pc \in AtWork \/ handler[r] # "none"

Prepared(r) == handler[r] \notin {"none", "received"}

\* What the places of a request, of its statement and of its handler say.
RequestOK(r) ==
  /\ request[r].pc # "idle" => request[r].key \in Orders /\ request[r].work \in WorkOrders
  /\ request[r].pc \in {"idle", "checked", "reserving", "reserved"} => handler[r] = "none"
  /\ stmt[r].key # 0 => stmt[r].key = request[r].key /\ request[r].pc \in {"reserving", "crashed"}
  /\ Reserved(r) => reservation[request[r].key].status # "none"
  /\ handler[r] \in {"prepared", "executed", "ok"} \/ r \in live =>
       job[request[r].key].status # "none" /\ job[request[r].key].work = request[r].work
  /\ request[r].pc \in {"accepted", "marked"} \/ handler[r] \in {"executed", "ok"} => r \in live
  /\ r \in live => Prepared(r)

\* A key is reserved by one request.
OwnKeys ==
  \A q, r \in Requests : q # r /\ Reserved(q) /\ Reserved(r) => request[q].key # request[r].key

\* What a request holds is as it left it.
Undisturbed(r) ==
  /\ request[r].pc \in {"reserved", "calling", "failed", "accepted"} =>
       reservation[request[r].key].status = "reserved"
  /\ request[r].pc = "marked" =>
       /\ reservation[request[r].key].status = "submitted" /\ order[request[r].key].status = "none"
       /\ \A j \in Orders : order[j].work # request[r].work

\* A job was written by the handler of a request, under its work order.
JobOK(k) ==
  /\ job[k].status = "none" => job[k].work = NoWork
  /\ job[k].status # "none" =>
       \E r \in Requests : request[r].key = k /\ request[r].work = job[k].work /\ Prepared(r)

JobsDiffer ==
  \A j, k \in Orders : j # k /\ job[k].status # "none" => job[j].work # job[k].work

\* A cached receipt is that of a transaction that was sent.
ReceiptsOK == \A w \in receipts : \E r \in live : request[r].work = w

OrdersBlank == \A k \in Orders : order[k].status = "none" => order[k].work = NoWork

FlowInv ==
  /\ TypeInv /\ RowsInv /\ FlowTypeOK
  /\ \A r \in Requests : RequestOK(r) /\ Undisturbed(r)
  /\ \A k \in Orders : JobOK(k)
  /\ OwnKeys /\ JobsDiffer /\ ReceiptsOK /\ OrdersBlank
  /\ SubmittedMoneyIsLive /\ MissedDeadlineHalts


-----------------------------------------------------------------------------
(* Every step of the flow runs one statement of the database, or none.     *)

\* A statement, or none, preserves what the database proofs say of the rows.
LEMMA StatementRows ==
  ASSUME TypeInv, RowsInv, [Next]_vars
  PROVE  TypeInv' /\ RowsInv'
<1>1. UNCHANGED vars => UNCHANGED <<posted, reservation, order, deposit, withdrawal>>
  BY DEF vars
<1> QED BY <1>1, StepTyped, DepositRows, ReservationRows, ReconciliationRows, WithdrawalRows,
           RowsQuiet DEF Next

\* A step of the web route.
LEMMA WebStatement ==
  ASSUME FlowInv, NEW r \in Requests, WebSteps(r) \/ WebCrash(r)
  PROVE  [Next]_vars
<1>1. r \in Sessions /\ RequestOK(r)
  BY DEF Requests, FlowInv
<1>2. request[r].pc # "idle" => request[r].key \in Orders /\ request[r].work \in WorkOrders
  BY <1>1 DEF RequestOK
<1>3. CASE \E k \in Orders, w \in WorkOrders : CheckCircuit(r, k, w)
  BY <1>3 DEF CheckCircuit, databaseVars, vars
<1>4. CASE \E a \in Accounts, n \in Notionals, c \in VenueCosts : StartReserve(r, a, n, c)
  BY <1>1, <1>2, <1>4 DEF StartReserve, At, Next, ReservationStep
<1>5. CASE FinishReserve(r)
  BY <1>1, <1>5 DEF FinishReserve, Next, ReservationStep
<1>6. CASE RejectBeforeCall(r) \/ ReleaseAfterError(r) \/ MarkSubmitted(r) \/ RecordOrder(r)
  BY <1>2, <1>6 DEF RejectBeforeCall, ReleaseAfterError, MarkSubmitted, RecordOrder, At, Next, ReservationStep
<1>7. CASE CallWorker(r) \/ ReceiveReceipt(r) \/ ReceiveError(r) \/ WebCrash(r)
  BY <1>7 DEF CallWorker, ReceiveReceipt, ReceiveError, WebCrash, databaseVars, vars
<1> QED BY <1>3, <1>4, <1>5, <1>6, <1>7 DEF WebSteps

\* A step of the worker's order handler.
LEMMA HandlerStatement ==
  ASSUME FlowInv, NEW r \in Requests, HandlerSteps(r)
  PROVE  [Next]_vars
<1>1. RequestOK(r)
  BY DEF FlowInv
<1>2. handler[r] # "none" => request[r].key \in Orders /\ request[r].work \in WorkOrders
  BY <1>1 DEF RequestOK
<1>3. CASE PrepareJob(r)
  BY <1>2, <1>3 DEF PrepareJob, Next, ReconciliationStep
<1>4. CASE EnqueueJob(r)
  BY <1>2, <1>4 DEF EnqueueJob, Next, ReconciliationStep
<1>5. CASE ~PrepareJob(r) /\ ~EnqueueJob(r)
  BY <1>5 DEF HandlerSteps, JobConflicts, ExecuteAccepted, ExecuteRejected, ExecuteAmbiguous,
     EnqueueFails, WorkerDatabaseDown, databaseVars, vars
<1> QED BY <1>3, <1>4, <1>5

\* Any step of the flow is a step of the database.
LEMMA OrderFlowStatement ==
  ASSUME FlowInv, [FlowNext]_flowVars
  PROVE  [Next]_vars /\ TypeInv' /\ RowsInv'
<1>1. [Next]_vars
  <2>1. CASE Fund
    BY <2>1 DEF Fund, Next
  <2>2. CASE \E r \in Requests : WebSteps(r) \/ WebCrash(r) \/ HandlerSteps(r)
    BY <2>2, WebStatement, HandlerStatement
  <2>3. CASE \/ WorkerCrash \/ SweepHalts \/ SweepHaltFails \/ IngestHalts \/ IngestHaltFails
             \/ OperatorHalts \/ OperatorResumes
    BY <2>3 DEF WorkerCrash, SweepHalts, SweepHaltFails, IngestHalts, IngestHaltFails, OperatorHalts,
       OperatorResumes, databaseVars, vars
  <2>4. CASE \E late \in SUBSET Orders : Sweep(late)
    BY <2>4 DEF Sweep, Next, ReconciliationStep
  <2>5. CASE \E k \in Orders, ref \in FillRefs, filled \in Notionals \cup {0}, c \in VenueCosts :
               IngestSettles(k, ref, filled, c) \/ IngestRefused(k, ref, filled, c)
    BY <2>5 DEF IngestSettles, IngestRefused, Next, ReconciliationStep
  <2>6. CASE UNCHANGED flowVars
    BY <2>6 DEF flowVars, databaseVars, vars
  <2> QED BY <2>1, <2>2, <2>3, <2>4, <2>5, <2>6 DEF FlowNext, EvidenceSteps
<1> QED BY <1>1, StatementRows DEF FlowInv


-----------------------------------------------------------------------------
(* What each part of the invariant needs when one request moves.           *)

\* The other requests stay where they are.
OthersStay(r) ==
  \A q \in Requests : q # r =>
    /\ request'[q] = request[q] /\ handler'[q] = handler[q] /\ stmt'[q] = stmt[q]
    /\ q \in live' <=> q \in live

\* A request keeps its key and its work order, and forgets nothing.
Onward(r) ==
  /\ request[r].pc # "idle" =>
       request'[r].pc # "idle" /\ request'[r].key = request[r].key /\ request'[r].work = request[r].work
  /\ Prepared(r) => Prepared(r)'
  /\ r \in live => r \in live'

\* Rows of reservations are not deleted, nor are jobs or their work orders.
ReservationsKept ==
  \A k \in Orders : reservation[k].status # "none" => reservation'[k].status # "none"
JobsKept ==
  \A k \in Orders : job[k].status # "none" => job'[k].status # "none" /\ job'[k].work = job[k].work

\* What the invariant says of one request.
LEMMA AboutRequest ==
  ASSUME FlowInv, NEW r \in Requests
  PROVE  /\ RequestOK(r) /\ Undisturbed(r)
         /\ request[r].pc # "idle" => request[r].key \in Orders /\ request[r].work \in WorkOrders
         /\ handler[r] # "none" => request[r].pc # "idle"
         /\ Reserved(r) => request[r].pc # "idle"
         /\ Prepared(r) => handler[r] # "none"
         /\ r \in live => handler[r] # "none"
BY DEF FlowInv, RequestOK, Reserved, AtWork, Prepared

\* A request that does not move is as it was.
LEMMA OthersOK ==
  ASSUME FlowInv, NEW r \in Requests, OthersStay(r), ReservationsKept, JobsKept,
         NEW q \in Requests, q # r
  PROVE  RequestOK(q)'
<1>1. RequestOK(q) /\ (request[q].pc # "idle" => request[q].key \in Orders)
      /\ (handler[q] # "none" => request[q].pc # "idle") /\ (Reserved(q) => request[q].pc # "idle")
      /\ (q \in live => handler[q] # "none")
  BY AboutRequest
<1>2. /\ request'[q] = request[q] /\ handler'[q] = handler[q] /\ stmt'[q] = stmt[q]
      /\ q \in live' <=> q \in live
  BY DEF OthersStay
<1>3. Reserved(q)' <=> Reserved(q)
  BY <1>2 DEF Reserved
<1>4. Prepared(q)' <=> Prepared(q)
  BY <1>2 DEF Prepared
<1>5. Reserved(q) => reservation'[request[q].key].status # "none"
  BY <1>1 DEF RequestOK, ReservationsKept
<1>6. handler[q] \in {"prepared", "executed", "ok"} \/ q \in live =>
        job'[request[q].key].status # "none" /\ job'[request[q].key].work = request[q].work
  BY <1>1 DEF RequestOK, JobsKept
<1> QED BY <1>1, <1>2, <1>3, <1>4, <1>5, <1>6 DEF RequestOK

\* The jobs are explained by the requests when no job changes.
LEMMA JobsStay ==
  ASSUME FlowInv, NEW r \in Requests, OthersStay(r), Onward(r), UNCHANGED job
  PROVE  JobsDiffer' /\ \A k \in Orders : JobOK(k)'
<1>1. JobsDiffer'
  BY DEF FlowInv, JobsDiffer
<1>2. ASSUME NEW k \in Orders PROVE JobOK(k)'
  <2>1. JobOK(k)
    BY DEF FlowInv
  <2>2. ASSUME NEW q \in Requests, request[q].key = k, request[q].work = job[k].work, Prepared(q)
        PROVE  request'[q].key = k /\ request'[q].work = job'[k].work /\ Prepared(q)'
    <3>1. request[q].pc # "idle"
      BY <2>2, AboutRequest
    <3>2. CASE q = r
      BY <2>2, <3>1, <3>2 DEF Onward
    <3>3. CASE q # r
      BY <2>2, <3>3 DEF OthersStay, Prepared
    <3> QED BY <3>2, <3>3
  <2> QED BY <2>1, <2>2 DEF JobOK
<1> QED BY <1>1, <1>2

\* A key stays with one request: a request that newly holds one found it free.
LEMMA KeysStay ==
  ASSUME FlowInv, NEW r \in Requests, OthersStay(r), Onward(r),
         Reserved(r)' =>
           request[r].pc # "idle" /\ (Reserved(r) \/ reservation[request[r].key].status = "none")
  PROVE  OwnKeys'
<1>1. ASSUME NEW q \in Requests, q # r, Reserved(q)', Reserved(r)'
      PROVE  request'[q].key # request'[r].key
  <2>1. Reserved(q) /\ request'[q] = request[q]
    BY <1>1 DEF OthersStay, Reserved
  <2>2. request'[r].key = request[r].key
    BY <1>1 DEF Onward
  <2>3. reservation[request[q].key].status # "none"
    BY <2>1, AboutRequest DEF RequestOK
  <2> QED BY <1>1, <2>1, <2>2, <2>3 DEF FlowInv, OwnKeys
<1>2. ASSUME NEW p \in Requests, NEW q \in Requests, p # r, q # r, p # q, Reserved(p)', Reserved(q)'
      PROVE  request'[p].key # request'[q].key
  BY <1>2 DEF FlowInv, OwnKeys, OthersStay, Reserved
<1> QED BY <1>1, <1>2 DEF OwnKeys

\* Money that was marked or recorded stays with the transaction it is for.
LEMMA MoneyStays ==
  ASSUME FlowInv, NEW r \in Requests, OthersStay(r), Onward(r),
         \A k \in Orders : reservation'[k].status \in {"submitted", "settled"} =>
           reservation[k].status \in {"submitted", "settled"},
         \A k \in Orders : order'[k].status # "none" => order'[k] = order[k]
  PROVE  SubmittedMoneyIsLive'
<1>1. ASSUME NEW q \in live
      PROVE  q \in live' /\ request'[q].key = request[q].key /\ request'[q].work = request[q].work
  <2>1. q \in Requests /\ request[q].pc # "idle"
    BY AboutRequest DEF FlowInv, FlowTypeOK
  <2> QED BY <2>1 DEF OthersStay, Onward
<1> QED BY <1>1 DEF FlowInv, SubmittedMoneyIsLive

\* Cached receipts stay those of transactions that were sent.
LEMMA ReceiptsStay ==
  ASSUME FlowInv, NEW r \in Requests, OthersStay(r), Onward(r),
         \/ receipts' = receipts
         \/ r \in live' /\ receipts' = receipts \cup {request'[r].work}
  PROVE  ReceiptsOK'
<1>1. ASSUME NEW q \in live
      PROVE  q \in live' /\ request'[q].work = request[q].work
  <2>1. q \in Requests /\ request[q].pc # "idle"
    BY AboutRequest DEF FlowInv, FlowTypeOK
  <2> QED BY <2>1 DEF OthersStay, Onward
<1> QED BY <1>1 DEF FlowInv, ReceiptsOK

\* A deadline that was missed is still answered for.
LEMMA DeadlinesKept ==
  ASSUME FlowInv, UNCHANGED <<crashes, lostHalts, resumes, ticker>>,
         circuit.status = "halted" => circuit'.status = "halted",
         \A k \in Orders : job'[k].status = "failed_review" => job[k].status = "failed_review"
  PROVE  MissedDeadlineHalts'
BY DEF FlowInv, MissedDeadlineHalts

\* A request moves, and no row of the three order tables changes.
LEMMA RequestMoves ==
  ASSUME FlowInv, TypeInv', RowsInv', FlowTypeOK', NEW r \in Requests, OthersStay(r), Onward(r),
         UNCHANGED <<reservation, order, job>>, RequestOK(r)',
         \/ receipts' = receipts
         \/ r \in live' /\ receipts' = receipts \cup {request'[r].work},
         Reserved(r)' => Reserved(r), Undisturbed(r)', MissedDeadlineHalts'
  PROVE  FlowInv'
<1>1. ReservationsKept /\ JobsKept
  BY DEF ReservationsKept, JobsKept
<1>2. \A q \in Requests : RequestOK(q)'
  BY <1>1, OthersOK
<1>3. \A q \in Requests : Undisturbed(q)'
  BY DEF FlowInv, OthersStay, Undisturbed
<1>4. JobsDiffer' /\ \A k \in Orders : JobOK(k)'
  BY JobsStay
<1>5. OwnKeys'
  <2>1. Reserved(r) => request[r].pc # "idle"
    BY AboutRequest
  <2> QED BY <2>1, KeysStay
<1>6. SubmittedMoneyIsLive' /\ ReceiptsOK' /\ OrdersBlank'
  BY MoneyStays, ReceiptsStay DEF FlowInv, OrdersBlank
<1> QED BY <1>2, <1>3, <1>4, <1>5, <1>6 DEF FlowInv


-----------------------------------------------------------------------------
(* The web route, as far as it only moves.                                 *)

\* A request is typed after its place is changed.
LEMMA PlaceTyped ==
  ASSUME FlowTypeOK, NEW r \in Requests,
         NEW pc \in {"idle", "checked", "reserving", "reserved", "calling", "failed",
                     "accepted", "marked", "done", "crashed"}, Goto(r, pc)
  PROVE  /\ request' \in [Requests -> Request]
         /\ request'[r].pc = pc /\ request'[r].key = request[r].key /\ request'[r].work = request[r].work
         /\ \A q \in Requests : q # r => request'[q] = request[q]
<1>1. request \in [Requests -> Request] /\ request' = [request EXCEPT ![r].pc = pc]
  BY DEF FlowTypeOK, Goto
<1>2. [request[r] EXCEPT !.pc = pc] \in Request
  BY <1>1 DEF Request
<1> QED BY <1>1, <1>2 DEF Request

\* The handler is typed after its state is changed.
LEMMA AnswerTyped ==
  ASSUME FlowTypeOK, NEW r \in Requests, NEW state \in HandlerStates, Answer(r, state)
  PROVE  /\ handler' \in [Requests -> HandlerStates] /\ handler'[r] = state
         /\ \A q \in Requests : q # r => handler'[q] = handler[q]
BY DEF FlowTypeOK, Answer

\* The circuit is read, and the request takes its key and work order.
LEMMA CheckStep ==
  ASSUME FlowInv, TypeInv', RowsInv', NEW r \in Requests, NEW k \in Orders, NEW w \in WorkOrders,
         CheckCircuit(r, k, w)
  PROVE  FlowInv'
<1> DEFINE pc == IF circuit.status = "open" THEN "checked" ELSE "done"
<1>1. /\ UNCHANGED <<reservation, stmt, order, job, circuit, handler, live, receipts, ticker,
                     evidence, crashes, lostHalts, resumes>>
      /\ request[r].pc = "idle"
      /\ request' = [request EXCEPT ![r] = [pc |-> pc, key |-> k, work |-> w]]
  BY DEF CheckCircuit, At, databaseVars
<1>2. FlowTypeOK /\ RequestOK(r) /\ request \in [Requests -> Request]
  BY AboutRequest DEF FlowInv, FlowTypeOK
<1>3. [pc |-> pc, key |-> k, work |-> w] \in Request
  BY CountsAssumption DEF Request, Orders
<1>4. request' \in [Requests -> Request] /\ FlowTypeOK'
  BY <1>1, <1>2, <1>3 DEF FlowTypeOK
<1>5. /\ request'[r].pc \in {"checked", "done"} /\ request'[r].key = k /\ request'[r].work = w
      /\ handler[r] = "none" /\ stmt[r].key = 0 /\ r \notin live
  BY <1>1, <1>2, AboutRequest DEF RequestOK
<1>6. OthersStay(r) /\ Onward(r)
  BY <1>1, <1>2, <1>5 DEF OthersStay, Onward, Prepared
<1>7. RequestOK(r)' /\ Undisturbed(r)' /\ ~Reserved(r)'
  BY <1>1, <1>5 DEF RequestOK, Undisturbed, Reserved, AtWork
<1>8. MissedDeadlineHalts'
  BY <1>1, DeadlinesKept
<1> QED BY <1>1, <1>4, <1>6, <1>7, <1>8, RequestMoves

\* The request calls the worker, hears from it, gives up waiting, or dies.
LEMMA CallingStep ==
  ASSUME FlowInv, TypeInv', RowsInv', NEW r \in Requests,
         CallWorker(r) \/ ReceiveReceipt(r) \/ ReceiveError(r) \/ WebCrash(r)
  PROVE  FlowInv'
<1>1. UNCHANGED <<reservation, stmt, order, job, circuit, live, receipts, ticker,
                  evidence, crashes, lostHalts, resumes>>
  BY DEF CallWorker, ReceiveReceipt, ReceiveError, WebCrash, databaseVars
<1>2. /\ FlowTypeOK /\ RequestOK(r) /\ Undisturbed(r)
      /\ request[r].pc # "idle" => request[r].key \in Orders /\ request[r].work \in WorkOrders
  BY AboutRequest DEF FlowInv
<1>3. PICK pc \in {"calling", "accepted", "failed", "crashed"} :
        /\ Goto(r, pc) /\ request[r].pc \notin {"idle", "done", "crashed"}
        /\ \/ pc = "calling" /\ request[r].pc = "reserved" /\ Answer(r, "received")
           \/ pc = "accepted" /\ request[r].pc = "calling" /\ handler[r] = "ok" /\ Answer(r, "gone")
           \/ pc = "failed" /\ request[r].pc = "calling" /\ UNCHANGED handler
           \/ pc = "crashed" /\ UNCHANGED handler
  BY DEF CallWorker, ReceiveReceipt, ReceiveError, WebCrash, At
<1>4. /\ request' \in [Requests -> Request]
      /\ request'[r].pc = pc /\ request'[r].key = request[r].key /\ request'[r].work = request[r].work
      /\ \A q \in Requests : q # r => request'[q] = request[q]
  BY <1>2, <1>3, PlaceTyped
<1>5. /\ handler' \in [Requests -> HandlerStates]
      /\ \A q \in Requests : q # r => handler'[q] = handler[q]
      /\ \/ pc = "calling" /\ handler'[r] = "received" /\ handler[r] = "none" /\ request[r].pc = "reserved"
         \/ pc = "accepted" /\ handler'[r] = "gone" /\ handler[r] = "ok" /\ request[r].pc = "calling"
         \/ pc = "failed" /\ handler'[r] = handler[r] /\ request[r].pc = "calling"
         \/ pc = "crashed" /\ handler'[r] = handler[r]
  <2>1. "received" \in HandlerStates /\ "gone" \in HandlerStates
    BY DEF HandlerStates
  <2>2. CASE pc = "calling" /\ request[r].pc = "reserved" /\ Answer(r, "received")
    BY <1>2, <2>1, <2>2, AnswerTyped DEF RequestOK
  <2>3. CASE pc = "accepted" /\ request[r].pc = "calling" /\ handler[r] = "ok" /\ Answer(r, "gone")
    BY <1>2, <2>1, <2>3, AnswerTyped
  <2>4. CASE pc = "failed" /\ request[r].pc = "calling" /\ UNCHANGED handler
    BY <1>2, <2>4 DEF FlowTypeOK
  <2>5. CASE pc = "crashed" /\ UNCHANGED handler
    BY <1>2, <2>5 DEF FlowTypeOK
  <2> QED BY <1>3, <2>2, <2>3, <2>4, <2>5
<1>6. FlowTypeOK'
  BY <1>1, <1>2, <1>4, <1>5 DEF FlowTypeOK
<1>7. OthersStay(r) /\ Onward(r)
  BY <1>1, <1>4, <1>5 DEF OthersStay, Onward, Prepared
<1>8. Undisturbed(r)'
  BY <1>1, <1>2, <1>4, <1>5 DEF Undisturbed
<1>9. Reserved(r)' => Reserved(r)
  BY <1>4, <1>5 DEF Reserved, AtWork
<1>10. RequestOK(r)'
  <2>1. stmt'[r].key # 0 => stmt'[r].key = request'[r].key /\ request'[r].pc \in {"reserving", "crashed"}
    BY <1>1, <1>2, <1>4, <1>5 DEF RequestOK
  <2>2. Reserved(r)' => reservation'[request'[r].key].status # "none"
    BY <1>1, <1>2, <1>4, <1>9 DEF RequestOK
  <2>3. /\ handler'[r] \in {"prepared", "executed", "ok"} => handler'[r] = handler[r]
        /\ request'[r].pc \in {"accepted", "marked"} => handler[r] = "ok"
        /\ Prepared(r) => Prepared(r)'
    BY <1>4, <1>5 DEF Prepared
  <2> QED BY <1>1, <1>2, <1>3, <1>4, <2>1, <2>2, <2>3 DEF RequestOK
<1>11. MissedDeadlineHalts'
  BY <1>1, DeadlinesKept
<1> QED BY <1>1, <1>6, <1>7, <1>8, <1>9, <1>10, <1>11, RequestMoves

\* The reservation statement takes its snapshot, or finds nothing to do.
LEMMA StatementMoves ==
  ASSUME FlowInv, TypeInv', RowsInv', NEW r \in Requests,
         \/ \E a \in Accounts, n \in Notionals, c \in VenueCosts : StartReserve(r, a, n, c)
         \/ FinishReserve(r) /\ ReserveRefused(r) /\ UNCHANGED reservation
  PROVE  FlowInv'
<1>1. UNCHANGED <<reservation, order, job, circuit, handler, live, receipts, ticker,
                  evidence, crashes, lostHalts, resumes>>
  BY DEF StartReserve, BeginReserve, FinishReserve, ReserveRefused
<1>2. /\ FlowTypeOK /\ RequestOK(r) /\ stmt \in [Sessions -> Statement] /\ r \in Sessions
      /\ request[r].pc # "idle" => request[r].key \in Orders /\ request[r].work \in WorkOrders
  BY AboutRequest DEF FlowInv, TypeInv, TypeOK, Requests
<1>3. PICK pc \in {"reserving", "crashed", "done"} :
        /\ Goto(r, pc)
        /\ \/ pc = "reserving" /\ request[r].pc = "checked" /\ stmt'[r].key = request[r].key
           \/ stmt'[r].key = 0 /\ request[r].pc \in {"reserving", "crashed"} /\ pc \in {"done", "crashed"}
        /\ \A q \in Requests : q # r => stmt'[q] = stmt[q]
  <2>1. CASE \E a \in Accounts, n \in Notionals, c \in VenueCosts : StartReserve(r, a, n, c)
    <3>1. Goto(r, "reserving") /\ request[r].pc = "checked"
      BY <2>1 DEF StartReserve, At
    <3>2. stmt'[r].key = request[r].key /\ \A q \in Requests : q # r => stmt'[q] = stmt[q]
      BY <1>2, <2>1 DEF StartReserve, BeginReserve, Requests
    <3> QED BY <3>1, <3>2
  <2>2. CASE FinishReserve(r) /\ ReserveRefused(r) /\ UNCHANGED reservation
    <3>1. request[r].pc \in {"reserving", "crashed"}
      BY <1>2, <2>2 DEF ReserveRefused, RequestOK
    <3>2. stmt'[r].key = 0 /\ \A q \in Requests : q # r => stmt'[q] = stmt[q]
      BY <1>2, <2>2 DEF ReserveRefused, IdleStatement, Requests
    <3>3. Goto(r, "done") \/ Goto(r, "crashed")
      <4>1. ~reserveConsumerBalance(r)
        <5> SUFFICES ASSUME reserveConsumerBalance(r) PROVE FALSE
          OBVIOUS
        <5>1. /\ stmt[r].key \in Orders /\ reservation[stmt[r].key].status = "none"
              /\ reservation'[stmt[r].key].status = "reserved"
          BY <1>2 DEF reserveConsumerBalance, FlowInv, TypeInv, TypeOK, RowsBelong
        <5> QED BY <2>2, <5>1
      <4> QED BY <2>2, <4>1 DEF FinishReserve
    <3> QED BY <3>1, <3>2, <3>3
  <2> QED BY <2>1, <2>2
<1>4. /\ request' \in [Requests -> Request]
      /\ request'[r].pc = pc /\ request'[r].key = request[r].key /\ request'[r].work = request[r].work
      /\ \A q \in Requests : q # r => request'[q] = request[q]
  BY <1>2, <1>3, PlaceTyped
<1>5. FlowTypeOK'
  BY <1>1, <1>2, <1>4 DEF FlowTypeOK
<1>6. OthersStay(r) /\ Onward(r)
  BY <1>1, <1>3, <1>4 DEF OthersStay, Onward, Prepared
<1>7. Undisturbed(r)'
  BY <1>4 DEF Undisturbed
<1>8. Reserved(r)' => Reserved(r)
  BY <1>1, <1>4 DEF Reserved, AtWork
<1>9. RequestOK(r)'
  <2>1. handler[r] # "none" => pc # "reserving"
    BY <1>2, <1>3 DEF RequestOK
  <2>2. Reserved(r)' => reservation'[request'[r].key].status # "none"
    BY <1>1, <1>2, <1>4, <1>8 DEF RequestOK
  <2>3. Prepared(r)' <=> Prepared(r)
    BY <1>1 DEF Prepared
  <2> QED BY <1>1, <1>2, <1>3, <1>4, <2>1, <2>2, <2>3 DEF RequestOK
<1>10. MissedDeadlineHalts'
  BY <1>1, DeadlinesKept
<1> QED BY <1>1, <1>5, <1>6, <1>7, <1>8, <1>9, <1>10, RequestMoves


-----------------------------------------------------------------------------
(* The web route, where it changes the reservation or the order row.       *)

\* Two transactions that were sent have different keys and work orders.
LEMMA LiveDiffer ==
  ASSUME FlowInv, NEW q \in live, NEW r \in live, q # r
  PROVE  request[q].key # request[r].key /\ request[q].work # request[r].work
<1>1. q \in Requests /\ r \in Requests /\ Reserved(q) /\ Reserved(r)
  BY AboutRequest DEF FlowInv, FlowTypeOK, Reserved
<1>2. request[q].key # request[r].key
  BY <1>1 DEF FlowInv, OwnKeys
<1>3. /\ request[q].key \in Orders /\ request[r].key \in Orders
      /\ job[request[r].key].status # "none"
      /\ job[request[q].key].work = request[q].work /\ job[request[r].key].work = request[r].work
  BY <1>1, AboutRequest DEF RequestOK
<1> QED BY <1>2, <1>3 DEF FlowInv, JobsDiffer

\* A request changes the reservation that it holds, or makes it.
LEMMA HolderMoves ==
  ASSUME FlowInv, TypeInv', RowsInv', FlowTypeOK', NEW r \in Requests, request[r].pc # "idle",
         OthersStay(r), Onward(r), UNCHANGED <<order, job, receipts>>,
         \A j \in Orders : j # request[r].key => reservation'[j] = reservation[j],
         reservation'[request[r].key].status # "none",
         Reserved(r) \/ reservation[request[r].key].status = "none",
         reservation'[request[r].key].status \in {"submitted", "settled"} => r \in live',
         RequestOK(r)', Undisturbed(r)', MissedDeadlineHalts'
  PROVE  FlowInv'
<1>0. request[r].key \in Orders /\ request'[r].key = request[r].key
  BY AboutRequest DEF Onward
<1>1. ReservationsKept /\ JobsKept
  BY DEF ReservationsKept, JobsKept
<1>2. \A q \in Requests : RequestOK(q)'
  BY <1>1, OthersOK
<1>3. ASSUME NEW q \in Requests PROVE Undisturbed(q)'
  <2>1. CASE q = r
    BY <2>1
  <2>2. CASE q # r /\ request[q].pc \in AtWork
    <3>1. Reserved(q) /\ request[q].key \in Orders /\ reservation[request[q].key].status # "none"
      BY <2>2, AboutRequest DEF Reserved, RequestOK
    <3>2. request[q].key # request[r].key
      BY <2>2, <3>1 DEF FlowInv, OwnKeys
    <3>3. reservation'[request[q].key] = reservation[request[q].key] /\ request'[q] = request[q]
      BY <2>2, <3>1, <3>2 DEF OthersStay
    <3> QED BY <3>3, AboutRequest DEF Undisturbed
  <2>3. CASE q # r /\ request[q].pc \notin AtWork
    BY <2>3 DEF OthersStay, Undisturbed, AtWork
  <2> QED BY <2>1, <2>2, <2>3
<1>4. JobsDiffer' /\ \A k \in Orders : JobOK(k)'
  BY JobsStay
<1>5. OwnKeys'
  BY KeysStay
<1>6. SubmittedMoneyIsLive'
  <2>1. ASSUME NEW q \in live
        PROVE  q \in live' /\ request'[q].key = request[q].key /\ request'[q].work = request[q].work
    <3>1. q \in Requests /\ request[q].pc # "idle"
      BY AboutRequest DEF FlowInv, FlowTypeOK
    <3> QED BY <3>1 DEF OthersStay, Onward
  <2>2. ASSUME NEW k \in Orders, reservation'[k].status \in {"submitted", "settled"}
        PROVE  \E q \in live' : request'[q].key = k
    <3>1. CASE k = request[r].key
      BY <1>0, <2>2, <3>1
    <3>2. CASE k # request[r].key
      BY <2>1, <2>2, <3>2 DEF FlowInv, SubmittedMoneyIsLive
    <3> QED BY <3>1, <3>2
  <2> QED BY <2>1, <2>2 DEF FlowInv, SubmittedMoneyIsLive
<1>7. ReceiptsOK' /\ OrdersBlank'
  BY ReceiptsStay DEF FlowInv, OrdersBlank
<1> QED BY <1>2, <1>3, <1>4, <1>5, <1>6, <1>7 DEF FlowInv

\* The statement reserves the money, for a request that may have died.
LEMMA ReserveStep ==
  ASSUME FlowInv, TypeInv', RowsInv', NEW r \in Requests, FinishReserve(r), reserveConsumerBalance(r)
  PROVE  FlowInv'
<1>1. /\ UNCHANGED <<order, job, circuit, handler, live, receipts, ticker, evidence, crashes, lostHalts, resumes>>
      /\ stmt[r].key # 0 /\ stmt' = [stmt EXCEPT ![r] = IdleStatement]
      /\ reservation[stmt[r].key].status = "none"
      /\ reservation' = [reservation EXCEPT ![stmt[r].key] =
           [status |-> "reserved", account |-> stmt[r].account,
            notional |-> stmt[r].notional, amount |-> ReserveAmount(stmt[r])]]
  BY DEF FinishReserve, reserveConsumerBalance
<1>2. /\ FlowTypeOK /\ RequestOK(r) /\ Undisturbed(r)
      /\ stmt \in [Requests -> Statement] /\ reservation \in [Orders -> Reservation]
  BY AboutRequest DEF FlowInv, TypeInv, TypeOK, Requests
<1>3. /\ stmt[r].key = request[r].key /\ request[r].pc \in {"reserving", "crashed"}
      /\ request[r].key \in Orders /\ request[r].work \in WorkOrders
  BY <1>1, <1>2 DEF RequestOK
<1>4. /\ reservation'[request[r].key].status = "reserved"
      /\ \A j \in Orders : j # request[r].key => reservation'[j] = reservation[j]
      /\ stmt'[r].key = 0 /\ \A q \in Requests : q # r => stmt'[q] = stmt[q]
  BY <1>1, <1>2, <1>3 DEF IdleStatement
<1>5. PICK pc \in {"crashed", "reserved"} :
        Goto(r, pc) /\ pc = (IF request[r].pc = "crashed" THEN "crashed" ELSE "reserved")
  <2>1. ~ReserveRefused(r)
    <3> SUFFICES ASSUME ReserveRefused(r) PROVE FALSE
      OBVIOUS
    <3>1. reservation' = reservation
      BY DEF ReserveRefused
    <3> QED BY <1>1, <1>3, <1>4, <3>1
  <2> QED BY <2>1 DEF FinishReserve, At
<1>6. /\ request' \in [Requests -> Request]
      /\ request'[r].pc = pc /\ request'[r].key = request[r].key /\ request'[r].work = request[r].work
      /\ \A q \in Requests : q # r => request'[q] = request[q]
  BY <1>2, <1>5, PlaceTyped
<1>7. FlowTypeOK'
  BY <1>1, <1>2, <1>6 DEF FlowTypeOK
<1>8. OthersStay(r) /\ Onward(r)
  BY <1>1, <1>4, <1>5, <1>6 DEF OthersStay, Onward, Prepared
<1>9. RequestOK(r)' /\ Undisturbed(r)'
  <2>1. /\ pc = "reserved" => handler[r] = "none"
        /\ handler[r] \in {"prepared", "executed", "ok"} \/ r \in live =>
             job[request[r].key].status # "none" /\ job[request[r].key].work = request[r].work
        /\ handler[r] \in {"executed", "ok"} => r \in live
        /\ r \in live => Prepared(r)
    BY <1>2, <1>3, <1>5 DEF RequestOK
  <2>2. Prepared(r)' <=> Prepared(r)
    BY <1>1 DEF Prepared
  <2> QED BY <1>1, <1>3, <1>4, <1>6, <2>1, <2>2 DEF RequestOK, Undisturbed
<1>10. MissedDeadlineHalts'
  BY <1>1, DeadlinesKept
<1> QED BY <1>1, <1>3, <1>4, <1>7, <1>8, <1>9, <1>10, HolderMoves

\* The money goes back, before the call or after it failed.
LEMMA ReleaseStep ==
  ASSUME FlowInv, TypeInv', RowsInv', NEW r \in Requests, RejectBeforeCall(r) \/ ReleaseAfterError(r)
  PROVE  FlowInv'
<1>1. /\ UNCHANGED <<stmt, order, job, circuit, handler, live, receipts, ticker, evidence, crashes, lostHalts, resumes>>
      /\ request[r].pc \in {"reserved", "failed"} /\ Goto(r, "done")
      /\ reservation' = [reservation EXCEPT ![request[r].key].status = "released"]
  BY DEF RejectBeforeCall, ReleaseAfterError, releaseConsumerReservation, At
<1>2. /\ FlowTypeOK /\ RequestOK(r) /\ reservation \in [Orders -> Reservation]
      /\ request[r].key \in Orders /\ request[r].work \in WorkOrders
  BY <1>1, AboutRequest DEF FlowInv, TypeInv, TypeOK
<1>3. /\ reservation'[request[r].key].status = "released"
      /\ \A j \in Orders : j # request[r].key => reservation'[j] = reservation[j]
  BY <1>1, <1>2 DEF Reservation
<1>4. /\ request' \in [Requests -> Request]
      /\ request'[r].pc = "done" /\ request'[r].key = request[r].key /\ request'[r].work = request[r].work
      /\ \A q \in Requests : q # r => request'[q] = request[q]
  BY <1>1, <1>2, PlaceTyped
<1>5. FlowTypeOK'
  BY <1>1, <1>2, <1>4 DEF FlowTypeOK
<1>6. OthersStay(r) /\ Onward(r)
  BY <1>1, <1>4 DEF OthersStay, Onward, Prepared
<1>7. RequestOK(r)' /\ Undisturbed(r)'
  <2>1. /\ stmt[r].key = 0
        /\ handler[r] \in {"prepared", "executed", "ok"} \/ r \in live =>
             job[request[r].key].status # "none" /\ job[request[r].key].work = request[r].work
        /\ handler[r] \in {"executed", "ok"} => r \in live
        /\ r \in live => Prepared(r)
    BY <1>1, <1>2 DEF RequestOK
  <2>2. Prepared(r)' <=> Prepared(r)
    BY <1>1 DEF Prepared
  <2> QED BY <1>1, <1>2, <1>3, <1>4, <2>1, <2>2 DEF RequestOK, Undisturbed
<1>8. MissedDeadlineHalts'
  BY <1>1, DeadlinesKept
<1>9. Reserved(r)
  BY <1>1 DEF Reserved, AtWork
<1> QED BY <1>1, <1>3, <1>5, <1>6, <1>7, <1>8, <1>9, HolderMoves

\* No order row is written for a key, or under a work order, of which the
\* request has not written it itself.
LEMMA NoOrderYet ==
  ASSUME FlowInv, NEW r \in live, request[r].pc = "accepted"
  PROVE  /\ order[request[r].key].status = "none"
         /\ \A j \in Orders : order[j].work # request[r].work
<1>1. r \in Requests /\ request[r].key \in Orders /\ request[r].work \in WorkOrders
      /\ reservation[request[r].key].status = "reserved"
  BY AboutRequest DEF FlowInv, FlowTypeOK, Undisturbed
<1>2. order[request[r].key].status = "none"
  <2>1. order[request[r].key].status \in {"none", "submitted", "reconciled"}
    BY <1>1 DEF FlowInv, TypeInv, TypeOK, Order
  <2> QED BY <1>1, <2>1 DEF FlowInv, RowsInv, OrderFollowsReservation
<1>3. ASSUME NEW j \in Orders, order[j].work = request[r].work PROVE FALSE
  <2>1. order[j].status # "none"
    BY <1>1, <1>3, RowsAssumption DEF FlowInv, OrdersBlank
  <2>2. PICK q \in live : request[q].key = j /\ request[q].work = order[j].work
    BY <2>1 DEF FlowInv, SubmittedMoneyIsLive
  <2>3. q = r
    BY <1>3, <2>2, LiveDiffer
  <2> QED BY <1>2, <2>1, <2>2, <2>3
<1> QED BY <1>2, <1>3

\* The reservation is marked for the transaction that was sent.
LEMMA MarkStep ==
  ASSUME FlowInv, TypeInv', RowsInv', NEW r \in Requests, MarkSubmitted(r)
  PROVE  FlowInv'
<1>1. /\ UNCHANGED <<stmt, order, job, circuit, handler, live, receipts, ticker, evidence, crashes, lostHalts, resumes>>
      /\ request[r].pc = "accepted" /\ Goto(r, "marked")
      /\ reservation' = [reservation EXCEPT ![request[r].key].status = "submitted"]
  BY DEF MarkSubmitted, markConsumerReservationSubmitted, At
<1>2. /\ FlowTypeOK /\ RequestOK(r) /\ reservation \in [Orders -> Reservation]
      /\ request[r].key \in Orders /\ request[r].work \in WorkOrders
  BY <1>1, AboutRequest DEF FlowInv, TypeInv, TypeOK
<1>3. /\ reservation'[request[r].key].status = "submitted"
      /\ \A j \in Orders : j # request[r].key => reservation'[j] = reservation[j]
  BY <1>1, <1>2 DEF Reservation
<1>4. /\ request' \in [Requests -> Request]
      /\ request'[r].pc = "marked" /\ request'[r].key = request[r].key /\ request'[r].work = request[r].work
      /\ \A q \in Requests : q # r => request'[q] = request[q]
  BY <1>1, <1>2, PlaceTyped
<1>5. FlowTypeOK'
  BY <1>1, <1>2, <1>4 DEF FlowTypeOK
<1>6. OthersStay(r) /\ Onward(r)
  BY <1>1, <1>4 DEF OthersStay, Onward, Prepared
<1>7. r \in live
  BY <1>1, <1>2 DEF RequestOK
<1>8. Undisturbed(r)'
  BY <1>1, <1>3, <1>4, <1>7, NoOrderYet DEF Undisturbed
<1>9. RequestOK(r)'
  <2>1. /\ stmt[r].key = 0
        /\ job[request[r].key].status # "none" /\ job[request[r].key].work = request[r].work
        /\ Prepared(r)
    BY <1>1, <1>2, <1>7 DEF RequestOK
  <2>2. Prepared(r)' <=> Prepared(r)
    BY <1>1 DEF Prepared
  <2> QED BY <1>1, <1>2, <1>3, <1>4, <1>7, <2>1, <2>2 DEF RequestOK
<1>10. MissedDeadlineHalts'
  BY <1>1, DeadlinesKept
<1>11. Reserved(r)
  BY <1>1 DEF Reserved, AtWork
<1> QED BY <1>1, <1>3, <1>5, <1>6, <1>7, <1>8, <1>9, <1>10, <1>11, HolderMoves

\* The order row is written under the work order that was sent.
LEMMA RecordStep ==
  ASSUME FlowInv, TypeInv', RowsInv', NEW r \in Requests, RecordOrder(r)
  PROVE  FlowInv'
<1>1. /\ UNCHANGED <<reservation, stmt, job, circuit, handler, live, receipts, ticker, evidence, crashes, lostHalts, resumes>>
      /\ request[r].pc = "marked" /\ Goto(r, "done")
      /\ order' = [order EXCEPT ![request[r].key] = [status |-> "submitted", work |-> request[r].work]]
  BY DEF RecordOrder, recordConsumerVenueOrder, At
<1>2. /\ FlowTypeOK /\ RequestOK(r) /\ order \in [Orders -> Order]
      /\ request[r].key \in Orders /\ request[r].work \in WorkOrders
  BY <1>1, AboutRequest DEF FlowInv, TypeInv, TypeOK
<1>3. /\ order'[request[r].key].status = "submitted" /\ order'[request[r].key].work = request[r].work
      /\ \A j \in Orders : j # request[r].key => order'[j] = order[j]
  BY <1>1, <1>2
<1>4. /\ request' \in [Requests -> Request]
      /\ request'[r].pc = "done" /\ request'[r].key = request[r].key /\ request'[r].work = request[r].work
      /\ \A q \in Requests : q # r => request'[q] = request[q]
  BY <1>1, <1>2, PlaceTyped
<1>5. FlowTypeOK'
  BY <1>1, <1>2, <1>4 DEF FlowTypeOK
<1>6. OthersStay(r) /\ Onward(r) /\ ReservationsKept /\ JobsKept
  BY <1>1, <1>4 DEF OthersStay, Onward, Prepared, ReservationsKept, JobsKept
<1>7. r \in live
  BY <1>1, <1>2 DEF RequestOK
<1>8. RequestOK(r)'
  <2>1. /\ stmt[r].key = 0 /\ Reserved(r)
        /\ job[request[r].key].status # "none" /\ job[request[r].key].work = request[r].work
        /\ Prepared(r)
    BY <1>1, <1>2, <1>7 DEF RequestOK, Reserved, AtWork
  <2>2. Prepared(r)' <=> Prepared(r)
    BY <1>1 DEF Prepared
  <2> QED BY <1>1, <1>2, <1>4, <1>7, <2>1, <2>2 DEF RequestOK
<1>9. ASSUME NEW q \in Requests PROVE Undisturbed(q)'
  <2>1. CASE q = r
    BY <1>4, <2>1 DEF Undisturbed
  <2>2. CASE q # r /\ request[q].pc = "marked"
    <3>1. q \in live /\ request[q].key \in Orders /\ Undisturbed(q)
      BY <2>2, AboutRequest DEF RequestOK
    <3>2. request[q].key # request[r].key /\ request[q].work # request[r].work
      BY <1>7, <2>2, <3>1, LiveDiffer
    <3>3. order'[request[q].key] = order[request[q].key]
          /\ \A j \in Orders : order'[j].work # request[q].work
      BY <1>3, <2>2, <3>1, <3>2 DEF Undisturbed
    <3> QED BY <1>1, <1>4, <2>2, <3>1, <3>3 DEF Undisturbed
  <2>3. CASE q # r /\ request[q].pc # "marked"
    BY <1>1, <1>4, <2>3, AboutRequest DEF Undisturbed
  <2> QED BY <2>1, <2>2, <2>3
<1>10. (\A q \in Requests : RequestOK(q)') /\ JobsDiffer' /\ (\A k \in Orders : JobOK(k)')
  BY <1>1, <1>6, <1>8, OthersOK, JobsStay
<1>11. OwnKeys'
  BY <1>1, <1>6, KeysStay DEF Reserved, AtWork
<1>12. SubmittedMoneyIsLive'
  <2>1. ASSUME NEW q \in live
        PROVE  request'[q].key = request[q].key /\ request'[q].work = request[q].work
    <3>1. q \in Requests
      BY <1>2 DEF FlowTypeOK
    <3> QED BY <1>4, <3>1
  <2>2. ASSUME NEW k \in Orders, order'[k].status # "none"
        PROVE  \E q \in live : request[q].key = k /\ request[q].work = order'[k].work
    <3>1. CASE k = request[r].key
      BY <1>3, <1>7, <3>1
    <3>2. CASE k # request[r].key
      BY <1>3, <2>2, <3>2 DEF FlowInv, SubmittedMoneyIsLive
    <3> QED BY <3>1, <3>2
  <2> QED BY <1>1, <2>1, <2>2 DEF FlowInv, SubmittedMoneyIsLive
<1>13. ReceiptsOK' /\ OrdersBlank'
  BY <1>1, <1>3, <1>6, ReceiptsStay DEF FlowInv, OrdersBlank
<1>14. MissedDeadlineHalts'
  BY <1>1, DeadlinesKept
<1> QED BY <1>5, <1>9, <1>10, <1>11, <1>12, <1>13, <1>14 DEF FlowInv

-----------------------------------------------------------------------------
(* The worker's order handler.                                             *)

\* A cached receipt of a work order is that of the request that has the job.
LEMMA ReceiptIsOwn ==
  ASSUME FlowInv, NEW r \in Requests, request[r].work \in receipts,
         request[r].key \in Orders, job[request[r].key].status # "none",
         job[request[r].key].work = request[r].work, Prepared(r)
  PROVE  r \in live
<1>1. PICK q \in live : request[q].work = request[r].work
  BY DEF FlowInv, ReceiptsOK
<1>2. /\ q \in Requests /\ request[q].key \in Orders /\ job[request[q].key].work = request[q].work
      /\ Reserved(q) /\ Reserved(r)
  BY <1>1, AboutRequest DEF FlowInv, FlowTypeOK, RequestOK, Reserved
<1>3. request[q].key = request[r].key
  BY <1>1, <1>2 DEF FlowInv, JobsDiffer
<1> QED BY <1>1, <1>2, <1>3 DEF FlowInv, OwnKeys

\* The handler takes a step that changes none of the three order tables.
LEMMA HandlerMoves ==
  ASSUME FlowInv, TypeInv', RowsInv', NEW r \in Requests,
         \/ JobConflicts(r) \/ ExecuteAccepted(r) \/ ExecuteRejected(r) \/ ExecuteAmbiguous(r)
         \/ EnqueueFails(r) \/ WorkerDatabaseDown(r)
  PROVE  FlowInv'
<1>1. UNCHANGED <<reservation, stmt, order, job, request, ticker, evidence, crashes, lostHalts, resumes>>
  BY DEF JobConflicts, ExecuteAccepted, ExecuteRejected, ExecuteAmbiguous, EnqueueFails,
     WorkerDatabaseDown, databaseVars
<1>2. /\ FlowTypeOK /\ RequestOK(r) /\ Undisturbed(r) /\ request \in [Requests -> Request]
      /\ request[r].pc # "idle" => request[r].key \in Orders /\ request[r].work \in WorkOrders
      /\ handler[r] # "none" => request[r].pc # "idle"
  BY AboutRequest DEF FlowInv, FlowTypeOK
<1>3. PICK state \in {"executed", "ok", "error"} :
        /\ Answer(r, state)
        /\ \/ /\ state = "error" /\ handler[r] \in {"received", "prepared", "executed"}
              /\ \/ live' = live
                 \/ handler[r] = "prepared" /\ live' = live \cup {r}
              /\ UNCHANGED <<receipts, circuit>>
           \/ /\ state = "executed" /\ handler[r] = "prepared" /\ UNCHANGED circuit
              /\ live' = (IF request[r].work \in receipts THEN live ELSE live \cup {r})
              /\ receipts' = receipts \cup {request[r].work}
           \/ /\ state = "ok" /\ handler[r] = "executed" /\ UNCHANGED <<live, receipts>>
              /\ halt({"reconciliation_stale"})
  BY DEF JobConflicts, ExecuteAccepted, ExecuteRejected, ExecuteAmbiguous, EnqueueFails,
     WorkerDatabaseDown
<1>4. handler' \in [Requests -> HandlerStates] /\ handler'[r] = state
      /\ \A q \in Requests : q # r => handler'[q] = handler[q]
  BY <1>2, <1>3, AnswerTyped DEF HandlerStates
<1>5. /\ request[r].pc # "idle" /\ request[r].key \in Orders /\ request[r].work \in WorkOrders
      /\ request[r].pc \notin {"checked", "reserving", "reserved"}
      /\ reservation[request[r].key].status # "none"
      /\ handler[r] \in {"prepared", "executed"} =>
           /\ job[request[r].key].status # "none"
           /\ job[request[r].key].work = request[r].work
           /\ Prepared(r)
  BY <1>2, <1>3 DEF RequestOK, Reserved, Prepared
<1>6. \/ live' = live /\ (state = "executed" => r \in live)
      \/ live' = live \cup {r} /\ handler[r] = "prepared"
  BY <1>3, <1>5, ReceiptIsOwn
<1>7. FlowTypeOK'
  <2>1. circuit' \in CircuitState
    BY <1>2, <1>3 DEF FlowTypeOK, halt, haltedState, CircuitState, Reasons
  <2>2. live' \subseteq Requests /\ receipts' \subseteq WorkOrders
    BY <1>2, <1>3, <1>5, <1>6 DEF FlowTypeOK
  <2> QED BY <1>1, <1>2, <1>4, <2>1, <2>2 DEF FlowTypeOK
<1>8. OthersStay(r) /\ Onward(r)
  BY <1>1, <1>3, <1>4, <1>6 DEF OthersStay, Onward, Prepared
<1>9. RequestOK(r)'
  <2>1. handler'[r] \in {"executed", "ok"} => r \in live'
    BY <1>2, <1>3, <1>4, <1>6 DEF RequestOK
  <2>2. request[r].pc \in {"accepted", "marked"} => r \in live'
    BY <1>2, <1>6 DEF RequestOK
  <2>3. handler'[r] \in {"prepared", "executed", "ok"} \/ r \in live' =>
          job[request[r].key].status # "none" /\ job[request[r].key].work = request[r].work
    BY <1>2, <1>3, <1>4, <1>5, <1>6 DEF RequestOK
  <2>4. Prepared(r)'
    BY <1>3, <1>4 DEF Prepared
  <2>5. stmt[r].key # 0 => stmt[r].key = request[r].key /\ request[r].pc \in {"reserving", "crashed"}
    BY <1>2 DEF RequestOK
  <2> QED BY <1>1, <1>5, <2>1, <2>2, <2>3, <2>4, <2>5 DEF RequestOK
<1>10. Undisturbed(r)'
  BY <1>1, <1>2 DEF Undisturbed
<1>11. Reserved(r)
  BY <1>3 DEF Reserved
<1>12. MissedDeadlineHalts'
  <2>1. circuit.status = "halted" => circuit'.status = "halted"
    BY <1>3 DEF halt, haltedState
  <2> QED BY <1>1, <2>1, DeadlinesKept
<1>13. \/ receipts' = receipts
       \/ r \in live' /\ receipts' = receipts \cup {request'[r].work}
  BY <1>1, <1>3, <1>6
<1> QED BY <1>1, <1>7, <1>8, <1>9, <1>10, <1>11, <1>12, <1>13, RequestMoves

\* What every request says when jobs are opened, closed or left alone and
\* the requests, their handlers but for one, and the orders stay.
LEMMA JobMoves ==
  ASSUME FlowInv, TypeInv', RowsInv', FlowTypeOK', NEW r \in Requests, OthersStay(r),
         UNCHANGED <<reservation, order, request, live, receipts>>, JobsKept,
         Prepared(r) => Prepared(r)', Reserved(r), RequestOK(r)',
         JobsDiffer', \A k \in Orders : JobOK(k)', MissedDeadlineHalts'
  PROVE  FlowInv'
<1>1. ReservationsKept /\ Onward(r)
  BY DEF ReservationsKept, Onward
<1>2. \A q \in Requests : RequestOK(q)'
  BY <1>1, OthersOK
<1>3. \A q \in Requests : Undisturbed(q)'
  BY DEF FlowInv, Undisturbed
<1>4. OwnKeys'
  <2>1. request[r].pc # "idle"
    BY AboutRequest
  <2> QED BY <1>1, <2>1, KeysStay
<1>5. SubmittedMoneyIsLive' /\ ReceiptsOK' /\ OrdersBlank'
  BY DEF FlowInv, SubmittedMoneyIsLive, ReceiptsOK, OrdersBlank
<1> QED BY <1>2, <1>3, <1>4, <1>5 DEF FlowInv

\* The job row is written before execution.
LEMMA PrepareStep ==
  ASSUME FlowInv, TypeInv', RowsInv', NEW r \in Requests, PrepareJob(r)
  PROVE  FlowInv'
<1>1. /\ UNCHANGED <<reservation, stmt, order, circuit, request, live, receipts, ticker,
                     evidence, crashes, lostHalts, resumes>>
      /\ handler[r] = "received" /\ Answer(r, "prepared")
      /\ job[request[r].key].status = "none" => \A j \in Orders : job[j].work # request[r].work
      /\ job' = IF job[request[r].key].status = "none"
                THEN [job EXCEPT ![request[r].key] = [status |-> "prepared", work |-> request[r].work]]
                ELSE job
  BY DEF PrepareJob, prepareReconciliation
<1>2. /\ FlowTypeOK /\ RequestOK(r) /\ job \in [Orders -> Job] /\ Reserved(r)
      /\ request[r].pc # "idle" /\ request[r].key \in Orders /\ request[r].work \in WorkOrders
  BY <1>1, AboutRequest DEF FlowInv, TypeInv, TypeOK, Reserved
<1>3. handler' \in [Requests -> HandlerStates] /\ handler'[r] = "prepared"
      /\ \A q \in Requests : q # r => handler'[q] = handler[q]
  BY <1>1, <1>2, AnswerTyped DEF HandlerStates
<1>4. job[request[r].key].status = "none"
  <2> SUFFICES ASSUME job[request[r].key].status # "none" PROVE FALSE
    OBVIOUS
  <2>1. PICK q \in Requests : request[q].key = request[r].key /\ Prepared(q)
    BY <1>2 DEF FlowInv, JobOK
  <2>2. q # r
    BY <1>1, <2>1 DEF Prepared
  <2>3. Reserved(q)
    BY <2>1 DEF Prepared, Reserved
  <2> QED BY <1>2, <2>1, <2>2, <2>3 DEF FlowInv, OwnKeys
<1>5. /\ job'[request[r].key].status = "prepared" /\ job'[request[r].key].work = request[r].work
      /\ \A j \in Orders : j # request[r].key => job'[j] = job[j] /\ job[j].work # request[r].work
  BY <1>1, <1>2, <1>4
<1>6. FlowTypeOK'
  BY <1>1, <1>2, <1>3 DEF FlowTypeOK
<1>7. OthersStay(r) /\ JobsKept /\ Prepared(r)'
  BY <1>1, <1>3, <1>4, <1>5 DEF OthersStay, JobsKept, Prepared
<1>8. RequestOK(r)'
  <2>1. /\ request[r].pc \notin {"idle", "checked", "reserving", "reserved", "accepted", "marked"}
        /\ stmt[r].key # 0 => stmt[r].key = request[r].key /\ request[r].pc \in {"reserving", "crashed"}
        /\ reservation[request[r].key].status # "none"
    BY <1>1, <1>2 DEF RequestOK, Prepared
  <2> QED BY <1>1, <1>2, <1>3, <1>5, <1>7, <2>1 DEF RequestOK
<1>9. JobsDiffer'
  <2>1. NoWork # request[r].work
    BY <1>2, RowsAssumption
  <2>2. ASSUME NEW j \in Orders, NEW k \in Orders, j # k, job'[k].status # "none"
        PROVE  job'[j].work # job'[k].work
    BY <1>5, <2>2 DEF FlowInv, JobsDiffer
  <2> QED BY <2>2 DEF JobsDiffer
<1>10. ASSUME NEW k \in Orders PROVE JobOK(k)'
  <2>1. CASE k = request[r].key
    BY <1>1, <1>5, <1>7, <2>1 DEF JobOK
  <2>2. CASE k # request[r].key
    <3>1. job'[k] = job[k] /\ JobOK(k)
      BY <1>5, <2>2 DEF FlowInv
    <3>2. \A q \in Requests : Prepared(q) => Prepared(q)'
      BY <1>3 DEF Prepared
    <3> QED BY <1>1, <3>1, <3>2 DEF JobOK
  <2> QED BY <2>1, <2>2
<1>11. MissedDeadlineHalts'
  BY <1>1, <1>5, DeadlinesKept
<1> QED BY <1>1, <1>2, <1>6, <1>7, <1>8, <1>9, <1>10, <1>11, JobMoves

\* The job of the order that was sent waits for evidence.
LEMMA EnqueueStep ==
  ASSUME FlowInv, TypeInv', RowsInv', NEW r \in Requests, EnqueueJob(r)
  PROVE  FlowInv'
<1>1. /\ UNCHANGED <<reservation, stmt, order, circuit, request, live, receipts, ticker,
                     evidence, crashes, lostHalts, resumes>>
      /\ handler[r] = "executed" /\ Answer(r, "ok")
  BY DEF EnqueueJob, enqueueReconciliation
<1>2. PICK k \in Orders :
        job[k].status \in OpenJob /\ job' = [job EXCEPT ![k].status = "awaiting_evidence"]
  BY DEF EnqueueJob, enqueueReconciliation
<1>3. FlowTypeOK /\ RequestOK(r) /\ job \in [Orders -> Job] /\ Reserved(r)
  BY <1>1, AboutRequest DEF FlowInv, TypeInv, TypeOK, Reserved
<1>4. handler' \in [Requests -> HandlerStates] /\ handler'[r] = "ok"
      /\ \A q \in Requests : q # r => handler'[q] = handler[q]
  BY <1>1, <1>3, AnswerTyped DEF HandlerStates
<1>5. /\ \A j \in Orders : job'[j].work = job[j].work
      /\ \A j \in Orders : job'[j].status = "none" <=> job[j].status = "none"
      /\ \A j \in Orders : job'[j].status = "failed_review" => job[j].status = "failed_review"
  BY <1>2, <1>3 DEF OpenJob, Job
<1>6. FlowTypeOK'
  BY <1>1, <1>3, <1>4 DEF FlowTypeOK
<1>7. OthersStay(r) /\ JobsKept /\ Prepared(r)' /\ Prepared(r)
  BY <1>1, <1>4, <1>5 DEF OthersStay, JobsKept, Prepared
<1>8. RequestOK(r)'
  BY <1>1, <1>3, <1>4, <1>5, <1>7, AboutRequest DEF RequestOK
<1>9. JobsDiffer'
  BY <1>5 DEF FlowInv, JobsDiffer
<1>10. ASSUME NEW j \in Orders PROVE JobOK(j)'
  <2>1. JobOK(j)
    BY DEF FlowInv
  <2>2. \A q \in Requests : Prepared(q) => Prepared(q)'
    BY <1>4 DEF Prepared
  <2> QED BY <1>1, <1>5, <2>1, <2>2 DEF JobOK
<1>11. MissedDeadlineHalts'
  BY <1>1, <1>5, DeadlinesKept
<1> QED BY <1>1, <1>3, <1>6, <1>7, <1>8, <1>9, <1>10, <1>11, JobMoves

-----------------------------------------------------------------------------
(* The worker's process, its tick, the evidence, and the operator.         *)

\* Nobody's request moves; the memory of the worker may be lost, jobs may be
\* closed and orders settled.
LEMMA WorkerMoves ==
  ASSUME FlowInv, TypeInv', RowsInv', FlowTypeOK', UNCHANGED <<request, stmt, live, receipts>>,
         \A q \in Requests :
           \/ handler'[q] = handler[q]
           \/ handler[q] # "none" /\ handler'[q] = "gone",
         \A k \in Orders :
           /\ job'[k].work = job[k].work
           /\ job'[k].status = "none" <=> job[k].status = "none",
         \A k \in Orders :
           \/ reservation'[k] = reservation[k]
           \/ /\ order[k].status = "submitted" /\ reservation[k].status = "submitted"
              /\ reservation'[k].status = "settled",
         \A k \in Orders :
           /\ order'[k].work = order[k].work
           /\ order'[k].status = "none" <=> order[k].status = "none",
         MissedDeadlineHalts'
  PROVE  FlowInv'
<1>1. ASSUME NEW q \in Requests
      PROVE  /\ handler[q] = "none" <=> handler'[q] = "none"
             /\ handler'[q] \notin {"none", "gone"} => handler'[q] = handler[q]
             /\ Reserved(q)' <=> Reserved(q)
             /\ Prepared(q) => Prepared(q)'
  BY DEF Reserved, Prepared
<1>2. \A k \in Orders : reservation[k].status # "none" => reservation'[k].status # "none"
  OBVIOUS
<1>3. ASSUME NEW q \in Requests PROVE RequestOK(q)'
  <2>1. /\ RequestOK(q) /\ (request[q].pc # "idle" => request[q].key \in Orders)
        /\ (handler[q] # "none" => request[q].pc # "idle") /\ (Reserved(q) => request[q].pc # "idle")
        /\ (q \in live => handler[q] # "none")
    BY AboutRequest
  <2>2. Reserved(q) => reservation'[request[q].key].status # "none"
    BY <1>2, <2>1 DEF RequestOK
  <2>3. handler'[q] \in {"prepared", "executed", "ok"} \/ q \in live =>
          job'[request[q].key].status # "none" /\ job'[request[q].key].work = request[q].work
    BY <1>1, <2>1 DEF RequestOK
  <2> QED BY <1>1, <2>1, <2>2, <2>3 DEF RequestOK
<1>4. ASSUME NEW q \in Requests PROVE Undisturbed(q)'
  <2>1. Undisturbed(q) /\ (request[q].pc # "idle" => request[q].key \in Orders)
    BY AboutRequest
  <2> QED BY <2>1 DEF Undisturbed
<1>5. ASSUME NEW k \in Orders PROVE JobOK(k)'
  <2>1. JobOK(k)
    BY DEF FlowInv
  <2> QED BY <1>1, <2>1 DEF JobOK
<1>6. OwnKeys' /\ JobsDiffer' /\ ReceiptsOK' /\ OrdersBlank'
  BY <1>1 DEF FlowInv, OwnKeys, JobsDiffer, ReceiptsOK, OrdersBlank
<1>7. SubmittedMoneyIsLive'
  BY DEF FlowInv, SubmittedMoneyIsLive
<1> QED BY <1>3, <1>4, <1>5, <1>6, <1>7 DEF FlowInv

\* No row of an order changes: the worker dies, the circuit is halted or
\* resumed, a consumer funds an account, or nothing happens.
LEMMA OtherSteps ==
  ASSUME FlowInv, TypeInv', RowsInv',
         \/ Fund \/ WorkerCrash \/ SweepHalts \/ SweepHaltFails \/ IngestHalts
         \/ IngestHaltFails \/ OperatorHalts \/ OperatorResumes
         \/ UNCHANGED flowVars
  PROVE  FlowInv'
<1>1. UNCHANGED <<reservation, stmt, order, job, request, live, receipts>>
  BY DEF Fund, DepositStep, createConsumerDepositIntent, DepositIntentExpires, confirmConsumerDeposit,
     createConsumerBalanceAdjustment, WorkerCrash, SweepHalts, SweepHaltFails, IngestHalts,
     IngestHaltFails, OperatorHalts,
     OperatorResumes, flowVars, databaseVars, callerVars, orderVars
<1>2. FlowTypeOK
  BY DEF FlowInv
<1>3. /\ FlowTypeOK'
      /\ \A q \in Requests :
           \/ handler'[q] = handler[q]
           \/ handler[q] # "none" /\ handler'[q] = "gone"
      /\ MissedDeadlineHalts'
  <2>1. CASE Fund \/ UNCHANGED flowVars
    <3>1. UNCHANGED <<circuit, handler, ticker, evidence, crashes, lostHalts, resumes>>
      BY <2>1 DEF Fund, flowVars, callerVars
    <3> QED BY <1>1, <1>2, <3>1, DeadlinesKept DEF FlowTypeOK
  <2>2. CASE WorkerCrash
    <3>1. /\ UNCHANGED <<circuit, lostHalts, resumes>> /\ ticker' = "idle" /\ evidence' = 0
          /\ crashes' = crashes + 1 /\ crashes < MaxWorkerCrashes
          /\ handler' = [r \in Requests |-> IF handler[r] = "none" THEN "none" ELSE "gone"]
      BY <2>2 DEF WorkerCrash
    <3>2. crashes' \in 0..MaxWorkerCrashes /\ crashes' # 0 /\ evidence' \in 0..NOrders
      BY <1>2, <3>1, FaultsAssumption, CountsAssumption DEF FlowTypeOK
    <3> QED BY <1>1, <1>2, <3>1, <3>2 DEF FlowTypeOK, HandlerStates, MissedDeadlineHalts
  <2>3. CASE SweepHalts \/ IngestHalts \/ OperatorHalts
    <3>1. PICK reasons \in SUBSET Reasons : halt(reasons)
      BY <2>3 DEF SweepHalts, IngestHalts, OperatorHalts, RefusalReason, Reasons
    <3>2. circuit' \in CircuitState /\ circuit'.status = "halted"
      BY <1>2, <3>1 DEF FlowTypeOK, halt, haltedState, CircuitState
    <3>3. UNCHANGED <<handler, crashes, lostHalts, resumes>>
      BY <2>3 DEF SweepHalts, IngestHalts, OperatorHalts, callerVars
    <3>4. ticker' \in {"idle", "halting"} /\ evidence' \in 0..NOrders
      BY <1>2, <2>3, CountsAssumption DEF SweepHalts, IngestHalts, OperatorHalts, callerVars, FlowTypeOK
    <3> QED BY <1>1, <1>2, <3>2, <3>3, <3>4 DEF FlowTypeOK, MissedDeadlineHalts
  <2>4. CASE OperatorResumes
    <3>1. /\ UNCHANGED <<handler, ticker, evidence, crashes, lostHalts>> /\ circuit' = OpenCircuit
          /\ resumes' = resumes + 1 /\ resumes < MaxResumes
      BY <2>4 DEF OperatorResumes, resume
    <3>2. resumes' \in 0..MaxResumes /\ resumes' # 0 /\ circuit' \in CircuitState
      BY <1>2, <3>1, FaultsAssumption DEF FlowTypeOK, OpenCircuit, CircuitState
    <3> QED BY <1>1, <1>2, <3>1, <3>2 DEF FlowTypeOK, MissedDeadlineHalts
  <2>5. CASE SweepHaltFails
    <3>1. /\ UNCHANGED <<circuit, handler, evidence, crashes, resumes>> /\ ticker' = "idle"
          /\ lostHalts' = lostHalts + 1 /\ lostHalts < MaxLostHalts
      BY <2>5 DEF SweepHaltFails
    <3>2. lostHalts' \in 0..MaxLostHalts /\ lostHalts' # 0
      BY <1>2, <3>1, FaultsAssumption DEF FlowTypeOK
    <3> QED BY <1>1, <1>2, <3>1, <3>2 DEF FlowTypeOK, MissedDeadlineHalts
  <2>6. CASE IngestHaltFails
    <3>1. UNCHANGED <<circuit, handler, ticker, crashes, lostHalts, resumes>> /\ evidence' = 0
      BY <2>6 DEF IngestHaltFails
    <3>2. evidence' \in 0..NOrders
      BY <3>1, CountsAssumption
    <3>3. MissedDeadlineHalts'
      BY <1>1, <3>1, DeadlinesKept
    <3> QED BY <1>1, <1>2, <3>1, <3>2, <3>3 DEF FlowTypeOK
  <2> QED BY <2>1, <2>2, <2>3, <2>4, <2>5, <2>6
<1> QED BY <1>1, <1>3, WorkerMoves

\* The tick closes the jobs past their deadline, and will halt trading.
LEMMA SweepStep ==
  ASSUME FlowInv, TypeInv', RowsInv', NEW late \in SUBSET Orders, Sweep(late)
  PROVE  FlowInv'
<1>1. /\ UNCHANGED <<reservation, stmt, order, circuit, request, handler, live, receipts,
                     evidence, crashes, lostHalts, resumes>>
      /\ ticker' = "halting" /\ late \subseteq {k \in Orders : job[k].status \in OpenJob}
      /\ job' = [k \in Orders |->
           IF k \in late THEN [job[k] EXCEPT !.status = "failed_review"] ELSE job[k]]
  BY DEF Sweep, processReconciliationDeadlines
<1>2. FlowTypeOK /\ job \in [Orders -> Job]
  BY DEF FlowInv, TypeInv, TypeOK
<1>3. FlowTypeOK' /\ MissedDeadlineHalts'
  BY <1>1, <1>2 DEF FlowTypeOK, MissedDeadlineHalts
<1>4. ASSUME NEW k \in Orders
      PROVE  job'[k].work = job[k].work /\ (job'[k].status = "none" <=> job[k].status = "none")
  BY <1>1, <1>2 DEF OpenJob, Job
<1> QED BY <1>1, <1>3, <1>4, WorkerMoves

\* Evidence completes the job of the order it names, if there is one.
LEMMA CompletedJob ==
  ASSUME job \in [Orders -> Job], NEW k \in Orders, CompleteJob(k)
  PROVE  \A j \in Orders :
           /\ job'[j].work = job[j].work
           /\ job'[j].status = "none" <=> job[j].status = "none"
           /\ job'[j].status = "failed_review" => job[j].status = "failed_review"
<1>1. CASE job[k].status = "none"
  BY <1>1 DEF CompleteJob
<1>2. CASE job[k].status # "none"
  BY <1>2 DEF CompleteJob, Job
<1> QED BY <1>1, <1>2

\* Evidence settles the order, or is refused and will halt trading.
LEMMA EvidenceStep ==
  ASSUME FlowInv, TypeInv', RowsInv', NEW k \in Orders, NEW ref \in FillRefs,
         NEW filled \in Notionals \cup {0}, NEW c \in VenueCosts,
         IngestSettles(k, ref, filled, c) \/ IngestRefused(k, ref, filled, c)
  PROVE  FlowInv'
<1>1. /\ UNCHANGED <<stmt, circuit, request, handler, live, receipts, ticker, crashes, lostHalts, resumes>>
      /\ evidence' \in {evidence, k} /\ CompleteJob(k)
      /\ \/ UNCHANGED <<reservation, order>>
         \/ /\ Settleable(k, filled, c)
            /\ reservation' = [reservation EXCEPT ![k].status = "settled"]
            /\ order' = [order EXCEPT ![k].status = "reconciled"]
  BY DEF IngestSettles, IngestRefused, reconcile, reconcileConsumerVenueOrder, ReconcileRefused,
     callerVars
<1>2. /\ FlowTypeOK /\ job \in [Orders -> Job] /\ order \in [Orders -> Order]
      /\ reservation \in [Orders -> Reservation]
  BY DEF FlowInv, TypeInv, TypeOK
<1>3. k \in 0..NOrders
  BY CountsAssumption DEF Orders
<1>4. FlowTypeOK'
  BY <1>1, <1>2, <1>3 DEF FlowTypeOK
<1>5. \A j \in Orders :
        /\ job'[j].work = job[j].work
        /\ job'[j].status = "none" <=> job[j].status = "none"
        /\ job'[j].status = "failed_review" => job[j].status = "failed_review"
  BY <1>1, <1>2, CompletedJob
<1>6. MissedDeadlineHalts'
  BY <1>1, <1>5, DeadlinesKept
<1>7. ASSUME NEW j \in Orders
      PROVE  /\ \/ reservation'[j] = reservation[j]
                \/ /\ order[j].status = "submitted" /\ reservation[j].status = "submitted"
                   /\ reservation'[j].status = "settled"
             /\ order'[j].work = order[j].work
             /\ order'[j].status = "none" <=> order[j].status = "none"
  BY <1>1, <1>2 DEF Settleable, Reservation, Order
<1> QED BY <1>1, <1>4, <1>5, <1>6, <1>7, WorkerMoves

-----------------------------------------------------------------------------
(* The invariant, and what follows from it.                                *)

\* Before the first request there is nothing to say.
LEMMA FlowInitially ==
  ASSUME FlowInit
  PROVE  FlowInv
<1>1. Init /\ circuit = OpenCircuit
      /\ request = [r \in Requests |-> [pc |-> "idle", key |-> 0, work |-> NoWork]]
      /\ handler = [r \in Requests |-> "none"]
      /\ live = {} /\ receipts = {} /\ ticker = "idle" /\ evidence = 0
      /\ crashes = 0 /\ lostHalts = 0 /\ resumes = 0
  BY DEF FlowInit
<1>2. TypeInv /\ RowsInv
  BY <1>1, InitTyped DEF Init, RowsInv, OrderFollowsReservation, LedgerExplainsRows
<1>3. FlowTypeOK
  <2>1. [pc |-> "idle", key |-> 0, work |-> NoWork] \in Request
    BY CountsAssumption DEF Request
  <2> QED BY <1>1, <2>1, CountsAssumption, FaultsAssumption
          DEF FlowTypeOK, OpenCircuit, CircuitState, HandlerStates
<1>4. \A k \in Orders : /\ job[k].status = "none" /\ job[k].work = NoWork
                        /\ order[k].status = "none" /\ order[k].work = NoWork
                        /\ reservation[k].status = "none"
  BY <1>1 DEF Init
<1>5. \A r \in Requests : stmt[r].key = 0
  BY <1>1 DEF Init, Requests, IdleStatement
<1>6. \A r \in Requests : RequestOK(r) /\ Undisturbed(r) /\ ~Reserved(r)
  BY <1>1, <1>5 DEF RequestOK, Undisturbed, Reserved, AtWork
<1> QED BY <1>1, <1>2, <1>3, <1>4, <1>6 DEF FlowInv, JobOK, OwnKeys, JobsDiffer, ReceiptsOK,
        OrdersBlank, SubmittedMoneyIsLive, MissedDeadlineHalts

\* Every step of the flow preserves the invariant.
LEMMA FlowStep ==
  ASSUME FlowInv, [FlowNext]_flowVars
  PROVE  FlowInv'
<1>1. TypeInv' /\ RowsInv'
  BY OrderFlowStatement
<1>2. ASSUME NEW r \in Requests, WebSteps(r) \/ WebCrash(r)
      PROVE  FlowInv'
  <2>1. CASE \E k \in Orders, w \in WorkOrders : CheckCircuit(r, k, w)
    BY <1>1, <2>1, CheckStep
  <2>2. CASE \E a \in Accounts, n \in Notionals, c \in VenueCosts : StartReserve(r, a, n, c)
    BY <1>1, <2>2, StatementMoves
  <2>3. CASE FinishReserve(r)
    <3>1. CASE reserveConsumerBalance(r)
      BY <1>1, <2>3, <3>1, ReserveStep
    <3>2. CASE ~reserveConsumerBalance(r)
      BY <1>1, <2>3, <3>2, StatementMoves DEF FinishReserve, ReserveRefused
    <3> QED BY <3>1, <3>2
  <2>4. CASE RejectBeforeCall(r) \/ ReleaseAfterError(r)
    BY <1>1, <2>4, ReleaseStep
  <2>5. CASE CallWorker(r) \/ ReceiveReceipt(r) \/ ReceiveError(r) \/ WebCrash(r)
    BY <1>1, <2>5, CallingStep
  <2>6. CASE MarkSubmitted(r) \/ RecordOrder(r)
    BY <1>1, <2>6, MarkStep, RecordStep
  <2> QED BY <1>2, <2>1, <2>2, <2>3, <2>4, <2>5, <2>6 DEF WebSteps
<1>3. ASSUME NEW r \in Requests, HandlerSteps(r)
      PROVE  FlowInv'
  BY <1>1, <1>3, PrepareStep, EnqueueStep, HandlerMoves DEF HandlerSteps
<1>4. CASE \E late \in SUBSET Orders : Sweep(late)
  BY <1>1, <1>4, SweepStep
<1>5. CASE \E k \in Orders, ref \in FillRefs, filled \in Notionals \cup {0}, c \in VenueCosts :
             IngestSettles(k, ref, filled, c) \/ IngestRefused(k, ref, filled, c)
  BY <1>1, <1>5, EvidenceStep
<1> QED BY <1>1, <1>2, <1>3, <1>4, <1>5, OtherSteps DEF FlowNext, EvidenceSteps

\* In every state of the flow the invariant holds.
LEMMA FlowInvariant == FlowSpec => []FlowInv
BY FlowInitially, FlowStep, PTL DEF FlowSpec

\* The route, the worker and the operators change the database by its own
\* statements only: the flow implements the database's specification, and
\* what is proved of the database holds of it.
THEOREM OrdersAreStatements == FlowSpec => Spec
<1>1. FlowInit => Init
  BY DEF FlowInit
<1>2. FlowInv /\ [FlowNext]_flowVars => [Next]_vars
  BY OrderFlowStatement
<1> QED BY <1>1, <1>2, FlowInvariant, PTL DEF FlowSpec, Spec

\* Every variable of the route, the worker and the circuit keeps its type.
THEOREM OrderFlowTyped == FlowSpec => []FlowTypeOK
<1>1. FlowInv => FlowTypeOK
  BY DEF FlowInv
<1> QED BY <1>1, FlowInvariant, PTL

\* However clients retry and processes die, one transaction at most goes to
\* the venue for an idempotency key, and one for a work order.
THEOREM OneLive == FlowSpec => []OneLiveOrder
<1>1. FlowInv => OneLiveOrder
  BY LiveDiffer DEF OneLiveOrder
<1> QED BY <1>1, FlowInvariant, PTL

\* Whatever was sent has the job row that was written before it was sent.
THEOREM LiveHasJob == FlowSpec => []LiveOrderHasJob
<1>1. FlowInv => LiveOrderHasJob
  BY DEF FlowInv, FlowTypeOK, RequestOK, LiveOrderHasJob
<1> QED BY <1>1, FlowInvariant, PTL

\* Money is marked, recorded and settled only for what was really sent.
THEOREM SubmittedLive == FlowSpec => []SubmittedMoneyIsLive
<1>1. FlowInv => SubmittedMoneyIsLive
  BY DEF FlowInv
<1> QED BY <1>1, FlowInvariant, PTL

\* A request finds the rows as it left them: the branches in which marking
\* and recording find nothing are dead.
THEOREM NoConflict == FlowSpec => []SubmissionNeverConflicts
<1>1. FlowInv => SubmissionNeverConflicts
  BY DEF FlowInv, Undisturbed, SubmissionNeverConflicts, At
<1> QED BY <1>1, FlowInvariant, PTL

\* What a request releases or marks is the reservation it made itself.
THEOREM OwnReservation == FlowSpec => []RequestOwnsReservation
<1>1. FlowInv => RequestOwnsReservation
  BY DEF FlowInv, OwnKeys, Reserved, AtWork, RequestOwnsReservation
<1> QED BY <1>1, FlowInvariant, PTL

\* A missed deadline has halted trading, or the tick is about to: what can
\* undo it is a restart or a halt that throws after the update of the jobs,
\* or an operator's resume, and nothing else.
THEOREM DeadlineHalts == FlowSpec => []MissedDeadlineHalts
<1>1. FlowInv => MissedDeadlineHalts
  BY DEF FlowInv
<1> QED BY <1>1, FlowInvariant, PTL

\* However requests, retries and crashes interleave, the money of a key goes
\* into the escrow once and leaves it once, and the ledger explains it all.
THEOREM OrdersKeepMoney ==
  FlowSpec => ImplementsEscrow /\ [](ReservedIsHeld /\ BalanceAgreesWithLedger)
BY OrdersAreStatements, DatabaseImplementsEscrow, ReservedExplained, LedgerAgrees, PTL
=============================================================================
