-------------------------- MODULE CrossVenueProofs --------------------------
(***************************************************************************)
(* What holds of a cross-venue execution for every size of the legs, every *)
(* number of callback attempts and of ingest functions, and every loss or  *)
(* delay of requests, reports and fills.                                   *)
(***************************************************************************)
EXTENDS CrossVenueExecution, TLAPS

Closed == {"both_filled", "hedged", "failed"}
Final == {"failed", "complete"}
Mutating == {"failing", "receipt", "cancelling", "writing"}
Answering == {"yes", "halting"}

-----------------------------------------------------------------------------
(* The inductive invariant, one idea at a time.                            *)

\* Reports are numbered by what they can say: fills from number 3 on, a
\* repair only in number 4.
PlanOK(p) ==
  /\ p.seq <= 2 => p.fills = Nothing
  /\ p.seq <= 3 => p.repair = 0

ReportOK(r) ==
  /\ r.seq \in 2..4
  /\ r.seq = 2 => r.fills = Nothing
  /\ r.repair # 0 => r.seq = 4
  /\ ~r.known => r.phase = "failed" /\ r.repair = 0

\* Nothing moves before the worker has accepted the plan.
Beginnings ==
  /\ request # "accepted" =>
       /\ run.pc = "none" /\ cancel.pc = "idle"
       /\ \A i \in Ingests : ingest[i].pc = "idle"
  /\ request = "accepted" => run.pc # "none"
  /\ route.pc \in {"idle", "stored", "marked", "accepted"} => request = "none"
  /\ route.pc \in {"idle", "stored", "marked"} => plan.seq = 0
  /\ route.pc = "accepted" => plan.status = "legs_open"
  /\ route.pc \in {"answered", "receipt"} => request = "accepted"

\* What a writer has computed, compared with the plan it will replace: as
\* long as the plan's sequence is the one it read, writing loses nothing.
KeepsReports(p, w) ==
  w.pc \in Mutating =>
    /\ w.base <= p.seq /\ w.base <= w.next.seq /\ PlanOK(w.next)
    /\ p.seq = w.base =>
         /\ \A l \in Legs : w.next.fills[l] >= p.fills[l]
         /\ w.next.seq = w.base => w.next.fills = p.fills

Writers ==
  /\ PlanOK(plan)
  /\ KeepsReports(plan, route) /\ KeepsReports(plan, cancel)
  /\ \A i \in Ingests : KeepsReports(plan, ingest[i])
  /\ route.pc \notin {"cancelling", "writing"}
  /\ route.pc = "failing" => route.base <= 1 /\ route.next.seq = 2 /\ route.next.status = "failed"
  /\ cancel.pc \in {"idle", "cancelling", "done"}
  /\ cancel.pc = "cancelling" => cancel.next.status \in {"unwinding", "cancelled"}

\* The run's place and the number of its report.
RunNumbers ==
  /\ run.pc = "preflight" => run.seq = 1
  /\ run.pc = "submitting" => run.seq = 2
  /\ run.pc \in {"hedging", "unwinding"} => run.seq = 3
  /\ run.pc = "reporting" =>
       /\ ReportOK(run.report) /\ run.report.seq = run.seq
       /\ run.then = "submit" => run.seq = 2
       /\ run.then = "hedge" => run.seq = 3 /\ run.report.known /\ run.report.fills = run.fills
       /\ run.report.phase \in Final <=> run.then = "end"

\* The ingest function the run waits for handles the run's report; the ones
\* it no longer waits for handle reports of the same run.
RunEnded == run.pc = "over" \/ (run.pc = "reporting" /\ run.then = "end")

Functions ==
  /\ run.slot # 0 =>
       /\ run.pc = "reporting"
       /\ ingest[run.slot].pc \in {"reading", "writing", "objecting", "halting", "yes", "no"}
       /\ ingest[run.slot].pc \in {"reading", "writing"} => ingest[run.slot].report = run.report
  /\ \A i \in Ingests :
       /\ ingest[i].pc \in {"idle", "reading", "writing", "objecting", "halting", "yes", "no"}
       /\ ingest[i].pc \in {"reading", "writing"} =>
            /\ ReportOK(ingest[i].report)
            /\ ingest[i].report.phase \in Final => RunEnded
       /\ ingest[i].pc = "writing" =>
            /\ ingest[i].base < ingest[i].next.seq
            /\ ingest[i].next.seq = ingest[i].report.seq
            /\ ingest[i].report.known => ingest[i].next.fills = ingest[i].report.fills
            /\ ingest[i].next.status \in Active \/ ingest[i].report.phase \in Final

\* The legs are sent only when report 2 is the worker's own.
Accepted == plan.seq >= 2 /\ "rejected" \notin ghost

Rejection ==
  /\ "rejected" \in ghost => plan.seq >= 2
  /\ run.pc = "submitting" \/ "sent" \in ghost => Accepted
  /\ run.pc \in {"hedging", "unwinding"} => "sent" \in ghost
  /\ run.pc = "reporting" /\ run.then = "hedge" => "sent" \in ghost
  /\ run.pc = "reporting" /\ run.then = "submit" /\ run.slot # 0 =>
       (ingest[run.slot].pc \in Answering => Accepted)
  /\ run.pc \in {"none", "preflight", "submitting"} => "sent" \notin ghost
  /\ run.pc = "reporting" /\ run.then = "submit" => "sent" \notin ghost

\* A run that will not trade any more: it has ended, or the plan was closed
\* before it began.
Doomed == "rejected" \in ghost \/ RunEnded

Halting == halted \/ \E i \in Ingests : ingest[i].pc = "halting"

Intervention ==
  /\ plan.status = "manual_intervention_required" => Halting
  /\ route.pc = "receipt" /\ route.next.status = "manual_intervention_required" => Halting

Activity ==
  /\ cancel.pc = "idle" /\ request \in {"sent", "accepted"} /\ ~Doomed => plan.status \in Active
  /\ cancel.pc = "idle" /\ ~Doomed => plan.status \in Active \cup {"none"}
  /\ cancel.pc = "idle" /\ route.pc = "receipt" /\ ~Doomed => route.next.status \in Active
  /\ cancel.pc = "idle" /\ cron = "stopping" => Doomed
  /\ cron = "stopped" => cancel.pc # "idle"

\* What the worker knows of its exposure, while it knows everything.
Knows(fills) == exposure = fills[1] - fills[2]
Stored == plan.seq >= 3 /\ (plan.seq = 3 => plan.fills = run.fills)

\* A final report says what is open, by itself or with the plan it finds.
Truthful(r) ==
  \/ "blind" \in ghost
  \/ r.known /\ exposure = r.fills[1] - r.fills[2] + r.repair
  \/ ~r.known /\ r.seq <= 3 /\ exposure = 0
  \/ ~r.known /\ plan.seq >= 3 /\ (plan.seq = 3 => Knows(plan.fills))

Flat == "blind" \in ghost \/ (exposure = 0 /\ Doomed)

Exposure ==
  /\ "sent" \notin ghost => exposure = 0
  /\ "blind" \notin ghost =>
       /\ run.pc \in {"hedging", "unwinding"} => Knows(run.fills) /\ Stored
       /\ run.pc = "reporting" /\ run.then = "hedge" =>
            /\ Knows(run.fills)
            /\ run.slot # 0 => (ingest[run.slot].pc \in Answering => Stored)
  /\ run.pc = "reporting" /\ run.then = "end" => Truthful(run.report)
  /\ \A i \in Ingests :
       ingest[i].pc = "reading" /\ ingest[i].report.phase \in Final => Truthful(ingest[i].report)

Closing ==
  /\ plan.status \in Closed => Flat
  /\ route.pc = "receipt" /\ route.next.status \in Closed => Flat
  /\ \A i \in Ingests : ingest[i].pc = "writing" /\ ingest[i].next.status \in Closed => Flat

CrossVenueInv ==
  /\ CrossVenueTypeOK /\ Beginnings /\ Writers /\ RunNumbers /\ Functions
  /\ Rejection /\ Intervention /\ Activity /\ Exposure /\ Closing

-----------------------------------------------------------------------------
(* Types.                                                                  *)

\* Records of the model that are built from nothing have their types.
LEMMA BuiltTypes ==
  /\ Nothing \in Amounts /\ NoPlan \in Plan /\ 0 \in -Notional..Notional
  /\ \A seq \in Nat, phase \in {"accepted", "legs_open", "hedging", "complete", "failed"} :
       /\ report(seq, phase) \in Report
       /\ \A fills \in Amounts : reportFills(seq, phase, fills) \in Report
  /\ \A pc \in {"idle", "reading", "objecting", "halting", "yes", "no", "done"} : Fresh(pc) \in Writer
  /\ NoRun \in Run /\ Over \in Run
<1>1. Nothing \in Amounts /\ 0 \in -Notional..Notional
  BY CrossVenueAssumption DEF Nothing, Amounts
<1>2. NoPlan \in Plan
  BY <1>1 DEF NoPlan, Plan
<1>3. ASSUME NEW seq \in Nat, NEW phase \in {"accepted", "legs_open", "hedging", "complete", "failed"}
      PROVE  /\ report(seq, phase) \in Report
             /\ \A fills \in Amounts : reportFills(seq, phase, fills) \in Report
  BY <1>1 DEF report, reportFills, Report
<1>4. \A pc \in {"idle", "reading", "objecting", "halting", "yes", "no", "done"} : Fresh(pc) \in Writer
  BY <1>2, <1>3 DEF Fresh, Writer
<1>5. NoRun \in Run /\ Over \in Run
  BY <1>1, <1>3, CrossVenueAssumption DEF NoRun, Over, Run
<1> QED BY <1>1, <1>2, <1>3, <1>4, <1>5

\* A residual is a natural number, zero exactly when nothing is open.
LEMMA ResidualType ==
  ASSUME NEW fills \in Amounts, NEW repair \in -Notional..Notional
  PROVE  /\ residualNotional(fills, repair) \in Nat
         /\ fills[1] \in Int /\ fills[2] \in Int /\ repair \in Int
         /\ residualNotional(fills, repair) = 0 <=> fills[1] - fills[2] + repair = 0
<1>1. fills[1] \in Int /\ fills[2] \in Int /\ repair \in Int
  BY CrossVenueAssumption DEF Amounts, Legs
<1> QED BY <1>1 DEF residualNotional, Abs

\* What a report does to a plan, whatever its numbers: the fills and the
\* repair it takes over, and the statuses it can lead to.
LEMMA ApplyFacts ==
  ASSUME NEW p \in Plan, NEW r \in Report
  PROVE  LET n == applyCrossVenueWorkerReport(p, r) IN
         /\ n \in Plan /\ n.seq = r.seq
         /\ n.fills = IF r.known THEN r.fills ELSE p.fills
         /\ n.repair = IF r.repair = 0 THEN p.repair ELSE r.repair
         /\ n.status \in Active \/ r.phase \in Final
         /\ n.status \in Closed => n.fills[1] - n.fills[2] + n.repair = 0 /\ r.phase \in Final
         /\ n.status = "manual_intervention_required" =>
              r.over \/ n.fills[1] - n.fills[2] + n.repair # 0
<1> DEFINE fills == IF r.known THEN r.fills ELSE p.fills
           repair == IF r.repair = 0 THEN p.repair ELSE r.repair
           n == applyCrossVenueWorkerReport(p, r)
<1>1. fills \in Amounts /\ repair \in -Notional..Notional
  BY DEF Plan, Report
<1>2. /\ residualNotional(fills, repair) \in Nat
      /\ residualNotional(fills, repair) = 0 <=> fills[1] - fills[2] + repair = 0
  BY <1>1, ResidualType
<1>3. n.fills = fills /\ n.repair = repair /\ n.seq = r.seq
  BY DEF applyCrossVenueWorkerReport
<1>4. n = [status |-> n.status, fills |-> fills, repair |-> repair, seq |-> r.seq]
  BY DEF applyCrossVenueWorkerReport
<1> DEFINE residual == residualNotional(fills, repair)
           human == r.over \/ residual > MaxUnhedged \/ (r.phase = "failed" /\ residual > 0)
           goal == /\ n \in Plan
                   /\ n.status \in Active \/ r.phase \in Final
                   /\ n.status \in Closed => fills[1] - fills[2] + repair = 0 /\ r.phase \in Final
                   /\ n.status = "manual_intervention_required" =>
                        r.over \/ fills[1] - fills[2] + repair # 0
<1>5. ASSUME human PROVE goal
  <2>1. n.status = "manual_intervention_required"
    BY <1>5 DEF applyCrossVenueWorkerReport
  <2> HIDE DEF n, fills, repair
  <2> QED BY <1>1, <1>2, <1>3, <1>4, <1>5, <2>1, CrossVenueAssumption
          DEF Plan, Report, Terminal, Active, Closed
<1>6. ASSUME ~human PROVE goal
  <2>1. n.status = IF r.phase \in {"failed", "hedging"} THEN r.phase
             ELSE IF residual > 0
                  THEN IF \E l \in Legs : fills[l] = 0 THEN "unhedged" ELSE "partially_hedged"
             ELSE IF r.phase = "complete" /\ repair # 0 THEN "hedged"
             ELSE IF r.phase = "complete" /\ \A l \in Legs : fills[l] > 0 THEN "both_filled"
             ELSE "legs_open"
    BY <1>6 DEF applyCrossVenueWorkerReport
  <2> HIDE DEF n, fills, repair
  <2> QED BY <1>1, <1>2, <1>3, <1>4, <1>6, <2>1, CrossVenueAssumption
          DEF Plan, Report, Terminal, Active, Closed, Final
<1>7. goal
  BY <1>5, <1>6
<1> QED BY <1>3, <1>7

\* The plan that a cancellation leaves is a plan.
LEMMA CancellationType ==
  ASSUME NEW p \in Plan
  PROVE  /\ requestCrossVenueCancellation(p) \in Plan
         /\ requestCrossVenueCancellation(p).fills = p.fills
         /\ requestCrossVenueCancellation(p).repair = p.repair
         /\ requestCrossVenueCancellation(p).seq = p.seq
         /\ p.status \notin Terminal =>
              requestCrossVenueCancellation(p).status \in {"unwinding", "cancelled"}
BY DEF requestCrossVenueCancellation, Plan, Terminal, Active

\* A writer that has read the plan has its type.
LEMMA ReadType ==
  ASSUME CrossVenueTypeOK, NEW w \in Writer, NEW n \in Plan,
         NEW pc \in {"failing", "receipt", "cancelling", "writing"}
  PROVE  /\ Read(w, pc, n) \in Writer
         /\ Read(w, pc, n).pc = pc /\ Read(w, pc, n).base = plan.seq /\ Read(w, pc, n).next = n
         /\ Read(w, pc, n).report = w.report
BY DEF Read, Writer, CrossVenueTypeOK, Plan

\* The POST route keeps the types.
LEMMA RouteTyped ==
  ASSUME CrossVenueTypeOK, Route, UNCHANGED cron
  PROVE  CrossVenueTypeOK'
<1>0. plan \in Plan /\ route \in Writer
  BY DEF CrossVenueTypeOK
<1>1. \A pc \in {"stored", "marked", "accepted", "calling", "answered", "refused"} :
        [route EXCEPT !.pc = pc] \in Writer
  BY <1>0 DEF Writer
<1>2. \A st \in {"planned", "submitting"} : [plan EXCEPT !.status = st] \in Plan
  BY <1>0 DEF Plan, Active
<1>3. CASE createStoredCrossVenueExecution \/ markSubmitting
  BY <1>1, <1>2, <1>3 DEF createStoredCrossVenueExecution, markSubmitting, RouteStep, RouteOnly,
     CrossVenueTypeOK
<1>4. CASE AcceptPlan
  <2>1. applyCrossVenueWorkerReport(plan, reportFills(1, "accepted", Nothing)) \in Plan
    BY <1>0, BuiltTypes, ApplyFacts
  <2> QED BY <1>1, <1>4, <2>1 DEF AcceptPlan, RouteStep, RouteOnly, CrossVenueTypeOK
<1>5. CASE submitCrossVenueExecution \/ WorkerAnswered \/ WorkerUnavailable
  BY <1>1, <1>5 DEF submitCrossVenueExecution, WorkerAnswered, WorkerUnavailable, RouteStep, RouteOnly,
     CrossVenueTypeOK, planVars
<1>6. CASE FailRead
  <2>1. applyCrossVenueWorkerReport(plan, report(2, "failed")) \in Plan
    BY <1>0, BuiltTypes, ApplyFacts
  <2>2. route' \in Writer
    BY <1>0, <1>6, <2>1, BuiltTypes, ReadType DEF FailRead
  <2> QED BY <1>6, <2>2 DEF FailRead, RouteOnly, CrossVenueTypeOK, planVars
<1>7. CASE FailWrite \/ ReceiptWrite
  <2>1. plan' \in Plan /\ route' \in Writer
    BY <1>0, <1>7, BuiltTypes DEF FailWrite, ReceiptWrite, mutate, Writer
  <2> QED BY <1>7, <2>1 DEF FailWrite, ReceiptWrite, RouteOnly, CrossVenueTypeOK, Ghosts
<1>8. CASE ReceiptRead
  <2>1. route' \in Writer
    BY <1>0, <1>8, ReadType DEF ReceiptRead
  <2> QED BY <1>8, <2>1 DEF ReceiptRead, RouteOnly, CrossVenueTypeOK, planVars
<1> QED BY <1>3, <1>4, <1>5, <1>6, <1>7, <1>8 DEF Route

\* The cancel route keeps the types.
LEMMA CancelTyped ==
  ASSUME CrossVenueTypeOK, Cancel, UNCHANGED cron
  PROVE  CrossVenueTypeOK'
<1>0. plan \in Plan /\ cancel \in Writer
  BY DEF CrossVenueTypeOK
<1>1. CASE cancelCrossVenueExecution
  <2>1. cancel' \in Writer
    BY <1>0, <1>1, CancellationType, ReadType DEF cancelCrossVenueExecution
  <2> QED BY <1>1, <2>1 DEF cancelCrossVenueExecution, CancelOnly, CrossVenueTypeOK
<1>2. CASE CancelWrite
  <2>1. plan' \in Plan /\ cancel' \in Writer
    BY <1>0, <1>2, BuiltTypes DEF CancelWrite, mutate, Writer
  <2> QED BY <1>2, <2>1 DEF CancelWrite, CancelOnly, CrossVenueTypeOK
<1> QED BY <1>1, <1>2 DEF Cancel

\* The reconciliation route keeps the types.
LEMMA IngestTyped ==
  ASSUME CrossVenueTypeOK, Ingest, UNCHANGED cron
  PROVE  CrossVenueTypeOK'
<1>0. plan \in Plan /\ ingest \in [Ingests -> Writer]
  BY DEF CrossVenueTypeOK
<1>1. \A i \in Ingests, a \in {"yes", "no"} : Fresh(Heard(i, a)) \in Writer
  BY BuiltTypes DEF Heard
<1>2. ASSUME NEW i \in Ingests, IngestRead(i) PROVE CrossVenueTypeOK'
  <2>1. ingest[i] \in Writer /\ ingest[i].report \in Report
    BY <1>0 DEF Writer
  <2>2. applyCrossVenueWorkerReport(plan, ingest[i].report) \in Plan
    BY <1>0, <2>1, ApplyFacts
  <2>3. ingest' \in [Ingests -> Writer]
    BY <1>0, <1>2, <2>1, <2>2, BuiltTypes, ReadType DEF IngestRead, Set
  <2> QED BY <1>2, <2>3 DEF IngestRead, IngestOnly, CrossVenueTypeOK, planVars
<1>3. ASSUME NEW i \in Ingests, IngestWrite(i) PROVE CrossVenueTypeOK'
  <2>1. plan' \in Plan
    BY <1>0, <1>3 DEF IngestWrite, mutate, Writer
  <2>2. ingest' \in [Ingests -> Writer]
    BY <1>0, <1>1, <1>3, BuiltTypes DEF IngestWrite, Set
  <2> QED BY <1>3, <2>1, <2>2 DEF IngestWrite, IngestOnly, CrossVenueTypeOK
<1>4. ASSUME NEW i \in Ingests, haltConsumerCircuit(i) PROVE CrossVenueTypeOK'
  <2>1. ingest' \in [Ingests -> Writer]
    BY <1>0, <1>1, <1>4 DEF haltConsumerCircuit, Set
  <2> QED BY <1>4, <2>1 DEF haltConsumerCircuit, IngestOnly, CrossVenueTypeOK
<1> QED BY <1>2, <1>3, <1>4 DEF Ingest

\* A report that the run hands to its callback keeps the run typed.
LEMMA PersistType ==
  ASSUME CrossVenueTypeOK, NEW r \in Report, NEW then \in {"submit", "hedge", "end"},
         persistAndReport(r, then)
  PROVE  /\ run' \in Run
         /\ run'.pc = "reporting" /\ run'.seq = r.seq /\ run'.report = r /\ run'.then = then
         /\ run'.fills = (IF then = "hedge" THEN r.fills ELSE Nothing)
         /\ run'.tries = 0 /\ run'.slot = 0
<1>1. run \in Run
  BY DEF CrossVenueTypeOK
<1>2. r.seq \in Nat /\ r.fills \in Amounts /\ Nothing \in Amounts
  BY BuiltTypes DEF Report
<1>3. 0 \in 0..MaxTries /\ 0 \in 0..NIngests
  BY CrossVenueAssumption
<1> QED BY <1>1, <1>2, <1>3 DEF persistAndReport, Run

\* The reports of the run, with their types and columns.
LEMMA NextType ==
  ASSUME CrossVenueTypeOK, NEW fills \in Amounts,
         NEW phase \in {"accepted", "legs_open", "hedging", "complete", "failed"}
  PROVE  /\ Next(phase) \in Report /\ NextFills(phase, fills) \in Report
         /\ Next(phase).seq = run.seq + 1 /\ NextFills(phase, fills).seq = run.seq + 1
         /\ Next(phase).phase = phase /\ NextFills(phase, fills).phase = phase
         /\ ~Next(phase).known /\ NextFills(phase, fills).known
         /\ Next(phase).fills = Nothing /\ NextFills(phase, fills).fills = fills
         /\ Next(phase).repair = 0 /\ NextFills(phase, fills).repair = 0
<1>1. run.seq + 1 \in Nat
  BY DEF CrossVenueTypeOK, Run
<1> QED BY <1>1, BuiltTypes DEF Next, NextFills, report, reportFills, Report

\* A repair lies between nothing and the whole residual.
LEMMA RepairType ==
  ASSUME CrossVenueTypeOK, NEW fill \in Repairs
  PROVE  fill \in -Notional..Notional /\ run.fills \in Amounts
<1>1. run.fills \in Amounts /\ run.fills[1] \in 0..Notional /\ run.fills[2] \in 0..Notional
  BY DEF CrossVenueTypeOK, Run, Amounts, Legs
<1>2. run.fills[1] \in 0..Notional /\ run.fills[2] \in 0..Notional /\ Notional \in Nat
  BY <1>1, CrossVenueAssumption
<1> QED BY <1>1, <1>2 DEF Repairs

\* The report that ends a repair, with its columns.
LEMMA FinalReportFacts ==
  ASSUME CrossVenueTypeOK, NEW fill \in Repairs, NEW over \in BOOLEAN, FinalReport(fill, over)
  PROVE  /\ run' \in Run
         /\ run'.pc = "reporting" /\ run'.seq = run.seq + 1 /\ run'.then = "end"
         /\ run'.slot = 0 /\ run'.tries = 0
         /\ run'.report.seq = run.seq + 1 /\ run'.report.known
         /\ run'.report.fills = run.fills /\ run'.report.repair = fill
         /\ run'.report.phase \in Final
<1> DEFINE phase == IF residualNotional(run.fills, fill) = 0 THEN "complete" ELSE "failed"
           r == [NextFills(phase, run.fills) EXCEPT !.repair = fill, !.over = over]
<1>1. fill \in -Notional..Notional /\ run.fills \in Amounts
  BY RepairType
<1>2. /\ phase \in {"complete", "failed"}
      /\ NextFills(phase, run.fills) \in Report
      /\ NextFills(phase, run.fills).seq = run.seq + 1 /\ NextFills(phase, run.fills).known
      /\ NextFills(phase, run.fills).fills = run.fills
      /\ NextFills(phase, run.fills).phase = phase
  BY <1>1, NextType
<1>3. persistAndReport(r, "end")
  BY DEF FinalReport
<1> HIDE DEF phase
<1>4. /\ r \in Report /\ r.seq = run.seq + 1 /\ r.known /\ r.fills = run.fills
      /\ r.repair = fill /\ r.phase = phase
  BY <1>1, <1>2 DEF Report
<1> HIDE DEF r
<1> QED BY <1>2, <1>3, <1>4, PersistType DEF Final

\* The report of a failure, with its columns.
LEMMA ReportFailureFacts ==
  ASSUME CrossVenueTypeOK, ReportFailure
  PROVE  /\ run' \in Run
         /\ run'.pc = "reporting" /\ run'.seq = run.seq + 1 /\ run'.then = "end"
         /\ run'.slot = 0 /\ run'.tries = 0
         /\ run'.report.seq = run.seq + 1 /\ ~run'.report.known
         /\ run'.report.fills = Nothing /\ run'.report.repair = 0
         /\ run'.report.phase = "failed"
BY BuiltTypes, NextType, PersistType DEF ReportFailure

\* A report that carries fills, with its columns.
LEMMA ReportFillsFacts ==
  ASSUME CrossVenueTypeOK, NEW fills \in Amounts, NEW then \in {"submit", "hedge", "end"},
         NEW phase \in {"legs_open", "hedging", "complete", "failed"},
         persistAndReport(NextFills(phase, fills), then)
  PROVE  /\ run' \in Run
         /\ run'.pc = "reporting" /\ run'.seq = run.seq + 1 /\ run'.then = then
         /\ run'.slot = 0 /\ run'.tries = 0
         /\ run'.fills = (IF then = "hedge" THEN fills ELSE Nothing)
         /\ run'.report.seq = run.seq + 1 /\ run'.report.known
         /\ run'.report.fills = fills /\ run'.report.repair = 0
         /\ run'.report.phase = phase
BY NextType, PersistType

\* The outcomes of the submission of the legs, one by one.
LEMMA SubmitOutcomes ==
  ASSUME CrossVenueTypeOK, SubmitLegs
  PROVE  \E fills, seen \in Amounts :
           /\ exposure' = fills[1] - fills[2]
           /\ "sent" \in ghost' /\ ghost \subseteq ghost' /\ ghost' \subseteq ghost \cup {"sent", "blind"}
           /\ seen # fills => "blind" \in ghost'
           /\ \/ ReportFailure /\ "blind" \in ghost'
              \/ persistAndReport(NextFills("complete", seen), "end")
              \/ persistAndReport(NextFills("failed", seen), "end")
              \/ persistAndReport(NextFills("hedging", seen), "hedge")
<1>1. PICK fills \in Amounts, heard \in SUBSET Legs, late \in BOOLEAN :
       LET seen == [l \in Legs |-> IF l \in heard THEN fills[l] ELSE 0]
           residual == residualNotional(seen, 0)
       IN /\ exposure' = fills[1] - fills[2]
          /\ ghost' = ghost \cup {"sent"} \cup
                      (IF late \/ seen # fills THEN {"blind"} ELSE {})
          /\ CASE late -> ReportFailure
               [] ~late /\ residual = 0 /\ seen # Nothing
                    -> persistAndReport(NextFills("complete", seen), "end")
               [] ~late /\ seen = Nothing
                    -> persistAndReport(NextFills("failed", seen), "end")
               [] OTHER
                    -> persistAndReport(NextFills("hedging", seen), "hedge")
  BY DEF SubmitLegs
<1> DEFINE seen == [l \in Legs |-> IF l \in heard THEN fills[l] ELSE 0]
<1>2. seen \in Amounts
  BY CrossVenueAssumption DEF Amounts
<1>3. \/ ReportFailure /\ "blind" \in ghost'
      \/ persistAndReport(NextFills("complete", seen), "end")
      \/ persistAndReport(NextFills("failed", seen), "end")
      \/ persistAndReport(NextFills("hedging", seen), "hedge")
  <2>1. CASE late
    BY <1>1, <2>1
  <2>2. CASE ~late
    BY <1>1, <2>2
  <2> QED BY <2>1, <2>2
<1>4. /\ exposure' = fills[1] - fills[2]
      /\ "sent" \in ghost' /\ ghost \subseteq ghost' /\ ghost' \subseteq ghost \cup {"sent", "blind"}
      /\ seen # fills => "blind" \in ghost'
  BY <1>1
<1> HIDE DEF seen
<1> QED BY <1>2, <1>3, <1>4

\* The outcomes of a hedge or of an unwind, one by one.
LEMMA RepairOutcomes ==
  ASSUME CrossVenueTypeOK, Hedge \/ Unwind
  PROVE  /\ run.pc \in {"hedging", "unwinding"}
         /\ UNCHANGED <<ingest, request, planVars, route, cancel>>
         /\ \E fill \in Repairs, over \in BOOLEAN :
              /\ exposure' = exposure + fill
              /\ \/ FinalReport(fill, over) /\ ghost' = ghost
                 \/ /\ ghost' = IF fill # 0 THEN ghost \cup {"blind"} ELSE ghost
                    /\ \/ ReportFailure
                       \/ run' = [run EXCEPT !.pc = "unwinding"]
<1>1. CASE Hedge
  BY <1>1 DEF Hedge, WorkerOnly
<1>2. CASE Unwind
  BY <1>2 DEF Unwind, WorkerOnly
<1> QED BY <1>1, <1>2

\* The worker keeps the types.
LEMMA WorkerTyped ==
  ASSUME CrossVenueTypeOK, Worker, UNCHANGED cron
  PROVE  CrossVenueTypeOK'
<1>0. run \in Run /\ ingest \in [Ingests -> Writer] /\ exposure \in Int /\ ghost \subseteq Ghosts
  BY DEF CrossVenueTypeOK
<1>1. CASE coordinatorSubmit
  <2>1. [NoRun EXCEPT !.pc = "preflight"] \in Run
    BY BuiltTypes DEF Run
  <2> QED BY <1>1, <2>1 DEF coordinatorSubmit, WorkerOnly, planVars, CrossVenueTypeOK
<1>2. CASE Preflight
  <2>1. run' \in Run
    BY <1>2, BuiltTypes, ReportFailureFacts, ReportFillsFacts DEF Preflight
  <2> QED BY <1>2, <2>1 DEF Preflight, WorkerOnly, planVars, CrossVenueTypeOK
<1>3. CASE SubmitLegs
  <2>1. run' \in Run /\ exposure' \in Int /\ ghost' \subseteq Ghosts
    <3>1. PICK fills \in Amounts, seen \in Amounts :
           /\ exposure' = fills[1] - fills[2]
           /\ ghost' \subseteq ghost \cup {"sent", "blind"}
           /\ \/ ReportFailure
              \/ persistAndReport(NextFills("complete", seen), "end")
              \/ persistAndReport(NextFills("failed", seen), "end")
              \/ persistAndReport(NextFills("hedging", seen), "hedge")
      BY <1>3, SubmitOutcomes
    <3>2. run' \in Run
      BY <3>1, ReportFailureFacts, ReportFillsFacts
    <3>3. fills[1] \in Int /\ fills[2] \in Int
      BY CrossVenueAssumption DEF Amounts, Legs
    <3> QED BY <1>0, <3>1, <3>2, <3>3 DEF Ghosts
  <2> QED BY <1>3, <2>1 DEF SubmitLegs, WorkerOnly, planVars, CrossVenueTypeOK
<1>4. CASE Hedge \/ Unwind
  <2>1. PICK fill \in Repairs, over \in BOOLEAN :
          /\ exposure' = exposure + fill
          /\ \/ FinalReport(fill, over) /\ ghost' = ghost
             \/ /\ ghost' = IF fill # 0 THEN ghost \cup {"blind"} ELSE ghost
                /\ \/ ReportFailure
                   \/ run' = [run EXCEPT !.pc = "unwinding"]
    BY <1>4, RepairOutcomes
  <2>2. run' \in Run
    <3>1. [run EXCEPT !.pc = "unwinding"] \in Run
      BY <1>0 DEF Run
    <3> QED BY <2>1, <3>1, ReportFailureFacts, FinalReportFacts
  <2>3. exposure' \in Int /\ ghost' \subseteq Ghosts
    <3>1. fill \in Int
      BY RepairType
    <3> QED BY <1>0, <2>1, <3>1 DEF Ghosts
  <2> QED BY <1>4, <2>2, <2>3, RepairOutcomes DEF planVars, CrossVenueTypeOK
<1>5. CASE Callback
  <2>1. /\ run.tries + 1 \in 0..MaxTries
        /\ \A i \in Ingests : i \in 0..NIngests
    <3>1. run.tries \in 0..MaxTries /\ MaxTries \in Nat /\ run.tries < MaxTries
      BY <1>0, <1>5, CrossVenueAssumption DEF Callback, Run
    <3> QED BY <3>1, CrossVenueAssumption DEF Ingests
  <2>2. run' \in Run
    BY <1>0, <1>5, <2>1 DEF Callback, Run
  <2>3. run.report \in Report
    BY <1>0 DEF Run
  <2>4. [Fresh("reading") EXCEPT !.report = run.report] \in Writer
    BY <2>3, BuiltTypes DEF Writer
  <2>5. ingest' \in [Ingests -> Writer]
    BY <1>0, <1>5, <2>4 DEF Callback, Set
  <2> QED BY <1>5, <2>2, <2>5 DEF Callback, WorkerOnly, planVars, CrossVenueTypeOK
<1>6. CASE CallbackSucceeds
  <2>1. \A pc \in {"submitting", "hedging"} : Resume(pc) \in Run
    <3>1. NoRun.report \in Report /\ 0 \in 0..MaxTries /\ 0 \in 0..NIngests
      BY BuiltTypes, CrossVenueAssumption DEF Run
    <3> QED BY <1>0, <3>1 DEF Resume, Run
  <2>2. run.then \in {"submit", "hedge", "end"}
    BY <1>0 DEF Run
  <2>3. run' \in Run
    BY <1>6, <2>1, <2>2, BuiltTypes DEF CallbackSucceeds
  <2>4. ingest' \in [Ingests -> Writer]
    BY <1>0, <1>6, BuiltTypes DEF CallbackSucceeds, Set
  <2> QED BY <1>6, <2>3, <2>4 DEF CallbackSucceeds, WorkerOnly, planVars, CrossVenueTypeOK
<1>7. CASE CallbackRetries
  <2>1. run' \in Run
    BY <1>0, <1>7, CrossVenueAssumption DEF CallbackRetries, Run
  <2>2. ingest' \in [Ingests -> Writer]
    BY <1>0, <1>7, BuiltTypes DEF CallbackRetries
  <2> QED BY <1>7, <2>1, <2>2 DEF CallbackRetries, WorkerOnly, planVars, CrossVenueTypeOK
<1>8. CASE CallbackFails
  <2>1. run' \in Run
    BY <1>8, BuiltTypes, ReportFailureFacts DEF CallbackFails
  <2> QED BY <1>8, <2>1 DEF CallbackFails, WorkerOnly, planVars, CrossVenueTypeOK, Ghosts
<1> QED BY <1>1, <1>2, <1>3, <1>4, <1>5, <1>6, <1>7, <1>8 DEF Worker

\* Every step of the execution keeps the types.
LEMMA CrossVenueStepTyped ==
  ASSUME CrossVenueTypeOK, [CrossVenueNext]_crossVars
  PROVE  CrossVenueTypeOK'
<1>1. CASE Cron
  BY <1>1, BuiltTypes DEF Cron, IdleCheck, IdleStopDeclined, stopIdlePhalaPrivateAgent, planVars, webVars,
     CronStates, CrossVenueTypeOK
<1>2. CASE UNCHANGED crossVars
  BY <1>2 DEF crossVars, planVars, webVars, CrossVenueTypeOK
<1> QED BY <1>1, <1>2, RouteTyped, CancelTyped, IngestTyped, WorkerTyped DEF CrossVenueNext

\* The first state is typed.
LEMMA CrossVenueInitTyped ==
  ASSUME Init
  PROVE  CrossVenueTypeOK
<1>1. ingest \in [Ingests -> Writer] /\ route \in Writer /\ cancel \in Writer
  BY BuiltTypes DEF Init
<1>2. plan \in Plan /\ run \in Run /\ exposure \in Int /\ ghost \subseteq Ghosts
  BY BuiltTypes DEF Init
<1> QED BY <1>1, <1>2 DEF Init, CrossVenueTypeOK, CronStates

-----------------------------------------------------------------------------
(* Facts the steps share.                                                  *)

\* A report that is not objected to keeps the reports there are, and numbers
\* the plan it leads to.
LEMMA AppliedKeeps ==
  ASSUME CrossVenueTypeOK, PlanOK(plan), NEW r \in Report, ~Objection(plan, r),
         r.seq <= 2 => r.fills = Nothing, r.repair # 0 => r.seq = 4
  PROVE  LET n == applyCrossVenueWorkerReport(plan, r) IN
         /\ PlanOK(n) /\ plan.seq < n.seq
         /\ \A l \in Legs : n.fills[l] >= plan.fills[l]
<1> DEFINE n == applyCrossVenueWorkerReport(plan, r)
<1>1. plan \in Plan /\ plan.seq \in Nat /\ r.seq \in Nat /\ plan.repair \in Int /\ r.repair \in Int
  BY CrossVenueAssumption DEF CrossVenueTypeOK, Plan, Report
<1>2. /\ n.seq = r.seq
      /\ n.fills = IF r.known THEN r.fills ELSE plan.fills
      /\ n.repair = IF r.repair = 0 THEN plan.repair ELSE r.repair
  BY <1>1, ApplyFacts
<1>3. r.seq > plan.seq /\ (r.known => \A l \in Legs : ~(r.fills[l] < plan.fills[l]))
  BY <1>1 DEF Objection
<1>4. \A l \in Legs : plan.fills[l] \in Int /\ r.fills[l] \in Int
  BY <1>1, CrossVenueAssumption DEF Plan, Report, Amounts
<1> HIDE DEF n
<1>5. \A l \in Legs : n.fills[l] >= plan.fills[l]
  BY <1>2, <1>3, <1>4
<1>6. PlanOK(n) /\ plan.seq < n.seq
  BY <1>1, <1>2, <1>3 DEF PlanOK
<1> QED BY <1>5, <1>6 DEF n

\* mutate: the plan only grows, and what the other writers have computed
\* still keeps its reports: either the sequence has moved, and they will not
\* write, or the write left sequence and fills as they were.
LEMMA WriteKeeps ==
  ASSUME CrossVenueTypeOK, PlanOK(plan), NEW w \in Writer, w.pc \in Mutating,
         KeepsReports(plan, w), mutate(w)
  PROVE  /\ PlanOK(plan') /\ plan' \in Plan /\ plan'.seq >= plan.seq
         /\ \A l \in Legs : plan'.fills[l] >= plan.fills[l]
         /\ plan'.seq = plan.seq => plan'.fills = plan.fills
         /\ \A x \in Writer : KeepsReports(plan, x) => KeepsReports(plan', x)
<1>1. plan \in Plan /\ w.next \in Plan /\ w.base \in Nat
  BY DEF CrossVenueTypeOK, Writer
<1>2. \A x \in Plan : x.seq \in Nat /\ x.repair \in Int /\ \A l \in Legs : x.fills[l] \in Int
  BY CrossVenueAssumption DEF Plan, Amounts
<1>3. CASE ~Unmoved(w)
  <2>1. plan' = plan
    BY <1>3 DEF mutate
  <2> QED BY <1>1, <1>2, <2>1
<1>4. CASE Unmoved(w)
  <2>1. /\ plan' = w.next /\ plan.seq = w.base
        /\ w.next.seq >= plan.seq /\ PlanOK(w.next)
        /\ \A l \in Legs : w.next.fills[l] >= plan.fills[l]
        /\ w.next.seq = plan.seq => w.next.fills = plan.fills
    BY <1>1, <1>2, <1>4 DEF mutate, Unmoved, KeepsReports
  <2>2. ASSUME NEW x \in Writer, KeepsReports(plan, x) PROVE KeepsReports(plan', x)
    <3>1. x.base \in Nat /\ x.next.seq \in Nat
      BY <1>2 DEF Writer
    <3> QED BY <1>1, <1>2, <2>1, <2>2, <3>1 DEF KeepsReports
  <2> QED BY <1>1, <2>1, <2>2
<1> QED BY <1>3, <1>4

\* The slot a run waits for is one of the functions.
LEMMA SlotType ==
  ASSUME CrossVenueTypeOK
  PROVE  0 \notin Ingests /\ (run.slot # 0 => run.slot \in Ingests)
BY CrossVenueAssumption DEF CrossVenueTypeOK, Run, Ingests

-----------------------------------------------------------------------------
(* The steps of the POST route.                                            *)

\* The first steps: nobody else has the plan yet.
LEMMA OpeningSteps ==
  ASSUME CrossVenueInv, UNCHANGED cron,
         createStoredCrossVenueExecution \/ markSubmitting \/ AcceptPlan
           \/ submitCrossVenueExecution
  PROVE  CrossVenueInv'
<1>0. CrossVenueTypeOK /\ CrossVenueTypeOK'
  BY RouteTyped DEF CrossVenueInv, Route
<1>1. /\ request = "none" /\ PlanOK(plan) /\ plan.seq \in Nat
      /\ run.pc = "none" /\ cancel.pc = "idle"
      /\ \A i \in Ingests : ingest[i].pc = "idle"
      /\ UNCHANGED <<cancel, ingest, run, exposure, ghost, halted, cron>>
  BY <1>0 DEF CrossVenueInv, Beginnings, Writers, createStoredCrossVenueExecution, markSubmitting,
     AcceptPlan, submitCrossVenueExecution, RouteStep, RouteOnly, planVars, CrossVenueTypeOK, Plan
<1>2. /\ plan'.seq \in Nat /\ PlanOK(plan)' /\ plan'.seq >= plan.seq
      /\ plan'.status \notin Closed \cup {"manual_intervention_required"}
           \/ (submitCrossVenueExecution /\ plan' = plan)
      /\ route'.pc \in {"stored", "marked"} => plan'.seq = 0
      /\ route'.pc = "accepted" => plan'.status = "legs_open"
      /\ route'.pc = "calling" => plan'.status = "legs_open"
      /\ plan'.status \in {"planned", "submitting", "legs_open"}
      /\ route'.pc \in {"stored", "marked", "accepted", "calling"}
      /\ request' = IF route'.pc = "calling" THEN "sent" ELSE "none"
  <2>1. CASE createStoredCrossVenueExecution \/ markSubmitting
    BY <1>0, <1>1, <2>1 DEF createStoredCrossVenueExecution, markSubmitting, RouteStep,
       CrossVenueTypeOK, Plan, Writer, Closed, PlanOK, CrossVenueInv, Beginnings
  <2>2. CASE AcceptPlan
    <3> DEFINE r == reportFills(1, "accepted", Nothing)
               n == applyCrossVenueWorkerReport(plan, r)
    <3>1. /\ r \in Report /\ r.known /\ r.fills = Nothing /\ r.repair = 0 /\ r.seq = 1
          /\ r.phase = "accepted" /\ ~r.over
      BY BuiltTypes DEF reportFills, report, Report
    <3>2. plan.seq = 0 /\ plan.fills = Nothing /\ plan.repair = 0 /\ plan \in Plan
      BY <1>0, <1>1, <2>2 DEF CrossVenueInv, Beginnings, AcceptPlan, RouteStep, PlanOK, CrossVenueTypeOK
    <3>3. residualNotional(Nothing, 0) = 0 /\ ~(0 > MaxUnhedged)
      BY CrossVenueAssumption DEF residualNotional, Abs, Nothing, Legs
    <3>4. n = [status |-> "legs_open", fills |-> Nothing, repair |-> 0, seq |-> 1]
      BY <3>1, <3>2, <3>3 DEF applyCrossVenueWorkerReport
    <3>5. plan' = n
      BY <2>2 DEF AcceptPlan
    <3> QED BY <1>0, <1>1, <2>2, <3>2, <3>4, <3>5
            DEF AcceptPlan, RouteStep, CrossVenueTypeOK, Writer, Closed, PlanOK
  <2>3. CASE submitCrossVenueExecution
    BY <1>0, <1>1, <2>3 DEF submitCrossVenueExecution, RouteStep, planVars, CrossVenueTypeOK, Writer,
       CrossVenueInv, Beginnings
  <2> QED BY <2>1, <2>2, <2>3
<1>3. Beginnings'
  BY <1>1, <1>2 DEF Beginnings
<1>4. Writers'
  BY <1>1, <1>2 DEF Writers, KeepsReports, Mutating
<1>5. RunNumbers' /\ Functions'
  BY <1>1 DEF CrossVenueInv, RunNumbers, Functions, RunEnded
<1>6. Rejection'
  BY <1>0, <1>1, <1>2 DEF CrossVenueInv, Rejection, Accepted, Answering
<1>7. Intervention'
  BY <1>1, <1>2 DEF CrossVenueInv, Intervention, Halting, planVars
<1>8. Activity'
  BY <1>1, <1>2 DEF CrossVenueInv, Activity, Active, Doomed, RunEnded
<1>9. Exposure' /\ Closing'
  BY <1>1, <1>2 DEF CrossVenueInv, Exposure, Closing, Flat, Doomed, RunEnded
<1> QED BY <1>0, <1>3, <1>4, <1>5, <1>6, <1>7, <1>8, <1>9 DEF CrossVenueInv

\* The answer of the worker, or its absence, only moves the route.
LEMMA AnswerSteps ==
  ASSUME CrossVenueInv, UNCHANGED cron, WorkerAnswered \/ WorkerUnavailable
  PROVE  CrossVenueInv'
<1>0. CrossVenueTypeOK /\ CrossVenueTypeOK'
  BY RouteTyped DEF CrossVenueInv, Route
<1>1. /\ UNCHANGED <<plan, halted, request, ghost, cancel, ingest, run, exposure, cron>>
      /\ route'.pc \in {"answered", "refused"}
      /\ route'.pc = "answered" => request = "accepted"
  BY <1>0 DEF WorkerAnswered, WorkerUnavailable, RouteStep, RouteOnly, planVars, CrossVenueTypeOK, Writer
<1>2. Beginnings' /\ Writers'
  BY <1>1 DEF CrossVenueInv, Beginnings, Writers, KeepsReports, Mutating
<1>3. RunNumbers' /\ Functions' /\ Rejection'
  BY <1>1 DEF CrossVenueInv, RunNumbers, Functions, RunEnded, Rejection, Accepted
<1>4. Intervention' /\ Activity'
  BY <1>1 DEF CrossVenueInv, Intervention, Halting, Activity, Doomed, RunEnded
<1>5. Exposure' /\ Closing'
  BY <1>1 DEF CrossVenueInv, Exposure, Knows, Stored, Truthful, Closing, Flat, Doomed, RunEnded
<1> QED BY <1>0, <1>2, <1>3, <1>4, <1>5 DEF CrossVenueInv

\* The route reads the plan to close it as failed: only a plan that has no
\* report of the worker yet.
LEMMA FailReadStep ==
  ASSUME CrossVenueInv, UNCHANGED cron, FailRead
  PROVE  CrossVenueInv'
<1>0. CrossVenueTypeOK /\ CrossVenueTypeOK'
  BY RouteTyped DEF CrossVenueInv, Route
<1>1. /\ UNCHANGED <<plan, halted, request, ghost, cancel, ingest, run, exposure, cron>>
      /\ PlanOK(plan) /\ plan \in Plan /\ plan.seq \in Nat /\ route \in Writer
  BY <1>0 DEF CrossVenueInv, Writers, FailRead, RouteOnly, planVars, CrossVenueTypeOK, Plan
<1> DEFINE r == report(2, "failed")
           n == applyCrossVenueWorkerReport(plan, r)
<1>2. /\ route'.pc = "done" \/ route'.pc = "failing"
      /\ KeepsReports(plan, route')
      /\ route'.pc = "failing" =>
           route'.base <= 1 /\ route'.next.seq = 2 /\ route'.next.status = "failed"
  <2>1. CASE Objection(plan, r)
    BY <2>1 DEF FailRead, Fresh, KeepsReports, Mutating
  <2>2. CASE ~Objection(plan, r)
    <3>1. /\ r \in Report /\ ~r.known /\ r.fills = Nothing /\ r.repair = 0 /\ r.seq = 2
          /\ r.phase = "failed" /\ ~r.over
      BY BuiltTypes DEF report, Report
    <3>2. /\ PlanOK(n) /\ plan.seq < n.seq /\ n \in Plan /\ n.seq = 2
          /\ \A l \in Legs : n.fills[l] >= plan.fills[l]
      BY <1>0, <1>1, <2>2, <3>1, AppliedKeeps, ApplyFacts
    <3>3. plan.seq <= 1 /\ plan.fills = Nothing /\ plan.repair = 0
      BY <1>1, <3>2 DEF PlanOK
    <3>4. residualNotional(Nothing, 0) = 0 /\ ~(0 > MaxUnhedged)
      BY CrossVenueAssumption DEF residualNotional, Abs, Nothing, Legs
    <3>5. n.status = "failed"
      BY <3>1, <3>3, <3>4 DEF applyCrossVenueWorkerReport
    <3>6. route' = Read(route, "failing", n)
      BY <2>2 DEF FailRead
    <3> HIDE DEF n
    <3>7. route'.pc = "failing" /\ route'.base = plan.seq /\ route'.next = n
      BY <1>0, <1>1, <3>2, <3>6, ReadType
    <3> QED BY <1>1, <3>2, <3>3, <3>5, <3>7 DEF KeepsReports
  <2> QED BY <2>1, <2>2
<1> HIDE DEF r, n
<1>3. Beginnings' /\ Writers'
  BY <1>1, <1>2 DEF CrossVenueInv, Beginnings, Writers
<1>4. RunNumbers' /\ Functions' /\ Rejection'
  BY <1>1 DEF CrossVenueInv, RunNumbers, Functions, RunEnded, Rejection, Accepted
<1>5. Intervention' /\ Activity'
  BY <1>1, <1>2 DEF CrossVenueInv, Intervention, Halting, Activity, Doomed, RunEnded
<1>6. Exposure' /\ Closing'
  BY <1>1, <1>2 DEF CrossVenueInv, Exposure, Knows, Stored, Truthful, Closing, Flat, Doomed, RunEnded
<1> QED BY <1>0, <1>3, <1>4, <1>5, <1>6 DEF CrossVenueInv

\* The receipt marking reads the plan as it is.
LEMMA ReceiptReadStep ==
  ASSUME CrossVenueInv, UNCHANGED cron, ReceiptRead
  PROVE  CrossVenueInv'
<1>0. CrossVenueTypeOK /\ CrossVenueTypeOK'
  BY RouteTyped DEF CrossVenueInv, Route
<1>1. /\ UNCHANGED <<plan, halted, request, ghost, cancel, ingest, run, exposure, cron>>
      /\ PlanOK(plan) /\ plan \in Plan /\ plan.seq \in Nat /\ route \in Writer
      /\ \A l \in Legs : plan.fills[l] \in Int
  BY <1>0, CrossVenueAssumption
     DEF CrossVenueInv, Writers, ReceiptRead, RouteOnly, planVars, CrossVenueTypeOK, Plan, Amounts
<1>2. /\ route.pc = "answered" /\ request = "accepted"
      /\ route'.pc = "receipt" /\ route'.base = plan.seq /\ route'.next = plan
  BY <1>0, <1>1, ReadType DEF ReceiptRead, CrossVenueInv, Beginnings
<1>3. Beginnings' /\ Writers'
  BY <1>1, <1>2 DEF CrossVenueInv, Beginnings, Writers, KeepsReports
<1>4. RunNumbers' /\ Functions' /\ Rejection'
  BY <1>1 DEF CrossVenueInv, RunNumbers, Functions, RunEnded, Rejection, Accepted
<1>5. Intervention' /\ Activity'
  BY <1>1, <1>2 DEF CrossVenueInv, Intervention, Halting, Activity, Doomed, RunEnded
<1>6. Exposure' /\ Closing'
  BY <1>1, <1>2 DEF CrossVenueInv, Exposure, Knows, Stored, Truthful, Closing, Flat, Doomed, RunEnded
<1> QED BY <1>0, <1>3, <1>4, <1>5, <1>6 DEF CrossVenueInv

\* Closing the plan as failed dooms the run: the worker has not sent the
\* legs, because it waits for its own report 2.
LEMMA FailWriteStep ==
  ASSUME CrossVenueInv, UNCHANGED cron, FailWrite
  PROVE  CrossVenueInv'
<1>0. CrossVenueTypeOK /\ CrossVenueTypeOK'
  BY RouteTyped DEF CrossVenueInv, Route
<1>1. /\ UNCHANGED <<halted, request, cancel, ingest, run, exposure, cron>>
      /\ route.pc = "failing" /\ route'.pc = "done" /\ mutate(route)
      /\ PlanOK(plan) /\ KeepsReports(plan, route) /\ route \in Writer /\ cancel \in Writer
      /\ \A i \in Ingests : ingest[i] \in Writer
      /\ plan.seq \in Nat /\ plan'.seq \in Nat /\ route.base \in Nat
      /\ route.base <= 1 /\ route.next.seq = 2 /\ route.next.status = "failed"
  BY <1>0 DEF CrossVenueInv, Writers, FailWrite, RouteOnly, Fresh, CrossVenueTypeOK, Plan, Writer
<1>2. /\ PlanOK(plan') /\ plan'.seq >= plan.seq
      /\ plan'.seq = plan.seq => plan'.fills = plan.fills
      /\ \A x \in Writer : KeepsReports(plan, x) => KeepsReports(plan', x)
  BY <1>0, <1>1, WriteKeeps DEF Mutating
<1>3. \/ plan' = plan /\ ghost' = ghost
      \/ /\ plan.seq <= 1 /\ plan'.seq = 2 /\ plan'.status = "failed"
         /\ ghost' = ghost \cup {"rejected"}
  BY <1>1 DEF FailWrite, mutate, Unmoved
<1>4. Beginnings'
  BY <1>1, <1>2 DEF CrossVenueInv, Beginnings
<1>5. Writers'
  BY <1>1, <1>2 DEF CrossVenueInv, Writers, KeepsReports, Mutating
<1>6. RunNumbers' /\ Functions'
  BY <1>1 DEF CrossVenueInv, RunNumbers, Functions, RunEnded
<1>7. Rejection'
  BY <1>1, <1>3 DEF CrossVenueInv, Rejection, Accepted
<1>8. Intervention'
  BY <1>1, <1>3 DEF CrossVenueInv, Intervention, Halting
<1>9. Activity'
  BY <1>1, <1>3 DEF CrossVenueInv, Activity, Doomed, RunEnded
<1>10. Exposure'
  <2>1. \A fills : Knows(fills)' <=> Knows(fills)
    BY <1>1 DEF Knows
  <2>2. "blind" \in ghost' <=> "blind" \in ghost
    BY <1>3
  <2> QED BY <1>1, <1>2, <1>3, <2>1, <2>2 DEF CrossVenueInv, Exposure, Knows, Stored, Truthful
<1>11. Closing'
  <2>1. "sent" \in ghost => plan' = plan /\ ghost' = ghost
    BY <1>1, <1>3 DEF CrossVenueInv, Rejection, Accepted
  <2> QED BY <1>1, <1>3, <2>1 DEF CrossVenueInv, Exposure, Closing, Flat, Doomed, RunEnded
<1> QED BY <1>0, <1>4, <1>5, <1>6, <1>7, <1>8, <1>9, <1>10, <1>11 DEF CrossVenueInv

\* The receipt marking writes back a plan that is still the one it read, up
\* to a cancel.
LEMMA ReceiptWriteStep ==
  ASSUME CrossVenueInv, UNCHANGED cron, ReceiptWrite
  PROVE  CrossVenueInv'
<1>0. CrossVenueTypeOK /\ CrossVenueTypeOK'
  BY RouteTyped DEF CrossVenueInv, Route
<1>1. /\ UNCHANGED <<halted, request, ghost, cancel, ingest, run, exposure, cron>>
      /\ route.pc = "receipt" /\ route'.pc = "done" /\ mutate(route)
      /\ PlanOK(plan) /\ KeepsReports(plan, route) /\ route \in Writer /\ cancel \in Writer
      /\ \A i \in Ingests : ingest[i] \in Writer
      /\ plan.seq \in Nat /\ plan'.seq \in Nat
  BY <1>0 DEF CrossVenueInv, Writers, ReceiptWrite, RouteOnly, Fresh, CrossVenueTypeOK, Plan, Writer
<1>2. /\ PlanOK(plan') /\ plan'.seq >= plan.seq
      /\ plan'.seq = plan.seq => plan'.fills = plan.fills
      /\ \A x \in Writer : KeepsReports(plan, x) => KeepsReports(plan', x)
  BY <1>0, <1>1, WriteKeeps DEF Mutating
<1>3. plan' = plan \/ plan' = route.next
  BY <1>1 DEF mutate
<1>4. Beginnings'
  BY <1>1, <1>2 DEF CrossVenueInv, Beginnings
<1>5. Writers'
  BY <1>1, <1>2 DEF CrossVenueInv, Writers, KeepsReports, Mutating
<1>6. RunNumbers' /\ Functions'
  BY <1>1 DEF CrossVenueInv, RunNumbers, Functions, RunEnded
<1>7. Rejection'
  BY <1>1, <1>2 DEF CrossVenueInv, Rejection, Accepted
<1>8. Intervention'
  BY <1>1, <1>3 DEF CrossVenueInv, Intervention, Halting
<1>9. Activity'
  BY <1>1, <1>3 DEF CrossVenueInv, Activity, Doomed, RunEnded
<1>10. Exposure'
  BY <1>1, <1>2 DEF CrossVenueInv, Exposure, Knows, Stored, Truthful
<1>11. Closing'
  BY <1>1, <1>3 DEF CrossVenueInv, Closing, Flat, Doomed, RunEnded
<1> QED BY <1>0, <1>4, <1>5, <1>6, <1>7, <1>8, <1>9, <1>10, <1>11 DEF CrossVenueInv

-----------------------------------------------------------------------------
(* The steps of the cancel route.                                          *)

\* The cancel route computes what it will write.
LEMMA CancelReadStep ==
  ASSUME CrossVenueInv, UNCHANGED cron, cancelCrossVenueExecution
  PROVE  CrossVenueInv'
<1>0. CrossVenueTypeOK /\ CrossVenueTypeOK'
  BY CancelTyped DEF CrossVenueInv, Cancel
<1>1. /\ UNCHANGED <<plan, halted, route, request, ghost, ingest, run, exposure, cron>>
      /\ request = "accepted" /\ plan.status \notin Terminal
      /\ PlanOK(plan) /\ plan \in Plan /\ cancel \in Writer /\ plan.seq \in Nat
      /\ \A l \in Legs : plan.fills[l] \in Int
  BY <1>0, CrossVenueAssumption
     DEF CrossVenueInv, Writers, cancelCrossVenueExecution, CancelOnly, CrossVenueTypeOK, Plan, Amounts
<1> DEFINE n == requestCrossVenueCancellation(plan)
<1>2. /\ n \in Plan /\ n.fills = plan.fills /\ n.repair = plan.repair /\ n.seq = plan.seq
      /\ n.status \in {"unwinding", "cancelled"}
  BY <1>1, CancellationType
<1>3. cancel' = Read(cancel, "cancelling", n)
  BY DEF cancelCrossVenueExecution
<1> HIDE DEF n
<1>4. cancel'.pc = "cancelling" /\ cancel'.base = plan.seq /\ cancel'.next = n
  BY <1>0, <1>1, <1>2, <1>3, ReadType
<1>5. Beginnings'
  BY <1>1, <1>4 DEF CrossVenueInv, Beginnings
<1>6. Writers'
  BY <1>1, <1>2, <1>4 DEF CrossVenueInv, Writers, KeepsReports, PlanOK
<1>7. RunNumbers' /\ Functions' /\ Rejection'
  BY <1>1 DEF CrossVenueInv, RunNumbers, Functions, RunEnded, Rejection, Accepted
<1>8. Intervention' /\ Activity'
  BY <1>1, <1>4 DEF CrossVenueInv, Intervention, Halting, Activity, Doomed, RunEnded
<1>9. Exposure' /\ Closing'
  BY <1>1 DEF CrossVenueInv, Exposure, Knows, Stored, Truthful, Closing, Flat, Doomed, RunEnded
<1> QED BY <1>0, <1>5, <1>6, <1>7, <1>8, <1>9 DEF CrossVenueInv

\* The cancel route writes a plan that is unwinding or cancelled, with the
\* reports it had.
LEMMA CancelWriteStep ==
  ASSUME CrossVenueInv, UNCHANGED cron, CancelWrite
  PROVE  CrossVenueInv'
<1>0. CrossVenueTypeOK /\ CrossVenueTypeOK'
  BY CancelTyped DEF CrossVenueInv, Cancel
<1>1. /\ UNCHANGED <<halted, route, request, ghost, ingest, run, exposure, cron>>
      /\ cancel.pc = "cancelling" /\ cancel'.pc = "done" /\ mutate(cancel)
      /\ PlanOK(plan) /\ KeepsReports(plan, cancel) /\ route \in Writer /\ cancel \in Writer
      /\ \A i \in Ingests : ingest[i] \in Writer
      /\ plan.seq \in Nat /\ plan'.seq \in Nat
      /\ cancel.next.status \in {"unwinding", "cancelled"}
  BY <1>0 DEF CrossVenueInv, Writers, CancelWrite, CancelOnly, Fresh, CrossVenueTypeOK, Plan, Writer
<1>2. /\ PlanOK(plan') /\ plan'.seq >= plan.seq
      /\ plan'.seq = plan.seq => plan'.fills = plan.fills
      /\ \A x \in Writer : KeepsReports(plan, x) => KeepsReports(plan', x)
  BY <1>0, <1>1, WriteKeeps DEF Mutating
<1>3. plan' = plan \/ plan'.status \in {"unwinding", "cancelled"}
  BY <1>1 DEF mutate
<1>4. request = "accepted" /\ route.pc \notin {"idle", "stored", "marked", "accepted"}
  BY <1>1 DEF CrossVenueInv, Beginnings
<1>5. Beginnings'
  BY <1>1, <1>4 DEF CrossVenueInv, Beginnings
<1>6. Writers'
  BY <1>1, <1>2 DEF CrossVenueInv, Writers, KeepsReports, Mutating
<1>7. RunNumbers' /\ Functions'
  BY <1>1 DEF CrossVenueInv, RunNumbers, Functions, RunEnded
<1>8. Rejection'
  BY <1>1, <1>2 DEF CrossVenueInv, Rejection, Accepted
<1>9. Intervention' /\ Activity'
  BY <1>1, <1>3 DEF CrossVenueInv, Intervention, Halting, Activity
<1>10. Exposure'
  BY <1>1, <1>2 DEF CrossVenueInv, Exposure, Knows, Stored, Truthful
<1>11. Closing'
  BY <1>1, <1>3 DEF CrossVenueInv, Closing, Closed, Flat, Doomed, RunEnded
<1> QED BY <1>0, <1>5, <1>6, <1>7, <1>8, <1>9, <1>10, <1>11 DEF CrossVenueInv

-----------------------------------------------------------------------------
(* The steps of the reconciliation route.                                  *)

\* While a run waits for a function, something has been accepted.
LEMMA IngestRunning ==
  ASSUME CrossVenueInv, NEW i \in Ingests, ingest[i].pc # "idle"
  PROVE  /\ request = "accepted" /\ run.pc # "none"
         /\ route.pc \notin {"idle", "stored", "marked", "accepted"}
BY DEF CrossVenueInv, Beginnings

\* A function applies its report to the plan it reads: a final report leads
\* to a closed plan only if nothing is open.
LEMMA IngestReadStep ==
  ASSUME CrossVenueInv, UNCHANGED cron, NEW i \in Ingests, IngestRead(i)
  PROVE  CrossVenueInv'
<1>0. CrossVenueTypeOK /\ CrossVenueTypeOK'
  BY IngestTyped DEF CrossVenueInv, Ingest
<1>1. /\ UNCHANGED <<plan, halted, ghost, route, cancel, request, run, exposure, cron>>
      /\ ingest[i].pc = "reading" /\ ingest[i] \in Writer /\ ingest[i].report \in Report
      /\ ingest \in [Ingests -> Writer]
      /\ PlanOK(plan) /\ plan \in Plan /\ plan.seq \in Nat
  BY <1>0 DEF CrossVenueInv, Writers, IngestRead, IngestOnly, planVars, CrossVenueTypeOK, Plan, Writer
<1> DEFINE r == ingest[i].report
           n == applyCrossVenueWorkerReport(plan, r)
<1>2. /\ ReportOK(r) /\ r.seq \in Nat
      /\ r.phase \in Final => RunEnded /\ Truthful(r)
      /\ run.slot = i => r = run.report
  BY <1>0, <1>1, SlotType DEF CrossVenueInv, Functions, Exposure, ReportOK
<1>3. \A j \in Ingests : j # i => ingest'[j] = ingest[j]
  BY <1>1 DEF IngestRead, Set
<1>4. \/ ingest'[i].pc = "objecting"
      \/ /\ ingest'[i].pc = "writing" /\ ingest'[i].base = plan.seq /\ ingest'[i].next = n
         /\ ingest'[i].report = r /\ ~Objection(plan, r)
  <2>1. n \in Plan
    BY <1>1, ApplyFacts
  <2>2. CASE Objection(plan, r)
    BY <1>1, <2>2 DEF IngestRead, Set, Fresh
  <2>3. CASE ~Objection(plan, r)
    <3>1. ingest'[i] = Read(ingest[i], "writing", n)
      BY <1>1, <2>3 DEF IngestRead, Set
    <3> HIDE DEF n
    <3> QED BY <1>0, <1>1, <2>1, <2>3, <3>1, ReadType
  <2> QED BY <2>2, <2>3
<1>5. /\ n \in Plan /\ n.seq = r.seq
      /\ n.fills = IF r.known THEN r.fills ELSE plan.fills
      /\ n.repair = IF r.repair = 0 THEN plan.repair ELSE r.repair
      /\ n.status \in Active \/ r.phase \in Final
      /\ n.status \in Closed => n.fills[1] - n.fills[2] + n.repair = 0 /\ r.phase \in Final
  BY <1>1, ApplyFacts
<1>6. ~Objection(plan, r) =>
        /\ PlanOK(n) /\ plan.seq < n.seq
        /\ \A l \in Legs : n.fills[l] >= plan.fills[l]
  BY <1>0, <1>1, <1>2, AppliedKeeps DEF ReportOK
<1>7. ~Objection(plan, r) /\ n.status \in Closed => Flat
  <2> SUFFICES ASSUME ~Objection(plan, r), n.status \in Closed, "blind" \notin ghost
               PROVE  exposure = 0 /\ RunEnded
    BY DEF Flat, Doomed
  <2>1. RunEnded /\ Truthful(r) /\ n.fills[1] - n.fills[2] + n.repair = 0 /\ plan.seq < r.seq
    BY <1>2, <1>5, <1>6
  <2>2. plan.seq <= 3 /\ plan.repair = 0 /\ r.seq <= 4 /\ (r.seq <= 3 => plan.fills = Nothing)
    BY <1>1, <1>2, <2>1 DEF ReportOK, PlanOK
  <2>3. /\ plan.fills[1] \in Int /\ plan.fills[2] \in Int /\ r.fills[1] \in Int
        /\ r.fills[2] \in Int /\ r.repair \in Int /\ exposure \in Int
        /\ Nothing[1] = 0 /\ Nothing[2] = 0
    BY <1>0, <1>1, CrossVenueAssumption
       DEF Plan, Report, Amounts, Legs, CrossVenueTypeOK, Nothing
  <2>4. CASE r.known
    <3>1. exposure = r.fills[1] - r.fills[2] + r.repair
      BY <2>1, <2>4 DEF Truthful
    <3>2. n.fills = r.fills /\ n.repair = r.repair
      BY <1>5, <2>2, <2>4
    <3> QED BY <2>1, <2>3, <3>1, <3>2
  <2>5. CASE ~r.known
    <3>1. n.fills = plan.fills /\ r.repair = 0 => n.repair = 0
      BY <1>5, <2>2, <2>5
    <3>2. CASE exposure = 0
      BY <2>1, <3>2
    <3>3. CASE exposure # 0
      <4>1. plan.seq = 3 /\ exposure = plan.fills[1] - plan.fills[2]
        BY <1>1, <2>1, <2>2, <2>5, <3>3 DEF Truthful, Knows
      <4>2. n.fills[1] - n.fills[2] + n.repair = exposure + r.repair
        BY <1>5, <2>2, <2>3, <2>5, <4>1
      <4>3. r.repair = 0
        BY <1>2, <2>5 DEF ReportOK
      <4> QED BY <2>1, <2>3, <3>3, <4>2, <4>3
    <3> QED BY <3>2, <3>3
  <2> QED BY <2>4, <2>5
<1> HIDE DEF r, n
<1>8. Beginnings'
  BY <1>1, IngestRunning DEF CrossVenueInv, Beginnings
<1>9. Writers'
  <2>1. KeepsReports(plan, ingest'[i])
    BY <1>1, <1>2, <1>4, <1>5, <1>6 DEF KeepsReports, Mutating
  <2> QED BY <1>1, <1>3, <2>1 DEF CrossVenueInv, Writers
<1>10. RunNumbers'
  BY <1>1 DEF CrossVenueInv, RunNumbers
<1>11. Functions'
  BY <1>0, <1>1, <1>2, <1>3, <1>4, <1>5, <1>6, SlotType DEF CrossVenueInv, Functions, RunEnded
<1>12. Rejection'
  BY <1>0, <1>1, <1>3, <1>4, SlotType DEF CrossVenueInv, Rejection, Accepted, Answering
<1>13. Intervention' /\ Activity'
  BY <1>1, <1>3, <1>4 DEF CrossVenueInv, Intervention, Halting, Activity, Doomed, RunEnded
<1>14. Exposure'
  BY <1>0, <1>1, <1>3, <1>4, SlotType DEF CrossVenueInv, Exposure, Knows, Stored, Truthful, Answering
<1>15. Closing'
  BY <1>1, <1>3, <1>4, <1>7 DEF CrossVenueInv, Closing, Flat, Doomed, RunEnded
<1> QED BY <1>0, <1>8, <1>9, <1>10, <1>11, <1>12, <1>13, <1>14, <1>15 DEF CrossVenueInv

\* A function stores its report, or finds that another one was quicker.
LEMMA IngestWriteStep ==
  ASSUME CrossVenueInv, UNCHANGED cron, NEW i \in Ingests, IngestWrite(i)
  PROVE  CrossVenueInv'
<1>0. CrossVenueTypeOK /\ CrossVenueTypeOK'
  BY IngestTyped DEF CrossVenueInv, Ingest
<1>1. /\ UNCHANGED <<halted, ghost, route, cancel, request, run, exposure, cron>>
      /\ ingest[i].pc = "writing" /\ mutate(ingest[i])
      /\ ingest \in [Ingests -> Writer] /\ route \in Writer /\ cancel \in Writer
      /\ PlanOK(plan) /\ KeepsReports(plan, ingest[i])
      /\ plan.seq \in Nat /\ plan'.seq \in Nat
  BY <1>0 DEF CrossVenueInv, Writers, IngestWrite, IngestOnly, CrossVenueTypeOK, Plan
<1> DEFINE w == ingest[i]
           r == w.report
           n == w.next
<1>2. /\ w \in Writer /\ w.base \in Nat /\ n.seq \in Nat /\ n \in Plan
      /\ ReportOK(r) /\ w.base < n.seq /\ n.seq = r.seq
      /\ r.known => n.fills = r.fills
      /\ n.status \in Active \/ RunEnded
      /\ n.status \in Closed => Flat
      /\ run.slot = i => r = run.report /\ run.pc = "reporting"
  BY <1>0, <1>1, SlotType DEF CrossVenueInv, Functions, Closing, Writer, Plan
<1>3. /\ PlanOK(plan') /\ plan'.seq >= plan.seq
      /\ plan'.seq = plan.seq => plan'.fills = plan.fills
      /\ \A x \in Writer : KeepsReports(plan, x) => KeepsReports(plan', x)
  BY <1>0, <1>1, <1>2, WriteKeeps DEF Mutating
<1>4. /\ \A j \in Ingests : j # i => ingest'[j] = ingest[j]
      /\ ingest'[i].pc \in {"objecting", "halting", "yes", "idle"}
  BY <1>1 DEF IngestWrite, Set, Fresh, Heard
<1>5. \/ plan' = plan /\ ingest'[i].pc = "objecting"
      \/ /\ plan' = n /\ plan.seq < n.seq
         /\ n.status = "manual_intervention_required" => ingest'[i].pc = "halting"
  BY <1>1, <1>2 DEF IngestWrite, mutate, Unmoved, Set, Fresh
<1>6. run.slot = i => ingest'[i].pc \in {"objecting", "halting", "yes"}
  BY <1>1 DEF IngestWrite, Set, Fresh, Heard
<1>7. request = "accepted" /\ route.pc \notin {"idle", "stored", "marked", "accepted"}
  BY <1>1, IngestRunning
<1> HIDE DEF w, r, n
<1>8. Beginnings'
  BY <1>1, <1>7 DEF CrossVenueInv, Beginnings
<1>9. Writers'
  <2>1. KeepsReports(plan', ingest'[i])
    BY <1>4 DEF KeepsReports, Mutating
  <2>2. \A j \in Ingests : KeepsReports(plan', ingest'[j])
    BY <1>1, <1>3, <1>4, <2>1 DEF CrossVenueInv, Writers
  <2> QED BY <1>1, <1>3, <2>2 DEF CrossVenueInv, Writers
<1>10. RunNumbers'
  BY <1>1 DEF CrossVenueInv, RunNumbers
<1>11. Functions'
  BY <1>0, <1>1, <1>4, <1>6, SlotType DEF CrossVenueInv, Functions, RunEnded
<1>12. Rejection'
  <2>1. run.slot = i /\ run.then = "submit" /\ ingest'[i].pc \in Answering => Accepted'
    <3> SUFFICES ASSUME run.slot = i, run.then = "submit", ingest'[i].pc \in Answering
                 PROVE  plan'.seq >= 2 /\ "rejected" \notin ghost
      BY <1>1 DEF Accepted
    <3>1. n.seq = 2 /\ plan' = n /\ plan.seq < 2
      BY <1>2, <1>5 DEF CrossVenueInv, RunNumbers, Answering
    <3> QED BY <1>1, <3>1 DEF CrossVenueInv, Rejection
  <2> QED BY <1>0, <1>1, <1>3, <1>4, <2>1, SlotType DEF CrossVenueInv, Rejection, Accepted
<1>13. Intervention'
  <2>1. Halting => Halting'
    BY <1>1, <1>4 DEF Halting
  <2>2. plan'.status = "manual_intervention_required" => Halting'
    BY <1>1, <1>4, <1>5, <2>1 DEF CrossVenueInv, Intervention, Halting
  <2> QED BY <1>1, <2>1, <2>2 DEF CrossVenueInv, Intervention
<1>14. Activity'
  BY <1>1, <1>2, <1>5 DEF CrossVenueInv, Activity, Doomed, RunEnded
<1>15. Exposure'
  <2>1. run.slot = i /\ run.then = "hedge" /\ ingest'[i].pc \in Answering => Stored'
    <3> SUFFICES ASSUME run.slot = i, run.then = "hedge", ingest'[i].pc \in Answering
                 PROVE  plan'.seq >= 3 /\ plan'.fills = run.fills
      BY <1>1 DEF Stored
    <3> QED BY <1>2, <1>5 DEF CrossVenueInv, RunNumbers, Answering
  <2>2. Stored => Stored'
    BY <1>1, <1>3 DEF Stored
  <2>3. \A x : Truthful(x) => Truthful(x)'
    BY <1>1, <1>3 DEF Truthful, Knows
  <2>4. \A fills : Knows(fills)' <=> Knows(fills)
    BY <1>1 DEF Knows
  <2> QED BY <1>0, <1>1, <1>4, <2>1, <2>2, <2>3, <2>4, SlotType DEF CrossVenueInv, Exposure, Knows, Truthful
<1>16. Closing'
  BY <1>1, <1>2, <1>4, <1>5 DEF CrossVenueInv, Closing, Flat, Doomed, RunEnded
<1> QED BY <1>0, <1>8, <1>9, <1>10, <1>11, <1>12, <1>13, <1>14, <1>15, <1>16 DEF CrossVenueInv

\* The halt of the circuit answers the run, if it still waits.
LEMMA HaltStep ==
  ASSUME CrossVenueInv, UNCHANGED cron, NEW i \in Ingests, haltConsumerCircuit(i)
  PROVE  CrossVenueInv'
<1>0. CrossVenueTypeOK /\ CrossVenueTypeOK'
  BY IngestTyped DEF CrossVenueInv, Ingest
<1>1. /\ UNCHANGED <<plan, ghost, route, cancel, request, run, exposure, cron>>
      /\ halted' /\ ingest[i].pc \in {"objecting", "halting"}
      /\ ingest \in [Ingests -> Writer]
  BY <1>0 DEF haltConsumerCircuit, IngestOnly, CrossVenueTypeOK
<1>2. /\ \A j \in Ingests : j # i => ingest'[j] = ingest[j]
      /\ ingest'[i].pc \in {"idle", "yes", "no"}
      /\ run.slot = i => ingest'[i].pc \in {"yes", "no"}
      /\ ingest'[i].pc = "yes" => ingest[i].pc = "halting"
  BY <1>1 DEF haltConsumerCircuit, Set, Fresh, Heard
<1>3. request = "accepted" /\ route.pc \notin {"idle", "stored", "marked", "accepted"}
  BY <1>1, IngestRunning
<1>4. Beginnings' /\ Writers'
  BY <1>1, <1>2, <1>3 DEF CrossVenueInv, Beginnings, Writers, KeepsReports, Mutating
<1>5. RunNumbers' /\ Functions'
  BY <1>0, <1>1, <1>2, SlotType DEF CrossVenueInv, RunNumbers, Functions, RunEnded
<1>6. Rejection'
  BY <1>0, <1>1, <1>2, SlotType DEF CrossVenueInv, Rejection, Accepted, Answering
<1>7. Intervention' /\ Activity'
  BY <1>1 DEF CrossVenueInv, Intervention, Halting, Activity, Doomed, RunEnded
<1>8. Exposure'
  BY <1>0, <1>1, <1>2, SlotType DEF CrossVenueInv, Exposure, Knows, Stored, Truthful, Answering
<1>9. Closing'
  BY <1>1, <1>2 DEF CrossVenueInv, Closing, Flat, Doomed, RunEnded
<1> QED BY <1>0, <1>4, <1>5, <1>6, <1>7, <1>8, <1>9 DEF CrossVenueInv

-----------------------------------------------------------------------------
(* The steps of the worker.                                                *)

\* The worker accepts the plan or refuses it.
LEMMA CoordinatorStep ==
  ASSUME CrossVenueInv, UNCHANGED cron, coordinatorSubmit
  PROVE  CrossVenueInv'
<1>0. CrossVenueTypeOK /\ CrossVenueTypeOK'
  BY WorkerTyped DEF CrossVenueInv, Worker
<1>1. /\ UNCHANGED <<plan, halted, ghost, route, cancel, ingest, exposure, cron>>
      /\ request = "sent" /\ run.pc = "none" /\ cancel.pc = "idle"
      /\ \A i \in Ingests : ingest[i].pc = "idle"
      /\ route.pc \notin {"idle", "stored", "marked", "accepted", "answered", "receipt"}
  BY DEF coordinatorSubmit, WorkerOnly, planVars, CrossVenueInv, Beginnings
<1>2. \/ request' = "accepted" /\ run'.pc = "preflight" /\ run'.seq = 1 /\ run'.slot = 0
      \/ request' = "refused" /\ run' = run
  BY <1>0 DEF coordinatorSubmit, NoRun
<1>3. Beginnings' /\ Writers'
  BY <1>1, <1>2 DEF CrossVenueInv, Beginnings, Writers
<1>4. RunNumbers' /\ Functions'
  BY <1>1, <1>2 DEF CrossVenueInv, RunNumbers, Functions
<1>5. Rejection'
  BY <1>1, <1>2 DEF CrossVenueInv, Rejection, Accepted
<1>6. Intervention' /\ Activity'
  BY <1>1, <1>2 DEF CrossVenueInv, Intervention, Halting, Activity, Doomed, RunEnded
<1>7. Exposure' /\ Closing'
  BY <1>1, <1>2 DEF CrossVenueInv, Exposure, Closing, Flat, Doomed, RunEnded
<1> QED BY <1>0, <1>3, <1>4, <1>5, <1>6, <1>7 DEF CrossVenueInv

\* A run that goes on to report or to trade: what concerns the web side is
\* as it was, and what is closed stays flat.
LEMMA RunMoves ==
  ASSUME CrossVenueInv, CrossVenueTypeOK', UNCHANGED <<planVars, route, cancel, cron, request, ingest>>,
         run.pc \notin {"none", "over"}, run'.pc # "none", ~RunEnded,
         run'.slot = 0, ghost \subseteq ghost', ghost' \subseteq ghost \cup {"sent", "blind"},
         exposure' = exposure \/ "rejected" \notin ghost
  PROVE  /\ Beginnings' /\ Writers' /\ Functions' /\ Intervention' /\ Activity' /\ Closing'
         /\ \A i \in Ingests :
              ingest[i].pc \in {"reading", "writing"} => ingest[i].report.phase \notin Final
<1>1. UNCHANGED <<plan, halted, route, cancel, cron, request, ingest>>
  BY DEF planVars
<1>2. \A i \in Ingests :
        ingest[i].pc \in {"reading", "writing"} => ingest[i].report.phase \notin Final
  BY DEF CrossVenueInv, Functions
<1>3. Beginnings' /\ Writers'
  BY <1>1 DEF CrossVenueInv, Beginnings, Writers
<1>4. Functions'
  BY <1>1, <1>2 DEF CrossVenueInv, Functions
<1>5. Intervention' /\ Activity'
  BY <1>1 DEF CrossVenueInv, Intervention, Halting, Activity, Doomed
<1>6. Flat => Flat'
  BY DEF Flat, Doomed
<1>7. Closing'
  BY <1>1, <1>6 DEF CrossVenueInv, Closing
<1> QED BY <1>2, <1>3, <1>4, <1>5, <1>7

\* The checks before the legs are submitted.
LEMMA PreflightStep ==
  ASSUME CrossVenueInv, UNCHANGED cron, Preflight
  PROVE  CrossVenueInv'
<1>0. CrossVenueTypeOK /\ CrossVenueTypeOK'
  BY WorkerTyped DEF CrossVenueInv, Worker
<1>1. /\ UNCHANGED <<planVars, route, cancel, cron, request, ingest, exposure, ghost>>
      /\ run.pc = "preflight" /\ run.seq = 1 /\ "sent" \notin ghost /\ exposure = 0
  BY DEF Preflight, WorkerOnly, CrossVenueInv, RunNumbers, Rejection, Exposure
<1>2. /\ run'.pc = "reporting" /\ run'.seq = 2 /\ run'.slot = 0
      /\ run'.report.seq = 2 /\ run'.report.fills = Nothing /\ run'.report.repair = 0
      /\ \/ run'.then = "submit" /\ run'.report.known /\ run'.report.phase = "legs_open"
         \/ run'.then = "end" /\ ~run'.report.known /\ run'.report.phase = "failed"
  BY <1>0, <1>1, BuiltTypes, ReportFailureFacts, ReportFillsFacts DEF Preflight
<1>3. /\ Beginnings' /\ Writers' /\ Functions' /\ Intervention' /\ Activity' /\ Closing'
      /\ \A i \in Ingests :
           ingest[i].pc \in {"reading", "writing"} => ingest[i].report.phase \notin Final
  BY <1>0, <1>1, <1>2, RunMoves DEF RunEnded
<1>4. RunNumbers'
  BY <1>2 DEF RunNumbers, ReportOK, Final
<1>5. Rejection'
  BY <1>1, <1>2 DEF CrossVenueInv, Rejection, Accepted, planVars
<1>6. Exposure'
  BY <1>1, <1>2, <1>3 DEF Exposure, Truthful
<1> QED BY <1>0, <1>3, <1>4, <1>5, <1>6 DEF CrossVenueInv

\* The legs are submitted: what the worker sees of their fills is what the
\* venues filled, or the run is blind.
LEMMA SubmitStep ==
  ASSUME CrossVenueInv, UNCHANGED cron, SubmitLegs
  PROVE  CrossVenueInv'
<1>0. CrossVenueTypeOK /\ CrossVenueTypeOK'
  BY WorkerTyped DEF CrossVenueInv, Worker
<1>1. /\ UNCHANGED <<planVars, route, cancel, cron, request, ingest>>
      /\ run.pc = "submitting" /\ run.seq = 2 /\ plan.seq >= 2 /\ "rejected" \notin ghost
  BY DEF SubmitLegs, WorkerOnly, CrossVenueInv, RunNumbers, Rejection, Accepted
<1>2. PICK fills \in Amounts, seen \in Amounts :
        /\ exposure' = fills[1] - fills[2]
        /\ "sent" \in ghost' /\ ghost \subseteq ghost' /\ ghost' \subseteq ghost \cup {"sent", "blind"}
        /\ seen # fills => "blind" \in ghost'
        /\ \/ ReportFailure /\ "blind" \in ghost'
           \/ persistAndReport(NextFills("complete", seen), "end")
           \/ persistAndReport(NextFills("failed", seen), "end")
           \/ persistAndReport(NextFills("hedging", seen), "hedge")
  BY <1>0, SubmitOutcomes
<1>3. /\ run'.pc = "reporting" /\ run'.seq = 3 /\ run'.slot = 0
      /\ run'.report.seq = 3 /\ run'.report.repair = 0
      /\ \/ /\ run'.then = "end" /\ ~run'.report.known /\ run'.report.phase = "failed"
            /\ "blind" \in ghost'
         \/ /\ run'.report.known /\ run'.report.fills = seen
            /\ \/ run'.then = "end" /\ run'.report.phase \in Final
               \/ run'.then = "hedge" /\ run'.report.phase = "hedging" /\ run'.fills = seen
  BY <1>0, <1>1, <1>2, ReportFailureFacts, ReportFillsFacts DEF Final
<1>4. /\ Beginnings' /\ Writers' /\ Functions' /\ Intervention' /\ Activity' /\ Closing'
      /\ \A i \in Ingests :
           ingest[i].pc \in {"reading", "writing"} => ingest[i].report.phase \notin Final
  BY <1>0, <1>1, <1>2, <1>3, RunMoves DEF RunEnded
<1>5. RunNumbers'
  BY <1>3 DEF RunNumbers, ReportOK, Final
<1>6. Rejection'
  BY <1>1, <1>2, <1>3 DEF CrossVenueInv, Rejection, Accepted, planVars
<1>7. Exposure'
  <2>1. "blind" \in ghost' \/ exposure' = seen[1] - seen[2]
    BY <1>2
  <2>2. seen[1] \in Int /\ seen[2] \in Int
    BY CrossVenueAssumption DEF Amounts, Legs
  <2>3. run'.pc = "reporting" /\ run'.then = "end" => Truthful(run.report)'
    BY <1>3, <2>1, <2>2 DEF Truthful
  <2> QED BY <1>1, <1>2, <1>3, <1>4, <2>1, <2>3 DEF Exposure, Knows
<1> QED BY <1>0, <1>4, <1>5, <1>6, <1>7 DEF CrossVenueInv

\* A hedge or an unwind of the residual.
LEMMA RepairStep ==
  ASSUME CrossVenueInv, UNCHANGED cron, Hedge \/ Unwind
  PROVE  CrossVenueInv'
<1>0. CrossVenueTypeOK /\ CrossVenueTypeOK'
  BY WorkerTyped DEF CrossVenueInv, Worker
<1>1. /\ UNCHANGED <<planVars, route, cancel, cron, request, ingest>>
      /\ run.pc \in {"hedging", "unwinding"} /\ run.seq = 3 /\ run.slot = 0
      /\ "sent" \in ghost /\ plan.seq >= 2 /\ "rejected" \notin ghost
      /\ "blind" \in ghost \/ (Knows(run.fills) /\ Stored)
      /\ run \in Run /\ exposure \in Int
  BY <1>0, RepairOutcomes
     DEF CrossVenueInv, RunNumbers, Functions, Rejection, Accepted, Exposure, CrossVenueTypeOK
<1>2. PICK fill \in Repairs, over \in BOOLEAN :
        /\ exposure' = exposure + fill
        /\ \/ FinalReport(fill, over) /\ ghost' = ghost
           \/ /\ ghost' = IF fill # 0 THEN ghost \cup {"blind"} ELSE ghost
              /\ \/ ReportFailure
                 \/ run' = [run EXCEPT !.pc = "unwinding"]
  BY <1>0, RepairOutcomes
<1>3. /\ fill \in Int /\ run.fills[1] \in Int /\ run.fills[2] \in Int
      /\ run.fills \in Amounts
  BY <1>0, RepairType, CrossVenueAssumption DEF Amounts, Legs
<1>4. ghost \subseteq ghost' /\ ghost' \subseteq ghost \cup {"sent", "blind"}
  BY <1>2
<1>5. \/ /\ run'.pc = "reporting" /\ run'.seq = 4 /\ run'.slot = 0 /\ run'.then = "end"
         /\ run'.report.seq = 4 /\ run'.report.known /\ run'.report.phase \in Final
         /\ run'.report.fills = run.fills /\ run'.report.repair = fill /\ ghost' = ghost
      \/ /\ run'.pc = "reporting" /\ run'.seq = 4 /\ run'.slot = 0 /\ run'.then = "end"
         /\ run'.report.seq = 4 /\ ~run'.report.known /\ run'.report.phase = "failed"
         /\ run'.report.fills = Nothing /\ run'.report.repair = 0
         /\ fill # 0 => "blind" \in ghost'
      \/ /\ run'.pc = "unwinding" /\ run'.seq = 3 /\ run'.slot = 0 /\ run'.fills = run.fills
         /\ fill # 0 => "blind" \in ghost'
  <2>1. CASE FinalReport(fill, over) /\ ghost' = ghost
    BY <1>0, <1>1, <2>1, FinalReportFacts
  <2>2. CASE ReportFailure /\ ghost' = IF fill # 0 THEN ghost \cup {"blind"} ELSE ghost
    BY <1>0, <1>1, <2>2, ReportFailureFacts
  <2>3. CASE /\ run' = [run EXCEPT !.pc = "unwinding"]
             /\ ghost' = IF fill # 0 THEN ghost \cup {"blind"} ELSE ghost
    BY <1>1, <2>3 DEF Run
  <2> QED BY <1>2, <2>1, <2>2, <2>3
<1>6. /\ Beginnings' /\ Writers' /\ Functions' /\ Intervention' /\ Activity' /\ Closing'
      /\ \A i \in Ingests :
           ingest[i].pc \in {"reading", "writing"} => ingest[i].report.phase \notin Final
  BY <1>0, <1>1, <1>4, <1>5, RunMoves DEF RunEnded
<1>7. RunNumbers'
  BY <1>5 DEF RunNumbers, ReportOK, Final
<1>8. Rejection'
  BY <1>1, <1>4, <1>5 DEF CrossVenueInv, Rejection, Accepted, planVars
<1>9. Exposure'
  <2>1. plan' = plan
    BY <1>1 DEF planVars
  <2>2. run'.pc = "reporting" => Truthful(run.report)'
    BY <1>1, <1>2, <1>3, <1>4, <1>5, <2>1 DEF Truthful, Knows, Stored
  <2>3. run'.pc = "unwinding" /\ "blind" \notin ghost' => Knows(run.fills)' /\ Stored'
    BY <1>1, <1>2, <1>3, <1>4, <1>5, <2>1 DEF Knows, Stored
  <2> QED BY <1>1, <1>4, <1>5, <1>6, <2>2, <2>3 DEF Exposure
<1> QED BY <1>0, <1>6, <1>7, <1>8, <1>9 DEF CrossVenueInv


\* An attempt of the callback: it reaches a function of its own, or is lost.
LEMMA CallbackStep ==
  ASSUME CrossVenueInv, UNCHANGED cron, Callback
  PROVE  CrossVenueInv'
<1>0. CrossVenueTypeOK /\ CrossVenueTypeOK'
  BY WorkerTyped DEF CrossVenueInv, Worker
<1>1. /\ UNCHANGED <<plan, halted, ghost, route, cancel, cron, request, exposure>>
      /\ run.pc = "reporting" /\ run.slot = 0 /\ run \in Run /\ ingest \in [Ingests -> Writer]
      /\ request = "accepted"
  BY <1>0 DEF Callback, WorkerOnly, planVars, CrossVenueTypeOK, CrossVenueInv, Beginnings
<1>2. /\ run'.pc = run.pc /\ run'.seq = run.seq /\ run'.fills = run.fills
      /\ run'.report = run.report /\ run'.then = run.then
      /\ \/ ingest' = ingest /\ run'.slot = 0
         \/ \E i \in Ingests :
              /\ run'.slot = i /\ ingest[i].pc = "idle"
              /\ \A j \in Ingests : j # i => ingest'[j] = ingest[j]
              /\ ingest'[i].pc = "reading" /\ ingest'[i].report = run.report
  BY <1>1 DEF Callback, Set, Run, Fresh
<1>3. CASE ingest' = ingest /\ run'.slot = 0
  <2>1. Beginnings' /\ Writers' /\ RunNumbers'
    BY <1>1, <1>2, <1>3 DEF CrossVenueInv, Beginnings, Writers, RunNumbers
  <2>2. Functions' /\ Rejection'
    BY <1>1, <1>2, <1>3 DEF CrossVenueInv, Functions, Rejection, RunEnded, Accepted
  <2>3. Intervention' /\ Activity' /\ Closing'
    BY <1>1, <1>2, <1>3 DEF CrossVenueInv, Intervention, Halting, Activity, Closing, Flat, Doomed, RunEnded
  <2>4. Exposure'
    BY <1>1, <1>2, <1>3 DEF CrossVenueInv, Exposure, Knows, Stored, Truthful
  <2> QED BY <1>0, <2>1, <2>2, <2>3, <2>4 DEF CrossVenueInv
<1>4. ASSUME NEW i \in Ingests, run'.slot = i, ingest[i].pc = "idle",
             \A j \in Ingests : j # i => ingest'[j] = ingest[j],
             ingest'[i].pc = "reading", ingest'[i].report = run.report
      PROVE  CrossVenueInv'
  <2>1. Beginnings' /\ RunNumbers'
    BY <1>1, <1>2, <1>4 DEF CrossVenueInv, Beginnings, RunNumbers
  <2>2. Writers'
    BY <1>1, <1>4 DEF CrossVenueInv, Writers, KeepsReports, Mutating
  <2>3. Functions'
    BY <1>1, <1>2, <1>4 DEF CrossVenueInv, Functions, RunNumbers, RunEnded
  <2>4. Rejection'
    BY <1>1, <1>2, <1>4 DEF CrossVenueInv, Rejection, Accepted, Answering
  <2>5. Intervention' /\ Activity'
    BY <1>1, <1>2, <1>4 DEF CrossVenueInv, Intervention, Halting, Activity, Doomed, RunEnded
  <2>6. Exposure'
    BY <1>1, <1>2, <1>4 DEF CrossVenueInv, RunNumbers, Exposure, Knows, Stored, Truthful, Answering
  <2>7. Closing'
    BY <1>1, <1>2, <1>4 DEF CrossVenueInv, Closing, Flat, Doomed, RunEnded
  <2> QED BY <1>0, <2>1, <2>2, <2>3, <2>4, <2>5, <2>6, <2>7 DEF CrossVenueInv
<1> QED BY <1>2, <1>3, <1>4

\* The run hears that its report is stored, and goes on.
LEMMA CallbackSucceedsStep ==
  ASSUME CrossVenueInv, UNCHANGED cron, CallbackSucceeds
  PROVE  CrossVenueInv'
<1>0. CrossVenueTypeOK /\ CrossVenueTypeOK'
  BY WorkerTyped DEF CrossVenueInv, Worker
<1>1. /\ UNCHANGED <<plan, halted, ghost, route, cancel, cron, request, exposure>>
      /\ run.pc = "reporting" /\ run.slot \in Ingests /\ run.slot # 0 /\ ingest[run.slot].pc = "yes"
      /\ run \in Run /\ ingest \in [Ingests -> Writer] /\ request = "accepted"
  BY <1>0, SlotType
     DEF CallbackSucceeds, WorkerOnly, planVars, CrossVenueTypeOK, CrossVenueInv, Beginnings
<1>2. /\ \A j \in Ingests : j # run.slot => ingest'[j] = ingest[j]
      /\ ingest'[run.slot].pc = "idle"
  BY <1>1 DEF CallbackSucceeds, Set, Fresh
<1>3. /\ run'.slot = 0
      /\ \/ run.then = "submit" /\ run'.pc = "submitting" /\ run'.seq = run.seq
         \/ /\ run.then = "hedge" /\ run'.pc = "hedging" /\ run'.seq = run.seq
            /\ run'.fills = run.fills
         \/ run.then = "end" /\ run'.pc = "over"
  <2>1. run.then \in {"submit", "hedge", "end"}
    BY <1>1 DEF Run
  <2> QED BY <1>1, <2>1 DEF CallbackSucceeds, Resume, Run, Over, NoRun
<1>4. RunEnded' <=> RunEnded
  BY <1>1, <1>3 DEF RunEnded
<1>5. Beginnings' /\ RunNumbers'
  BY <1>1, <1>2, <1>3 DEF CrossVenueInv, Beginnings, RunNumbers
<1>6. Writers'
  BY <1>1, <1>2 DEF CrossVenueInv, Writers, KeepsReports, Mutating
<1>7. Functions'
  BY <1>1, <1>2, <1>3, <1>4 DEF CrossVenueInv, Functions
<1>8. Rejection'
  BY <1>1, <1>2, <1>3 DEF CrossVenueInv, Rejection, Accepted, Answering
<1>9. Intervention' /\ Activity'
  BY <1>1, <1>2, <1>4 DEF CrossVenueInv, Intervention, Halting, Activity, Doomed
<1>10. Exposure'
  BY <1>1, <1>2, <1>3 DEF CrossVenueInv, Exposure, Knows, Stored, Truthful, Answering
<1>11. Closing'
  BY <1>1, <1>2, <1>4 DEF CrossVenueInv, Closing, Flat, Doomed
<1> QED BY <1>0, <1>5, <1>6, <1>7, <1>8, <1>9, <1>10, <1>11 DEF CrossVenueInv

\* The run stops waiting for an attempt; the function may still be running.
LEMMA CallbackRetriesStep ==
  ASSUME CrossVenueInv, UNCHANGED cron, CallbackRetries
  PROVE  CrossVenueInv'
<1>0. CrossVenueTypeOK /\ CrossVenueTypeOK'
  BY WorkerTyped DEF CrossVenueInv, Worker
<1>1. /\ UNCHANGED <<plan, halted, ghost, route, cancel, cron, request, exposure>>
      /\ run.pc = "reporting" /\ run.slot \in Ingests
      /\ run \in Run /\ ingest \in [Ingests -> Writer] /\ request = "accepted"
  BY <1>0, SlotType
     DEF CallbackRetries, WorkerOnly, planVars, CrossVenueTypeOK, CrossVenueInv, Beginnings
<1>2. /\ \A j \in Ingests : j # run.slot => ingest'[j] = ingest[j]
      /\ \/ ingest'[run.slot].pc = "idle" /\ ingest[run.slot].pc \in {"yes", "no"}
         \/ ingest'[run.slot] = ingest[run.slot]
  BY <1>1 DEF CallbackRetries, Fresh
<1>3. /\ run'.slot = 0 /\ run'.pc = run.pc /\ run'.seq = run.seq /\ run'.fills = run.fills
      /\ run'.report = run.report /\ run'.then = run.then
  BY <1>1 DEF CallbackRetries, Run
<1>4. RunEnded' <=> RunEnded
  BY <1>3 DEF RunEnded
<1>5. Beginnings' /\ RunNumbers'
  BY <1>1, <1>3 DEF CrossVenueInv, Beginnings, RunNumbers
<1>6. Writers'
  BY <1>1, <1>2 DEF CrossVenueInv, Writers, KeepsReports, Mutating
<1>7. Functions'
  BY <1>1, <1>2, <1>3, <1>4 DEF CrossVenueInv, Functions
<1>8. Rejection'
  BY <1>1, <1>3 DEF CrossVenueInv, Rejection, Accepted
<1>9. Intervention' /\ Activity'
  BY <1>1, <1>2, <1>4 DEF CrossVenueInv, Intervention, Halting, Activity, Doomed
<1>10. Exposure'
  BY <1>1, <1>2, <1>3 DEF CrossVenueInv, Exposure, Knows, Stored, Truthful
<1>11. Closing'
  BY <1>1, <1>2, <1>4 DEF CrossVenueInv, Closing, Flat, Doomed
<1> QED BY <1>0, <1>5, <1>6, <1>7, <1>8, <1>9, <1>10, <1>11 DEF CrossVenueInv

\* The last attempt failed: the run is over, or reports a failure instead.
LEMMA CallbackFailsStep ==
  ASSUME CrossVenueInv, UNCHANGED cron, CallbackFails
  PROVE  CrossVenueInv'
<1>0. CrossVenueTypeOK /\ CrossVenueTypeOK'
  BY WorkerTyped DEF CrossVenueInv, Worker
<1>1. /\ UNCHANGED <<planVars, route, cancel, cron, request, ingest, exposure>>
      /\ run.pc = "reporting" /\ run.slot = 0 /\ run \in Run /\ request = "accepted"
      /\ plan' = plan /\ halted' = halted
  BY <1>0 DEF CallbackFails, WorkerOnly, planVars, CrossVenueTypeOK, CrossVenueInv, Beginnings
<1>2. CASE run.then = "end"
  <2>1. run'.pc = "over" /\ run'.slot = 0 /\ ghost' = ghost
    BY <1>2 DEF CallbackFails, Over, NoRun
  <2>2. RunEnded /\ RunEnded'
    BY <1>1, <1>2, <2>1 DEF RunEnded
  <2>3. Beginnings' /\ RunNumbers' /\ Writers' /\ Functions'
    BY <1>1, <2>1, <2>2 DEF CrossVenueInv, Beginnings, RunNumbers, Writers, Functions
  <2>4. Rejection' /\ Intervention' /\ Activity'
    BY <1>1, <2>1, <2>2 DEF CrossVenueInv, Rejection, Accepted, Intervention, Halting, Activity, Doomed
  <2>5. Exposure' /\ Closing'
    BY <1>1, <2>1, <2>2 DEF CrossVenueInv, Exposure, Truthful, Knows, Closing, Flat, Doomed
  <2> QED BY <1>0, <2>3, <2>4, <2>5 DEF CrossVenueInv
<1>3. CASE run.then # "end"
  <2>1. /\ run.then \in {"submit", "hedge"} /\ ~RunEnded
        /\ run.then = "submit" => run.seq = 2 /\ ghost' = ghost /\ exposure = 0
        /\ run.then = "hedge" => run.seq = 3 /\ "blind" \in ghost'
        /\ ghost \subseteq ghost' /\ ghost' \subseteq ghost \cup {"sent", "blind"}
    BY <1>1, <1>3 DEF CallbackFails, RunEnded, CrossVenueInv, RunNumbers, Rejection, Exposure, Run
  <2>2. /\ run'.pc = "reporting" /\ run'.seq = run.seq + 1 /\ run'.then = "end" /\ run'.slot = 0
        /\ run'.report.seq = run.seq + 1 /\ ~run'.report.known
        /\ run'.report.fills = Nothing /\ run'.report.repair = 0 /\ run'.report.phase = "failed"
    BY <1>0, <1>3, ReportFailureFacts DEF CallbackFails
  <2>3. /\ Beginnings' /\ Writers' /\ Functions' /\ Intervention' /\ Activity' /\ Closing'
        /\ \A i \in Ingests :
             ingest[i].pc \in {"reading", "writing"} => ingest[i].report.phase \notin Final
    BY <1>0, <1>1, <2>1, <2>2, RunMoves
  <2>4. RunNumbers'
    BY <2>1, <2>2 DEF RunNumbers, ReportOK, Final
  <2>5. Rejection'
    BY <1>1, <2>1, <2>2 DEF CrossVenueInv, Rejection, Accepted
  <2>6. Exposure'
    BY <1>1, <2>1, <2>2, <2>3 DEF CrossVenueInv, Exposure, Truthful
  <2> QED BY <1>0, <2>3, <2>4, <2>5, <2>6 DEF CrossVenueInv
<1> QED BY <1>2, <1>3


-----------------------------------------------------------------------------
(* The cron job, and the theorems.                                         *)

\* The idle stop looks at the plans, and stops the worker later or gives up.
LEMMA CronStep ==
  ASSUME CrossVenueInv, Cron
  PROVE  CrossVenueInv'
<1>0. CrossVenueTypeOK /\ CrossVenueTypeOK'
  BY CrossVenueStepTyped DEF CrossVenueInv, CrossVenueNext
<1>1. UNCHANGED <<plan, halted, route, cancel, ingest, request, exposure, ghost>>
  BY DEF Cron, IdleCheck, IdleStopDeclined, stopIdlePhalaPrivateAgent, planVars, webVars
<1>2. CASE UNCHANGED run
  <2>1. /\ cron' # "stopped"
        /\ cron' = "stopping" /\ cancel.pc = "idle" => Doomed
    <3>1. CASE IdleCheck
      BY <3>1 DEF IdleCheck, hasActiveCrossVenueExposure, CrossVenueInv, Activity
    <3>2. CASE IdleStopDeclined
      BY <3>2 DEF IdleStopDeclined
    <3>3. CASE stopIdlePhalaPrivateAgent
      <4>1. run.pc \in {"none", "over"}
        BY <1>2, <3>3 DEF stopIdlePhalaPrivateAgent, Over, NoRun
      <4> QED BY <3>3, <4>1 DEF stopIdlePhalaPrivateAgent, Working
    <3> QED BY <3>1, <3>2, <3>3 DEF Cron
  <2>2. Beginnings' /\ Writers' /\ RunNumbers' /\ Functions' /\ Rejection'
    BY <1>1, <1>2 DEF CrossVenueInv, Beginnings, Writers, RunNumbers, Functions, RunEnded, Rejection,
       Accepted
  <2>3. Intervention' /\ Activity'
    BY <1>1, <1>2, <2>1 DEF CrossVenueInv, Intervention, Halting, Activity, Doomed, RunEnded
  <2>4. Exposure' /\ Closing'
    BY <1>1, <1>2 DEF CrossVenueInv, Exposure, Knows, Stored, Truthful, Closing, Flat, Doomed, RunEnded
  <2> QED BY <1>0, <2>2, <2>3, <2>4 DEF CrossVenueInv
<1>3. CASE stopIdlePhalaPrivateAgent /\ run.pc # "none"
  <2>1. /\ run'.pc = "over" /\ run'.slot = 0 /\ request = "accepted"
        /\ cron' \in {"stopped", "waiting"} /\ (cron' = "stopped" => cron = "stopping" /\ Working)
    BY <1>3 DEF stopIdlePhalaPrivateAgent, CrossVenueInv, Beginnings, Over, NoRun
  <2>2. RunEnded' /\ (Doomed => Doomed') /\ (Flat => Flat')
    BY <1>1, <2>1 DEF RunEnded, Doomed, Flat
  <2>3. Working => ~Doomed
    BY DEF Working, Doomed, RunEnded, CrossVenueInv, Rejection, Accepted
  <2>4. Beginnings' /\ Writers' /\ RunNumbers' /\ Functions' /\ Rejection'
    BY <1>1, <2>1, <2>2 DEF CrossVenueInv, Beginnings, Writers, RunNumbers, Functions, Rejection, Accepted
  <2>5. Intervention' /\ Activity'
    BY <1>1, <2>1, <2>2, <2>3 DEF CrossVenueInv, Intervention, Halting, Activity, Doomed
  <2>6. Exposure' /\ Closing'
    BY <1>1, <2>1, <2>2 DEF CrossVenueInv, Exposure, Knows, Truthful, Closing
  <2> QED BY <1>0, <2>4, <2>5, <2>6 DEF CrossVenueInv
<1>4. UNCHANGED run \/ (stopIdlePhalaPrivateAgent /\ run.pc # "none")
  BY DEF Cron, IdleCheck, IdleStopDeclined, stopIdlePhalaPrivateAgent
<1> QED BY <1>2, <1>3, <1>4

\* The first state satisfies the invariant.
LEMMA CrossVenueInitially ==
  ASSUME Init
  PROVE  CrossVenueInv
<1>0. CrossVenueTypeOK
  BY CrossVenueInitTyped
<1>1. /\ plan = NoPlan /\ ~halted /\ route.pc = "idle" /\ cancel.pc = "idle"
      /\ \A i \in Ingests : ingest[i].pc = "idle"
      /\ request = "none" /\ run.pc = "none" /\ run.slot = 0 /\ cron = "waiting"
      /\ exposure = 0 /\ ghost = {}
  BY DEF Init, Fresh, NoRun
<1>2. plan.seq = 0 /\ plan.fills = Nothing /\ plan.repair = 0 /\ plan.status = "none"
  BY <1>1 DEF NoPlan
<1>3. Beginnings /\ Writers /\ RunNumbers /\ Functions
  BY <1>1, <1>2 DEF Beginnings, Writers, PlanOK, KeepsReports, Mutating, RunNumbers, Functions
<1>4. Rejection /\ Intervention /\ Activity /\ Exposure /\ Closing
  BY <1>1, <1>2 DEF Rejection, Intervention, Activity, Exposure, Closing, Closed
<1> QED BY <1>0, <1>3, <1>4 DEF CrossVenueInv

\* Every step keeps the invariant.
LEMMA CrossVenueStep ==
  ASSUME CrossVenueInv, [CrossVenueNext]_crossVars
  PROVE  CrossVenueInv'
<1>1. CASE Route /\ UNCHANGED cron
  BY <1>1, OpeningSteps, AnswerSteps, FailReadStep, FailWriteStep, ReceiptReadStep, ReceiptWriteStep
     DEF Route
<1>2. CASE Cancel /\ UNCHANGED cron
  BY <1>2, CancelReadStep, CancelWriteStep DEF Cancel
<1>3. CASE Ingest /\ UNCHANGED cron
  BY <1>3, IngestReadStep, IngestWriteStep, HaltStep DEF Ingest
<1>4. CASE Worker /\ UNCHANGED cron
  BY <1>4, CoordinatorStep, PreflightStep, SubmitStep, RepairStep, CallbackStep,
     CallbackSucceedsStep, CallbackRetriesStep, CallbackFailsStep DEF Worker
<1>5. CASE UNCHANGED crossVars
  <2>1. UNCHANGED <<plan, halted, route, cancel, ingest, request, run, cron, exposure, ghost>>
    BY <1>5 DEF crossVars, planVars, webVars
  <2>2. CrossVenueTypeOK'
    BY CrossVenueStepTyped DEF CrossVenueInv
  <2>3. Beginnings' /\ Writers' /\ RunNumbers' /\ Functions' /\ Rejection'
    BY <2>1 DEF CrossVenueInv, Beginnings, Writers, RunNumbers, Functions, RunEnded, Rejection, Accepted
  <2>4. Intervention' /\ Activity' /\ Exposure' /\ Closing'
    BY <2>1 DEF CrossVenueInv, Intervention, Halting, Activity, Exposure, Knows, Stored, Truthful,
       Closing, Flat, Doomed, RunEnded
  <2> QED BY <2>2, <2>3, <2>4 DEF CrossVenueInv
<1> QED BY <1>1, <1>2, <1>3, <1>4, <1>5, CronStep DEF CrossVenueNext

\* The invariant holds in every reachable state.
LEMMA CrossVenueInvariant == CrossVenueSpec => []CrossVenueInv
<1>1. Init => CrossVenueInv
  BY CrossVenueInitially
<1>2. CrossVenueInv /\ [CrossVenueNext]_crossVars => CrossVenueInv'
  BY CrossVenueStep
<1> QED BY <1>1, <1>2, PTL DEF CrossVenueSpec


\* Every variable of a cross-venue execution keeps its type: the plan, the
\* views of the three routes, the run and what it reports.
THEOREM CrossVenueTyped == CrossVenueSpec => []CrossVenueTypeOK
<1>1. CrossVenueInv => CrossVenueTypeOK
  BY DEF CrossVenueInv
<1> QED BY <1>1, CrossVenueInvariant, PTL

\* A plan that applyCrossVenueWorkerReport closed as both_filled, hedged or
\* failed leaves nothing open at the venues, unless an order filled without
\* the worker learning of it or the report of the fills was given up.
THEOREM ClosedFlat == CrossVenueSpec => []ClosedMeansFlat
<1>1. CrossVenueInv => ClosedMeansFlat
  BY DEF CrossVenueInv, Closing, Closed, Flat, ClosedMeansFlat
<1> QED BY <1>1, CrossVenueInvariant, PTL

\* A plan that the POST route closed as failed because the worker did not
\* answer is never traded by the run, even when the request did arrive.
THEOREM RejectedUntraded == CrossVenueSpec => []RejectedNeverTrades
<1>1. CrossVenueInv => RejectedNeverTrades
  BY DEF CrossVenueInv, Rejection, Accepted, RejectedNeverTrades
<1> QED BY <1>1, CrossVenueInvariant, PTL

\* A plan in manual_intervention_required has halted the consumer circuit, or
\* the function that stored it is about to, whichever function wrote it.
THEOREM InterventionSeen == CrossVenueSpec => []InterventionHalts
<1>1. CrossVenueInv => InterventionHalts
  BY DEF CrossVenueInv, Intervention, Halting, InterventionHalts
<1> QED BY <1>1, CrossVenueInvariant, PTL

\* A job that looked at the plans after this one was stored never takes the
\* worker away from submitted legs or a repair under way, however many calls
\* stopIdlePhalaPrivateAgent awaits in between, unless the user asked to
\* cancel the plan.
THEOREM IdleStopSafe == CrossVenueSpec => []IdleStopSpares
<1>1. CrossVenueInv => IdleStopSpares
  BY DEF CrossVenueInv, Activity, IdleStopSpares
<1> QED BY <1>1, CrossVenueInvariant, PTL

\* Whatever a step of the web routes, the worker or the cron job does to the
\* stored plan, no fill and no sequence number of a report is taken back.
LEMMA PlanGrows ==
  ASSUME CrossVenueInv, [CrossVenueNext]_crossVars
  PROVE  plan'.seq >= plan.seq /\ \A l \in Legs : plan'.fills[l] >= plan.fills[l]
<1>0. CrossVenueTypeOK /\ PlanOK(plan)
  BY DEF CrossVenueInv, Writers
<1>1. plan \in Plan /\ plan.seq \in Nat /\ \A l \in Legs : plan.fills[l] \in Int
  BY <1>0, CrossVenueAssumption DEF CrossVenueTypeOK, Plan, Amounts
<1>2. ASSUME plan' = plan PROVE plan'.seq >= plan.seq /\ \A l \in Legs : plan'.fills[l] >= plan.fills[l]
  BY <1>1, <1>2
<1>3. CASE createStoredCrossVenueExecution \/ markSubmitting
  BY <1>1, <1>3 DEF createStoredCrossVenueExecution, markSubmitting, Plan
<1>4. CASE AcceptPlan
  <2>1. plan.seq = 0 /\ plan.fills = Nothing
    BY <1>0, <1>4 DEF CrossVenueInv, Beginnings, AcceptPlan, RouteStep, PlanOK
  <2>2. plan'.seq = 1 /\ plan'.fills = Nothing
    BY <1>4 DEF AcceptPlan, applyCrossVenueWorkerReport, reportFills, report
  <2> QED BY <2>1, <2>2 DEF Nothing
<1>5. CASE FailWrite \/ ReceiptWrite
  BY <1>0, <1>5, WriteKeeps DEF FailWrite, ReceiptWrite, CrossVenueInv, Writers, CrossVenueTypeOK, Mutating
<1>6. CASE CancelWrite
  BY <1>0, <1>6, WriteKeeps DEF CancelWrite, CrossVenueInv, Writers, CrossVenueTypeOK, Mutating
<1>7. ASSUME NEW i \in Ingests, IngestWrite(i)
      PROVE  plan'.seq >= plan.seq /\ \A l \in Legs : plan'.fills[l] >= plan.fills[l]
  <2>1. /\ ingest[i] \in Writer /\ KeepsReports(plan, ingest[i])
        /\ ingest[i].pc \in Mutating /\ mutate(ingest[i])
    BY <1>0, <1>7 DEF IngestWrite, CrossVenueInv, Writers, CrossVenueTypeOK, Mutating
  <2> QED BY <1>0, <2>1, WriteKeeps
<1>8. CASE submitCrossVenueExecution \/ WorkerAnswered \/ WorkerUnavailable \/ FailRead \/ ReceiptRead
  BY <1>2, <1>8 DEF submitCrossVenueExecution, WorkerAnswered, WorkerUnavailable, FailRead, ReceiptRead,
     planVars
<1>9. CASE cancelCrossVenueExecution \/ Cron \/ UNCHANGED crossVars
  BY <1>2, <1>9 DEF cancelCrossVenueExecution, Cron, IdleCheck, IdleStopDeclined,
     stopIdlePhalaPrivateAgent, planVars, crossVars
<1>10. ASSUME NEW i \in Ingests, IngestRead(i) \/ haltConsumerCircuit(i)
       PROVE  plan' = plan
  BY <1>10 DEF IngestRead, haltConsumerCircuit, planVars
<1>11. CASE Worker
  BY <1>2, <1>11 DEF Worker, coordinatorSubmit, Preflight, SubmitLegs, Hedge, Unwind, Callback,
     CallbackSucceeds, CallbackRetries, CallbackFails, WorkerOnly, planVars
<1> QED BY <1>2, <1>3, <1>4, <1>5, <1>6, <1>7, <1>8, <1>9, <1>10, <1>11
        DEF CrossVenueNext, Route, Cancel, Ingest

\* The stored plan never loses a report: neither a late report, nor a cancel,
\* nor the receipt marking computed from an old read takes back fills or the
\* sequence of the last report, because mutate compares the sequences.
THEOREM ReportsKept == CrossVenueSpec => ReportsOnlyAdd
<1>1. CrossVenueInv /\ [CrossVenueNext]_crossVars =>
        [plan'.seq >= plan.seq /\ \A l \in Legs : plan'.fills[l] >= plan.fills[l]]_crossVars
  BY PlanGrows
<1> QED BY <1>1, CrossVenueInvariant, PTL DEF CrossVenueSpec, ReportsOnlyAdd
=============================================================================
