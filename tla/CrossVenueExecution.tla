------------------------- MODULE CrossVenueExecution -------------------------
(***************************************************************************)
(* One cross-venue execution: two opposite orders on two venues, and the   *)
(* repair of what one fills more than the other.  The web route stores the *)
(* plan and hands it to the worker; the worker's run submits the legs,     *)
(* hedges or unwinds the residual and reports by HTTP callbacks; a second  *)
(* route ingests the reports, a third cancels, and a cron job stops a      *)
(* worker that looks idle.                                                 *)
(*                                                                         *)
(* Every answer may be lost or late, and an order may fill although its    *)
(* caller gave up.  A web function or a worker that stops takes no more    *)
(* steps, which is always allowed.  Leg 1 buys and leg 2 sells; amounts    *)
(* are small naturals.  The leg statuses and the hedge deadline are left   *)
(* out: with the reports the worker sends, the phase and the amounts       *)
(* decide the plan's status, and the only report that can follow the one   *)
(* that sets the deadline is final.                                        *)
(***************************************************************************)
EXTENDS Integers

CONSTANTS
  Notional,     \* matched_notional_micro_usdc
  MaxUnhedged,  \* max_unhedged_notional_micro_usdc of the risk budget
  MaxTries,     \* attempts of a callback, 3 in the code
  NIngests      \* bound on ingest functions running at once

ASSUME CrossVenueAssumption ==
  /\ Notional \in Nat \ {0} /\ MaxUnhedged \in 1..Notional
  /\ MaxTries \in Nat \ {0} /\ NIngests \in Nat

VARIABLES
  plan,      \* cross_venue_execution_plans
  route,     \* the POST route and its view of the plan
  cancel,    \* the cancel route and its view of the plan
  ingest,    \* functions of the reconciliation route, by slot
  request,   \* the submit request on its way to the worker
  run,       \* the coordinator's run of the plan
  halted,    \* the consumer circuit
  cron,      \* the idle stop: see CronStates
  exposure,  \* bought less sold at the venues: legs, hedges and unwinds
  ghost      \* what happened: see Ghosts

planVars == <<plan, halted>>
webVars == <<route, cancel, ingest>>
crossVars == <<planVars, webVars, request, run, cron, exposure, ghost>>

Legs == {1, 2}
Ingests == 1..NIngests
Amounts == [Legs -> 0..Notional]
Nothing == [l \in Legs |-> 0]

Terminal == {"both_filled", "hedged", "cancelled", "failed", "manual_intervention_required"}
\* The statuses that keep the worker from being stopped as idle.
Active == {"planned", "submitting", "legs_open", "unhedged", "partially_hedged", "hedging",
           "unwinding", "manual_intervention_required"}
Plan == [status: {"none"} \cup Terminal \cup Active,
         fills: Amounts, repair: -Notional..Notional, seq: Nat]
NoPlan == [status |-> "none", fills |-> Nothing, repair |-> 0, seq |-> 0]

\* A report of the worker, or of the POST route on its behalf.
Report == [seq: Nat, phase: {"accepted", "legs_open", "hedging", "complete", "failed"},
           known: BOOLEAN, fills: Amounts, repair: -Notional..Notional, over: BOOLEAN]
report(seq, phase) ==
  [seq |-> seq, phase |-> phase, known |-> FALSE, fills |-> Nothing, repair |-> 0, over |-> FALSE]
reportFills(seq, phase, fills) == [report(seq, phase) EXCEPT !.known = TRUE, !.fills = fills]

Writer == [pc: {"idle", "stored", "marked", "accepted", "calling", "refused", "failing", "answered",
                "receipt", "cancelling", "reading", "writing", "objecting", "halting",
                "yes", "no", "done"},
           base: Nat, next: Plan, report: Report]
Fresh(pc) == [pc |-> pc, base |-> 0, next |-> NoPlan, report |-> report(0, "accepted")]

Run == [pc: {"none", "preflight", "submitting", "hedging", "unwinding", "reporting", "over"},
        seq: Nat, fills: Amounts, report: Report, then: {"submit", "hedge", "end"},
        tries: 0..MaxTries, slot: 0..NIngests]
NoRun == [pc |-> "none", seq |-> 1, fills |-> Nothing, report |-> report(0, "accepted"),
          then |-> "end", tries |-> 0, slot |-> 0]
Over == [NoRun EXCEPT !.pc = "over"]

\* blind: an order filled and the worker did not learn of it, or it gave up
\* reporting fills before it repaired them; sent: the legs were submitted;
\* rejected: the POST route closed the plan as failed.
Ghosts == {"blind", "sent", "rejected"}

\* early, stopping: the job saw no active plan, before the plan was stored or
\* after; stopped: a job that looked after the plan was stored has stopped a
\* worker with legs or repairs under way.
CronStates == {"waiting", "early", "stopping", "stopped"}
Working ==
  \/ run.pc \in {"submitting", "hedging", "unwinding"}
  \/ run.pc = "reporting" /\ run.then = "hedge"

\* Every variable has its type.
CrossVenueTypeOK ==
  /\ plan \in Plan /\ halted \in BOOLEAN
  /\ route \in Writer /\ cancel \in Writer /\ ingest \in [Ingests -> Writer]
  /\ request \in {"none", "sent", "accepted", "refused"}
  /\ run \in Run /\ cron \in CronStates
  /\ exposure \in Int
  /\ ghost \subseteq Ghosts

Init ==
  /\ plan = NoPlan /\ halted = FALSE
  /\ route = Fresh("idle") /\ cancel = Fresh("idle") /\ ingest = [i \in Ingests |-> Fresh("idle")]
  /\ request = "none" /\ run = NoRun /\ cron = "waiting"
  /\ exposure = 0 /\ ghost = {}

-----------------------------------------------------------------------------
(* The plan's state machine.                                               *)

Abs(n) == IF n < 0 THEN -n ELSE n

\* Mutant: a residual without its absolute value.
SignedResidual(fills, repair) == fills[1] - fills[2] + repair
residualNotional(fills, repair) == Abs(fills[1] - fills[2] + repair)

\* Mutant: only an older report is refused, not one with the same number.
ObjectionToOlder(p, r) ==
  r.seq < p.seq \/ (r.known /\ \E l \in Legs : r.fills[l] < p.fills[l])

\* A report out of sequence or with fewer fills throws.
Objection(p, r) ==
  r.seq <= p.seq \/ (r.known /\ \E l \in Legs : r.fills[l] < p.fills[l])

\* over: one of the slippage and loss budgets is exceeded.
applyCrossVenueWorkerReport(p, r) ==
  LET fills == IF r.known THEN r.fills ELSE p.fills
      repair == IF r.repair = 0 THEN p.repair ELSE r.repair
      residual == residualNotional(fills, repair)
      status ==
        CASE r.over \/ residual > MaxUnhedged \/ (r.phase = "failed" /\ residual > 0)
               -> "manual_intervention_required"
          [] OTHER ->
             IF r.phase \in {"failed", "hedging"} THEN r.phase
             ELSE IF residual > 0
                  THEN IF \E l \in Legs : fills[l] = 0 THEN "unhedged" ELSE "partially_hedged"
             ELSE IF r.phase = "complete" /\ repair # 0 THEN "hedged"
             ELSE IF r.phase = "complete" /\ \A l \in Legs : fills[l] > 0 THEN "both_filled"
             ELSE "legs_open"
  IN [status |-> status, fills |-> fills, repair |-> repair, seq |-> r.seq]

requestCrossVenueCancellation(p) ==
  IF p.status \in Terminal THEN p
  ELSE [p EXCEPT !.status = IF p.fills # Nothing \/ p.repair # 0 THEN "unwinding" ELSE "cancelled"]

\* mutate: the new plan is computed from a read; the write is guarded by the
\* sequence of the last report only.
Read(w, pc, next) == [w EXCEPT !.pc = pc, !.base = plan.seq, !.next = next]
\* Mutant: an update without the comparison of sequences.
UnmovedUnchecked(w) == w.base <= plan.seq
Unmoved(w) == plan.seq = w.base
mutate(w) == plan' = IF Unmoved(w) THEN w.next ELSE plan

-----------------------------------------------------------------------------
(* The POST route.  Before the worker has the plan nobody else writes it.  *)

RouteStep(from, to) == route.pc = from /\ route' = [route EXCEPT !.pc = to]
RouteOnly == UNCHANGED <<cancel, ingest, run, exposure>>

createStoredCrossVenueExecution ==
  /\ ~halted
  /\ RouteStep("idle", "stored")
  /\ plan' = [plan EXCEPT !.status = "planned"]
  /\ UNCHANGED <<halted, request, ghost>> /\ RouteOnly

markSubmitting ==
  /\ RouteStep("stored", "marked")
  /\ plan' = [plan EXCEPT !.status = "submitting"]
  /\ UNCHANGED <<halted, request, ghost>> /\ RouteOnly

AcceptPlan ==
  /\ RouteStep("marked", "accepted")
  /\ plan' = applyCrossVenueWorkerReport(plan, reportFills(1, "accepted", Nothing))
  /\ UNCHANGED <<halted, request, ghost>> /\ RouteOnly

submitCrossVenueExecution ==
  /\ RouteStep("accepted", "calling")
  /\ request' = "sent"
  /\ UNCHANGED <<planVars, ghost>> /\ RouteOnly

\* The answer of the worker, or none within 12 seconds.
WorkerAnswered ==
  /\ request = "accepted" /\ RouteStep("calling", "answered")
  /\ UNCHANGED <<planVars, request, ghost>> /\ RouteOnly

WorkerUnavailable ==
  /\ RouteStep("calling", "refused")
  /\ UNCHANGED <<planVars, request, ghost>> /\ RouteOnly

\* The route reports the failure itself, as number 2.
FailRead ==
  /\ route.pc = "refused"
  /\ LET r == report(2, "failed") IN
     route' = IF Objection(plan, r) THEN Fresh("done")
              ELSE Read(route, "failing", applyCrossVenueWorkerReport(plan, r))
  /\ UNCHANGED <<planVars, request, ghost>> /\ RouteOnly

FailWrite ==
  /\ route.pc = "failing"
  /\ mutate(route)
  /\ ghost' = IF Unmoved(route) THEN ghost \cup {"rejected"} ELSE ghost
  /\ route' = Fresh("done")
  /\ UNCHANGED <<halted, request>> /\ RouteOnly

\* The second marking adds the worker's receipt to the plan it read.
ReceiptRead ==
  /\ route.pc = "answered"
  /\ route' = Read(route, "receipt", plan)
  /\ UNCHANGED <<planVars, request, ghost>> /\ RouteOnly

ReceiptWrite ==
  /\ route.pc = "receipt"
  /\ mutate(route)
  /\ route' = Fresh("done")
  /\ UNCHANGED <<halted, request, ghost>> /\ RouteOnly

Route ==
  \/ createStoredCrossVenueExecution \/ markSubmitting \/ AcceptPlan \/ submitCrossVenueExecution
  \/ WorkerAnswered \/ WorkerUnavailable \/ FailRead \/ FailWrite \/ ReceiptRead \/ ReceiptWrite

-----------------------------------------------------------------------------
(* The cancel route.  The worker notes the request and asks the venues;    *)
(* the run never looks at it.                                              *)

CancelOnly == UNCHANGED <<halted, route, ingest, request, run, exposure, ghost>>

\* The worker has answered, and the route reads the plan again.  A plan that
\* is terminal by now would be written back as it is.
cancelCrossVenueExecution ==
  /\ cancel.pc = "idle" /\ request = "accepted"
  /\ plan.status \notin Terminal
  /\ cancel' = Read(cancel, "cancelling", requestCrossVenueCancellation(plan))
  /\ UNCHANGED plan /\ CancelOnly

CancelWrite ==
  /\ cancel.pc = "cancelling"
  /\ mutate(cancel)
  /\ cancel' = Fresh("done")
  /\ CancelOnly

Cancel == cancelCrossVenueExecution \/ CancelWrite

-----------------------------------------------------------------------------
(* The reconciliation route, one function per attempt of a callback.       *)

IngestOnly == UNCHANGED <<route, cancel, request, run, exposure>>
Set(i, w) == ingest' = [ingest EXCEPT ![i] = w]

\* The answer, if the worker still waits for it.
Heard(i, answer) == IF run.slot = i THEN answer ELSE "idle"

IngestRead(i) ==
  /\ ingest[i].pc = "reading"
  /\ LET r == ingest[i].report IN
     Set(i, IF Objection(plan, r) THEN Fresh("objecting")
            ELSE Read(ingest[i], "writing", applyCrossVenueWorkerReport(plan, r)))
  /\ UNCHANGED <<planVars, ghost>> /\ IngestOnly

\* Mutant: the circuit is halted for refused reports only.
IngestWriteQuietly(i) ==
  /\ ingest[i].pc = "writing"
  /\ mutate(ingest[i])
  /\ Set(i, Fresh(IF ~Unmoved(ingest[i]) THEN "objecting" ELSE Heard(i, "yes")))
  /\ UNCHANGED <<halted, ghost>> /\ IngestOnly

IngestWrite(i) ==
  /\ ingest[i].pc = "writing"
  /\ mutate(ingest[i])
  /\ Set(i, Fresh(IF ~Unmoved(ingest[i]) THEN "objecting"
                  ELSE IF ingest[i].next.status = "manual_intervention_required"
                  THEN "halting" ELSE Heard(i, "yes")))
  /\ UNCHANGED <<halted, ghost>> /\ IngestOnly

\* A report refused halts the circuit, and so does a plan that needs a human.
haltConsumerCircuit(i) ==
  /\ ingest[i].pc \in {"objecting", "halting"}
  /\ halted' = TRUE
  /\ Set(i, Fresh(Heard(i, IF ingest[i].pc = "halting" THEN "yes" ELSE "no")))
  /\ UNCHANGED <<plan, ghost>> /\ IngestOnly

Ingest == \E i \in Ingests :
  IngestRead(i) \/ IngestWrite(i) \/ haltConsumerCircuit(i)

-----------------------------------------------------------------------------
(* The worker.                                                             *)

WorkerOnly == UNCHANGED <<planVars, route, cancel>>

coordinatorSubmit ==
  /\ request = "sent"
  /\ \/ request' = "accepted" /\ run' = [NoRun EXCEPT !.pc = "preflight"]
     \/ request' = "refused" /\ UNCHANGED run
  /\ UNCHANGED <<ingest, exposure, ghost>> /\ WorkerOnly

\* Reports are numbered; what the run does with the callback's failure
\* depends on where it is: see CallbackFails.
persistAndReport(r, then) ==
  run' = [run EXCEPT !.pc = "reporting", !.seq = r.seq, !.report = r, !.then = then,
                     !.fills = IF then = "hedge" THEN r.fills ELSE Nothing, !.tries = 0, !.slot = 0]
Next(phase) == report(run.seq + 1, phase)
NextFills(phase, fills) == reportFills(run.seq + 1, phase, fills)
ReportFailure == persistAndReport(Next("failed"), "end")

Preflight ==
  /\ run.pc = "preflight"
  /\ \/ persistAndReport(NextFills("legs_open", Nothing), "submit")
     \/ ReportFailure
  /\ UNCHANGED <<ingest, request, exposure, ghost>> /\ WorkerOnly

\* The venues fill what they fill; the answer for a leg may be an error, and
\* both may come too late.
SubmitLegs ==
  /\ run.pc = "submitting"
  /\ \E fills \in Amounts, heard \in SUBSET Legs, late \in BOOLEAN :
       LET seen == [l \in Legs |-> IF l \in heard THEN fills[l] ELSE 0]
           residual == residualNotional(seen, 0)
       IN /\ exposure' = fills[1] - fills[2]
          /\ ghost' = ghost \cup {"sent"} \cup
                      (IF late \/ seen # fills THEN {"blind"} ELSE {})
          /\ CASE late -> ReportFailure
               [] ~late /\ residual = 0 /\ seen # Nothing
                    -> persistAndReport(NextFills("complete", seen), "end")
               [] ~late /\ seen = Nothing
                    -> persistAndReport(NextFills("failed", seen), "end")
               [] OTHER
                    -> persistAndReport(NextFills("hedging", seen), "hedge")
  /\ UNCHANGED <<ingest, request>> /\ WorkerOnly

\* Mutant: the fill a venue answers is not cut to the residual.
RepairsUncut ==
  LET gap == run.fills[2] - run.fills[1] IN IF gap < 0 THEN (gap - Notional)..0 ELSE 0..(gap + Notional)

\* What a repair of the measured residual may fill, signed.
Repairs == LET gap == run.fills[2] - run.fills[1] IN IF gap < 0 THEN gap..0 ELSE 0..gap

FinalReport(repair, over) ==
  persistAndReport(
    [NextFills(IF residualNotional(run.fills, repair) = 0 THEN "complete" ELSE "failed", run.fills)
     EXCEPT !.repair = repair, !.over = over], "end")

\* A hedge that fails or times out is followed by an unwind of the whole
\* residual.
Hedge ==
  /\ run.pc = "hedging"
  /\ \E fill \in Repairs, heard, over \in BOOLEAN :
       /\ exposure' = exposure + fill
       /\ IF heard THEN FinalReport(fill, over) /\ UNCHANGED ghost
          ELSE /\ run' = [run EXCEPT !.pc = "unwinding"]
               /\ ghost' = IF fill # 0 THEN ghost \cup {"blind"} ELSE ghost
  /\ UNCHANGED <<ingest, request>> /\ WorkerOnly

Unwind ==
  /\ run.pc = "unwinding"
  /\ \E fill \in Repairs, heard, over \in BOOLEAN :
       /\ exposure' = exposure + fill
       /\ IF heard THEN FinalReport(fill, over) ELSE ReportFailure
       /\ ghost' = IF ~heard /\ fill # 0 THEN ghost \cup {"blind"} ELSE ghost
  /\ UNCHANGED <<ingest, request>> /\ WorkerOnly

\* One attempt of the callback; it may not arrive.
Callback ==
  /\ run.pc = "reporting" /\ run.slot = 0 /\ run.tries < MaxTries
  /\ \/ \E i \in Ingests :
          /\ ingest[i].pc = "idle" /\ \A k \in Ingests : k < i => ingest[k].pc # "idle"
          /\ Set(i, [Fresh("reading") EXCEPT !.report = run.report])
          /\ run' = [run EXCEPT !.tries = @ + 1, !.slot = i]
     \/ run' = [run EXCEPT !.tries = @ + 1] /\ UNCHANGED ingest
  /\ UNCHANGED <<request, exposure, ghost>> /\ WorkerOnly

Resume(pc) == [run EXCEPT !.pc = pc, !.report = NoRun.report, !.tries = 0, !.slot = 0]

CallbackSucceeds ==
  /\ run.pc = "reporting" /\ run.slot # 0
  /\ ingest[run.slot].pc = "yes"
  /\ Set(run.slot, Fresh("idle"))
  /\ run' = CASE run.then = "submit" -> Resume("submitting")
              [] run.then = "hedge" -> Resume("hedging")
              [] run.then = "end" -> Over
  /\ UNCHANGED <<request, exposure, ghost>> /\ WorkerOnly

\* The answer is an error, or it is lost or late.
CallbackRetries ==
  /\ run.pc = "reporting" /\ run.slot # 0
  /\ run' = [run EXCEPT !.slot = 0]
  /\ ingest' = IF ingest[run.slot].pc \in {"yes", "no"}
               THEN [ingest EXCEPT ![run.slot] = Fresh("idle")] ELSE ingest
  /\ UNCHANGED <<request, exposure, ghost>> /\ WorkerOnly

\* The last attempt failed.  A report in the middle of the run is awaited,
\* so the run fails, without its fills; a final report is only returned.
CallbackFails ==
  /\ run.pc = "reporting" /\ run.slot = 0 /\ run.tries = MaxTries
  /\ IF run.then = "end" THEN run' = Over ELSE ReportFailure
  /\ ghost' = IF run.then = "hedge" THEN ghost \cup {"blind"} ELSE ghost
  /\ UNCHANGED <<ingest, request, exposure>> /\ WorkerOnly

Worker ==
  \/ coordinatorSubmit \/ Preflight \/ SubmitLegs \/ Hedge \/ Unwind
  \/ Callback \/ CallbackSucceeds \/ CallbackRetries \/ CallbackFails

-----------------------------------------------------------------------------
(* The cron job that stops an idle worker: it looks at the plans and stops *)
(* the machine some calls later, or gives up on the way.  The two are not  *)
(* atomic, and the POST route does not know of the job: a plan stored in   *)
(* between is carried out on a machine that is about to stop.  The attempt *)
(* is on record, so nothing runs a plan again whose run was stopped.  A    *)
(* machine without the plan may be stopped too, and is woken for it.       *)

\* Mutant: a plan under repair does not count.
hasOpenLegs == plan.status \in Active \ {"hedging"}
hasActiveCrossVenueExposure == plan.status \in Active

IdleCheck ==
  /\ cron = "waiting" /\ ~hasActiveCrossVenueExposure
  /\ cron' = IF plan.status = "none" THEN "early" ELSE "stopping"
  /\ UNCHANGED <<planVars, webVars, request, run, exposure, ghost>>

\* A lease or an armed session is active, or a call fails.
IdleStopDeclined ==
  /\ cron \in {"early", "stopping"}
  /\ cron' = "waiting"
  /\ UNCHANGED <<planVars, webVars, request, run, exposure, ghost>>

stopIdlePhalaPrivateAgent ==
  /\ cron \in {"early", "stopping"}
  /\ cron' = IF cron = "stopping" /\ Working THEN "stopped" ELSE "waiting"
  /\ run' = IF run.pc = "none" THEN run ELSE Over
  /\ UNCHANGED <<planVars, webVars, request, exposure, ghost>>

Cron == IdleCheck \/ IdleStopDeclined \/ stopIdlePhalaPrivateAgent

CrossVenueNext == ((Route \/ Cancel \/ Ingest \/ Worker) /\ UNCHANGED cron) \/ Cron

CrossVenueSpec == Init /\ [][CrossVenueNext]_crossVars

-----------------------------------------------------------------------------
(* What the execution promises.                                            *)

\* A plan closed as both_filled, hedged or failed leaves nothing open at the
\* venues: what one leg bought, the other leg and the repairs sold.  The
\* exceptions are the runs in which an order filled without the worker
\* learning of it, or the report of the fills failed before their repair:
\* the worker counts a lost answer as no fill (normalizeResult, withTimeout).
ClosedMeansFlat ==
  plan.status \in {"both_filled", "hedged", "failed"} => exposure = 0 \/ "blind" \in ghost

\* When the POST route has closed the plan because the worker did not answer
\* (a 503 and status failed to the user), the worker does not trade it, even
\* if the request did arrive: both number their report 2, the first one wins
\* and the worker's run waits for its own before it submits the legs.
RejectedNeverTrades == ~({"rejected", "sent"} \subseteq ghost)

\* The stored plan never loses a report: neither a late report, nor a cancel,
\* nor the receipt marking computed from an old read takes back fills or the
\* sequence of the last report (mutate's comparison).
ReportsOnlyAdd ==
  [][plan'.seq >= plan.seq /\ \A l \in Legs : plan'.fills[l] >= plan.fills[l]]_crossVars

\* A plan that needs a human has halted the circuit, or the function that
\* stored it has yet to: whichever function writes the plan, over whatever
\* interleaving of reports, cancels and markings.
InterventionHalts ==
  plan.status = "manual_intervention_required" =>
    halted \/ \E i \in Ingests : ingest[i].pc = "halting"

\* An idle stop that looked at the plans after this one was stored never
\* takes the worker away from submitted legs or a repair under way, however
\* long it takes from the look to the stop, unless the user asked to cancel:
\* a cancelled plan no longer counts as active although the run goes on.
\* Nothing of the kind holds of a job that looked before: hence "early".
IdleStopSpares == cron = "stopped" => cancel.pc # "idle"
=============================================================================
