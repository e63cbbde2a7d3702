------------------------------- MODULE Autopilot -------------------------------
(***************************************************************************)
(* One autonomous trading session of the private agent worker: the stored  *)
(* session row, the timer loops that run its ticks, the HTTP calls that    *)
(* pause, resume, kill or watch it, and the venue its orders go to.        *)
(*                                                                         *)
(* A tick reads the row once and writes that copy back several times, with *)
(* awaits in between; the calls interleave with it.  Every await at which  *)
(* the row, the positions, the policy counters or the venue change is a    *)
(* step of its own.  The worker may restart at any point, and any await of *)
(* a tick may throw.  The row is modelled by its status: execution_enabled *)
(* is true exactly when the status is "running", and the other fields are  *)
(* not read by a guard other than the cooldown.  A session without a ready *)
(* venue never starts a loop and is left out.                              *)
(*                                                                         *)
(* The strategy is the momentum or AI-direct one on a single Hyperliquid   *)
(* market; positions are signed quantities at a unit price, and what a     *)
(* mark says about profit or loss is chosen freely.                        *)
(***************************************************************************)
EXTENDS Integers, Sums

CONSTANTS
  NLoops,     \* bound on timer loops alive at once
  Calls,      \* HTTP calls that may be in progress at once
  Sizes,      \* notionals a proposal may have
  MaxOrders,  \* max_order_count of the session policy
  MaxDaily,   \* max_daily_notional_bucket
  Ceiling     \* max_position_notional_bucket, the run's capital

ASSUME AutopilotAssumption ==
  /\ NLoops \in Nat \ {0}
  /\ Sizes \subseteq Nat \ {0}
  /\ MaxOrders \in Nat /\ MaxDaily \in Nat /\ Ceiling \in Nat

VARIABLES
  row,         \* worker_autopilot_sessions: the status
  expired,     \* expires_at has passed
  liveSubmit,  \* PRIVATE_AGENT_AUTOPILOT_LIVE_SUBMIT
  position,    \* worker_autopilot_positions: the signed quantity
  orders,      \* worker_policy_counts
  spent,       \* worker_policy_amounts, for the day
  loop,        \* the timer loops and the tick each is in
  registered,  \* LOOP_TIMERS, the loop whose timer can be cleared
  ticking,     \* ACTIVE_TICKS has the session
  call,        \* HTTP calls in progress
  booting,     \* the startup scan has not run yet
  venue,       \* the position the venue holds
  receipt,     \* worker_idempotency: the fill of an exit not applied yet
  lost,        \* fills whose recording was cut off
  sent,        \* opening orders the venue has received
  stops,       \* stops acknowledged since the last resume was asked for
  raced        \* no loop was started since one ended under a pending resume
               \* or the startup scan failed

storeVars == <<position, orders, spent, receipt>>
venueVars == <<venue, lost, sent>>
callVars == <<call, booting, stops>>
timerVars == <<registered, raced>>
autopilotVars == <<row, expired, liveSubmit, storeVars, loop, timerVars, ticking,
                   callVars, venueVars>>

Loops == 1..NLoops
Status == {"running", "paused", "killed", "risk_halted", "expired"}
Looping == {"running", "risk_halted"}

\* Before an order may reach the venue, while one may, and after it did.
Evaluating == {"reading", "putback", "snapshot", "marking", "marked", "exiting", "tripped", "passed",
               "latched", "proposing", "verifying", "verified"}
Ordering == {"policy", "submitting", "exitorder"}
Recording == {"counting", "counted", "filling", "reconciled", "exitfill", "exitdone"}
InTick == Evaluating \cup Ordering \cup Recording

Loop == [pc: {"none", "timer", "release", "rearm"} \cup InTick,
         copy: Status, held: Int, order: Int, fill: Int]
NoLoop == [pc |-> "none", copy |-> "paused", held |-> 0, order |-> 0, fill |-> 0]
At(pc) == [NoLoop EXCEPT !.pc = pc]

Call == [op: {"none", "pause", "resume", "kill", "watch"}, status: Status]
NoCall == [op |-> "none", status |-> "paused"]

\* Every variable has its type.
AutopilotTypeOK ==
  /\ row \in Status /\ expired \in BOOLEAN /\ liveSubmit \in BOOLEAN
  /\ position \in Int /\ receipt \in Int /\ orders \in 0..MaxOrders /\ spent \in 0..MaxDaily
  /\ loop \in [Loops -> Loop] /\ registered \in 0..NLoops /\ ticking \in BOOLEAN
  /\ call \in [Calls -> Call] /\ booting \in BOOLEAN
  /\ venue \in Int /\ lost \in Int /\ sent \in Nat
  /\ stops \subseteq {"kill", "quiet"} /\ raced \in BOOLEAN

\* A killed or halted session never expires.
refreshSession(s) == IF expired /\ s \notin {"killed", "risk_halted"} THEN "expired" ELSE s

Abs(n) == IF n < 0 THEN -n ELSE n
Between(n) == IF n < 0 THEN n..0 ELSE 0..n

\* A new session is running, with its first timer armed.
createAutopilotSession ==
  /\ row = "running" /\ expired = FALSE /\ liveSubmit \in BOOLEAN
  /\ position = 0 /\ orders = 0 /\ spent = 0 /\ receipt = 0
  /\ loop = [l \in Loops |-> IF l = 1 THEN At("timer") ELSE NoLoop]
  /\ registered = 1 /\ ticking = FALSE
  /\ call = [c \in Calls |-> NoCall] /\ booting = FALSE
  /\ venue = 0 /\ lost = 0 /\ sent = 0
  /\ stops = {} /\ raced = FALSE

-----------------------------------------------------------------------------
(* Timers.  Clearing the registered timer does nothing to a tick that is   *)
(* already running, nor to a loop that another one has replaced.           *)

Cleared ==
  IF registered # 0 /\ loop[registered].pc = "timer"
  THEN [loop EXCEPT ![registered] = NoLoop] ELSE loop

ResumePending == \E c \in Calls : call[c].op = "resume"

stopAutopilotLoop ==
  /\ loop' = Cleared /\ registered' = 0
  /\ raced' = (raced \/ ResumePending)

startAutopilotLoop ==
  \E l \in Loops :
    /\ Cleared[l].pc = "none" /\ \A k \in Loops : k < l => Cleared[k].pc # "none"
    /\ loop' = [Cleared EXCEPT ![l] = At("timer")]
    /\ registered' = l /\ raced' = FALSE

LoopsUnchanged == UNCHANGED <<loop, timerVars>>

\* The timer fires; a tick of another loop in progress makes this one pass.
runAutopilotTick(l) ==
  /\ loop[l].pc = "timer"
  /\ loop' = [loop EXCEPT ![l] = At(IF ticking THEN "rearm" ELSE "reading")]
  /\ ticking' = TRUE
  /\ UNCHANGED <<row, expired, liveSubmit, storeVars, timerVars, callVars, venueVars>>

\* The finally block.
TickEnds(l) ==
  /\ loop[l].pc = "release"
  /\ ticking' = FALSE
  /\ loop' = [loop EXCEPT ![l] = At("rearm")]
  /\ UNCHANGED <<row, expired, liveSubmit, storeVars, timerVars, callVars, venueVars>>

\* Mutant of Rearm: a halted run gets no further tick.
RearmRunningOnly(l) ==
  /\ loop[l].pc = "rearm"
  /\ loop' = [loop EXCEPT ![l] = IF row = "running" THEN At("timer") ELSE NoLoop]
  /\ registered' = IF row = "running" THEN l ELSE 0
  /\ raced' = (raced \/ (row # "running" /\ ResumePending))
  /\ UNCHANGED <<row, expired, liveSubmit, storeVars, ticking, callVars, venueVars>>

\* The row decides whether the loop goes on; either way the registration of
\* whichever loop was there is replaced or deleted.
Rearm(l) ==
  /\ loop[l].pc = "rearm"
  /\ loop' = [loop EXCEPT ![l] = IF row \in Looping THEN At("timer") ELSE NoLoop]
  /\ registered' = IF row \in Looping THEN l ELSE 0
  /\ raced' = (raced \/ (row \notin Looping /\ ResumePending))
  /\ UNCHANGED <<row, expired, liveSubmit, storeVars, ticking, callVars, venueVars>>

-----------------------------------------------------------------------------
(* The tick.                                                               *)

\* A tick that is over keeps nothing.
Goto(l, pc) ==
  loop' = [loop EXCEPT ![l] = IF pc = "release" THEN At(pc) ELSE [@ EXCEPT !.pc = pc]]
OnlyLoop == UNCHANGED <<expired, liveSubmit, timerVars, ticking, callVars>>

\* The whole row is written, whatever it holds by now.
putAutopilotSession(status) == row' = status

PutCopy(l, pc) ==
  /\ putAutopilotSession(loop[l].copy)
  /\ Goto(l, pc)
  /\ UNCHANGED <<storeVars, venueVars>> /\ OnlyLoop

\* Mutant of ReadSession: the status is not looked at.
ReadSessionUnchecked(l) ==
  /\ loop[l].pc = "reading"
  /\ loop' = [loop EXCEPT ![l].copy = refreshSession(row), ![l].pc = "snapshot"]
  /\ UNCHANGED <<row, storeVars, venueVars>> /\ OnlyLoop

ReadSession(l) ==
  /\ loop[l].pc = "reading"
  /\ LET s == refreshSession(row) IN
     loop' = [loop EXCEPT ![l].copy = s,
                          ![l].pc = IF s \in Looping THEN "snapshot" ELSE "putback"]
  /\ UNCHANGED <<row, storeVars, venueVars>> /\ OnlyLoop

PutBack(l) == loop[l].pc = "putback" /\ PutCopy(l, "release")

PutSnapshot(l) == loop[l].pc = "snapshot" /\ PutCopy(l, "marking")

\* What the marks may demand: an exit needs a position, and a loss or a mark
\* that is too old needs an order that once filled.
protectiveExitDecision(held) == held # 0
lossCircuitDecision == sent > 0

\* Positions are read, marked and written back; the marks may demand a
\* protective exit, trip the loss circuit or be harmless.
ListPositions(l) ==
  /\ loop[l].pc = "marking"
  /\ loop' = [loop EXCEPT ![l].held = position, ![l].pc = "marked"]
  /\ UNCHANGED <<row, storeVars, venueVars>> /\ OnlyLoop

PutMarks(l) ==
  /\ loop[l].pc = "marked"
  /\ position' = loop[l].held
  /\ \E next \in {"exiting", "tripped", "passed"} :
       /\ next = "exiting" => protectiveExitDecision(loop[l].held)
       /\ next = "tripped" => lossCircuitDecision
       /\ Goto(l, next)
  /\ UNCHANGED <<row, orders, spent, receipt, venueVars>> /\ OnlyLoop

\* Mutant of Halt: the row is halted and the tick's copy is not.
HaltRowOnly(l, pc) ==
  /\ putAutopilotSession("risk_halted")
  /\ Goto(l, pc)
  /\ UNCHANGED <<storeVars, venueVars>> /\ OnlyLoop

\* Both the protective exit and the loss circuit halt the row first.
Halt(l, pc) ==
  /\ putAutopilotSession("risk_halted")
  /\ loop' = [loop EXCEPT ![l] =
       IF pc = "release" THEN At(pc) ELSE [@ EXCEPT !.copy = "risk_halted", !.pc = pc]]
  /\ UNCHANGED <<storeVars, venueVars>> /\ OnlyLoop

BeginExit(l) ==
  loop[l].pc = "exiting" /\ Halt(l, IF liveSubmit THEN "exitorder" ELSE "release")

lossCircuitTrips(l) == loop[l].pc = "tripped" /\ Halt(l, "release")

\* What the tick learns of an order it sent.
Answer(l, answered, f, pc) ==
  loop' = [loop EXCEPT ![l] =
    IF answered THEN [At(pc) EXCEPT !.copy = loop[l].copy, !.fill = f] ELSE At("release")]

\* A reduce-only order; the policy refuses it once the session has expired.
\* The answer may be lost; else it is kept under the work order.
SubmitExit(l) ==
  /\ loop[l].pc = "exitorder"
  /\ receipt = 0 /\ ~expired
  /\ \E f \in Between(-loop[l].held) \cap Between(-venue), answered \in BOOLEAN :
       /\ venue' = venue + f
       /\ lost' = IF answered THEN lost ELSE lost + f
       /\ receipt' = IF answered THEN f ELSE 0
       /\ Answer(l, answered, f, "exitfill")
  /\ UNCHANGED <<row, position, orders, spent, sent>> /\ OnlyLoop

\* The work order names the source order of the position and the half minute:
\* until one of them changes, a repeated exit gets the first one's receipt.
ReplayExit(l) ==
  /\ loop[l].pc = "exitorder"
  /\ receipt # 0
  /\ Answer(l, TRUE, receipt, "exitfill")
  /\ UNCHANGED <<row, storeVars, venueVars>> /\ OnlyLoop

\* applyEstimatedFill on the position as it is now.  A fill is the new source
\* order of the position, which ends the use of an earlier receipt.
RecordFill(l, pc, dropped) ==
  /\ position' = position + loop[l].fill
  /\ receipt' = IF loop[l].fill = 0 THEN receipt ELSE 0
  /\ lost' = IF loop[l].fill = 0 THEN lost ELSE lost + dropped
  /\ loop' = [loop EXCEPT ![l].fill = 0, ![l].pc = pc]
  /\ UNCHANGED <<row, orders, spent, venue, sent>> /\ OnlyLoop

\* Mutant of RecordExit: the position keeps its source order.
RecordExitSameOrder(l) ==
  /\ loop[l].pc = "exitfill"
  /\ position' = position + loop[l].fill
  /\ loop' = [loop EXCEPT ![l].fill = 0, ![l].pc = "exitdone"]
  /\ UNCHANGED <<row, orders, spent, receipt, venueVars>> /\ OnlyLoop

RecordExit(l) == loop[l].pc = "exitfill" /\ RecordFill(l, "exitdone", 0)

PutExit(l) == loop[l].pc = "exitdone" /\ PutCopy(l, "release")

PutMarked(l) ==
  loop[l].pc = "passed"
    /\ PutCopy(l, IF loop[l].copy = "risk_halted" THEN "latched" ELSE "proposing")

\* A halted run is only monitored.
StayHalted(l) == loop[l].pc = "latched" /\ Halt(l, "release")

\* Mutant of Propose: the ceiling is compared with the position as it is.
ProposeUnprojected(l) ==
  /\ loop[l].pc = "proposing"
  /\ \E s \in Sizes, sign \in {1, -1} :
       /\ liveSubmit => Abs(loop[l].held) <= Ceiling
       /\ loop' = [loop EXCEPT ![l].held = 0, ![l].order = sign * s,
                               ![l].pc = IF liveSubmit THEN "policy" ELSE "verifying"]
  /\ UNCHANGED <<row, storeVars, venueVars>> /\ OnlyLoop

\* The size of the position if all of the order fills.
projectRunExposure(held, order) == Abs(held + order)

\* The proposal survives cooldown, decision budget and score, and fits the
\* capital ceiling; without live submit it is only verified.
Propose(l) ==
  /\ loop[l].pc = "proposing"
  /\ \E s \in Sizes, sign \in {1, -1} :
       /\ liveSubmit => projectRunExposure(loop[l].held, sign * s) <= Ceiling
       /\ loop' = [loop EXCEPT ![l].held = 0, ![l].order = sign * s,
                               ![l].pc = IF liveSubmit THEN "policy" ELSE "verifying"]
  /\ UNCHANGED <<row, storeVars, venueVars>> /\ OnlyLoop

\* The no-submit proof reads the row again and then writes it.
VerifyNoSubmit(l) ==
  /\ loop[l].pc = "verifying"
  /\ loop' = [loop EXCEPT ![l].copy = row, ![l].pc = "verified"]
  /\ UNCHANGED <<row, storeVars, venueVars>> /\ OnlyLoop

PutVerified(l) == loop[l].pc = "verified" /\ PutCopy(l, "release")

\* One statement that compares and adds.
incrementPolicyAmount(amount) == spent + amount <= MaxDaily /\ spent' = spent + amount

\* Mutant of enforceInstructionPolicy: the order is counted by its receipt.
PolicyWithoutCount(l) ==
  /\ loop[l].pc = "policy"
  /\ ~expired /\ loop[l].copy # "killed"
  /\ orders < MaxOrders /\ incrementPolicyAmount(Abs(loop[l].order))
  /\ Goto(l, "submitting")
  /\ UNCHANGED <<row, position, orders, receipt, venueVars>> /\ OnlyLoop

\* Mutant of enforceInstructionPolicy: the count is raised and not compared.
PolicyWithoutLimit(l) ==
  /\ loop[l].pc = "policy"
  /\ ~expired /\ loop[l].copy # "killed"
  /\ incrementPolicyAmount(Abs(loop[l].order))
  /\ orders' = orders + 1
  /\ Goto(l, "submitting")
  /\ UNCHANGED <<row, position, receipt, venueVars>> /\ OnlyLoop

\* The policy counters are persisted before the order leaves.  The notional
\* is spent even if the count then refuses.
enforceInstructionPolicy(l) ==
  /\ loop[l].pc = "policy"
  /\ ~expired /\ loop[l].copy # "killed"
  /\ incrementPolicyAmount(Abs(loop[l].order))
  /\ IF orders < MaxOrders
     THEN orders' = orders + 1 /\ Goto(l, "submitting")
     ELSE UNCHANGED orders /\ Goto(l, "release")
  /\ UNCHANGED <<row, position, receipt, venueVars>> /\ OnlyLoop

\* The venue fills none, some or all of it; the answer may be lost.
SubmitOrder(l) ==
  /\ loop[l].pc = "submitting"
  /\ sent' = sent + 1
  /\ \E f \in Between(loop[l].order), answered \in BOOLEAN :
       /\ venue' = venue + f
       /\ lost' = IF answered THEN lost ELSE lost + f
       /\ Answer(l, answered, f, "counting")
  /\ UNCHANGED <<row, storeVars>> /\ OnlyLoop

\* The counters of the row are updated from a fresh read, written, and the
\* same copy is written again once the fill is in the position.
ReadAfterOrder(l) ==
  /\ loop[l].pc = "counting"
  /\ loop' = [loop EXCEPT ![l].copy = row, ![l].pc = "counted"]
  /\ UNCHANGED <<row, storeVars, venueVars>> /\ OnlyLoop

PutCounted(l) == loop[l].pc = "counted" /\ PutCopy(l, "filling")

RecordOrder(l) == loop[l].pc = "filling" /\ RecordFill(l, "reconciled", receipt)

PutReconciled(l) == loop[l].pc = "reconciled" /\ PutCopy(l, "release")

\* The fill of an opening order that a tick has not recorded yet.
Unrecorded(l) == IF loop[l].pc \in {"counting", "counted", "filling"} THEN loop[l].fill ELSE 0

\* An await of the tick throws, or a check returns early.  The fill of an
\* opening order that was not recorded by then never is.
TickFails(l) ==
  /\ loop[l].pc \in InTick
  /\ lost' = lost + Unrecorded(l)
  /\ loop' = [loop EXCEPT ![l] = At("release")]
  /\ UNCHANGED <<row, storeVars, venue, sent>> /\ OnlyLoop

TickStep(l) ==
  \/ ReadSession(l) \/ PutBack(l) \/ PutSnapshot(l) \/ ListPositions(l) \/ PutMarks(l)
  \/ BeginExit(l) \/ SubmitExit(l) \/ ReplayExit(l) \/ RecordExit(l) \/ PutExit(l)
  \/ lossCircuitTrips(l) \/ PutMarked(l) \/ StayHalted(l)
  \/ Propose(l) \/ VerifyNoSubmit(l) \/ PutVerified(l)
  \/ enforceInstructionPolicy(l) \/ SubmitOrder(l)
  \/ ReadAfterOrder(l) \/ PutCounted(l) \/ RecordOrder(l) \/ PutReconciled(l)
  \/ TickFails(l)

LoopStep(l) == runAutopilotTick(l) \/ TickStep(l) \/ TickEnds(l) \/ Rearm(l)

-----------------------------------------------------------------------------
(* HTTP calls, the clock and the process.                                  *)

\* A control reads the row, stops or starts the loop at once, and only then
\* writes the row.  A resume does not ask what it resumes from.
ControlRead(c, op) ==
  /\ call[c].op = "none"
  /\ LET s == refreshSession(row) IN
     call' = [call EXCEPT ![c] =
       [op |-> op,
        status |-> CASE op = "kill" -> "killed"
                     [] op # "kill" /\ s = "expired" -> "expired"
                     [] op = "pause" /\ s # "expired" -> "paused"
                     [] op = "resume" /\ s # "expired" -> "running"]]
  /\ IF call'[c].status = "running" THEN startAutopilotLoop ELSE stopAutopilotLoop
  /\ stops' = IF op = "resume" THEN {} ELSE stops
  /\ UNCHANGED <<row, expired, liveSubmit, storeVars, ticking, booting, venueVars>>

ControlPut(c) ==
  /\ call[c].op \in {"pause", "resume", "kill"}
  /\ putAutopilotSession(call[c].status)
  /\ call' = [call EXCEPT ![c] = NoCall]
  /\ stops' = IF ResumePending THEN stops
              ELSE stops \cup {s \in {"kill", "quiet"} :
                     IF s = "kill" THEN call[c].op = "kill" ELSE ~ticking}
  /\ LoopsUnchanged
  /\ UNCHANGED <<expired, liveSubmit, storeVars, ticking, booting, venueVars>>

\* The event stream writes the row back if it has just expired, and starts
\* a loop, whether or not one is there, for a session that should have one.
WatchRead(c) ==
  /\ call[c].op = "none"
  /\ refreshSession(row) \in Looping \/ refreshSession(row) # row
  /\ call' = [call EXCEPT ![c] = [op |-> "watch", status |-> refreshSession(row)]]
  /\ LoopsUnchanged
  /\ UNCHANGED <<row, expired, liveSubmit, storeVars, ticking, booting, stops, venueVars>>

WatchAnswer(c) ==
  /\ call[c].op = "watch"
  /\ IF call[c].status \in Looping
     THEN startAutopilotLoop /\ UNCHANGED row
     ELSE LoopsUnchanged /\ putAutopilotSession(call[c].status)
  /\ call' = [call EXCEPT ![c] = NoCall]
  /\ UNCHANGED <<expired, liveSubmit, storeVars, ticking, booting, stops, venueVars>>

Expire ==
  /\ ~expired /\ expired' = TRUE
  /\ UNCHANGED <<row, liveSubmit, storeVars, loop, timerVars, ticking, callVars, venueVars>>

\* The half minute is over, so the next exit has a new work order.
WindowEnds ==
  /\ receipt # 0 /\ receipt' = 0 /\ lost' = lost + receipt
  /\ \A l \in Loops : loop[l].fill = 0
  /\ UNCHANGED <<row, expired, liveSubmit, position, orders, spent, loop, timerVars, ticking,
                 callVars, venue, sent>>

InFlight == Total([l \in Loops |-> Unrecorded(l)], NLoops)

\* The process dies, with its loops, its calls and its mutex.
WorkerRestarts ==
  /\ ~booting /\ booting' = TRUE
  /\ lost' = lost + InFlight
  /\ loop' = [l \in Loops |-> NoLoop] /\ registered' = 0 /\ ticking' = FALSE
  /\ raced' = FALSE
  /\ call' = [c \in Calls |-> NoCall]
  /\ UNCHANGED <<row, expired, liveSubmit, storeVars, venue, sent, stops>>

resumeAutopilotLoops ==
  /\ booting /\ booting' = FALSE
  /\ IF row \in Looping THEN startAutopilotLoop ELSE LoopsUnchanged
  /\ UNCHANGED <<row, expired, liveSubmit, storeVars, ticking, call, stops, venueVars>>

\* The scan throws: the worker logs it and serves without the loops.
StartupScanFails ==
  /\ booting /\ booting' = FALSE
  /\ raced' = TRUE
  /\ UNCHANGED <<row, expired, liveSubmit, storeVars, loop, registered, ticking, call, stops,
                 venueVars>>

AutopilotNext ==
  \/ \E l \in Loops : LoopStep(l)
  \/ \E c \in Calls :
       \/ \E op \in {"pause", "resume", "kill"} : ControlRead(c, op)
       \/ ControlPut(c) \/ WatchRead(c) \/ WatchAnswer(c)
  \/ Expire \/ WindowEnds \/ WorkerRestarts \/ resumeAutopilotLoops \/ StartupScanFails

AutopilotSpec == createAutopilotSession /\ [][AutopilotNext]_autopilotVars

-----------------------------------------------------------------------------
(* What the session promises.                                              *)

\* A pause or kill acknowledged while no tick was running and no resume was
\* pending holds: until a resume is asked for, no late write of a loop, a
\* watcher or the startup scan revives the session and no order is sent,
\* though orphaned loops may still fire.
QuietStopHolds ==
  "quiet" \in stops =>
    /\ row \notin Looping
    /\ \A l \in Loops : loop[l].pc \notin Ordering

\* After an acknowledged kill, once the tick it met is over, the session is
\* not running again unless somebody resumes it: "Kill switch active. No
\* autonomous execution is allowed."
KillHolds == "kill" \in stops => row # "running" \/ ticking

\* A risk halt ends in a running session only by the write of a resume, never
\* by a tick that still holds a copy from before the halt: "Risk halt remains
\* latched."
RiskHaltLatched ==
  [][row = "risk_halted" /\ row' = "running" =>
       \E c \in Calls : call[c].op = "resume" /\ call'[c].op = "none"]_autopilotVars

\* The venue never receives more opening orders than max_order_count, over
\* any number of loops, lost answers and restarts.
OpeningOrdersBounded == sent <= MaxOrders

\* The recorded position, the fills being recorded and the exit whose receipt
\* can still be had are what the venue holds, but for fills whose recording
\* was cut off for good.  A repeated exit neither loses nor repeats a fill.
BookMatchesVenue == position + InFlight + receipt = venue - lost

\* What the venue holds is within the capital ceiling, but for fills that
\* were never recorded.
ExposureBounded == Abs(venue) <= Ceiling + Abs(lost) + Abs(receipt)

\* A session that is running or halted has a loop that will trade or watch
\* it, unless a loop ended between the read and the write of a resume, which
\* starts the loop before it writes the row, or the startup scan failed, and
\* no loop was started since.
RunHasLoop ==
  row \in Looping /\ ~booting /\ ~raced /\ (\A c \in Calls : call[c].op \in {"none", "watch"})
    => \E l \in Loops : loop[l].pc # "none"
=============================================================================
