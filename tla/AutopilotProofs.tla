--------------------------- MODULE AutopilotProofs ---------------------------
(***************************************************************************)
(* What holds of an autopilot session for every number of timer loops and  *)
(* of concurrent calls, every policy and every size of its orders.         *)
(***************************************************************************)
EXTENDS Autopilot, SumsProofs, TLAPS

Control == {"pause", "resume", "kill"}
Busy == InTick \cup {"release"}

\* The tick read the position, and it is still what it read.
Holding == {"marked", "exiting", "tripped", "passed", "latched", "proposing", "exitorder"}
Filled == {"counting", "counted", "filling"}

-----------------------------------------------------------------------------
(* The inductive invariant, one idea at a time.                            *)

\* ACTIVE_TICKS admits one tick at a time, whichever loops are alive.
OneTick ==
  /\ \A l \in Loops : loop[l].pc \in Busy => ticking
  /\ \A k, l \in Loops : loop[k].pc \in Busy /\ loop[l].pc \in Busy => k = l

\* What a tick holds of the row: a copy from before a halt is not written
\* over the halt, because only the tick itself halts the row.
CopyOK(l) ==
  /\ loop[l].pc \in InTick \ {"reading"} /\ loop[l].copy = "running" => row # "risk_halted"
  /\ loop[l].pc = "putback" => loop[l].copy \notin Looping

\* What a call is about to write.
Intents ==
  \A c \in Calls :
    /\ call[c].op \in {"pause", "kill"} => call[c].status \notin Looping
    /\ call[c].op = "resume" => call[c].status \in {"running", "expired"}

\* After a quiet stop a tick gets no further than the read of the row.
QuietOK(l) == "quiet" \in stops /\ loop[l].pc \in InTick => loop[l].pc \in {"reading", "putback"}
Quiet == "quiet" \in stops => row \notin Looping /\ ~ResumePending

\* Every opening order was counted before it was sent.
CountOK(l) == loop[l].pc = "submitting" => sent < orders
Counted == sent <= orders

\* The tick's view of the position, and of the exit it records.
ViewOK(l) ==
  /\ loop[l].pc \in Holding => loop[l].held = position
  /\ loop[l].pc = "exitfill" => loop[l].fill = receipt

\* The recorded position is within the ceiling, and stays there whatever the
\* order or the exit under way fills.
CapitalOK(l) ==
  /\ loop[l].pc \in {"policy", "submitting"} => Abs(position + loop[l].order) <= Ceiling
  /\ loop[l].pc \in Filled => Abs(position + loop[l].fill) <= Ceiling
Capital == Abs(position) <= Ceiling /\ receipt \in Between(-position)

\* What the invariant says of one loop, and of what the loops share.
LoopOK(l) == CopyOK(l) /\ QuietOK(l) /\ CountOK(l) /\ ViewOK(l) /\ CapitalOK(l)
Shared == Quiet /\ Counted /\ Capital /\ BookMatchesVenue

\* A resume that will write "running" has a loop, or a loop ended since; a
\* run without a loop is about to be stopped.
LoopAlive == \E l \in Loops : loop[l].pc # "none"

Timers ==
  /\ \A c \in Calls : call[c].op = "resume" /\ call[c].status = "running" => raced \/ LoopAlive
  /\ row \in Looping /\ ~booting /\ ~raced /\ ~LoopAlive =>
       \E c \in Calls : call[c].op \in Control /\ call[c].status \notin Looping

AutopilotInv ==
  /\ AutopilotTypeOK /\ OneTick /\ Intents /\ Shared /\ Timers
  /\ \A l \in Loops : LoopOK(l)

-----------------------------------------------------------------------------
(* Types and sums.                                                         *)

\* A loop that is not in a tick, or has just left or entered one.
LEMMA AtType ==
  ASSUME NEW pc \in {"none", "timer", "release", "rearm", "reading"}
  PROVE  /\ At(pc) \in Loop /\ At(pc).pc = pc /\ At(pc).copy = "paused"
         /\ At(pc).held = 0 /\ At(pc).order = 0 /\ At(pc).fill = 0
         /\ NoLoop \in Loop /\ NoLoop.pc = "none"
BY DEF At, NoLoop, Loop, Status, InTick, Evaluating

\* The fills being recorded are a sum of integers.
LEMMA InFlightType ==
  ASSUME AutopilotTypeOK
  PROVE  /\ InFlight \in Int
         /\ \A l \in Loops : Unrecorded(l) \in Int
<1>1. \A l \in Loops : Unrecorded(l) \in Int
  BY DEF AutopilotTypeOK, Loop, Unrecorded
<1> DEFINE w == [l \in Loops |-> Unrecorded(l)]
<1>2. w \in [1..NLoops -> Int] /\ NLoops \in Nat /\ InFlight = Total(w, NLoops)
  BY <1>1, AutopilotAssumption DEF Loops, InFlight
<1> HIDE DEF w
<1>3. RunningTotal(w, NLoops) \in [0..NLoops -> Int] /\ NLoops \in 0..NLoops
  BY <1>2, RunningTotalDef
<1> QED BY <1>1, <1>2, <1>3 DEF Total

\* A step of one loop changes the sum by what that loop's entry changes.
LEMMA InFlightChange ==
  ASSUME AutopilotTypeOK, AutopilotTypeOK', NEW l \in Loops,
         \A k \in Loops : k # l => loop'[k] = loop[k]
  PROVE  InFlight' = InFlight + Unrecorded(l)' - Unrecorded(l)
<1> DEFINE v == [k \in Loops |-> Unrecorded(k)]'
           w == [k \in Loops |-> Unrecorded(k)]
<1>1. \A k \in Loops : Unrecorded(k) \in Int /\ Unrecorded(k)' \in Int
  BY DEF AutopilotTypeOK, Loop, Unrecorded
<1>2. /\ w \in [1..NLoops -> Int] /\ v \in [1..NLoops -> Int]
      /\ NLoops \in Nat /\ l \in 1..NLoops
  BY <1>1, AutopilotAssumption DEF Loops
<1>3. InFlight = Total(w, NLoops) /\ InFlight' = Total(v, NLoops)
  BY DEF InFlight
<1>4. \A k \in 1..NLoops : k # l => v[k] = w[k]
  BY DEF Unrecorded, Loops
<1>5. v[l] = Unrecorded(l)' /\ w[l] = Unrecorded(l)
  OBVIOUS
<1> HIDE DEF v, w
<1>6. Total(v, NLoops) = Total(w, NLoops) + v[l] - w[l]
  BY <1>2, <1>4, TotalUpdate
<1> QED BY <1>3, <1>5, <1>6

\* Steps that leave every loop that is in a tick alone leave the sum alone.
LEMMA InFlightKept ==
  ASSUME AutopilotTypeOK, AutopilotTypeOK',
         \A k \in Loops : loop'[k] = loop[k] \/ (loop[k].pc \notin InTick /\ loop'[k].pc \notin InTick)
  PROVE  InFlight' = InFlight
<1>1. \A k \in Loops : Unrecorded(k)' = Unrecorded(k)
  BY DEF Unrecorded, InTick, Recording
<1>2. [k \in Loops |-> Unrecorded(k)]' = [k \in Loops |-> Unrecorded(k)]
  BY <1>1
<1> QED BY <1>2 DEF InFlight

\* Where no loop records a fill, nothing is in flight.
LEMMA ColumnOfZeros ==
  ASSUME NEW w, w = [k \in Loops |-> 0]
  PROVE  Total(w, NLoops) = 0
<1>1. w \in [1..NLoops -> Int] /\ NLoops \in Nat /\ \A k \in 1..NLoops : w[k] = 0
  BY AutopilotAssumption DEF Loops
<1> QED BY <1>1, TotalZero

\* A fill lies between nothing and the whole order.
LEMMA BetweenType ==
  ASSUME NEW n \in Int, NEW f \in Between(n)
  PROVE  /\ f \in Int
         /\ n >= 0 => 0 <= f /\ f <= n
         /\ n <= 0 => n <= f /\ f <= 0
BY DEF Between

\* A size is a natural number.
LEMMA AbsType ==
  ASSUME NEW n \in Int
  PROVE  Abs(n) \in Nat /\ n <= Abs(n) /\ -n <= Abs(n) /\ (Abs(n) = n \/ Abs(n) = -n)
BY DEF Abs

\* What every step of a tick leaves alone.
TickFrame(l) ==
  /\ loop \in [Loops -> Loop] /\ loop' \in [Loops -> Loop]
  /\ \A k \in Loops : k # l => loop'[k] = loop[k]
  /\ UNCHANGED <<expired, liveSubmit, registered, raced, ticking, call, booting, stops>>

\* A tick that goes on to another step, or ends.
LEMMA GotoFacts ==
  ASSUME loop \in [Loops -> Loop], NEW l \in Loops, NEW pc \in Busy, Goto(l, pc)
  PROVE  /\ loop' \in [Loops -> Loop] /\ loop'[l].pc = pc
         /\ \A k \in Loops : k # l => loop'[k] = loop[k]
         /\ pc # "release" =>
              /\ loop'[l].copy = loop[l].copy /\ loop'[l].held = loop[l].held
              /\ loop'[l].order = loop[l].order /\ loop'[l].fill = loop[l].fill
<1>1. loop[l] \in Loop
  OBVIOUS
<1>2. CASE pc = "release"
  BY <1>2, AtType DEF Goto
<1>3. CASE pc # "release"
  <2>1. [loop[l] EXCEPT !.pc = pc] \in Loop
    BY <1>1, <1>3 DEF Loop, Busy
  <2>2. loop' = [loop EXCEPT ![l] = [loop[l] EXCEPT !.pc = pc]]
    BY <1>3 DEF Goto
  <2> QED BY <1>1, <1>3, <2>1, <2>2 DEF Loop
<1> QED BY <1>2, <1>3

\* A write of the tick's copy of the row.
LEMMA PutCopyFacts ==
  ASSUME AutopilotTypeOK, NEW l \in Loops, NEW pc \in Busy, PutCopy(l, pc)
  PROVE  /\ TickFrame(l) /\ loop'[l].pc = pc /\ row' = loop[l].copy
         /\ UNCHANGED <<position, orders, spent, receipt, venue, lost, sent>>
         /\ pc # "release" =>
              /\ loop'[l].copy = loop[l].copy /\ loop'[l].held = loop[l].held
              /\ loop'[l].order = loop[l].order /\ loop'[l].fill = loop[l].fill
<1>1. loop \in [Loops -> Loop]
  BY DEF AutopilotTypeOK
<1>2. Goto(l, pc) /\ row' = loop[l].copy /\ OnlyLoop /\ UNCHANGED <<storeVars, venueVars>>
  BY DEF PutCopy, putAutopilotSession
<1> QED BY <1>1, <1>2, GotoFacts DEF TickFrame, OnlyLoop, timerVars, callVars, storeVars, venueVars

\* A halt of the row.
LEMMA HaltFacts ==
  ASSUME AutopilotTypeOK, NEW l \in Loops, NEW pc \in {"exitorder", "release"}, Halt(l, pc)
  PROVE  /\ TickFrame(l) /\ loop'[l].pc = pc /\ row' = "risk_halted"
         /\ UNCHANGED <<position, orders, spent, receipt, venue, lost, sent>>
         /\ pc # "release" => loop'[l].copy = "risk_halted" /\ loop'[l].held = loop[l].held
<1>1. loop \in [Loops -> Loop] /\ loop[l] \in Loop
  BY DEF AutopilotTypeOK
<1>2. /\ row' = "risk_halted" /\ OnlyLoop /\ UNCHANGED <<storeVars, venueVars>>
      /\ loop' = [loop EXCEPT ![l] =
           IF pc = "release" THEN At(pc) ELSE [loop[l] EXCEPT !.copy = "risk_halted", !.pc = pc]]
  BY DEF Halt, putAutopilotSession
<1>3. /\ pc # "release" => [loop[l] EXCEPT !.copy = "risk_halted", !.pc = pc] \in Loop
      /\ [loop[l] EXCEPT !.copy = "risk_halted", !.pc = pc].pc = pc
      /\ [loop[l] EXCEPT !.copy = "risk_halted", !.pc = pc].copy = "risk_halted"
      /\ [loop[l] EXCEPT !.copy = "risk_halted", !.pc = pc].held = loop[l].held
  BY <1>1 DEF Loop, Status, InTick, Ordering
<1>4. /\ loop' \in [Loops -> Loop] /\ loop'[l].pc = pc
      /\ \A k \in Loops : k # l => loop'[k] = loop[k]
      /\ pc # "release" => loop'[l].copy = "risk_halted" /\ loop'[l].held = loop[l].held
  BY <1>1, <1>2, <1>3, AtType
<1> QED BY <1>1, <1>2, <1>4 DEF TickFrame, OnlyLoop, timerVars, callVars, storeVars, venueVars

\* The answer to an order, or its loss.
LEMMA AnswerFacts ==
  ASSUME AutopilotTypeOK, NEW l \in Loops, NEW answered \in BOOLEAN, NEW f \in Int,
         NEW pc \in {"exitfill", "counting"}, Answer(l, answered, f, pc)
  PROVE  /\ loop' \in [Loops -> Loop]
         /\ \A k \in Loops : k # l => loop'[k] = loop[k]
         /\ answered => loop'[l].pc = pc /\ loop'[l].copy = loop[l].copy /\ loop'[l].fill = f
         /\ ~answered => loop'[l].pc = "release"
<1>1. loop \in [Loops -> Loop] /\ loop[l] \in Loop /\ loop[l].copy \in Status
  BY DEF AutopilotTypeOK, Loop
<1> DEFINE new == [At(pc) EXCEPT !.copy = loop[l].copy, !.fill = f]
<1>2. new \in Loop /\ new.pc = pc /\ new.copy = loop[l].copy /\ new.fill = f
  <2>1. pc \in InTick
    BY DEF InTick, Recording
  <2>2. At(pc) \in Loop /\ At(pc).pc = pc
    BY <2>1 DEF At, NoLoop, Loop, Status
  <2> QED BY <1>1, <2>2 DEF Loop
<1>3. loop' = [loop EXCEPT ![l] = IF answered THEN new ELSE At("release")]
  BY DEF Answer
<1> HIDE DEF new
<1> QED BY <1>1, <1>2, <1>3, AtType


-----------------------------------------------------------------------------
(* The steps of a tick.                                                    *)

\* The values of the row, the store and the venue have their types.
ValuesOK ==
  /\ row \in Status /\ position \in Int /\ receipt \in Int
  /\ orders \in 0..MaxOrders /\ spent \in 0..MaxDaily
  /\ venue \in Int /\ lost \in Int /\ sent \in Nat

\* What the books gain, the venue gained, or it was lost.
Balanced(l) ==
  (position' - position) + (Unrecorded(l)' - Unrecorded(l)) + (receipt' - receipt)
    = (venue' - venue) - (lost' - lost)

\* Only the loop that is in a tick matters: the others wait or are gone.
LEMMA TickKeeps ==
  ASSUME AutopilotInv, NEW l \in Loops, TickFrame(l), loop[l].pc \in InTick, loop'[l].pc \in Busy,
         ValuesOK', LoopOK(l)', "quiet" \in stops => row' \notin Looping, Counted', Capital',
         Balanced(l)
  PROVE  AutopilotInv'
<1>1. AutopilotTypeOK /\ AutopilotTypeOK'
  BY DEF AutopilotInv, AutopilotTypeOK, ValuesOK, TickFrame
<1>2. \A k \in Loops : k # l => loop'[k] = loop[k] /\ loop[k].pc \notin Busy
  BY DEF AutopilotInv, OneTick, TickFrame, Busy
<1>3. OneTick'
  BY <1>2 DEF AutopilotInv, OneTick, TickFrame, Busy
<1>4. Intents' /\ (ResumePending' <=> ResumePending)
  BY DEF AutopilotInv, Intents, TickFrame, ResumePending
<1>5. LoopAlive' /\ Timers'
  <2>1. loop'[l].pc # "none"
    BY DEF Busy, InTick, Evaluating, Ordering, Recording
  <2> QED BY <2>1 DEF LoopAlive, Timers
<1>6. \A k \in Loops : LoopOK(k)'
  <2>1. ASSUME NEW k \in Loops, k # l PROVE LoopOK(k)'
    <3>1. loop'[k].pc \notin Busy
      BY <1>2, <2>1
    <3> QED BY <3>1 DEF LoopOK, CopyOK, QuietOK, CountOK, ViewOK, CapitalOK, Busy, InTick,
               Evaluating, Ordering, Recording, Holding, Filled
  <2> QED BY <2>1
<1>7. BookMatchesVenue'
  <2>1. InFlight' = InFlight + Unrecorded(l)' - Unrecorded(l)
    BY <1>1, InFlightChange DEF TickFrame
  <2>2. /\ InFlight \in Int /\ Unrecorded(l) \in Int /\ Unrecorded(l)' \in Int
        /\ position \in Int /\ receipt \in Int /\ venue \in Int /\ lost \in Int
        /\ position' \in Int /\ receipt' \in Int /\ venue' \in Int /\ lost' \in Int
    BY <1>1, InFlightType DEF AutopilotTypeOK, Unrecorded, Loop
  <2>3. position + InFlight + receipt = venue - lost
    BY DEF AutopilotInv, Shared, BookMatchesVenue
  <2> QED BY <2>1, <2>2, <2>3 DEF Balanced, BookMatchesVenue
<1>8. Quiet'
  BY <1>4 DEF AutopilotInv, Shared, Quiet, TickFrame
<1> QED BY <1>1, <1>3, <1>4, <1>5, <1>6, <1>7, <1>8 DEF AutopilotInv, Shared

\* What a tick may rely on before its step.
LEMMA TickBefore ==
  ASSUME AutopilotInv, NEW l \in Loops
  PROVE  /\ AutopilotTypeOK /\ ValuesOK /\ LoopOK(l) /\ Counted /\ Capital
         /\ loop \in [Loops -> Loop] /\ loop[l] \in Loop
         /\ "quiet" \in stops => row \notin Looping
         /\ "quiet" \in stops /\ loop[l].pc \in InTick => loop[l].pc \in {"reading", "putback"}
BY DEF AutopilotInv, AutopilotTypeOK, ValuesOK, Shared, Quiet, LoopOK, QuietOK

\* The whole row is written from the tick's copy.
LEMMA PutSteps ==
  ASSUME AutopilotInv, NEW l \in Loops,
         PutBack(l) \/ PutSnapshot(l) \/ PutExit(l) \/ PutMarked(l) \/ PutVerified(l)
           \/ PutCounted(l) \/ PutReconciled(l)
  PROVE  AutopilotInv'
<1>0. /\ AutopilotTypeOK /\ ValuesOK /\ LoopOK(l) /\ Counted /\ Capital
      /\ loop \in [Loops -> Loop] /\ loop[l] \in Loop
      /\ "quiet" \in stops /\ loop[l].pc \in InTick => loop[l].pc \in {"reading", "putback"}
  BY TickBefore
<1> DEFINE Puts(from, to) == loop[l].pc = from /\ PutCopy(l, to)
<1>1. PICK from \in {"putback", "snapshot", "exitdone", "passed", "verified", "counted", "reconciled"},
           to \in {"release", "marking", "latched", "proposing", "filling"} :
        /\ Puts(from, to)
        /\ to = "filling" <=> from = "counted"
        /\ to = "marking" <=> from = "snapshot"
        /\ to \in {"latched", "proposing"} <=> from = "passed"
  BY DEF PutBack, PutSnapshot, PutExit, PutMarked, PutVerified, PutCounted, PutReconciled
<1>2. to \in Busy /\ from \in InTick
  BY DEF Busy, InTick, Evaluating, Ordering, Recording
<1>3. /\ TickFrame(l) /\ loop[l].pc = from /\ loop'[l].pc = to /\ row' = loop[l].copy
      /\ UNCHANGED <<position, orders, spent, receipt, venue, lost, sent>>
      /\ to # "release" =>
           /\ loop'[l].copy = loop[l].copy /\ loop'[l].held = loop[l].held
           /\ loop'[l].order = loop[l].order /\ loop'[l].fill = loop[l].fill
  BY <1>0, <1>1, <1>2, PutCopyFacts
<1>4. loop[l].copy \in Status
  BY <1>0 DEF Loop
<1>5. ValuesOK' /\ Counted' /\ Capital'
  BY <1>0, <1>3, <1>4 DEF ValuesOK, Counted, Capital
<1>6. "quiet" \in stops => from = "putback" /\ row' \notin Looping
  BY <1>0, <1>2, <1>3 DEF LoopOK, CopyOK
<1>7. LoopOK(l)'
  <2>1. CopyOK(l)'
    BY <1>1, <1>3 DEF CopyOK, InTick, Evaluating, Ordering, Recording
  <2>2. QuietOK(l)'
    BY <1>1, <1>3, <1>6 DEF QuietOK, TickFrame, InTick, Evaluating, Ordering, Recording
  <2>3. CountOK(l)' /\ ViewOK(l)' /\ CapitalOK(l)'
    BY <1>0, <1>1, <1>3 DEF LoopOK, CountOK, ViewOK, CapitalOK, Holding, Filled
  <2> QED BY <2>1, <2>2, <2>3 DEF LoopOK
<1>8. Balanced(l)
  <2>1. Unrecorded(l)' = Unrecorded(l) /\ Unrecorded(l) \in Int
    BY <1>0, <1>1, <1>3 DEF Unrecorded, Loop
  <2> QED BY <1>0, <1>3, <2>1 DEF Balanced, ValuesOK
<1> QED BY <1>2, <1>3, <1>5, <1>6, <1>7, <1>8, TickKeeps

\* The row is halted.
LEMMA HaltSteps ==
  ASSUME AutopilotInv, NEW l \in Loops, BeginExit(l) \/ lossCircuitTrips(l) \/ StayHalted(l)
  PROVE  AutopilotInv'
<1>0. /\ AutopilotTypeOK /\ ValuesOK /\ LoopOK(l) /\ Counted /\ Capital
      /\ loop \in [Loops -> Loop] /\ loop[l] \in Loop
      /\ "quiet" \in stops /\ loop[l].pc \in InTick => loop[l].pc \in {"reading", "putback"}
  BY TickBefore
<1>1. PICK to \in {"exitorder", "release"} :
        Halt(l, to) /\ loop[l].pc \in {"exiting", "tripped", "latched"}
  BY DEF BeginExit, lossCircuitTrips, StayHalted
<1>2. to \in Busy /\ loop[l].pc \in InTick /\ "quiet" \notin stops
  BY <1>0, <1>1 DEF Busy, InTick, Evaluating, Ordering
<1>3. /\ TickFrame(l) /\ loop'[l].pc = to /\ row' = "risk_halted"
      /\ UNCHANGED <<position, orders, spent, receipt, venue, lost, sent>>
      /\ to # "release" => loop'[l].copy = "risk_halted" /\ loop'[l].held = loop[l].held
  BY <1>0, <1>1, HaltFacts
<1>4. ValuesOK' /\ Counted' /\ Capital'
  BY <1>0, <1>3 DEF ValuesOK, Counted, Capital, Status
<1>5. LoopOK(l)'
  <2>1. CopyOK(l)' /\ QuietOK(l)'
    BY <1>1, <1>2, <1>3 DEF CopyOK, QuietOK, TickFrame, InTick, Evaluating, Ordering, Recording
  <2>2. CountOK(l)' /\ ViewOK(l)' /\ CapitalOK(l)'
    BY <1>0, <1>1, <1>3 DEF LoopOK, CountOK, ViewOK, CapitalOK, Holding, Filled
  <2> QED BY <2>1, <2>2 DEF LoopOK
<1>6. Balanced(l)
  <2>1. Unrecorded(l)' = 0 /\ Unrecorded(l) = 0
    BY <1>1, <1>3 DEF Unrecorded
  <2> QED BY <1>0, <1>3, <2>1 DEF Balanced, ValuesOK
<1> QED BY <1>2, <1>3, <1>4, <1>5, <1>6, TickKeeps


\* The tick reads the row, the position or an earlier receipt, or proposes.
\* What it reads is in its own copy; the stored state is as it was.
LEMMA ReadKeeps ==
  ASSUME AutopilotInv, NEW l \in Loops, TickFrame(l), loop[l].pc \in InTick, loop'[l].pc \in Busy,
         loop[l].pc \notin Filled, loop'[l].pc \notin Filled,
         UNCHANGED <<row, position, orders, spent, receipt, venue, lost, sent>>, LoopOK(l)'
  PROVE  AutopilotInv'
<1>0. /\ AutopilotTypeOK /\ ValuesOK /\ Counted /\ Capital
      /\ "quiet" \in stops => row \notin Looping
  BY TickBefore
<1>1. ValuesOK' /\ Counted' /\ Capital'
  BY <1>0 DEF ValuesOK, Counted, Capital
<1>2. Balanced(l)
  <2>1. Unrecorded(l)' = 0 /\ Unrecorded(l) = 0
    BY DEF Unrecorded, Filled
  <2> QED BY <1>0, <2>1 DEF Balanced, ValuesOK
<1> QED BY <1>0, <1>1, <1>2, TickKeeps

\* The read of the row decides whether the tick goes on.
LEMMA ReadSessionStep ==
  ASSUME AutopilotInv, NEW l \in Loops, ReadSession(l)
  PROVE  AutopilotInv'
<1>0. /\ AutopilotTypeOK /\ ValuesOK /\ LoopOK(l) /\ loop \in [Loops -> Loop] /\ loop[l] \in Loop
      /\ "quiet" \in stops => row \notin Looping
  BY TickBefore
<1> DEFINE s == refreshSession(row)
           pc == IF s \in Looping THEN "snapshot" ELSE "putback"
<1>1. s \in Status /\ (s = row \/ s = "expired")
  BY <1>0 DEF refreshSession, ValuesOK, Status
<1>2. /\ loop[l].pc = "reading" /\ loop' = [loop EXCEPT ![l].copy = s, ![l].pc = pc]
      /\ UNCHANGED <<row, storeVars, venueVars>> /\ OnlyLoop
  BY DEF ReadSession
<1> HIDE DEF s
<1>3. pc \in {"snapshot", "putback"} /\ pc \in InTick
  BY DEF InTick, Evaluating
<1>4. [loop[l] EXCEPT !.copy = s, !.pc = pc] \in Loop
  BY <1>0, <1>1, <1>3 DEF Loop
<1>5. /\ loop' \in [Loops -> Loop] /\ loop'[l].pc = pc /\ loop'[l].copy = s
      /\ \A k \in Loops : k # l => loop'[k] = loop[k]
  BY <1>0, <1>2, <1>4 DEF Loop
<1>6. TickFrame(l) /\ UNCHANGED <<row, position, orders, spent, receipt, venue, lost, sent>>
  BY <1>0, <1>2, <1>5 DEF TickFrame, OnlyLoop, timerVars, callVars, storeVars, venueVars
<1>7. LoopOK(l)'
  <2>1. CopyOK(l)' /\ QuietOK(l)'
    BY <1>0, <1>1, <1>5, <1>6 DEF CopyOK, QuietOK, Looping, TickFrame
  <2>2. CountOK(l)' /\ ViewOK(l)' /\ CapitalOK(l)'
    BY <1>5 DEF CountOK, ViewOK, CapitalOK, Holding, Filled
  <2> QED BY <2>1, <2>2 DEF LoopOK
<1> QED BY <1>2, <1>3, <1>5, <1>6, <1>7, ReadKeeps DEF Busy, InTick, Evaluating, Filled

\* The positions are read.
LEMMA ListPositionsStep ==
  ASSUME AutopilotInv, NEW l \in Loops, ListPositions(l)
  PROVE  AutopilotInv'
<1>0. /\ AutopilotTypeOK /\ ValuesOK /\ LoopOK(l) /\ loop \in [Loops -> Loop] /\ loop[l] \in Loop
      /\ "quiet" \in stops /\ loop[l].pc \in InTick => loop[l].pc \in {"reading", "putback"}
  BY TickBefore
<1>1. /\ loop[l].pc = "marking" /\ loop' = [loop EXCEPT ![l].held = position, ![l].pc = "marked"]
      /\ UNCHANGED <<row, storeVars, venueVars>> /\ OnlyLoop
  BY DEF ListPositions
<1>2. "marking" \in InTick /\ "marked" \in InTick
  BY DEF InTick, Evaluating
<1>3. [loop[l] EXCEPT !.held = position, !.pc = "marked"] \in Loop
  BY <1>0, <1>2 DEF Loop, ValuesOK
<1>4. /\ loop' \in [Loops -> Loop] /\ loop'[l].pc = "marked" /\ loop'[l].held = position
      /\ loop'[l].copy = loop[l].copy
      /\ \A k \in Loops : k # l => loop'[k] = loop[k]
  BY <1>0, <1>1, <1>3 DEF Loop
<1>5. TickFrame(l) /\ UNCHANGED <<row, position, orders, spent, receipt, venue, lost, sent>>
  BY <1>0, <1>1, <1>4 DEF TickFrame, OnlyLoop, timerVars, callVars, storeVars, venueVars
<1>6. LoopOK(l)'
  <2>1. CopyOK(l)' /\ QuietOK(l)'
    BY <1>0, <1>1, <1>2, <1>4, <1>5 DEF LoopOK, CopyOK, QuietOK, TickFrame
  <2>2. CountOK(l)' /\ ViewOK(l)' /\ CapitalOK(l)'
    BY <1>4, <1>5 DEF CountOK, ViewOK, CapitalOK, Holding, Filled
  <2> QED BY <2>1, <2>2 DEF LoopOK
<1> QED BY <1>1, <1>2, <1>4, <1>5, <1>6, ReadKeeps DEF Busy, Filled

\* The tick reads the row again, before it writes it.
LEMMA RereadSteps ==
  ASSUME AutopilotInv, NEW l \in Loops, VerifyNoSubmit(l) \/ ReadAfterOrder(l)
  PROVE  AutopilotInv'
<1>0. /\ AutopilotTypeOK /\ ValuesOK /\ LoopOK(l) /\ Counted /\ Capital
      /\ loop \in [Loops -> Loop] /\ loop[l] \in Loop
      /\ "quiet" \in stops => row \notin Looping
      /\ "quiet" \in stops /\ loop[l].pc \in InTick => loop[l].pc \in {"reading", "putback"}
  BY TickBefore
<1>1. PICK from \in {"verifying", "counting"}, to \in {"verified", "counted"} :
        /\ from = "counting" <=> to = "counted"
        /\ loop[l].pc = from /\ loop' = [loop EXCEPT ![l].copy = row, ![l].pc = to]
        /\ UNCHANGED <<row, storeVars, venueVars>> /\ OnlyLoop
  BY DEF VerifyNoSubmit, ReadAfterOrder
<1>2. from \in InTick /\ to \in InTick
  BY DEF InTick, Evaluating, Recording
<1>3. [loop[l] EXCEPT !.copy = row, !.pc = to] \in Loop
  BY <1>0, <1>2 DEF Loop, ValuesOK
<1>4. /\ loop' \in [Loops -> Loop] /\ loop'[l].pc = to /\ loop'[l].copy = row
      /\ loop'[l].fill = loop[l].fill
      /\ \A k \in Loops : k # l => loop'[k] = loop[k]
  BY <1>0, <1>1, <1>3 DEF Loop
<1>5. TickFrame(l) /\ UNCHANGED <<row, position, orders, spent, receipt, venue, lost, sent>>
  BY <1>0, <1>1, <1>4 DEF TickFrame, OnlyLoop, timerVars, callVars, storeVars, venueVars
<1>6. LoopOK(l)'
  <2>1. CopyOK(l)' /\ QuietOK(l)'
    BY <1>0, <1>1, <1>2, <1>4, <1>5 DEF CopyOK, QuietOK, TickFrame
  <2>2. CountOK(l)' /\ ViewOK(l)' /\ CapitalOK(l)'
    BY <1>0, <1>1, <1>4, <1>5 DEF LoopOK, CountOK, ViewOK, CapitalOK, Holding, Filled
  <2> QED BY <2>1, <2>2 DEF LoopOK
<1>7. ValuesOK' /\ Counted' /\ Capital'
  BY <1>0, <1>5 DEF ValuesOK, Counted, Capital
<1>8. Balanced(l)
  <2>1. Unrecorded(l)' = Unrecorded(l) /\ Unrecorded(l) \in Int
    BY <1>0, <1>1, <1>4 DEF Unrecorded, Loop
  <2> QED BY <1>0, <1>5, <2>1 DEF Balanced, ValuesOK
<1> QED BY <1>0, <1>1, <1>2, <1>4, <1>5, <1>6, <1>7, <1>8, TickKeeps DEF Busy

\* A repeated exit gets the receipt of the first one.
LEMMA ReplayExitStep ==
  ASSUME AutopilotInv, NEW l \in Loops, ReplayExit(l)
  PROVE  AutopilotInv'
<1>0. /\ AutopilotTypeOK /\ ValuesOK /\ LoopOK(l) /\ loop \in [Loops -> Loop]
      /\ "quiet" \in stops /\ loop[l].pc \in InTick => loop[l].pc \in {"reading", "putback"}
  BY TickBefore
<1>1. /\ loop[l].pc = "exitorder" /\ Answer(l, TRUE, receipt, "exitfill")
      /\ UNCHANGED <<row, storeVars, venueVars>> /\ OnlyLoop /\ receipt \in Int
  BY <1>0 DEF ReplayExit, ValuesOK
<1>2. "exitorder" \in InTick /\ "exitfill" \in InTick
  BY DEF InTick, Ordering, Recording
<1>3. /\ loop' \in [Loops -> Loop] /\ \A k \in Loops : k # l => loop'[k] = loop[k]
      /\ loop'[l].pc = "exitfill" /\ loop'[l].copy = loop[l].copy /\ loop'[l].fill = receipt
  BY <1>0, <1>1, AnswerFacts
<1>4. TickFrame(l) /\ UNCHANGED <<row, position, orders, spent, receipt, venue, lost, sent>>
  BY <1>0, <1>1, <1>3 DEF TickFrame, OnlyLoop, timerVars, callVars, storeVars, venueVars
<1>5. LoopOK(l)'
  <2>1. CopyOK(l)' /\ QuietOK(l)'
    BY <1>0, <1>1, <1>2, <1>3, <1>4 DEF LoopOK, CopyOK, QuietOK, TickFrame
  <2>2. CountOK(l)' /\ ViewOK(l)' /\ CapitalOK(l)'
    BY <1>3, <1>4 DEF CountOK, ViewOK, CapitalOK, Holding, Filled
  <2> QED BY <2>1, <2>2 DEF LoopOK
<1> QED BY <1>1, <1>2, <1>3, <1>4, <1>5, ReadKeeps DEF Busy, Filled

\* A proposal fits the ceiling with all of the order filled.
LEMMA ProposeStep ==
  ASSUME AutopilotInv, NEW l \in Loops, Propose(l)
  PROVE  AutopilotInv'
<1>0. /\ AutopilotTypeOK /\ ValuesOK /\ LoopOK(l) /\ loop \in [Loops -> Loop] /\ loop[l] \in Loop
      /\ "quiet" \in stops /\ loop[l].pc \in InTick => loop[l].pc \in {"reading", "putback"}
  BY TickBefore
<1>1. PICK s \in Sizes, sign \in {1, -1} :
        /\ liveSubmit => projectRunExposure(loop[l].held, sign * s) <= Ceiling
        /\ loop' = [loop EXCEPT ![l].held = 0, ![l].order = sign * s,
                                ![l].pc = IF liveSubmit THEN "policy" ELSE "verifying"]
  BY DEF Propose
<1> DEFINE to == IF liveSubmit THEN "policy" ELSE "verifying"
           size == sign * s
<1>2. /\ loop[l].pc = "proposing" /\ UNCHANGED <<row, storeVars, venueVars>> /\ OnlyLoop
      /\ loop' = [loop EXCEPT ![l].held = 0, ![l].order = size, ![l].pc = to]
      /\ to = "policy" => projectRunExposure(loop[l].held, size) <= Ceiling
  BY <1>1 DEF Propose
<1>3. size \in Int /\ to \in {"policy", "verifying"}
  BY AutopilotAssumption
<1> HIDE DEF size, to
<1>4. "proposing" \in InTick /\ to \in InTick
  BY <1>3 DEF InTick, Evaluating, Ordering
<1>5. [loop[l] EXCEPT !.held = 0, !.order = size, !.pc = to] \in Loop
  <2>1. [loop[l] EXCEPT !.held = 0] \in Loop
    BY <1>0 DEF Loop
  <2>2. \A r \in Loop : [r EXCEPT !.order = size] \in Loop
    BY <1>3 DEF Loop
  <2>3. \A r \in Loop : [r EXCEPT !.pc = to] \in Loop
    BY <1>4 DEF Loop
  <2> QED BY <2>1, <2>2, <2>3
<1>6. /\ loop' \in [Loops -> Loop] /\ loop'[l].pc = to /\ loop'[l].order = size
      /\ loop'[l].copy = loop[l].copy
      /\ \A k \in Loops : k # l => loop'[k] = loop[k]
  BY <1>0, <1>2, <1>5 DEF Loop
<1>7. TickFrame(l) /\ UNCHANGED <<row, position, orders, spent, receipt, venue, lost, sent>>
  BY <1>0, <1>2, <1>6 DEF TickFrame, OnlyLoop, timerVars, callVars, storeVars, venueVars
<1>8. LoopOK(l)'
  <2>1. CopyOK(l)' /\ QuietOK(l)'
    BY <1>0, <1>2, <1>3, <1>4, <1>6, <1>7 DEF LoopOK, CopyOK, QuietOK, TickFrame
  <2>2. CountOK(l)' /\ ViewOK(l)'
    BY <1>3, <1>6 DEF CountOK, ViewOK, Holding
  <2>3. CapitalOK(l)'
    <3>1. loop[l].held = position
      BY <1>0, <1>2 DEF LoopOK, ViewOK, Holding
    <3> QED BY <1>2, <1>3, <1>6, <1>7, <3>1 DEF CapitalOK, projectRunExposure, Filled
  <2> QED BY <2>1, <2>2, <2>3 DEF LoopOK
<1> QED BY <1>2, <1>3, <1>4, <1>6, <1>7, <1>8, ReadKeeps DEF Busy, Filled


\* The marks are written back over an unchanged position.
LEMMA PutMarksStep ==
  ASSUME AutopilotInv, NEW l \in Loops, PutMarks(l)
  PROVE  AutopilotInv'
<1>0. /\ AutopilotTypeOK /\ ValuesOK /\ LoopOK(l) /\ loop \in [Loops -> Loop] /\ loop[l] \in Loop
      /\ "quiet" \in stops /\ loop[l].pc \in InTick => loop[l].pc \in {"reading", "putback"}
  BY TickBefore
<1>1. PICK to \in {"exiting", "tripped", "passed"} : Goto(l, to)
  BY DEF PutMarks
<1>2. /\ loop[l].pc = "marked" /\ position' = loop[l].held
      /\ UNCHANGED <<row, orders, spent, receipt, venueVars>> /\ OnlyLoop
  BY DEF PutMarks
<1>3. "marked" \in InTick /\ to \in InTick
  BY DEF InTick, Evaluating
<1>4. /\ loop' \in [Loops -> Loop] /\ loop'[l].pc = to
      /\ loop'[l].copy = loop[l].copy /\ loop'[l].held = loop[l].held
      /\ \A k \in Loops : k # l => loop'[k] = loop[k]
  BY <1>0, <1>1, <1>3, GotoFacts DEF Busy
<1>5. loop[l].held = position
  BY <1>0, <1>2 DEF LoopOK, ViewOK, Holding
<1>6. TickFrame(l) /\ UNCHANGED <<row, position, orders, spent, receipt, venue, lost, sent>>
  BY <1>0, <1>2, <1>4, <1>5 DEF TickFrame, OnlyLoop, timerVars, callVars, venueVars
<1>7. LoopOK(l)'
  <2>1. CopyOK(l)' /\ QuietOK(l)'
    BY <1>0, <1>2, <1>3, <1>4, <1>6 DEF LoopOK, CopyOK, QuietOK, TickFrame
  <2>2. CountOK(l)' /\ ViewOK(l)' /\ CapitalOK(l)'
    BY <1>4, <1>5, <1>6 DEF CountOK, ViewOK, CapitalOK, Holding, Filled
  <2> QED BY <2>1, <2>2 DEF LoopOK
<1> QED BY <1>2, <1>3, <1>4, <1>6, <1>7, ReadKeeps DEF Busy, Filled

\* The counters are raised before the order leaves.
LEMMA PolicyStep ==
  ASSUME AutopilotInv, NEW l \in Loops, enforceInstructionPolicy(l)
  PROVE  AutopilotInv'
<1>0. /\ AutopilotTypeOK /\ ValuesOK /\ LoopOK(l) /\ Counted /\ Capital
      /\ loop \in [Loops -> Loop] /\ loop[l] \in Loop
      /\ "quiet" \in stops /\ loop[l].pc \in InTick => loop[l].pc \in {"reading", "putback"}
  BY TickBefore
<1>1. PICK to \in {"submitting", "release"} :
        /\ Goto(l, to)
        /\ to = "submitting" => orders < MaxOrders /\ orders' = orders + 1
        /\ to = "release" => orders' = orders
  BY DEF enforceInstructionPolicy
<1>2. /\ loop[l].pc = "policy" /\ spent + Abs(loop[l].order) <= MaxDaily
      /\ spent' = spent + Abs(loop[l].order)
      /\ UNCHANGED <<row, position, receipt, venueVars>> /\ OnlyLoop
  BY DEF enforceInstructionPolicy, incrementPolicyAmount
<1>3. "policy" \in InTick /\ to \in Busy /\ "quiet" \notin stops
  BY <1>0, <1>2 DEF Busy, InTick, Ordering
<1>4. /\ loop' \in [Loops -> Loop] /\ loop'[l].pc = to
      /\ to = "submitting" => loop'[l].copy = loop[l].copy /\ loop'[l].order = loop[l].order
      /\ \A k \in Loops : k # l => loop'[k] = loop[k]
  BY <1>0, <1>1, <1>3, GotoFacts
<1>5. TickFrame(l) /\ UNCHANGED <<row, position, receipt, venue, lost, sent>>
  BY <1>0, <1>2, <1>4 DEF TickFrame, OnlyLoop, timerVars, callVars, venueVars
<1>6. /\ orders' \in 0..MaxOrders /\ orders' >= orders
      /\ to = "submitting" => orders' = orders + 1
  BY <1>0, <1>1, AutopilotAssumption DEF ValuesOK
<1>7. ValuesOK'
  <2>1. Abs(loop[l].order) \in Nat /\ spent \in 0..MaxDaily /\ MaxDaily \in Nat
    BY <1>0, AbsType, AutopilotAssumption DEF Loop, ValuesOK
  <2>2. spent' \in 0..MaxDaily
    BY <1>2, <2>1
  <2> QED BY <1>0, <1>5, <1>6, <2>2 DEF ValuesOK
<1>8. Counted' /\ Capital' /\ (to = "submitting" => sent' < orders')
  BY <1>0, <1>5, <1>6, AutopilotAssumption DEF Counted, Capital, ValuesOK
<1>9. LoopOK(l)'
  <2>1. CopyOK(l)' /\ QuietOK(l)'
    BY <1>0, <1>1, <1>2, <1>3, <1>4, <1>5
       DEF LoopOK, CopyOK, QuietOK, TickFrame, InTick, Evaluating, Ordering, Recording
  <2>2. CountOK(l)' /\ ViewOK(l)' /\ CapitalOK(l)'
    BY <1>0, <1>1, <1>2, <1>4, <1>5, <1>8 DEF LoopOK, CountOK, ViewOK, CapitalOK, Holding, Filled
  <2> QED BY <2>1, <2>2 DEF LoopOK
<1>10. Balanced(l)
  <2>1. Unrecorded(l)' = 0 /\ Unrecorded(l) = 0
    BY <1>2, <1>4 DEF Unrecorded
  <2> QED BY <1>0, <1>5, <2>1 DEF Balanced, ValuesOK
<1> QED BY <1>2, <1>3, <1>4, <1>5, <1>7, <1>8, <1>9, <1>10, TickKeeps

\* An exit fills at most the position the tick read.
LEMMA SubmitExitStep ==
  ASSUME AutopilotInv, NEW l \in Loops, SubmitExit(l)
  PROVE  AutopilotInv'
<1>0. /\ AutopilotTypeOK /\ ValuesOK /\ LoopOK(l) /\ Counted /\ Capital
      /\ loop \in [Loops -> Loop] /\ loop[l] \in Loop
      /\ "quiet" \in stops /\ loop[l].pc \in InTick => loop[l].pc \in {"reading", "putback"}
  BY TickBefore
<1>1. PICK f \in Between(-loop[l].held) \cap Between(-venue), answered \in BOOLEAN :
        /\ venue' = venue + f
        /\ lost' = IF answered THEN lost ELSE lost + f
        /\ receipt' = IF answered THEN f ELSE 0
        /\ Answer(l, answered, f, "exitfill")
  BY DEF SubmitExit
<1>2. /\ loop[l].pc = "exitorder" /\ receipt = 0
      /\ UNCHANGED <<row, position, orders, spent, sent>> /\ OnlyLoop
  BY DEF SubmitExit
<1>3. "exitorder" \in InTick /\ "exitfill" \in InTick /\ "quiet" \notin stops
  BY <1>0, <1>2 DEF InTick, Ordering, Recording
<1>4. loop[l].held = position /\ position \in Int /\ f \in Int /\ f \in Between(-position)
  <2>1. loop[l].held = position /\ position \in Int
    BY <1>0, <1>2 DEF LoopOK, ViewOK, Holding, ValuesOK
  <2> QED BY <2>1, BetweenType
<1>5. /\ loop' \in [Loops -> Loop] /\ \A k \in Loops : k # l => loop'[k] = loop[k]
      /\ answered => loop'[l].pc = "exitfill" /\ loop'[l].copy = loop[l].copy /\ loop'[l].fill = f
      /\ ~answered => loop'[l].pc = "release"
  BY <1>0, <1>1, <1>4, AnswerFacts
<1>6. TickFrame(l)
  BY <1>0, <1>2, <1>5 DEF TickFrame, OnlyLoop, timerVars, callVars
<1>7. ValuesOK' /\ Counted'
  BY <1>0, <1>1, <1>2, <1>4 DEF ValuesOK, Counted
<1>8. Capital'
  <2>1. 0 \in Between(-position)
    BY <1>4 DEF Between
  <2> QED BY <1>0, <1>1, <1>2, <1>4, <2>1 DEF Capital
<1>9. LoopOK(l)'
  <2>1. CopyOK(l)' /\ QuietOK(l)'
    BY <1>0, <1>2, <1>3, <1>5, <1>6
       DEF LoopOK, CopyOK, QuietOK, TickFrame, InTick, Evaluating, Ordering, Recording
  <2>2. CountOK(l)' /\ ViewOK(l)' /\ CapitalOK(l)'
    BY <1>1, <1>5 DEF CountOK, ViewOK, CapitalOK, Holding, Filled
  <2> QED BY <2>1, <2>2 DEF LoopOK
<1>10. Balanced(l)
  <2>1. Unrecorded(l)' = 0 /\ Unrecorded(l) = 0
    BY <1>2, <1>5 DEF Unrecorded
  <2> QED BY <1>0, <1>1, <1>2, <1>4, <2>1 DEF Balanced, ValuesOK
<1> QED BY <1>2, <1>3, <1>5, <1>6, <1>7, <1>8, <1>9, <1>10, TickKeeps DEF Busy

\* An order that fits the ceiling fits it whatever part of it fills.
LEMMA PartFits ==
  ASSUME NEW p \in Int, NEW o \in Int, NEW f \in Between(o),
         Abs(p) <= Ceiling, Abs(p + o) <= Ceiling
  PROVE  Abs(p + f) <= Ceiling
<1>1. f \in Int /\ (o >= 0 => 0 <= f /\ f <= o) /\ (o <= 0 => o <= f /\ f <= 0)
  BY BetweenType
<1>2. Ceiling \in Nat
  BY AutopilotAssumption
<1> QED BY <1>1, <1>2 DEF Abs

\* The order reaches the venue.
LEMMA SubmitOrderStep ==
  ASSUME AutopilotInv, NEW l \in Loops, SubmitOrder(l)
  PROVE  AutopilotInv'
<1>0. /\ AutopilotTypeOK /\ ValuesOK /\ LoopOK(l) /\ Counted /\ Capital
      /\ loop \in [Loops -> Loop] /\ loop[l] \in Loop
      /\ "quiet" \in stops /\ loop[l].pc \in InTick => loop[l].pc \in {"reading", "putback"}
  BY TickBefore
<1>1. PICK f \in Between(loop[l].order), answered \in BOOLEAN :
        /\ venue' = venue + f
        /\ lost' = IF answered THEN lost ELSE lost + f
        /\ Answer(l, answered, f, "counting")
  BY DEF SubmitOrder
<1>2. /\ loop[l].pc = "submitting" /\ sent' = sent + 1
      /\ UNCHANGED <<row, storeVars>> /\ OnlyLoop
  BY DEF SubmitOrder
<1>3. "submitting" \in InTick /\ "counting" \in InTick /\ "quiet" \notin stops
  BY <1>0, <1>2 DEF InTick, Ordering, Recording
<1>4. loop[l].order \in Int /\ f \in Int /\ position \in Int /\ receipt \in Int
  BY <1>0, BetweenType DEF Loop, ValuesOK
<1>5. /\ loop' \in [Loops -> Loop] /\ \A k \in Loops : k # l => loop'[k] = loop[k]
      /\ answered => loop'[l].pc = "counting" /\ loop'[l].copy = loop[l].copy /\ loop'[l].fill = f
      /\ ~answered => loop'[l].pc = "release"
  BY <1>0, <1>1, <1>4, AnswerFacts
<1>6. TickFrame(l) /\ UNCHANGED <<row, position, orders, spent, receipt>>
  BY <1>0, <1>2, <1>5 DEF TickFrame, OnlyLoop, timerVars, callVars, storeVars
<1>7. ValuesOK' /\ Capital'
  BY <1>0, <1>1, <1>2, <1>4, <1>6 DEF ValuesOK, Capital
<1>8. Counted'
  <2>1. sent < orders /\ sent \in Nat /\ orders \in 0..MaxOrders /\ MaxOrders \in Nat
    BY <1>0, <1>2, AutopilotAssumption DEF LoopOK, CountOK, ValuesOK
  <2> QED BY <1>2, <1>6, <2>1 DEF Counted
<1>9. LoopOK(l)'
  <2>1. CopyOK(l)' /\ QuietOK(l)'
    BY <1>0, <1>2, <1>3, <1>5, <1>6
       DEF LoopOK, CopyOK, QuietOK, TickFrame, InTick, Evaluating, Ordering, Recording
  <2>2. Abs(position + f) <= Ceiling
    BY <1>0, <1>2, <1>4, PartFits DEF LoopOK, CapitalOK, Capital
  <2>3. CountOK(l)' /\ ViewOK(l)' /\ CapitalOK(l)'
    BY <1>5, <1>6, <2>2 DEF CountOK, ViewOK, CapitalOK, Holding, Filled
  <2> QED BY <2>1, <2>3 DEF LoopOK
<1>10. Balanced(l)
  <2>1. Unrecorded(l)' = (IF answered THEN f ELSE 0) /\ Unrecorded(l) = 0
    BY <1>2, <1>5 DEF Unrecorded
  <2> QED BY <1>0, <1>1, <1>4, <1>6, <2>1 DEF Balanced, ValuesOK
<1> QED BY <1>2, <1>3, <1>5, <1>6, <1>7, <1>8, <1>9, <1>10, TickKeeps DEF Busy

\* A fill is applied to the position as it is now.
LEMMA RecordSteps ==
  ASSUME AutopilotInv, NEW l \in Loops, RecordExit(l) \/ RecordOrder(l)
  PROVE  AutopilotInv'
<1>0. /\ AutopilotTypeOK /\ ValuesOK /\ LoopOK(l) /\ Counted /\ Capital
      /\ loop \in [Loops -> Loop] /\ loop[l] \in Loop
      /\ "quiet" \in stops /\ loop[l].pc \in InTick => loop[l].pc \in {"reading", "putback"}
  BY TickBefore
<1>1. PICK from \in {"exitfill", "filling"}, to \in {"exitdone", "reconciled"}, dropped \in Int :
        /\ loop[l].pc = from /\ RecordFill(l, to, dropped)
        /\ from = "exitfill" => dropped = 0
        /\ from = "filling" => dropped = receipt
  BY <1>0 DEF RecordExit, RecordOrder, ValuesOK
<1>2. /\ position' = position + loop[l].fill
      /\ receipt' = IF loop[l].fill = 0 THEN receipt ELSE 0
      /\ lost' = IF loop[l].fill = 0 THEN lost ELSE lost + dropped
      /\ loop' = [loop EXCEPT ![l].fill = 0, ![l].pc = to]
      /\ UNCHANGED <<row, orders, spent, venue, sent>> /\ OnlyLoop
  BY <1>1 DEF RecordFill
<1>3. from \in InTick /\ to \in InTick /\ "quiet" \notin stops
  BY <1>0, <1>1 DEF InTick, Recording
<1>4. [loop[l] EXCEPT !.fill = 0, !.pc = to] \in Loop
  <2>1. [loop[l] EXCEPT !.fill = 0] \in Loop
    BY <1>0 DEF Loop
  <2>2. \A r \in Loop : [r EXCEPT !.pc = to] \in Loop
    BY <1>3 DEF Loop
  <2> QED BY <2>1, <2>2
<1>5. /\ loop' \in [Loops -> Loop] /\ loop'[l].pc = to /\ loop'[l].copy = loop[l].copy
      /\ \A k \in Loops : k # l => loop'[k] = loop[k]
  BY <1>0, <1>2, <1>4 DEF Loop
<1>6. TickFrame(l)
  BY <1>0, <1>2, <1>5 DEF TickFrame, OnlyLoop, timerVars, callVars
<1>7. loop[l].fill \in Int /\ position \in Int /\ receipt \in Int /\ lost \in Int
  BY <1>0 DEF Loop, ValuesOK
<1>8. ValuesOK' /\ Counted'
  BY <1>0, <1>2, <1>7 DEF ValuesOK, Counted
<1>9. Capital'
  <2>1. Abs(position + loop[l].fill) <= Ceiling
    <3>1. CASE from = "filling"
      BY <1>0, <1>1, <3>1 DEF LoopOK, CapitalOK, Filled
    <3>2. CASE from = "exitfill"
      <4>1. loop[l].fill = receipt /\ receipt \in Between(-position) /\ Abs(position) <= Ceiling
        BY <1>0, <1>1, <3>2 DEF LoopOK, ViewOK, Capital
      <4>2. /\ -position >= 0 => 0 <= receipt /\ receipt <= -position
            /\ -position <= 0 => -position <= receipt /\ receipt <= 0
        BY <1>7, <4>1, BetweenType
      <4> QED BY <1>7, <4>1, <4>2, AutopilotAssumption DEF Abs
    <3> QED BY <3>1, <3>2
  <2>2. receipt' \in Between(-position')
    <3>1. CASE loop[l].fill = 0
      BY <1>0, <1>2, <1>7, <3>1 DEF Capital
    <3>2. CASE loop[l].fill # 0
      BY <1>2, <1>7, <3>2 DEF Between
    <3> QED BY <3>1, <3>2
  <2> QED BY <1>2, <2>1, <2>2 DEF Capital
<1>10. LoopOK(l)'
  <2>1. CopyOK(l)' /\ QuietOK(l)'
    BY <1>0, <1>1, <1>2, <1>3, <1>5, <1>6
       DEF LoopOK, CopyOK, QuietOK, TickFrame, InTick, Evaluating, Ordering, Recording
  <2>2. CountOK(l)' /\ ViewOK(l)' /\ CapitalOK(l)'
    BY <1>5 DEF CountOK, ViewOK, CapitalOK, Holding, Filled
  <2> QED BY <2>1, <2>2 DEF LoopOK
<1>11. Balanced(l)
  <2>1. Unrecorded(l)' = 0 /\ Unrecorded(l) = IF from = "filling" THEN loop[l].fill ELSE 0
    BY <1>1, <1>5 DEF Unrecorded
  <2>2. from = "exitfill" => loop[l].fill = receipt
    BY <1>0, <1>1 DEF LoopOK, ViewOK
  <2>3. venue' = venue /\ venue \in Int
    BY <1>0, <1>2 DEF ValuesOK
  <2> QED BY <1>1, <1>2, <1>7, <2>1, <2>2, <2>3 DEF Balanced
<1> QED BY <1>1, <1>3, <1>5, <1>6, <1>8, <1>9, <1>10, <1>11, TickKeeps DEF Busy

\* A tick that fails loses the fill it had not recorded.
LEMMA TickFailsStep ==
  ASSUME AutopilotInv, NEW l \in Loops, TickFails(l)
  PROVE  AutopilotInv'
<1>0. /\ AutopilotTypeOK /\ ValuesOK /\ LoopOK(l) /\ Counted /\ Capital
      /\ loop \in [Loops -> Loop] /\ loop[l] \in Loop
      /\ "quiet" \in stops => row \notin Looping
  BY TickBefore
<1>1. /\ loop[l].pc \in InTick /\ lost' = lost + Unrecorded(l)
      /\ loop' = [loop EXCEPT ![l] = At("release")]
      /\ UNCHANGED <<row, storeVars, venue, sent>> /\ OnlyLoop
  BY DEF TickFails
<1>2. /\ loop' \in [Loops -> Loop] /\ loop'[l].pc = "release"
      /\ \A k \in Loops : k # l => loop'[k] = loop[k]
  BY <1>0, <1>1, AtType
<1>3. TickFrame(l) /\ UNCHANGED <<row, position, orders, spent, receipt, venue, sent>>
  BY <1>0, <1>1, <1>2 DEF TickFrame, OnlyLoop, timerVars, callVars, storeVars
<1>4. Unrecorded(l) \in Int /\ Unrecorded(l)' = 0
  BY <1>0, <1>2, InFlightType DEF Unrecorded
<1>5. ValuesOK' /\ Counted' /\ Capital'
  BY <1>0, <1>1, <1>3, <1>4 DEF ValuesOK, Counted, Capital
<1>6. LoopOK(l)'
  BY <1>2 DEF LoopOK, CopyOK, QuietOK, CountOK, ViewOK, CapitalOK, InTick, Evaluating, Ordering,
     Recording, Holding, Filled
<1>7. Balanced(l)
  BY <1>0, <1>1, <1>3, <1>4 DEF Balanced, ValuesOK
<1> QED BY <1>0, <1>1, <1>2, <1>3, <1>5, <1>6, <1>7, TickKeeps DEF Busy


\* Every step of a tick keeps the invariant.
LEMMA TickSteps ==
  ASSUME AutopilotInv, NEW l \in Loops, TickStep(l)
  PROVE  AutopilotInv'
BY PutSteps, HaltSteps, ReadSessionStep, ListPositionsStep, RereadSteps, ReplayExitStep, ProposeStep,
   PutMarksStep, PolicyStep, SubmitExitStep, SubmitOrderStep, RecordSteps, TickFailsStep DEF TickStep

-----------------------------------------------------------------------------
(* Timers, calls, the clock and the process.                               *)

\* Steps that start, stop or release loops but none that is in a tick, and
\* that may write the row but no halt.
LEMMA IdleKeeps ==
  ASSUME AutopilotInv, AutopilotTypeOK', OneTick', Intents', Timers', Quiet',
         \A k \in Loops : loop'[k] = loop[k] \/ (loop[k].pc \notin InTick /\ loop'[k].pc \notin InTick),
         row' = row \/ row' # "risk_halted",
         "quiet" \in stops' => "quiet" \in stops \/ ~ticking,
         UNCHANGED <<position, orders, spent, receipt, venue, lost, sent>>
  PROVE  AutopilotInv'
<1>1. InFlight' = InFlight
  BY InFlightKept DEF AutopilotInv
<1>2. Shared'
  BY <1>1 DEF AutopilotInv, Shared, Counted, Capital, BookMatchesVenue
<1>3. ASSUME NEW k \in Loops PROVE LoopOK(k)'
  <2>1. CASE loop'[k].pc \notin InTick
    BY <2>1 DEF LoopOK, CopyOK, QuietOK, CountOK, ViewOK, CapitalOK, InTick, Evaluating, Ordering,
       Recording, Holding, Filled
  <2>2. CASE loop'[k] = loop[k] /\ loop[k].pc \in InTick
    <3>1. ticking /\ LoopOK(k)
      BY <2>2 DEF AutopilotInv, OneTick, Busy
    <3>2. CopyOK(k)' /\ QuietOK(k)'
      BY <2>2, <3>1 DEF LoopOK, CopyOK, QuietOK
    <3>3. CountOK(k)' /\ ViewOK(k)' /\ CapitalOK(k)'
      BY <2>2, <3>1 DEF LoopOK, CountOK, ViewOK, CapitalOK
    <3> QED BY <3>2, <3>3 DEF LoopOK
  <2> QED BY <2>1, <2>2
<1> QED BY <1>2, <1>3 DEF AutopilotInv

\* A timer fires: the tick begins, or passes because another one is running.
LEMMA TimerStep ==
  ASSUME AutopilotInv, NEW l \in Loops, runAutopilotTick(l)
  PROVE  AutopilotInv'
<1>0. AutopilotTypeOK /\ loop \in [Loops -> Loop] /\ loop[l].pc = "timer"
  BY DEF AutopilotInv, AutopilotTypeOK, runAutopilotTick
<1>1. /\ UNCHANGED <<row, expired, liveSubmit, position, orders, spent, receipt, registered, raced,
                     call, booting, stops, venue, lost, sent>>
      /\ ticking' /\ loop' = [loop EXCEPT ![l] = At(IF ticking THEN "rearm" ELSE "reading")]
  BY DEF runAutopilotTick, storeVars, timerVars, callVars, venueVars
<1>2. /\ loop' \in [Loops -> Loop] /\ loop'[l].pc = (IF ticking THEN "rearm" ELSE "reading")
      /\ \A k \in Loops : k # l => loop'[k] = loop[k]
  BY <1>0, <1>1, AtType
<1>3. AutopilotTypeOK'
  BY <1>0, <1>1, <1>2 DEF AutopilotTypeOK
<1>4. OneTick'
  BY <1>0, <1>1, <1>2 DEF AutopilotInv, OneTick, Busy, InTick, Evaluating, Ordering, Recording
<1>5. Intents' /\ Quiet' /\ Timers'
  <2>1. LoopAlive'
    BY <1>2 DEF LoopAlive
  <2> QED BY <1>1, <2>1 DEF AutopilotInv, Intents, Shared, Quiet, ResumePending, Timers
<1>6. CASE ticking
  <2>1. loop[l].pc \notin InTick /\ loop'[l].pc \notin InTick
    BY <1>0, <1>2, <1>6 DEF InTick, Evaluating, Ordering, Recording
  <2> QED BY <1>1, <1>2, <1>3, <1>4, <1>5, <2>1, IdleKeeps
<1>7. CASE ~ticking
  <2>1. \A k \in Loops : loop[k].pc \notin InTick
    BY <1>7 DEF AutopilotInv, OneTick, Busy
  <2>2. loop'[l].pc = "reading"
    BY <1>2, <1>7
  <2>3. Unrecorded(l)' = 0 /\ Unrecorded(l) = 0
    BY <1>0, <2>2 DEF Unrecorded
  <2>4. InFlight' = InFlight
    <3>1. InFlight' = InFlight + Unrecorded(l)' - Unrecorded(l) /\ InFlight \in Int
      BY <1>0, <1>2, <1>3, InFlightChange, InFlightType
    <3> QED BY <2>3, <3>1
  <2>5. Shared'
    BY <1>1, <1>5, <2>4 DEF AutopilotInv, Shared, Counted, Capital, BookMatchesVenue
  <2>6. ASSUME NEW k \in Loops PROVE LoopOK(k)'
    <3>1. loop'[k].pc = "reading" \/ loop'[k].pc \notin InTick
      BY <1>2, <2>1, <2>2
    <3> QED BY <3>1 DEF LoopOK, CopyOK, QuietOK, CountOK, ViewOK, CapitalOK, InTick, Evaluating, Ordering,
       Recording, Holding, Filled
  <2> QED BY <1>3, <1>4, <1>5, <2>5, <2>6 DEF AutopilotInv
<1> QED BY <1>6, <1>7

\* The finally block releases the session.
LEMMA ReleaseStep ==
  ASSUME AutopilotInv, NEW l \in Loops, TickEnds(l)
  PROVE  AutopilotInv'
<1>0. AutopilotTypeOK /\ loop \in [Loops -> Loop] /\ loop[l].pc = "release"
  BY DEF AutopilotInv, AutopilotTypeOK, TickEnds
<1>1. /\ UNCHANGED <<row, expired, liveSubmit, position, orders, spent, receipt, registered, raced,
                     call, booting, stops, venue, lost, sent>>
      /\ ticking' = FALSE /\ loop' = [loop EXCEPT ![l] = At("rearm")]
  BY DEF TickEnds, storeVars, timerVars, callVars, venueVars
<1>2. /\ loop' \in [Loops -> Loop] /\ loop'[l].pc = "rearm"
      /\ \A k \in Loops : k # l => loop'[k] = loop[k]
  BY <1>0, <1>1, AtType
<1>3. AutopilotTypeOK'
  BY <1>0, <1>1, <1>2 DEF AutopilotTypeOK
<1>4. \A k \in Loops : k # l => loop[k].pc \notin Busy
  BY <1>0 DEF AutopilotInv, OneTick, Busy
<1>5. OneTick'
  BY <1>2, <1>4 DEF OneTick, Busy, InTick, Evaluating, Ordering, Recording
<1>6. Intents' /\ Quiet' /\ Timers'
  <2>1. LoopAlive'
    BY <1>2 DEF LoopAlive
  <2> QED BY <1>1, <2>1 DEF AutopilotInv, Intents, Shared, Quiet, ResumePending, Timers
<1>7. loop[l].pc \notin InTick /\ loop'[l].pc \notin InTick
  BY <1>0, <1>2 DEF InTick, Evaluating, Ordering, Recording
<1> QED BY <1>1, <1>2, <1>3, <1>5, <1>6, <1>7, IdleKeeps

\* The row decides whether the loop goes on.
LEMMA RearmStep ==
  ASSUME AutopilotInv, NEW l \in Loops, Rearm(l)
  PROVE  AutopilotInv'
<1>0. AutopilotTypeOK /\ loop \in [Loops -> Loop] /\ loop[l].pc = "rearm"
  BY DEF AutopilotInv, AutopilotTypeOK, Rearm
<1>1. /\ UNCHANGED <<row, expired, liveSubmit, position, orders, spent, receipt, ticking,
                     call, booting, stops, venue, lost, sent>>
      /\ loop' = [loop EXCEPT ![l] = IF row \in Looping THEN At("timer") ELSE NoLoop]
      /\ registered' = IF row \in Looping THEN l ELSE 0
      /\ raced' = (raced \/ (row \notin Looping /\ ResumePending))
  BY DEF Rearm, storeVars, callVars, venueVars
<1>2. /\ loop' \in [Loops -> Loop] /\ loop'[l].pc = (IF row \in Looping THEN "timer" ELSE "none")
      /\ \A k \in Loops : k # l => loop'[k] = loop[k]
  BY <1>0, <1>1, AtType
<1>3. AutopilotTypeOK'
  <2>1. registered' \in 0..NLoops
    BY <1>1, AutopilotAssumption DEF Loops
  <2>2. raced' \in BOOLEAN
    BY <1>0, <1>1 DEF AutopilotTypeOK
  <2> QED BY <1>0, <1>1, <1>2, <2>1, <2>2 DEF AutopilotTypeOK
<1>4. loop[l].pc \notin Busy /\ loop'[l].pc \notin Busy
  BY <1>0, <1>2 DEF Busy, InTick, Evaluating, Ordering, Recording
<1>5. OneTick'
  BY <1>1, <1>2, <1>4 DEF AutopilotInv, OneTick
<1>6. Intents' /\ Quiet'
  BY <1>1 DEF AutopilotInv, Intents, Shared, Quiet, ResumePending
<1>7. Timers'
  <2>1. CASE row \in Looping
    <3>1. LoopAlive'
      BY <1>2, <2>1 DEF LoopAlive
    <3> QED BY <3>1 DEF Timers
  <2>2. CASE row \notin Looping
    BY <1>1, <2>2 DEF Timers, ResumePending
  <2> QED BY <2>1, <2>2
<1> QED BY <1>1, <1>2, <1>3, <1>4, <1>5, <1>6, <1>7, IdleKeeps DEF Busy

\* Clearing the registered timer ends at most a loop that waits.
LEMMA ClearedFacts ==
  ASSUME AutopilotTypeOK
  PROVE  /\ Cleared \in [Loops -> Loop]
         /\ \A k \in Loops : Cleared[k] = loop[k] \/ (loop[k].pc = "timer" /\ Cleared[k].pc = "none")
<1>1. loop \in [Loops -> Loop] /\ (registered # 0 => registered \in Loops)
  BY AutopilotAssumption DEF AutopilotTypeOK, Loops
<1> QED BY <1>1, AtType DEF Cleared

\* A start leaves the ticks in progress alone, and a loop alive.
LEMMA StartFacts ==
  ASSUME AutopilotTypeOK, startAutopilotLoop
  PROVE  /\ loop' \in [Loops -> Loop] /\ registered' \in 0..NLoops /\ raced' = FALSE
         /\ \A k \in Loops : loop'[k] = loop[k] \/ (loop[k].pc \notin Busy /\ loop'[k].pc \notin Busy)
         /\ LoopAlive'
<1>1. PICK l \in Loops :
        /\ Cleared[l].pc = "none"
        /\ loop' = [Cleared EXCEPT ![l] = At("timer")]
        /\ registered' = l /\ raced' = FALSE
  BY DEF startAutopilotLoop
<1>2. /\ Cleared \in [Loops -> Loop]
      /\ \A k \in Loops : Cleared[k] = loop[k] \/ (loop[k].pc = "timer" /\ Cleared[k].pc = "none")
  BY ClearedFacts
<1>3. loop' \in [Loops -> Loop] /\ loop'[l].pc = "timer" /\ \A k \in Loops : k # l => loop'[k] = Cleared[k]
  BY <1>1, <1>2, AtType
<1>4. registered' \in 0..NLoops
  BY <1>1, AutopilotAssumption DEF Loops
<1>5. loop[l].pc \in {"none", "timer"}
  BY <1>1, <1>2
<1>6. \A k \in Loops : loop'[k] = loop[k] \/ (loop[k].pc \in {"none", "timer"} /\ loop'[k].pc \in {"none", "timer"})
  BY <1>2, <1>3, <1>5
<1>7. LoopAlive'
  BY <1>3 DEF LoopAlive
<1> QED BY <1>1, <1>3, <1>4, <1>6, <1>7 DEF Busy, InTick, Evaluating, Ordering, Recording

\* A stop leaves the ticks in progress alone, and records a resume it meets.
LEMMA StopFacts ==
  ASSUME AutopilotTypeOK, stopAutopilotLoop
  PROVE  /\ loop' \in [Loops -> Loop] /\ registered' \in 0..NLoops /\ raced' \in BOOLEAN
         /\ \A k \in Loops : loop'[k] = loop[k] \/ (loop[k].pc \notin Busy /\ loop'[k].pc \notin Busy)
         /\ ResumePending => raced'
<1>1. loop' = Cleared /\ registered' = 0 /\ raced' = (raced \/ ResumePending) /\ raced \in BOOLEAN
  BY DEF stopAutopilotLoop, AutopilotTypeOK
<1>2. /\ Cleared \in [Loops -> Loop]
      /\ \A k \in Loops : Cleared[k] = loop[k] \/ (loop[k].pc = "timer" /\ Cleared[k].pc = "none")
  BY ClearedFacts
<1>3. "none" \notin Busy /\ "timer" \notin Busy /\ 0 \in 0..NLoops
  BY AutopilotAssumption DEF Busy, InTick, Evaluating, Ordering, Recording
<1> QED BY <1>1, <1>2, <1>3


\* A control call reads the row, and stops or starts the loop.
LEMMA ControlReadStep ==
  ASSUME AutopilotInv, NEW c \in Calls, NEW op \in Control, ControlRead(c, op)
  PROVE  AutopilotInv'
<1>0. AutopilotTypeOK /\ call \in [Calls -> Call]
  BY DEF AutopilotInv, AutopilotTypeOK
<1>1. /\ UNCHANGED <<row, expired, liveSubmit, position, orders, spent, receipt, ticking, booting,
                     venue, lost, sent>>
      /\ call[c].op = "none"
      /\ IF call'[c].status = "running" THEN startAutopilotLoop ELSE stopAutopilotLoop
      /\ stops' = IF op = "resume" THEN {} ELSE stops
  BY DEF ControlRead, storeVars, venueVars
<1>2. PICK status \in Status :
        /\ call' = [call EXCEPT ![c] = [op |-> op, status |-> status]]
        /\ op \in {"pause", "kill"} => status \notin Looping
        /\ op = "resume" => status \in {"running", "expired"}
  <2> DEFINE s == refreshSession(row)
             status == CASE op = "kill" -> "killed"
                         [] op # "kill" /\ s = "expired" -> "expired"
                         [] op = "pause" /\ s # "expired" -> "paused"
                         [] op = "resume" /\ s # "expired" -> "running"
  <2>1. call' = [call EXCEPT ![c] = [op |-> op, status |-> status]]
    BY DEF ControlRead
  <2>2. op = "kill" \/ op = "pause" \/ op = "resume"
    BY DEF Control
  <2> HIDE DEF s
  <2>3. /\ op \in {"pause", "kill"} => status \in {"killed", "expired", "paused"}
        /\ op = "resume" => status \in {"running", "expired"}
    BY <2>2
  <2> HIDE DEF status
  <2> QED BY <2>1, <2>2, <2>3 DEF Status, Looping
<1>3. /\ call' \in [Calls -> Call] /\ call'[c].op = op /\ call'[c].status = status
      /\ \A d \in Calls : d # c => call'[d] = call[d]
  <2>1. [op |-> op, status |-> status] \in Call
    BY DEF Call, Control
  <2> QED BY <1>0, <1>2, <2>1
<1>4. /\ loop' \in [Loops -> Loop] /\ registered' \in 0..NLoops /\ raced' \in BOOLEAN
      /\ \A k \in Loops : loop'[k] = loop[k] \/ (loop[k].pc \notin Busy /\ loop'[k].pc \notin Busy)
      /\ status = "running" => LoopAlive'
      /\ status # "running" /\ ResumePending => raced'
  BY <1>0, <1>1, <1>3, StartFacts, StopFacts
<1>5. AutopilotTypeOK'
  BY <1>0, <1>1, <1>3, <1>4 DEF AutopilotTypeOK
<1>6. OneTick'
  BY <1>1, <1>4 DEF AutopilotInv, OneTick
<1>7. Intents'
  BY <1>2, <1>3 DEF AutopilotInv, Intents
<1>8. Quiet'
  BY <1>1, <1>3 DEF AutopilotInv, Shared, Quiet, ResumePending
<1>9. Timers'
  <2>1. CASE status = "running"
    BY <1>4, <2>1 DEF Timers
  <2>2. CASE status # "running"
    <3>1. op \in Control /\ status \notin Looping
      BY <1>2, <2>2 DEF Looping, Control
    <3>2. \A d \in Calls : call'[d].op = "resume" /\ call'[d].status = "running" => raced'
      BY <1>3, <1>4, <2>2 DEF ResumePending
    <3> QED BY <1>3, <3>1, <3>2 DEF Timers
  <2> QED BY <2>1, <2>2
<1> QED BY <1>1, <1>4, <1>5, <1>6, <1>7, <1>8, <1>9, IdleKeeps DEF Busy

\* A control call writes the row.
LEMMA ControlPutStep ==
  ASSUME AutopilotInv, NEW c \in Calls, ControlPut(c)
  PROVE  AutopilotInv'
<1>0. AutopilotTypeOK /\ call \in [Calls -> Call] /\ call[c] \in Call
  BY DEF AutopilotInv, AutopilotTypeOK
<1>1. /\ UNCHANGED <<expired, liveSubmit, position, orders, spent, receipt, loop, registered, raced,
                     ticking, booting, venue, lost, sent>>
      /\ call[c].op \in Control /\ row' = call[c].status
      /\ call' = [call EXCEPT ![c] = NoCall]
      /\ stops' = IF ResumePending THEN stops
                  ELSE stops \cup {s \in {"kill", "quiet"} :
                         IF s = "kill" THEN call[c].op = "kill" ELSE ~ticking}
  BY DEF ControlPut, putAutopilotSession, LoopsUnchanged, timerVars, storeVars, venueVars, Control
<1>2. /\ call' \in [Calls -> Call] /\ call'[c].op = "none"
      /\ \A d \in Calls : d # c => call'[d] = call[d]
  <2>1. NoCall \in Call /\ NoCall.op = "none"
    BY DEF NoCall, Call, Status
  <2> QED BY <1>0, <1>1, <2>1
<1>3. /\ row' \in Status /\ row' # "risk_halted"
      /\ row' \in Looping => call[c].op = "resume" /\ call[c].status = "running"
  BY <1>0, <1>1 DEF AutopilotInv, Intents, Call, Control, Looping
<1>4. AutopilotTypeOK'
  <2>1. stops' \subseteq {"kill", "quiet"}
    BY <1>0, <1>1 DEF AutopilotTypeOK
  <2> QED BY <1>0, <1>1, <1>2, <1>3, <2>1 DEF AutopilotTypeOK
<1>5. OneTick' /\ Intents'
  BY <1>1, <1>2 DEF AutopilotInv, OneTick, Intents
<1>6. "quiet" \in stops' => ("quiet" \in stops \/ ~ticking) /\ ~ResumePending
  BY <1>1 DEF AutopilotInv, Shared, Quiet
<1>7. Quiet'
  BY <1>2, <1>3, <1>6 DEF Quiet, ResumePending
<1>8. Timers'
  <2>1. LoopAlive' <=> LoopAlive
    BY <1>1 DEF LoopAlive
  <2>2. row' \in Looping => raced \/ LoopAlive
    BY <1>3 DEF AutopilotInv, Timers
  <2> QED BY <1>1, <1>2, <2>1, <2>2 DEF AutopilotInv, Timers
<1> QED BY <1>1, <1>3, <1>4, <1>5, <1>6, <1>7, <1>8, IdleKeeps

\* The event stream reads the row.
LEMMA WatchReadStep ==
  ASSUME AutopilotInv, NEW c \in Calls, WatchRead(c)
  PROVE  AutopilotInv'
<1>0. AutopilotTypeOK /\ call \in [Calls -> Call]
  BY DEF AutopilotInv, AutopilotTypeOK
<1>1. /\ UNCHANGED <<row, expired, liveSubmit, position, orders, spent, receipt, loop, registered, raced,
                     ticking, booting, stops, venue, lost, sent>>
      /\ call[c].op = "none"
      /\ call' = [call EXCEPT ![c] = [op |-> "watch", status |-> refreshSession(row)]]
  BY DEF WatchRead, LoopsUnchanged, timerVars, storeVars, venueVars
<1>2. /\ call' \in [Calls -> Call] /\ call'[c].op = "watch"
      /\ \A d \in Calls : d # c => call'[d] = call[d]
  <2>1. refreshSession(row) \in Status
    BY <1>0 DEF refreshSession, AutopilotTypeOK, Status
  <2>2. [op |-> "watch", status |-> refreshSession(row)] \in Call
    BY <2>1 DEF Call
  <2> QED BY <1>0, <1>1, <2>2
<1>3. AutopilotTypeOK'
  BY <1>0, <1>1, <1>2 DEF AutopilotTypeOK
<1>4. OneTick' /\ Intents' /\ Quiet'
  BY <1>1, <1>2 DEF AutopilotInv, OneTick, Intents, Shared, Quiet, ResumePending
<1>5. Timers'
  <2>1. LoopAlive' <=> LoopAlive
    BY <1>1 DEF LoopAlive
  <2>2. \A d \in Calls : call[d].op \in Control => call'[d] = call[d]
    BY <1>1, <1>2 DEF Control
  <2> QED BY <1>1, <1>2, <2>1, <2>2 DEF AutopilotInv, Timers, Control
<1> QED BY <1>1, <1>3, <1>4, <1>5, IdleKeeps

\* The event stream starts a loop, or writes back that the session expired.
LEMMA WatchAnswerStep ==
  ASSUME AutopilotInv, NEW c \in Calls, WatchAnswer(c)
  PROVE  AutopilotInv'
<1>0. AutopilotTypeOK /\ call \in [Calls -> Call] /\ call[c] \in Call
  BY DEF AutopilotInv, AutopilotTypeOK
<1>1. /\ UNCHANGED <<expired, liveSubmit, position, orders, spent, receipt,
                     ticking, booting, stops, venue, lost, sent>>
      /\ call[c].op = "watch" /\ call' = [call EXCEPT ![c] = NoCall]
      /\ \/ startAutopilotLoop /\ row' = row
         \/ /\ UNCHANGED <<loop, registered, raced>>
            /\ row' = call[c].status /\ call[c].status \notin Looping
  BY DEF WatchAnswer, LoopsUnchanged, putAutopilotSession, timerVars, storeVars, venueVars
<1>2. /\ call' \in [Calls -> Call] /\ call'[c].op = "none"
      /\ \A d \in Calls : d # c => call'[d] = call[d]
  <2>1. NoCall \in Call /\ NoCall.op = "none"
    BY DEF NoCall, Call, Status
  <2> QED BY <1>0, <1>1, <2>1
<1>3. /\ loop' \in [Loops -> Loop] /\ registered' \in 0..NLoops /\ raced' \in BOOLEAN
      /\ \A k \in Loops : loop'[k] = loop[k] \/ (loop[k].pc \notin Busy /\ loop'[k].pc \notin Busy)
      /\ \/ LoopAlive' /\ row' = row
         \/ UNCHANGED <<loop, raced>> /\ row' \notin Looping
  BY <1>0, <1>1, StartFacts DEF AutopilotTypeOK
<1>4. row' \in Status /\ (row' = row \/ row' \notin Looping)
  BY <1>0, <1>1 DEF AutopilotTypeOK, Call
<1>5. AutopilotTypeOK'
  BY <1>0, <1>1, <1>2, <1>3, <1>4 DEF AutopilotTypeOK
<1>6. OneTick' /\ Intents' /\ Quiet'
  BY <1>1, <1>2, <1>3, <1>4 DEF AutopilotInv, OneTick, Intents, Shared, Quiet, ResumePending
<1>7. Timers'
  <2>1. CASE LoopAlive'
    BY <2>1 DEF Timers
  <2>2. CASE UNCHANGED <<loop, raced>> /\ row' \notin Looping
    BY <1>2, <2>2 DEF AutopilotInv, Timers, LoopAlive
  <2> QED BY <1>3, <2>1, <2>2
<1> QED BY <1>1, <1>3, <1>4, <1>5, <1>6, <1>7, IdleKeeps DEF Busy, Looping

\* The session expires.
LEMMA ExpireStep ==
  ASSUME AutopilotInv, Expire
  PROVE  AutopilotInv'
<1>1. /\ UNCHANGED <<row, liveSubmit, position, orders, spent, receipt, loop, registered, raced,
                     ticking, call, booting, stops, venue, lost, sent>>
      /\ expired' = TRUE
  BY DEF Expire, storeVars, timerVars, callVars, venueVars
<1>2. AutopilotTypeOK'
  BY <1>1 DEF AutopilotInv, AutopilotTypeOK
<1>3. OneTick' /\ Intents' /\ Quiet' /\ Timers'
  BY <1>1 DEF AutopilotInv, OneTick, Intents, Shared, Quiet, ResumePending, Timers, LoopAlive
<1> QED BY <1>1, <1>2, <1>3, IdleKeeps

\* The receipt of an exit that no tick is recording can no longer be had.
LEMMA WindowStep ==
  ASSUME AutopilotInv, WindowEnds
  PROVE  AutopilotInv'
<1>1. /\ UNCHANGED <<row, expired, liveSubmit, position, orders, spent, loop, registered, raced,
                     ticking, call, booting, stops, venue, sent>>
      /\ receipt # 0 /\ receipt' = 0 /\ lost' = lost + receipt
      /\ \A l \in Loops : loop[l].fill = 0
      /\ AutopilotTypeOK
  BY DEF WindowEnds, timerVars, callVars, AutopilotInv
<1>2. AutopilotTypeOK'
  BY <1>1 DEF AutopilotTypeOK
<1>3. OneTick' /\ Intents' /\ Quiet' /\ Timers'
  BY <1>1 DEF AutopilotInv, OneTick, Intents, Shared, Quiet, ResumePending, Timers, LoopAlive
<1>4. BookMatchesVenue'
  <2>1. InFlight' = InFlight /\ InFlight \in Int
    BY <1>1, <1>2, InFlightKept, InFlightType
  <2>2. position + InFlight + receipt = venue - lost
    BY DEF AutopilotInv, Shared, BookMatchesVenue
  <2> QED BY <1>1, <2>1, <2>2 DEF BookMatchesVenue, AutopilotTypeOK
<1>5. Counted' /\ Capital'
  BY <1>1 DEF AutopilotInv, Shared, Counted, Capital, Between, AutopilotTypeOK
<1>6. ASSUME NEW k \in Loops PROVE LoopOK(k)'
  <2>1. LoopOK(k)
    BY DEF AutopilotInv
  <2>2. ViewOK(k)'
    BY <1>1, <2>1 DEF LoopOK, ViewOK
  <2> QED BY <1>1, <2>1, <2>2 DEF LoopOK, CopyOK, QuietOK, CountOK, CapitalOK
<1> QED BY <1>2, <1>3, <1>4, <1>5, <1>6 DEF AutopilotInv, Shared

\* The worker restarts: what was being recorded is lost.
LEMMA RestartStep ==
  ASSUME AutopilotInv, WorkerRestarts
  PROVE  AutopilotInv'
<1>1. /\ UNCHANGED <<row, expired, liveSubmit, position, orders, spent, receipt, venue, sent, stops>>
      /\ booting' = TRUE /\ lost' = lost + InFlight
      /\ loop' = [l \in Loops |-> NoLoop] /\ registered' = 0 /\ ticking' = FALSE
      /\ raced' = FALSE /\ call' = [c \in Calls |-> NoCall]
      /\ AutopilotTypeOK
  BY DEF WorkerRestarts, storeVars, AutopilotInv
<1>2. InFlight \in Int
  BY <1>1, InFlightType
<1>3. \A l \in Loops : loop'[l].pc = "none"
  BY <1>1, AtType
<1>4. AutopilotTypeOK'
  <2>1. NoCall \in Call /\ NoLoop \in Loop /\ 0 \in 0..NLoops
    BY AtType, AutopilotAssumption DEF NoCall, Call, Status
  <2>2. /\ (row \in Status)' /\ (expired \in BOOLEAN)' /\ (liveSubmit \in BOOLEAN)'
        /\ (position \in Int)' /\ (receipt \in Int)' /\ (orders \in 0..MaxOrders)'
        /\ (spent \in 0..MaxDaily)' /\ (venue \in Int)' /\ (sent \in Nat)'
        /\ (stops \subseteq {"kill", "quiet"})' /\ lost \in Int
    BY <1>1 DEF AutopilotTypeOK
  <2>3. lost' \in Int
    BY <1>1, <1>2, <2>2
  <2>4. loop' \in [Loops -> Loop] /\ call' \in [Calls -> Call]
    BY <1>1, <2>1
  <2>5. (registered \in 0..NLoops)' /\ (ticking \in BOOLEAN)' /\ (booting \in BOOLEAN)' /\ (raced \in BOOLEAN)'
    BY <1>1, <2>1
  <2> QED BY <2>2, <2>3, <2>4, <2>5 DEF AutopilotTypeOK
<1>5. OneTick'
  BY <1>3 DEF OneTick, Busy, InTick, Evaluating, Ordering, Recording
<1>6. \A c \in Calls : call'[c].op = "none"
  BY <1>1 DEF NoCall
<1>7. Intents' /\ Quiet' /\ Timers'
  BY <1>1, <1>6 DEF AutopilotInv, Intents, Shared, Quiet, ResumePending, Timers
<1>8. InFlight' = 0
  <2>1. \A l \in Loops : Unrecorded(l)' = 0
    BY <1>3 DEF Unrecorded
  <2> DEFINE v == [l \in Loops |-> Unrecorded(l)]'
  <2>2. v = [l \in Loops |-> 0]
    BY <2>1
  <2>3. InFlight' = Total(v, NLoops)
    BY DEF InFlight
  <2> HIDE DEF v
  <2> QED BY <2>2, <2>3, ColumnOfZeros
<1>9. BookMatchesVenue'
  <2>1. position + InFlight + receipt = venue - lost
    BY DEF AutopilotInv, Shared, BookMatchesVenue
  <2> QED BY <1>1, <1>2, <1>8, <2>1 DEF BookMatchesVenue, AutopilotTypeOK
<1>10. Counted' /\ Capital'
  BY <1>1 DEF AutopilotInv, Shared, Counted, Capital
<1>11. \A l \in Loops : LoopOK(l)'
  BY <1>3 DEF LoopOK, CopyOK, QuietOK, CountOK, ViewOK, CapitalOK, InTick, Evaluating, Ordering,
     Recording, Holding, Filled
<1> QED BY <1>4, <1>5, <1>7, <1>9, <1>10, <1>11 DEF AutopilotInv, Shared

\* The startup scan gives a session that should have a loop one, or fails.
LEMMA BootStep ==
  ASSUME AutopilotInv, resumeAutopilotLoops \/ StartupScanFails
  PROVE  AutopilotInv'
<1>1. /\ UNCHANGED <<row, expired, liveSubmit, position, orders, spent, receipt, ticking, call, stops,
                     venue, lost, sent>>
      /\ booting' = FALSE
      /\ \/ startAutopilotLoop
         \/ UNCHANGED <<loop, registered, raced>> /\ row \notin Looping
         \/ UNCHANGED <<loop, registered>> /\ raced' = TRUE
      /\ AutopilotTypeOK
  BY DEF resumeAutopilotLoops, StartupScanFails, LoopsUnchanged, timerVars, storeVars, venueVars, AutopilotInv
<1>2. /\ loop' \in [Loops -> Loop] /\ registered' \in 0..NLoops /\ raced' \in BOOLEAN
      /\ \A k \in Loops : loop'[k] = loop[k] \/ (loop[k].pc \notin Busy /\ loop'[k].pc \notin Busy)
      /\ \/ LoopAlive'
         \/ UNCHANGED <<loop, raced>> /\ row' \notin Looping
         \/ raced'
  BY <1>1, StartFacts DEF AutopilotTypeOK
<1>3. AutopilotTypeOK'
  BY <1>1, <1>2 DEF AutopilotTypeOK
<1>4. OneTick' /\ Intents' /\ Quiet'
  BY <1>1, <1>2 DEF AutopilotInv, OneTick, Intents, Shared, Quiet, ResumePending
<1>5. Timers'
  <2>1. CASE LoopAlive'
    BY <2>1 DEF Timers
  <2>2. CASE UNCHANGED <<loop, raced>> /\ row' \notin Looping
    BY <1>1, <2>2 DEF AutopilotInv, Timers, LoopAlive
  <2>3. CASE raced'
    BY <2>3 DEF Timers
  <2> QED BY <1>2, <2>1, <2>2, <2>3
<1> QED BY <1>1, <1>2, <1>3, <1>4, <1>5, IdleKeeps DEF Busy


-----------------------------------------------------------------------------
(* The theorems.                                                           *)

\* A new session satisfies the invariant.
LEMMA AutopilotInitially ==
  ASSUME createAutopilotSession
  PROVE  AutopilotInv
<1>1. /\ row = "running" /\ expired = FALSE /\ liveSubmit \in BOOLEAN
      /\ position = 0 /\ orders = 0 /\ spent = 0 /\ receipt = 0
      /\ loop = [l \in Loops |-> IF l = 1 THEN At("timer") ELSE NoLoop]
      /\ registered = 1 /\ ticking = FALSE
      /\ call = [c \in Calls |-> NoCall] /\ booting = FALSE
      /\ venue = 0 /\ lost = 0 /\ sent = 0 /\ stops = {} /\ raced = FALSE
  BY DEF createAutopilotSession
<1>2. 1 \in Loops /\ 1 \in 0..NLoops /\ 0 \in 0..MaxOrders /\ 0 \in 0..MaxDaily /\ 0 <= Ceiling
  BY AutopilotAssumption DEF Loops
<1>3. loop \in [Loops -> Loop] /\ loop[1].pc = "timer" /\ \A l \in Loops : loop[l].pc \in {"timer", "none"}
  BY <1>1, <1>2, AtType
<1>4. NoCall \in Call /\ \A c \in Calls : call[c].op = "none"
  BY <1>1 DEF NoCall, Call, Status
<1>5. AutopilotTypeOK
  <2>1. row \in Status /\ expired \in BOOLEAN /\ liveSubmit \in BOOLEAN
    BY <1>1 DEF Status
  <2>2. /\ position \in Int /\ receipt \in Int /\ orders \in 0..MaxOrders /\ spent \in 0..MaxDaily
        /\ venue \in Int /\ lost \in Int /\ sent \in Nat /\ registered \in 0..NLoops
    BY <1>1, <1>2
  <2>3. call \in [Calls -> Call]
    BY <1>1, <1>4
  <2>4. ticking \in BOOLEAN /\ booting \in BOOLEAN /\ raced \in BOOLEAN /\ stops \subseteq {"kill", "quiet"}
    BY <1>1
  <2> QED BY <1>3, <2>1, <2>2, <2>3, <2>4 DEF AutopilotTypeOK
<1>6. OneTick
  BY <1>3 DEF OneTick, Busy, InTick, Evaluating, Ordering, Recording
<1>7. Intents /\ Timers
  <2>1. LoopAlive
    BY <1>2, <1>3 DEF LoopAlive
  <2> QED BY <1>4, <2>1 DEF Intents, Timers
<1>8. InFlight = 0
  <2> DEFINE w == [l \in Loops |-> Unrecorded(l)]
  <2>1. w = [l \in Loops |-> 0]
    BY <1>3 DEF Unrecorded
  <2>2. InFlight = Total(w, NLoops)
    BY DEF InFlight
  <2> HIDE DEF w
  <2> QED BY <2>1, <2>2, ColumnOfZeros
<1>9. Shared
  BY <1>1, <1>2, <1>8 DEF Shared, Quiet, Counted, Capital, Abs, Between, BookMatchesVenue
<1>10. \A l \in Loops : LoopOK(l)
  BY <1>3 DEF LoopOK, CopyOK, QuietOK, CountOK, ViewOK, CapitalOK, InTick, Evaluating, Ordering,
     Recording, Holding, Filled
<1> QED BY <1>5, <1>6, <1>7, <1>9, <1>10 DEF AutopilotInv

\* Every step keeps the invariant.
LEMMA AutopilotStep ==
  ASSUME AutopilotInv, [AutopilotNext]_autopilotVars
  PROVE  AutopilotInv'
<1>1. ASSUME NEW l \in Loops, LoopStep(l) PROVE AutopilotInv'
  BY <1>1, TickSteps, TimerStep, ReleaseStep, RearmStep DEF LoopStep
<1>2. ASSUME NEW c \in Calls,
             \/ \E op \in {"pause", "resume", "kill"} : ControlRead(c, op)
             \/ ControlPut(c) \/ WatchRead(c) \/ WatchAnswer(c)
      PROVE  AutopilotInv'
  BY <1>2, ControlReadStep, ControlPutStep, WatchReadStep, WatchAnswerStep DEF Control
<1>3. CASE UNCHANGED autopilotVars
  <2>1. UNCHANGED <<row, expired, liveSubmit, position, orders, spent, receipt, loop, registered, raced,
                    ticking, call, booting, stops, venue, lost, sent>>
    BY <1>3 DEF autopilotVars, storeVars, timerVars, callVars, venueVars
  <2>2. AutopilotTypeOK'
    BY <2>1 DEF AutopilotInv, AutopilotTypeOK
  <2>3. OneTick' /\ Intents' /\ Quiet' /\ Timers'
    BY <2>1 DEF AutopilotInv, OneTick, Intents, Shared, Quiet, ResumePending, Timers, LoopAlive
  <2> QED BY <2>1, <2>2, <2>3, IdleKeeps
<1> QED BY <1>1, <1>2, <1>3, ExpireStep, WindowStep, RestartStep, BootStep DEF AutopilotNext

\* The invariant holds in every reachable state.
LEMMA AutopilotInvariant == AutopilotSpec => []AutopilotInv
<1>1. createAutopilotSession => AutopilotInv
  BY AutopilotInitially
<1>2. AutopilotInv /\ [AutopilotNext]_autopilotVars => AutopilotInv'
  BY AutopilotStep
<1> QED BY <1>1, <1>2, PTL DEF AutopilotSpec

\* The session row, the counters, the loops and the calls keep their types;
\* in particular orders and notional stay within the session's policy.
THEOREM AutopilotTyped == AutopilotSpec => []AutopilotTypeOK
<1>1. AutopilotInv => AutopilotTypeOK
  BY DEF AutopilotInv
<1> QED BY <1>1, AutopilotInvariant, PTL

\* The venue never receives more opening orders than max_order_count: the
\* policy counter is stored before the order leaves.
THEOREM OrdersBounded == AutopilotSpec => []OpeningOrdersBounded
<1>1. AutopilotInv => OpeningOrdersBounded
  <2> SUFFICES ASSUME AutopilotInv PROVE sent <= MaxOrders
    BY DEF OpeningOrdersBounded
  <2>1. sent <= orders /\ sent \in Nat /\ orders \in 0..MaxOrders /\ MaxOrders \in Nat
    BY AutopilotAssumption DEF AutopilotInv, Shared, Counted, AutopilotTypeOK
  <2> QED BY <2>1
<1> QED BY <1>1, AutopilotInvariant, PTL

\* A pause or kill acknowledged while no tick was running and no resume was
\* pending holds until a resume is asked for: nothing revives the row and no
\* tick gets to an order.
THEOREM QuietStopKept == AutopilotSpec => []QuietStopHolds
<1>1. AutopilotInv => QuietStopHolds
  <2> SUFFICES ASSUME AutopilotInv, "quiet" \in stops
               PROVE  row \notin Looping /\ \A l \in Loops : loop[l].pc \notin Ordering
    BY DEF QuietStopHolds
  <2>1. row \notin Looping
    BY DEF AutopilotInv, Shared, Quiet
  <2>2. \A l \in Loops : loop[l].pc \in InTick => loop[l].pc \in {"reading", "putback"}
    BY DEF AutopilotInv, LoopOK, QuietOK
  <2> QED BY <2>1, <2>2 DEF InTick, Ordering
<1> QED BY <1>1, AutopilotInvariant, PTL

\* The recorded position, the fills being recorded and the receipt of an exit
\* are what the venue holds, but for fills whose recording was cut off.
THEOREM BookMatches == AutopilotSpec => []BookMatchesVenue
<1>1. AutopilotInv => BookMatchesVenue
  BY DEF AutopilotInv, Shared
<1> QED BY <1>1, AutopilotInvariant, PTL

\* What the venue holds is within the capital ceiling that Propose compares
\* the projected exposure with, but for fills that were never recorded.
THEOREM ExposureKept == AutopilotSpec => []ExposureBounded
<1>1. AutopilotInv => ExposureBounded
  <2> SUFFICES ASSUME AutopilotInv PROVE Abs(venue) <= Ceiling + Abs(lost) + Abs(receipt)
    BY DEF ExposureBounded
  <2>1. AutopilotTypeOK /\ InFlight \in Int /\ Ceiling \in Nat
    BY InFlightType, AutopilotAssumption DEF AutopilotInv
  <2>2. /\ position \in Int /\ receipt \in Int /\ venue \in Int /\ lost \in Int
        /\ loop \in [Loops -> Loop]
    BY <2>1 DEF AutopilotTypeOK
  <2>3. position + InFlight + receipt = venue - lost /\ Abs(position) <= Ceiling
    BY DEF AutopilotInv, Shared, BookMatchesVenue, Capital
  <2>4. Abs(position + InFlight) <= Ceiling
    <3>1. CASE \A l \in Loops : loop[l].pc \notin Filled
      <4> DEFINE w == [l \in Loops |-> Unrecorded(l)]
      <4>1. w = [l \in Loops |-> 0]
        BY <3>1 DEF Unrecorded, Filled
      <4>2. InFlight = Total(w, NLoops)
        BY DEF InFlight
      <4> HIDE DEF w
      <4>3. InFlight = 0
        BY <4>1, <4>2, ColumnOfZeros
      <4> QED BY <2>2, <2>3, <4>3
    <3>2. CASE \E l \in Loops : loop[l].pc \in Filled
      <4>1. PICK l \in Loops : loop[l].pc \in Filled
        BY <3>2
      <4>2. \A k \in Loops : k # l => loop[k].pc \notin Filled
        BY <4>1 DEF AutopilotInv, OneTick, Busy, InTick, Recording, Filled
      <4> DEFINE w == [k \in Loops |-> Unrecorded(k)]
                 z == [k \in Loops |-> 0]
      <4>3. loop[l].fill \in Int /\ w[l] = loop[l].fill
        BY <2>2, <4>1 DEF Loop, Unrecorded, Filled
      <4>4. \A k \in Loops : k # l => w[k] = 0
        BY <4>2 DEF Unrecorded, Filled
      <4>5. /\ NLoops \in Nat /\ l \in 1..NLoops /\ z \in [1..NLoops -> Int]
            /\ w \in [1..NLoops -> Int] /\ z[l] = 0
            /\ \A k \in 1..NLoops : k # l => w[k] = z[k]
        BY <2>1, <4>4, InFlightType, AutopilotAssumption DEF Loops
      <4>6. InFlight = Total(w, NLoops)
        BY DEF InFlight
      <4>7. Total(z, NLoops) = 0
        BY ColumnOfZeros
      <4> HIDE DEF w, z
      <4>8. Total(w, NLoops) = Total(z, NLoops) + w[l] - z[l]
        BY <4>5, TotalUpdate
      <4>9. InFlight = loop[l].fill
        BY <4>3, <4>5, <4>6, <4>7, <4>8
      <4>10. Abs(position + loop[l].fill) <= Ceiling
        BY <4>1 DEF AutopilotInv, LoopOK, CapitalOK
      <4> QED BY <4>9, <4>10
    <3> QED BY <3>1, <3>2
  <2> QED BY <2>1, <2>2, <2>3, <2>4 DEF Abs
<1> QED BY <1>1, AutopilotInvariant, PTL

\* A session that is running or halted has a loop, unless one ended between
\* the read and the write of a resume, which starts the loop before the row.
THEOREM RunKeepsLoop == AutopilotSpec => []RunHasLoop
<1>1. AutopilotInv => RunHasLoop
  BY DEF AutopilotInv, Timers, LoopAlive, Control, RunHasLoop
<1> QED BY <1>1, AutopilotInvariant, PTL

\* The row goes from risk_halted to running only by the write of a resume.
LEMMA HaltOnlyResumed ==
  ASSUME AutopilotInv, AutopilotNext, row = "risk_halted", row' = "running"
  PROVE  \E c \in Calls : call[c].op = "resume" /\ call'[c].op = "none"
<1>0. row' # row
  OBVIOUS
<1>1. ASSUME NEW l \in Loops, TickStep(l) PROVE FALSE
  <2>1. LoopOK(l)
    BY DEF AutopilotInv
  <2>2. PICK from \in InTick \ {"reading"} : loop[l].pc = from /\ loop[l].copy = row'
    <3>1. CASE PutBack(l) \/ PutSnapshot(l) \/ PutExit(l) \/ PutMarked(l) \/ PutVerified(l)
                 \/ PutCounted(l) \/ PutReconciled(l)
      BY <3>1 DEF PutBack, PutSnapshot, PutExit, PutMarked, PutVerified, PutCounted, PutReconciled,
         PutCopy, putAutopilotSession, InTick, Evaluating, Recording
    <3>2. CASE BeginExit(l) \/ lossCircuitTrips(l) \/ StayHalted(l)
      BY <3>2 DEF BeginExit, lossCircuitTrips, StayHalted, Halt, putAutopilotSession
    <3> QED BY <1>0, <1>1, <3>1, <3>2 DEF TickStep, ReadSession, ListPositions, PutMarks, SubmitExit,
               ReplayExit, RecordExit, RecordOrder, RecordFill, Propose, VerifyNoSubmit,
               enforceInstructionPolicy, SubmitOrder, ReadAfterOrder, TickFails
  <2> QED BY <2>1, <2>2 DEF LoopOK, CopyOK
<1>2. ASSUME NEW l \in Loops, LoopStep(l) PROVE FALSE
  BY <1>0, <1>1, <1>2 DEF LoopStep, runAutopilotTick, TickEnds, Rearm
<1>3. ASSUME NEW c \in Calls, ControlPut(c)
      PROVE  call[c].op = "resume" /\ call'[c].op = "none"
  <2>1. call \in [Calls -> Call] /\ call' = [call EXCEPT ![c] = NoCall] /\ row' = call[c].status
    BY <1>3 DEF ControlPut, putAutopilotSession, AutopilotInv, AutopilotTypeOK
  <2>2. call[c].op = "resume"
    BY <1>3, <2>1 DEF ControlPut, AutopilotInv, Intents, Looping
  <2> QED BY <2>1, <2>2 DEF NoCall
<1>4. ASSUME NEW c \in Calls, WatchAnswer(c) PROVE FALSE
  BY <1>0, <1>4 DEF WatchAnswer, putAutopilotSession, Looping
<1>5. ASSUME NEW c \in Calls, NEW op, ControlRead(c, op) \/ WatchRead(c) PROVE FALSE
  BY <1>0, <1>5 DEF ControlRead, WatchRead
<1>6. ~(Expire \/ WindowEnds \/ WorkerRestarts \/ resumeAutopilotLoops \/ StartupScanFails)
  BY <1>0 DEF Expire, WindowEnds, WorkerRestarts, resumeAutopilotLoops, StartupScanFails
<1> QED BY <1>2, <1>3, <1>4, <1>5, <1>6 DEF AutopilotNext

\* A risk halt ends in a running session only by the write of a resume, never
\* by a tick that still holds a copy of the row from before the halt.
THEOREM HaltLatched == AutopilotSpec => RiskHaltLatched
<1>1. AutopilotInv /\ [AutopilotNext]_autopilotVars =>
        [row = "risk_halted" /\ row' = "running" =>
           \E c \in Calls : call[c].op = "resume" /\ call'[c].op = "none"]_autopilotVars
  BY HaltOnlyResumed
<1> QED BY <1>1, AutopilotInvariant, PTL DEF AutopilotSpec, RiskHaltLatched
=============================================================================
