--------------------------- MODULE TickLoopProofs ---------------------------
(***************************************************************************)
(* Proofs about TickLoop for every interval, jitter, threshold and horizon. *)
(***************************************************************************)
EXTENDS TickLoop, TLAPS

-----------------------------------------------------------------------------
(* The schedule. *)

\* The catch-up of a late loop: the slot it continues from exists, is not behind the
\* current one, and the deadline after it is still in the future.
LEMMA NextSlotAhead ==
  ASSUME now \in Nat, NEW n \in Nat
  PROVE  /\ _next_tick_number(n) \in Nat
         /\ n <= _next_tick_number(n)
         /\ now < (_next_tick_number(n) + 1) * Interval
<1>. DEFINE P(m) == /\ now < (m + 1) * Interval
                    /\ \A k \in n..(m - 1) : (k + 1) * Interval <= now
            q == now \div Interval
<1>1. /\ q \in Nat
      /\ q * Interval <= now
      /\ now < (q + 1) * Interval
  BY SettingsAssumption
<1>2. \E m \in n..(n + now) : P(m)
  <2>. HIDE DEF q
  <2>1. CASE q <= n
    <3>1. now < (n + 1) * Interval
      BY <1>1, <2>1, SettingsAssumption
    <3>2. n \in n..(n + now) /\ n..(n - 1) = {}
      OBVIOUS
    <3>3. P(n)
      BY <3>1, <3>2
    <3>. QED  BY <3>2, <3>3
  <2>2. CASE n < q
    <3>1. q <= now
      BY <1>1, SettingsAssumption
    <3>2. ASSUME NEW k \in n..(q - 1)
          PROVE  (k + 1) * Interval <= now
      <4>1. k \in Nat /\ k + 1 <= q
        BY <1>1
      <4>2. (k + 1) * Interval <= q * Interval
        BY <1>1, <4>1, SettingsAssumption
      <4>. QED  BY <1>1, <4>1, <4>2, SettingsAssumption
    <3>3. q \in n..(n + now)
      BY <1>1, <2>2, <3>1
    <3>4. P(q)
      BY <1>1, <3>2
    <3>. QED  BY <3>3, <3>4
  <2>. QED  BY <1>1, <2>1, <2>2
<1>3. _next_tick_number(n) = CHOOSE m \in n..(n + now) : P(m)
  BY DEF _next_tick_number
<1>4. _next_tick_number(n) \in n..(n + now) /\ P(_next_tick_number(n))
  <2>. HIDE DEF P
  <2>. QED  BY <1>2, <1>3
<1>. QED  BY <1>4

\* The head of the while loop, reached with a slot whose successor is in the future:
\* run() ends only on a stop, and otherwise waits for a deadline after its last tick.
LEMMA NextSlotSchedule ==
  ASSUME TypeOK, NEW n \in Nat, now < (n + 1) * Interval,
         began["run"] <= now, NextSlot(n)
  PROVE  /\ loop' \in {"waiting", "done"}
         /\ loop' = "done" => stopSet
         /\ slot' \in Nat
         /\ wakeAt' \in Nat
         /\ loop' = "waiting" => /\ began["run"] < slot' * Interval
                                 /\ slot' * Interval <= wakeAt'
<1>. DEFINE deadline == (n + 1) * Interval
<1>0. deadline \in Nat /\ began["run"] \in Nat /\ now \in Nat /\ now < deadline
  BY SettingsAssumption DEF TypeOK, AllCallers
<1>1. CASE stopSet
  BY <1>1 DEF NextSlot, TypeOK
<1>2. CASE ~stopSet
  <2>1. /\ loop' = "waiting"
        /\ slot' = n + 1
        /\ \E delay \in 0..Jitter :
             wakeAt' = delay + IF deadline > now THEN deadline ELSE now
    BY <1>2 DEF NextSlot
  <2>. HIDE DEF deadline
  <2>2. PICK delay \in 0..Jitter : wakeAt' = delay + deadline
    BY <1>0, <2>1
  <2>3. wakeAt' \in Nat /\ deadline <= wakeAt' /\ began["run"] < deadline
    BY <1>0, <2>2, SettingsAssumption
  <2>. QED  BY <2>1, <2>3 DEF deadline
<1>. QED  BY <1>1, <1>2

-----------------------------------------------------------------------------
(* The invariant LoopInv. *)

\* The loop that was built and not yet started satisfies LoopInv.
LEMMA InitLoop == Init => LoopInv
<1>. SUFFICES ASSUME Init PROVE LoopInv
  OBVIOUS
<1>1. TypeOK
  BY DEF Init, TypeOK
<1>2. NoOverlap /\ OnlyStopEndsLoop /\ Schedule
  BY DEF Init, NoOverlap, OnlyStopEndsLoop, Schedule, MidTick, AllCallers
<1>. QED  BY <1>1, <1>2 DEF LoopInv

\* The steps of the clock, the lifespan and the operator.
LEMMA OutsideLoop ==
  LoopInv /\ (Elapse \/ start \/ stop \/ pause \/ resume \/ UNCHANGED vars) => LoopInv'
<1>. SUFFICES ASSUME LoopInv,
                     Elapse \/ start \/ stop \/ pause \/ resume \/ UNCHANGED vars
              PROVE  LoopInv'
  OBVIOUS
<1>. USE DEF LoopInv, scheduleVars, breakerVars, statVars
<1>1. CASE Elapse
  BY <1>1 DEF Elapse, TypeOK, NoOverlap, OnlyStopEndsLoop, Schedule, AllCallers
<1>2. CASE start
  BY <1>2 DEF start, TypeOK, NoOverlap, OnlyStopEndsLoop, Schedule
<1>3. CASE stop
  BY <1>3 DEF stop, TypeOK, NoOverlap, OnlyStopEndsLoop, Schedule
<1>4. CASE pause
  BY <1>4 DEF pause, TypeOK, NoOverlap, OnlyStopEndsLoop, Schedule
<1>5. CASE resume
  BY <1>5 DEF resume, TypeOK, NoOverlap, OnlyStopEndsLoop, Schedule
<1>6. CASE UNCHANGED vars
  BY <1>6 DEF vars, TypeOK, NoOverlap, OnlyStopEndsLoop, Schedule
<1>. QED  BY <1>1, <1>2, <1>3, <1>4, <1>5, <1>6

\* The steps of run() between two ticks.
LEMMA RunLoop == LoopInv /\ RunStep => LoopInv'
<1>. SUFFICES ASSUME LoopInv, RunStep PROVE LoopInv'
  OBVIOUS
<1>. USE DEF LoopInv, breakerVars, statVars
<1>1. CASE RunBegin
  <2>1. now < (0 + 1) * Interval /\ began["run"] <= now
    BY <1>1, SettingsAssumption DEF RunBegin, Schedule
  <2>. QED  BY <1>1, <2>1, NextSlotSchedule
            DEF RunBegin, TypeOK, NoOverlap, OnlyStopEndsLoop, Schedule
<1>2. CASE WaitStopped
  BY <1>2 DEF WaitStopped, TypeOK, NoOverlap, OnlyStopEndsLoop, Schedule
<1>3. CASE WaitTimesOut
  BY <1>3 DEF WaitTimesOut, TypeOK, NoOverlap, OnlyStopEndsLoop, Schedule
<1>4. CASE SlotSkipped
  <2>. DEFINE n == _next_tick_number(slot)
  <2>1. n \in Nat /\ now < (n + 1) * Interval
    BY NextSlotAhead DEF TypeOK
  <2>2. NextSlot(n)
    BY <1>4 DEF SlotSkipped
  <2>. HIDE DEF n
  <2>. QED  BY <1>4, <2>1, <2>2, NextSlotSchedule
            DEF SlotSkipped, TypeOK, NoOverlap, OnlyStopEndsLoop, Schedule
<1>5. CASE SlotTick
  BY <1>5 DEF SlotTick, BeginTick, TypeOK, NoOverlap, OnlyStopEndsLoop, Schedule,
              MidTick, AllCallers
<1>. QED  BY <1>1, <1>2, <1>3, <1>4, <1>5 DEF RunStep

\* A direct call of tick_once().
LEMMA ManualLoop ==
  ASSUME LoopInv, NEW c \in Callers, ManualTick(c) \/ ManualSkipped(c)
  PROVE  LoopInv'
<1>. USE DEF LoopInv, scheduleVars, breakerVars, statVars, AllCallers
<1>0. c # "run"
  BY CallersAssumption
<1>1. CASE ManualTick(c)
  BY <1>0, <1>1 DEF ManualTick, BeginTick, TypeOK, NoOverlap, OnlyStopEndsLoop,
                    Schedule, MidTick
<1>2. CASE ManualSkipped(c)
  BY <1>0, <1>2 DEF ManualSkipped, TypeOK, NoOverlap, OnlyStopEndsLoop, Schedule,
                    MidTick
<1>. QED  BY <1>1, <1>2

\* The breaker keeps the types of its gauges, whatever it decides.
LEMMA TripTypes ==
  ASSUME TypeOK, NEW gauge \in {"failures", "overruns"},
         NEW counts \in [failures : Nat, overruns : Nat], _trip_if(gauge, counts)
  PROVE  /\ paused' \in BOOLEAN
         /\ reason' \in {"none", "failures", "overruns"}
         /\ consec' \in [failures : Nat, overruns : Nat]
BY DEF _trip_if, TypeOK

\* Leaving tick_once(), by a return or an exception, ends the only running tick.
LEMMA LeaveLoop ==
  ASSUME LoopInv, NEW c \in AllCallers, pc[c] \in MidTick, LeaveTick(c)
  PROVE  /\ NoOverlap' /\ OnlyStopEndsLoop' /\ Schedule'
         /\ loop' \in {"off", "created", "waiting", "due", "ticking", "done"}
         /\ slot' \in Nat
         /\ wakeAt' \in Nat
         /\ pc' \in [AllCallers -> {"idle", "deciding", "handling", "returned"}]
<1>. USE DEF LoopInv
<1>1. \A d \in AllCallers : pc[d] \in MidTick => d = c
  BY DEF NoOverlap
<1>2. /\ inFlight' = FALSE
      /\ pc' = [pc EXCEPT ![c] = IF c = "run" THEN "idle" ELSE "returned"]
      /\ UNCHANGED <<now, stopSet, began>>
  BY DEF LeaveTick
<1>3. NoOverlap'
  BY <1>1, <1>2 DEF NoOverlap, MidTick, TypeOK
<1>4. pc' \in [AllCallers -> {"idle", "deciding", "handling", "returned"}]
  BY <1>2 DEF TypeOK
<1>5. CASE c = "run"
  <2>. DEFINE n == _next_tick_number(slot)
  <2>1. n \in Nat /\ now < (n + 1) * Interval
    BY NextSlotAhead DEF TypeOK
  <2>2. NextSlot(n) /\ pc'["run"] = "idle"
    BY <1>2, <1>5 DEF LeaveTick, TypeOK
  <2>. HIDE DEF n
  <2>3. /\ loop' \in {"waiting", "done"}
        /\ loop' = "done" => stopSet
        /\ slot' \in Nat
        /\ wakeAt' \in Nat
        /\ loop' = "waiting" => /\ began["run"] < slot' * Interval
                                /\ slot' * Interval <= wakeAt'
    BY <2>1, <2>2, NextSlotSchedule DEF Schedule
  <2>. QED  BY <1>2, <1>3, <1>4, <2>2, <2>3 DEF OnlyStopEndsLoop, Schedule, MidTick
<1>6. CASE c # "run"
  <2>1. UNCHANGED <<loop, slot, wakeAt>> /\ pc'["run"] = pc["run"]
    BY <1>2, <1>6 DEF LeaveTick, scheduleVars, TypeOK, AllCallers
  <2>. QED  BY <1>2, <1>3, <1>4, <2>1 DEF OnlyStopEndsLoop, Schedule, TypeOK
<1>. QED  BY <1>5, <1>6

\* The steps of a tick, from its decision to its end.
LEMMA TickLoopInv == ASSUME LoopInv, NEW c \in AllCallers, Tick(c) PROVE LoopInv'
<1>. USE DEF LoopInv
<1>1. ASSUME NEW d \in TickDecision, Decided(c, d) PROVE LoopInv'
  <2>1. /\ pc[c] = "deciding"
        /\ pc' = [pc EXCEPT ![c] = "handling"]
        /\ UNCHANGED <<now, loop, slot, wakeAt, stopSet, inFlight, began>>
    BY <1>1 DEF Decided, scheduleVars
  <2>2. NoOverlap' /\ OnlyStopEndsLoop' /\ Schedule'
    BY <2>1 DEF NoOverlap, OnlyStopEndsLoop, Schedule, MidTick, TypeOK
  <2>. DEFINE counts == [failures |-> 0,
                         overruns |-> IF now - began[c] >= OverrunAt
                                        THEN consec.overruns + 1 ELSE 0]
  <2>3. counts \in [failures : Nat, overruns : Nat]
    BY DEF TypeOK
  <2>4. _trip_if("overruns", counts)
    BY <1>1 DEF Decided, _record_success
  <2>. HIDE DEF counts
  <2>5. /\ paused' \in BOOLEAN
        /\ reason' \in {"none", "failures", "overruns"}
        /\ consec' \in [failures : Nat, overruns : Nat]
    BY <2>3, <2>4, TripTypes
  <2>6. /\ ticksRun' \in Nat
        /\ decided' \in [TickDecision -> Nat]
        /\ UNCHANGED <<failures, streak>>
    BY <1>1 DEF Decided, TypeOK
  <2>. QED  BY <2>1, <2>2, <2>5, <2>6 DEF TypeOK
<1>2. CASE TickReturns(c)
  <2>1. pc[c] \in MidTick /\ LeaveTick(c)
    BY <1>2 DEF TickReturns, MidTick
  <2>2. /\ streak' \in Nat
        /\ UNCHANGED <<now, stopSet, began, ticksRun, decided, failures, paused, reason,
                       consec>>
        /\ inFlight' = FALSE
    BY <1>2 DEF TickReturns, LeaveTick, breakerVars, TypeOK
  <2>. QED  BY <2>1, <2>2, LeaveLoop DEF TypeOK
<1>3. CASE TickRaises(c)
  <2>1. pc[c] \in MidTick /\ LeaveTick(c)
    BY <1>3 DEF TickRaises
  <2>2. /\ UNCHANGED <<now, stopSet, began, ticksRun, decided>>
        /\ inFlight' = FALSE
    BY <2>1 DEF LeaveTick
  <2>3. /\ streak' \in Nat
        /\ failures' \in Nat
        /\ paused' \in BOOLEAN
        /\ reason' \in {"none", "failures", "overruns"}
        /\ consec' \in [failures : Nat, overruns : Nat]
    <3>1. CASE c = "run"
      <4>. DEFINE counts == [consec EXCEPT !["failures"] = @ + 1]
      <4>1. counts \in [failures : Nat, overruns : Nat]
        BY DEF TypeOK
      <4>2. _trip_if("failures", counts) /\ failures' = failures + 1
        BY <1>3, <3>1 DEF TickRaises, _record_failure
      <4>. HIDE DEF counts
      <4>3. streak' \in Nat
        BY <1>3, <3>1 DEF TickRaises, TypeOK
      <4>. QED  BY <4>1, <4>2, <4>3, TripTypes DEF TypeOK
    <3>2. CASE c # "run"
      BY <1>3, <3>2 DEF TickRaises, breakerVars, TypeOK
    <3>. QED  BY <3>1, <3>2
  <2>. QED  BY <2>1, <2>2, <2>3, LeaveLoop DEF TypeOK
<1>. QED  BY <1>1, <1>2, <1>3 DEF Tick

\* LoopInv is an invariant of the loop, whatever calls and operators do.
THEOREM LoopInvariant == Spec => []LoopInv
<1>1. LoopInv /\ [Next]_vars => LoopInv'
  BY OutsideLoop, RunLoop, ManualLoop, TickLoopInv DEF Next
<1>. QED  BY <1>1, InitLoop, PTL DEF Spec

\* Type correctness of every state of the tick loop.
THEOREM TickTypeCorrect == Spec => []TypeOK
BY LoopInvariant, PTL DEF LoopInv

\* tick_once() never overlaps itself, and its in-flight flag never sticks.
THEOREM TicksNeverOverlap == Spec => []NoOverlap
BY LoopInvariant, PTL DEF LoopInv

\* Only stop() ends the background task.
THEOREM LoopAlwaysOn == Spec => []OnlyStopEndsLoop
BY LoopInvariant, PTL DEF LoopInv

\* However late a tick ends and whatever jitter is drawn, a deadline of the grid falls
\* between the starts of two ticks of run().
THEOREM NoBurst == Spec => OneTickPerInterval
<1>1. ASSUME LoopInv, SlotTick PROVE PastDeadline
  <2>1. /\ began["run"] < slot * Interval
        /\ slot * Interval <= now
        /\ now \in Nat /\ slot \in Nat
    BY <1>1, SettingsAssumption DEF LoopInv, TypeOK, Schedule, SlotTick, AllCallers
  <2>2. slot <= now
    BY <2>1, SettingsAssumption
  <2>. QED  BY <2>1, <2>2 DEF PastDeadline
<1>2. LoopInv /\ [Next]_vars => [SlotTick => PastDeadline]_vars
  BY <1>1
<1>. QED  BY <1>2, LoopInvariant, PTL DEF Spec, OneTickPerInterval

-----------------------------------------------------------------------------
(* The breaker, until somebody but run() calls tick_once(): the daemon.     *)

\* The breaker starts closed, with both gauges at zero.
LEMMA InitBreaker == Init => Breaker
BY SettingsAssumption
   DEF Init, Breaker, DeadHeartPauses, ReasonTruthful, AllCallers

\* A direct call is never forgotten: run() was alone before if it is alone after, and
\* then the step is not one of a direct caller.
LEMMA StaysAlone ==
  ASSUME LoopInv, [Next]_vars, RunAlone'
  PROVE  /\ RunAlone
         /\ \A c \in Callers : ~ManualTick(c) /\ ~ManualSkipped(c) /\ ~Tick(c)
<1>. USE DEF LoopInv, RunAlone, AllCallers, TypeOK
<1>1. ASSUME NEW c \in Callers, ManualTick(c) \/ ManualSkipped(c) PROVE FALSE
  BY <1>1 DEF ManualTick, ManualSkipped, BeginTick
<1>2. ASSUME NEW c \in Callers, Tick(c) PROVE FALSE
  <2>1. /\ pc[c] \in MidTick
        /\ pc'[c] \in {"handling", "returned"}
    BY <1>2, CallersAssumption DEF Tick, Decided, TickReturns, TickRaises, LeaveTick, MidTick
  <2>. QED  BY <2>1
<1>3. CASE \/ Elapse \/ start \/ stop \/ pause \/ resume
           \/ RunBegin \/ WaitStopped \/ WaitTimesOut \/ SlotSkipped \/ UNCHANGED vars
  <2>1. pc' = pc
    BY <1>3 DEF Elapse, start, stop, pause, resume, RunBegin, WaitStopped, WaitTimesOut,
                SlotSkipped, vars
  <2>. QED  BY <1>1, <1>2, <2>1
<1>4. CASE SlotTick \/ Tick("run")
  <2>1. \A c \in Callers : pc'[c] = pc[c]
    BY <1>4, CallersAssumption
       DEF SlotTick, BeginTick, Tick, Decided, TickReturns, TickRaises, LeaveTick
  <2>. QED  BY <1>1, <1>2, <2>1
<1>. QED  BY <1>1, <1>2, <1>3, <1>4 DEF Next, RunStep

\* Every step of the loop keeps the gauges, the pause and its reason in agreement.
LEMMA NextBreaker ==
  ASSUME LoopInv, Breaker, [Next]_vars
  PROVE  Breaker'
<1>. SUFFICES ASSUME RunAlone'
              PROVE  /\ pc'["run"] # "handling" => streak' <= consec'.failures
                     /\ pc'["run"] = "deciding" => reason' = "none"
                     /\ DeadHeartPauses'
                     /\ ReasonTruthful'
  BY DEF Breaker
<1>. DEFINE Held == /\ pc["run"] # "handling" => streak <= consec.failures
                    /\ pc["run"] = "deciding" => reason = "none"
                    /\ DeadHeartPauses
                    /\ ReasonTruthful
<1>0. /\ Held
      /\ \A c \in Callers : ~ManualTick(c) /\ ~ManualSkipped(c) /\ ~Tick(c)
  BY StaysAlone DEF Breaker
<1>. USE <1>0, SettingsAssumption
     DEF LoopInv, DeadHeartPauses, ReasonTruthful, AllCallers, TypeOK,
         scheduleVars, breakerVars, statVars
<1>1. CASE Elapse \/ start \/ stop \/ UNCHANGED vars
  BY <1>1 DEF Elapse, start, stop, vars
<1>2. CASE pause
  BY <1>2 DEF pause
<1>3. CASE resume
  BY <1>3 DEF resume
<1>4. CASE RunBegin \/ WaitStopped \/ WaitTimesOut \/ SlotSkipped
  BY <1>4 DEF RunBegin, WaitStopped, WaitTimesOut, SlotSkipped
<1>5. CASE SlotTick
  <2>1. pc["run"] = "idle"
    BY <1>5 DEF SlotTick, Schedule, MidTick
  <2>. QED  BY <1>5, <2>1 DEF SlotTick, BeginTick
<1>6. ASSUME NEW d \in TickDecision, Decided("run", d) PROVE Held'
  BY <1>6 DEF Decided, _record_success, _trip_if
<1>7. CASE TickReturns("run")
  BY <1>7 DEF TickReturns, LeaveTick
<1>8. CASE TickRaises("run")
  BY <1>8 DEF TickRaises, LeaveTick, MidTick, _record_failure, _trip_if
<1>. QED  BY <1>1, <1>2, <1>3, <1>4, <1>5, <1>6, <1>7, <1>8 DEF Next, RunStep, Tick

\* The gauges, the pause and its reason agree in every state of the daemon's loop, as
\* long as nobody else has called tick_once().
THEOREM BreakerInvariant == Spec => []Breaker
<1>1. LoopInv /\ Breaker /\ [Next]_vars => Breaker'
  BY NextBreaker
<1>. QED  BY <1>1, InitBreaker, LoopInvariant, PTL DEF Spec

\* A Heart that fails max_consecutive_failures ticks in a row before deciding pauses
\* the daemon's loop.
THEOREM DeadHeartTrips == Spec => [](RunAlone => DeadHeartPauses)
BY BreakerInvariant, PTL DEF Breaker

\* The pause reason an operator reads names a gauge that stands at its limit.
THEOREM ReasonHolds == Spec => [](RunAlone => ReasonTruthful)
BY BreakerInvariant, PTL DEF Breaker
=============================================================================
