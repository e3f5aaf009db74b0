------------------------------ MODULE TickLoop ------------------------------
(***************************************************************************)
(* The Heart's always-on tick loop (heart/tick/loop.py): the slot schedule  *)
(* of run(), tick_once() with its in-flight guard, the circuit breaker, and *)
(* the operator's pause and resume, which may land at any await.            *)
(*                                                                          *)
(* Time is an integer count of units since run() read its start time.       *)
(* Nothing bounds how late the event loop resumes a coroutine, so the clock *)
(* may advance between any two steps.                                       *)
(***************************************************************************)
EXTENDS Integers

CONSTANTS
  Callers,      \* direct callers of tick_once(), each calling once
  Interval,     \* interval_seconds
  Jitter,       \* jitter_seconds: the largest delay _jitter() returns
  OverrunAt,    \* interval_seconds * overrun_ratio
  MaxFailures,  \* max_consecutive_failures
  AutoPause,    \* auto_pause_enabled
  Horizon       \* bound: the last instant of the clock

ASSUME CallersAssumption == "run" \notin Callers

\* what TickLoop.__init__ refuses, and that the schedule has whole units
ASSUME SettingsAssumption ==
  /\ Interval \in Nat \ {0}
  /\ Jitter \in Nat
  /\ OverrunAt \in Nat \ {0}
  /\ MaxFailures \in Nat \ {0}
  /\ AutoPause \in BOOLEAN

ASSUME HorizonAssumption == Horizon \in Nat

VARIABLES
  now,       \* the monotonic clock
  loop,      \* the background task of run(): where it is suspended
  stopSet,   \* _stop_event
  slot,      \* run()'s tick_number
  wakeAt,    \* when the wait for the slot times out
  inFlight,  \* _in_flight
  pc,        \* where each caller of tick_once() is suspended
  began,     \* when each caller's latest tick started
  paused,    \* _paused
  reason,    \* _pause_reason: "none", or the gauge that tripped the breaker
  ticksRun,  \* _ticks_run
  decided,   \* _idle_total, _act_total, _escalate_total
  failures,  \* _failures_total
  consec,    \* _consecutive_failures and _consecutive_overruns
  streak     \* history: the latest ticks of run(), back to back, that raised before
             \* their decision was parsed

vars == <<now, loop, stopSet, slot, wakeAt, inFlight, pc, began, paused, reason,
          ticksRun, decided, failures, consec, streak>>

scheduleVars == <<loop, slot, wakeAt>>
breakerVars == <<paused, reason, consec>>
statVars == <<ticksRun, decided, failures>>

-----------------------------------------------------------------------------
TickDecision == {"idle", "act", "escalate"}

AllCallers == Callers \cup {"run"}

\* A tick between the guard of tick_once() and its finally clause.
MidTick == {"deciding", "handling"}

\* The slot after which run() waits next: the first from n on whose successor is
\* still in the future.
NextSlotSkipsNone(n) == n

_next_tick_number(n) ==
  CHOOSE m \in n..(n + now) :
    /\ now < (m + 1) * Interval
    /\ \A k \in n..(m - 1) : (k + 1) * Interval <= now

\* The head of run()'s while loop, reached with tick_number = n: it ends once the
\* stop event is set, or waits for the next slot's deadline plus some jitter.
NextSlot(n) ==
  \/ /\ stopSet
     /\ loop' = "done"
     /\ slot' = n
     /\ UNCHANGED wakeAt
  \/ /\ ~stopSet
     /\ loop' = "waiting"
     /\ slot' = n + 1
     /\ \E delay \in 0..Jitter :
          LET deadline == (n + 1) * Interval
          IN  wakeAt' = delay + IF deadline > now THEN deadline ELSE now

\* pause(reason=...) of the breaker, once either gauge has reached the limit.
TripLate(gauge, counts) ==
  /\ consec' = counts
  /\ IF counts[gauge] > MaxFailures /\ AutoPause
       THEN paused' = TRUE /\ reason' = gauge
       ELSE UNCHANGED <<paused, reason>>

_trip_if(gauge, counts) ==
  /\ consec' = counts
  /\ IF counts[gauge] >= MaxFailures /\ AutoPause
       THEN paused' = TRUE /\ reason' = gauge
       ELSE UNCHANGED <<paused, reason>>

_record_failure ==
  /\ failures' = failures + 1
  /\ _trip_if("failures", [consec EXCEPT !["failures"] = @ + 1])

_record_success(duration) ==
  _trip_if("overruns",
           [failures |-> 0,
            overruns |-> IF duration >= OverrunAt THEN consec.overruns + 1 ELSE 0])

-----------------------------------------------------------------------------
Init ==
  /\ now = 0
  /\ loop = "off"
  /\ stopSet = FALSE
  /\ slot = 0
  /\ wakeAt = 0
  /\ inFlight = FALSE
  /\ pc = [c \in AllCallers |-> "idle"]
  /\ began = [c \in AllCallers |-> 0]
  /\ paused = FALSE
  /\ reason = "none"
  /\ ticksRun = 0
  /\ decided = [d \in TickDecision |-> 0]
  /\ failures = 0
  /\ consec = [failures |-> 0, overruns |-> 0]
  /\ streak = 0

\* The clock.  run() reads its start time when its task first runs, so the time
\* before that does not count.
Elapse ==
  /\ loop # "off" /\ loop # "created"
  /\ now < Horizon
  /\ now' = now + 1
  /\ UNCHANGED <<scheduleVars, stopSet, inFlight, pc, began, breakerVars, statVars,
                 streak>>

\* The lifespan creates the task once; stop() is only called after that.
start ==
  /\ loop = "off"
  /\ loop' = "created"
  /\ stopSet' = FALSE
  /\ UNCHANGED <<now, slot, wakeAt, inFlight, pc, began, breakerVars, statVars, streak>>

stop ==
  /\ loop # "off"
  /\ stopSet' = TRUE
  /\ UNCHANGED <<now, scheduleVars, inFlight, pc, began, breakerVars, statVars, streak>>

\* The kill switch: POST /heart/tick/pause and /heart/tick/resume.
pause ==
  /\ paused' = TRUE
  /\ reason' = "none"
  /\ UNCHANGED <<now, scheduleVars, stopSet, inFlight, pc, began, consec, statVars,
                 streak>>

resume ==
  /\ paused' = FALSE
  /\ reason' = "none"
  /\ consec' = [failures |-> 0, overruns |-> 0]
  /\ streak' = 0
  /\ UNCHANGED <<now, scheduleVars, stopSet, inFlight, pc, began, statVars>>

\* The first step of run(): tick_number = 0.
RunBegin ==
  /\ loop = "created"
  /\ NextSlot(0)
  /\ UNCHANGED <<now, stopSet, inFlight, pc, began, breakerVars, statVars, streak>>

WaitOut ==
  /\ loop = "waiting"
  /\ stopSet
  /\ wakeAt <= now
  /\ loop' = "done"
  /\ UNCHANGED <<now, slot, wakeAt, stopSet, inFlight, pc, began, breakerVars,
                 statVars, streak>>

\* _wait_or_stop() returning True: the stop event was set before the timeout.
WaitStopped ==
  /\ loop = "waiting"
  /\ stopSet
  /\ loop' = "done"
  /\ UNCHANGED <<now, slot, wakeAt, stopSet, inFlight, pc, began, breakerVars,
                 statVars, streak>>

\* The timeout of the wait, which cancels it: a stop() that lands between this and
\* the coroutine's next step is only seen at the head of the loop.
WaitTimesOut ==
  /\ loop = "waiting"
  /\ ~stopSet
  /\ wakeAt <= now
  /\ loop' = "due"
  /\ UNCHANGED <<now, slot, wakeAt, stopSet, inFlight, pc, began, breakerVars,
                 statVars, streak>>

\* A due slot passed over: the loop is paused, or tick_once() answers "skipped".
SlotSkipped ==
  /\ loop = "due"
  /\ paused \/ inFlight
  /\ NextSlot(_next_tick_number(slot))
  /\ UNCHANGED <<now, stopSet, inFlight, pc, began, breakerVars, statVars, streak>>

\* The start of tick_once() by caller c, with its in-flight guard.
BeginUnguarded(c) ==
  /\ inFlight' = TRUE
  /\ pc' = [pc EXCEPT ![c] = "deciding"]
  /\ began' = [began EXCEPT ![c] = now]

BeginTick(c) ==
  /\ ~inFlight
  /\ inFlight' = TRUE
  /\ pc' = [pc EXCEPT ![c] = "deciding"]
  /\ began' = [began EXCEPT ![c] = now]

SlotTick ==
  /\ loop = "due"
  /\ ~paused
  /\ BeginTick("run")
  /\ loop' = "ticking"
  /\ UNCHANGED <<now, slot, wakeAt, stopSet, breakerVars, statVars, streak>>

ManualTick(c) ==
  /\ pc[c] = "idle"
  /\ BeginTick(c)
  /\ UNCHANGED <<now, scheduleVars, stopSet, breakerVars, statVars, streak>>

ManualSkipped(c) ==
  /\ pc[c] = "idle"
  /\ inFlight
  /\ pc' = [pc EXCEPT ![c] = "returned"]
  /\ UNCHANGED <<now, scheduleVars, stopSet, inFlight, began, breakerVars, statVars,
                 streak>>

\* Snapshot, prompt, generate and parse have succeeded with decision d: all the
\* bookkeeping of the tick, before its handlers run.
Decided(c, d) ==
  /\ pc[c] = "deciding"
  /\ pc' = [pc EXCEPT ![c] = "handling"]
  /\ ticksRun' = ticksRun + 1
  /\ decided' = [decided EXCEPT ![d] = @ + 1]
  /\ _record_success(now - began[c])
  /\ UNCHANGED <<now, scheduleVars, stopSet, inFlight, began, failures, streak>>

\* tick_once() is left: its finally clause, and what its caller does next.
LeaveTick(c) ==
  /\ inFlight' = FALSE
  /\ pc' = [pc EXCEPT ![c] = IF c = "run" THEN "idle" ELSE "returned"]
  /\ IF c = "run" THEN NextSlot(_next_tick_number(slot)) ELSE UNCHANGED scheduleVars
  /\ UNCHANGED <<now, stopSet, began, ticksRun, decided>>

\* Every handler of the composite returned.
TickReturns(c) ==
  /\ pc[c] = "handling"
  /\ LeaveTick(c)
  /\ streak' = IF c = "run" THEN 0 ELSE streak
  /\ UNCHANGED <<breakerVars, failures>>

\* tick_once() raises: from the snapshot, the prompt, the model or the parser while
\* still deciding, or from a handler, which keeps the later ones from running.  run()
\* swallows the exception and counts it; a direct caller just gets it.
TickRaises(c) ==
  /\ pc[c] \in MidTick
  /\ LeaveTick(c)
  /\ IF c = "run"
       THEN /\ _record_failure
            /\ streak' = IF pc[c] = "deciding" THEN streak + 1 ELSE 0
       ELSE UNCHANGED <<breakerVars, failures, streak>>

Tick(c) ==
  \/ \E d \in TickDecision : Decided(c, d)
  \/ TickReturns(c)
  \/ TickRaises(c)

RunStep ==
  \/ RunBegin
  \/ WaitStopped
  \/ WaitTimesOut
  \/ SlotSkipped
  \/ SlotTick

Next ==
  \/ Elapse
  \/ start
  \/ stop
  \/ pause
  \/ resume
  \/ RunStep
  \/ \E c \in Callers : ManualTick(c) \/ ManualSkipped(c)
  \/ \E c \in AllCallers : Tick(c)

Spec == Init /\ [][Next]_vars

\* The event loop keeps resuming the task, and a tick that started ends: the model
\* generates at most max_output_tokens, and every handler's calls are bounded.
Fairness ==
  /\ WF_vars(RunStep)
  /\ \A c \in AllCallers : WF_vars(Tick(c))

FairSpec == Spec /\ Fairness

-----------------------------------------------------------------------------
\* The type invariant of the loop's state.
TypeOK ==
  /\ now \in Nat
  /\ loop \in {"off", "created", "waiting", "due", "ticking", "done"}
  /\ stopSet \in BOOLEAN
  /\ slot \in Nat
  /\ wakeAt \in Nat
  /\ inFlight \in BOOLEAN
  /\ pc \in [AllCallers -> {"idle", "deciding", "handling", "returned"}]
  /\ began \in [AllCallers -> Nat]
  /\ paused \in BOOLEAN
  /\ reason \in {"none", "failures", "overruns"}
  /\ ticksRun \in Nat
  /\ decided \in [TickDecision -> Nat]
  /\ failures \in Nat
  /\ consec \in [failures : Nat, overruns : Nat]
  /\ streak \in Nat

\* Backpressure: two ticks never overlap, whoever calls tick_once() (run() and direct
\* callers racing), and the in-flight flag is up exactly while one is running, so a
\* tick that raises can never leave the loop skipping every later one.
NoOverlap ==
  /\ \A c, d \in AllCallers : pc[c] \in MidTick /\ pc[d] \in MidTick => c = d
  /\ inFlight <=> \E c \in AllCallers : pc[c] \in MidTick

\* The always-on loop: no failing tick, trip or pause ever ends the background task
\* that /readyz watches (is_healthy); only stop() does.
OnlyStopEndsLoop == loop = "done" => stopSet

\* The breaker catches a Heart that is down: once MaxFailures ticks in a row raised
\* before reaching a decision, the loop is paused until someone resumes it, whatever
\* overruns, handler failures and pauses came before.
DeadHeartPauses == AutoPause /\ streak >= MaxFailures => paused

\* pause_reason, which GET /heart/tick shows the operator, is there only while the
\* loop is paused and names a gauge that still stands at the limit.
ReasonTruthful ==
  reason # "none" => paused /\ consec[reason] >= MaxFailures

\* No burst and no drift: between the starts of two ticks of run() falls at least one
\* deadline of the fixed grid, however late the first one ended and however much
\* jitter either wait drew, so no interval of the grid ever sees two ticks.
PastDeadline ==
  \E k \in 0..now : k * Interval <= now /\ began["run"] < k * Interval

OneTickPerInterval == [][SlotTick => PastDeadline]_vars

\* The inductive strengthening of the properties above: where run() is tells whether it
\* is ticking, the slot it waits for is past its latest tick and not past the wait,
Schedule ==
  /\ loop = "ticking" <=> pc["run"] \in MidTick
  /\ pc["run"] # "returned"
  /\ began["run"] <= now
  /\ loop \in {"off", "created"} => now = 0
  /\ loop \in {"waiting", "due"} =>
       began["run"] < slot * Interval /\ slot * Interval <= wakeAt
  /\ loop = "due" => wakeAt <= now

\* and, until somebody calls tick_once() directly, what the gauges stand at during a
\* tick of run().
RunAlone == \A c \in Callers : pc[c] = "idle"

Breaker ==
  RunAlone =>
    /\ pc["run"] # "handling" => streak <= consec.failures
    /\ pc["run"] = "deciding" => reason = "none"
    /\ DeadHeartPauses
    /\ ReasonTruthful

LoopInv == TypeOK /\ NoOverlap /\ OnlyStopEndsLoop /\ Schedule

\* A stop() lets the loop end: it does not wait out the interval, a pause, or more
\* than the tick that is already due.
StopEndsLoop == stopSet ~> loop = "done"
=============================================================================
