--------------------------- MODULE Interventions ---------------------------
(***************************************************************************)
(* The Heart's bounded interventions on the OpenCode executor:              *)
(* OpencodeInterventionHandler and DeterministicInterventionPolicy          *)
(* (heart/tick/opencode_intervention_handler.py), and the seam they act     *)
(* through, OpencodeRunService.apply_intervention (opencode/service.py).    *)
(*                                                                          *)
(* One tick at a time runs the handler; its reads of opencode_runs are      *)
(* separate queries in a worker thread, and the runs move on between them.  *)
(* Of a run the module keeps what those queries tell apart.                 *)
(***************************************************************************)
EXTENDS Integers, FiniteSets

CONSTANTS
  Runs,           \* the opencode_runs rows there may ever be
  None,           \* no run
  MaxRetries,     \* opencode_max_retries_per_run
  CooldownTicks,  \* opencode_intervention_cooldown_ticks
  MaxPerHour,     \* opencode_max_interventions_per_hour
  Hour,           \* 3600 seconds, in units of the clock
  FailureLimit,   \* _PAUSE_INTAKE_FAILURE_THRESHOLD
  QueueMaxDepth,  \* [opencode] queue_max_depth
  MaxTicks,       \* bound: the ticks of one process
  MaxBoots,       \* bound: the restarts of the daemon
  Horizon         \* bound: the last instant of the clock

ASSUME RunsAssumption == IsFiniteSet(Runs) /\ None \notin Runs

ASSUME BudgetAssumption ==
  /\ MaxRetries \in Nat
  /\ CooldownTicks \in Nat
  /\ MaxPerHour \in Nat \ {0}
  /\ Hour \in Nat
  /\ FailureLimit \in Nat \ {0}
  /\ QueueMaxDepth \in Nat \ {0}

ASSUME BoundsAssumption == MaxTicks \in Nat /\ MaxBoots \in Nat /\ Horizon \in Nat

VARIABLES
  now,           \* the monotonic clock of the policy
  ticks,         \* TickLoop.ticks_run
  boots,         \* the times the daemon was restarted
  status,        \* what a query sees of each run
  age,           \* the order in which the runs were created
  count,         \* opencode_runs.intervention_count
  intakePaused,  \* OpencodeRunService._intake_paused
  stage,         \* where the handler is suspended
  gates,         \* decide()'s hourly_ok and cooldown_ok
  found,         \* the run its first query and then its second came up with
  target,        \* the decision being applied: an action and a run
  lastTick,      \* _last_intervention_tick, 0 for None
  recent,        \* _recent_intervention_times: the attempts it holds the times of
  attempts,      \* history: every decision of this process that was not None
  applied,       \* history: the retries each run was resubmitted by
  journal        \* the ticks of this process with an intervention row in heart_journal

vars == <<now, ticks, boots, status, age, count, intakePaused, stage, gates, found, target,
          lastTick, recent, attempts, applied, journal>>

runVars == <<status, age, count, intakePaused>>
policyVars == <<lastTick, recent, attempts>>
outcomeVars == <<applied, journal>>

-----------------------------------------------------------------------------
\* "healthy" is queued or running and not stalled, "failed" is failed or timeout and
\* created within recent_window_minutes, "stale" the same before that.
RunStatus == {"none", "healthy", "stalled", "failed", "stale", "ended"}

Active == {"healthy", "stalled"}

_RETRYABLE_STATUSES == {"failed", "stale"}

\* The actions the cooldown spaces out; the policy never selects COMPACT.
Bounded == {"retry", "nudge", "pause_intake"}

OpencodeAction == Bounded \cup {"escalate_to_brain"}

\* recent_retryable_runs(): newest first, so [0] is the newest.
RetryableOrStalled == {r \in Runs : status[r] \in {"failed", "stalled"}}

recent_retryable_runs == {r \in Runs : status[r] = "failed"}

Newest(S) == CHOOSE r \in S : \A s \in S : age[s] <= age[r]

count_active == Cardinality({r \in Runs : status[r] \in Active})

\* The local variables of a handler that is not running.
Closed == [hourly |-> FALSE, cooldown |-> FALSE]

NoTarget == [action |-> "retry", run |-> None]

Init ==
  /\ now = 0
  /\ ticks = 0
  /\ boots = 0
  /\ status = [r \in Runs |-> "none"]
  /\ age = [r \in Runs |-> 0]
  /\ count = [r \in Runs |-> 0]
  /\ intakePaused \in BOOLEAN
  /\ stage = "idle"
  /\ gates = Closed
  /\ found = None
  /\ target = NoTarget
  /\ lastTick = 0
  /\ recent = {}
  /\ attempts = {}
  /\ applied = [r \in Runs |-> 0]
  /\ journal = {}

-----------------------------------------------------------------------------
(* The executor around the handler.                                        *)

\* create() of a run, by another caller of submit() or by an intervention.
Create(r) ==
  /\ status[r] = "none"
  /\ status' = [status EXCEPT ![r] = "healthy"]
  /\ age' = [age EXCEPT ![r] = Cardinality({s \in Runs : status[s] # "none"}) + 1]

Submitted(r) ==
  /\ ~intakePaused
  /\ count_active < QueueMaxDepth
  /\ Create(r)
  /\ UNCHANGED <<now, ticks, boots, count, intakePaused, stage, gates, found, target,
                 policyVars, outcomeVars>>

\* A run stalls, produces an event again, fails (within the window of its creation or
\* after it) or ends, and its failure leaves the window; decide() measures the window
\* from one instant, so not between its queries.
RunMoves(r) ==
  /\ \/ status[r] = "healthy" /\ status' = [status EXCEPT ![r] = "stalled"]
     \/ status[r] = "stalled" /\ status' = [status EXCEPT ![r] = "healthy"]
     \/ /\ status[r] \in Active
        /\ \E s \in {"failed", "stale", "ended"} : status' = [status EXCEPT ![r] = s]
     \/ /\ status[r] = "failed"
        /\ stage \notin {"stalls", "counts"}
        /\ status' = [status EXCEPT ![r] = "stale"]
  /\ UNCHANGED <<now, ticks, boots, age, count, intakePaused, stage, gates, found, target,
                 policyVars, outcomeVars>>

\* An operator pauses or resumes intake.
OperatorIntake ==
  /\ intakePaused' \in BOOLEAN \ {intakePaused}
  /\ UNCHANGED <<now, ticks, boots, status, age, count, stage, gates, found, target,
                 policyVars, outcomeVars>>

Elapse ==
  /\ now < Horizon
  /\ now' = now + 1
  /\ UNCHANGED <<ticks, boots, runVars, stage, gates, found, target, policyVars, outcomeVars>>

\* A tick that decided idle or escalate: handle() returns at once.
OtherTick ==
  /\ stage = "idle"
  /\ ticks < MaxTicks
  /\ ticks' = ticks + 1
  /\ UNCHANGED <<now, boots, runVars, stage, gates, found, target, policyVars, outcomeVars>>

\* handle() returns or raises.
Leave ==
  /\ stage' = "idle"
  /\ gates' = Closed
  /\ found' = None
  /\ target' = NoTarget

\* The daemon dies at any step and is started again: the policy starts anew, the kill
\* switch from intake_paused_on_boot, sweep_stale_on_boot() fails what was active.
Restart ==
  /\ boots < MaxBoots
  /\ boots' = boots + 1
  /\ \E old \in SUBSET {r \in Runs : status[r] \in Active} :
       status' = [r \in Runs |-> IF r \in old THEN "stale"
                                ELSE IF status[r] \in Active THEN "failed" ELSE status[r]]
  /\ intakePaused' \in BOOLEAN
  /\ Leave
  /\ ticks' = 0
  /\ lastTick' = 0
  /\ recent' = {}
  /\ attempts' = {}
  /\ journal' = {}
  /\ UNCHANGED <<now, age, count, applied>>

-----------------------------------------------------------------------------
(* decide(), in a worker thread: three queries, one rung after each.       *)

\* _hourly_budget_exhausted() first drops the times that left the window.
Unexpired == {a \in recent : a.at >= now - Hour}

BudgetOffByOne == Cardinality(Unexpired) > MaxPerHour

_hourly_budget_exhausted == Cardinality(Unexpired) >= MaxPerHour

_in_cooldown == lastTick # 0 /\ (ticks + 1) - lastTick < CooldownTicks

\* _decided() in tick n: the attempt is charged to both budgets before it is applied.
DecidedUncharged(action, r, kept, n) ==
  LET a == [tick |-> n, at |-> now, action |-> action]
  IN  /\ UNCHANGED lastTick
      /\ recent' = kept \cup {a}
      /\ attempts' = attempts \cup {a}
      /\ target' = [action |-> action, run |-> r]
      /\ gates' = Closed
      /\ found' = None
      /\ stage' = IF action = "escalate_to_brain" THEN "journal" ELSE "apply"

_decided(action, r, kept, n) ==
  LET a == [tick |-> n, at |-> now, action |-> action]
  IN  /\ lastTick' = n
      /\ recent' = kept \cup {a}
      /\ attempts' = attempts \cup {a}
      /\ target' = [action |-> action, run |-> r]
      /\ gates' = Closed
      /\ found' = None
      /\ stage' = IF action = "escalate_to_brain" THEN "journal" ELSE "apply"

\* A tick decided ACT.  Both gates are read, then the retry candidates; rung 1.
DecideRetry ==
  LET hourly    == ~_hourly_budget_exhausted
      cooldown  == hourly /\ ~_in_cooldown
      retryable == {r \in recent_retryable_runs : count[r] < MaxRetries}
  IN
  /\ stage = "idle"
  /\ ticks < MaxTicks
  /\ ticks' = ticks + 1
  /\ IF cooldown /\ retryable # {}
       THEN _decided("retry", Newest(retryable), Unexpired, ticks + 1)
       ELSE /\ stage' = "stalls"
            /\ gates' = [hourly |-> hourly, cooldown |-> cooldown]
            /\ found' = IF recent_retryable_runs = {} THEN None
                        ELSE Newest(recent_retryable_runs)
            /\ recent' = Unexpired
            /\ UNCHANGED <<lastTick, attempts, target>>
  /\ UNCHANGED <<now, boots, runVars, outcomeVars>>

\* running_runs() in no particular order, the first stalled one; rung 2.
DecideNudge ==
  LET stalled == {r \in Runs : status[r] = "stalled"}
  IN
  /\ stage = "stalls"
  /\ \E s \in IF stalled = {} THEN {None} ELSE stalled :
       IF gates.cooldown /\ s # None
         THEN _decided("nudge", s, recent, ticks)
         ELSE /\ stage' = "counts"
              /\ found' = IF found = None THEN s ELSE found
              /\ UNCHANGED <<policyVars, gates, target>>
  /\ UNCHANGED <<now, ticks, boots, runVars, outcomeVars>>

\* recent_outcome_counts(); rungs 3 and 4, or nothing to do.
DecideFallback ==
  LET many == Cardinality(recent_retryable_runs) >= FailureLimit
  IN
  /\ stage = "counts"
  /\ IF gates.cooldown /\ many
       THEN _decided("pause_intake", None, recent, ticks)
       ELSE IF gates.hourly /\ (found # None \/ many)
         THEN _decided("escalate_to_brain", found, recent, ticks)
         ELSE Leave /\ UNCHANGED policyVars
  /\ UNCHANGED <<now, ticks, boots, runVars, outcomeVars>>

-----------------------------------------------------------------------------
(* apply_intervention() and the journal row.                               *)

\* PAUSE_INTAKE: the global kill switch, with no run to count it against.
ApplyPause ==
  /\ stage = "apply"
  /\ target.action = "pause_intake"
  /\ intakePaused' = TRUE
  /\ stage' = "journal"
  /\ UNCHANGED <<now, ticks, boots, status, age, count, gates, found, target, policyVars,
                 outcomeVars>>

\* RETRY and NUDGE: the row is read again (RETRY checks that it is still retryable),
\* and a new run submitted on its behalf.
ApplySubmit(r) ==
  /\ stage = "apply"
  /\ target.action \in {"retry", "nudge"}
  /\ target.action = "retry" => status[target.run] \in _RETRYABLE_STATUSES
  /\ ~intakePaused
  /\ count_active < QueueMaxDepth
  /\ Create(r)
  /\ applied' = IF target.action = "retry"
                  THEN [applied EXCEPT ![target.run] = @ + 1] ELSE applied
  /\ stage' = "count"
  /\ UNCHANGED <<now, ticks, boots, count, intakePaused, gates, found, target, policyVars,
                 journal>>

\* submit() raises OpencodeIntakePausedError or OpencodeBusyError, and so does
\* handle(): nothing is counted and no row is written.
ApplyRefused ==
  /\ stage = "apply"
  /\ target.action \in {"retry", "nudge"}
  /\ intakePaused \/ count_active >= QueueMaxDepth
  /\ Leave
  /\ UNCHANGED <<now, ticks, boots, runVars, policyVars, outcomeVars>>

\* increment_intervention_count() of the run that was retried or nudged.
increment_intervention_count ==
  /\ stage = "count"
  /\ count' = [count EXCEPT ![target.run] = @ + 1]
  /\ stage' = "journal"
  /\ UNCHANGED <<now, ticks, boots, status, age, intakePaused, gates, found, target,
                 policyVars, outcomeVars>>

\* The attempt's own row.  For ESCALATE_TO_BRAIN the Brain was called, or declined
\* because the flag or the Brain is off, in between: a row follows either way.
Journal ==
  /\ stage = "journal"
  /\ journal' = journal \cup {ticks}
  /\ Leave
  /\ UNCHANGED <<now, ticks, boots, runVars, policyVars, applied>>

Handle ==
  \/ DecideRetry
  \/ DecideNudge
  \/ DecideFallback
  \/ ApplyPause
  \/ \E r \in Runs : ApplySubmit(r)
  \/ ApplyRefused
  \/ increment_intervention_count
  \/ Journal

Next ==
  \/ Handle
  \/ \E r \in Runs : Submitted(r) \/ RunMoves(r)
  \/ OperatorIntake
  \/ Elapse
  \/ OtherTick
  \/ Restart

Spec == Init /\ [][Next]_vars

-----------------------------------------------------------------------------
Attempt == [tick : Nat, at : Nat, action : OpencodeAction]

\* The type invariant of the policy, the handler and the runs.
TypeOK ==
  /\ now \in Nat
  /\ ticks \in Nat
  /\ boots \in Nat
  /\ status \in [Runs -> RunStatus]
  /\ age \in [Runs -> Nat]
  /\ count \in [Runs -> Nat]
  /\ intakePaused \in BOOLEAN
  /\ stage \in {"idle", "stalls", "counts", "apply", "count", "journal"}
  /\ gates \in [hourly : BOOLEAN, cooldown : BOOLEAN]
  /\ found \in Runs \cup {None}
  /\ target \in [action : OpencodeAction, run : Runs \cup {None}]
  /\ lastTick \in Nat
  /\ recent \in SUBSET Attempt
  /\ attempts \in SUBSET Attempt
  /\ applied \in [Runs -> Nat]
  /\ journal \in SUBSET Nat

\* The cooldown: no two of RETRY, NUDGE and PAUSE_INTAKE are attempted within
\* cooldown_ticks of each other, whatever escalations fall between them.
CooldownHeld ==
  \A a, b \in attempts :
    a.action \in Bounded /\ b.action \in Bounded /\ a.tick < b.tick =>
      b.tick - a.tick >= CooldownTicks

\* The hourly ceiling: in the hour up to any attempt there are, with it, at most
\* max_interventions_per_hour, escalations included and although the list of times
\* is pruned as it is read.
HourlyCapHeld ==
  \A a \in attempts :
    Cardinality({b \in attempts : b.tick <= a.tick /\ b.at >= a.at - Hour})
      <= MaxPerHour

\* The per-run budget: no run is resubmitted by more than max_retries_per_run
\* retries, although its count is read in one step and raised only after the new run
\* was submitted; a crash between those two loses one charge and no more.
RetriesBounded == \A r \in Runs : applied[r] <= MaxRetries + boots

\* An intervention names a real run: only runs that exist and failed are retried,
\* although they are chosen from one query and acted on after others, so the
\* decline of apply_intervention() for a run that is not retryable never happens.
RetryTargetsFailed ==
  stage = "apply" /\ target.action = "retry" =>
    status[target.run] \in _RETRYABLE_STATUSES

\* What is promised of a run that failed: it is retried, no other is, and no more often
\* than its budget says.
RetriesSound == RetriesBounded /\ RetryTargetsFailed
=============================================================================
