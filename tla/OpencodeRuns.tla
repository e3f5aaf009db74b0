---------------------------- MODULE OpencodeRuns ----------------------------
(***************************************************************************)
(* The life of OpenCode runs: OpencodeRunService (opencode/service.py), the *)
(* opencode_runs table (opencode/repository.py), OpencodeCliRunner          *)
(* (opencode/runner.py) and one child process per run, from submission to   *)
(* a terminal row, across cancellation, shutdown, crash and restart.        *)
(*                                                                          *)
(* One coroutine per run: the submitting call, and from "created" on the    *)
(* _execute task.  An await is a point between two actions.  Every database *)
(* call runs in a worker thread: a dispatched UPDATE sits in write[r] until *)
(* its thread commits it, and a native task.cancel() abandons the await but *)
(* not a thread that already started.                                       *)
(***************************************************************************)
EXTENDS Integers, FiniteSets

CONSTANTS
  Runs,           \* the runs that may ever be submitted
  QueueMaxDepth,  \* [opencode] queue_max_depth
  MaxConcurrent,  \* [opencode] max_concurrent_runs
  Cancellable,    \* the runs some client may cancel, any number of times
  MaxDowns        \* bound: how often the daemon goes down

ASSUME RunsAssumption == IsFiniteSet(Runs) /\ Cancellable \subseteq Runs

\* config/settings.py rejects a depth below the concurrency
ASSUME LimitsAssumption ==
  /\ MaxConcurrent \in Nat \ {0}
  /\ QueueMaxDepth \in Nat
  /\ QueueMaxDepth >= MaxConcurrent

ASSUME DownsAssumption == MaxDowns \in Nat

VARIABLES
  phase,         \* the daemon: serving, stopping, exited (clean) or crashed
  downs,         \* how often it has gone down
  intakePaused,  \* OpencodeRunService._intake_paused
  pc,            \* where each run's coroutine is suspended
  cancelReq,     \* task.cancel() called, CancelledError not yet thrown
  row,           \* opencode_runs.status ("none": no row)
  write,         \* UPDATEs dispatched to a worker thread, not yet committed
  verdict,       \* why _run_one left its read loop
  child,         \* the opencode process of the run
  slots,         \* asyncio.Semaphore._value
  ahead,         \* the waiters in front of a run when it joined the queue
  admitted,      \* OpencodeCliRunner._admitted
  lastEvent      \* the keys of OpencodeRunService._last_event_at

vars == <<phase, downs, intakePaused, pc, cancelReq, row, write, verdict,
          child, slots, ahead, admitted, lastEvent>>

daemonVars == <<phase, downs, intakePaused>>
runnerVars == <<slots, ahead, admitted>>

-----------------------------------------------------------------------------
ActiveStatuses == {"queued", "running"}

TerminalStatuses == {"succeeded", "failed", "timeout", "cancelled"}

\* states of the submitting call before its task exists
Submitting == {"counting", "creating", "inserted"}

\* a supervised child: _run_one is between the spawn and its return
Supervising == {"streaming", "terminating", "killing", "reaping", "joining"}

\* inside `async with self._semaphore`, or handed the slot by a release
Holding == {"granted"} \cup Supervising

\* counted in _admitted
Admitted == {"waiting"} \cup Holding

\* keys of OpencodeRunService._tasks
Tracked == {"created", "marking", "marked", "settling", "cancelling"}
             \cup Admitted

\* the task ended; "refused": by the runner's own OpencodeBusyError;
\* "lost": with the process
Ended == {"done", "refused", "lost"}

Alive == {"alive", "mute"}

\* The status column for _run_one()'s outcome.
Status(r) ==
  IF verdict[r] = "exit" /\ child[r] = "ok" THEN "succeeded"
  ELSE IF verdict[r] = "timeout" THEN "timeout" ELSE "failed"

TypeOK ==
  /\ phase \in {"serving", "stopping", "exited", "crashed"}
  /\ downs \in 0..MaxDowns
  /\ intakePaused \in BOOLEAN
  /\ pc \in [Runs -> {"idle"} \cup Submitting \cup Tracked \cup Ended]
  /\ cancelReq \in [Runs -> BOOLEAN]
  /\ row \in [Runs -> {"none"} \cup ActiveStatuses \cup TerminalStatuses]
  /\ write \in [Runs -> SUBSET ({"running"} \cup TerminalStatuses)]
  /\ verdict \in [Runs -> {"none", "exit", "timeout", "truncated",
                           "spawn_error", "cancelled"}]
  /\ child \in [Runs -> {"none", "alive", "mute", "ok", "bad"}]
  /\ slots \in Int
  /\ ahead \in [Runs -> SUBSET Runs]
  /\ admitted \in Int
  /\ lastEvent \in SUBSET Runs

Init ==
  /\ phase = "serving"
  /\ downs = 0
  /\ intakePaused = FALSE
  /\ pc = [r \in Runs |-> "idle"]
  /\ cancelReq = [r \in Runs |-> FALSE]
  /\ row = [r \in Runs |-> "none"]
  /\ write = [r \in Runs |-> {}]
  /\ verdict = [r \in Runs |-> "none"]
  /\ child = [r \in Runs |-> "none"]
  /\ slots = MaxConcurrent
  /\ ahead = [r \in Runs |-> {}]
  /\ admitted = 0
  /\ lastEvent = {}

-----------------------------------------------------------------------------
(* submit(): three awaits between the intake check and the new task.       *)

pause_intake ==
  /\ phase = "serving"
  /\ intakePaused' = TRUE
  /\ UNCHANGED <<phase, downs, pc, cancelReq, row, write, verdict, child,
                 runnerVars, lastEvent>>

resume_intake ==
  /\ phase = "serving"
  /\ intakePaused' = FALSE
  /\ UNCHANGED <<phase, downs, pc, cancelReq, row, write, verdict, child,
                 runnerVars, lastEvent>>

\* Checks the kill switch, then awaits count_active() in a thread.
SubmitBegin(r) ==
  /\ phase = "serving"
  /\ pc[r] = "idle"
  /\ ~intakePaused
  /\ pc' = [pc EXCEPT ![r] = "counting"]
  /\ UNCHANGED <<daemonVars, cancelReq, row, write, verdict, child,
                 runnerVars, lastEvent>>

count_active == Cardinality({r \in Runs : row[r] \in ActiveStatuses})

\* The count is compared with queue_max_depth: refused (the caller may come
\* back), or on to create().
SubmitCount(r) ==
  /\ pc[r] = "counting"
  /\ pc' = [pc EXCEPT ![r] =
               IF count_active >= QueueMaxDepth THEN "idle" ELSE "creating"]
  /\ UNCHANGED <<daemonVars, cancelReq, row, write, verdict, child,
                 runnerVars, lastEvent>>

\* OpencodeRunRepository.create() commits in its thread.
SubmitCreate(r) ==
  /\ pc[r] = "creating"
  /\ row' = [row EXCEPT ![r] = "queued"]
  /\ pc' = [pc EXCEPT ![r] = "inserted"]
  /\ UNCHANGED <<daemonVars, cancelReq, write, verdict, child,
                 runnerVars, lastEvent>>

\* Back on the event loop: create_task(self._execute(...)), tracked.
SubmitLaunch(r) ==
  /\ pc[r] = "inserted"
  /\ pc' = [pc EXCEPT ![r] = "created"]
  /\ UNCHANGED <<daemonVars, cancelReq, row, write, verdict, child,
                 runnerVars, lastEvent>>

-----------------------------------------------------------------------------
(* asyncio.Semaphore: a released slot is handed to the first waiter whose  *)
(* future is still pending (a cancelled waiter's is not).                  *)

Waiting == {w \in Runs : pc[w] = "waiting" /\ ~cancelReq[w]}

\* the first n of the waiters W in arrival order
First(W, n) == {w \in W : Cardinality(ahead[w] \cap W) < n}

\* Semaphore.locked()
Locked == slots = 0 \/ Waiting # {} \/ \E w \in Runs : pc[w] = "granted"

\* pc after r moves to p and the waiters in G were handed a slot
Granting(r, p, G) ==
  [x \in Runs |-> IF x = r THEN p ELSE IF x \in G THEN "granted" ELSE pc[x]]

\* The slot is released and _admitted decremented: run()'s two exits.
LeaveRunner(r, p) ==
  LET G == First(Waiting \ {r}, 1) IN
  /\ slots' = slots + 1 - Cardinality(G)
  /\ pc' = Granting(r, p, G)
  /\ admitted' = admitted - 1
  /\ ahead' = [ahead EXCEPT ![r] = {}]

\* Mutant: the wake-up is not passed on.
LeaveQueueSilently(r, p) ==
  /\ slots' = IF pc[r] = "granted" THEN slots + 1 ELSE slots
  /\ pc' = [pc EXCEPT ![r] = p]
  /\ admitted' = admitted - 1
  /\ ahead' = [ahead EXCEPT ![r] = {}]

\* A waiter leaves the queue by cancellation, giving back a slot it had been
\* handed, and wakes as many others as there are slots.
LeaveQueue(r, p) ==
  LET free == IF pc[r] = "granted" THEN slots + 1 ELSE slots
      G    == First(Waiting \ {r}, free)
  IN
  /\ slots' = free - Cardinality(G)
  /\ pc' = Granting(r, p, G)
  /\ admitted' = admitted - 1
  /\ ahead' = [ahead EXCEPT ![r] = {}]

-----------------------------------------------------------------------------
(* The _execute task. A task whose cancellation is requested takes no      *)
(* ordinary step: its next resumption throws.                              *)

\* First step: dispatch the `running` UPDATE.
Start(r) ==
  /\ pc[r] = "created"
  /\ ~cancelReq[r]
  /\ pc' = [pc EXCEPT ![r] = "marking"]
  /\ write' = [write EXCEPT ![r] = @ \cup {"running"}]
  /\ UNCHANGED <<daemonVars, cancelReq, row, verdict, child,
                 runnerVars, lastEvent>>

\* runner.run(): the admission check fails, OpencodeBusyError leaves _execute.
RunRefused(r) ==
  /\ pc[r] = "marked"
  /\ ~cancelReq[r]
  /\ admitted >= QueueMaxDepth
  /\ pc' = [pc EXCEPT ![r] = "refused"]
  /\ UNCHANGED <<daemonVars, cancelReq, row, write, verdict, child,
                 runnerVars, lastEvent>>

\* runner.run(): admitted, but the semaphore is taken.
RunQueued(r) ==
  /\ pc[r] = "marked"
  /\ ~cancelReq[r]
  /\ admitted < QueueMaxDepth
  /\ Locked
  /\ admitted' = admitted + 1
  /\ ahead' = [ahead EXCEPT ![r] = {w \in Runs : pc[w] = "waiting"}]
  /\ pc' = [pc EXCEPT ![r] = "waiting"]
  /\ UNCHANGED <<daemonVars, cancelReq, row, write, verdict, child,
                 slots, lastEvent>>

\* Mutant: a granted waiter does not wake the ones that queued behind it.
AcquireSlotSilently(r, p) ==
  /\ ~cancelReq[r]
  /\ \/ /\ pc[r] = "marked"
        /\ admitted < QueueMaxDepth
        /\ ~Locked
        /\ slots' = slots - 1
        /\ admitted' = admitted + 1
     \/ /\ pc[r] = "granted"
        /\ UNCHANGED <<slots, admitted>>
  /\ pc' = [pc EXCEPT ![r] = p]
  /\ ahead' = [ahead EXCEPT ![r] = {}]

\* The slot is acquired, at once or by resuming as a granted waiter (which
\* first wakes as many others as there are slots).
AcquireSlot(r, p) ==
  /\ ~cancelReq[r]
  /\ \/ /\ pc[r] = "marked"
        /\ admitted < QueueMaxDepth
        /\ ~Locked
        /\ slots' = slots - 1
        /\ admitted' = admitted + 1
        /\ pc' = [pc EXCEPT ![r] = p]
     \/ /\ pc[r] = "granted"
        /\ LET G == First(Waiting, slots) IN
           /\ slots' = slots - Cardinality(G)
           /\ pc' = Granting(r, p, G)
        /\ UNCHANGED admitted
  /\ ahead' = [ahead EXCEPT ![r] = {}]

\* _run_one(): the child is spawned and the read loop entered.
RunSpawn(r) ==
  /\ AcquireSlot(r, "streaming")
  /\ child' = [child EXCEPT ![r] = "alive"]
  /\ UNCHANGED <<daemonVars, cancelReq, row, write, verdict, lastEvent>>

\* The spawn raised OSError: a FAILED outcome. The slot taken is returned
\* and the terminal UPDATE dispatched without an await in between.
RunSpawnFails(r) ==
  /\ ~cancelReq[r]
  /\ \/ /\ pc[r] = "marked"
        /\ admitted < QueueMaxDepth
        /\ ~Locked
        /\ pc' = [pc EXCEPT ![r] = "settling"]
        /\ UNCHANGED <<slots, admitted>>
     \/ /\ pc[r] = "granted"
        /\ LET G == First(Waiting, slots + 1) IN
           /\ slots' = slots + 1 - Cardinality(G)
           /\ pc' = Granting(r, "settling", G)
        /\ admitted' = admitted - 1
  /\ verdict' = [verdict EXCEPT ![r] = "spawn_error"]
  /\ write' = [write EXCEPT ![r] = @ \cup {"failed"}]
  /\ ahead' = [ahead EXCEPT ![r] = {}]
  /\ UNCHANGED <<daemonVars, cancelReq, row, child, lastEvent>>

\* One event line reaches on_event().
RunEvent(r) ==
  /\ pc[r] = "streaming"
  /\ ~cancelReq[r]
  /\ lastEvent' = lastEvent \cup {r}
  /\ UNCHANGED <<daemonVars, pc, cancelReq, row, write, verdict, child,
                 runnerVars>>

\* run_timeout_seconds or max_run_output_bytes exceeded: _finish(force)
\* calls terminate() and waits shutdown_timeout_seconds in a thread.
RunStopped(r, why) ==
  /\ pc[r] = "streaming"
  /\ ~cancelReq[r]
  /\ pc' = [pc EXCEPT ![r] = "terminating"]
  /\ verdict' = [verdict EXCEPT ![r] = why]
  /\ UNCHANGED <<daemonVars, cancelReq, row, write, child,
                 runnerVars, lastEvent>>

\* stdout closed: _finish(force=False) waits for the exit, with no bound.
RunEof(r) ==
  /\ pc[r] = "streaming"
  /\ ~cancelReq[r]
  /\ child[r] # "alive"
  /\ pc' = [pc EXCEPT ![r] = "reaping"]
  /\ verdict' = [verdict EXCEPT ![r] = "exit"]
  /\ UNCHANGED <<daemonVars, cancelReq, row, write, child,
                 runnerVars, lastEvent>>

\* Mutant: the wait after kill() or at EOF is left out.
FinishUnreaped(r) ==
  /\ pc[r] \in {"terminating", "killing", "reaping"}
  /\ ~cancelReq[r]
  /\ pc' = [pc EXCEPT ![r] = "joining"]
  /\ UNCHANGED <<daemonVars, cancelReq, row, write, verdict, child,
                 runnerVars, lastEvent>>

\* handle.wait() returned: join the reader thread.
FinishReaped(r) ==
  /\ pc[r] \in {"terminating", "killing", "reaping"}
  /\ ~cancelReq[r]
  /\ child[r] \notin Alive
  /\ pc' = [pc EXCEPT ![r] = "joining"]
  /\ UNCHANGED <<daemonVars, cancelReq, row, write, verdict, child,
                 runnerVars, lastEvent>>

\* Mutant: the second wait without the kill().
FinishWaitAgain(r) ==
  /\ pc[r] = "terminating"
  /\ ~cancelReq[r]
  /\ child[r] \in Alive
  /\ pc' = [pc EXCEPT ![r] = "killing"]
  /\ UNCHANGED <<daemonVars, cancelReq, row, write, verdict, child,
                 runnerVars, lastEvent>>

\* handle.wait(timeout) raised TimeoutExpired: kill(), wait again.
FinishKill(r) ==
  /\ pc[r] = "terminating"
  /\ ~cancelReq[r]
  /\ child[r] \in Alive
  /\ pc' = [pc EXCEPT ![r] = "killing"]
  /\ child' = [child EXCEPT ![r] = "bad"]
  /\ UNCHANGED <<daemonVars, cancelReq, row, write, verdict,
                 runnerVars, lastEvent>>

\* _finish() returned: run() returns its outcome, or re-raises the
\* CancelledError it was handling; _execute dispatches the last UPDATE.
FinishJoined(r) ==
  /\ pc[r] = "joining"
  /\ ~cancelReq[r]
  /\ \/ /\ verdict[r] = "cancelled"
        /\ LeaveRunner(r, "cancelling")
        /\ write' = [write EXCEPT ![r] = @ \cup {"cancelled"}]
     \/ /\ verdict[r] # "cancelled"
        /\ LeaveRunner(r, "settling")
        /\ write' = [write EXCEPT ![r] = @ \cup {Status(r)}]
  /\ UNCHANGED <<daemonVars, cancelReq, row, verdict, child, lastEvent>>

-----------------------------------------------------------------------------
(* OpencodeRunRepository.update_status() in its worker thread: one UPDATE  *)
(* guarded by `status NOT IN (terminal)`, then an assertion on rowcount.   *)

update_status(r, s) ==
  row' = [row EXCEPT ![r] = IF @ \in TerminalStatuses THEN @ ELSE s]

\* The coroutine of r still awaits the UPDATE to s.
Awaits(r, s) ==
  \/ pc[r] = "marking" /\ s = "running"
  \/ pc[r] = "settling" /\ s = Status(r)
  \/ pc[r] = "cancelling" /\ s = "cancelled"

\* _forget_task(), the done-callback of a task: nothing of the run is left.
_forget_task(r) == lastEvent' = lastEvent \ {r}

\* The thread commits; the coroutine resumes if it still awaits this UPDATE
\* (with the AssertionError when no row matched).
Commit(r, s) ==
  LET ends == /\ Awaits(r, s)
              /\ pc[r] # "marking" \/ row[r] \in TerminalStatuses
  IN
  /\ s \in write[r]
  /\ update_status(r, s)
  /\ write' = [write EXCEPT ![r] = @ \ {s}]
  /\ pc' = [pc EXCEPT ![r] = IF ends THEN "done"
                             ELSE IF Awaits(r, s) THEN "marked" ELSE @]
  /\ cancelReq' = [cancelReq EXCEPT ![r] = @ /\ ~ends]
  /\ IF ends THEN _forget_task(r) ELSE UNCHANGED lastEvent
  /\ verdict' = [verdict EXCEPT ![r] = IF ends THEN "none" ELSE @]
  /\ UNCHANGED <<daemonVars, child, runnerVars>>

-----------------------------------------------------------------------------
(* Cancellation: cancel() and stop() call task.cancel(); the exception is  *)
(* thrown when the task next runs.                                         *)

\* Mutant: cancel() records the status itself instead of asking the task.
cancel_row(r) ==
  /\ phase = "serving"
  /\ r \in Cancellable
  /\ pc[r] \in Tracked
  /\ cancelReq' = [cancelReq EXCEPT ![r] = TRUE]
  /\ row' = [row EXCEPT ![r] = "cancelled"]
  /\ UNCHANGED <<daemonVars, pc, write, verdict, child, runnerVars, lastEvent>>

cancel(r) ==
  /\ phase = "serving"
  /\ r \in Cancellable
  /\ pc[r] \in Tracked
  /\ cancelReq' = [cancelReq EXCEPT ![r] = TRUE]
  /\ UNCHANGED <<daemonVars, pc, row, write, verdict, child,
                 runnerVars, lastEvent>>

\* What becomes of the UPDATE an abandoned await had dispatched: its thread
\* had started and will commit it, or it is never run.
Abandoned(r) == {write[r], {}}

\* Thrown before the task's first step: the coroutine's try is not entered.
CancelUnstarted(r) ==
  /\ pc[r] = "created"
  /\ pc' = [pc EXCEPT ![r] = "done"]
  /\ UNCHANGED <<row, write, verdict, runnerVars, lastEvent>>

\* Thrown into the `running` UPDATE's await.
CancelMarking(r) ==
  /\ pc[r] \in {"marking", "marked"}
  /\ pc' = [pc EXCEPT ![r] = "cancelling"]
  /\ \E w \in Abandoned(r) :
       write' = [write EXCEPT ![r] = w \cup {"cancelled"}]
  /\ UNCHANGED <<row, verdict, runnerVars, lastEvent>>

\* Thrown into the semaphore's acquire().
CancelWaiting(r) ==
  /\ pc[r] \in {"waiting", "granted"}
  /\ LeaveQueue(r, "cancelling")
  /\ write' = [write EXCEPT ![r] = @ \cup {"cancelled"}]
  /\ UNCHANGED <<row, verdict, lastEvent>>

\* Thrown into the read loop: _finish(force) in the finally block.
CancelStreaming(r) ==
  /\ pc[r] = "streaming"
  /\ pc' = [pc EXCEPT ![r] = "terminating"]
  /\ verdict' = [verdict EXCEPT ![r] = "cancelled"]
  /\ UNCHANGED <<row, write, runnerVars, lastEvent>>

\* Thrown into one of _finish()'s own awaits: what is left of it is skipped.
CancelFinishing(r) ==
  /\ pc[r] \in {"terminating", "killing", "reaping", "joining"}
  /\ LeaveRunner(r, "cancelling")
  /\ verdict' = [verdict EXCEPT ![r] = "cancelled"]
  /\ write' = [write EXCEPT ![r] = @ \cup {"cancelled"}]
  /\ UNCHANGED <<row, lastEvent>>

\* Thrown into the last UPDATE's await, which is outside the try.
CancelSettling(r) ==
  /\ pc[r] \in {"settling", "cancelling"}
  /\ pc' = [pc EXCEPT ![r] = "done"]
  /\ \E w \in Abandoned(r) : write' = [write EXCEPT ![r] = w]
  /\ _forget_task(r)
  /\ verdict' = [verdict EXCEPT ![r] = "none"]
  /\ UNCHANGED <<row, runnerVars>>

\* The pending CancelledError is thrown into the task.
Cancelled(r) ==
  /\ cancelReq[r]
  /\ cancelReq' = [cancelReq EXCEPT ![r] = FALSE]
  /\ \/ CancelUnstarted(r)
     \/ CancelMarking(r)
     \/ CancelWaiting(r)
     \/ CancelStreaming(r)
     \/ CancelFinishing(r)
     \/ CancelSettling(r)
  /\ UNCHANGED <<daemonVars, child>>

-----------------------------------------------------------------------------
(* The child process (external): it may exit at any time, close its        *)
(* stdout without exiting, and ignore SIGTERM.                             *)

ChildExit(r) ==
  /\ child[r] \in Alive
  /\ \E code \in {"ok", "bad"} : child' = [child EXCEPT ![r] = code]
  /\ UNCHANGED <<daemonVars, pc, cancelReq, row, write, verdict,
                 runnerVars, lastEvent>>

ChildMute(r) ==
  /\ child[r] = "alive"
  /\ child' = [child EXCEPT ![r] = "mute"]
  /\ UNCHANGED <<daemonVars, pc, cancelReq, row, write, verdict,
                 runnerVars, lastEvent>>

-----------------------------------------------------------------------------
(* The daemon going down and coming back.                                  *)

\* The process is gone: every coroutine, thread and in-memory field with it.
\* Children run in sessions of their own and survive.
ProcessGone ==
  /\ downs' = downs + 1
  /\ pc' = [r \in Runs |-> IF pc[r] \in Submitting \cup Tracked
                             THEN "lost" ELSE pc[r]]
  /\ cancelReq' = [r \in Runs |-> FALSE]
  /\ write' = [r \in Runs |-> {}]
  /\ verdict' = [r \in Runs |-> "none"]
  /\ slots' = MaxConcurrent
  /\ ahead' = [r \in Runs |-> {}]
  /\ admitted' = 0
  /\ lastEvent' = {}
  /\ intakePaused' = FALSE
  /\ UNCHANGED <<row, child>>

Crash ==
  /\ phase \in {"serving", "stopping"}
  /\ downs < MaxDowns
  /\ phase' = "crashed"
  /\ ProcessGone

\* stop() starts: requests are drained and the tick loop has stopped, so no
\* submit() is under way; every tracked task is cancelled.
Stop ==
  /\ phase = "serving"
  /\ downs < MaxDowns
  /\ \A r \in Runs : pc[r] \notin Submitting
  /\ phase' = "stopping"
  /\ cancelReq' = [r \in Runs |-> pc[r] \in Tracked]
  /\ UNCHANGED <<downs, intakePaused, pc, row, write, verdict, child,
                 runnerVars, lastEvent>>

\* asyncio.wait() ends, every task done or shutdown_timeout_seconds over
\* (what is still pending is abandoned); db.close(), and the process exits.
\* By then the loop has thrown every CancelledError stop() asked for.
StopReturn ==
  /\ phase = "stopping"
  /\ \A r \in Runs : ~cancelReq[r]
  /\ phase' = "exited"
  /\ ProcessGone

\* Mutant: the sweep looks for `running` rows only.
BootRunningOnly ==
  /\ phase \in {"exited", "crashed"}
  /\ phase' = "serving"
  /\ row' = [r \in Runs |-> IF row[r] = "running" THEN "failed" ELSE row[r]]
  /\ UNCHANGED <<downs, intakePaused, pc, cancelReq, write, verdict, child,
                 runnerVars, lastEvent>>

\* Lifespan startup: sweep_stale_on_boot() before anything is served.
Boot ==
  /\ phase \in {"exited", "crashed"}
  /\ phase' = "serving"
  /\ row' = [r \in Runs |-> IF row[r] \in ActiveStatuses
                              THEN "failed" ELSE row[r]]
  /\ UNCHANGED <<downs, intakePaused, pc, cancelReq, write, verdict, child,
                 runnerVars, lastEvent>>

-----------------------------------------------------------------------------
Submit(r) == SubmitBegin(r) \/ SubmitCount(r) \/ SubmitCreate(r)
               \/ SubmitLaunch(r)

\* the steps of the run's own coroutine, once it is a task
TaskStep(r) ==
  \/ Start(r)
  \/ RunRefused(r) \/ RunQueued(r) \/ RunSpawn(r) \/ RunSpawnFails(r)
  \/ RunEof(r)
  \/ FinishReaped(r) \/ FinishKill(r) \/ FinishJoined(r)
  \/ Cancelled(r)

CommitWrite(r) == \E s \in write[r] : Commit(r, s)

RunStep(r) ==
  \/ Submit(r)
  \/ TaskStep(r)
  \/ RunEvent(r)
  \/ \E why \in {"timeout", "truncated"} : RunStopped(r, why)
  \/ CommitWrite(r)
  \/ cancel(r)
  \/ ChildExit(r) \/ ChildMute(r)

DaemonStep == pause_intake \/ resume_intake \/ Crash \/ Stop \/ StopReturn \/ Boot

Next == DaemonStep \/ \E r \in Runs : RunStep(r)

Spec == Init /\ [][Next]_vars

\* The event loop resumes a ready coroutine, worker threads run, the run
\* timeout fires, and a child that closed its stdout exits (the one
\* assumption about the child: _finish() waits for that without a bound).
Fairness ==
  \A r \in Runs :
    /\ WF_vars(TaskStep(r))
    /\ WF_vars(CommitWrite(r))
    /\ WF_vars(RunStopped(r, "timeout"))
    /\ WF_vars(child[r] = "mute" /\ ChildExit(r))

FairSpec == Spec /\ Fairness

-----------------------------------------------------------------------------
(* Properties.                                                             *)

\* A live task owns an open row: between launch and the commit of its last
\* UPDATE the row is queued or running, and running from the moment the
\* runner is entered, so no awaited update_status() ever finds the row
\* terminal and trips its rowcount assertion - whatever cancellations,
\* abandoned threads, crashes and restarts happen.
LiveTaskOwnsOpenRow ==
  \A r \in Runs :
    /\ pc[r] \in {"inserted"} \cup Tracked => row[r] \in ActiveStatuses
    /\ pc[r] \in {"marked", "settling"} \cup Admitted => row[r] = "running"

OutcomeStatuses == {"succeeded", "failed", "timeout"}

\* Which UPDATEs may be pending, by where the coroutine is: the awaited one,
\* one an abandoned await left behind, or none.
PendingWrites ==
  \A r \in Runs :
    /\ pc[r] \in {"idle", "created", "marked"} \cup Submitting \cup Admitted
         => write[r] = {}
    /\ pc[r] = "marking" => write[r] = {"running"}
    /\ pc[r] = "settling" => write[r] \subseteq {Status(r)}
    /\ pc[r] = "cancelling" => write[r] \subseteq {"running", "cancelled"}

\* An UPDATE is only ever dispatched for an existing row; one that reports an
\* outcome for a running row whose child is gone, and that stays true of it
\* until it commits.
OutcomeWrites ==
  \A r \in Runs : \A s \in write[r] :
    /\ row[r] # "none"
    /\ s \in OutcomeStatuses =>
         /\ row[r] \in {"running"} \cup TerminalStatuses
         /\ child[r] \notin Alive
    /\ s = "succeeded" => child[r] = "ok"
    /\ s = "timeout" => child[r] # "none"

\* Rows and children by where the coroutine is.
RowsAndChildren ==
  \A r \in Runs :
    /\ pc[r] \in {"idle", "counting", "creating"} => row[r] = "none"
    /\ pc[r] \in {"idle", "created", "marking", "marked", "waiting", "granted"}
                 \cup Submitting
         => child[r] = "none"
    /\ pc[r] \in Supervising => child[r] # "none"
    /\ pc[r] \in {"joining", "settling"} => child[r] \notin Alive
    /\ pc[r] = "settling" /\ verdict[r] = "timeout" => child[r] # "none"

\* While the daemon is down no coroutine exists and no UPDATE is pending; a
\* shutdown under way is one of the MaxDowns the bound allows.
DownIsQuiet ==
  /\ phase \in {"exited", "crashed"} =>
       \A r \in Runs : pc[r] \in {"idle"} \cup Ended /\ write[r] = {}
  /\ phase = "stopping" => downs < MaxDowns

\* The inductive invariant behind LiveTaskOwnsOpenRow, TerminalIsFinal and
\* ImplementsLifecycle.
RunInv ==
  /\ TypeOK
  /\ LiveTaskOwnsOpenRow
  /\ PendingWrites
  /\ OutcomeWrites
  /\ RowsAndChildren
  /\ DownIsQuiet

\* _admitted counts exactly the runs inside run() and stays within
\* queue_max_depth, on every exit of run() there is.
AdmissionExact ==
  /\ admitted = Cardinality({r \in Runs : pc[r] \in Admitted})
  /\ admitted <= QueueMaxDepth

\* No semaphore slot is leaked or duplicated by a release, a hand-over, a
\* failed spawn or a cancellation anywhere inside run().
SlotsConserved ==
  slots + Cardinality({r \in Runs : pc[r] \in Holding}) = MaxConcurrent
    /\ slots >= 0

\* No lost wake-up: a free slot and a run waiting for one never coexist,
\* unless a run that was handed its slot has still to pass the wake-up on.
NoIdleSlot ==
  slots > 0 /\ Waiting # {} => \E r \in Runs : pc[r] = "granted"

\* Crash recovery: once the daemon serves again, no run that was cut off by
\* the process going down (in submit(), queued or running) is still active.
NoStaleRowAfterBoot ==
  \A r \in Runs :
    phase = "serving" /\ pc[r] = "lost" => row[r] \notin ActiveStatuses

\* _last_event_at has entries only for runs whose task is tracked: no way a
\* task ends leaves one behind for the stalled-run detection to read.
ActivityOnlyOfTracked == \A r \in lastEvent : pc[r] \in Tracked

\* Whatever a run takes - its place in the admission count, a slot, the wake-up
\* that hands it one, its activity stamp - it gives back on every exit there is.
NothingLeaks ==
  AdmissionExact /\ SlotsConserved /\ NoIdleSlot /\ ActivityOnlyOfTracked

\* A terminal status is final, although UPDATEs of abandoned awaits commit
\* late and out of order and the boot sweep rewrites rows in bulk.
TerminalIsFinal ==
  [][\A r \in Runs : row[r] \in TerminalStatuses => row'[r] = row[r]]_vars

\* What the component promises its callers.
Lifecycle == INSTANCE RunLifecycle WITH status <- row

\* The rows and children of this module behave as RunLifecycle allows.
ImplementsLifecycle == Lifecycle!Spec

\* Every task launched ends: no hand-over, kill, join or late commit is
\* waited for forever.
TasksEnd == \A r \in Runs : pc[r] = "created" ~> pc[r] \in Ended

-----------------------------------------------------------------------------
(* What comments of the code claim and these steps refute.                 *)

\* service.py on _execute(): a cancellation delivered before the `running`
\* transition completes must never leave a row stuck `queued` forever.
NeverStuckQueued ==
  \A r \in Runs : ~(pc[r] = "done" /\ row[r] = "queued" /\ write[r] = {})

\* service.py on stop() and api/app.py on shutdown: no orphan opencode process
\* survives a clean daemon exit.
NoOrphanAfterCleanExit ==
  phase = "exited" => \A r \in Runs : child[r] \notin Alive
=============================================================================
