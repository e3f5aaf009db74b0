---------------------------- MODULE RunLifecycle ----------------------------
(***************************************************************************)
(* What the OpenCode subsystem promises about one opencode_runs row and the *)
(* child process behind it, without tasks, threads, semaphores or restarts  *)
(* (0012_opencode_runs.sql and the status column's meaning in               *)
(* opencode/repository.py and opencode/service.py):                         *)
(*   - a row goes queued, running, terminal, and a terminal status is final;*)
(*   - a child is spawned at most once per run, and only for a running row; *)
(*   - a status that reports how the child ended (succeeded, failed,        *)
(*     timeout) is only recorded of a child that is gone, and succeeded only*)
(*     of one that exited with code 0;                                      *)
(*   - the only other ends are a cancellation and the sweep of a restart.   *)
(***************************************************************************)
CONSTANT Runs

VARIABLES
  status,  \* opencode_runs.status, "none" before the row exists
  child    \* the child process

vars == <<status, child>>

Active == {"queued", "running"}

Gone == {"none", "ok", "bad"}

Init ==
  /\ status = [r \in Runs |-> "none"]
  /\ child = [r \in Runs |-> "none"]

Create(r) ==
  /\ status[r] = "none"
  /\ status' = [status EXCEPT ![r] = "queued"]
  /\ UNCHANGED child

MarkRunning(r) ==
  /\ status[r] = "queued"
  /\ status' = [status EXCEPT ![r] = "running"]
  /\ UNCHANGED child

Spawn(r) ==
  /\ status[r] = "running"
  /\ child[r] = "none"
  /\ child' = [child EXCEPT ![r] = "alive"]
  /\ UNCHANGED status

\* The child closes its output, exits or is killed.
ChildStep(r) ==
  /\ child[r] \in {"alive", "mute"}
  /\ \E c \in {"mute", "ok", "bad"} : child' = [child EXCEPT ![r] = c]
  /\ UNCHANGED status

Record(r, s) ==
  /\ status[r] = "running"
  /\ child[r] \in Gone
  /\ s = "succeeded" => child[r] = "ok"
  /\ s = "timeout" => child[r] # "none"
  /\ status' = [status EXCEPT ![r] = s]
  /\ UNCHANGED child

Cancel(r) ==
  /\ status[r] \in Active
  /\ status' = [status EXCEPT ![r] = "cancelled"]
  /\ UNCHANGED child

\* A restart fails whatever it finds active.
Sweep ==
  /\ status' = [r \in Runs |-> IF status[r] \in Active THEN "failed"
                                                      ELSE status[r]]
  /\ UNCHANGED child

Next ==
  \/ Sweep
  \/ \E r \in Runs :
       \/ Create(r) \/ MarkRunning(r) \/ Spawn(r) \/ ChildStep(r) \/ Cancel(r)
       \/ \E s \in {"succeeded", "failed", "timeout"} : Record(r, s)

Spec == Init /\ [][Next]_vars
=============================================================================
