-------------------------- MODULE OpencodeRunsProofs --------------------------
(***************************************************************************)
(* Proofs about OpencodeRuns, for any finite set of runs, any limits and any *)
(* number of restarts.  RunInv, the inductive invariant of rows, writes and  *)
(* children, is in that module beside the properties it implies; LeakInv, of *)
(* what the runner takes and gives back, is here.                            *)
(***************************************************************************)
EXTENDS OpencodeRuns, FiniteSetTheorems, WellFoundedInduction, TLAPS

\* The waiters a release wakes are waiters, and there are finitely many.
LEMMA FirstCount ==
  ASSUME NEW W \in SUBSET Runs, NEW n
  PROVE  /\ First(W, n) \subseteq W
         /\ Cardinality(First(W, n)) \in Nat
  <1>1. First(W, n) \subseteq W
    BY DEF First
  <1>2. IsFiniteSet(First(W, n))
    BY <1>1, RunsAssumption, FS_Subset
  <1>3. QED
    BY <1>1, <1>2, FS_CardinalityType

\* A fresh database and a daemon that is down satisfy the invariant.
LEMMA InitInv == Init => RunInv
  <1> SUFFICES ASSUME Init PROVE RunInv
    OBVIOUS
  <1> USE DEF Init, Submitting, Tracked, Ended, Admitted, Holding, Supervising,
              Alive, ActiveStatuses, TerminalStatuses
  <1>1. TypeOK
    <2>1. intakePaused \in BOOLEAN /\ cancelReq \in [Runs -> BOOLEAN]
      BY Zenon
    <2>2. /\ phase \in {"serving", "stopping", "exited", "crashed"}
          /\ downs \in 0..MaxDowns
          /\ slots \in Int
          /\ admitted \in Int
      BY LimitsAssumption, DownsAssumption
    <2>3. /\ pc \in [Runs -> {"idle"} \cup Submitting \cup Tracked \cup Ended]
          /\ row \in [Runs -> {"none"} \cup ActiveStatuses \cup TerminalStatuses]
          /\ write \in [Runs -> SUBSET ({"running"} \cup TerminalStatuses)]
          /\ ahead \in [Runs -> SUBSET Runs]
          /\ lastEvent \in SUBSET Runs
      OBVIOUS
    <2>4. /\ verdict \in [Runs -> {"none", "exit", "timeout", "truncated",
                                   "spawn_error", "cancelled"}]
          /\ child \in [Runs -> {"none", "alive", "mute", "ok", "bad"}]
      OBVIOUS
    <2> QED
      BY <2>1, <2>2, <2>3, <2>4 DEF TypeOK
  <1>2. LiveTaskOwnsOpenRow /\ RowsAndChildren
    BY DEF LiveTaskOwnsOpenRow, RowsAndChildren
  <1>3. PendingWrites /\ OutcomeWrites /\ DownIsQuiet
    BY DEF PendingWrites, OutcomeWrites, DownIsQuiet
  <1> QED
    BY <1>1, <1>2, <1>3 DEF RunInv

\* What a step that may hand slots over does to the runs' coroutines: r moves
\* to p, and others only from "waiting" to "granted".
Handover(r, p) ==
  /\ slots' \in Int
  /\ admitted' \in Int
  /\ ahead' \in [Runs -> SUBSET Runs]
  /\ pc' = [x \in Runs |-> pc'[x]]
  /\ pc'[r] = p
  /\ \A x \in Runs \ {r} :
        pc'[x] = pc[x] \/ (pc[x] = "waiting" /\ pc'[x] = "granted")

\* Granting slots moves waiters to granted and nobody else.
LEMMA GrantingHandsOver ==
  ASSUME TypeOK, NEW r \in Runs, NEW p, NEW G \in SUBSET Waiting,
         pc' = Granting(r, p, G)
  PROVE  /\ pc' = [x \in Runs |-> pc'[x]]
         /\ pc'[r] = p
         /\ \A x \in Runs \ {r} :
              pc'[x] = pc[x] \/ (pc[x] = "waiting" /\ pc'[x] = "granted")
  <1>1. \A x \in G : pc[x] = "waiting"
    BY DEF Waiting
  <1>2. pc' = [x \in Runs |-> IF x = r THEN p
                             ELSE IF x \in G THEN "granted" ELSE pc[x]]
    BY DEF Granting
  <1>3. pc' = [x \in Runs |-> pc'[x]]
    BY <1>2
  <1>4. \A x \in Runs : pc'[x] = IF x = r THEN p
                                ELSE IF x \in G THEN "granted" ELSE pc[x]
    BY <1>2
  <1> QED
    BY <1>1, <1>3, <1>4

\* Releasing a held slot hands it over.
LEMMA LeaveRunnerHandsOver ==
  ASSUME TypeOK, NEW r \in Runs, NEW p, LeaveRunner(r, p)
  PROVE  Handover(r, p)
  <1> DEFINE G == First(Waiting \ {r}, 1)
  <1>1. G \in SUBSET Waiting /\ Cardinality(G) \in Nat
    BY FirstCount DEF Waiting
  <1>2. pc' = Granting(r, p, G)
    BY DEF LeaveRunner
  <1>3. slots' \in Int /\ admitted' \in Int /\ ahead' \in [Runs -> SUBSET Runs]
    BY <1>1 DEF LeaveRunner, TypeOK
  <1> QED
    BY <1>1, <1>2, <1>3, GrantingHandsOver DEF Handover

\* Leaving the queue, with or without a slot granted meanwhile, hands over.
LEMMA LeaveQueueHandsOver ==
  ASSUME TypeOK, NEW r \in Runs, NEW p, LeaveQueue(r, p)
  PROVE  Handover(r, p)
  <1> DEFINE free == IF pc[r] = "granted" THEN slots + 1 ELSE slots
             G    == First(Waiting \ {r}, free)
  <1>1. G \in SUBSET Waiting /\ Cardinality(G) \in Nat
    BY FirstCount DEF Waiting
  <1>2. pc' = Granting(r, p, G)
    BY DEF LeaveQueue
  <1>3. slots' \in Int /\ admitted' \in Int /\ ahead' \in [Runs -> SUBSET Runs]
    BY <1>1 DEF LeaveQueue, TypeOK
  <1> QED
    BY <1>1, <1>2, <1>3, GrantingHandsOver DEF Handover

\* Entering the runner takes a free slot or queues.
LEMMA AcquireSlotHandsOver ==
  ASSUME TypeOK, NEW r \in Runs, NEW p, AcquireSlot(r, p)
  PROVE  Handover(r, p)
  <1> DEFINE G == First(Waiting, slots)
  <1>1. G \in SUBSET Waiting /\ Cardinality(G) \in Nat
    BY FirstCount DEF Waiting
  <1>2. slots' \in Int /\ admitted' \in Int /\ ahead' \in [Runs -> SUBSET Runs]
    <2>1. ahead' \in [Runs -> SUBSET Runs]
      BY DEF AcquireSlot, TypeOK
    <2>2. slots' \in Int /\ admitted' \in Int
      BY <1>1 DEF AcquireSlot, TypeOK
    <2> QED
      BY <2>1, <2>2
  <1>3. CASE pc[r] = "marked"
    BY <1>2, <1>3 DEF AcquireSlot, TypeOK, Handover
  <1>4. CASE pc[r] = "granted"
    <2>1. pc' = Granting(r, p, G)
      BY <1>4 DEF AcquireSlot
    <2> QED
      BY <1>1, <1>2, <2>1, GrantingHandsOver DEF Handover
  <1> QED
    BY <1>3, <1>4 DEF AcquireSlot

\* A spawn that fails gives its slot back.
LEMMA SpawnFailsHandsOver ==
  ASSUME TypeOK, NEW r \in Runs, RunSpawnFails(r)
  PROVE  Handover(r, "settling")
  <1> DEFINE G == First(Waiting, slots + 1)
  <1>1. G \in SUBSET Waiting /\ Cardinality(G) \in Nat
    BY FirstCount DEF Waiting
  <1>2. slots' \in Int /\ admitted' \in Int /\ ahead' \in [Runs -> SUBSET Runs]
    <2>1. ahead' \in [Runs -> SUBSET Runs]
      BY DEF RunSpawnFails, TypeOK
    <2>2. slots' \in Int /\ admitted' \in Int
      BY <1>1 DEF RunSpawnFails, TypeOK
    <2> QED
      BY <2>1, <2>2
  <1>3. CASE pc[r] = "marked"
    BY <1>2, <1>3 DEF RunSpawnFails, TypeOK, Handover
  <1>4. CASE pc[r] = "granted"
    <2>1. pc' = Granting(r, "settling", G)
      BY <1>4 DEF RunSpawnFails
    <2> QED
      BY <1>1, <1>2, <2>1, GrantingHandsOver DEF Handover
  <1> QED
    BY <1>3, <1>4 DEF RunSpawnFails

-----------------------------------------------------------------------------
(* RunInv is preserved, one lemma per kind of step.                        *)

\* submit() keeps the invariant.
LEMMA SubmitInv ==
  ASSUME RunInv, NEW r \in Runs, Submit(r)
  PROVE  RunInv'
  <1> USE DEF RunInv, TypeOK, LiveTaskOwnsOpenRow, PendingWrites, OutcomeWrites,
              RowsAndChildren, DownIsQuiet, Status, OutcomeStatuses, Submitting,
              Tracked, Ended, Admitted, Holding, Supervising, Alive,
              ActiveStatuses, TerminalStatuses, daemonVars, runnerVars
  <1>1. CASE SubmitBegin(r)
    BY <1>1 DEF SubmitBegin
  <1>2. CASE SubmitCount(r)
    BY <1>2 DEF SubmitCount
  <1>3. CASE SubmitCreate(r)
    BY <1>3 DEF SubmitCreate
  <1>4. CASE SubmitLaunch(r)
    BY <1>4 DEF SubmitLaunch
  <1> QED
    BY <1>1, <1>2, <1>3, <1>4 DEF Submit

\* A worker thread's commit keeps the invariant, awaited or abandoned.
LEMMA CommitInv ==
  ASSUME RunInv, NEW r \in Runs, NEW s \in write[r], Commit(r, s)
  PROVE  RunInv'
  <1> USE DEF Commit, Awaits, update_status, _forget_task, RunInv, Submitting,
              Tracked, Ended, Admitted, Holding, Supervising, ActiveStatuses,
              TerminalStatuses, daemonVars, runnerVars
  <1>1. TypeOK'
    BY DEF TypeOK
  <1>2. LiveTaskOwnsOpenRow'
    BY DEF TypeOK, LiveTaskOwnsOpenRow, PendingWrites
  <1>3. PendingWrites'
    BY DEF TypeOK, PendingWrites, Status
  <1>4. OutcomeWrites'
    BY DEF TypeOK, OutcomeWrites, OutcomeStatuses
  <1>5. RowsAndChildren'
    BY DEF TypeOK, RowsAndChildren, PendingWrites
  <1>6. DownIsQuiet'
    BY DEF TypeOK, DownIsQuiet
  <1> QED
    BY <1>1, <1>2, <1>3, <1>4, <1>5, <1>6

\* A step that leaves the runner, or enters it, by way of a hand-over, and
\* leaves w as the UPDATEs pending for r.
HandoverStep(r, p, w) ==
  /\ Handover(r, p)
  /\ row[r] = "running" /\ phase \in {"serving", "stopping"}
  /\ UNCHANGED <<daemonVars, row, lastEvent>>
  /\ write' = [write EXCEPT ![r] = w]
  /\ cancelReq' \in [Runs -> BOOLEAN]
  /\ verdict' \in [Runs -> {"none", "exit", "timeout", "truncated",
                            "spawn_error", "cancelled"}]
  /\ child' \in [Runs -> {"none", "alive", "mute", "ok", "bad"}]
  /\ \A x \in Runs \ {r} : verdict'[x] = verdict[x] /\ child'[x] = child[x]
  /\ \/ p = "cancelling" /\ w = {"cancelled"}
     \/ /\ p = "settling"
        /\ w = {Status(r)'}
        /\ child'[r] \notin Alive
        /\ verdict'[r] = "timeout" => child'[r] # "none"
     \/ p = "streaming" /\ w = {} /\ child'[r] = "alive"

\* A step that hands slots over keeps the invariant.
LEMMA HandoverInv ==
  ASSUME RunInv, NEW r \in Runs, NEW p, NEW w, HandoverStep(r, p, w)
  PROVE  RunInv'
  <1> USE DEF HandoverStep, RunInv, Handover, Submitting, Tracked, Ended, Admitted, Holding,
              Supervising, ActiveStatuses, TerminalStatuses, daemonVars
  <1>1. TypeOK'
    <2>1. pc' \in [Runs -> {"idle"} \cup Submitting \cup Tracked \cup Ended]
      BY DEF TypeOK
    <2>2. write' \in [Runs -> SUBSET ({"running"} \cup TerminalStatuses)]
      BY DEF TypeOK, Status
    <2> QED
      BY <2>1, <2>2 DEF TypeOK
  <1>2. LiveTaskOwnsOpenRow'
    BY DEF TypeOK, LiveTaskOwnsOpenRow
  <1>3. PendingWrites'
    BY DEF TypeOK, PendingWrites, Status
  <1>4. OutcomeWrites'
    BY DEF TypeOK, OutcomeWrites, OutcomeStatuses, Status
  <1>5. RowsAndChildren'
    BY DEF TypeOK, RowsAndChildren, Alive
  <1>6. DownIsQuiet'
    BY DEF TypeOK, DownIsQuiet
  <1> QED
    BY <1>1, <1>2, <1>3, <1>4, <1>5, <1>6

\* Entering the runner and spawning the child keeps the invariant.
LEMMA EnterInv ==
  ASSUME RunInv, NEW r \in Runs, RunSpawn(r) \/ RunSpawnFails(r)
  PROVE  RunInv'
  <1>1. /\ pc[r] \in {"marked", "granted"}
        /\ row[r] = "running" /\ child[r] = "none" /\ write[r] = {}
        /\ phase \in {"serving", "stopping"}
    BY DEF RunInv, TypeOK, RunSpawn, RunSpawnFails, AcquireSlot, PendingWrites,
           LiveTaskOwnsOpenRow, RowsAndChildren, DownIsQuiet, Admitted, Holding,
           Ended
  <1>2. CASE RunSpawn(r)
    <2>1. Handover(r, "streaming")
      BY <1>2, AcquireSlotHandsOver DEF RunSpawn, RunInv
    <2>2. HandoverStep(r, "streaming", {})
      BY <1>1, <1>2, <2>1
         DEF HandoverStep, RunSpawn, daemonVars, RunInv, TypeOK
    <2> QED
      BY <2>2, HandoverInv
  <1>3. CASE RunSpawnFails(r)
    <2>1. Handover(r, "settling")
      BY <1>3, SpawnFailsHandsOver DEF RunInv
    <2>2. HandoverStep(r, "settling", {"failed"})
      BY <1>1, <1>3, <2>1
         DEF HandoverStep, RunSpawnFails, daemonVars, RunInv, TypeOK, Status, Alive
    <2> QED
      BY <2>2, HandoverInv
  <1> QED
    BY <1>2, <1>3

\* Leaving the runner, finished or cancelled, keeps the invariant.
LEMMA LeaveInv ==
  ASSUME RunInv, NEW r \in Runs,
         \/ FinishJoined(r)
         \/ Cancelled(r) /\ (CancelWaiting(r) \/ CancelFinishing(r))
  PROVE  RunInv'
  <1>1. /\ pc[r] \in Admitted
        /\ row[r] = "running" /\ write[r] = {}
        /\ phase \in {"serving", "stopping"}
        /\ pc[r] = "joining" => child[r] \notin Alive /\ child[r] # "none"
    BY DEF RunInv, TypeOK, FinishJoined, CancelWaiting, CancelFinishing,
           PendingWrites, LiveTaskOwnsOpenRow, RowsAndChildren, DownIsQuiet,
           Admitted, Holding, Supervising, Ended
  <1>2. CASE FinishJoined(r) /\ verdict[r] = "cancelled"
    <2>1. Handover(r, "cancelling")
      BY <1>2, LeaveRunnerHandsOver DEF FinishJoined, RunInv
    <2>2. HandoverStep(r, "cancelling", {"cancelled"})
      BY <1>1, <1>2, <2>1
         DEF HandoverStep, FinishJoined, daemonVars, RunInv, TypeOK
    <2> QED
      BY <2>2, HandoverInv
  <1>3. CASE FinishJoined(r) /\ verdict[r] # "cancelled"
    <2>1. Handover(r, "settling")
      BY <1>3, LeaveRunnerHandsOver DEF FinishJoined, RunInv
    <2>2. HandoverStep(r, "settling", {Status(r)})
      BY <1>1, <1>3, <2>1
         DEF HandoverStep, FinishJoined, daemonVars, RunInv, TypeOK, Status
    <2> QED
      BY <2>2, HandoverInv
  <1>4. CASE Cancelled(r) /\ CancelWaiting(r)
    <2>1. Handover(r, "cancelling")
      BY <1>4, LeaveQueueHandsOver DEF CancelWaiting, RunInv
    <2>2. HandoverStep(r, "cancelling", {"cancelled"})
      BY <1>1, <1>4, <2>1
         DEF HandoverStep, Cancelled, CancelWaiting, daemonVars, RunInv, TypeOK
    <2> QED
      BY <2>2, HandoverInv
  <1>5. CASE Cancelled(r) /\ CancelFinishing(r)
    <2>1. Handover(r, "cancelling")
      BY <1>5, LeaveRunnerHandsOver DEF CancelFinishing, RunInv
    <2>2. HandoverStep(r, "cancelling", {"cancelled"})
      BY <1>1, <1>5, <2>1
         DEF HandoverStep, Cancelled, CancelFinishing, daemonVars, RunInv, TypeOK
    <2> QED
      BY <2>2, HandoverInv
  <1> QED
    BY <1>2, <1>3, <1>4, <1>5

\* Every step of an _execute task keeps the invariant.
LEMMA TaskStepInv ==
  ASSUME RunInv, NEW r \in Runs, TaskStep(r)
  PROVE  RunInv'
  <1>1. CASE RunSpawn(r) \/ RunSpawnFails(r)
    BY <1>1, EnterInv
  <1>2. CASE FinishJoined(r)
    BY <1>2, LeaveInv
  <1>3. CASE Cancelled(r) /\ (CancelWaiting(r) \/ CancelFinishing(r))
    BY <1>3, LeaveInv
  <1>4. CASE \/ Start(r) \/ RunRefused(r) \/ RunQueued(r) \/ RunEof(r)
             \/ FinishReaped(r) \/ FinishKill(r)
             \/ Cancelled(r) /\ ~(CancelWaiting(r) \/ CancelFinishing(r))
    <2> USE DEF RunInv, TypeOK, LiveTaskOwnsOpenRow, PendingWrites, OutcomeWrites,
                RowsAndChildren, DownIsQuiet, Status, OutcomeStatuses,
                Submitting, Tracked, Ended, Admitted, Holding, Supervising,
                Alive, ActiveStatuses, TerminalStatuses, daemonVars, runnerVars
    <2>1. CASE Start(r)
      BY <2>1 DEF Start
    <2>2. CASE RunRefused(r)
      BY <2>2 DEF RunRefused
    <2>3. CASE RunQueued(r)
      BY <2>3 DEF RunQueued
    <2>4. CASE RunEof(r)
      BY <2>4 DEF RunEof
    <2>5. CASE FinishReaped(r)
      BY <2>5 DEF FinishReaped
    <2>6. CASE FinishKill(r)
      BY <2>6 DEF FinishKill
    <2>7. CASE Cancelled(r) /\ CancelUnstarted(r)
      BY <2>7 DEF Cancelled, CancelUnstarted
    <2>8. CASE Cancelled(r) /\ CancelMarking(r)
      <3>1. PICK w \in Abandoned(r) :
              write' = [write EXCEPT ![r] = w \cup {"cancelled"}]
        BY <2>8 DEF CancelMarking
      <3>2. pc[r] \in {"marking", "marked"} /\ w \subseteq {"running"}
        BY <2>8 DEF CancelMarking, Abandoned
      <3>3. TypeOK'
        BY <2>8, <3>1, <3>2 DEF Cancelled, CancelMarking
      <3>4. LiveTaskOwnsOpenRow' /\ RowsAndChildren'
        BY <2>8, <3>2 DEF Cancelled, CancelMarking
      <3>5. pc' = [pc EXCEPT ![r] = "cancelling"] /\ UNCHANGED <<row, verdict, child, phase, downs>>
        BY <2>8 DEF Cancelled, CancelMarking
      <3>6. PendingWrites' /\ OutcomeWrites'
        <4>1. \A x \in Runs \ {r} : pc'[x] = pc[x] /\ write'[x] = write[x]
          BY <3>1, <3>5
        <4>2. pc'[r] = "cancelling" /\ write'[r] = w \cup {"cancelled"}
          BY <3>1, <3>5
        <4>3. row[r] # "none" /\ write'[r] \subseteq {"running", "cancelled"}
          BY <3>2, <4>2
        <4>4. PendingWrites'
          BY <3>5, <4>1, <4>2, <4>3
        <4>5. OutcomeWrites'
          BY <3>5, <4>1, <4>2, <4>3
        <4> QED
          BY <4>4, <4>5
      <3>7. DownIsQuiet'
        BY <3>2, <3>5
      <3> QED
        BY <3>3, <3>4, <3>6, <3>7
    <2>9. CASE Cancelled(r) /\ CancelStreaming(r)
      BY <2>9 DEF Cancelled, CancelStreaming
    <2>10. CASE Cancelled(r) /\ CancelSettling(r)
      BY <2>10 DEF Cancelled, CancelSettling, Abandoned, _forget_task
    <2> HIDE DEF RunInv
    <2> QED
      BY <1>4, <2>1, <2>2, <2>3, <2>4, <2>5, <2>6, <2>7, <2>8, <2>9, <2>10
         DEF Cancelled
  <1> QED
    BY <1>1, <1>2, <1>3, <1>4 DEF TaskStep

\* What children and API callers do keeps the invariant.
LEMMA EnvironmentInv ==
  ASSUME RunInv, NEW r \in Runs,
         \/ RunEvent(r) \/ cancel(r) \/ ChildExit(r) \/ ChildMute(r)
         \/ \E why \in {"timeout", "truncated"} : RunStopped(r, why)
  PROVE  RunInv'
  <1> USE DEF RunInv, TypeOK, LiveTaskOwnsOpenRow, PendingWrites, OutcomeWrites,
              RowsAndChildren, DownIsQuiet, Status, OutcomeStatuses, Submitting,
              Tracked, Ended, Admitted, Holding, Supervising, Alive,
              ActiveStatuses, TerminalStatuses, daemonVars, runnerVars
  <1>1. CASE RunEvent(r)
    BY <1>1 DEF RunEvent
  <1>2. CASE cancel(r)
    BY <1>2 DEF cancel
  <1>3. CASE ChildExit(r)
    BY <1>3 DEF ChildExit
  <1>4. CASE ChildMute(r)
    BY <1>4 DEF ChildMute
  <1>5. ASSUME NEW why \in {"timeout", "truncated"}, RunStopped(r, why)
        PROVE  RunInv'
    BY <1>5 DEF RunStopped
  <1> HIDE DEF RunInv
  <1> QED
    BY <1>1, <1>2, <1>3, <1>4, <1>5

\* Shutdown, crash and boot keep the invariant.
LEMMA DaemonInv ==
  ASSUME RunInv, DaemonStep
  PROVE  RunInv'
  <1> USE DEF RunInv, TypeOK, LiveTaskOwnsOpenRow, PendingWrites, OutcomeWrites,
              RowsAndChildren, DownIsQuiet, Status, OutcomeStatuses, Submitting,
              Tracked, Ended, Admitted, Holding, Supervising, Alive,
              ActiveStatuses, TerminalStatuses, daemonVars, runnerVars
  <1>1. CASE pause_intake
    BY <1>1 DEF pause_intake
  <1>2. CASE resume_intake
    BY <1>2 DEF resume_intake
  <1>3. CASE Stop
    BY <1>3 DEF Stop
  <1>4. CASE Boot
    BY <1>4 DEF Boot
  <1>5. CASE Crash \/ StopReturn
    <2>1. ProcessGone /\ phase' \in {"exited", "crashed"} /\ downs < MaxDowns
      BY <1>5 DEF Crash, StopReturn
    <2>2. downs' \in 0..MaxDowns /\ slots' \in Int /\ admitted' \in Int
      BY <2>1, LimitsAssumption, DownsAssumption DEF ProcessGone
    <2>3. intakePaused' \in BOOLEAN /\ cancelReq' \in [Runs -> BOOLEAN]
      BY <2>1, Zenon DEF ProcessGone
    <2>4. TypeOK'
      BY <2>1, <2>2, <2>3 DEF ProcessGone
    <2>5. LiveTaskOwnsOpenRow' /\ RowsAndChildren'
      BY <2>1 DEF ProcessGone
    <2>6. PendingWrites' /\ OutcomeWrites' /\ DownIsQuiet'
      BY <2>1 DEF ProcessGone
    <2> QED
      BY <2>4, <2>5, <2>6
  <1> HIDE DEF RunInv
  <1> QED
    BY <1>1, <1>2, <1>3, <1>4, <1>5 DEF DaemonStep

\* RunInv is inductive.
LEMMA NextInv == RunInv /\ [Next]_vars => RunInv'
  <1> SUFFICES ASSUME RunInv, [Next]_vars
               PROVE  RunInv'
    OBVIOUS
  <1>1. CASE DaemonStep
    BY <1>1, DaemonInv
  <1>2. ASSUME NEW r \in Runs, RunStep(r)
        PROVE  RunInv'
    <2>1. CASE Submit(r)
      BY <2>1, SubmitInv
    <2>2. CASE TaskStep(r)
      BY <2>2, TaskStepInv
    <2>3. CASE CommitWrite(r)
      BY <2>3, CommitInv DEF CommitWrite
    <2>4. CASE \/ RunEvent(r) \/ cancel(r) \/ ChildExit(r) \/ ChildMute(r)
               \/ \E why \in {"timeout", "truncated"} : RunStopped(r, why)
      BY <2>4, EnvironmentInv
    <2> QED
      BY <1>2, <2>1, <2>2, <2>3, <2>4 DEF RunStep
  <1>3. CASE UNCHANGED vars
    BY <1>3 DEF vars, RunInv, TypeOK, LiveTaskOwnsOpenRow, PendingWrites,
                OutcomeWrites, RowsAndChildren, DownIsQuiet, Status
  <1> QED
    BY <1>1, <1>2, <1>3 DEF Next

-----------------------------------------------------------------------------
\* The inductive invariant holds of the service for every number of runs,
\* every limit and every number of restarts.
THEOREM RunInvariant == Spec => []RunInv
  BY InitInv, NextInv, PTL DEF Spec

\* Every variable keeps its type.
THEOREM TypeCorrect == Spec => []TypeOK
  <1>1. RunInv => TypeOK
    BY DEF RunInv
  <1> QED
    BY <1>1, RunInvariant, PTL

\* No awaited update_status() of a live _execute task ever finds its row
\* terminal: its rowcount assertion cannot fail a run.
THEOREM LiveTaskRowOpen == Spec => []LiveTaskOwnsOpenRow
  <1>1. RunInv => LiveTaskOwnsOpenRow
    BY DEF RunInv
  <1> QED
    BY <1>1, RunInvariant, PTL

\* No step changes a terminal row.
LEMMA RowStep ==
  ASSUME RunInv, [Next]_vars, NEW r \in Runs, row[r] \in TerminalStatuses
  PROVE  row'[r] = row[r]
  <1>1. CASE UNCHANGED row
    BY <1>1
  <1>2. CASE Boot
    BY <1>2 DEF Boot, ActiveStatuses, TerminalStatuses
  <1>3. ASSUME NEW x \in Runs, SubmitCreate(x)
        PROVE  row'[r] = row[r]
    BY <1>3 DEF SubmitCreate, RunInv, TypeOK, RowsAndChildren, TerminalStatuses
  <1>4. ASSUME NEW x \in Runs, CommitWrite(x)
        PROVE  row'[r] = row[r]
    BY <1>4 DEF CommitWrite, Commit, update_status, RunInv, TypeOK
  <1> QED
    BY <1>1, <1>2, <1>3, <1>4
       DEF Next, DaemonStep, RunStep, Submit, TaskStep, vars, pause_intake,
           resume_intake, Crash, Stop, StopReturn, ProcessGone, SubmitBegin,
           SubmitCount, SubmitLaunch, Start, RunRefused, RunQueued, RunSpawn,
           RunSpawnFails, RunEvent, RunStopped, RunEof, FinishReaped,
           FinishKill, FinishJoined, cancel, Cancelled, CancelUnstarted,
           CancelMarking, CancelWaiting, CancelStreaming, CancelFinishing,
           CancelSettling, ChildExit, ChildMute

\* A terminal opencode_runs status is never overwritten, by any order of
\* late commits, cancellations, sweeps and restarts.
THEOREM TerminalFinal == Spec => TerminalIsFinal
  <1>1. RunInv /\ [Next]_vars
          => [\A r \in Runs : row[r] \in TerminalStatuses => row'[r] = row[r]]_vars
    BY RowStep
  <1> QED
    BY <1>1, RunInvariant, PTL DEF Spec, TerminalIsFinal

-----------------------------------------------------------------------------
(* The refinement of RunLifecycle.                                         *)

\* An UPDATE that commits is a MarkRunning, a Cancel, a Record or nothing.
LEMMA CommitRefines ==
  ASSUME RunInv, NEW r \in Runs, NEW s \in write[r], Commit(r, s)
  PROVE  [Lifecycle!Next]_(Lifecycle!vars)
  <1>1. /\ row' = [row EXCEPT ![r] = IF row[r] \in TerminalStatuses
                                       THEN row[r] ELSE s]
        /\ child' = child
    BY DEF Commit, update_status
  <1>2. /\ row \in [Runs -> {"none"} \cup ActiveStatuses \cup TerminalStatuses]
        /\ s \in {"running"} \cup TerminalStatuses
        /\ child \in [Runs -> {"none", "alive", "mute", "ok", "bad"}]
    BY DEF RunInv, TypeOK
  <1>3. CASE row[r] \in TerminalStatuses \/ row[r] = s
    BY <1>1, <1>2, <1>3 DEF Lifecycle!vars
  <1>4. CASE row[r] \notin TerminalStatuses /\ s \in OutcomeStatuses
    <2>1. /\ row[r] = "running"
          /\ child[r] \notin Alive
          /\ s = "succeeded" => child[r] = "ok"
          /\ s = "timeout" => child[r] # "none"
      BY <1>4 DEF RunInv, OutcomeWrites
    <2>2. Lifecycle!Record(r, s)
      BY <1>1, <1>2, <1>4, <2>1 DEF Lifecycle!Record, Lifecycle!Gone, Alive
    <2> QED
      BY <1>4, <2>2 DEF Lifecycle!Next, OutcomeStatuses
  <1>5. CASE row[r] \notin TerminalStatuses /\ row[r] # s /\ s \in {"running", "cancelled"}
    <2>1. row[r] \in ActiveStatuses
      BY <1>2, <1>5 DEF RunInv, OutcomeWrites, OutcomeStatuses
    <2>2. Lifecycle!MarkRunning(r) \/ Lifecycle!Cancel(r)
      BY <1>1, <1>2, <1>5, <2>1
         DEF Lifecycle!MarkRunning, Lifecycle!Cancel, Lifecycle!Active, ActiveStatuses,
             TerminalStatuses
    <2> QED
      BY <2>2 DEF Lifecycle!Next
  <1> QED
    BY <1>2, <1>3, <1>4, <1>5 DEF OutcomeStatuses, TerminalStatuses

\* Every step is a step of RunLifecycle or leaves rows and children alone.
LEMMA NextRefines ==
  RunInv /\ [Next]_vars => [Lifecycle!Next]_(Lifecycle!vars)
  <1> SUFFICES ASSUME RunInv, [Next]_vars
               PROVE  [Lifecycle!Next]_(Lifecycle!vars)
    OBVIOUS
  <1>1. CASE UNCHANGED <<row, child>>
    BY <1>1 DEF Lifecycle!vars
  <1>2. CASE Boot
    <2>1. Lifecycle!Sweep
      BY <1>2 DEF Boot, Lifecycle!Sweep, Lifecycle!Active, ActiveStatuses
    <2> QED
      BY <2>1 DEF Lifecycle!Next
  <1>3. ASSUME NEW r \in Runs, SubmitCreate(r)
        PROVE  Lifecycle!Next
    <2>1. Lifecycle!Create(r)
      BY <1>3 DEF SubmitCreate, RunInv, RowsAndChildren, Lifecycle!Create
    <2> QED
      BY <2>1 DEF Lifecycle!Next
  <1>4. ASSUME NEW r \in Runs, CommitWrite(r)
        PROVE  [Lifecycle!Next]_(Lifecycle!vars)
    BY <1>4, CommitRefines DEF CommitWrite
  <1>5. ASSUME NEW r \in Runs, RunSpawn(r)
        PROVE  Lifecycle!Next
    <2>1. row[r] = "running" /\ child[r] = "none"
      BY <1>5 DEF RunSpawn, AcquireSlot, RunInv, RowsAndChildren,
                  LiveTaskOwnsOpenRow, Admitted, Holding
    <2>2. Lifecycle!Spawn(r)
      BY <1>5, <2>1 DEF RunSpawn, Lifecycle!Spawn
    <2> QED
      BY <2>2 DEF Lifecycle!Next
  <1>6. ASSUME NEW r \in Runs, FinishKill(r) \/ ChildExit(r) \/ ChildMute(r)
        PROVE  Lifecycle!Next
    <2>1. Lifecycle!ChildStep(r)
      BY <1>6 DEF FinishKill, ChildExit, ChildMute, Alive, Lifecycle!ChildStep
    <2> QED
      BY <2>1 DEF Lifecycle!Next
  <1> QED
    BY <1>1, <1>2, <1>3, <1>4, <1>5, <1>6
       DEF Next, DaemonStep, RunStep, Submit, TaskStep, vars, pause_intake,
           resume_intake, Crash, Stop, StopReturn, ProcessGone, SubmitBegin,
           SubmitCount, SubmitLaunch, Start, RunRefused, RunQueued,
           RunSpawnFails, RunEvent, RunStopped, RunEof, FinishReaped,
           FinishJoined, cancel, Cancelled, CancelUnstarted,
           CancelMarking, CancelWaiting, CancelStreaming, CancelFinishing,
           CancelSettling

\* The service, its threads, semaphore, cancellations and restarts implement
\* RunLifecycle: rows move forward only, a child is spawned at most once and
\* for a running row, and an outcome is recorded only of a child that is gone.
THEOREM Refinement == Spec => ImplementsLifecycle
  <1>1. Init => Lifecycle!Init
    BY DEF Init, Lifecycle!Init
  <1> QED
    BY <1>1, NextRefines, RunInvariant, PTL DEF Spec, ImplementsLifecycle, Lifecycle!Spec

-----------------------------------------------------------------------------
(* What is taken in the runner is given back: NothingLeaks.                *)

\* Where a run has not joined the semaphore's queue yet.
BeforeQueue == {"idle", "created", "marking", "marked"} \cup Submitting

\* `ahead` orders the waiters by arrival: whoever is ahead of a waiter joined
\* before it, of two waiters exactly one is ahead of the other, transitively.
QueueOrder ==
  \A v \in Runs : pc[v] = "waiting" =>
    /\ v \notin ahead[v]
    /\ \A u \in ahead[v] : pc[u] \notin BeforeQueue
    /\ \A w \in Runs : pc[w] = "waiting" =>
         /\ w # v => (v \in ahead[w] <=> w \notin ahead[v])
         /\ v \in ahead[w] =>
              \A u \in ahead[v] : pc[u] = "waiting" => u \in ahead[w]

\* A run has an activity stamp from its first event, until its task is over.
ActivityHeld ==
  \A r \in lastEvent : pc[r] \in Supervising \cup {"settling", "cancelling"}

\* The inductive invariant behind NothingLeaks, beside RunInv.
LeakInv ==
  AdmissionExact /\ SlotsConserved /\ NoIdleSlot /\ ActivityHeld /\ QueueOrder

\* A set of waiters, as a release may find it.
Waiters(W) == W \subseteq Runs /\ \A w \in W : pc[w] = "waiting"

\* Of two waiters, the one ahead has fewer of them in front of it.
LEMMA AheadHasFewer ==
  ASSUME TypeOK, QueueOrder, NEW W, Waiters(W), NEW v \in W, NEW w \in W,
         v \in ahead[w]
  PROVE  /\ ahead[v] \cap W \subseteq ahead[w] \cap W
         /\ v \in (ahead[w] \cap W) \ (ahead[v] \cap W)
         /\ Cardinality(ahead[v] \cap W) \in Nat
         /\ Cardinality(ahead[w] \cap W) \in Nat
         /\ Cardinality(ahead[v] \cap W) < Cardinality(ahead[w] \cap W)
  <1> DEFINE A == ahead[v] \cap W
             B == ahead[w] \cap W
  <1>1. A \subseteq B
    BY DEF QueueOrder, Waiters
  <1>2. v \in B /\ v \notin A
    BY DEF QueueOrder, Waiters
  <1>3. IsFiniteSet(B)
    BY RunsAssumption, FS_Subset DEF Waiters
  <1>4. IsFiniteSet(A)
    BY <1>1, <1>3, FS_Subset
  <1>5. Cardinality(A) \in Nat /\ Cardinality(B) \in Nat
    BY <1>3, <1>4, FS_CardinalityType
  <1> HIDE DEF A, B
  <1>6. Cardinality(A) <= Cardinality(B) /\ Cardinality(A) # Cardinality(B)
    BY <1>1, <1>2, <1>3, FS_Subset
  <1>7. Cardinality(A) < Cardinality(B)
    BY <1>5, <1>6
  <1> QED
    BY <1>1, <1>2, <1>5, <1>7 DEF A, B

\* A release wakes at most n waiters.
LEMMA FirstBound ==
  ASSUME TypeOK, QueueOrder, NEW W, Waiters(W), NEW n \in Nat
  PROVE  Cardinality(First(W, n)) <= n
  <1> DEFINE F == First(W, n)
             rank == [w \in F |-> Cardinality(ahead[w] \cap W)]
  <1>1. F \subseteq W
    BY DEF First
  <1>2. \A w \in W : Cardinality(ahead[w] \cap W) \in Nat
    BY RunsAssumption, FS_Subset, FS_CardinalityType DEF Waiters
  <1>3. rank \in [F -> 0..(n - 1)]
    BY <1>1, <1>2 DEF First
  <1>4. ASSUME NEW v \in F, NEW w \in F, rank[v] = rank[w]
        PROVE  v = w
    <2>1. v \in W /\ w \in W
      BY <1>1
    <2>2. Cardinality(ahead[v] \cap W) = Cardinality(ahead[w] \cap W)
      BY <1>4
    <2>3. SUFFICES ASSUME v # w PROVE FALSE
      OBVIOUS
    <2>4. v \in ahead[w] \/ w \in ahead[v]
      BY <2>1, <2>3 DEF QueueOrder, Waiters
    <2>5. CASE v \in ahead[w]
      BY <2>1, <2>2, <2>5, AheadHasFewer
    <2>6. CASE w \in ahead[v]
      <3>1. /\ Cardinality(ahead[w] \cap W) \in Nat
            /\ Cardinality(ahead[w] \cap W) < Cardinality(ahead[v] \cap W)
        BY <2>1, <2>6, AheadHasFewer
      <3> QED
        BY <2>2, <3>1
    <2> QED
      BY <2>4, <2>5, <2>6
  <1>5. rank \in Injection(F, 0..(n - 1))
    BY <1>3, <1>4 DEF Injection, IsInjective
  <1>6. IsFiniteSet(0..(n - 1)) /\ Cardinality(0..(n - 1)) = n
    BY FS_Interval
  <1>7. Cardinality(F) <= Cardinality(0..(n - 1))
    BY <1>5, <1>6, FS_Injection
  <1> QED
    BY <1>6, <1>7

\* A release finds somebody to wake whenever somebody waits.
LEMMA FirstSome ==
  ASSUME TypeOK, QueueOrder, NEW W, Waiters(W), W # {}, NEW n \in Nat, n > 0
  PROVE  First(W, n) # {}
  <1> DEFINE T == {ahead[w] \cap W : w \in W}
  <1>1. \A w \in W : IsFiniteSet(ahead[w] \cap W)
    BY RunsAssumption, FS_Subset DEF Waiters
  <1>2. T \subseteq FiniteSubsetsOf(Runs) /\ T # {}
    BY <1>1 DEF FiniteSubsetsOf, Waiters
  <1>3. PICK w \in W : \A y \in T :
          ~ (<<y, ahead[w] \cap W>> \in StrictSubsetOrdering(Runs))
    <2>1. \E x \in T : \A y \in T : ~ (<<y, x>> \in StrictSubsetOrdering(Runs))
      BY <1>2, WFMin, FS_StrictSubsetOrderingWellFounded
    <2> QED
      BY <2>1
  <1>4. ahead[w] \cap W = {}
    <2>1. SUFFICES ASSUME NEW v \in ahead[w] \cap W PROVE FALSE
      OBVIOUS
    <2>2. /\ ahead[v] \cap W \subseteq ahead[w] \cap W
          /\ ahead[v] \cap W # ahead[w] \cap W
      BY AheadHasFewer
    <2>3. <<ahead[v] \cap W, ahead[w] \cap W>> \in StrictSubsetOrdering(Runs)
      BY <2>2 DEF StrictSubsetOrdering, Waiters
    <2> QED
      BY <1>3, <2>3
  <1>5. w \in First(W, n)
    BY <1>4, FS_EmptySet DEF First
  <1> QED
    BY <1>5

\* The runs holding a slot and the runs counted as admitted.
Holders == {r \in Runs : pc[r] \in Holding}
InRunner == {r \in Runs : pc[r] \in Admitted}

\* Moving one run in or out of a finite set counts one.
LEMMA MoveOne ==
  ASSUME NEW S, NEW T, IsFiniteSet(S), NEW r, NEW G, IsFiniteSet(G),
         G \cap S = {}, r \notin G,
         \A x : x # r => (x \in T <=> x \in S \/ x \in G)
  PROVE  Cardinality(T) = Cardinality(S) + Cardinality(G)
           + (IF r \in T THEN 1 ELSE 0) - (IF r \in S THEN 1 ELSE 0)
  <1> DEFINE R == S \ {r}
  <1>1. /\ IsFiniteSet(R)
        /\ Cardinality(R) = IF r \in S THEN Cardinality(S) - 1 ELSE Cardinality(S)
    BY FS_RemoveElement
  <1>2. R \cap G = {}
    OBVIOUS
  <1>3. /\ IsFiniteSet(R \cup G)
        /\ Cardinality(R \cup G) = Cardinality(R) + Cardinality(G) - Cardinality(R \cap G)
    BY <1>1, FS_Union
  <1>4. Cardinality(S) \in Nat /\ Cardinality(G) \in Nat /\ Cardinality(R \cap G) = 0
    BY <1>2, FS_CardinalityType, FS_EmptySet
  <1>5. Cardinality(R \cup G) = Cardinality(S) + Cardinality(G)
                                  - (IF r \in S THEN 1 ELSE 0)
    <2> HIDE DEF R
    <2> QED
      BY <1>1, <1>3, <1>4
  <1>6. CASE r \in T
    <2>1. T = (R \cup G) \cup {r}
      BY <1>6
    <2>2. Cardinality((R \cup G) \cup {r}) = Cardinality(R \cup G) + 1
      BY <1>3, FS_AddElement
    <2> HIDE DEF R
    <2> QED
      BY <1>4, <1>5, <1>6, <2>1, <2>2
  <1>7. CASE r \notin T
    <2>1. T = R \cup G
      BY <1>7
    <2> HIDE DEF R
    <2> QED
      BY <1>4, <1>5, <1>7, <2>1
  <1> QED
    BY <1>6, <1>7

\* A step of r to p that has `free` slots to give and hands them over to G, at
\* most the first n waiters.
GrantStep(r, p, n, free, G) ==
  /\ p \in {"settling", "cancelling", "streaming"}
  /\ pc[r] \in Admitted \cup {"marked"}
  /\ G = First(Waiting \ {r}, n)
  /\ pc' = Granting(r, p, G)
  /\ ahead' = [ahead EXCEPT ![r] = {}]
  /\ lastEvent' = lastEvent
  /\ \A x \in Runs \ {r} : cancelReq'[x] = cancelReq[x]
  /\ n <= free /\ (n = 0 => free = 0)
  /\ pc[r] \in Holding /\ p = "streaming" => free = slots
  /\ pc[r] \in Holding /\ p # "streaming" => free = slots + 1
  /\ pc[r] \notin Holding /\ p = "streaming" => free = slots - 1
  /\ pc[r] \notin Holding /\ p # "streaming" => free = slots
  /\ slots' = free - Cardinality(G)
  /\ pc[r] \in Admitted /\ p = "streaming" => admitted' = admitted
  /\ pc[r] \in Admitted /\ p # "streaming" => admitted' = admitted - 1
  /\ pc[r] \notin Admitted /\ p # "streaming" => admitted' = admitted
  /\ pc[r] \notin Admitted /\ p = "streaming" =>
       admitted < QueueMaxDepth /\ admitted' = admitted + 1

\* Such a step gives back what it takes.
LEMMA GrantLeak ==
  ASSUME TypeOK, LeakInv, NEW r \in Runs, NEW p, NEW n \in Nat, NEW free \in Nat,
         NEW G, GrantStep(r, p, n, free, G)
  PROVE  LeakInv'
  <1> DEFINE W == Waiting \ {r}
  <1>0. G = First(W, n)
    BY DEF GrantStep
  <1>1. Waiters(W) /\ G \subseteq W
    BY <1>0 DEF Waiters, Waiting, First
  <1>2. \A x \in G : pc[x] = "waiting" /\ x \in Runs /\ x # r
    BY <1>1 DEF Waiters
  <1>3. IsFiniteSet(G) /\ Cardinality(G) \in Nat /\ Cardinality(G) <= n
    BY <1>0, <1>1, FirstCount, FirstBound, RunsAssumption, FS_Subset DEF Waiters, LeakInv
  <1>4. \A x \in Runs : pc'[x] = IF x = r THEN p
                                ELSE IF x \in G THEN "granted" ELSE pc[x]
    BY DEF GrantStep, Granting
  <1>5. p \in {"settling", "cancelling", "streaming"} /\ pc[r] \in Admitted \cup {"marked"}
    BY DEF GrantStep
  <1>6. IsFiniteSet(Holders) /\ IsFiniteSet(InRunner)
    BY RunsAssumption, FS_Subset DEF Holders, InRunner
  <1>7. Cardinality(Holders) \in Nat /\ Cardinality(InRunner) \in Nat
    BY <1>6, FS_CardinalityType
  <1> HIDE DEF W
  <1>8. Cardinality(Holders') = Cardinality(Holders) + Cardinality(G)
           + (IF p = "streaming" THEN 1 ELSE 0)
           - (IF pc[r] \in Holding THEN 1 ELSE 0)
    <2>1. G \cap Holders = {} /\ r \notin G
      BY <1>2 DEF Holders, Holding, Supervising
    <2>2. /\ \A x : x # r => (x \in Holders' <=> x \in Holders \/ x \in G)
          /\ r \in Holders' <=> p = "streaming"
      BY <1>2, <1>4, <1>5 DEF Holders, Holding, Supervising
    <2>3. r \in Holders <=> pc[r] \in Holding
      BY DEF Holders
    <2>4. Cardinality(Holders') = Cardinality(Holders) + Cardinality(G)
           + (IF r \in Holders' THEN 1 ELSE 0)
           - (IF r \in Holders THEN 1 ELSE 0)
      BY <1>3, <1>6, <2>1, <2>2, MoveOne
    <2> QED
      BY <2>2, <2>3, <2>4
  <1>9. Cardinality(InRunner') = Cardinality(InRunner)
           + (IF p = "streaming" THEN 1 ELSE 0)
           - (IF pc[r] \in Admitted THEN 1 ELSE 0)
    <2>1. /\ \A x : x # r => (x \in InRunner' <=> x \in InRunner \/ x \in {})
          /\ r \in InRunner' <=> p = "streaming"
      BY <1>2, <1>4, <1>5 DEF InRunner, Admitted, Holding, Supervising
    <2>2. r \in InRunner <=> pc[r] \in Admitted
      BY DEF InRunner
    <2>3. IsFiniteSet({}) /\ Cardinality({}) = 0 /\ {} \cap InRunner = {} /\ r \notin {}
      BY FS_EmptySet
    <2>4. Cardinality(InRunner') = Cardinality(InRunner) + Cardinality({})
           + (IF r \in InRunner' THEN 1 ELSE 0)
           - (IF r \in InRunner THEN 1 ELSE 0)
      BY <1>6, <2>1, <2>3, MoveOne
    <2> QED
      BY <1>7, <2>1, <2>2, <2>3, <2>4
  <1>10. AdmissionExact'
    <2>1. admitted = Cardinality(InRunner) /\ admitted <= QueueMaxDepth
      BY DEF LeakInv, AdmissionExact, InRunner
    <2>2. admitted' = Cardinality(InRunner')
      BY <1>7, <1>9, <2>1 DEF GrantStep
    <2>3. admitted' <= QueueMaxDepth
      BY <1>5, <1>7, <2>1, LimitsAssumption DEF GrantStep, Admitted, Holding, Supervising
    <2> QED
      BY <2>2, <2>3 DEF AdmissionExact, InRunner
  <1>11. SlotsConserved'
    <2>1. slots + Cardinality(Holders) = MaxConcurrent /\ slots >= 0 /\ slots \in Int
      BY DEF LeakInv, SlotsConserved, Holders, TypeOK
    <2>2. free = slots + (IF pc[r] \in Holding THEN 1 ELSE 0)
                       - (IF p = "streaming" THEN 1 ELSE 0)
      BY <2>1 DEF GrantStep
    <2>3. slots' = free - Cardinality(G) /\ n <= free
      BY DEF GrantStep
    <2>4. slots' + Cardinality(Holders') = MaxConcurrent
      BY <1>3, <1>7, <1>8, <2>1, <2>2, <2>3, LimitsAssumption
    <2>5. slots' >= 0
      BY <1>3, <2>3
    <2> QED
      BY <2>4, <2>5 DEF SlotsConserved, Holders
  <1>12. NoIdleSlot'
    <2>1. SUFFICES ASSUME slots' > 0, Waiting' # {}
                   PROVE  \E x \in Runs : pc'[x] = "granted"
      BY DEF NoIdleSlot
    <2>2. Waiting' \subseteq W
      BY <1>4, <1>5 DEF Waiting, W, GrantStep
    <2>3. n > 0
      BY <1>3, <2>1 DEF GrantStep
    <2>4. G # {}
      BY <1>0, <1>1, <2>1, <2>2, <2>3, FirstSome DEF LeakInv
    <2> QED
      BY <1>2, <1>4, <2>4
  <1>13. ActivityHeld'
    BY <1>2, <1>4, <1>5
       DEF LeakInv, ActivityHeld, GrantStep, Admitted, Holding, Supervising, TypeOK
  <1>14. QueueOrder'
    <2>1. \A x \in Runs : pc'[x] = "waiting" => pc[x] = "waiting" /\ ahead'[x] = ahead[x]
      BY <1>4, <1>5 DEF GrantStep, TypeOK
    <2>2. \A x \in Runs : pc[x] \notin BeforeQueue => pc'[x] \notin BeforeQueue
      BY <1>4, <1>5 DEF BeforeQueue, Submitting
    <2>3. ahead \in [Runs -> SUBSET Runs]
      BY DEF TypeOK
    <2> QED
      BY <2>1, <2>2, <2>3 DEF LeakInv, QueueOrder
  <1> QED
    BY <1>10, <1>11, <1>12, <1>13, <1>14 DEF LeakInv

\* A step that takes and gives back nothing.
QuietStep ==
  /\ UNCHANGED <<slots, ahead, admitted>>
  /\ \A x \in Runs :
       /\ pc'[x] \in Supervising <=> pc[x] \in Supervising
       /\ pc'[x] = "granted" <=> pc[x] = "granted"
       /\ pc'[x] = "waiting" <=> pc[x] = "waiting"
       /\ pc[x] = "waiting" /\ cancelReq[x] => cancelReq'[x]
       /\ pc[x] \notin BeforeQueue => pc'[x] \notin BeforeQueue

LEMMA QuietLeak ==
  ASSUME TypeOK, LeakInv, QuietStep, ActivityHeld'
  PROVE  LeakInv'
  <1>1. /\ \A x \in Runs : pc'[x] \in Holding <=> pc[x] \in Holding
        /\ \A x \in Runs : pc'[x] \in Admitted <=> pc[x] \in Admitted
    BY DEF QuietStep, Holding, Admitted
  <1>2. Holders' = Holders /\ InRunner' = InRunner
    BY <1>1 DEF Holders, InRunner
  <1>3. AdmissionExact' /\ SlotsConserved'
    BY <1>2 DEF LeakInv, AdmissionExact, SlotsConserved, Holders, InRunner, QuietStep
  <1>4. Waiting' \subseteq Waiting
    BY DEF Waiting, QuietStep
  <1>5. NoIdleSlot'
    BY <1>4 DEF LeakInv, NoIdleSlot, QuietStep
  <1>6. QueueOrder'
    BY DEF LeakInv, QueueOrder, QuietStep, TypeOK
  <1> QED
    BY <1>3, <1>5, <1>6 DEF LeakInv

\* What the steps between submission and the runner, of the child, of an API
\* caller and of a commit have in common.
LEMMA PlainLeak ==
  ASSUME TypeOK, LeakInv, NEW r \in Runs,
         \/ Submit(r) \/ Start(r) \/ RunRefused(r) \/ RunEvent(r) \/ RunEof(r)
         \/ FinishReaped(r) \/ FinishKill(r) \/ cancel(r)
         \/ ChildExit(r) \/ ChildMute(r)
         \/ \E why \in {"timeout", "truncated"} : RunStopped(r, why)
  PROVE  LeakInv'
  <1> USE DEF BeforeQueue, Submitting, Supervising, ActivityHeld, runnerVars, LeakInv
  <1>1. CASE Submit(r)
    BY <1>1, QuietLeak DEF QuietStep, Submit, SubmitBegin, SubmitCount, SubmitCreate,
                          SubmitLaunch, TypeOK
  <1>2. CASE Start(r) \/ RunRefused(r)
    BY <1>2, QuietLeak DEF QuietStep, Start, RunRefused, TypeOK
  <1>3. CASE RunEvent(r)
    BY <1>3, QuietLeak DEF QuietStep, RunEvent, TypeOK
  <1>4. CASE RunEof(r) \/ FinishReaped(r) \/ FinishKill(r)
    BY <1>4, QuietLeak DEF QuietStep, RunEof, FinishReaped, FinishKill, TypeOK
  <1>5. CASE cancel(r) \/ ChildExit(r) \/ ChildMute(r)
    BY <1>5, QuietLeak DEF QuietStep, cancel, ChildExit, ChildMute, TypeOK
  <1>6. ASSUME NEW why \in {"timeout", "truncated"}, RunStopped(r, why)
        PROVE  LeakInv'
    BY <1>6, QuietLeak DEF QuietStep, RunStopped, TypeOK
  <1> HIDE DEF LeakInv
  <1> QED
    BY <1>1, <1>2, <1>3, <1>4, <1>5, <1>6

\* A commit, awaited or late, takes and gives back nothing; the last one of a
\* task drops its activity stamp.
LEMMA CommitLeak ==
  ASSUME TypeOK, LeakInv, NEW r \in Runs, NEW s \in write[r], Commit(r, s)
  PROVE  LeakInv'
  <1>1. UNCHANGED <<slots, ahead, admitted>>
    BY DEF Commit, runnerVars
  <1>2. \A x \in Runs \ {r} : pc'[x] = pc[x] /\ cancelReq'[x] = cancelReq[x]
    BY DEF Commit, TypeOK
  <1>3. \/ pc'[r] = pc[r] /\ UNCHANGED <<cancelReq, lastEvent>>
        \/ /\ pc[r] = "marking"
           /\ pc'[r] = "marked"
           /\ lastEvent' = lastEvent
        \/ /\ pc[r] \in {"marking", "settling", "cancelling"}
           /\ pc'[r] = "done"
           /\ lastEvent' = lastEvent \ {r}
    <2>1. CASE ~Awaits(r, s)
      <3>1. cancelReq' = cancelReq
        BY <2>1 DEF Commit, TypeOK
      <3> QED
        BY <2>1, <3>1 DEF Commit, TypeOK
    <2>2. CASE Awaits(r, s)
      BY <2>2 DEF Commit, Awaits, _forget_task, TypeOK
    <2> QED
      BY <2>1, <2>2
  <1>4. QuietStep
    BY <1>1, <1>2, <1>3 DEF QuietStep, Supervising, BeforeQueue, Submitting
  <1>5. ActivityHeld'
    BY <1>2, <1>3 DEF LeakInv, ActivityHeld, Supervising, TypeOK
  <1> QED
    BY <1>4, <1>5, QuietLeak

\* Joining the queue counts one more admitted run, behind all that wait.
LEMMA QueuedLeak ==
  ASSUME TypeOK, LeakInv, NEW r \in Runs, RunQueued(r)
  PROVE  LeakInv'
  <1>1. /\ pc[r] = "marked" /\ pc' = [pc EXCEPT ![r] = "waiting"]
        /\ UNCHANGED <<slots, cancelReq, lastEvent>>
        /\ admitted < QueueMaxDepth /\ admitted' = admitted + 1
        /\ ahead' = [ahead EXCEPT ![r] = {w \in Runs : pc[w] = "waiting"}]
        /\ Locked
    BY DEF RunQueued
  <1>2. pc'[r] = "waiting" /\ \A x \in Runs \ {r} : pc'[x] = pc[x]
    BY <1>1 DEF TypeOK
  <1>3. Holders' = Holders
    BY <1>1, <1>2 DEF Holders, Holding, Supervising
  <1>4. SlotsConserved'
    BY <1>1, <1>3 DEF LeakInv, SlotsConserved, Holders
  <1>5. InRunner' = InRunner \cup {r} /\ r \notin InRunner
    BY <1>1, <1>2 DEF InRunner, Admitted, Holding, Supervising
  <1>6. IsFiniteSet(InRunner)
    BY RunsAssumption, FS_Subset DEF InRunner
  <1>7. Cardinality(InRunner') = Cardinality(InRunner) + 1
    BY <1>5, <1>6, FS_AddElement
  <1>8. AdmissionExact'
    BY <1>1, <1>7, LimitsAssumption DEF LeakInv, AdmissionExact, InRunner, TypeOK
  <1>9. NoIdleSlot'
    <2>1. slots > 0 => \E w \in Runs : pc[w] = "granted"
      BY <1>1 DEF Locked, LeakInv, NoIdleSlot, TypeOK
    <2> QED
      BY <1>1, <1>2, <2>1 DEF NoIdleSlot
  <1>10. ActivityHeld'
    BY <1>1, <1>2 DEF LeakInv, ActivityHeld, Supervising, TypeOK
  <1>11. QueueOrder'
    <2>1. \A v \in Runs : pc[v] = "waiting" => v # r /\ r \notin ahead[v]
      BY <1>1 DEF LeakInv, QueueOrder, BeforeQueue
    <2>2. /\ ahead'[r] = {w \in Runs : pc[w] = "waiting"}
          /\ \A x \in Runs \ {r} : ahead'[x] = ahead[x]
          /\ \A x \in Runs : ahead[x] \subseteq Runs
      BY <1>1 DEF TypeOK
    <2>3. \A x \in Runs : pc[x] \notin BeforeQueue => pc'[x] \notin BeforeQueue
      BY <1>2 DEF BeforeQueue, Submitting
    <2>4. ASSUME NEW v \in Runs, pc'[v] = "waiting"
          PROVE  /\ v \notin ahead'[v]
                 /\ \A u \in ahead'[v] : pc'[u] \notin BeforeQueue
      <3>1. CASE v = r
        BY <1>1, <1>2, <2>2, <3>1 DEF BeforeQueue, Submitting
      <3>2. CASE v # r
        BY <1>2, <2>2, <2>3, <2>4, <3>2 DEF LeakInv, QueueOrder
      <3> QED
        BY <3>1, <3>2
    <2>5. ASSUME NEW v \in Runs, pc'[v] = "waiting", NEW w \in Runs, pc'[w] = "waiting"
          PROVE  /\ w # v => (v \in ahead'[w] <=> w \notin ahead'[v])
                 /\ v \in ahead'[w] =>
                      \A u \in ahead'[v] : pc'[u] = "waiting" => u \in ahead'[w]
      <3>1. CASE v = r \/ w = r
        BY <1>2, <2>1, <2>2, <2>5, <3>1
      <3>2. CASE v # r /\ w # r
        BY <1>2, <2>1, <2>2, <2>5, <3>2 DEF LeakInv, QueueOrder
      <3> QED
        BY <3>1, <3>2
    <2> QED
      BY <2>4, <2>5 DEF QueueOrder
  <1> QED
    BY <1>4, <1>8, <1>9, <1>10, <1>11 DEF LeakInv

\* Entering the runner, or failing to: a slot is taken, and given back when
\* the spawn fails.
LEMMA EnterLeak ==
  ASSUME TypeOK, LeakInv, NEW r \in Runs, RunSpawn(r) \/ RunSpawnFails(r)
  PROVE  LeakInv'
  <1>1. slots \in Nat /\ admitted \in Int
    BY DEF LeakInv, SlotsConserved, TypeOK
  <1>2. /\ lastEvent' = lastEvent /\ cancelReq' = cancelReq
        /\ ahead' = [ahead EXCEPT ![r] = {}]
    BY DEF RunSpawn, AcquireSlot, RunSpawnFails
  <1>3. CASE pc[r] = "marked"
    <2>1. Waiting = {} /\ slots # 0
      BY <1>3 DEF RunSpawn, AcquireSlot, RunSpawnFails, Locked
    <2>2. \A k \in Nat : First(Waiting \ {r}, k) = {}
      BY <2>1 DEF First
    <2>3. \A p : Granting(r, p, {}) = [pc EXCEPT ![r] = p]
      BY DEF Granting, TypeOK
    <2>4. pc[r] \notin Admitted /\ pc[r] \notin Holding /\ Cardinality({}) = 0
      BY <1>3, FS_EmptySet DEF Admitted, Holding, Supervising
    <2>5. CASE RunSpawn(r)
      <3>1. /\ slots' = slots - 1 /\ admitted' = admitted + 1
            /\ pc' = [pc EXCEPT ![r] = "streaming"] /\ admitted < QueueMaxDepth
        BY <1>3, <2>5 DEF RunSpawn, AcquireSlot
      <3> DEFINE G == First(Waiting \ {r}, slots - 1)
      <3>2. slots - 1 \in Nat /\ G = {}
        BY <1>1, <2>1, <2>2
      <3>3. pc' = Granting(r, "streaming", G) /\ Cardinality(G) = 0
        BY <2>3, <2>4, <3>1, <3>2
      <3> HIDE DEF G
      <3>4. GrantStep(r, "streaming", slots - 1, slots - 1, G)
        <4>1. /\ slots' = (slots - 1) - Cardinality(G)
              /\ slots - 1 <= slots - 1
              /\ pc[r] \notin Admitted /\ pc[r] \notin Holding
          BY <1>1, <2>4, <3>1, <3>3
        <4>2. /\ pc[r] \in Admitted \cup {"marked"}
              /\ \A x \in Runs \ {r} : cancelReq'[x] = cancelReq[x]
          BY <1>2, <1>3
        <4>3. G = First(Waiting \ {r}, slots - 1)
          BY DEF G
        <4>4. pc' = Granting(r, "streaming", G)
          BY <3>3
        <4> QED
          BY <1>2, <3>1, <4>1, <4>2, <4>3, <4>4 DEF GrantStep
      <3> QED
        BY <3>2, <3>4, GrantLeak
    <2>6. CASE RunSpawnFails(r)
      <3>1. /\ slots' = slots /\ admitted' = admitted
            /\ pc' = [pc EXCEPT ![r] = "settling"]
        BY <1>3, <2>6 DEF RunSpawnFails
      <3> DEFINE G == First(Waiting \ {r}, slots)
      <3>2. pc' = Granting(r, "settling", G) /\ Cardinality(G) = 0
        BY <1>1, <2>2, <2>3, <2>4, <3>1
      <3> HIDE DEF G
      <3>3. GrantStep(r, "settling", slots, slots, G)
        <4>1. /\ slots' = slots - Cardinality(G)
              /\ slots <= slots
              /\ pc[r] \notin Admitted /\ pc[r] \notin Holding
          BY <1>1, <2>4, <3>1, <3>2
        <4>2. /\ pc[r] \in Admitted \cup {"marked"}
              /\ \A x \in Runs \ {r} : cancelReq'[x] = cancelReq[x]
          BY <1>2, <1>3
        <4>3. G = First(Waiting \ {r}, slots)
          BY DEF G
        <4>4. pc' = Granting(r, "settling", G)
          BY <3>2
        <4> QED
          BY <1>2, <3>1, <4>1, <4>2, <4>3, <4>4 DEF GrantStep
      <3> QED
        BY <1>1, <3>3, GrantLeak
    <2> QED
      BY <2>5, <2>6
  <1>4. CASE pc[r] = "granted"
    <2>1. Waiting \ {r} = Waiting
      BY <1>4 DEF Waiting
    <2>2. pc[r] \in Admitted /\ pc[r] \in Holding
      BY <1>4 DEF Admitted, Holding
    <2>3. CASE RunSpawn(r)
      <3> DEFINE G == First(Waiting \ {r}, slots)
      <3>1. /\ pc' = Granting(r, "streaming", G) /\ slots' = slots - Cardinality(G)
            /\ admitted' = admitted /\ Cardinality(G) \in Nat
        BY <1>4, <2>1, <2>3, FirstCount DEF RunSpawn, AcquireSlot, Waiting
      <3> HIDE DEF G
      <3>2. GrantStep(r, "streaming", slots, slots, G)
        BY <1>1, <1>2, <1>4, <2>2, <3>1 DEF G, GrantStep
      <3> QED
        BY <1>1, <3>2, GrantLeak
    <2>4. CASE RunSpawnFails(r)
      <3> DEFINE G == First(Waiting \ {r}, slots + 1)
      <3>1. /\ pc' = Granting(r, "settling", G) /\ slots' = slots + 1 - Cardinality(G)
            /\ admitted' = admitted - 1 /\ Cardinality(G) \in Nat
        BY <1>4, <2>1, <2>4, FirstCount DEF RunSpawnFails, Waiting
      <3> HIDE DEF G
      <3>2. GrantStep(r, "settling", slots + 1, slots + 1, G)
        BY <1>1, <1>2, <1>4, <2>2, <3>1 DEF G, GrantStep
      <3> QED
        BY <1>1, <3>2, GrantLeak
    <2> QED
      BY <2>3, <2>4
  <1> QED
    BY <1>3, <1>4 DEF RunSpawn, RunSpawnFails, AcquireSlot

\* Leaving the runner or its queue, finished or cancelled at any await.
LEMMA LeaveLeak ==
  ASSUME TypeOK, LeakInv, NEW r \in Runs,
         \/ FinishJoined(r)
         \/ Cancelled(r) /\ (CancelWaiting(r) \/ CancelFinishing(r))
  PROVE  LeakInv'
  <1>1. slots \in Nat /\ admitted \in Int /\ cancelReq \in [Runs -> BOOLEAN]
    BY DEF LeakInv, SlotsConserved, TypeOK
  <1>2. \A x \in Runs \ {r} : cancelReq'[x] = cancelReq[x]
    BY <1>1 DEF FinishJoined, Cancelled
  <1>3. CASE pc[r] \in Supervising
    <2>1. pc[r] \in Admitted /\ pc[r] \in Holding /\ pc[r] # "marked"
      BY <1>3 DEF Admitted, Holding, Supervising
    <2>2. PICK p \in {"settling", "cancelling"} : LeaveRunner(r, p)
      BY <1>3 DEF FinishJoined, CancelWaiting, CancelFinishing, Supervising
    <2>3. lastEvent' = lastEvent
      BY <1>3 DEF FinishJoined, CancelWaiting, CancelFinishing, Supervising
    <2> DEFINE G == First(Waiting \ {r}, 1)
    <2>4. /\ pc' = Granting(r, p, G) /\ slots' = slots + 1 - Cardinality(G)
          /\ admitted' = admitted - 1 /\ ahead' = [ahead EXCEPT ![r] = {}]
          /\ Cardinality(G) \in Nat
      BY <2>2, FirstCount DEF LeaveRunner, Waiting
    <2> HIDE DEF G
    <2>5. p # "streaming" /\ slots + 1 \in Nat /\ slots + 1 >= 1
      BY <1>1
    <2>6. GrantStep(r, p, 1, slots + 1, G)
      BY <1>1, <1>2, <2>1, <2>3, <2>4, <2>5 DEF G, GrantStep
    <2> QED
      BY <2>5, <2>6, GrantLeak
  <1>4. CASE pc[r] \in {"waiting", "granted"}
    <2>1. LeaveQueue(r, "cancelling") /\ lastEvent' = lastEvent
      BY <1>4 DEF FinishJoined, CancelWaiting, CancelFinishing
    <2> DEFINE free == IF pc[r] = "granted" THEN slots + 1 ELSE slots
               G    == First(Waiting \ {r}, free)
    <2>2. /\ pc' = Granting(r, "cancelling", G) /\ slots' = free - Cardinality(G)
          /\ admitted' = admitted - 1 /\ ahead' = [ahead EXCEPT ![r] = {}]
          /\ Cardinality(G) \in Nat
      BY <2>1, FirstCount DEF LeaveQueue, Waiting
    <2>3. /\ free \in Nat
          /\ free = slots + (IF pc[r] \in Holding THEN 1 ELSE 0)
      BY <1>1, <1>4 DEF Holding, Supervising
    <2>4. pc[r] \in Admitted /\ pc[r] # "marked"
      BY <1>4 DEF Admitted, Holding
    <2> HIDE DEF G, free
    <2>5. GrantStep(r, "cancelling", free, free, G)
      BY <1>1, <1>2, <2>1, <2>2, <2>3, <2>4 DEF G, GrantStep
    <2> QED
      BY <2>3, <2>5, GrantLeak
  <1> QED
    BY <1>3, <1>4 DEF FinishJoined, CancelWaiting, CancelFinishing, Supervising

\* What the daemon as a whole does: nothing is taken, and when the process
\* goes down everything is given back at once.
LEMMA DaemonLeak ==
  ASSUME TypeOK, LeakInv, DaemonStep
  PROVE  LeakInv'
  <1>1. CASE pause_intake \/ resume_intake \/ Stop \/ Boot
    <2>1. QuietStep
      BY <1>1 DEF pause_intake, resume_intake, Stop, Boot, QuietStep, runnerVars,
                  Tracked, Admitted, TypeOK
    <2>2. ActivityHeld'
      BY <1>1 DEF pause_intake, resume_intake, Stop, Boot, LeakInv, ActivityHeld
    <2> QED
      BY <2>1, <2>2, QuietLeak
  <1>2. CASE Crash \/ StopReturn
    <2>1. /\ \A x \in Runs : pc'[x] \notin {"granted", "waiting"} \cup Supervising
          /\ slots' = MaxConcurrent /\ admitted' = 0 /\ lastEvent' = {}
      <3>1. ProcessGone
        BY <1>2 DEF Crash, StopReturn
      <3>2. \A x \in Runs : pc'[x] = IF pc[x] \in Submitting \cup Tracked
                                       THEN "lost" ELSE pc[x]
        BY <3>1 DEF ProcessGone
      <3> QED
        BY <3>1, <3>2 DEF ProcessGone, Tracked, Admitted, Holding, Supervising
    <2>2. Holders' = {} /\ InRunner' = {} /\ Waiting' = {}
      BY <2>1 DEF Holders, InRunner, Waiting, Admitted, Holding
    <2>3. AdmissionExact' /\ SlotsConserved'
      BY <2>1, <2>2, FS_EmptySet, LimitsAssumption
         DEF AdmissionExact, SlotsConserved, Holders, InRunner
    <2>4. NoIdleSlot' /\ ActivityHeld' /\ QueueOrder'
      BY <2>1, <2>2 DEF NoIdleSlot, ActivityHeld, QueueOrder
    <2> QED
      BY <2>3, <2>4 DEF LeakInv
  <1> QED
    BY <1>1, <1>2 DEF DaemonStep

\* Every step of an _execute task gives back what it takes.
LEMMA TaskStepLeak ==
  ASSUME TypeOK, LeakInv, NEW r \in Runs, TaskStep(r)
  PROVE  LeakInv'
  <1>1. CASE RunQueued(r)
    BY <1>1, QueuedLeak
  <1>2. CASE RunSpawn(r) \/ RunSpawnFails(r)
    BY <1>2, EnterLeak
  <1>3. CASE FinishJoined(r) \/ (Cancelled(r) /\ (CancelWaiting(r) \/ CancelFinishing(r)))
    BY <1>3, LeaveLeak
  <1>4. CASE Start(r) \/ RunRefused(r) \/ RunEof(r) \/ FinishReaped(r) \/ FinishKill(r)
    BY <1>4, PlainLeak
  <1>5. CASE Cancelled(r) /\ ~(CancelWaiting(r) \/ CancelFinishing(r))
    <2>1. /\ UNCHANGED <<slots, ahead, admitted>>
          /\ \A x \in Runs \ {r} : pc'[x] = pc[x] /\ cancelReq'[x] = cancelReq[x]
      BY <1>5 DEF Cancelled, CancelUnstarted, CancelMarking, CancelStreaming,
                  CancelSettling, runnerVars, TypeOK
    <2>2. /\ pc[r] = "streaming" /\ pc'[r] = "terminating" /\ lastEvent' = lastEvent
          \/ /\ pc[r] \in {"created", "marking", "marked"}
             /\ pc'[r] \in {"done", "cancelling"} /\ lastEvent' = lastEvent
          \/ /\ pc[r] \in {"settling", "cancelling"} /\ pc'[r] = "done"
             /\ lastEvent' = lastEvent \ {r}
      BY <1>5 DEF Cancelled, CancelUnstarted, CancelMarking, CancelStreaming,
                  CancelSettling, _forget_task, TypeOK
    <2>3. QuietStep
      BY <2>1, <2>2 DEF QuietStep, Supervising, BeforeQueue, Submitting
    <2>4. ActivityHeld'
      BY <2>1, <2>2 DEF LeakInv, ActivityHeld, Supervising, TypeOK
    <2> QED
      BY <2>3, <2>4, QuietLeak
  <1> QED
    BY <1>1, <1>2, <1>3, <1>4, <1>5 DEF TaskStep

\* LeakInv is inductive beside RunInv.
LEMMA NextLeak == RunInv /\ LeakInv /\ [Next]_vars => LeakInv'
  <1> SUFFICES ASSUME RunInv, LeakInv, [Next]_vars
               PROVE  LeakInv'
    OBVIOUS
  <1>0. TypeOK
    BY DEF RunInv
  <1>1. CASE DaemonStep
    BY <1>0, <1>1, DaemonLeak
  <1>2. ASSUME NEW r \in Runs, RunStep(r)
        PROVE  LeakInv'
    <2>1. CASE TaskStep(r)
      BY <1>0, <2>1, TaskStepLeak
    <2>2. CASE CommitWrite(r)
      BY <1>0, <2>2, CommitLeak DEF CommitWrite
    <2>3. CASE ~TaskStep(r) /\ ~CommitWrite(r)
      BY <1>0, <1>2, <2>3, PlainLeak DEF RunStep
    <2> QED
      BY <2>1, <2>2, <2>3
  <1>3. CASE UNCHANGED vars
    BY <1>3 DEF vars, LeakInv, AdmissionExact, SlotsConserved, NoIdleSlot, Waiting,
                ActivityHeld, QueueOrder
  <1> QED
    BY <1>1, <1>2, <1>3 DEF Next

\* A fresh daemon has taken nothing.
LEMMA InitLeak == Init => LeakInv
  <1> SUFFICES ASSUME Init PROVE LeakInv
    OBVIOUS
  <1>1. /\ \A x \in Runs : pc[x] = "idle"
        /\ slots = MaxConcurrent /\ admitted = 0 /\ lastEvent = {}
    BY DEF Init
  <1>2. Holders = {} /\ InRunner = {} /\ Waiting = {}
    BY <1>1 DEF Holders, InRunner, Waiting, Admitted, Holding, Supervising
  <1>3. AdmissionExact /\ SlotsConserved
    BY <1>1, <1>2, FS_EmptySet, LimitsAssumption
       DEF AdmissionExact, SlotsConserved, Holders, InRunner
  <1>4. NoIdleSlot /\ ActivityHeld /\ QueueOrder
    BY <1>1, <1>2 DEF NoIdleSlot, ActivityHeld, QueueOrder
  <1> QED
    BY <1>3, <1>4 DEF LeakInv

\* Neither _admitted nor the semaphore leaks or duplicates a place, no wake-up
\* is lost while a slot is free, and no activity stamp outlives its task,
\* for any number of runs, any limits, and every way out of the runner.
THEOREM NothingLeaksEver == Spec => []NothingLeaks
  <1>1. RunInv /\ LeakInv => NothingLeaks
    BY DEF LeakInv, NothingLeaks, ActivityHeld, ActivityOnlyOfTracked, Tracked,
           Admitted, Holding
  <1> QED
    BY <1>1, InitLeak, NextLeak, RunInvariant, PTL DEF Spec

-----------------------------------------------------------------------------
(* Crash recovery.                                                         *)

\* A run the process took down with it has no UPDATE left that could commit,
\* and its row was swept before the daemon serves again.
LostSettled ==
  \A r \in Runs : pc[r] = "lost" =>
    /\ write[r] = {}
    /\ phase \in {"serving", "stopping"} => row[r] \notin ActiveStatuses

\* No step brings a lost run back, or reopens its row.
LEMMA LostStep == RunInv /\ LostSettled /\ [Next]_vars => LostSettled'
  <1> SUFFICES ASSUME RunInv, LostSettled, [Next]_vars, NEW r \in Runs, pc'[r] = "lost"
               PROVE  /\ write'[r] = {}
                      /\ phase' \in {"serving", "stopping"} => row'[r] \notin ActiveStatuses
    BY DEF LostSettled
  <1>0. TypeOK
    BY DEF RunInv
  <1>1. CASE Crash \/ StopReturn
    BY <1>1 DEF Crash, StopReturn, ProcessGone
  <1>2. CASE Boot
    BY <1>2 DEF Boot, LostSettled, ActiveStatuses
  <1>3. CASE pause_intake \/ resume_intake \/ Stop \/ UNCHANGED vars
    BY <1>3 DEF pause_intake, resume_intake, Stop, vars, LostSettled
  <1>4. ASSUME NEW x \in Runs, RunStep(x)
        PROVE  /\ pc[r] = "lost" /\ phase' = phase
               /\ row'[r] = row[r] /\ write'[r] = write[r]
    <2>1. CASE Submit(x)
      BY <1>0, <2>1 DEF Submit, SubmitBegin, SubmitCount, SubmitCreate, SubmitLaunch,
                        daemonVars, TypeOK
    <2>2. CASE RunSpawn(x) \/ RunSpawnFails(x)
      <3>1. PICK p \in {"streaming", "settling"} : Handover(x, p)
        BY <1>0, <2>2, AcquireSlotHandsOver, SpawnFailsHandsOver DEF RunSpawn
      <3>2. pc[r] = "lost" /\ x # r
        BY <3>1 DEF Handover
      <3> QED
        BY <1>0, <2>2, <3>2 DEF RunSpawn, RunSpawnFails, daemonVars, TypeOK
    <2>3. CASE FinishJoined(x) \/ (Cancelled(x) /\ (CancelWaiting(x) \/ CancelFinishing(x)))
      <3>1. PICK p \in {"cancelling", "settling"} : Handover(x, p)
        BY <1>0, <2>3, LeaveRunnerHandsOver, LeaveQueueHandsOver
           DEF FinishJoined, CancelWaiting, CancelFinishing
      <3>2. pc[r] = "lost" /\ x # r
        BY <3>1 DEF Handover
      <3> QED
        BY <1>0, <2>3, <3>2 DEF FinishJoined, Cancelled, CancelWaiting,
                                CancelFinishing, daemonVars, TypeOK
    <2>4. CASE Cancelled(x) /\ ~(CancelWaiting(x) \/ CancelFinishing(x))
      BY <1>0, <2>4 DEF Cancelled, CancelUnstarted, CancelMarking, CancelStreaming,
                        CancelSettling, daemonVars, TypeOK
    <2>5. CASE Start(x) \/ RunRefused(x) \/ RunQueued(x) \/ RunEof(x)
               \/ FinishReaped(x) \/ FinishKill(x)
      BY <1>0, <2>5 DEF Start, RunRefused, RunQueued, RunEof, FinishReaped,
                        FinishKill, daemonVars, TypeOK
    <2>6. CASE CommitWrite(x)
      BY <1>0, <2>6 DEF CommitWrite, Commit, update_status, daemonVars, TypeOK, LostSettled
    <2>7. CASE ~Submit(x) /\ ~TaskStep(x) /\ ~CommitWrite(x)
      BY <1>0, <1>4, <2>7 DEF RunStep, RunEvent, cancel, ChildExit, ChildMute,
                              RunStopped, daemonVars, TypeOK
    <2>8. CASE TaskStep(x)
      BY <2>2, <2>3, <2>4, <2>5, <2>8 DEF TaskStep
    <2> QED
      BY <2>1, <2>6, <2>7, <2>8
  <1> QED
    BY <1>1, <1>2, <1>3, <1>4 DEF Next, DaemonStep, LostSettled

\* Whenever the daemon serves, no run that an earlier process took down with it
\* still has a queued or running row, however often it goes down.
THEOREM NoStaleRow == Spec => []NoStaleRowAfterBoot
  <1>1. Init => LostSettled
    BY DEF Init, LostSettled
  <1>2. LostSettled => NoStaleRowAfterBoot
    BY DEF LostSettled, NoStaleRowAfterBoot
  <1> QED
    BY <1>1, <1>2, LostStep, RunInvariant, PTL DEF Spec
=============================================================================
