---------------------------- MODULE DaemonProofs ----------------------------
(***************************************************************************)
(* What the processes of the daemon promise, for any number of them, any   *)
(* builds and any plans: the schema, the secrets, the order in which       *)
(* components start and stop, the Vector child, the trace of the runs, and  *)
(* the spool.                                                              *)
(***************************************************************************)
EXTENDS Daemon, TLAPS, FiniteSetTheorems

Parts == {"heart", "tick", "brain", "telemetry", "opencode"}

Sides == {"none", "first", "second", "held", "stopping"}

\* What each variable holds; a function of processes is known by its values.
DaemonTypes ==
  /\ plan \in Plans /\ faults \in Nat /\ signals \in Nat
  /\ pc \in [Procs -> Others \cup Uvicorn]
  /\ conf = [p \in Procs |-> conf[p]]
  /\ built \in [Procs -> SUBSET Parts]
  /\ up \in [Procs -> SUBSET (Parts \cup {"database"})]
  /\ told \in [Procs -> 0..2]
  /\ hooked \in [Procs -> BOOLEAN]
  /\ side \in [Procs -> Sides]
  /\ seen \in [Procs -> SUBSET Nat]
  /\ alone \in [Procs -> BOOLEAN]
  /\ writer \in Procs \cup {Free} /\ port \in Procs \cup {Free}

\* A process lives with settings that load, and what it has built they ask for.
ConfInv(p) ==
  /\ pc[p] = "off" => conf[p] = Default
  /\ pc[p] # "off" => /\ plan.source[p] # NoLaunch
                      /\ Loads(plan.source[p])
                      /\ conf[p] = Merged(plan.source[p])

BuiltInv(p) ==
  /\ pc[p] \in {"off", "create"} => built[p] = {} /\ up[p] = {} /\ seen[p] = {}
  /\ "tick" \in built[p] => "heart" \in built[p]
  /\ "opencode" \in built[p] => "telemetry" \in built[p]

\* Where the Brain's client is open, the database is, a part has not begun or has ceased.
Branded  == {"dev", "watch", "hook"} \cup Startup
              \cup Serving \cup {"stopTelemetry", "stopTick", "unloadHeart", "closeBrain"}
Opened   == (Startup \ {"connect"}) \cup Shutdown \cup Serving
Bound    == {"bind", "serve", "drain"}
Untold   == {"dev", "watch", "hook", "connect", "read", "migrate", "script", "commit",
             "guard", "heart", "tick", "telemetry", "opencode", "bind"}
Unticked == (Untold \ {"telemetry", "opencode", "bind"})
              \cup {"unloadHeart", "closeBrain", "stopOpencode", "closeDatabase"}
Unrun    == Untold \ {"bind"}

UpInv(p) ==
  /\ up[p] \subseteq built[p] \cup {"database"}
  /\ pc[p] \in Branded => {"brain"} \cap built[p] \subseteq up[p]
  /\ pc[p] \in Opened => "database" \in up[p]
  /\ pc[p] \in {"tick", "telemetry", "opencode"} \cup Bound =>
       {"heart"} \cap built[p] \subseteq up[p]
  /\ pc[p] \in {"telemetry", "opencode"} \cup Bound => {"tick"} \cap built[p] \subseteq up[p]
  /\ pc[p] \in {"opencode"} \cup Bound => {"telemetry"} \cap built[p] \subseteq up[p]
  /\ pc[p] \in Bound => {"opencode"} \cap built[p] \subseteq up[p]
  /\ pc[p] \in Unticked => "tick" \notin up[p]
  /\ pc[p] \in Unrun => "opencode" \notin up[p]
  /\ "tick" \in up[p] => {"heart", "database"} \cup ({"brain"} \cap built[p]) \subseteq up[p]
  /\ "opencode" \in up[p] /\ pc[p] \notin {"leave", "reap"} => "database" \in up[p]

\* The Vector child, from its spawn to the step that lets go of its handle.
SideInv(p) ==
  /\ pc[p] \in {"create", "dev"} => side[p] = "none"
  /\ pc[p] \in {"hook", "leave"} \cup Uvicorn => side[p] \in {"none", "held"}
  /\ pc[p] \in {"leave"} \cup Uvicorn /\ side[p] = "held" => hooked[p]

LockInv(p) ==
  /\ (writer = p) <=> pc[p] \in {"script", "commit"}
  /\ (port = p) <=> pc[p] = "serve"

\* Requests come while a process serves, and seal secrets with its key.
RequestInv ==
  /\ busy \in [Procs -> BOOLEAN] /\ \A p \in Procs : busy[p] => pc[p] \in Serving
  /\ DOMAIN secret = Users
  /\ \A u \in Enrolled : secret[u] \in KeysOf(plan)

\* The versions a process knows are the first so many of those that have run.
SchemaInv ==
  /\ ran \in Seq(Nat) /\ MigratedOnce
  /\ \A p \in Procs : \E c \in 0..Len(ran) :
        seen[p] = 1..c /\ (pc[p] = "commit" => c = Len(ran))

Ready == {"heart", "tick", "telemetry", "opencode", "bind", "serve", "drain"}

\* What the database is to a process that has it for itself.
Undisturbed(p) ==
  /\ pc[p] \in {"migrate", "script", "commit"} =>
       seen[p] = recorded /\ Contiguous(Bundled[p]) /\ Len(ran) <= Cardinality(Bundled[p])
  /\ pc[p] \in {"script", "commit"} => Len(ran) < Cardinality(Bundled[p])
  /\ pc[p] \in {"guard"} \cup Ready => Len(ran) = Cardinality(Bundled[p])
  /\ pc[p] \in Ready /\ Enrolled # {} => conf[p].key # None

AloneInv(p) ==
  alone[p] /\ pc[p] # "off" =>
    (\A o \in Procs \ {p} : pc[o] = "off") /\ Undisturbed(p)

DaemonInv ==
  /\ DaemonTypes /\ SchemaInv /\ RequestInv
  /\ \A p \in Procs : /\ ConfInv(p) /\ BuiltInv(p) /\ UpInv(p) /\ SideInv(p)
                      /\ LockInv(p) /\ AloneInv(p)

\* The counter of a run is the number of its lines, until its last.
LinesOf(r) == {l \in trace : l.run = r /\ ~l.late}

RunInv(r) ==
  LET n == Cardinality(LinesOf(r)) IN
  /\ {l.seq : l \in LinesOf(r)} = 0..(n - 1)
  /\ status[r] = "none" => r \notin DOMAIN counters /\ \A l \in trace : l.run # r
  /\ status[r] \in {"queued", "running"} =>
       /\ r \in DOMAIN counters /\ counters[r] = n
       /\ \A l \in trace : l.run = r => l.event # "terminal" /\ ~l.late

TraceInv ==
  /\ IsFiniteSet(trace)
  /\ status \in [Runs -> {"none", "queued", "running", "ended"}]
  /\ DOMAIN counters \subseteq Runs
  /\ EndedAreForgotten
  /\ \A r \in Runs : RunInv(r)

-----------------------------------------------------------------------------
(* The settings of a launch                                                *)

(* Settings that load give every field a value and nothing else.           *)
LEMMA SettingsLoad ==
  ASSUME NEW source, Loads(source)
  PROVE  DOMAIN Merged(source) = Fields
<1> DEFINE unions == [s3Given   |-> Leaves(source, "s3Given"),
                      oidcGiven |-> Leaves(source, "oidcGiven")]
           inner == Over(source.toml, Default)
           middle == Over(source.env, inner)
           outer == Over(Flag(source), middle)
<1>1. DOMAIN unions = {"s3Given", "oidcGiven"}
  OBVIOUS
<1>2. DOMAIN Flag(source) \subseteq {"dev"}
  <2>1. CASE source.flag
    BY <2>1 DEF Flag
  <2>2. CASE ~source.flag
    BY <2>2 DEF Flag
  <2>3. QED
    BY <2>1, <2>2
<1>3. DOMAIN source.env \cup DOMAIN source.toml \subseteq DOMAIN Default
  BY DEF Loads, NothingUnknown, Fields
<1>4. {"s3Given", "oidcGiven", "dev"} \subseteq DOMAIN Default
  <2> DEFINE dev == Over(DevSection, OpencodeSection)
             telemetry == Over(TelemetrySection, dev)
             brain == Over(BrainSection, telemetry)
             heart == Over(HeartSection, brain)
             security == Over(SecuritySection, heart)
  <2>1. Default = Over(ServerSection, security)
    BY DEF Default
  <2>2. /\ DOMAIN DevSection = {"dev"} /\ "s3Given" \in DOMAIN TelemetrySection
        /\ "oidcGiven" \in DOMAIN SecuritySection
    BY DEF DevSection, TelemetrySection, SecuritySection
  <2>3. "dev" \in DOMAIN dev
    BY <2>2 DEF Over
  <2> HIDE DEF dev
  <2>4. {"dev", "s3Given"} \subseteq DOMAIN telemetry
    BY <2>2, <2>3 DEF Over
  <2> HIDE DEF telemetry
  <2>5. {"dev", "s3Given"} \subseteq DOMAIN heart
    BY <2>4 DEF Over
  <2> HIDE DEF heart
  <2>6. {"dev", "s3Given", "oidcGiven"} \subseteq DOMAIN security
    BY <2>2, <2>5 DEF Over
  <2> HIDE DEF security
  <2>7. QED
    BY <2>1, <2>6 DEF Over
<1>5. Merged(source) = Over(unions, outer)
  BY DEF Merged
<1> HIDE DEF unions
<1>6. DOMAIN inner = DOMAIN Default
  BY <1>3 DEF Over
<1> HIDE DEF inner
<1>7. DOMAIN middle = DOMAIN Default
  BY <1>3, <1>6 DEF Over
<1> HIDE DEF middle
<1>8. DOMAIN outer = DOMAIN Default
  BY <1>2, <1>4, <1>7 DEF Over
<1> HIDE DEF outer
<1>9. QED
  BY <1>1, <1>4, <1>5, <1>8 DEF Over, Fields

-----------------------------------------------------------------------------
(* What one step does                                                      *)

(* The steps of a process that is past create_app and goes on: nothing of  *)
(* what it was built from changes.                                         *)
Moves(p) ==
  /\ pc[p] \notin {"off", "create"}
  /\ pc' = [pc EXCEPT ![p] = pc'[p]] /\ pc'[p] \in Uvicorn \cup {"watch", "hook", "leave", "reap"}
  /\ UNCHANGED <<plan, conf, built, alone>>

\* A step that leaves where every process is, and what it holds, alone.
Stays ==
  UNCHANGED <<plan, pc, conf, built, up, hooked, side, seen, alone,
              ran, recorded, writer, port>>

LEMMA EndTypes ==
  ASSUME DaemonTypes, NEW p \in Procs, End(p),
         plan' = plan, side' \in [Procs -> Sides], faults' \in Nat, signals' \in Nat
  PROVE  DaemonTypes'
<1>1. /\ pc' \in [Procs -> Others \cup Uvicorn]
      /\ built' \in [Procs -> SUBSET Parts]
      /\ up' \in [Procs -> SUBSET (Parts \cup {"database"})]
      /\ told' \in [Procs -> 0..2]
      /\ hooked' \in [Procs -> BOOLEAN]
      /\ seen' \in [Procs -> SUBSET Nat]
      /\ alone' \in [Procs -> BOOLEAN]
  BY DEF DaemonTypes, End, Goto, Others
<1>2. conf' = [q \in Procs |-> conf'[q]]
  BY DEF DaemonTypes, End
<1>3. writer' \in Procs \cup {Free} /\ port' \in Procs \cup {Free}
  BY DEF DaemonTypes, End
<1>4. QED
  BY <1>1, <1>2, <1>3 DEF DaemonTypes

(* A step that moves a process, and what it may have changed of it.        *)
LEMMA MoveTypes ==
  ASSUME DaemonTypes, NEW p \in Procs, Moves(p),
         up' \in [Procs -> SUBSET (Parts \cup {"database"})],
         told' \in [Procs -> 0..2], hooked' \in [Procs -> BOOLEAN], side' \in [Procs -> Sides],
         seen' \in [Procs -> SUBSET Nat], writer' \in Procs \cup {Free}, port' \in Procs \cup {Free},
         faults' \in Nat, signals' \in Nat
  PROVE  DaemonTypes'
<1>1. pc' \in [Procs -> Others \cup Uvicorn]
  BY DEF DaemonTypes, Moves, Others
<1>2. conf' = [q \in Procs |-> conf'[q]]
  BY DEF DaemonTypes, Moves
<1>3. QED
  BY <1>1, <1>2 DEF DaemonTypes, Moves

\* What one process's own step keeps of it.
Own(p) == BuiltInv(p) /\ UpInv(p) /\ SideInv(p)

\* The step is of another process than q.
Alike(q) == UNCHANGED <<plan, pc[q], conf[q], built[q], up[q], hooked[q], side[q], seen[q]>>

\* The step is one of p's, and p is as it should be after it.
Moved(p) == Moves(p) /\ DaemonTypes' /\ Own(p)'

LEMMA DevMoves ==
  ASSUME DaemonTypes, NEW p \in Procs, Own(p),
         \/ SkipVector(p) \/ SpawnVector(p) \/ VectorLives(p) \/ VectorDies(p) \/ InstallHook(p)
  PROVE  Moved(p) /\ \A q \in Procs \ {p} : Alike(q)
<1>1. Moves(p)
  BY DEF Moves, SkipVector, SpawnVector, VectorLives, VectorDies, InstallHook, Goto, DaemonTypes,
         madeVars, storeVars, hostVars, Uvicorn, Startup, Serving
<1>2. /\ up' = up /\ told' = told /\ seen' = seen /\ writer' = writer /\ port' = port
      /\ faults' = faults /\ signals' = signals
      /\ side' = [side EXCEPT ![p] = side'[p]] /\ side'[p] \in Sides
      /\ hooked' = [hooked EXCEPT ![p] = hooked'[p]] /\ hooked'[p] \in BOOLEAN
  BY DEF SkipVector, SpawnVector, VectorLives, VectorDies, InstallHook, DaemonTypes,
         storeVars, hostVars, Sides
<1>3. DaemonTypes'
  <2>1. hooked' \in [Procs -> BOOLEAN] /\ side' \in [Procs -> Sides]
    BY <1>2 DEF DaemonTypes
  <2>2. QED
    BY <1>1, <1>2, <2>1, MoveTypes DEF DaemonTypes
<1>4. BuiltInv(p)'
  BY <1>1, <1>2 DEF Own, BuiltInv, Moves, Uvicorn, Startup, Serving, Shutdown
<1>5. UpInv(p)'
  <2>1. pc[p] \in {"dev", "watch", "hook"} /\ pc'[p] \in {"watch", "hook", "connect"}
    BY <1>1 DEF SkipVector, SpawnVector, VectorLives, VectorDies, InstallHook, Goto, DaemonTypes
  <2>2. {"brain"} \cap built[p] \subseteq up[p]
    BY <2>1 DEF Own, UpInv, Bound, Branded
  <2>3. "tick" \notin up[p] /\ "opencode" \notin up[p]
    BY <2>1 DEF Own, UpInv, Bound, Unticked, Unrun, Untold
  <2>4. pc'[p] \notin Opened
    BY <2>1 DEF Opened, Startup, Serving, Shutdown
  <2>5. QED
    BY <1>1, <1>2, <2>1, <2>2, <2>3, <2>4 DEF Own, UpInv, Bound, Moves
<1>6. SideInv(p)'
  BY <1>1, <1>2 DEF Own, SideInv, SkipVector, SpawnVector, VectorLives, VectorDies, InstallHook,
     Goto,
     DaemonTypes, Uvicorn, Startup, Serving, Shutdown
<1>7. QED
  BY <1>1, <1>2, <1>3, <1>4, <1>5, <1>6 DEF Moved, Moves, Alike, Own, DaemonTypes

(* The startup from the connection to the bind, up to the components.      *)
LEMMA StoreMoves ==
  ASSUME DaemonTypes, NEW p \in Procs, Own(p),
         \/ Connect(p) \/ ReadVersions(p) \/ BeginMigration(p) \/ RunScript(p)
         \/ CommitMigration(p) \/ Migrated(p) \/ EnsureKey(p) \/ Bind(p)
         \/ Drain(p) \/ Drained(p) \/ ForceExit(p) \/ AbandonRuns(p),
         seen' \in [Procs -> SUBSET Nat]
  PROVE  Moved(p) /\ \A q \in Procs \ {p} : Alike(q)
<1>1. Moves(p)
  BY DEF Moves, Connect, ReadVersions, BeginMigration, RunScript, CommitMigration, Migrated,
         EnsureKey, Bind, Drain, Drained, ForceExit, AbandonRuns, Goto, DaemonTypes, madeVars,
         storeVars, hostVars, Uvicorn, Startup, Serving,
         Shutdown
<1>2. /\ told' = told /\ side' = side /\ hooked' = hooked
      /\ writer' \in Procs \cup {Free} /\ port' \in Procs \cup {Free}
      /\ faults' = faults /\ signals' = signals
  BY DEF Connect, ReadVersions, BeginMigration, RunScript, CommitMigration, Migrated,
         EnsureKey, Bind, Drain, Drained, ForceExit, AbandonRuns, DaemonTypes, storeVars, hostVars
<1>3. up' = [up EXCEPT ![p] = up'[p]] /\ up'[p] = (IF Connect(p) THEN up[p] \cup {"database"} ELSE up[p])
  BY DEF Connect, ReadVersions, BeginMigration, RunScript, CommitMigration, Migrated,
         EnsureKey, Bind, Drain, Drained, ForceExit, AbandonRuns, DaemonTypes
<1>4. DaemonTypes'
  <2>1. up' \in [Procs -> SUBSET (Parts \cup {"database"})]
    BY <1>3 DEF DaemonTypes
  <2>2. QED
    BY <1>1, <1>2, <2>1, MoveTypes DEF DaemonTypes
<1>5. BuiltInv(p)'
  BY <1>1 DEF Own, BuiltInv, Moves, DaemonTypes, Uvicorn, Startup, Serving, Shutdown
<1>6. SideInv(p)'
  BY <1>1, <1>2 DEF Own, SideInv, Moves, Connect, ReadVersions, BeginMigration, RunScript,
     CommitMigration, Migrated, EnsureKey, Bind, Drain, Drained, ForceExit, AbandonRuns,
     DaemonTypes, Uvicorn, Startup, Serving, Shutdown
<1>7. UpInv(p)'
  <2>1. built' = built /\ pc'[p] \notin {"opencode"}
    BY <1>1 DEF Moves, Connect, ReadVersions, BeginMigration, RunScript, CommitMigration, Migrated,
         EnsureKey, Bind, Drain, Drained, ForceExit, AbandonRuns, Goto, DaemonTypes
  <2>2. CASE Connect(p)
    <3>1. pc[p] = "connect" /\ pc'[p] = "read" /\ up'[p] = up[p] \cup {"database"}
      BY <1>3, <2>2 DEF Connect, Goto, DaemonTypes
    <3>2. {"brain"} \cap built[p] \subseteq up[p] /\ "tick" \notin up[p] /\ "opencode" \notin up[p]
      BY <3>1 DEF Own, UpInv, Bound, Branded, Unticked, Unrun, Untold, Startup
    <3>3. QED
      BY <2>1, <3>1, <3>2 DEF Own, UpInv, Bound
  <2>3. CASE ~Connect(p)
    <3>1. up'[p] = up[p]
      BY <1>3, <2>3
    <3>2. \/ /\ pc[p] \in {"read", "migrate", "script", "commit", "guard"}
             /\ pc'[p] \in {"migrate", "script", "commit", "guard", "heart", "leave"}
          \/ pc[p] \in Bound /\ pc'[p] \in {"serve", "drain", "stopTelemetry", "leave"}
          \/ pc[p] = "stopOpencode" /\ pc'[p] = "closeDatabase"
      BY <2>3 DEF ReadVersions, BeginMigration, RunScript, CommitMigration, Migrated,
         EnsureKey, Bind, Drain, Drained, ForceExit, AbandonRuns, Goto, DaemonTypes, Bound
    <3>3. /\ "database" \in up[p]
          /\ pc[p] # "stopOpencode" => {"brain"} \cap built[p] \subseteq up[p]
      BY <3>2 DEF Own, UpInv, Bound, Branded, Opened, Startup, Serving, Shutdown
    <3>4. CASE /\ pc[p] \in {"read", "migrate", "script", "commit", "guard"}
               /\ pc'[p] \in {"migrate", "script", "commit", "guard", "heart", "leave"}
      <4>1. "tick" \notin up[p] /\ "opencode" \notin up[p]
        BY <3>4 DEF Own, UpInv, Bound, Unticked, Unrun, Untold
      <4>2. QED
        BY <2>1, <3>1, <3>3, <3>4, <4>1 DEF Own, UpInv, Bound
    <3>5. CASE pc[p] \in Bound /\ pc'[p] \in {"serve", "drain", "stopTelemetry", "leave"}
      <4>1. {"heart", "tick", "telemetry", "opencode"} \cap built[p] \subseteq up[p]
        BY <3>5 DEF Own, UpInv, Bound
      <4>2. pc'[p] \notin Unticked /\ pc'[p] \notin Unrun /\ pc[p] # "stopOpencode"
        BY <3>5 DEF Unticked, Unrun, Untold, Bound
      <4>3. pc[p] \notin {"leave", "reap"}
        BY <3>5 DEF Bound
      <4>4. QED
        BY <2>1, <3>1, <3>3, <3>5, <4>1, <4>2, <4>3 DEF Own, UpInv, Bound
    <3>6. CASE pc[p] = "stopOpencode" /\ pc'[p] = "closeDatabase"
      <4>1. "tick" \notin up[p]
        BY <3>6 DEF Own, UpInv, Bound, Unticked
      <4>2. pc'[p] \notin Branded /\ pc'[p] \notin Unrun
        BY <3>6 DEF Branded, Unrun, Untold, Startup, Serving
      <4>3. QED
        BY <2>1, <3>1, <3>3, <3>6, <4>1, <4>2 DEF Own, UpInv, Bound
    <3>7. QED
      BY <3>2, <3>4, <3>5, <3>6
  <2>4. QED
    BY <2>2, <2>3
<1>8. QED
  <2>1. \A q \in Procs \ {p} : seen'[q] = seen[q]
    BY DEF Connect, ReadVersions, BeginMigration, RunScript, CommitMigration, Migrated,
           EnsureKey, Bind, Drain, Drained, ForceExit, AbandonRuns, DaemonTypes
  <2>2. QED
    BY <1>1, <1>2, <1>3, <1>4, <1>5, <1>6, <1>7, <2>1 DEF Moved, Moves, Alike, Own, DaemonTypes

(* The components, started one after the other.                            *)
LEMMA PartMoves ==
  ASSUME DaemonTypes, NEW p \in Procs, Own(p),
         \/ LoadHeart(p) \/ StartTick(p) \/ StartTelemetry(p) \/ SweepRuns(p)
  PROVE  Moved(p) /\ \A q \in Procs \ {p} : Alike(q)
<1>1. PICK x \in Parts, next \in {"tick", "telemetry", "opencode", "bind"} :
        /\ Begin(p, pc[p], x, next)
        /\ \/ pc[p] = "heart" /\ x = "heart" /\ next = "tick"
           \/ pc[p] = "tick" /\ x = "tick" /\ next = "telemetry"
           \/ pc[p] = "telemetry" /\ x = "telemetry" /\ next = "opencode"
           \/ pc[p] = "opencode" /\ x = "opencode" /\ next = "bind"
  BY DEF LoadHeart, StartTick, StartTelemetry, SweepRuns, Begin, Parts
<1>2. Moves(p) /\ pc'[p] = next
  BY <1>1 DEF Begin, Moves, Goto, DaemonTypes, madeVars, storeVars, hostVars, Uvicorn, Startup,
     Serving
<1>3. /\ told' = told /\ side' = side /\ hooked' = hooked /\ seen' = seen
      /\ writer' = writer /\ port' = port /\ faults' = faults /\ signals' = signals
      /\ up' = [up EXCEPT ![p] = up'[p]] /\ up'[p] = up[p] \cup ({x} \cap built[p])
  BY <1>1 DEF Begin, DaemonTypes, storeVars, hostVars
<1>4. DaemonTypes'
  <2>1. up' \in [Procs -> SUBSET (Parts \cup {"database"})]
    BY <1>3 DEF DaemonTypes
  <2>2. QED
    BY <1>2, <1>3, <2>1, MoveTypes DEF DaemonTypes
<1>5. BuiltInv(p)'
  BY <1>2 DEF Own, BuiltInv, Moves
<1>6. SideInv(p)'
  BY <1>1, <1>2, <1>3 DEF Own, SideInv, Uvicorn, Startup, Serving
<1>7. UpInv(p)'
  <2>1. "database" \in up[p] /\ {"brain"} \cap built[p] \subseteq up[p]
    BY <1>1 DEF Own, UpInv, Bound, Branded, Opened, Startup, Serving
  <2>2. "tick" \in built[p] => "heart" \in built[p]
    BY DEF Own, BuiltInv
  <2>3. built' = built
    BY <1>2 DEF Moves
  <2>4. CASE pc[p] \in {"heart", "tick"}
    <3>1. "tick" \notin up[p] /\ "opencode" \notin up[p]
      BY <2>4 DEF Own, UpInv, Bound, Unticked, Unrun, Untold
    <3>2. CASE pc[p] = "heart"
      BY <1>1, <1>2, <1>3, <2>1, <2>3, <3>1, <3>2 DEF Own, UpInv, Bound
    <3>3. CASE pc[p] = "tick"
      <4>1. {"heart"} \cap built[p] \subseteq up[p] /\ pc'[p] = "telemetry" /\ x = "tick"
        BY <1>1, <1>2, <3>3 DEF Own, UpInv, Bound
      <4>2. pc'[p] \notin Unticked
        BY <4>1 DEF Unticked, Untold
      <4>3. QED
        BY <1>3, <2>1, <2>2, <2>3, <3>1, <4>1, <4>2 DEF Own, UpInv, Bound
    <3>4. QED
      BY <2>4, <3>2, <3>3
  <2>5. CASE pc[p] = "telemetry"
    <3>1. /\ "opencode" \notin up[p] /\ pc'[p] = "opencode" /\ x = "telemetry"
          /\ {"heart", "tick"} \cap built[p] \subseteq up[p]
      BY <1>1, <1>2, <2>5 DEF Own, UpInv, Bound, Unrun, Untold
    <3>2. pc'[p] \notin Unticked
      BY <3>1 DEF Unticked, Untold
    <3>3. QED
      BY <1>3, <2>1, <2>3, <3>1, <3>2 DEF Own, UpInv, Bound
  <2>6. CASE pc[p] = "opencode"
    <3>1. /\ pc'[p] = "bind" /\ x = "opencode"
          /\ {"heart", "tick", "telemetry"} \cap built[p] \subseteq up[p]
      BY <1>1, <1>2, <2>6 DEF Own, UpInv, Bound
    <3>2. pc'[p] \notin Unticked /\ pc'[p] \notin Unrun
      BY <3>1 DEF Unticked, Unrun, Untold
    <3>3. QED
      BY <1>3, <2>1, <2>3, <3>1, <3>2 DEF Own, UpInv, Bound
  <2>7. QED
    BY <1>1, <2>4, <2>5, <2>6
<1>8. QED
  BY <1>2, <1>3, <1>4, <1>5, <1>6, <1>7 DEF Moved, Moves, Alike, Own, DaemonTypes

(* The components, stopped one after the other.                            *)
LEMMA CeaseMoves ==
  ASSUME DaemonTypes, NEW p \in Procs, Own(p),
         \/ StopTelemetry(p) \/ StopTick(p) \/ UnloadHeart(p) \/ CloseBrain(p)
         \/ StopOpencode(p) \/ CloseDatabase(p)
  PROVE  Moved(p) /\ \A q \in Procs \ {p} : Alike(q)
<1>1. PICK x \in Parts \cup {"database"}, next \in Shutdown \cup {"leave"} :
        /\ Cease(p, pc[p], x, next) /\ pc[p] \in Shutdown
        /\ \/ pc[p] = "stopTelemetry" /\ x = "telemetry" /\ next = "stopTick"
           \/ pc[p] = "stopTick" /\ x = "tick" /\ next = "unloadHeart"
           \/ pc[p] = "unloadHeart" /\ x = "heart" /\ next = "closeBrain"
           \/ pc[p] = "closeBrain" /\ x = "brain" /\ next = "stopOpencode"
           \/ pc[p] = "stopOpencode" /\ x = "opencode" /\ next = "closeDatabase"
           \/ pc[p] = "closeDatabase" /\ x = "database" /\ next = "leave"
  BY DEF StopTelemetry, StopTick, UnloadHeart, CloseBrain, StopOpencode, CloseDatabase, Cease,
         Parts, Shutdown
<1>2. Moves(p) /\ pc'[p] = next
  BY <1>1 DEF Cease, Moves, Goto, DaemonTypes, madeVars, storeVars, hostVars, Uvicorn, Shutdown
<1>3. /\ told' = told /\ side' = side /\ hooked' = hooked /\ seen' = seen
      /\ writer' = writer /\ port' = port /\ faults' = faults /\ signals' = signals
      /\ up' = [up EXCEPT ![p] = up'[p]] /\ up'[p] = up[p] \ {x}
  BY <1>1 DEF Cease, DaemonTypes, storeVars, hostVars
<1>4. DaemonTypes'
  <2>1. up' \in [Procs -> SUBSET (Parts \cup {"database"})]
    BY <1>3 DEF DaemonTypes
  <2>2. QED
    BY <1>2, <1>3, <2>1, MoveTypes DEF DaemonTypes
<1>5. BuiltInv(p)'
  BY <1>2 DEF Own, BuiltInv, Moves, Uvicorn, Startup, Serving, Shutdown
<1>6. SideInv(p)'
  BY <1>1, <1>2, <1>3 DEF Own, SideInv, Uvicorn, Startup, Serving, Shutdown
<1>7. UpInv(p)'
  <2>1. "database" \in up[p] /\ built' = built
    BY <1>1, <1>2 DEF Own, UpInv, Bound, Opened, Moves
  <2>2. pc[p] \in {"unloadHeart", "closeBrain", "stopOpencode", "closeDatabase"} => "tick" \notin up[p]
    BY DEF Own, UpInv, Bound, Unticked
  <2>3. pc[p] \in {"stopTelemetry", "stopTick", "unloadHeart"} => {"brain"} \cap built[p] \subseteq up[p]
    BY DEF Own, UpInv, Bound, Branded
  <2>4. CASE pc[p] = "stopTelemetry"
    <3>1. next = "stopTick" /\ x = "telemetry"
      BY <1>1, <2>4
    <3>2. next \notin Unticked /\ next \notin Unrun
      BY <3>1 DEF Unticked, Unrun, Untold
    <3>3. QED
      BY <1>2, <1>3, <2>1, <2>3, <2>4, <3>1, <3>2 DEF Own, UpInv, Bound
  <2>5. CASE pc[p] \in {"stopTick", "unloadHeart"}
    <3>1. next \in {"unloadHeart", "closeBrain"} /\ x \in {"tick", "heart"} /\ "tick" \notin up[p] \ {x}
      BY <1>1, <2>2, <2>5
    <3>2. next \notin Unrun
      BY <3>1 DEF Unrun, Untold
    <3>3. QED
      BY <1>2, <1>3, <2>1, <2>3, <2>5, <3>1, <3>2 DEF Own, UpInv, Bound
  <2>6. CASE pc[p] \in {"closeBrain", "stopOpencode"}
    <3>1. next \in {"stopOpencode", "closeDatabase"} /\ x \in {"brain", "opencode"}
          /\ "tick" \notin up[p]
      BY <1>1, <2>2, <2>6
    <3>2. next \notin Branded /\ next \notin Unrun
      BY <3>1 DEF Branded, Startup, Serving, Unrun, Untold
    <3>3. QED
      BY <1>2, <1>3, <2>1, <3>1, <3>2 DEF Own, UpInv, Bound
  <2>7. CASE pc[p] = "closeDatabase"
    <3>1. next = "leave" /\ x = "database" /\ "tick" \notin up[p]
      BY <1>1, <2>2, <2>7
    <3>2. next \notin Branded /\ next \notin Opened /\ next \notin Unrun
      BY <3>1 DEF Branded, Opened, Unrun, Untold, Startup, Serving, Shutdown
    <3>3. QED
      BY <1>2, <1>3, <2>1, <3>1, <3>2 DEF Own, UpInv, Bound
  <2>8. QED
    BY <1>1, <2>4, <2>5, <2>6, <2>7
<1>8. QED
  BY <1>2, <1>3, <1>4, <1>5, <1>6, <1>7 DEF Moved, Moves, Alike, Own, DaemonTypes

(* What raises in the startup or the shutdown, a signal uvicorn catches,   *)
(* and the child of dev mode that is let go of.                            *)
LEMMA OtherMoves ==
  ASSUME DaemonTypes, NEW p \in Procs, Own(p),
         \/ Fail(p) /\ pc[p] # "create"
         \/ Signal(p) /\ pc[p] \in Uvicorn
         \/ Leave(p) /\ hooked[p] /\ side[p] = "held"
  PROVE  Moved(p) /\ \A q \in Procs \ {p} : Alike(q)
<1>1. pc[p] \in Uvicorn \cup {"leave"}
  BY DEF Fail, Leave, Uvicorn
<1>2. Uvicorn \cap {"off", "create", "dev", "watch", "hook", "leave", "reap"} = {}
  BY DEF Uvicorn, Startup, Serving, Shutdown
<1>3. /\ pc' = [pc EXCEPT ![p] = pc'[p]]
      /\ pc'[p] \in {"leave", "reap"} \/ (pc'[p] = pc[p] /\ Signal(p))
      /\ UNCHANGED <<plan, conf, built, alone, up, seen, hooked>>
  <2>1. CASE Fail(p) /\ pc[p] # "create"
    <3>1. pc' = [pc EXCEPT ![p] = "leave"]
      BY <2>1 DEF Fail, Goto
    <3>2. UNCHANGED <<plan, conf, built, alone, up, seen, hooked>>
      BY <2>1 DEF Fail, madeVars
    <3>3. QED
      BY <3>1, <3>2 DEF DaemonTypes
  <2>2. CASE Signal(p) /\ pc[p] \in Uvicorn
    <3>1. pc' = pc /\ UNCHANGED <<plan, conf, built, alone, up, seen, hooked>>
      BY <1>2, <2>2 DEF Signal, madeVars, storeVars
    <3>2. QED
      BY <2>2, <3>1 DEF DaemonTypes
  <2>3. CASE Leave(p) /\ hooked[p] /\ side[p] = "held"
    <3>1. pc' = [pc EXCEPT ![p] = "reap"]
      BY <2>3 DEF Leave, Goto
    <3>2. UNCHANGED <<plan, conf, built, alone, up, seen, hooked>>
      BY <2>3 DEF Leave, madeVars, storeVars, hostVars
    <3>3. QED
      BY <3>1, <3>2 DEF DaemonTypes
  <2>4. QED
    BY <2>1, <2>2, <2>3
<1>4. Moves(p)
  BY <1>1, <1>2, <1>3 DEF Moves, Signal
<1>5. /\ faults' \in Nat /\ signals' \in Nat
      /\ writer' \in Procs \cup {Free} /\ port' \in Procs \cup {Free}
      /\ told' \in [Procs -> 0..2]
  <2>1. faults' \in Nat /\ signals' \in Nat
    BY DEF Fail, Signal, Leave, DaemonTypes, hostVars
  <2>2. writer' \in Procs \cup {Free} /\ port' \in Procs \cup {Free}
    BY <1>1, <1>2 DEF Fail, Signal, Leave, DaemonTypes, storeVars
  <2>3. told' \in [Procs -> 0..2]
    <3>1. told' = told \/ (told[p] < 2 /\ told' = [told EXCEPT ![p] = @ + 1])
      BY <1>1, <1>2 DEF Fail, Signal, Leave
    <3>2. told[p] \in 0..2
      BY DEF DaemonTypes
    <3>3. QED
      BY <3>1, <3>2 DEF DaemonTypes
  <2>4. QED
    BY <2>1, <2>2, <2>3
<1>6. /\ side' = [side EXCEPT ![p] = side'[p]] /\ side'[p] \in Sides
      /\ side'[p] = side[p] \/ pc'[p] = "reap"
  BY <1>1, <1>2 DEF Fail, Signal, Leave, Goto, DaemonTypes, Sides
<1>7. DaemonTypes'
  <2>1. side' \in [Procs -> Sides]
    BY <1>6 DEF DaemonTypes
  <2>2. QED
    BY <1>3, <1>4, <1>5, <2>1, MoveTypes DEF DaemonTypes
<1>8. BuiltInv(p)'
  BY <1>1, <1>2, <1>3 DEF Own, BuiltInv, Signal
<1>9. UpInv(p)'
  <2>1. CASE pc'[p] \in {"leave", "reap"}
    <3>1. pc'[p] \notin Branded \cup Opened \cup Unticked \cup Unrun
      BY <2>1 DEF Branded, Opened, Unticked, Unrun, Untold, Startup, Serving, Shutdown
    <3>2. QED
      BY <1>3, <2>1, <3>1 DEF Own, UpInv, Bound
  <2>2. CASE pc'[p] = pc[p]
    BY <1>3, <2>2 DEF Own, UpInv, Bound
  <2>3. QED
    BY <1>3, <2>1, <2>2
<1>10. SideInv(p)'
  BY <1>1, <1>2, <1>3, <1>6 DEF Own, SideInv
<1>11. QED
  BY <1>3, <1>4, <1>6, <1>7, <1>8, <1>9, <1>10 DEF Moved, Moves, Alike, Own, DaemonTypes

(* A process that ends, whichever way.                                     *)
Ended(p) ==
  /\ End(p) /\ pc[p] # "off" /\ DaemonTypes' /\ plan' = plan
  /\ \A q \in Procs \ {p} : side'[q] = side[q]

LEMMA EndSound ==
  ASSUME DaemonTypes, NEW p \in Procs, Ended(p)
  PROVE  pc'[p] = "off" /\ conf'[p] = Default /\ Own(p)' /\ \A q \in Procs \ {p} : Alike(q)
<1>1. pc'[p] = "off" /\ conf'[p] = Default /\ built'[p] = {} /\ up'[p] = {} /\ seen'[p] = {}
  BY DEF Ended, End, Goto, DaemonTypes
<1>2. Own(p)'
  BY <1>1 DEF Own, BuiltInv, UpInv, Bound, SideInv, Branded, Opened, Unticked, Unrun, Untold,
              Uvicorn, Startup, Serving, Shutdown
<1>3. \A q \in Procs \ {p} : Alike(q)
  BY DEF Alike, Ended, End, Goto, DaemonTypes
<1>4. QED
  BY <1>1, <1>2, <1>3

LEMMA EndsAre ==
  ASSUME DaemonTypes, NEW p \in Procs,
         \/ Leave(p) /\ ~(hooked[p] /\ side[p] = "held")
         \/ Reap(p)
         \/ Fail(p) /\ pc[p] = "create"
         \/ Signal(p) /\ pc[p] \notin Uvicorn
         \/ Kill(p)
  PROVE  Ended(p)
<1>1. End(p) /\ pc[p] # "off" /\ plan' = plan
  BY DEF Leave, Reap, Fail, Signal, Kill, hostVars, Uvicorn, Startup, Serving, Shutdown
<1>2. faults' \in Nat /\ signals' \in Nat
  BY DEF Leave, Reap, Fail, Signal, Kill, hostVars, DaemonTypes
<1>3. side' = side \/ side' = [side EXCEPT ![p] = "none"]
  BY DEF Leave, Reap, Fail, Signal, Kill, Uvicorn, Startup, Serving, Shutdown
<1>4. side' \in [Procs -> Sides] /\ \A q \in Procs \ {p} : side'[q] = side[q]
  BY <1>3 DEF DaemonTypes, Sides
<1>5. QED
  BY <1>1, <1>2, <1>4, EndTypes DEF Ended

(* create_app: an executor is built only together with telemetry.         *)
LEMMA CreateSound ==
  ASSUME DaemonTypes, NEW p \in Procs, Own(p), CreateApp(p)
  PROVE  /\ DaemonTypes' /\ Own(p)' /\ \A q \in Procs \ {p} : Alike(q)
         /\ pc[p] = "create" /\ pc'[p] = "dev" /\ conf' = conf
<1>1. PICK r \in Resolutions : built' = [built EXCEPT ![p] = Components(conf[p], r)]
  BY DEF CreateApp
<1> DEFINE new == Components(conf[p], r)
<1>2. /\ pc[p] = "create" /\ pc' = [pc EXCEPT ![p] = "dev"]
      /\ up' = [up EXCEPT ![p] = {"brain"} \cap built'[p]]
      /\ UNCHANGED <<plan, conf, alone, told, hooked, side, seen, writer, port, faults, signals>>
  BY DEF CreateApp, Goto, hostVars, storeVars
<1>3. /\ new \in SUBSET Parts
      /\ "tick" \in new => "heart" \in new
      /\ "opencode" \in new => "telemetry" \in new
  BY DEF Components, Parts, Preflights
<1> HIDE DEF new
<1>4. /\ built'[p] = new /\ up'[p] = {"brain"} \cap new
      /\ \A q \in Procs \ {p} : built'[q] = built[q] /\ up'[q] = up[q]
  BY <1>1, <1>2 DEF DaemonTypes, new
<1>5. DaemonTypes'
  <2>1. pc' \in [Procs -> Others \cup Uvicorn]
    BY <1>2 DEF DaemonTypes, Others
  <2>2. built' \in [Procs -> SUBSET Parts]
    BY <1>1, <1>3 DEF DaemonTypes, new
  <2>3. up' \in [Procs -> SUBSET (Parts \cup {"database"})]
    BY <1>2, <1>3, <1>4 DEF DaemonTypes
  <2>4. QED
    BY <1>2, <2>1, <2>2, <2>3 DEF DaemonTypes
<1>6. pc'[p] = "dev" /\ \A q \in Procs \ {p} : pc'[q] = pc[q]
  BY <1>2 DEF DaemonTypes
<1>7. BuiltInv(p)'
  BY <1>2, <1>3, <1>4, <1>6 DEF BuiltInv
<1>8. UpInv(p)'
  <2>1. "dev" \notin Opened
    BY DEF Opened, Startup, Serving, Shutdown
  <2>2. "tick" \notin up'[p] /\ "opencode" \notin up'[p]
    BY <1>4
  <2>3. QED
    BY <1>4, <1>6, <2>1, <2>2 DEF UpInv, Bound
<1>9. SideInv(p)'
  BY <1>2, <1>6 DEF Own, SideInv, Uvicorn, Startup, Serving, Shutdown
<1>10. QED
  BY <1>2, <1>4, <1>5, <1>6, <1>7, <1>8, <1>9 DEF Own, Alike

(* main(): a process begins with nothing, or not at all.                   *)
LEMMA LaunchSound ==
  ASSUME DaemonTypes, NEW p \in Procs, Own(p), Launch(p), Loads(plan.source[p])
  PROVE  /\ DaemonTypes' /\ Own(p)' /\ \A q \in Procs \ {p} : Alike(q)
         /\ pc[p] = "off" /\ pc'[p] = "create" /\ plan.source[p] # NoLaunch
         /\ conf'[p] = Merged(plan.source[p])
         /\ alone' = [q \in Procs |-> q = p /\ \A o \in Procs \ {p} : pc[o] = "off"]
<1>1. /\ pc[p] = "off" /\ plan.source[p] # NoLaunch
      /\ pc' = [pc EXCEPT ![p] = "create"]
      /\ conf' = [conf EXCEPT ![p] = Merged(plan.source[p])]
      /\ side' = [side EXCEPT ![p] = "none"]
      /\ alone' = [q \in Procs |-> q = p /\ \A o \in Procs \ {p} : pc[o] = "off"]
      /\ UNCHANGED <<plan, built, up, told, hooked, seen, writer, port, faults, signals>>
  BY DEF Launch, Goto, storeVars
<1>2. conf'[p] = Merged(plan.source[p]) /\ \A q \in Procs \ {p} : conf'[q] = conf[q]
  BY <1>1 DEF DaemonTypes
<1>3. pc'[p] = "create" /\ side'[p] = "none"
      /\ \A q \in Procs \ {p} : pc'[q] = pc[q] /\ side'[q] = side[q]
  BY <1>1 DEF DaemonTypes
<1>4. DaemonTypes'
  <2>1. pc' \in [Procs -> Others \cup Uvicorn] /\ side' \in [Procs -> Sides]
    BY <1>1 DEF DaemonTypes, Others, Sides
  <2>2. conf' = [q \in Procs |-> conf'[q]]
    BY <1>1 DEF DaemonTypes
  <2>3. alone' \in [Procs -> BOOLEAN]
    BY <1>1
  <2>4. QED
    BY <1>1, <2>1, <2>2, <2>3 DEF DaemonTypes
<1>5. built[p] = {} /\ up[p] = {} /\ seen[p] = {}
  BY <1>1 DEF Own, BuiltInv
<1>6. Own(p)'
  BY <1>1, <1>3, <1>5 DEF Own, BuiltInv, UpInv, Bound, SideInv, Branded, Opened, Unticked, Unrun,
     Untold,
              Uvicorn, Startup, Serving, Shutdown
<1>7. QED
  BY <1>1, <1>2, <1>3, <1>4, <1>6 DEF Alike

(* Versions are numbers, and the first c of them are c.                    *)
LEMMA VersionsAre ==
  ASSUME NEW c \in Nat
  PROVE  Cardinality(1..c) = c /\ 1..c \in SUBSET Nat /\ IsFiniteSet(1..c)
<1>1. 1 \in Int /\ c \in Int
  OBVIOUS
<1>2. Cardinality(1..c) = IF 1 > c THEN 0 ELSE c - 1 + 1
  BY <1>1, FS_Interval
<1>3. IsFiniteSet(1..c)
  BY <1>1, FS_Interval
<1>4. QED
  BY <1>2, <1>3

LEMMA SeenIs ==
  ASSUME SchemaInv, NEW p \in Procs
  PROVE  /\ recorded = 1..Len(ran) /\ Len(ran) \in Nat /\ recorded \in SUBSET Nat
         /\ Cardinality(recorded) = Len(ran)
         /\ \E c \in 0..Len(ran) : /\ seen[p] = 1..c /\ Version(p) = c + 1
                                   /\ pc[p] = "commit" => c = Len(ran)
<1>1. recorded = 1..Len(ran) /\ Len(ran) \in Nat
  <2>1. ran \in Seq(Nat) /\ MigratedOnce
    BY DEF SchemaInv
  <2>2. Len(ran) \in Nat
    BY <2>1
  <2>3. recorded = 1..Len(ran)
    BY <2>1 DEF MigratedOnce
  <2>4. QED
    BY <2>2, <2>3
<1>2. PICK c \in 0..Len(ran) : seen[p] = 1..c /\ (pc[p] = "commit" => c = Len(ran))
  BY DEF SchemaInv
<1>3. c \in Nat
  BY <1>1
<1>4. QED
  BY <1>1, <1>2, <1>3, VersionsAre DEF Version

(* Every step is of one of these kinds.                                    *)
LEMMA StepKinds ==
  ASSUME DaemonTypes, SchemaInv, \A p \in Procs : Own(p), Next
  PROVE  \/ \E p \in Procs : Moved(p) /\ \A q \in Procs \ {p} : Alike(q)
         \/ \E p \in Procs : Ended(p)
         \/ \E p \in Procs : CreateApp(p)
         \/ \E p \in Procs : Launch(p) /\ Loads(plan.source[p])
         \/ DaemonTypes' /\ Stays
<1>1. CASE WallClock
  BY <1>1 DEF WallClock, daemonVars, hostVars, storeVars, madeVars, procVars, DaemonTypes, Stays
<1>2. ASSUME NEW p \in Procs, Requests(p) \/ Observe(p)
      PROVE  DaemonTypes' /\ Stays
  BY <1>2 DEF Requests, Accept, Answer, EnrolTotp, DropTotp, Observe, daemonVars, hostVars,
     storeVars, madeVars, procVars,
     DaemonTypes, Stays
<1>3. ASSUME NEW p \in Procs, Launch(p), ~Loads(plan.source[p]) PROVE DaemonTypes' /\ Stays
  BY <1>3 DEF Launch, storeVars, DaemonTypes, Stays
<1>4. ASSUME NEW p \in Procs, ReadVersions(p) \/ CommitMigration(p)
      PROVE  seen' \in [Procs -> SUBSET Nat]
  <2>1. recorded \in SUBSET Nat /\ Version(p) \in Nat
    BY SeenIs
  <2>2. QED
    BY <1>4, <2>1 DEF ReadVersions, CommitMigration, DaemonTypes
<1>5. ASSUME NEW p \in Procs,
             \/ Connect(p) \/ ReadVersions(p) \/ BeginMigration(p) \/ RunScript(p)
             \/ CommitMigration(p) \/ Migrated(p) \/ EnsureKey(p) \/ Bind(p)
             \/ Drain(p) \/ Drained(p) \/ ForceExit(p) \/ AbandonRuns(p)
      PROVE  Moved(p) /\ \A q \in Procs \ {p} : Alike(q)
  <2>1. seen' \in [Procs -> SUBSET Nat]
    <3>1. CASE ReadVersions(p) \/ CommitMigration(p)
      BY <1>4, <3>1
    <3>2. CASE ~(ReadVersions(p) \/ CommitMigration(p))
      BY <1>5, <3>2 DEF Connect, BeginMigration, RunScript, Migrated, EnsureKey, Bind, Drain,
         Drained, ForceExit, AbandonRuns, DaemonTypes
    <3>3. QED
      BY <3>1, <3>2
  <2>2. QED
    BY <1>5, <2>1, StoreMoves
<1>6. ASSUME NEW p \in Procs,
             \/ SkipVector(p) \/ SpawnVector(p) \/ VectorLives(p) \/ VectorDies(p) \/ InstallHook(p)
      PROVE  Moved(p) /\ \A q \in Procs \ {p} : Alike(q)
  BY <1>6, DevMoves
<1>7. ASSUME NEW p \in Procs,
             \/ LoadHeart(p) \/ StartTick(p) \/ StartTelemetry(p) \/ SweepRuns(p)
      PROVE  Moved(p) /\ \A q \in Procs \ {p} : Alike(q)
  BY <1>7, PartMoves
<1>8. ASSUME NEW p \in Procs,
             \/ StopTelemetry(p) \/ StopTick(p) \/ UnloadHeart(p) \/ CloseBrain(p)
             \/ StopOpencode(p) \/ CloseDatabase(p)
      PROVE  Moved(p) /\ \A q \in Procs \ {p} : Alike(q)
  BY <1>8, CeaseMoves
<1>9. ASSUME NEW p \in Procs, Fail(p) \/ Signal(p) \/ Leave(p) \/ Reap(p) \/ Kill(p)
      PROVE  (Moved(p) /\ \A q \in Procs \ {p} : Alike(q)) \/ Ended(p)
  BY <1>9, EndsAre, OtherMoves
<1>10. QED
  BY <1>1, <1>2, <1>3, <1>5, <1>6, <1>7, <1>8, <1>9 DEF Next, Boots, Stops

(* Where each process is, what it lives with and what it holds.            *)
LEMMA OwnStep ==
  ASSUME DaemonTypes, SchemaInv, \A p \in Procs : ConfInv(p) /\ Own(p), Next
  PROVE  DaemonTypes' /\ \A p \in Procs : ConfInv(p)' /\ Own(p)'
<1>1. ASSUME NEW q \in Procs, Alike(q) PROVE ConfInv(q)' /\ Own(q)'
  BY <1>1 DEF Alike, ConfInv, Own, BuiltInv, UpInv, SideInv
<1>2. ASSUME NEW p \in Procs, Moved(p), \A q \in Procs \ {p} : Alike(q)
      PROVE  DaemonTypes' /\ \A q \in Procs : ConfInv(q)' /\ Own(q)'
  <2>1. ConfInv(p)'
    <3>1. pc[p] # "off" /\ pc'[p] # "off" /\ conf'[p] = conf[p] /\ plan' = plan
      BY <1>2 DEF Moved, Moves, Uvicorn, Startup, Serving, Shutdown
    <3>2. QED
      BY <3>1 DEF ConfInv
  <2>2. QED
    BY <1>1, <1>2, <2>1 DEF Moved
<1>3. ASSUME NEW p \in Procs, Ended(p)
      PROVE  DaemonTypes' /\ \A q \in Procs : ConfInv(q)' /\ Own(q)'
  <2>1. ConfInv(p)' /\ Own(p)' /\ \A q \in Procs \ {p} : Alike(q)
    BY <1>3, EndSound DEF ConfInv
  <2>2. QED
    BY <1>1, <1>3, <2>1 DEF Ended
<1>4. ASSUME NEW p \in Procs, CreateApp(p)
      PROVE  DaemonTypes' /\ \A q \in Procs : ConfInv(q)' /\ Own(q)'
  <2>1. /\ DaemonTypes' /\ Own(p)' /\ \A q \in Procs \ {p} : Alike(q)
        /\ pc[p] = "create" /\ pc'[p] = "dev" /\ conf' = conf /\ plan' = plan
    BY <1>4, CreateSound DEF CreateApp, hostVars
  <2>2. ConfInv(p)'
    BY <2>1 DEF ConfInv
  <2>3. QED
    BY <1>1, <2>1, <2>2
<1>5. ASSUME NEW p \in Procs, Launch(p), Loads(plan.source[p])
      PROVE  DaemonTypes' /\ \A q \in Procs : ConfInv(q)' /\ Own(q)'
  <2>1. /\ DaemonTypes' /\ Own(p)' /\ \A q \in Procs \ {p} : Alike(q)
        /\ pc'[p] = "create" /\ plan.source[p] # NoLaunch
        /\ conf'[p] = Merged(plan.source[p]) /\ plan' = plan
    BY <1>5, LaunchSound DEF Launch
  <2>2. ConfInv(p)'
    BY <1>5, <2>1 DEF ConfInv
  <2>3. QED
    BY <1>1, <2>1, <2>2
<1>6. ASSUME DaemonTypes', Stays
      PROVE  DaemonTypes' /\ \A q \in Procs : ConfInv(q)' /\ Own(q)'
  BY <1>1, <1>6 DEF Stays, Alike
<1>7. QED
  BY <1>2, <1>3, <1>4, <1>5, <1>6, StepKinds DEF Own

-----------------------------------------------------------------------------
(* The write lock and the port                                             *)

LEMMA EndLock ==
  ASSUME DaemonTypes, NEW p \in Procs, NEW q \in Procs, LockInv(q), End(p)
  PROVE  LockInv(q)'
<1>1. pc' = [pc EXCEPT ![p] = "off"]
  BY DEF End, Goto
<1>2. /\ writer' = IF writer = p THEN Free ELSE writer
      /\ port' = IF port = p THEN Free ELSE port
  BY DEF End
<1>3. QED
  BY <1>1, <1>2, FreeAssumption DEF LockInv, DaemonTypes

LEMMA LockStep ==
  ASSUME DaemonTypes, \A p \in Procs : LockInv(p), NEW q \in Procs, Next
  PROVE  LockInv(q)'
<1>1. CASE UNCHANGED <<pc, writer, port>>
  BY <1>1 DEF LockInv
<1>2. ASSUME NEW p \in Procs, UNCHANGED <<writer, port>>,
             pc' = [pc EXCEPT ![p] = pc'[p]],
             {pc[p], pc'[p]} \cap {"script", "commit", "serve"} = {}
      PROVE  LockInv(q)'
  BY <1>2 DEF LockInv, DaemonTypes
<1>3. ASSUME NEW p \in Procs,
             \/ BeginMigration(p) \/ RunScript(p) \/ CommitMigration(p) \/ Bind(p) \/ Drain(p)
      PROVE  LockInv(q)'
  <2>1. LockInv(p) /\ LockInv(q) /\ Free # p /\ Free # q
    BY FreeAssumption
  <2>2. CASE BeginMigration(p)
    BY <2>1, <2>2 DEF BeginMigration, Goto, LockInv, DaemonTypes
  <2>3. CASE RunScript(p)
    BY <2>1, <2>3 DEF RunScript, Goto, LockInv, DaemonTypes
  <2>4. CASE CommitMigration(p)
    BY <2>1, <2>4 DEF CommitMigration, Goto, LockInv, DaemonTypes
  <2>5. CASE Bind(p)
    <3>1. writer' = writer /\ pc[p] = "bind"
      BY <2>5 DEF Bind, storeVars
    <3>2. \/ port' = port /\ pc' = [pc EXCEPT ![p] = "stopTelemetry"]
          \/ port = Free /\ port' = p /\ pc' = [pc EXCEPT ![p] = "serve"]
          \/ port = Free /\ port' = Free /\ pc' = [pc EXCEPT ![p] = "leave"]
      BY <2>5 DEF Bind, Goto
    <3>3. QED
      BY <2>1, <3>1, <3>2 DEF LockInv, DaemonTypes
  <2>6. CASE Drain(p)
    BY <2>1, <2>6 DEF Drain, storeVars, Goto, LockInv, DaemonTypes
  <2>7. QED
    BY <1>3, <2>2, <2>3, <2>4, <2>5, <2>6
<1>4. ASSUME NEW p \in Procs,
             \/ SkipVector(p) \/ SpawnVector(p) \/ VectorLives(p) \/ VectorDies(p) \/ InstallHook(p)
             \/ Connect(p) \/ ReadVersions(p) \/ Migrated(p) \/ EnsureKey(p) \/ CreateApp(p)
             \/ Drained(p) \/ ForceExit(p) \/ AbandonRuns(p)
      PROVE  LockInv(q)'
  <2>1. /\ UNCHANGED <<writer, port>>
        /\ pc' = [pc EXCEPT ![p] = pc'[p]]
        /\ {pc[p], pc'[p]} \cap {"script", "commit", "serve"} = {}
    BY <1>4 DEF SkipVector, SpawnVector, VectorLives, VectorDies, InstallHook, Connect,
       ReadVersions,
       Migrated, EnsureKey, CreateApp, Drained, ForceExit, AbandonRuns, storeVars, Goto, DaemonTypes
  <2>2. QED
    BY <1>2, <2>1
<1>5. ASSUME NEW p \in Procs,
             \/ LoadHeart(p) \/ StartTick(p) \/ StartTelemetry(p) \/ SweepRuns(p)
             \/ StopTelemetry(p) \/ StopTick(p) \/ UnloadHeart(p) \/ CloseBrain(p)
             \/ StopOpencode(p) \/ CloseDatabase(p)
      PROVE  LockInv(q)'
  <2>1. /\ UNCHANGED <<writer, port>>
        /\ pc' = [pc EXCEPT ![p] = pc'[p]]
        /\ {pc[p], pc'[p]} \cap {"script", "commit", "serve"} = {}
    BY <1>5 DEF LoadHeart, StartTick, StartTelemetry, SweepRuns, StopTelemetry, StopTick,
       UnloadHeart,
       CloseBrain, StopOpencode, CloseDatabase, Begin, Cease, storeVars, Goto, DaemonTypes
  <2>2. QED
    BY <1>2, <2>1
<1>6. ASSUME NEW p \in Procs, Leave(p) \/ Reap(p) \/ Fail(p) \/ Signal(p) \/ Kill(p)
      PROVE  LockInv(q)'
  <2>1. CASE End(p)
    BY <2>1, EndLock
  <2>2. CASE Fail(p) /\ ~End(p)
    <3>1. /\ pc' = [pc EXCEPT ![p] = "leave"] /\ port' = port
          /\ writer' = IF writer = p THEN Free ELSE writer
          /\ pc[p] # "serve"
      BY <2>2 DEF Fail, Goto, Startup, Serving, Shutdown
    <3>2. QED
      BY <3>1, FreeAssumption DEF LockInv, DaemonTypes
  <2>3. CASE Signal(p) /\ ~End(p)
    <3>1. UNCHANGED <<pc, writer, port>>
      BY <2>3 DEF Signal, storeVars
    <3>2. QED
      BY <1>1, <3>1
  <2>4. CASE Leave(p) /\ ~End(p)
    <3>1. pc[p] = "leave" /\ pc' = [pc EXCEPT ![p] = "reap"] /\ UNCHANGED <<writer, port>>
      BY <2>4 DEF Leave, Goto, storeVars
    <3>2. QED
      BY <1>2, <3>1 DEF DaemonTypes
  <2>5. QED
    BY <1>6, <2>1, <2>2, <2>3, <2>4 DEF Reap, Kill
<1>7. ASSUME NEW p \in Procs, Launch(p)
      PROVE  LockInv(q)'
  <2>1. CASE pc' = pc
    BY <1>1, <1>7, <2>1 DEF Launch, storeVars
  <2>2. CASE pc' # pc
    <3>1. pc[p] = "off" /\ pc' = [pc EXCEPT ![p] = "create"] /\ UNCHANGED <<writer, port>>
      BY <1>7, <2>2 DEF Launch, Goto, storeVars
    <3>2. QED
      BY <1>2, <3>1 DEF DaemonTypes
  <2>3. QED
    BY <2>1, <2>2
<1>8. ASSUME NEW p \in Procs, Requests(p) \/ Observe(p)
      PROVE  LockInv(q)'
  BY <1>1, <1>8 DEF Requests, Accept, Answer, EnrolTotp, DropTotp, Observe, daemonVars, storeVars,
     procVars
<1>9. ASSUME WallClock PROVE LockInv(q)'
  BY <1>1, <1>9 DEF WallClock, daemonVars, storeVars, procVars
<1>10. QED
  BY <1>3, <1>4, <1>5, <1>6, <1>7, <1>8, <1>9 DEF Next, Boots, Stops

-----------------------------------------------------------------------------
(* The requests, and the secrets they leave                                *)

(* A step that seals nothing, and after which a process that has a request *)
(* in flight still serves.                                                 *)
LEMMA RequestsKept ==
  ASSUME DaemonTypes, RequestInv, NEW p \in Procs, UNCHANGED <<plan, secret>>,
         pc' = [pc EXCEPT ![p] = pc'[p]],
         busy' = busy \/ busy' = [busy EXCEPT ![p] = FALSE],
         pc[p] \in Serving => pc'[p] \in Serving \/ ~busy'[p]
  PROVE  RequestInv'
<1>1. busy' \in [Procs -> BOOLEAN]
  BY DEF RequestInv
<1>2. \A q \in Procs : busy'[q] => pc'[q] \in Serving
  BY DEF RequestInv, DaemonTypes
<1>3. DOMAIN secret' = Users /\ \A u \in Enrolled' : secret'[u] \in KeysOf(plan)'
  BY DEF RequestInv, Enrolled, KeysOf
<1>4. QED
  BY <1>1, <1>2, <1>3 DEF RequestInv

LEMMA RequestStep ==
  ASSUME DaemonTypes, RequestInv, \A p \in Procs : ConfInv(p), Next
  PROVE  RequestInv'
<1>1. CASE UNCHANGED <<plan, pc, busy, secret>>
  BY <1>1 DEF RequestInv, Enrolled, KeysOf
<1>2. ASSUME NEW p \in Procs,
             \/ SkipVector(p) \/ SpawnVector(p) \/ VectorLives(p) \/ VectorDies(p) \/ InstallHook(p)
             \/ Connect(p) \/ ReadVersions(p) \/ BeginMigration(p) \/ RunScript(p)
             \/ CommitMigration(p) \/ Migrated(p) \/ EnsureKey(p) \/ CreateApp(p) \/ Bind(p)
             \/ AbandonRuns(p)
      PROVE  RequestInv'
  <2>1. UNCHANGED <<plan, secret, busy>> /\ pc' = [pc EXCEPT ![p] = pc'[p]] /\ pc[p] \notin Serving
    BY <1>2 DEF SkipVector, SpawnVector, VectorLives, VectorDies, InstallHook, Connect,
       ReadVersions,
       BeginMigration, RunScript, CommitMigration, Migrated, EnsureKey, CreateApp, Bind,
       AbandonRuns,
       hostVars, storeVars, Goto, DaemonTypes, Serving
  <2>2. QED
    BY <2>1, RequestsKept
<1>3. ASSUME NEW p \in Procs,
             \/ LoadHeart(p) \/ StartTick(p) \/ StartTelemetry(p) \/ SweepRuns(p)
             \/ StopTelemetry(p) \/ StopTick(p) \/ UnloadHeart(p) \/ CloseBrain(p)
             \/ StopOpencode(p) \/ CloseDatabase(p)
      PROVE  RequestInv'
  <2>1. UNCHANGED <<plan, secret, busy>> /\ pc' = [pc EXCEPT ![p] = pc'[p]] /\ pc[p] \notin Serving
    BY <1>3 DEF LoadHeart, StartTick, StartTelemetry, SweepRuns, StopTelemetry, StopTick,
       UnloadHeart,
       CloseBrain, StopOpencode, CloseDatabase, Begin, Cease, hostVars, storeVars, Goto,
       DaemonTypes,
       Serving
  <2>2. QED
    BY <2>1, RequestsKept
<1>4. ASSUME NEW p \in Procs, Drain(p) \/ Drained(p) \/ ForceExit(p) PROVE RequestInv'
  <2>1. /\ UNCHANGED <<plan, secret>> /\ pc' = [pc EXCEPT ![p] = pc'[p]]
        /\ busy' = busy \/ busy' = [busy EXCEPT ![p] = FALSE]
    BY <1>4 DEF Drain, Drained, ForceExit, hostVars, storeVars, Goto, DaemonTypes
  <2>2. pc'[p] = "drain" \/ ~busy'[p]
    BY <1>4 DEF Drain, Drained, ForceExit, Goto, DaemonTypes, RequestInv
  <2>3. QED
    BY <2>1, <2>2, RequestsKept DEF Serving
<1>5. ASSUME NEW p \in Procs, Leave(p) \/ Reap(p) \/ Fail(p) \/ Signal(p) \/ Kill(p)
      PROVE  RequestInv'
  <2>1. UNCHANGED plan
    BY <1>5 DEF Leave, Reap, Fail, Signal, Kill, hostVars
  <2>2. CASE End(p)
    <3>1. /\ secret' = secret /\ pc' = [pc EXCEPT ![p] = pc'[p]]
          /\ busy' = [busy EXCEPT ![p] = FALSE]
      BY <2>2 DEF End, Goto, DaemonTypes
    <3>2. ~busy'[p]
      BY <3>1 DEF RequestInv
    <3>3. QED
      BY <2>1, <3>1, <3>2, RequestsKept
  <2>3. CASE ~End(p)
    <3>1. secret' = secret /\ busy' = busy
      BY <1>5, <2>3 DEF Leave, Reap, Fail, Signal, Kill, storeVars
    <3>2. CASE Signal(p)
      BY <1>1, <2>1, <2>3, <3>1, <3>2 DEF Signal
    <3>3. CASE ~Signal(p)
      <4>1. /\ pc' = [pc EXCEPT ![p] = "leave"] \/ pc' = [pc EXCEPT ![p] = "reap"]
            /\ pc[p] \notin Serving
        BY <1>5, <2>3, <3>3 DEF Leave, Reap, Fail, Kill, Goto, Startup, Serving, Shutdown
      <4>2. pc' = [pc EXCEPT ![p] = pc'[p]]
        BY <4>1 DEF DaemonTypes
      <4>3. QED
        BY <2>1, <3>1, <4>1, <4>2, RequestsKept
    <3>4. QED
      BY <3>2, <3>3
  <2>4. QED
    BY <2>2, <2>3
<1>6. ASSUME NEW p \in Procs, Launch(p) PROVE RequestInv'
  <2>1. /\ UNCHANGED <<plan, secret, busy>> /\ pc[p] = "off"
        /\ pc' = pc \/ pc' = [pc EXCEPT ![p] = "create"]
    BY <1>6 DEF Launch, storeVars, Goto
  <2>2. pc' = [pc EXCEPT ![p] = pc'[p]]
    BY <2>1 DEF DaemonTypes
  <2>3. QED
    BY <2>1, <2>2, RequestsKept DEF Serving
<1>7. ASSUME NEW p \in Procs, Requests(p) PROVE RequestInv'
  <2>1. CASE Accept(p)
    <3>1. pc[p] = "serve" /\ busy' = [busy EXCEPT ![p] = TRUE] /\ UNCHANGED <<plan, pc, secret>>
      BY <2>1 DEF Accept, hostVars, storeVars
    <3>2. QED
      BY <3>1 DEF RequestInv, Enrolled, KeysOf, Serving
  <2>2. CASE Answer(p)
    <3>1. busy' = [busy EXCEPT ![p] = FALSE] /\ UNCHANGED <<plan, pc, secret>>
      BY <2>2 DEF Answer, hostVars, storeVars
    <3>2. QED
      BY <3>1 DEF RequestInv, Enrolled, KeysOf
  <2>3. ASSUME NEW u \in Users, EnrolTotp(p, u) PROVE RequestInv'
    <3>1. /\ busy[p] /\ conf[p].key # None /\ UNCHANGED <<plan, pc, busy>>
          /\ secret' = [secret EXCEPT ![u] = conf[p].key]
      BY <2>3 DEF EnrolTotp, hostVars, procVars
    <3>2. conf[p].key \in KeysOf(plan)
      <4>1. pc[p] # "off"
        BY <3>1 DEF RequestInv, Serving
      <4>2. QED
        BY <3>1, <4>1 DEF ConfInv, KeysOf
    <3>3. KeysOf(plan)' = KeysOf(plan)
      BY <3>1 DEF KeysOf
    <3>4. DOMAIN secret' = Users /\ \A v \in Enrolled' : secret'[v] \in KeysOf(plan)
      BY <3>1, <3>2 DEF RequestInv, Enrolled
    <3>5. QED
      BY <3>1, <3>3, <3>4 DEF RequestInv
  <2>4. ASSUME NEW u \in Users, DropTotp(p, u) PROVE RequestInv'
    <3>1. UNCHANGED <<plan, pc, busy>> /\ secret' = [secret EXCEPT ![u] = None]
      BY <2>4 DEF DropTotp, hostVars, procVars
    <3>2. KeysOf(plan)' = KeysOf(plan)
      BY <3>1 DEF KeysOf
    <3>3. DOMAIN secret' = Users /\ \A v \in Enrolled' : secret'[v] \in KeysOf(plan)
      BY <3>1 DEF RequestInv, Enrolled
    <3>4. QED
      BY <3>1, <3>2, <3>3 DEF RequestInv
  <2>5. QED
    BY <1>7, <2>1, <2>2, <2>3, <2>4 DEF Requests
<1>8. ASSUME NEW p \in Procs, Observe(p) PROVE RequestInv'
  BY <1>1, <1>8 DEF Observe, daemonVars, hostVars, procVars, storeVars
<1>9. ASSUME WallClock PROVE RequestInv'
  BY <1>1, <1>9 DEF WallClock, daemonVars, hostVars, procVars, storeVars
<1>10. QED
  BY <1>2, <1>3, <1>4, <1>5, <1>6, <1>7, <1>8, <1>9 DEF Next, Boots, Stops

-----------------------------------------------------------------------------
(* The schema                                                              *)

\* A step that leaves the schema and what q knows of it alone.
Unread(q) ==
  /\ ran' = ran /\ recorded' = recorded
  /\ \/ seen'[q] = seen[q] /\ (pc'[q] = "commit" => pc[q] = "commit")
     \/ seen'[q] = {} /\ pc'[q] = "off"

LEMMA SchemaKinds ==
  ASSUME DaemonTypes, Next, NEW q \in Procs
  PROVE  \/ \E p \in Procs : ReadVersions(p) \/ RunScript(p) \/ CommitMigration(p)
         \/ Unread(q)
<1>1. ASSUME NEW p \in Procs,
             \/ SkipVector(p) \/ SpawnVector(p) \/ VectorLives(p) \/ VectorDies(p) \/ InstallHook(p)
             \/ Connect(p) \/ BeginMigration(p) \/ Migrated(p) \/ EnsureKey(p) \/ CreateApp(p)
             \/ Bind(p) \/ Drain(p) \/ Drained(p) \/ ForceExit(p) \/ AbandonRuns(p)
      PROVE  Unread(q)
  BY <1>1 DEF SkipVector, SpawnVector, VectorLives, VectorDies, InstallHook, Connect,
     BeginMigration,
     Migrated, EnsureKey, CreateApp, Bind, Drain, Drained, ForceExit, AbandonRuns, storeVars,
     Goto, DaemonTypes, Unread
<1>2. ASSUME NEW p \in Procs,
             \/ LoadHeart(p) \/ StartTick(p) \/ StartTelemetry(p) \/ SweepRuns(p)
             \/ StopTelemetry(p) \/ StopTick(p) \/ UnloadHeart(p) \/ CloseBrain(p)
             \/ StopOpencode(p) \/ CloseDatabase(p)
      PROVE  Unread(q)
  BY <1>2 DEF LoadHeart, StartTick, StartTelemetry, SweepRuns, StopTelemetry, StopTick, UnloadHeart,
     CloseBrain, StopOpencode, CloseDatabase, Begin, Cease, storeVars, Goto, DaemonTypes, Unread
<1>3. ASSUME NEW p \in Procs, Leave(p) \/ Reap(p) \/ Fail(p) \/ Signal(p) \/ Kill(p)
      PROVE  Unread(q)
  <2>1. CASE End(p)
    BY <2>1 DEF End, Goto, DaemonTypes, Unread
  <2>2. CASE ~End(p)
    <3>1. ran' = ran /\ recorded' = recorded /\ seen' = seen
      BY <1>3, <2>2 DEF Leave, Reap, Fail, Signal, Kill, storeVars
    <3>2. \/ pc' = pc \/ pc' = [pc EXCEPT ![p] = "leave"] \/ pc' = [pc EXCEPT ![p] = "reap"]
      BY <1>3, <2>2 DEF Leave, Reap, Fail, Signal, Kill, Goto
    <3>3. QED
      BY <3>1, <3>2 DEF DaemonTypes, Unread
  <2>3. QED
    BY <2>1, <2>2
<1>4. ASSUME NEW p \in Procs, Launch(p) PROVE Unread(q)
  <2>1. ran' = ran /\ recorded' = recorded /\ seen' = seen
    BY <1>4 DEF Launch, storeVars
  <2>2. pc' = pc \/ pc' = [pc EXCEPT ![p] = "create"]
    BY <1>4 DEF Launch, Goto
  <2>3. QED
    BY <2>1, <2>2 DEF DaemonTypes, Unread
<1>5. ASSUME NEW p \in Procs, Requests(p) \/ Observe(p) PROVE Unread(q)
  BY <1>5 DEF Requests, Accept, Answer, EnrolTotp, DropTotp, Observe, daemonVars, storeVars,
     procVars, Unread
<1>6. ASSUME WallClock PROVE Unread(q)
  BY <1>6 DEF WallClock, daemonVars, storeVars, procVars, Unread
<1>7. QED
  BY <1>1, <1>2, <1>3, <1>4, <1>5, <1>6 DEF Next, Boots, Stops

(* Of two processes that both found a migration pending, the second to get *)
(* the lock finds it recorded.                                             *)
LEMMA SchemaStep ==
  ASSUME DaemonTypes, SchemaInv, \A p \in Procs : LockInv(p), Next
  PROVE  SchemaInv'
<1> DEFINE n == Len(ran)
           KnownBy(q, c) == seen[q] = 1..c /\ (pc[q] = "commit" => c = n)
<1>1. ran \in Seq(Nat) /\ n \in Nat /\ recorded = 1..n /\ MigratedOnce
  <2>1. ran \in Seq(Nat) /\ MigratedOnce
    BY DEF SchemaInv
  <2>2. n \in Nat
    BY <2>1
  <2>3. recorded = 1..n
    BY <2>1 DEF MigratedOnce
  <2>4. QED
    BY <2>1, <2>2, <2>3
<1>2. \A q \in Procs : \E c \in 0..n : KnownBy(q, c)
  BY DEF SchemaInv
<1>3. ASSUME NEW p \in Procs, CommitMigration(p) PROVE SchemaInv'
  <2>1. Version(p) = n + 1 /\ seen[p] = 1..n
    BY <1>1, <1>3, SeenIs DEF CommitMigration
  <2>2. ran' = Append(ran, n + 1) /\ recorded' = 1..(n + 1) /\ Len(ran') = n + 1
    BY <1>1, <1>3, <2>1 DEF CommitMigration
  <2>3. ran' \in Seq(Nat) /\ ran' = [i \in 1..(n + 1) |-> i]
    <3>1. ran = [i \in 1..n |-> i]
      BY <1>1 DEF MigratedOnce
    <3>2. ran' \in Seq(Nat)
      BY <1>1, <2>2
    <3>3. DOMAIN ran' = 1..(n + 1)
      BY <2>2, <3>2
    <3>4. ASSUME NEW i \in 1..(n + 1) PROVE ran'[i] = i
      <4>1. CASE i = n + 1
        BY <1>1, <2>2, <4>1
      <4>2. CASE i \in 1..n
        <5>1. ran'[i] = ran[i]
          BY <1>1, <2>2, <4>2
        <5>2. QED
          BY <3>1, <4>2, <5>1
      <4>3. QED
        BY <1>1, <4>1, <4>2
    <3>5. QED
      BY <3>2, <3>3, <3>4
  <2>4. MigratedOnce'
    BY <2>2, <2>3 DEF MigratedOnce
  <2>5. ASSUME NEW q \in Procs
        PROVE  \E c \in 0..(n + 1) : seen'[q] = 1..c /\ (pc'[q] = "commit" => c = n + 1)
    <3>1. seen' = [seen EXCEPT ![p] = @ \cup {n + 1}] /\ pc' = [pc EXCEPT ![p] = "migrate"]
          /\ pc[p] = "commit"
      BY <1>3, <2>1 DEF CommitMigration, Goto
    <3>2. CASE q = p
      <4>1. seen'[p] = 1..(n + 1)
        BY <1>1, <2>1, <3>1 DEF DaemonTypes
      <4>2. QED
        BY <1>1, <3>2, <4>1
    <3>3. CASE q # p
      <4>1. seen'[q] = seen[q] /\ pc'[q] = pc[q]
        BY <3>1, <3>3 DEF DaemonTypes
      <4>2. pc[q] # "commit"
        BY <3>1, <3>3 DEF LockInv
      <4>3. PICK c \in 0..n : KnownBy(q, c)
        BY <1>2
      <4>4. QED
        BY <1>1, <4>1, <4>2, <4>3
    <3>4. QED
      BY <3>2, <3>3
  <2>6. QED
    BY <2>2, <2>3, <2>4, <2>5 DEF SchemaInv
<1>4. ASSUME NEW p \in Procs, ReadVersions(p) \/ RunScript(p) PROVE SchemaInv'
  <2>1. ran' = ran /\ recorded' = recorded
    BY <1>4 DEF ReadVersions, RunScript, storeVars
  <2>2. ASSUME NEW q \in Procs
        PROVE  \E c \in 0..n : seen'[q] = 1..c /\ (pc'[q] = "commit" => c = n)
    <3>1. PICK c \in 0..n : KnownBy(q, c)
      BY <1>2
    <3>2. CASE q # p
      <4>1. seen'[q] = seen[q] /\ pc'[q] = pc[q]
        BY <1>4, <3>2 DEF ReadVersions, RunScript, Goto, DaemonTypes
      <4>2. QED
        BY <3>1, <4>1
    <3>3. CASE q = p /\ ReadVersions(p)
      <4>1. seen'[p] = 1..n /\ pc'[p] # "commit"
        BY <1>1, <3>3 DEF ReadVersions, Goto, DaemonTypes
      <4>2. QED
        BY <1>1, <3>3, <4>1
    <3>4. CASE q = p /\ RunScript(p)
      <4>1. PICK d \in 0..n : seen[p] = 1..d /\ Version(p) = d + 1
        BY SeenIs
      <4>2. seen' = seen /\ (pc'[p] = "commit" => Version(p) \notin 1..n)
        BY <1>1, <3>4 DEF RunScript, Goto, DaemonTypes
      <4>3. pc'[p] = "commit" => d = n
        BY <1>1, <4>1, <4>2
      <4>4. QED
        BY <3>4, <4>1, <4>2, <4>3
    <3>5. QED
      BY <1>4, <3>2, <3>3, <3>4
  <2>3. MigratedOnce'
    BY <1>1, <2>1 DEF MigratedOnce
  <2>4. QED
    BY <1>1, <2>1, <2>2, <2>3 DEF SchemaInv
<1>5. ASSUME \A q \in Procs : Unread(q) PROVE SchemaInv'
  <2>1. CASE Procs = {}
    <3>1. UNCHANGED <<ran, recorded>>
      BY <2>1 DEF Next, WallClock, daemonVars, storeVars
    <3>2. MigratedOnce'
      BY <1>1, <3>1 DEF MigratedOnce
    <3>3. QED
      BY <1>1, <2>1, <3>1, <3>2 DEF SchemaInv
  <2>2. CASE Procs # {}
    <3>1. UNCHANGED <<ran, recorded>>
      BY <1>5, <2>2 DEF Unread
    <3>2. MigratedOnce'
      BY <1>1, <3>1 DEF MigratedOnce
    <3>3. ASSUME NEW q \in Procs
          PROVE  \E c \in 0..n : seen'[q] = 1..c /\ (pc'[q] = "commit" => c = n)
      <4>1. CASE seen'[q] = {} /\ pc'[q] = "off"
        <5>1. 0 \in 0..n /\ 1..0 = {}
          BY <1>1
        <5>2. QED
          BY <4>1, <5>1
      <4>2. CASE seen'[q] = seen[q] /\ (pc'[q] = "commit" => pc[q] = "commit")
        BY <1>2, <4>2
      <4>3. QED
        BY <1>5, <4>1, <4>2 DEF Unread
    <3>4. QED
      BY <1>1, <3>1, <3>2, <3>3 DEF SchemaInv
  <2>3. QED
    BY <2>1, <2>2
<1>6. QED
  BY <1>3, <1>4, <1>5, SchemaKinds

-----------------------------------------------------------------------------
(* The processes that no other one has lived beside                        *)

(* While such a process lives, only its own steps are taken.               *)
LEMMA AloneIf ==
  ASSUME \A o \in Procs : AloneInv(o), NEW p \in Procs, pc[p] # "off", alone' = alone,
         \A o \in Procs \ {p} : pc'[o] = pc[o],
         alone[p] /\ pc'[p] # "off" => Undisturbed(p)',
         NEW q \in Procs
  PROVE  AloneInv(q)'
<1>1. CASE q = p
  BY <1>1 DEF AloneInv
<1>2. CASE q # p
  BY <1>2 DEF AloneInv
<1>3. QED
  BY <1>1, <1>2

LEMMA AloneStep ==
  ASSUME DaemonTypes, SchemaInv, \A p \in Procs : AloneInv(p), NEW q \in Procs,
         RequestInv, Next
  PROVE  AloneInv(q)'
<1>1. CASE UNCHANGED <<pc, conf, seen, alone, ran, recorded, secret>>
  BY <1>1 DEF AloneInv, Undisturbed, Enrolled
<1>2. ASSUME NEW p \in Procs, pc[p] # "off", alone' = alone, pc' = [pc EXCEPT ![p] = pc'[p]],
             pc'[p] \notin {"migrate", "script", "commit", "guard"} \cup Ready
      PROVE  AloneInv(q)'
  <2>1. Undisturbed(p)'
    BY <1>2 DEF Undisturbed
  <2>2. \A o \in Procs \ {p} : pc'[o] = pc[o]
    BY <1>2 DEF DaemonTypes
  <2>3. QED
    BY <1>2, <2>1, <2>2, AloneIf
<1>3. ASSUME NEW p \in Procs,
             \/ ReadVersions(p) \/ BeginMigration(p) \/ RunScript(p) \/ CommitMigration(p)
             \/ Migrated(p) \/ EnsureKey(p)
             \/ LoadHeart(p) \/ StartTick(p) \/ StartTelemetry(p) \/ SweepRuns(p) \/ Bind(p)
             \/ Drain(p)
      PROVE  AloneInv(q)'
  <2>1. pc[p] # "off" /\ alone' = alone /\ conf' = conf /\ Enrolled' = Enrolled
        /\ \A o \in Procs \ {p} : pc'[o] = pc[o]
    BY <1>3 DEF ReadVersions, BeginMigration, RunScript, CommitMigration, Migrated, EnsureKey,
       LoadHeart, StartTick, StartTelemetry, SweepRuns, Bind, Drain, Begin, madeVars, storeVars,
       Goto, DaemonTypes, Enrolled
  <2>2. /\ Len(ran) \in Nat /\ Cardinality(recorded) = Len(ran) /\ Cardinality(Bundled[p]) \in Nat
        /\ seen[p] = recorded => Version(p) = Len(ran) + 1
        /\ ran \in Seq(Nat)
    <3>1. Cardinality(Bundled[p]) \in Nat
      BY BundledAssumption, FS_CardinalityType
    <3>2. Len(ran) \in Nat /\ Cardinality(recorded) = Len(ran)
      BY SeenIs
    <3>3. QED
      BY <3>1, <3>2 DEF Version, SchemaInv
  <2>3. SUFFICES ASSUME alone[p] PROVE Undisturbed(p)'
    BY <2>1, AloneIf
  <2>4. Undisturbed(p)
    BY <2>1, <2>3 DEF AloneInv
  <2>5. CASE ReadVersions(p)
    <3>1. /\ seen'[p] = recorded /\ UNCHANGED <<ran, recorded>>
          /\ pc'[p] = "leave" \/ (pc'[p] = "migrate" /\ Migratable(p))
      BY <2>5 DEF ReadVersions, Goto, storeVars, DaemonTypes
    <3>2. QED
      BY <2>2, <3>1 DEF Undisturbed, Migratable, Ready
  <2>6. CASE BeginMigration(p)
    <3>1. /\ UNCHANGED <<ran, recorded, seen>>
          /\ pc[p] = "migrate" /\ pc'[p] = "script" /\ Version(p) \in Bundled[p]
      BY <2>6 DEF BeginMigration, Goto, DaemonTypes
    <3>2. Len(ran) + 1 \in 1..Cardinality(Bundled[p])
      BY <2>2, <2>4, <3>1 DEF Undisturbed, Contiguous
    <3>3. QED
      BY <2>2, <2>4, <3>1, <3>2 DEF Undisturbed, Ready
  <2>7. CASE RunScript(p)
    <3>1. /\ UNCHANGED <<ran, recorded, seen>>
          /\ pc[p] = "script" /\ pc'[p] \in {"commit", "leave"}
      BY <2>7 DEF RunScript, Goto, DaemonTypes
    <3>2. QED
      BY <2>4, <3>1 DEF Undisturbed, Ready
  <2>8. CASE CommitMigration(p)
    <3>1. /\ ran' = Append(ran, Version(p)) /\ recorded' = recorded \cup {Version(p)}
          /\ seen'[p] = seen[p] \cup {Version(p)}
          /\ pc[p] = "commit" /\ pc'[p] = "migrate"
      BY <2>8 DEF CommitMigration, Goto, DaemonTypes
    <3>2. Len(ran') = Len(ran) + 1
      BY <2>2, <3>1
    <3>3. QED
      BY <2>2, <2>4, <3>1, <3>2 DEF Undisturbed, Ready
  <2>9. CASE Migrated(p)
    <3>1. /\ UNCHANGED <<ran, recorded, seen>>
          /\ pc[p] = "migrate" /\ pc'[p] = "guard" /\ Version(p) \notin Bundled[p]
      BY <2>9 DEF Migrated, Goto, storeVars, DaemonTypes
    <3>2. Len(ran) + 1 \notin 1..Cardinality(Bundled[p])
      BY <2>2, <2>4, <3>1 DEF Undisturbed, Contiguous
    <3>3. QED
      BY <2>2, <2>4, <3>1, <3>2 DEF Undisturbed, Ready
  <2>10. CASE EnsureKey(p)
    <3>1. /\ UNCHANGED <<ran, recorded, seen>>
          /\ pc[p] = "guard"
          /\ pc'[p] = "leave" \/ (pc'[p] = "heart" /\ ~(Enrolled # {} /\ conf[p].key = None))
      BY <2>10 DEF EnsureKey, Goto, storeVars, DaemonTypes
    <3>2. QED
      BY <2>1, <2>4, <3>1 DEF Undisturbed, Ready
  <2>11. CASE \/ LoadHeart(p) \/ StartTick(p) \/ StartTelemetry(p) \/ SweepRuns(p)
              \/ Bind(p) \/ Drain(p)
    <3>1. /\ UNCHANGED <<ran, recorded, seen>>
          /\ pc[p] \in Ready
          /\ pc'[p] \in {"tick", "telemetry", "opencode", "bind", "serve", "drain",
                          "stopTelemetry", "leave"}
      BY <2>11 DEF LoadHeart, StartTick, StartTelemetry, SweepRuns, Bind, Drain, Begin, Goto,
         storeVars,
         DaemonTypes, Ready
    <3>2. pc'[p] \notin {"migrate", "script", "commit", "guard"}
      BY <3>1
    <3>3. QED
      BY <2>1, <2>4, <3>1, <3>2 DEF Undisturbed
  <2>12. QED
    BY <1>3, <2>5, <2>6, <2>7, <2>8, <2>9, <2>10, <2>11
<1>4. ASSUME NEW p \in Procs,
             \/ SkipVector(p) \/ SpawnVector(p) \/ VectorLives(p) \/ VectorDies(p) \/ InstallHook(p)
             \/ Connect(p) \/ CreateApp(p) \/ Drained(p) \/ ForceExit(p) \/ AbandonRuns(p)
             \/ StopTelemetry(p) \/ StopTick(p) \/ UnloadHeart(p) \/ CloseBrain(p)
             \/ StopOpencode(p) \/ CloseDatabase(p)
      PROVE  AloneInv(q)'
  <2>1. /\ pc[p] # "off" /\ alone' = alone /\ pc' = [pc EXCEPT ![p] = pc'[p]]
        /\ pc'[p] \in {"dev", "watch", "hook", "connect", "read", "leave"} \cup Shutdown
    BY <1>4 DEF SkipVector, SpawnVector, VectorLives, VectorDies, InstallHook, Connect, CreateApp,
       Drained, ForceExit, AbandonRuns, StopTelemetry, StopTick, UnloadHeart, CloseBrain,
       StopOpencode, CloseDatabase, Cease,
       madeVars, Goto, DaemonTypes, Shutdown
  <2>2. QED
    BY <1>2, <2>1 DEF Ready, Shutdown
<1>5. ASSUME NEW p \in Procs, Leave(p) \/ Reap(p) \/ Fail(p) \/ Signal(p) \/ Kill(p)
      PROVE  AloneInv(q)'
  <2>1. pc[p] # "off"
    BY <1>5 DEF Leave, Reap, Fail, Signal, Kill, Uvicorn, Startup, Serving, Shutdown
  <2>2. CASE End(p)
    <3>1. alone' = alone /\ pc' = [pc EXCEPT ![p] = "off"] /\ pc'[p] = "off"
      BY <2>2 DEF End, Goto, DaemonTypes
    <3>2. QED
      BY <1>2, <2>1, <3>1 DEF Ready
  <2>3. CASE ~End(p)
    <3>1. CASE Signal(p)
      BY <1>1, <2>3, <3>1 DEF Signal, storeVars, madeVars
    <3>2. CASE ~Signal(p)
      <4>1. alone' = alone /\ (pc' = [pc EXCEPT ![p] = "leave"] \/ pc' = [pc EXCEPT ![p] = "reap"])
        BY <1>5, <2>3, <3>2 DEF Leave, Reap, Fail, Kill, madeVars, Goto
      <4>2. pc'[p] \in {"leave", "reap"} /\ pc' = [pc EXCEPT ![p] = pc'[p]]
        BY <4>1 DEF DaemonTypes
      <4>3. QED
        BY <1>2, <2>1, <4>1, <4>2 DEF Ready
    <3>3. QED
      BY <3>1, <3>2
  <2>4. QED
    BY <2>2, <2>3
<1>6. ASSUME NEW p \in Procs, Launch(p) PROVE AloneInv(q)'
  <2>1. CASE ~Loads(plan.source[p])
    BY <1>1, <1>6, <2>1 DEF Launch, storeVars
  <2>2. CASE Loads(plan.source[p])
    <3>1. /\ alone' = [o \in Procs |-> o = p /\ \A x \in Procs \ {p} : pc[x] = "off"]
          /\ pc'[p] = "create" /\ \A x \in Procs \ {p} : pc'[x] = pc[x]
      BY <1>6, <2>2 DEF Launch, Goto, DaemonTypes
    <3>2. Undisturbed(p)'
      BY <3>1 DEF Undisturbed, Ready
    <3>3. QED
      BY <3>1, <3>2 DEF AloneInv
  <2>3. QED
    BY <2>1, <2>2
<1>7. ASSUME NEW p \in Procs, Requests(p) PROVE AloneInv(q)'
  <2>1. CASE Accept(p) \/ Answer(p)
    BY <1>1, <2>1 DEF Accept, Answer, storeVars, madeVars
  <2>2. ASSUME NEW u \in Users, EnrolTotp(p, u) \/ DropTotp(p, u) PROVE AloneInv(q)'
    <3>1. /\ pc[p] \in Serving /\ UNCHANGED <<pc, conf, seen, alone, ran, recorded>>
          /\ Enrolled' \subseteq Enrolled \/ conf[p].key # None
      BY <2>2 DEF EnrolTotp, DropTotp, madeVars, procVars, Enrolled, RequestInv
    <3>2. alone[p] => Undisturbed(p)'
      BY <3>1 DEF AloneInv, Undisturbed, Ready, Serving
    <3>3. QED
      BY <3>1, <3>2, AloneIf DEF Serving
  <2>3. QED
    BY <1>7, <2>1, <2>2 DEF Requests
<1>8. ASSUME NEW p \in Procs, Observe(p) PROVE AloneInv(q)'
  BY <1>1, <1>8 DEF Observe, daemonVars, madeVars, procVars, storeVars
<1>9. ASSUME WallClock PROVE AloneInv(q)'
  BY <1>1, <1>9 DEF WallClock, daemonVars, madeVars, procVars, storeVars
<1>10. QED
  BY <1>3, <1>4, <1>5, <1>6, <1>7, <1>8, <1>9 DEF Next, Boots, Stops

-----------------------------------------------------------------------------
(* The inductive invariant                                                 *)

LEMMA DaemonStarts ==
  ASSUME Init
  PROVE  DaemonInv
<1>1. DaemonTypes
  <2>1. /\ pc \in [Procs -> Others \cup Uvicorn]
        /\ built \in [Procs -> SUBSET Parts]
        /\ up \in [Procs -> SUBSET (Parts \cup {"database"})]
        /\ told \in [Procs -> 0..2]
        /\ hooked \in [Procs -> BOOLEAN]
        /\ side \in [Procs -> Sides]
        /\ seen \in [Procs -> SUBSET Nat]
        /\ alone \in [Procs -> BOOLEAN]
    BY DEF Init, Others, Sides
  <2>2. conf = [p \in Procs |-> conf[p]]
    BY DEF Init
  <2>3. QED
    BY <2>1, <2>2 DEF DaemonTypes, Init
<1>2. SchemaInv
  <2>1. ran = <<>> /\ Len(ran) = 0 /\ ran \in Seq(Nat) /\ recorded = {}
    BY DEF Init
  <2>2. 1..0 = {} /\ 0 \in 0..0
    OBVIOUS
  <2>3. ran = [i \in 1..0 |-> i]
    BY <2>1, <2>2
  <2>4. MigratedOnce
    BY <2>1, <2>2, <2>3 DEF MigratedOnce
  <2>5. \A p \in Procs : seen[p] = 1..0 /\ pc[p] # "commit"
    BY <2>2 DEF Init
  <2>6. QED
    BY <2>1, <2>2, <2>4, <2>5 DEF SchemaInv
<1>3. ASSUME NEW p \in Procs
      PROVE  ConfInv(p) /\ BuiltInv(p) /\ UpInv(p) /\ SideInv(p) /\ LockInv(p) /\ AloneInv(p)
  <2>1. /\ pc[p] = "off" /\ conf[p] = Default /\ built[p] = {} /\ up[p] = {} /\ seen[p] = {}
        /\ side[p] = "none" /\ ~alone[p] /\ writer # p /\ port # p
    BY FreeAssumption DEF Init
  <2>2. QED
    BY <2>1 DEF ConfInv, BuiltInv, UpInv, Bound, SideInv, LockInv, AloneInv,
       Branded, Opened, Unticked, Unrun, Untold, Uvicorn, Startup, Serving, Shutdown
<1>4. RequestInv
  BY DEF Init, RequestInv, Enrolled
<1>5. QED
  BY <1>1, <1>2, <1>3, <1>4 DEF DaemonInv

LEMMA DaemonStep ==
  ASSUME DaemonInv, [Next]_vars
  PROVE  DaemonInv'
<1>1. CASE Next
  <2>1. /\ DaemonTypes /\ SchemaInv /\ RequestInv
        /\ \A p \in Procs : ConfInv(p) /\ Own(p) /\ LockInv(p) /\ AloneInv(p)
    BY DEF DaemonInv, Own
  <2>2. DaemonTypes' /\ \A p \in Procs : ConfInv(p)' /\ Own(p)'
    BY <1>1, <2>1, OwnStep
  <2>3. \A p \in Procs : LockInv(p)'
    BY <1>1, <2>1, LockStep
  <2>4. SchemaInv'
    BY <1>1, <2>1, SchemaStep
  <2>5. \A p \in Procs : AloneInv(p)'
    BY <1>1, <2>1, AloneStep
  <2>6. RequestInv'
    BY <1>1, <2>1, RequestStep
  <2>7. QED
    BY <2>2, <2>3, <2>4, <2>5, <2>6 DEF DaemonInv, Own
<1>2. CASE UNCHANGED vars
  <2>1. UNCHANGED <<plan, pc, conf, built, up, told, busy, hooked, side, seen, alone, ran,
                    recorded, writer, secret, port, launches, faults, signals>>
    BY <1>2 DEF vars, daemonVars, hostVars, storeVars, madeVars, procVars
  <2>2. DaemonTypes'
    BY <2>1 DEF DaemonInv, DaemonTypes
  <2>3. SchemaInv'
    BY <2>1 DEF DaemonInv, SchemaInv, MigratedOnce
  <2>4. ASSUME NEW p \in Procs
        PROVE  (ConfInv(p) /\ BuiltInv(p) /\ UpInv(p) /\ SideInv(p) /\ LockInv(p) /\ AloneInv(p))'
    BY <2>1 DEF DaemonInv, ConfInv, BuiltInv, UpInv, Bound, SideInv, LockInv, AloneInv, Undisturbed,
       Enrolled
  <2>5. RequestInv'
    BY <2>1 DEF DaemonInv, RequestInv, Enrolled, KeysOf
  <2>6. QED
    BY <2>2, <2>3, <2>4, <2>5 DEF DaemonInv
<1>3. QED
  BY <1>1, <1>2

(* The inductive invariant holds of every behaviour of the daemon, from    *)
(* main() to the last line of the lifespan (app.py:235).                   *)
THEOREM DaemonAlways == Spec => []DaemonInv
<1>1. Init => DaemonInv
  BY DaemonStarts
<1>2. DaemonInv /\ [Next]_vars => DaemonInv'
  BY DaemonStep
<1>3. QED
  BY <1>1, <1>2, PTL DEF Spec

-----------------------------------------------------------------------------
(* What follows from it                                                    *)

(* Every process that starts finds each migration committed once and in    *)
(* order, whoever crashed in one or raced for it, and serves alone only    *)
(* the schema of its own build (migrator.py:125, migrator.py:142).         *)
THEOREM SchemaAlwaysSound == Spec => []SchemaSound
<1>1. DaemonInv => SchemaSound
  <2> SUFFICES ASSUME DaemonInv PROVE SchemaSound
    OBVIOUS
  <2>1. \A p \in Procs : ConfInv(p) /\ UpInv(p) /\ SideInv(p) /\ LockInv(p) /\ AloneInv(p)
    BY DEF DaemonInv
  <2>2. DaemonTypes /\ MigratedOnce
    BY DEF DaemonInv, SchemaInv
  <2>3. DOMAIN conf = Procs /\ \A p \in Procs : DOMAIN conf[p] = Fields
    <3>1. DOMAIN conf = Procs
      BY <2>2 DEF DaemonTypes
    <3>2. ASSUME NEW p \in Procs PROVE DOMAIN conf[p] = Fields
      <4>1. CASE pc[p] = "off"
        BY <2>1, <4>1 DEF ConfInv, Fields
      <4>2. CASE pc[p] # "off"
        BY <2>1, <4>2, SettingsLoad DEF ConfInv
      <4>3. QED
        BY <4>1, <4>2
    <3>3. QED
      BY <3>1, <3>2
  <2>4. /\ plan \in Plans
        /\ pc \in [Procs -> Others \cup Uvicorn]
        /\ built \in [Procs -> SUBSET {"heart", "tick", "brain", "telemetry", "opencode"}]
        /\ told \in [Procs -> 0..2]
        /\ side \in [Procs -> {"none", "first", "second", "held", "stopping"}]
        /\ writer \in Procs \cup {Free} /\ port \in Procs \cup {Free}
    BY <2>2 DEF DaemonTypes, Parts, Sides
  <2>5. \A p \in Procs : /\ up[p] \subseteq built[p] \cup {"database"}
                         /\ side[p] = "held" /\ pc[p] \in Uvicorn => hooked[p]
    BY <2>1 DEF UpInv, SideInv
  <2>6. \A p \in Procs : /\ (writer = p) <=> pc[p] \in {"script", "commit"}
                         /\ (port = p) <=> pc[p] = "serve"
    BY <2>1 DEF LockInv
  <2>7. SchemaOfBuild
    BY <2>1 DEF SchemaOfBuild, AloneInv, Undisturbed, Ready
  <2>8. /\ busy \in [Procs -> BOOLEAN] /\ \A p \in Procs : busy[p] => pc[p] \in Serving
        /\ DOMAIN secret = Users
    BY DEF DaemonInv, RequestInv
  <2>9. TypeOK
    BY <2>3, <2>4, <2>5, <2>6, <2>8 DEF TypeOK
  <2>10. QED
    BY <2>2, <2>7, <2>9 DEF SchemaSound
<1>2. QED
  BY <1>1, DaemonAlways, PTL

(* A daemon that has its database for itself has a key when it holds TOTP  *)
(* secrets, and theirs when no launch brought another: a key that was      *)
(* changed is the only way to a secret that cannot be read                 *)
(* (encryption.py:49, encryption.py:110).                                  *)
THEOREM TotpAlwaysReadable == Spec => []TotpReadable
<1>1. DaemonInv => TotpReadable
  <2> SUFFICES ASSUME DaemonInv, NEW p \in Procs, pc[p] \in Serving, alone[p], NEW u \in Enrolled
               PROVE  /\ conf[p].key # None
                      /\ KeysOf(plan) = {conf[p].key} => secret[u] = conf[p].key
    BY DEF TotpReadable
  <2>1. AloneInv(p) /\ RequestInv
    BY DEF DaemonInv
  <2>2. pc[p] # "off" /\ pc[p] \in Ready
    BY DEF Serving, Ready
  <2>3. conf[p].key # None
    BY <2>1, <2>2 DEF AloneInv, Undisturbed
  <2>4. secret[u] \in KeysOf(plan)
    BY <2>1 DEF RequestInv
  <2>5. QED
    BY <2>3, <2>4
<1>2. QED
  BY <1>1, DaemonAlways, PTL

(* The lifespan closes nothing that something running still uses, whatever *)
(* step of the startup or the shutdown raised, but for the runs its        *)
(* bounded stop gave up on; a request finds up to its answer all that was  *)
(* built, and an executor that is observed (app.py:235, app.py:298).       *)
THEOREM UsedAlwaysUp == Spec => []UsedIsUp
<1>1. DaemonInv => UsedIsUp
  <2> SUFFICES ASSUME DaemonInv, NEW p \in Procs
               PROVE  /\ "tick" \in up[p] => {"heart", "database"} \cup ({"brain"} \cap built[p])
                                                \subseteq up[p]
                      /\ "opencode" \in up[p] /\ pc[p] \notin {"leave", "reap"} =>
                           "database" \in up[p]
                      /\ busy[p] => up[p] = built[p] \cup {"database"}
                      /\ busy[p] /\ "opencode" \in up[p] => "telemetry" \in up[p]
    BY DEF UsedIsUp
  <2>1. UpInv(p) /\ BuiltInv(p) /\ RequestInv /\ built[p] \subseteq Parts
    BY DEF DaemonInv, DaemonTypes
  <2>2. ASSUME busy[p]
        PROVE  up[p] = built[p] \cup {"database"}
    <3>1. pc[p] \in Serving
      BY <2>1, <2>2 DEF RequestInv
    <3>2. pc[p] \in Bound /\ pc[p] \in Branded /\ pc[p] \in Opened
      BY <3>1 DEF Bound, Branded, Opened, Serving
    <3>3. Parts \cap built[p] \subseteq up[p] /\ "database" \in up[p]
      BY <2>1, <3>2 DEF UpInv, Parts
    <3>4. QED
      BY <2>1, <3>3 DEF UpInv
  <2>3. ASSUME busy[p], "opencode" \in up[p]
        PROVE  "telemetry" \in up[p]
    BY <2>1, <2>2, <2>3 DEF BuiltInv
  <2>4. QED
    BY <2>1, <2>2, <2>3 DEF UpInv
<1>2. QED
  BY <1>1, DaemonAlways, PTL

-----------------------------------------------------------------------------
(* The Vector child                                                        *)

(* The steps at which a process may end.                                   *)
LEMMA EndingsAre ==
  ASSUME DaemonTypes, Next, NEW p \in Procs, pc[p] # "off", pc'[p] = "off"
  PROVE  End(p) /\ (Leave(p) \/ Reap(p) \/ Fail(p) \/ Signal(p) \/ Kill(p))
<1>1. ASSUME NEW q \in Procs,
             \/ SkipVector(q) \/ SpawnVector(q) \/ VectorLives(q) \/ VectorDies(q) \/ InstallHook(q)
             \/ Connect(q) \/ ReadVersions(q) \/ BeginMigration(q) \/ RunScript(q)
             \/ CommitMigration(q) \/ Migrated(q) \/ EnsureKey(q) \/ CreateApp(q)
             \/ Bind(q) \/ Drain(q) \/ Drained(q) \/ ForceExit(q) \/ AbandonRuns(q)
      PROVE  FALSE
  BY <1>1 DEF SkipVector, SpawnVector, VectorLives, VectorDies, InstallHook, Connect, ReadVersions,
     BeginMigration, RunScript, CommitMigration, Migrated, EnsureKey, CreateApp, Bind, Drain,
     Drained,
     ForceExit, AbandonRuns, Goto, DaemonTypes
<1>2. ASSUME NEW q \in Procs,
             \/ LoadHeart(q) \/ StartTick(q) \/ StartTelemetry(q) \/ SweepRuns(q)
             \/ StopTelemetry(q) \/ StopTick(q) \/ UnloadHeart(q) \/ CloseBrain(q)
             \/ StopOpencode(q) \/ CloseDatabase(q)
      PROVE  FALSE
  BY <1>2 DEF LoadHeart, StartTick, StartTelemetry, SweepRuns, StopTelemetry, StopTick, UnloadHeart,
     CloseBrain, StopOpencode, CloseDatabase, Begin, Cease, Goto, DaemonTypes
<1>3. ASSUME NEW q \in Procs, Leave(q) \/ Reap(q) \/ Fail(q) \/ Signal(q) \/ Kill(q)
      PROVE  End(q) /\ q = p
  <2>1. CASE End(q)
    BY <2>1 DEF End, Goto, DaemonTypes
  <2>2. CASE ~End(q)
    <3>1. \/ pc' = pc \/ pc' = [pc EXCEPT ![q] = "leave"] \/ pc' = [pc EXCEPT ![q] = "reap"]
      BY <1>3, <2>2 DEF Leave, Reap, Fail, Signal, Kill, Goto
    <3>2. QED
      BY <3>1 DEF DaemonTypes
  <2>3. QED
    BY <2>1, <2>2
<1>4. ASSUME NEW q \in Procs, Launch(q) PROVE FALSE
  <2>1. pc' = pc \/ pc' = [pc EXCEPT ![q] = "create"]
    BY <1>4 DEF Launch, Goto
  <2>2. QED
    BY <2>1 DEF DaemonTypes
<1>5. ASSUME NEW q \in Procs, Requests(q) \/ Observe(q) PROVE FALSE
  BY <1>5 DEF Requests, Accept, Answer, EnrolTotp, DropTotp, Observe, daemonVars, procVars
<1>6. ASSUME WallClock PROVE FALSE
  BY <1>6 DEF WallClock, daemonVars, procVars
<1>7. QED
  BY <1>1, <1>2, <1>3, <1>4, <1>5, <1>6 DEF Next, Boots, Stops

(* However a process ends, its Vector child is stopped before, but for a   *)
(* kill and for a signal outside of uvicorn (posture.py:126,               *)
(* sidecar.py:141).                                                        *)
THEOREM OrphansAreOfSignals == Spec => OrphansOnlyBySignal
<1> DEFINE Stopped ==
      \A p \in Procs :
        pc[p] # "off" /\ pc'[p] = "off" /\ side'[p] # "none" =>
          \/ faults' > faults
          \/ signals' > signals /\ pc[p] \in {"watch", "hook", "reap"}
<1>1. ASSUME DaemonInv, Next PROVE Stopped
  <2> SUFFICES ASSUME NEW p \in Procs, pc[p] # "off", pc'[p] = "off", side'[p] # "none"
               PROVE  \/ faults' > faults
                      \/ signals' > signals /\ pc[p] \in {"watch", "hook", "reap"}
    OBVIOUS
  <2>1. DaemonTypes /\ SideInv(p)
    BY <1>1 DEF DaemonInv
  <2>2. faults \in Nat /\ signals \in Nat
    BY <2>1 DEF DaemonTypes
  <2>3. CASE Leave(p)
    <3>1. pc[p] = "leave" /\ ~(hooked[p] /\ side[p] = "held") /\ side' = side
      BY <2>1, <2>3 DEF Leave, Goto, DaemonTypes
    <3>2. side[p] = "none"
      BY <2>1, <3>1 DEF SideInv
    <3>3. QED
      BY <3>1, <3>2
  <2>4. CASE Reap(p)
    BY <2>1, <2>4 DEF Reap, DaemonTypes
  <2>5. CASE Fail(p) \/ Kill(p)
    BY <2>2, <2>5 DEF Fail, Kill
  <2>6. CASE Signal(p)
    <3>1. signals' > signals
      BY <2>2, <2>6 DEF Signal
    <3>2. pc[p] \in {"create", "dev", "watch", "hook", "reap"} /\ side' = side
      BY <2>6 DEF Signal
    <3>3. pc[p] \notin {"create", "dev"}
      BY <2>1, <3>2 DEF SideInv
    <3>4. QED
      BY <3>1, <3>2, <3>3
  <2>7. QED
    BY <1>1, <2>1, <2>3, <2>4, <2>5, <2>6, EndingsAre
<1>2. ASSUME UNCHANGED vars PROVE Stopped
  BY <1>2 DEF vars, daemonVars, procVars
<1>3. DaemonInv /\ [Next]_vars => [Stopped]_vars
  BY <1>1, <1>2
<1>4. QED
  BY <1>3, DaemonAlways, PTL DEF Spec, OrphansOnlyBySignal

-----------------------------------------------------------------------------
(* The trace of the runs                                                   *)

LEMMA TraceKinds ==
  ASSUME Next
  PROVE  \/ UNCHANGED traceVars
         \/ \E p \in Procs : Traced(conf[p])
         \/ Forget
<1>1. ASSUME NEW p \in Procs,
             \/ SkipVector(p) \/ SpawnVector(p) \/ VectorLives(p) \/ VectorDies(p) \/ InstallHook(p)
             \/ Connect(p) \/ ReadVersions(p) \/ BeginMigration(p) \/ RunScript(p)
             \/ CommitMigration(p) \/ Migrated(p) \/ EnsureKey(p) \/ CreateApp(p)
             \/ Bind(p) \/ Drain(p) \/ Drained(p) \/ ForceExit(p) \/ AbandonRuns(p)
             \/ Launch(p) \/ Requests(p)
      PROVE  UNCHANGED traceVars
  BY <1>1 DEF SkipVector, SpawnVector, VectorLives, VectorDies, InstallHook, Connect, ReadVersions,
     BeginMigration, RunScript, CommitMigration, Migrated, EnsureKey, CreateApp, Bind, Drain,
     Drained, ForceExit, AbandonRuns, Launch, Requests, Accept, Answer, EnrolTotp, DropTotp,
     telemetryVars
<1>2. ASSUME NEW p \in Procs,
             \/ LoadHeart(p) \/ StartTick(p) \/ StartTelemetry(p) \/ SweepRuns(p)
             \/ StopTelemetry(p) \/ StopTick(p) \/ UnloadHeart(p) \/ CloseBrain(p)
             \/ StopOpencode(p) \/ CloseDatabase(p)
      PROVE  UNCHANGED traceVars
  BY <1>2 DEF LoadHeart, StartTick, StartTelemetry, SweepRuns, StopTelemetry, StopTick, UnloadHeart,
     CloseBrain, StopOpencode, CloseDatabase, Begin, Cease, telemetryVars
<1>3. ASSUME NEW p \in Procs, Leave(p) \/ Reap(p) \/ Fail(p) \/ Signal(p) \/ Kill(p)
      PROVE  UNCHANGED traceVars \/ Forget
  BY <1>3 DEF Leave, Reap, Fail, Signal, Kill, End, telemetryVars
<1>4. ASSUME NEW p \in Procs, Observe(p)
      PROVE  UNCHANGED traceVars \/ Traced(conf[p])
  BY <1>4 DEF Observe, Sample
<1>5. ASSUME WallClock PROVE UNCHANGED traceVars
  BY <1>5 DEF WallClock, Later, traceVars
<1>6. QED
  BY <1>1, <1>2, <1>3, <1>4, <1>5 DEF Next, Boots, Stops

(* A line that takes the next number of its run.                           *)
LEMMA LineCounts ==
  ASSUME IsFiniteSet(trace), NEW r, NEW l, l.run = r, ~l.late, trace' = trace \cup {l},
         {x.seq : x \in LinesOf(r)} = 0..(Cardinality(LinesOf(r)) - 1),
         l.seq = Cardinality(LinesOf(r))
  PROVE  /\ Cardinality(LinesOf(r)) \in Nat
         /\ Cardinality(LinesOf(r)') = Cardinality(LinesOf(r)) + 1
         /\ {x.seq : x \in LinesOf(r)'} = 0..(Cardinality(LinesOf(r)') - 1)
<1> DEFINE old == LinesOf(r)
           n == Cardinality(old)
<1>1. LinesOf(r)' = old \cup {l}
  BY DEF LinesOf
<1>2. IsFiniteSet(old) /\ n \in Nat
  <2>1. old \subseteq trace
    BY DEF LinesOf
  <2>2. IsFiniteSet(old)
    BY <2>1, FS_Subset
  <2>3. QED
    BY <2>2, FS_CardinalityType
<1>3. l \notin old
  <2>1. \A x \in old : x.seq \in 0..(n - 1)
    OBVIOUS
  <2>2. l.seq \notin 0..(n - 1)
    BY <1>2
  <2>3. QED
    BY <2>1, <2>2
<1> HIDE DEF old
<1>4. Cardinality(old \cup {l}) = n + 1
  BY <1>2, <1>3, FS_AddElement
<1>5. {x.seq : x \in old \cup {l}} = {x.seq : x \in old} \cup {l.seq}
  OBVIOUS
<1>6. {x.seq : x \in old} = 0..(n - 1) /\ l.seq = n
  BY DEF old
<1>7. {x.seq : x \in old \cup {l}} = 0..n
  BY <1>2, <1>5, <1>6
<1>8. Cardinality(LinesOf(r)') = n + 1
  BY <1>1, <1>4
<1>9. {x.seq : x \in LinesOf(r)'} = 0..(Cardinality(LinesOf(r)') - 1)
  <2>1. {x.seq : x \in LinesOf(r)'} = 0..n
    BY <1>1, <1>7
  <2>2. (n + 1) - 1 = n
    BY <1>2
  <2>3. QED
    BY <1>8, <2>1, <2>2
<1>10. QED
  BY <1>2, <1>8, <1>9 DEF old

(* A line changes nothing of the other runs.                               *)
LEMMA OthersKeep ==
  ASSUME TraceInv, NEW r \in Runs, NEW event, NEW q \in Runs \ {r},
         trace' = trace \/ trace' = trace \cup {Line(r, event)},
         counters' = counters \/ counters' = Counted(r, event),
         status'[q] = status[q]
  PROVE  RunInv(q)'
<1>1. Line(r, event).run = r
  BY DEF Line
<1>2. {l \in trace' : l.run = q} = {l \in trace : l.run = q}
  BY <1>1
<1>3. LinesOf(q)' = LinesOf(q)
  BY <1>1 DEF LinesOf
<1>4. /\ (q \in DOMAIN counters') <=> (q \in DOMAIN counters)
      /\ q \in DOMAIN counters => counters'[q] = counters[q]
  BY DEF Counted, Over
<1>5. RunInv(q)
  BY DEF TraceInv
<1> DEFINE n == Cardinality(LinesOf(q))
<1>6. Cardinality(LinesOf(q)') = n /\ {l.seq : l \in LinesOf(q)'} = {l.seq : l \in LinesOf(q)}
  BY <1>3
<1>7. CASE status[q] = "none"
  BY <1>2, <1>4, <1>5, <1>6, <1>7 DEF RunInv
<1>8. CASE status[q] \in {"queued", "running"}
  <2>1. \A l \in trace' : l.run = q => l.event # "terminal" /\ ~l.late
    BY <1>2, <1>5, <1>8 DEF RunInv
  <2>2. q \in DOMAIN counters' /\ counters'[q] = n
    BY <1>4, <1>5, <1>8 DEF RunInv
  <2>3. QED
    BY <1>5, <1>6, <1>8, <2>1, <2>2 DEF RunInv
<1>9. CASE status[q] \notin {"none", "queued", "running"}
  BY <1>5, <1>6, <1>9 DEF RunInv
<1>10. QED
  BY <1>7, <1>8, <1>9

(* A numbered line of a run that has not ended.                            *)
LEMMA RecordSound ==
  ASSUME TraceInv, NEW r \in Runs, NEW event, status[r] \in {"none", "queued", "running"},
         trace' = trace \cup {Line(r, event)}, counters' = Counted(r, event),
         event = "terminal" => status'[r] = "ended",
         status'[r] # "none"
  PROVE  RunInv(r)'
<1> DEFINE n == Cardinality(LinesOf(r))
           l == Line(r, event)
<1>1. RunInv(r) /\ IsFiniteSet(trace)
  BY DEF TraceInv
<1>2. l.run = r /\ l.seq = NextSeq(r) /\ l.event = event /\ ~l.late
  BY DEF Line
<1>3. {x.seq : x \in LinesOf(r)} = 0..(n - 1)
  BY <1>1 DEF RunInv
<1>4. NextSeq(r) = n
  <2>1. CASE status[r] = "none"
    <3>1. LinesOf(r) = {} /\ r \notin DOMAIN counters
      BY <1>1, <2>1 DEF RunInv, LinesOf
    <3>2. QED
      BY <3>1, FS_EmptySet DEF NextSeq
  <2>2. CASE status[r] # "none"
    BY <1>1, <2>2 DEF RunInv, NextSeq
  <2>3. QED
    BY <2>1, <2>2
<1> HIDE DEF l
<1>5. /\ n \in Nat /\ Cardinality(LinesOf(r)') = n + 1
      /\ {x.seq : x \in LinesOf(r)'} = 0..(Cardinality(LinesOf(r)') - 1)
  <2>1. trace' = trace \cup {l}
    BY DEF l
  <2>2. QED
    BY <1>1, <1>2, <1>3, <1>4, <2>1, LineCounts
<1>6. CASE event = "terminal"
  BY <1>5, <1>6 DEF RunInv
<1>7. CASE event # "terminal"
  <2>1. r \in DOMAIN counters' /\ counters'[r] = n + 1
    BY <1>4, <1>7 DEF Counted, Over
  <2>2. \A x \in trace : x.run = r => x.event # "terminal" /\ ~x.late
    BY <1>1 DEF RunInv
  <2>3. \A x \in trace' : x.run = r => x.event # "terminal" /\ ~x.late
    BY <1>2, <1>7, <2>2 DEF l
  <2>4. QED
    BY <1>5, <2>1, <2>3 DEF RunInv
<1>8. QED
  BY <1>6, <1>7

(* The counter that is left after a line is of a run without a terminal    *)
(* one, or of one an intervention has come back to.                        *)
LEMMA RecordForgets ==
  ASSUME TraceInv, NEW r \in Runs, NEW event,
         status[r] = "ended" => event = "intervention",
         trace' = trace \cup {Line(r, event)}, counters' = Counted(r, event)
  PROVE  EndedAreForgotten'
<1> SUFFICES ASSUME NEW q \in DOMAIN counters'
             PROVE  \/ \A l \in trace' : l.run = q => l.event # "terminal"
                    \/ \E l \in trace' : l.run = q /\ l.late /\ l.event = "intervention"
  BY DEF EndedAreForgotten
<1>1. Line(r, event).run = r /\ Line(r, event).event = event
      /\ Line(r, event).late = (status[r] = "ended")
  BY DEF Line
<1>2. CASE q # r
  <2>1. q \in DOMAIN counters
    BY <1>2 DEF Counted, Over
  <2>2. \/ \A l \in trace : l.run = q => l.event # "terminal"
        \/ \E l \in trace : l.run = q /\ l.late /\ l.event = "intervention"
    BY <2>1 DEF TraceInv, EndedAreForgotten
  <2>3. QED
    BY <1>1, <1>2, <2>2
<1>3. CASE q = r /\ status[r] = "ended"
  BY <1>1, <1>3
<1>4. CASE q = r /\ status[r] # "ended"
  <2>1. event # "terminal"
    BY <1>4 DEF Counted
  <2>2. RunInv(r) /\ status[r] \in {"none", "queued", "running", "ended"}
    BY DEF TraceInv
  <2>3. \A l \in trace : l.run = r => l.event # "terminal"
    BY <1>4, <2>2 DEF RunInv
  <2>4. QED
    BY <1>1, <1>4, <2>1, <2>3
<1>5. QED
  BY <1>2, <1>3, <1>4

LEMMA TraceStep ==
  ASSUME TraceInv, [Next]_vars
  PROVE  TraceInv'
<1>1. CASE UNCHANGED traceVars
  <2>1. EndedAreForgotten'
    BY <1>1 DEF traceVars, TraceInv, EndedAreForgotten
  <2>2. \A r \in Runs : RunInv(r)'
    BY <1>1 DEF traceVars, TraceInv, RunInv, LinesOf
  <2>3. QED
    BY <1>1, <2>1, <2>2 DEF traceVars, TraceInv
<1>2. ASSUME NEW r \in Runs, NEW event, NEW s \in {"queued", "running", "ended"},
             status[r] = "ended" => event = "intervention" /\ s = "ended",
             event = "terminal" => s = "ended",
             trace' = trace \cup {Line(r, event)}, counters' = Counted(r, event),
             status' = [status EXCEPT ![r] = s]
      PROVE  TraceInv'
  <2>1. /\ IsFiniteSet(trace) /\ DOMAIN counters \subseteq Runs /\ RunInv(r)
        /\ status \in [Runs -> {"none", "queued", "running", "ended"}]
    BY DEF TraceInv
  <2>2. IsFiniteSet(trace')
    BY <1>2, <2>1, FS_AddElement
  <2>3. DOMAIN counters' \subseteq Runs
    BY <1>2, <2>1 DEF Counted, Over
  <2>4. status' \in [Runs -> {"none", "queued", "running", "ended"}]
        /\ status'[r] = s /\ \A q \in Runs \ {r} : status'[q] = status[q]
    BY <1>2, <2>1
  <2>5. EndedAreForgotten'
    BY <1>2, RecordForgets
  <2>6. \A q \in Runs \ {r} : RunInv(q)'
    BY <1>2, <2>4, OthersKeep
  <2>7. RunInv(r)'
    <3>1. CASE status[r] = "ended"
      <4>1. Line(r, event).late
        BY <3>1 DEF Line
      <4>2. LinesOf(r)' = LinesOf(r)
        BY <1>2, <4>1 DEF LinesOf
      <4>3. status'[r] = "ended"
        BY <1>2, <2>4, <3>1
      <4>4. {l.seq : l \in LinesOf(r)} = 0..(Cardinality(LinesOf(r)) - 1)
        BY <2>1 DEF RunInv
      <4>5. {l.seq : l \in LinesOf(r)'} = 0..(Cardinality(LinesOf(r)') - 1)
        BY <4>2, <4>4
      <4>6. QED
        BY <4>3, <4>5 DEF RunInv
    <3>2. CASE status[r] # "ended"
      BY <1>2, <2>1, <2>4, <3>2, RecordSound
    <3>3. QED
      BY <3>1, <3>2
  <2>8. QED
    BY <2>2, <2>3, <2>4, <2>5, <2>6, <2>7 DEF TraceInv
<1>3. ASSUME NEW p \in Procs, Traced(conf[p]) PROVE TraceInv'
  <2> DEFINE c == conf[p]
  <2>1. PICK r \in Runs :
          \/ Submit(c, r) \/ Start(c, r) \/ RunEvent(c, r) \/ Outcome(c, r)
          \/ Abandoned(r) \/ Intervene(c, r)
    BY <1>3 DEF Traced
  <2> HIDE DEF c
  <2>2. status \in [Runs -> {"none", "queued", "running", "ended"}]
    BY DEF TraceInv
  <2>3. CASE Submit(c, r)
    BY <1>2, <2>3 DEF Submit, Record
  <2>4. CASE Start(c, r)
    BY <1>2, <2>4 DEF Start, Record
  <2>5. CASE RunEvent(c, r)
    <3>1. /\ status[r] = "running" /\ status' = [status EXCEPT ![r] = "running"]
          /\ trace' = trace \cup {Line(r, "run_event")} /\ counters' = Counted(r, "run_event")
      BY <2>2, <2>5 DEF RunEvent, Record
    <3>2. QED
      BY <1>2, <3>1
  <2>6. CASE Outcome(c, r)
    BY <1>2, <2>6 DEF Outcome, Record
  <2>7. CASE Abandoned(r)
    <3>1. /\ status[r] \in {"queued", "running"} /\ status' = [status EXCEPT ![r] = "ended"]
          /\ trace' = trace /\ counters' = counters
      BY <2>7 DEF Abandoned
    <3>2. /\ status' \in [Runs -> {"none", "queued", "running", "ended"}]
          /\ status'[r] = "ended" /\ \A q \in Runs \ {r} : status'[q] = status[q]
      BY <2>2, <3>1
    <3>3. \A q \in Runs \ {r} : RunInv(q)'
      BY <3>1, <3>2, OthersKeep
    <3>4. RunInv(r)'
      <4>1. RunInv(r) /\ LinesOf(r)' = LinesOf(r)
        BY <3>1 DEF TraceInv, LinesOf
      <4>2. {l.seq : l \in LinesOf(r)'} = 0..(Cardinality(LinesOf(r)') - 1)
        BY <4>1 DEF RunInv
      <4>3. QED
        BY <3>2, <4>2 DEF RunInv
    <3>5. EndedAreForgotten'
      BY <3>1 DEF TraceInv, EndedAreForgotten
    <3>6. QED
      BY <3>1, <3>2, <3>3, <3>4, <3>5 DEF TraceInv
  <2>8. CASE Intervene(c, r)
    <3>1. /\ status[r] \in {"running", "ended"} /\ status' = [status EXCEPT ![r] = status[r]]
          /\ trace' = trace \cup {Line(r, "intervention")}
          /\ counters' = Counted(r, "intervention")
      BY <2>2, <2>8 DEF Intervene, Record
    <3>2. QED
      BY <1>2, <3>1
  <2>9. QED
    BY <2>1, <2>3, <2>4, <2>5, <2>6, <2>7, <2>8
<1>4. CASE Forget
  <2>1. /\ status' = [r \in Runs |-> IF status[r] = "none" THEN "none" ELSE "ended"]
        /\ DOMAIN counters' = {} /\ trace' = trace
    BY <1>4 DEF Forget
  <2>2. status' \in [Runs -> {"none", "queued", "running", "ended"}]
    BY <2>1
  <2>3. EndedAreForgotten'
    BY <2>1 DEF EndedAreForgotten
  <2>4. ASSUME NEW r \in Runs PROVE RunInv(r)'
    <3>1. RunInv(r) /\ LinesOf(r)' = LinesOf(r)
      BY <2>1 DEF TraceInv, LinesOf
    <3>2. {l.seq : l \in LinesOf(r)'} = 0..(Cardinality(LinesOf(r)') - 1)
      BY <3>1 DEF RunInv
    <3>3. status'[r] = "none" => status[r] = "none"
      BY <2>1
    <3>4. status'[r] \notin {"queued", "running"}
      BY <2>1
    <3>5. QED
      BY <2>1, <3>1, <3>2, <3>3, <3>4 DEF RunInv
  <2>5. QED
    BY <2>1, <2>2, <2>3, <2>4 DEF TraceInv
<1>5. CASE UNCHANGED vars
  BY <1>1, <1>5 DEF vars, telemetryVars
<1>6. QED
  BY <1>1, <1>3, <1>4, <1>5, TraceKinds

(* The numbers of a run's lines are 0, 1, 2... to its last, whatever was   *)
(* lost, interrupted or restarted, and a counter outlives its run only     *)
(* for an intervention (opencode/telemetry.py:294, opencode/telemetry.py   *)
(* :298).                                                                  *)
THEOREM TraceAlwaysSound == Spec => []TraceSound
<1>1. Init => TraceInv
  <2> SUFFICES ASSUME Init PROVE TraceInv
    OBVIOUS
  <2>1. /\ trace = {} /\ DOMAIN counters = {}
        /\ status = [r \in Runs |-> "none"]
    BY DEF Init, TelemetryInit
  <2>2. IsFiniteSet(trace) /\ Cardinality(trace) = 0
    BY <2>1, FS_EmptySet
  <2>3. ASSUME NEW r \in Runs PROVE RunInv(r)
    <3>1. LinesOf(r) = {} /\ Cardinality(LinesOf(r)) = 0 /\ 0..(0 - 1) = {}
      BY <2>1, <2>2 DEF LinesOf
    <3>2. QED
      BY <2>1, <3>1 DEF RunInv
  <2>4. EndedAreForgotten
    BY <2>1 DEF EndedAreForgotten
  <2>5. QED
    BY <2>1, <2>2, <2>3, <2>4 DEF TraceInv
<1>2. TraceInv /\ [Next]_vars => TraceInv'
  BY TraceStep
<1>3. TraceInv => TraceSound
  BY DEF TraceInv, TraceSound, GapsAreLosses, RunInv, LinesOf
<1>4. QED
  BY <1>1, <1>2, <1>3, PTL DEF Spec

-----------------------------------------------------------------------------
(* The bytes of a set of files                                             *)

\* What is known of the files of a family.
Stored(files) ==
  /\ IsFiniteSet(files)
  /\ \A f \in files : /\ DOMAIN f = {"name", "size", "mtime"}
                      /\ f.size \in Nat /\ f.mtime \in Nat

\* The bytes themselves.
Places(files) == UNION {{f} \X (1..f.size) : f \in files}

LEMMA PlacesOf ==
  ASSUME NEW f, f.size \in Nat
  PROVE  /\ IsFiniteSet({f} \X (1..f.size))
         /\ Cardinality({f} \X (1..f.size)) = f.size
<1>1. IsFiniteSet(1..f.size) /\ Cardinality(1..f.size) = f.size
  <2>1. 1 \in Int /\ f.size \in Int
    OBVIOUS
  <2>2. QED
    BY <2>1, FS_Interval
<1>2. IsFiniteSet({f}) /\ Cardinality({f}) = 1
  BY FS_Singleton
<1>3. QED
  BY <1>1, <1>2, FS_Product

LEMMA BytesTotal ==
  ASSUME NEW files, Stored(files)
  PROVE  IsFiniteSet(Places(files)) /\ Bytes(files) \in Nat
<1> DEFINE each == [f \in files |-> {f} \X (1..f.size)]
           parts == {{f} \X (1..f.size) : f \in files}
<1>1. each \in Surjection(files, parts)
  BY DEF Surjection
<1>2. IsFiniteSet(parts)
  <2> HIDE DEF each, parts
  <2> QED
    BY <1>1, FS_Surjection DEF Stored
<1>3. \A x \in parts : IsFiniteSet(x)
  BY PlacesOf DEF Stored
<1>4. IsFiniteSet(UNION parts)
  <2> HIDE DEF parts
  <2> QED
    BY <1>2, <1>3, FS_UNION
<1>5. QED
  BY <1>4, FS_CardinalityType DEF Places, Bytes

LEMMA BytesMonotone ==
  ASSUME NEW files, Stored(files), NEW some, some \subseteq files
  PROVE  Stored(some) /\ Bytes(some) <= Bytes(files)
<1>1. Stored(some)
  BY FS_Subset DEF Stored
<1>2. Places(some) \subseteq Places(files)
  BY DEF Places
<1>3. QED
  BY <1>1, <1>2, BytesTotal, FS_Subset DEF Bytes, Places

LEMMA BytesOfOne ==
  ASSUME NEW f, f.size \in Nat
  PROVE  Bytes({f}) = f.size
<1>1. UNION {{g} \X (1..g.size) : g \in {f}} = {f} \X (1..f.size)
  OBVIOUS
<1>2. QED
  BY <1>1, PlacesOf DEF Bytes

LEMMA BytesAdd ==
  ASSUME NEW files, Stored(files), NEW f, Stored({f}), f \notin files
  PROVE  Bytes(files \cup {f}) = Bytes(files) + f.size
<1> DEFINE old == Places(files)
           new == {f} \X (1..f.size)
<1>1. Places(files \cup {f}) = old \cup new
  BY DEF Places
<1>2. old \cap new = {}
  BY DEF Places
<1>3. IsFiniteSet(old) /\ IsFiniteSet(new) /\ Cardinality(new) = f.size /\ f.size \in Nat
  BY BytesTotal, PlacesOf DEF Stored
<1> HIDE DEF old, new
<1>4. Cardinality(old \cap new) = 0 /\ Cardinality(old) \in Nat
  BY <1>2, <1>3, FS_EmptySet, FS_CardinalityType
<1>5. Cardinality(old \cup new) = Cardinality(old) + f.size
  <2>1. Cardinality(old \cup new)
          = Cardinality(old) + Cardinality(new) - Cardinality(old \cap new)
    BY <1>3, FS_Union
  <2>2. QED
    BY <1>3, <1>4, <2>1
<1>6. QED
  BY <1>1, <1>5 DEF Bytes, Places, old

LEMMA BytesOfNone == Bytes({}) = 0
<1>1. UNION {{f} \X (1..f.size) : f \in {}} = {}
  OBVIOUS
<1>2. QED
  BY <1>1, FS_EmptySet DEF Bytes

(* The bytes of files that a renaming keeps apart or not.                  *)
LEMMA BytesRenamed ==
  ASSUME NEW files, Stored(files), NEW renamed, DOMAIN renamed = files,
         \A f \in files : renamed[f].size = f.size
  PROVE  Bytes({renamed[f] : f \in files}) <= Bytes(files)
<1> DEFINE new == {renamed[f] : f \in files}
           moved == [x \in Places(files) |-> <<renamed[x[1]], x[2]>>]
<1>1. \A x : x \in Places(files) <=> \E f \in files : \E i \in 1..f.size : x = <<f, i>>
  BY DEF Places
<1>2. \A x : x \in Places(new) <=> \E f \in files : \E i \in 1..f.size : x = <<renamed[f], i>>
  BY DEF Places
<1>3. moved \in Surjection(Places(files), Places(new))
  <2>1. ASSUME NEW x \in Places(files) PROVE moved[x] \in Places(new)
    BY <1>1, <1>2
  <2>2. ASSUME NEW y \in Places(new) PROVE \E x \in Places(files) : moved[x] = y
    <3>1. PICK f \in files : \E i \in 1..f.size : y = <<renamed[f], i>>
      BY <1>2
    <3>2. PICK i \in 1..f.size : y = <<renamed[f], i>>
      BY <3>1
    <3>3. <<f, i>> \in Places(files) /\ moved[<<f, i>>] = y
      BY <1>1, <3>2
    <3>4. QED
      BY <3>3
  <2>3. QED
    BY <2>1, <2>2 DEF Surjection
<1> HIDE DEF moved, new
<1>4. IsFiniteSet(Places(files))
  BY BytesTotal
<1>5. Cardinality(Places(new)) <= Cardinality(Places(files))
  BY <1>3, <1>4, FS_Surjection
<1>6. QED
  BY <1>5 DEF Bytes, Places, new

(* The bytes of the active file and those of the others.                   *)
LEMMA BytesSplit ==
  ASSUME NEW files, Stored(files)
  PROVE  Bytes(files) = Bytes(Rotated(files)) + ActiveSize(files)
<1> DEFINE active == {f \in files : IsActive(f)}
           old == Places(Rotated(files))
           new == Places(active)
<1>1. Places(files) = old \cup new /\ old \cap new = {}
  BY DEF Places, Rotated
<1>2. Stored(Rotated(files)) /\ Stored(active)
  BY BytesMonotone DEF Rotated
<1>3. IsFiniteSet(old) /\ IsFiniteSet(new)
  BY <1>2, BytesTotal
<1>4. Cardinality(old) = Bytes(Rotated(files)) /\ Cardinality(new) = ActiveSize(files)
  BY DEF Bytes, Places, ActiveSize
<1> HIDE DEF old, new
<1>5. Cardinality(old \cap new) = 0 /\ Cardinality(old) \in Nat /\ Cardinality(new) \in Nat
  BY <1>1, <1>3, FS_EmptySet, FS_CardinalityType
<1>6. Cardinality(old \cup new)
        = Cardinality(old) + Cardinality(new) - Cardinality(old \cap new)
  BY <1>3, FS_Union
<1>7. Cardinality(Places(files)) = Bytes(files)
  BY DEF Bytes, Places
<1>8. QED
  BY <1>1, <1>4, <1>5, <1>6, <1>7

(* A set of numbers up to N has a least one.                               *)
LEMMA LeastOf ==
  ASSUME NEW N \in Nat, NEW S, S \subseteq 1..N, S # {}
  PROVE  \E m \in S : \A n \in S : m <= n
<1> DEFINE R == StrictSubsetOrdering(1..N)
           T == {1..n : n \in S}
<1>1. IsFiniteSet(1..N)
  BY FS_Interval
<1>2. IsWellFoundedOn(R, FiniteSubsetsOf(1..N))
  BY <1>1, FS_StrictSubsetOrderingWellFounded
<1>3. T \subseteq FiniteSubsetsOf(1..N) /\ T # {}
  <2>1. \A n \in S : 1..n \in SUBSET (1..N)
    OBVIOUS
  <2>2. \A n \in S : 1..n \in FiniteSubsetsOf(1..N)
    BY <1>1, <2>1, FS_FiniteSubsetsOfFinite
  <2>3. QED
    BY <2>2
<1>4. PICK x \in T : \A y \in T : ~(<<y, x>> \in R)
  <2> HIDE DEF T, R
  <2> QED
    BY <1>2, <1>3, WFMin
<1>5. PICK m \in S : x = 1..m
  OBVIOUS
<1>6. ASSUME NEW n \in S, n < m PROVE FALSE
  <2>1. 1..n \subseteq 1..m /\ 1..n # 1..m
    <3>1. m \in 1..m /\ m \notin 1..n
      BY <1>6
    <3>2. QED
      BY <3>1, <1>6
  <2>2. 1..n \in T /\ 1..n \in SUBSET (1..N) /\ 1..m \in SUBSET (1..N)
    OBVIOUS
  <2>3. <<1..n, 1..m>> \in R
    BY <2>1, <2>2 DEF StrictSubsetOrdering
  <2>4. QED
    BY <1>4, <1>5, <2>2, <2>3
<1>7. QED
  BY <1>6

-----------------------------------------------------------------------------
(* The pass over a family                                                  *)

(* The order of the pass has every file once.                              *)
LEMMA OrderIs ==
  ASSUME NEW files, IsFiniteSet(files), NEW order \in ByAge(files)
  PROVE  /\ Cardinality(files) \in Nat
         /\ DOMAIN order = 1..Cardinality(files)
         /\ \A i, j \in DOMAIN order : i # j => order[i] # order[j]
         /\ \A i, j \in DOMAIN order : i < j => order[i].mtime <= order[j].mtime
         /\ files = {order[i] : i \in DOMAIN order}
<1> DEFINE n == Cardinality(files)
           image == {order[i] : i \in DOMAIN order}
<1>1. /\ order \in [1..n -> files]
      /\ \A i, j \in 1..n : i # j => order[i] # order[j]
      /\ \A i, j \in DOMAIN order : i < j => order[i].mtime <= order[j].mtime
  BY DEF ByAge, SetToSeqs
<1>2. n \in Nat
  BY FS_CardinalityType
<1> HIDE DEF n
<1>3. DOMAIN order = 1..n /\ image \subseteq files
  BY <1>1
<1>4. order \in Bijection(1..n, image)
  BY <1>1, <1>3 DEF Bijection, Injection, IsInjective, Surjection
<1>5. IsFiniteSet(1..n) /\ Cardinality(1..n) = n
  <2>1. 1 \in Int /\ n \in Int
    BY <1>2
  <2>2. QED
    BY <1>2, <2>1, FS_Interval
<1> HIDE DEF image
<1>6. IsFiniteSet(image) /\ Cardinality(image) = n
  <2>1. IsFiniteSet(image)
    BY <1>4, <1>5, FS_Surjection DEF Bijection
  <2>2. Cardinality(image) = Cardinality(1..n)
    BY <1>4, <1>5, FS_Surjection DEF Bijection
  <2>3. QED
    BY <1>5, <2>1, <2>2
<1>7. image = files
  BY <1>3, <1>6, FS_Subset DEF n
<1>8. QED
  BY <1>1, <1>2, <1>3, <1>7 DEF n, image

(* What the pass leaves is what it had left at the first file that it      *)
(* found the budget kept, or else the active file alone.                   *)
LEMMA PassEnds ==
  ASSUME NEW c, c.max_spool_bytes \in Nat,
         NEW files, Stored(files), NEW order \in ByAge(files)
  PROVE  \E m \in 1..(Cardinality(files) + 1) :
           /\ WithinBudget(c, order) = LeftAt(order, m)
           /\ m # Cardinality(files) + 1 => Bytes(LeftAt(order, m)) <= c.max_spool_bytes
           /\ \A i \in 1..Cardinality(files) :
                i < m => ~(Bytes(LeftAt(order, i)) <= c.max_spool_bytes)
<1> DEFINE n == Cardinality(files)
           Fits(i) == Bytes(LeftAt(order, i)) <= c.max_spool_bytes
           stops == {i \in 1..(n + 1) : i = n + 1 \/ Fits(i)}
<1>1. /\ n \in Nat /\ DOMAIN order = 1..n
      /\ files = {order[i] : i \in DOMAIN order}
  BY OrderIs DEF Stored
<1> HIDE DEF n
<1>2. \A i \in 1..(n + 1) : LeftAt(order, i) \subseteq files
  BY <1>1 DEF LeftAt
<1>3. \A i, j \in 1..(n + 1) : i <= j /\ Fits(i) => Fits(j)
  <2> SUFFICES ASSUME NEW i \in 1..(n + 1), NEW j \in 1..(n + 1), i <= j, Fits(i)
               PROVE Fits(j)
    OBVIOUS
  <2>1. LeftAt(order, j) \subseteq LeftAt(order, i)
    <3> SUFFICES ASSUME NEW k \in DOMAIN order, k >= j \/ IsActive(order[k])
                 PROVE order[k] \in LeftAt(order, i)
      BY DEF LeftAt
    <3>1. k \in 1..n
      BY <1>1
    <3>2. k >= j => k >= i
      BY <1>1, <3>1
    <3>3. QED
      BY <3>2 DEF LeftAt
  <2>2. Stored(LeftAt(order, i))
    BY <1>2, BytesMonotone
  <2>3. /\ Bytes(LeftAt(order, j)) <= Bytes(LeftAt(order, i))
        /\ Bytes(LeftAt(order, j)) \in Nat /\ Bytes(LeftAt(order, i)) \in Nat
    BY <2>1, <2>2, BytesMonotone, BytesTotal
  <2>4. QED
    BY <2>3
<1> HIDE DEF Fits
<1>4. stops \subseteq 1..(n + 1) /\ n + 1 \in stops /\ n + 1 \in Nat
  BY <1>1
<1>5. PICK m \in stops : \A i \in stops : m <= i
  <2> HIDE DEF stops
  <2> QED
    BY <1>4, LeastOf
<1>6. \A i \in 1..n : Fits(i) <=> i >= m
  BY <1>1, <1>3, <1>5
<1>7. WithinBudget(c, order) = LeftAt(order, m)
  <2>1. WithinBudget(c, order)
          = {order[i] : i \in {i \in DOMAIN order : IsActive(order[i]) \/ Fits(i)}}
    BY DEF WithinBudget, Fits
  <2>2. {i \in DOMAIN order : IsActive(order[i]) \/ Fits(i)}
          = {i \in DOMAIN order : i >= m \/ IsActive(order[i])}
    BY <1>1, <1>6
  <2>3. QED
    BY <2>1, <2>2 DEF LeftAt
<1>8. m # n + 1 => Fits(m)
  BY <1>5
<1>9. \A i \in 1..n : i < m => ~Fits(i)
  BY <1>1, <1>4, <1>5, <1>6
<1>10. QED
  BY <1>4, <1>7, <1>8, <1>9 DEF n, Fits

(* From one file of the pass to the next.                                  *)
LEMMA PassMoves ==
  ASSUME NEW files, Stored(files), NEW order \in ByAge(files),
         NEW i \in 1..Cardinality(files)
  PROVE  /\ IsActive(order[i]) => LeftAt(order, i) = LeftAt(order, i + 1)
         /\ ~IsActive(order[i]) =>
              /\ order[i] \notin LeftAt(order, i + 1)
              /\ LeftAt(order, i) = LeftAt(order, i + 1) \cup {order[i]}
              /\ Bytes(LeftAt(order, i)) = Bytes(LeftAt(order, i + 1)) + order[i].size
<1> DEFINE n == Cardinality(files)
<1>1. /\ n \in Nat
      /\ DOMAIN order = 1..n
      /\ \A k, j \in DOMAIN order : k # j => order[k] # order[j]
      /\ files = {order[k] : k \in DOMAIN order}
  BY OrderIs DEF Stored
<1>0. i \in 1..n
  OBVIOUS
<1> HIDE DEF n
<1>2. \A k \in 1..n : k >= i <=> k = i \/ k >= i + 1
  BY <1>0, <1>1
<1>3. i \in DOMAIN order
  BY <1>0, <1>1
<1>4. LeftAt(order, i) = LeftAt(order, i + 1) \cup {order[i]}
  BY <1>1, <1>2, <1>3 DEF LeftAt
<1>5. IsActive(order[i]) => order[i] \in LeftAt(order, i + 1)
  BY <1>3 DEF LeftAt
<1>6. ~IsActive(order[i]) => order[i] \notin LeftAt(order, i + 1)
  <2> SUFFICES ASSUME ~IsActive(order[i]), NEW k \in DOMAIN order,
                      k >= i + 1 \/ IsActive(order[k]), order[k] = order[i]
               PROVE FALSE
    BY DEF LeftAt
  <2>1. k # i
    <3>1. k >= i + 1
      OBVIOUS
    <3>2. QED
      BY <1>0, <1>1, <3>1
  <2>2. QED
    BY <1>1, <1>3, <2>1
<1>7. LeftAt(order, i + 1) \subseteq files /\ {order[i]} \subseteq files
  BY <1>1, <1>3 DEF LeftAt
<1>8. Stored(LeftAt(order, i + 1)) /\ Stored({order[i]})
  BY <1>7, BytesMonotone
<1>9. ~IsActive(order[i]) =>
        Bytes(LeftAt(order, i)) = Bytes(LeftAt(order, i + 1)) + order[i].size
  BY <1>4, <1>6, <1>8, BytesAdd
<1>10. QED
  BY <1>4, <1>5, <1>6, <1>9

-----------------------------------------------------------------------------
(* A line                                                                  *)

SpoolInv ==
  /\ clock \in Nat /\ errors \in Nat
  /\ spool = [family \in Families |-> spool[family]]
  /\ \A family \in Families : Stored(spool[family])

(* A full file makes room for the next.                                    *)
LEMMA RotationSound ==
  ASSUME NEW c, TelemetryOk(c), NEW files, Stored(files)
  PROVE  /\ Stored(RotateIfFull(c, files))
         /\ ActiveSize(RotateIfFull(c, files)) \in Nat
         /\ ActiveSize(RotateIfFull(c, files)) < c.max_file_bytes
         /\ Bytes(RotateIfFull(c, files)) <= Bytes(files)
<1> DEFINE renamed == [f \in files |->
                         IF IsActive(f) THEN [f EXCEPT !.name = <<clock, FreeCounter(files)>>]
                         ELSE f]
           rotated == {renamed[f] : f \in files}
<1>1. c.max_file_bytes \in Nat \ {0}
  BY DEF TelemetryOk
<1>2. ActiveSize(files) \in Nat
  <2>1. Stored({f \in files : IsActive(f)})
    BY BytesMonotone
  <2>2. QED
    BY <2>1, BytesTotal DEF ActiveSize
<1>3. CASE ActiveSize(files) < c.max_file_bytes
  BY <1>2, <1>3, BytesTotal DEF RotateIfFull
<1>4. CASE ~(ActiveSize(files) < c.max_file_bytes)
  <2>1. RotateIfFull(c, files) = rotated
    BY <1>4 DEF RotateIfFull
  <2>2. \A f \in files : /\ renamed[f].size = f.size /\ renamed[f].mtime = f.mtime
                         /\ DOMAIN renamed[f] = {"name", "size", "mtime"}
                         /\ ~IsActive(renamed[f])
    <3> SUFFICES ASSUME NEW f \in files
                 PROVE /\ renamed[f].size = f.size /\ renamed[f].mtime = f.mtime
                       /\ DOMAIN renamed[f] = {"name", "size", "mtime"}
                       /\ ~IsActive(renamed[f])
      OBVIOUS
    <3>1. DOMAIN f = {"name", "size", "mtime"}
      BY DEF Stored
    <3>2. CASE IsActive(f)
      <4>1. renamed[f] = [f EXCEPT !.name = <<clock, FreeCounter(files)>>]
        BY <3>2
      <4> HIDE DEF renamed
      <4>2. /\ renamed[f].size = f.size /\ renamed[f].mtime = f.mtime
            /\ DOMAIN renamed[f] = {"name", "size", "mtime"}
            /\ renamed[f].name = <<clock, FreeCounter(files)>>
        BY <3>1, <4>1
      <4>3. <<clock, FreeCounter(files)>> # <<>>
        OBVIOUS
      <4>4. QED
        BY <4>2, <4>3 DEF IsActive, ActiveName
    <3>3. CASE ~IsActive(f)
      BY <3>1, <3>3
    <3>4. QED
      BY <3>2, <3>3
  <2>3. renamed \in Surjection(files, rotated)
    BY DEF Surjection
  <2>4. IsFiniteSet(rotated)
    <3> HIDE DEF renamed, rotated
    <3> QED
      BY <2>3, FS_Surjection DEF Stored
  <2>0. DOMAIN renamed = files
    OBVIOUS
  <2> HIDE DEF renamed
  <2>5. Stored(rotated)
    BY <2>2, <2>4 DEF Stored
  <2>6. {f \in rotated : IsActive(f)} = {}
    BY <2>2
  <2>7. ActiveSize(rotated) = 0
    BY <2>6, BytesOfNone DEF ActiveSize
  <2>8. Bytes(rotated) <= Bytes(files)
    BY <2>0, <2>2, BytesRenamed
  <2>9. QED
    BY <1>1, <2>1, <2>5, <2>7, <2>8
<1>5. QED
  BY <1>3, <1>4

(* A line goes to the active file, and the others stay.                    *)
LEMMA AppendSound ==
  ASSUME NEW files, Stored(files), NEW size \in Nat,
         ActiveSize(files) \in Nat, clock \in Nat
  PROVE  /\ Stored(Appended(files, size))
         /\ Rotated(Appended(files, size)) = Rotated(files)
         /\ \E f \in Appended(files, size) :
              /\ {g \in Appended(files, size) : IsActive(g)} = {f}
              /\ f.size = ActiveSize(files) + size
         /\ Bytes(Appended(files, size)) = Bytes(files) + size
<1> DEFINE f == [name |-> ActiveName, size |-> ActiveSize(files) + size, mtime |-> clock]
<1>1. /\ DOMAIN f = {"name", "size", "mtime"} /\ IsActive(f)
      /\ f.size = ActiveSize(files) + size /\ f.size \in Nat /\ f.mtime \in Nat
  BY DEF IsActive
<1>2. Appended(files, size) = Rotated(files) \cup {f}
  BY DEF Appended
<1> HIDE DEF f
<1>3. IsFiniteSet(Rotated(files))
  BY FS_Subset DEF Stored, Rotated
<1>4. IsFiniteSet(Rotated(files) \cup {f})
  BY <1>3, FS_AddElement
<1>5. Stored(Rotated(files) \cup {f})
  BY <1>1, <1>4 DEF Stored, Rotated
<1>6. Bytes(Rotated(files) \cup {f}) = Bytes(Rotated(files)) + f.size
  <2>1. Stored(Rotated(files)) /\ Stored({f}) /\ f \notin Rotated(files)
    BY <1>1, <1>5, BytesMonotone DEF Rotated
  <2>2. QED
    BY <2>1, BytesAdd
<1>7. Bytes(Appended(files, size)) = Bytes(files) + size
  <2>1. Bytes(Rotated(files)) \in Nat
    BY <1>5, BytesMonotone, BytesTotal
  <2>2. QED
    BY <1>1, <1>2, <1>6, <2>1, BytesSplit
<1>8. QED
  BY <1>1, <1>2, <1>5, <1>7 DEF Rotated

(* A pass that has deleted what comes before the m-th, each while the      *)
(* budget was exceeded: what it deleted is the oldest, and was asked for.  *)
LEMMA OldestPass ==
  ASSUME NEW c, TelemetryOk(c), NEW files, Stored(files), NEW order \in ByAge(files),
         NEW m \in 1..(Cardinality(files) + 1),
         \A i \in 1..Cardinality(files) :
           i < m => ~(Bytes(LeftAt(order, i)) <= c.max_spool_bytes)
  PROVE  LET kept == LeftAt(order, m)
             gone == Rotated(files) \ kept
         IN  /\ kept \subseteq files
             /\ \A d \in gone, k \in Rotated(kept) : d.mtime <= k.mtime
             /\ gone # {} => \E d \in gone : Bytes(kept) + d.size > c.max_spool_bytes
<1> DEFINE kept == LeftAt(order, m)
           gone == Rotated(files) \ kept
           n == Cardinality(files)
           Total(i) == Bytes(LeftAt(order, i))
<1>1. c.max_spool_bytes \in Nat
  BY DEF TelemetryOk
<1>2. /\ n \in Nat /\ DOMAIN order = 1..n
      /\ \A i, j \in 1..n : i < j => order[i].mtime <= order[j].mtime
      /\ files = {order[i] : i \in 1..n}
  BY OrderIs DEF Stored
<1>3. m \in 1..(n + 1) /\ \A i \in 1..n : i < m => ~(Total(i) <= c.max_spool_bytes)
  OBVIOUS
<1>4. \A i \in 1..n : Stored({order[i]}) /\ order[i].size \in Nat /\ order[i].mtime \in Nat
  BY <1>2, BytesMonotone DEF Stored
<1> HIDE DEF n
<1>5. kept \subseteq files
  BY <1>2 DEF LeftAt
<1>6. Stored(kept) /\ Bytes(kept) \in Nat
  BY <1>5, BytesMonotone, BytesTotal
<1>7. ASSUME NEW d \in gone PROVE \E i \in 1..n : d = order[i] /\ i < m /\ ~IsActive(order[i])
  <2>1. d \in files /\ ~IsActive(d) /\ d \notin LeftAt(order, m)
    BY <1>7 DEF Rotated
  <2>2. PICK i \in 1..n : d = order[i]
    BY <1>2, <2>1
  <2>3. ~(i >= m)
    BY <1>2, <2>1, <2>2 DEF LeftAt
  <2>4. QED
    BY <1>2, <1>3, <2>1, <2>2, <2>3
<1>8. ASSUME NEW k \in Rotated(kept) PROVE \E j \in 1..n : k = order[j] /\ j >= m
  BY <1>2, <1>8 DEF Rotated, LeftAt
<1>9. ASSUME NEW d \in gone, NEW k \in Rotated(kept) PROVE d.mtime <= k.mtime
  <2>1. PICK i \in 1..n : d = order[i] /\ i < m
    BY <1>7, <1>9
  <2>2. PICK j \in 1..n : k = order[j] /\ j >= m
    BY <1>8, <1>9
  <2>3. i < j
    BY <1>2, <1>3, <2>1, <2>2
  <2>4. QED
    BY <1>2, <2>1, <2>2, <2>3
<1>10. ASSUME gone # {} PROVE \E d \in gone : Bytes(kept) + d.size > c.max_spool_bytes
  <2>1. \A d \in gone : d.size \in Nat
    BY DEF Stored, Rotated
  <2>2. CASE Bytes(kept) > c.max_spool_bytes
    BY <1>1, <1>6, <1>10, <2>1, <2>2
  <2>3. CASE ~(Bytes(kept) > c.max_spool_bytes)
    <3>1. m # 1
      <4>1. PICK i \in 1..n : i < m
        BY <1>7, <1>10
      <4>2. QED
        BY <1>2, <4>1
    <3>2. m - 1 \in 1..n /\ (m - 1) + 1 = m
      BY <1>2, <1>3, <3>1
    <3>3. ~(Total(m - 1) <= c.max_spool_bytes)
      BY <1>3, <3>2
    <3>4. LeftAt(order, m - 1) # LeftAt(order, m)
      <4>1. Total(m) \in Nat /\ Total(m) <= c.max_spool_bytes
        BY <1>1, <1>6, <2>3
      <4>2. QED
        BY <3>3, <4>1
    <3>5. /\ ~IsActive(order[m - 1])
          /\ order[m - 1] \notin kept
          /\ Total(m - 1) = Bytes(kept) + order[m - 1].size
      BY <3>2, <3>4, PassMoves DEF n
    <3>6. order[m - 1] \in gone
      BY <1>2, <3>2, <3>5 DEF Rotated
    <3>7. Bytes(kept) + order[m - 1].size > c.max_spool_bytes
      BY <1>1, <1>6, <2>1, <3>3, <3>5, <3>6
    <3>8. QED
      BY <3>6, <3>7
  <2>4. QED
    BY <2>2, <2>3
<1>11. QED
  BY <1>5, <1>9, <1>10

(* The files that a pass leaves: within the budget but for the last line,  *)
(* and of those it deletes the last is one the budget had no room for.     *)
LEMMA PassSound ==
  ASSUME NEW c, TelemetryOk(c), NEW size \in Nat \ {0},
         NEW files, Stored(files), NEW order \in ByAge(files),
         NEW f \in files, {g \in files : IsActive(g)} = {f},
         f.size < c.max_file_bytes + size
  PROVE  LET kept == WithinBudget(c, order)
             gone == Rotated(files) \ kept
         IN  /\ kept \subseteq files
             /\ Bytes(kept) < c.max_spool_bytes + size
             /\ \A d \in gone, k \in Rotated(kept) : d.mtime <= k.mtime
             /\ gone # {} => \E d \in gone : Bytes(kept) + d.size > c.max_spool_bytes
<1> DEFINE kept == WithinBudget(c, order)
           n == Cardinality(files)
<1>1. /\ c.max_spool_bytes \in Nat /\ c.max_file_bytes \in Nat
      /\ c.max_file_bytes <= c.max_spool_bytes
  BY DEF TelemetryOk
<1>2. n \in Nat /\ DOMAIN order = 1..n /\ files = {order[i] : i \in 1..n}
  BY OrderIs DEF Stored
<1>3. PICK m \in 1..(n + 1) :
        /\ kept = LeftAt(order, m)
        /\ m # n + 1 => Bytes(LeftAt(order, m)) <= c.max_spool_bytes
        /\ \A i \in 1..n : i < m => ~(Bytes(LeftAt(order, i)) <= c.max_spool_bytes)
  BY <1>1, PassEnds
<1>4. LET gone == Rotated(files) \ LeftAt(order, m)
      IN  /\ LeftAt(order, m) \subseteq files
          /\ \A d \in gone, k \in Rotated(LeftAt(order, m)) : d.mtime <= k.mtime
          /\ gone # {} => \E d \in gone : Bytes(LeftAt(order, m)) + d.size > c.max_spool_bytes
  BY <1>3, OldestPass
<1> HIDE DEF n
<1>5. Bytes(kept) \in Nat
  BY <1>3, <1>4, BytesMonotone, BytesTotal
<1>6. Bytes(kept) < c.max_spool_bytes + size
  <2>1. CASE m = n + 1
    <3>1. \A i \in 1..n : ~(i >= m)
      BY <1>2, <2>1
    <3>2. kept = {order[i] : i \in {i \in 1..n : IsActive(order[i])}}
      BY <1>2, <1>3, <3>1 DEF LeftAt
    <3>3. kept = {f}
      BY <1>2, <3>2
    <3>4. f.size \in Nat /\ Bytes(kept) = f.size
      BY <3>3, BytesOfOne DEF Stored
    <3>5. QED
      BY <1>1, <3>4
  <2>2. CASE m # n + 1
    BY <1>1, <1>3, <1>5, <2>2
  <2>3. QED
    BY <2>1, <2>2
<1>7. QED
  BY <1>3, <1>4, <1>6

(* A pass that stops short has done the first steps of a whole one.        *)
LEMMA StoppedSound ==
  ASSUME NEW c, TelemetryOk(c), NEW files, Stored(files), NEW order \in ByAge(files),
         NEW i \in DOMAIN order
  PROVE  LET kept == StoppedAt(c, order, i)
             gone == Rotated(files) \ kept
         IN  /\ kept \subseteq files
             /\ \A d \in gone, k \in Rotated(kept) : d.mtime <= k.mtime
             /\ gone # {} => \E d \in gone : Bytes(kept) + d.size > c.max_spool_bytes
<1> DEFINE n == Cardinality(files)
<1>1. c.max_spool_bytes \in Nat
  BY DEF TelemetryOk
<1>2. /\ n \in Nat /\ DOMAIN order = 1..n
      /\ \A k, j \in DOMAIN order : k # j => order[k] # order[j]
  BY OrderIs DEF Stored
<1>3. PICK m \in 1..(n + 1) :
        /\ WithinBudget(c, order) = LeftAt(order, m)
        /\ \A j \in 1..n : j < m => ~(Bytes(LeftAt(order, j)) <= c.max_spool_bytes)
  BY <1>1, PassEnds
<1> DEFINE l == IF i < m THEN i ELSE m
<1>4. l \in 1..(n + 1) /\ \A j \in 1..n : j < l => j < m
  BY <1>2
<1>5. \A j \in 1..n : j >= l <=> j >= i \/ j >= m
  BY <1>2
<1>6. \A j \in 1..n : order[j] \in LeftAt(order, m) <=> j >= m \/ IsActive(order[j])
  BY <1>2 DEF LeftAt
<1>7. StoppedAt(c, order, i) = LeftAt(order, l)
  <2> HIDE DEF l, n
  <2>1. {j \in DOMAIN order : j >= i \/ order[j] \in LeftAt(order, m)}
          = {j \in DOMAIN order : j >= l \/ IsActive(order[j])}
    BY <1>2, <1>5, <1>6
  <2>2. StoppedAt(c, order, i)
          = {order[j] : j \in {j \in DOMAIN order : j >= i \/ order[j] \in LeftAt(order, m)}}
    BY <1>3 DEF StoppedAt
  <2>3. QED
    BY <2>1, <2>2 DEF LeftAt
<1>8. \A j \in 1..n : j < l => ~(Bytes(LeftAt(order, j)) <= c.max_spool_bytes)
  BY <1>3, <1>4
<1> HIDE DEF l
<1>9. LET gone == Rotated(files) \ LeftAt(order, l)
      IN  /\ LeftAt(order, l) \subseteq files
          /\ \A d \in gone, k \in Rotated(LeftAt(order, l)) : d.mtime <= k.mtime
          /\ gone # {} => \E d \in gone : Bytes(LeftAt(order, l)) + d.size > c.max_spool_bytes
  BY <1>4, <1>8, OldestPass
<1>10. QED
  BY <1>7, <1>9

(* What the writing of a line does to a family, and to the others.         *)
LEMMA LineSound ==
  ASSUME SpoolInv, NEW c, TelemetryOk(c), NEW family \in Families,
         NEW size \in LineBytes, WriteLine(c, family, size)
  PROVE  /\ SpoolInv'
         /\ \A other \in Families \ {family} : spool'[other] = spool[other]
         /\ Bytes(spool'[family]) < c.max_spool_bytes + size
         /\ LET gone == {f \in Rotated(RotateIfFull(c, spool[family])) :
                           /\ f \notin spool'[family]
                           /\ f.mtime >= clock - c.retention}
            IN  /\ \A d \in gone, k \in Rotated(spool'[family]) : d.mtime <= k.mtime
                /\ gone # {} =>
                     \E d \in gone : Bytes(spool'[family]) + d.size > c.max_spool_bytes
<1> DEFINE room == RotateIfFull(c, spool[family])
           full == Appended(room, size)
           live == Unexpired(c, full)
           gone == {f \in Rotated(room) : /\ f \notin spool'[family]
                                          /\ f.mtime >= clock - c.retention}
<1>1. PICK order \in ByAge(live) :
        spool' = [spool EXCEPT ![family] = WithinBudget(c, order)]
  BY DEF WriteLine, Swept
<1>2. clock' = clock /\ clock \in Nat /\ errors' = errors /\ errors \in Nat /\ size \in Nat \ {0}
  BY LineAssumption DEF WriteLine, SpoolInv
<1>3. Stored(room) /\ ActiveSize(room) \in Nat /\ ActiveSize(room) < c.max_file_bytes
  BY RotationSound DEF SpoolInv
<1>4. c.max_file_bytes \in Nat
  BY DEF TelemetryOk
<1> HIDE DEF room
<1>5. /\ Stored(full) /\ Rotated(full) = Rotated(room)
      /\ \E f \in full : /\ {g \in full : IsActive(g)} = {f}
                         /\ f.size = ActiveSize(room) + size
  BY <1>2, <1>3, AppendSound
<1> HIDE DEF full
<1>6. PICK f \in full : /\ {g \in full : IsActive(g)} = {f}
                        /\ f.size = ActiveSize(room) + size
  BY <1>5
<1>7. /\ live \subseteq full
      /\ Rotated(live) = {g \in Rotated(room) : g.mtime >= clock - c.retention}
      /\ f \in live /\ {g \in live : IsActive(g)} = {f}
  BY <1>5, <1>6 DEF Unexpired, Rotated
<1>8. Stored(live) /\ f.size < c.max_file_bytes + size
  BY <1>2, <1>3, <1>4, <1>5, <1>6, <1>7, BytesMonotone
<1> HIDE DEF live
<1>9. LET kept == WithinBudget(c, order)
      IN  /\ kept \subseteq live
          /\ Bytes(kept) < c.max_spool_bytes + size
          /\ \A d \in Rotated(live) \ kept, k \in Rotated(kept) : d.mtime <= k.mtime
          /\ Rotated(live) \ kept # {} =>
               \E d \in Rotated(live) \ kept : Bytes(kept) + d.size > c.max_spool_bytes
  BY <1>2, <1>7, <1>8, PassSound
<1>10. /\ spool'[family] = WithinBudget(c, order)
       /\ spool' = [other \in Families |-> spool'[other]]
       /\ \A other \in Families \ {family} : spool'[other] = spool[other]
  BY <1>1 DEF SpoolInv
<1>11. gone = Rotated(live) \ spool'[family]
  BY <1>7
<1>12. Stored(spool'[family])
  BY <1>8, <1>9, <1>10, BytesMonotone
<1>13. SpoolInv'
  BY <1>2, <1>10, <1>12 DEF SpoolInv, Stored
<1>14. QED
  BY <1>9, <1>10, <1>11, <1>13 DEF room

(* What a write that is cut short does: a family has at most the line      *)
(* more, and what a sweep that stopped short deleted is as above.          *)
LEMMA CutSound ==
  ASSUME SpoolInv, NEW c, TelemetryOk(c), NEW files, Stored(files),
         NEW size \in Nat \ {0}, NEW left \in CutShort(c, files, size)
  PROVE  /\ Stored(left)
         /\ Bytes(left) <= Bytes(files) + size
         /\ LET gone == {f \in Rotated(RotateIfFull(c, files)) :
                           f \notin left /\ f.mtime >= clock - c.retention}
            IN  left # files /\ gone # {} =>
                  /\ \A d \in gone, k \in Rotated(left) : d.mtime <= k.mtime
                  /\ \E d \in gone : Bytes(left) + d.size > c.max_spool_bytes
<1> DEFINE ready == RotateIfFull(c, files)
           full == Appended(ready, size)
           live == Unexpired(c, full)
           gone == {f \in Rotated(ready) : f \notin left /\ f.mtime >= clock - c.retention}
<1>1. Bytes(files) \in Nat /\ clock \in Nat
  BY BytesTotal DEF SpoolInv
<1>2. /\ Stored(ready) /\ ActiveSize(ready) \in Nat
      /\ Bytes(ready) \in Nat /\ Bytes(ready) <= Bytes(files)
  BY RotationSound, BytesTotal
<1>3. CASE left = files
  BY <1>1, <1>3
<1>4. CASE left = ready
  BY <1>1, <1>2, <1>4 DEF Rotated
<1>5. ASSUME NEW part \in 0..(size - 1), left = Appended(ready, part)
      PROVE  Stored(left) /\ Bytes(left) <= Bytes(files) + size /\ gone = {}
  <2> HIDE DEF ready
  <2>1. part \in Nat /\ part <= size
    OBVIOUS
  <2>2. /\ Stored(left) /\ Rotated(left) = Rotated(ready)
        /\ Bytes(left) = Bytes(ready) + part
    BY <1>1, <1>2, <1>5, <2>1, AppendSound
  <2>3. QED
    BY <1>1, <1>2, <2>1, <2>2 DEF Rotated
<1>6. /\ Stored(full) /\ Rotated(full) = Rotated(ready)
      /\ Bytes(full) = Bytes(ready) + size
  <2> HIDE DEF ready
  <2> QED
    BY <1>1, <1>2, AppendSound
<1>7. left \subseteq full => Stored(left) /\ Bytes(left) <= Bytes(files) + size
  <2> HIDE DEF ready, full
  <2> SUFFICES ASSUME left \subseteq full
               PROVE  Stored(left) /\ Bytes(left) <= Bytes(files) + size
    OBVIOUS
  <2>1. Stored(left) /\ Bytes(left) <= Bytes(full) /\ Bytes(left) \in Nat
    BY <1>6, BytesMonotone, BytesTotal
  <2>2. QED
    BY <1>1, <1>2, <1>6, <2>1
<1>8. /\ live \subseteq full
      /\ Rotated(live) = {f \in Rotated(ready) : f.mtime >= clock - c.retention}
  BY <1>6 DEF Unexpired, Rotated
<1>9. ASSUME NEW expired \in SUBSET (full \ live), left = full \ expired
      PROVE  left \subseteq full /\ gone = {}
  <2> HIDE DEF ready, full, live
  <2>1. Rotated(live) \cap expired = {} /\ Rotated(live) \subseteq full
    BY <1>8, <1>9 DEF Rotated
  <2>2. QED
    BY <1>8, <1>9, <2>1
<1>10. ASSUME NEW order \in ByAge(live), NEW i \in DOMAIN order, left = StoppedAt(c, order, i)
       PROVE  /\ left \subseteq full
              /\ gone # {} => /\ \A d \in gone, k \in Rotated(left) : d.mtime <= k.mtime
                              /\ \E d \in gone : Bytes(left) + d.size > c.max_spool_bytes
  <2> HIDE DEF ready, full, live
  <2>1. Stored(live)
    BY <1>6, <1>8, BytesMonotone
  <2>2. LET lost == Rotated(live) \ StoppedAt(c, order, i)
        IN  /\ StoppedAt(c, order, i) \subseteq live
            /\ \A d \in lost, k \in Rotated(StoppedAt(c, order, i)) : d.mtime <= k.mtime
            /\ lost # {} =>
                 \E d \in lost : Bytes(StoppedAt(c, order, i)) + d.size > c.max_spool_bytes
    BY <2>1, StoppedSound
  <2>3. gone = Rotated(live) \ left
    BY <1>8
  <2> HIDE DEF gone
  <2>4. QED
    BY <1>8, <1>10, <2>2, <2>3
<1>11. \/ left \in {files, ready}
       \/ \E part \in 0..(size - 1) : left = Appended(ready, part)
       \/ \E expired \in SUBSET (full \ live) : left = full \ expired
       \/ \E order \in ByAge(live) : \E i \in DOMAIN order : left = StoppedAt(c, order, i)
  BY DEF CutShort, HalfSwept
<1> HIDE DEF gone, full, live
<1>12. CASE \E part \in 0..(size - 1) : left = Appended(ready, part)
  BY <1>5, <1>12 DEF gone
<1>13. CASE \E expired \in SUBSET (full \ live) : left = full \ expired
  BY <1>7, <1>9, <1>13 DEF gone
<1>14. CASE \E order \in ByAge(live) : \E i \in DOMAIN order : left = StoppedAt(c, order, i)
  BY <1>7, <1>10, <1>14 DEF gone
<1>15. QED
  BY <1>3, <1>4, <1>11, <1>12, <1>13, <1>14

LEMMA FailSound ==
  ASSUME SpoolInv, NEW c, TelemetryOk(c), NEW family \in Families,
         NEW size \in LineBytes, WriteFails(c, family, size)
  PROVE  /\ SpoolInv' /\ errors' # errors
         /\ \A other \in Families \ {family} : spool'[other] = spool[other]
         /\ Bytes(spool'[family]) <= Bytes(spool[family]) + size
         /\ LET gone == {f \in Rotated(RotateIfFull(c, spool[family])) :
                           /\ f \notin spool'[family]
                           /\ f.mtime >= clock - c.retention}
            IN  spool'[family] # spool[family] /\ gone # {} =>
                  /\ \A d \in gone, k \in Rotated(spool'[family]) : d.mtime <= k.mtime
                  /\ \E d \in gone : Bytes(spool'[family]) + d.size > c.max_spool_bytes
<1>1. PICK left \in CutShort(c, spool[family], size) : spool' = [spool EXCEPT ![family] = left]
  BY DEF WriteFails
<1>2. /\ clock' = clock /\ clock \in Nat /\ errors' = errors + 1 /\ errors \in Nat
      /\ size \in Nat \ {0}
  BY LineAssumption DEF WriteFails, SpoolInv
<1>3. Stored(spool[family])
  BY DEF SpoolInv
<1>4. /\ spool'[family] = left
      /\ spool' = [other \in Families |-> spool'[other]]
      /\ \A other \in Families \ {family} : spool'[other] = spool[other]
  BY <1>1 DEF SpoolInv
<1>5. Stored(left)
  BY <1>2, <1>3, CutSound
<1>6. SpoolInv'
  BY <1>2, <1>4, <1>5 DEF SpoolInv, Stored
<1>7. QED
  BY <1>2, <1>3, <1>4, <1>6, CutSound

LEMMA SpoolKinds ==
  ASSUME Next
  PROVE  \/ UNCHANGED spoolVars
         \/ \E p \in Procs : Observe(p)
         \/ clock' = clock + 1 /\ UNCHANGED <<spool, errors>>
<1>1. ASSUME NEW p \in Procs,
             \/ SkipVector(p) \/ SpawnVector(p) \/ VectorLives(p) \/ VectorDies(p) \/ InstallHook(p)
             \/ Connect(p) \/ ReadVersions(p) \/ BeginMigration(p) \/ RunScript(p)
             \/ CommitMigration(p) \/ Migrated(p) \/ EnsureKey(p) \/ CreateApp(p)
             \/ Bind(p) \/ Drain(p) \/ Drained(p) \/ ForceExit(p) \/ AbandonRuns(p)
             \/ Launch(p) \/ Requests(p)
      PROVE  UNCHANGED spoolVars
  BY <1>1 DEF SkipVector, SpawnVector, VectorLives, VectorDies, InstallHook, Connect, ReadVersions,
     BeginMigration, RunScript, CommitMigration, Migrated, EnsureKey, CreateApp, Bind, Drain,
     Drained, ForceExit, AbandonRuns, Launch, Requests, Accept, Answer, EnrolTotp, DropTotp,
     telemetryVars
<1>2. ASSUME NEW p \in Procs,
             \/ LoadHeart(p) \/ StartTick(p) \/ StartTelemetry(p) \/ SweepRuns(p)
             \/ StopTelemetry(p) \/ StopTick(p) \/ UnloadHeart(p) \/ CloseBrain(p)
             \/ StopOpencode(p) \/ CloseDatabase(p)
      PROVE  UNCHANGED spoolVars
  BY <1>2 DEF LoadHeart, StartTick, StartTelemetry, SweepRuns, StopTelemetry, StopTick, UnloadHeart,
     CloseBrain, StopOpencode, CloseDatabase, Begin, Cease, telemetryVars
<1>3. ASSUME NEW p \in Procs, Leave(p) \/ Reap(p) \/ Fail(p) \/ Signal(p) \/ Kill(p)
      PROVE  UNCHANGED spoolVars
  BY <1>3 DEF Leave, Reap, Fail, Signal, Kill, End, Forget, telemetryVars
<1>4. ASSUME WallClock PROVE clock' = clock + 1 /\ UNCHANGED <<spool, errors>>
  BY <1>4 DEF WallClock, Later
<1>5. QED
  BY <1>1, <1>2, <1>3, <1>4 DEF Next, Boots, Stops

(* A process that observes has telemetry that loaded; it writes a line, or *)
(* is cut short in one, or leaves the spool alone.                         *)
LEMMA ObserveWrites ==
  ASSUME DaemonInv, NEW p \in Procs, Observe(p)
  PROVE  /\ TelemetryOk(conf[p])
         /\ \/ UNCHANGED spoolVars
            \/ \E family \in Families, size \in LineBytes :
                 WriteLine(conf[p], family, size) \/ WriteFails(conf[p], family, size)
<1>1. up[p] # {}
  BY DEF Observe
<1>2. TelemetryOk(conf[p])
  <2>1. ConfInv(p) /\ BuiltInv(p) /\ UpInv(p)
    BY DEF DaemonInv
  <2>2. pc[p] # "off"
    BY <1>1, <2>1 DEF BuiltInv
  <2>3. QED
    BY <2>1, <2>2 DEF ConfInv, Loads
<1>3. ASSUME Traced(conf[p])
      PROVE  UNCHANGED spoolVars \/ Write(conf[p], Opencode)
  BY <1>3 DEF Traced, Submit, Start, RunEvent, Outcome, Abandoned, Intervene, Record
<1>4. Samples \in Families /\ Opencode \in Families
  BY DEF Families
<1>5. QED
  BY <1>2, <1>3, <1>4 DEF Observe, Sample, Write

LEMMA SpoolStep ==
  ASSUME DaemonInv, SpoolInv, [Next]_vars
  PROVE  SpoolInv'
<1>1. CASE UNCHANGED spoolVars
  BY <1>1 DEF spoolVars, SpoolInv, Stored
<1>2. CASE clock' = clock + 1 /\ UNCHANGED <<spool, errors>>
  BY <1>2 DEF SpoolInv, Stored
<1>3. ASSUME NEW p \in Procs, Observe(p) PROVE SpoolInv'
  BY <1>1, <1>3, ObserveWrites, LineSound, FailSound
<1>4. QED
  BY <1>1, <1>2, <1>3, SpoolKinds DEF vars, telemetryVars

(* The files of a family are finitely many, whatever was written, rotated  *)
(* or deleted, and each has a size and a time (rotation.py:84).            *)
THEOREM SpoolAlwaysStored == Spec => []SpoolInv
<1>1. Init => SpoolInv
  <2> SUFFICES ASSUME Init PROVE SpoolInv
    OBVIOUS
  <2>1. clock = 0 /\ errors = 0 /\ spool = [family \in Families |-> {}]
    BY DEF Init, TelemetryInit
  <2>2. Stored({})
    BY FS_EmptySet DEF Stored
  <2>3. QED
    BY <2>1, <2>2 DEF SpoolInv
<1>2. DaemonInv /\ SpoolInv /\ [Next]_vars => SpoolInv'
  BY SpoolStep
<1>3. QED
  BY <1>1, <1>2, DaemonAlways, PTL DEF Spec

(* A line leaves its family within the budget but for itself, whatever the *)
(* writes before it were cut short at; one that is cut short adds no more  *)
(* than its line; and what a sweep deletes, ended or not, is the oldest    *)
(* and was asked for by the budget (rotation.py:105, rotation.py:129).     *)
THEOREM SpoolAlwaysSound == Spec => SpoolSound
<1> DEFINE Budget == \A p \in Procs : Observe(p) => Bounded(conf[p])
           Oldest == \A p \in Procs : Observe(p) => OldestGo(conf[p])
<1>1. ASSUME DaemonInv, SpoolInv, NEW p \in Procs, Observe(p)
      PROVE  Bounded(conf[p]) /\ OldestGo(conf[p])
  <2>1. TelemetryOk(conf[p])
    BY <1>1, ObserveWrites
  <2>2. CASE UNCHANGED spoolVars
    BY <2>2 DEF spoolVars, Bounded, OldestGo
  <2>3. ASSUME NEW family \in Families, NEW size \in LineBytes,
               WriteLine(conf[p], family, size)
        PROVE  Bounded(conf[p]) /\ OldestGo(conf[p])
    <3>1. /\ \A other \in Families \ {family} : spool'[other] = spool[other]
          /\ Bytes(spool'[family]) < conf[p].max_spool_bytes + size
      BY <1>1, <2>1, <2>3, LineSound
    <3>2. LET gone == {f \in Rotated(RotateIfFull(conf[p], spool[family])) :
                         /\ f \notin spool'[family]
                         /\ f.mtime >= clock - conf[p].retention}
          IN  /\ \A d \in gone, k \in Rotated(spool'[family]) : d.mtime <= k.mtime
              /\ gone # {} =>
                   \E d \in gone :
                     Bytes(spool'[family]) + d.size > conf[p].max_spool_bytes
      BY <1>1, <2>1, <2>3, LineSound
    <3>3. Bounded(conf[p])
      BY <2>3, <3>1 DEF Bounded, WriteLine
    <3>4. OldestGo(conf[p])
      BY <3>1, <3>2 DEF OldestGo
    <3>5. QED
      BY <3>3, <3>4
  <2>4. ASSUME NEW family \in Families, NEW size \in LineBytes,
               WriteFails(conf[p], family, size)
        PROVE  Bounded(conf[p]) /\ OldestGo(conf[p])
    <3>1. /\ \A other \in Families \ {family} : spool'[other] = spool[other]
          /\ errors' # errors /\ Bytes(spool'[family]) <= Bytes(spool[family]) + size
      BY <1>1, <2>1, <2>4, FailSound
    <3>2. LET gone == {f \in Rotated(RotateIfFull(conf[p], spool[family])) :
                         /\ f \notin spool'[family]
                         /\ f.mtime >= clock - conf[p].retention}
          IN  spool'[family] # spool[family] /\ gone # {} =>
                /\ \A d \in gone, k \in Rotated(spool'[family]) : d.mtime <= k.mtime
                /\ \E d \in gone :
                     Bytes(spool'[family]) + d.size > conf[p].max_spool_bytes
      BY <1>1, <2>1, <2>4, FailSound
    <3>3. Bounded(conf[p])
      BY <3>1 DEF Bounded
    <3>4. OldestGo(conf[p])
      BY <3>1, <3>2 DEF OldestGo
    <3>5. QED
      BY <3>3, <3>4
  <2>5. QED
    BY <1>1, <2>2, <2>3, <2>4, ObserveWrites
<1>2. DaemonInv /\ SpoolInv /\ [Next]_vars => [Budget]_vars /\ [Oldest]_vars
  BY <1>1
<1>3. QED
  BY <1>2, DaemonAlways, SpoolAlwaysStored, PTL
     DEF Spec, SpoolSound, SpoolBounded, OldestFirst

=============================================================================
