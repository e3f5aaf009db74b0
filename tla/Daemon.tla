------------------------------- MODULE Daemon -------------------------------
(***************************************************************************)
(* The life of the daemon's processes, from __main__.py to the last line   *)
(* of the lifespan: the settings, what create_app builds, the Vector child *)
(* of dev mode, the schema, the boot guards, the components started and    *)
(* stopped in order, signals and kills.  Two processes may be launched on  *)
(* the same database, port and spool; uvicorn binds the port only after    *)
(* the whole startup.                                                      *)
(***************************************************************************)
EXTENDS Telemetry

CONSTANTS
  Procs,        \* places a daemon is launched from: an installation each
  Bundled,      \* process -> the versions of the migrations of its build
  Plans,        \* what is launched, and how often what happens to it
  Resolutions,  \* what preflight may find of OpenCode on the host
  Users,        \* who may enrol a TOTP credential
  NoLaunch,
  Free          \* no process: of a lock or of the port

(* The sources of a plan are those of its processes, or NoLaunch.  The     *)
(* counters of the trace are of the one daemon that has an executor.       *)
ASSUME OneExecutor ==
  \A x \in Plans :
    /\ DOMAIN x = {"source", "launches", "faults", "signals", "observed", "time"}
    /\ Cardinality({p \in Procs : /\ x.source[p] # NoLaunch
                                  /\ Merged(x.source[p]).opencode}) <= 1

ASSUME FreeAssumption == Free \notin Procs

(* The migrations of a build are the files of a directory.                 *)
ASSUME BundledAssumption == \A p \in Procs : IsFiniteSet(Bundled[p])

VARIABLES
  plan,       \* the one of Plans that is followed
  pc,         \* process -> where it is; "off" when there is none
  conf,       \* process -> its settings
  built,      \* process -> the components create_app has built
  up,         \* process -> the components that hold their resource
  told,       \* process -> 1 when uvicorn is told to stop, 2 by a Ctrl-C after it
  busy,       \* process -> whether it has a request in flight
  hooked,     \* process -> whether the signal hook of dev mode is installed
  side,       \* process -> its Vector child
  seen,       \* process -> the versions it knows to be applied
  alone,      \* process -> no other process has lived since its launch
  ran,        \* the migration scripts committed, in order
  recorded,   \* the rows of schema_version
  writer,     \* who is in a write transaction of the migrator
  secret,     \* user -> the key the TOTP secret is sealed with, None without one
  port,       \* who listens
  launches, faults, signals

hostVars  == <<plan, launches, faults, signals>>
storeVars == <<ran, recorded, writer, secret>>
madeVars  == <<conf, built, alone>>
procVars  == <<pc, up, told, busy, hooked, side, seen, port>>
daemonVars == <<hostVars, storeVars, madeVars, procVars>>
vars == <<daemonVars, telemetryVars>>

Startup  == {"connect", "read", "migrate", "script", "commit", "guard",
             "heart", "tick", "telemetry", "opencode", "bind"}
Shutdown == {"stopTelemetry", "stopTick", "unloadHeart", "closeBrain",
             "stopOpencode", "closeDatabase"}
Serving  == {"serve", "drain"}
Uvicorn  == Startup \cup Serving \cup Shutdown
Others   == {"off", "create", "dev", "watch", "hook", "leave", "reap"}

Init ==
  /\ plan \in Plans
  /\ pc = [p \in Procs |-> "off"]
  /\ conf = [p \in Procs |-> Default]
  /\ built = [p \in Procs |-> {}]
  /\ up = [p \in Procs |-> {}]
  /\ told = [p \in Procs |-> 0]
  /\ busy = [p \in Procs |-> FALSE]
  /\ hooked = [p \in Procs |-> FALSE]
  /\ side = [p \in Procs |-> "none"]
  /\ seen = [p \in Procs |-> {}]
  /\ alone = [p \in Procs |-> FALSE]
  /\ ran = <<>>
  /\ recorded = {}
  /\ writer = Free
  /\ secret = [u \in Users |-> None]
  /\ port = Free
  /\ launches = 0
  /\ faults = 0
  /\ signals = 0
  /\ TelemetryInit

Goto(p, next) == pc' = [pc EXCEPT ![p] = next]

(* The end of a process, whichever way: the kernel closes its files and    *)
(* sockets, SQLite rolls its transaction back, its memory is gone.  A      *)
(* Vector child is in a session of its own and lives on.                   *)
End(p) ==
  /\ Goto(p, "off")
  /\ conf' = [conf EXCEPT ![p] = Default]
  /\ built' = [built EXCEPT ![p] = {}]
  /\ up' = [up EXCEPT ![p] = {}]
  /\ told' = [told EXCEPT ![p] = 0]
  /\ busy' = [busy EXCEPT ![p] = FALSE]
  /\ hooked' = [hooked EXCEPT ![p] = FALSE]
  /\ seen' = [seen EXCEPT ![p] = {}]
  /\ writer' = IF writer = p THEN Free ELSE writer
  /\ port' = IF port = p THEN Free ELSE port
  /\ IF "opencode" \in built[p] THEN Forget ELSE UNCHANGED telemetryVars
  /\ UNCHANGED <<ran, recorded, secret, alone>>

-----------------------------------------------------------------------------
(* main(): settings that do not load end the process at once.              *)
Launch(p) ==
  /\ pc[p] = "off"
  /\ plan.source[p] # NoLaunch
  /\ launches < plan.launches
  /\ launches' = launches + 1
  /\ IF Loads(plan.source[p])
     THEN /\ Goto(p, "create")
          /\ conf' = [conf EXCEPT ![p] = Merged(plan.source[p])]
          /\ side' = [side EXCEPT ![p] = "none"]
          /\ alone' = [q \in Procs |->
               q = p /\ \A o \in Procs \ {p} : pc[o] = "off"]
     ELSE UNCHANGED <<pc, conf, side, alone>>
  /\ UNCHANGED <<plan, faults, signals, storeVars, built, up, told, busy,
                 hooked, seen, port, telemetryVars>>

(* An executor is built when its binary is found, its version is the one   *)
(* required, its workspace is there, and the permissions it resolves are   *)
(* no looser than the rendered ones; when they cannot be had (<<>>), there *)
(* is nothing to compare.  Otherwise the daemon goes on without.           *)
Preflights(c, r) == c.opencode /\ c.telemetry /\ r.found /\ ~Looser(c, r.effective)

Components(c, r) ==
  {x \in {"heart", "tick", "brain", "telemetry", "opencode"} :
     \/ x \in {"heart", "tick"} /\ c.heart /\ (x = "tick" => c.tick)
     \/ x = "brain" /\ c.brain
     \/ x = "telemetry" /\ c.telemetry
     \/ x = "opencode" /\ Preflights(c, r)}

CreateApp(p) ==
  /\ pc[p] = "create"
  /\ \E r \in Resolutions : built' = [built EXCEPT ![p] = Components(conf[p], r)]
  /\ up' = [up EXCEPT ![p] = {"brain"} \cap built'[p]]
  /\ Goto(p, "dev")
  /\ UNCHANGED <<hostVars, storeVars, conf, alone, told, busy, hooked, side,
                 seen, port, telemetryVars>>

-----------------------------------------------------------------------------
(* Dev mode: the Vector child is spawned, watched for a moment, and spawned *)
(* once more when it has died; only then is its handle kept, and only then *)
(* is the signal hook installed.  A skipped preflight leaves both out.     *)
SkipVector(p) ==
  /\ pc[p] = "dev"
  /\ Goto(p, "connect")
  /\ UNCHANGED <<hostVars, storeVars, madeVars, up, told, busy, hooked, side,
                 seen, port, telemetryVars>>

SpawnVector(p) ==
  /\ pc[p] = "dev"
  /\ conf[p].dev /\ ShipsTelemetry(conf[p])
  /\ side' = [side EXCEPT ![p] = "first"]
  /\ Goto(p, "watch")
  /\ UNCHANGED <<hostVars, storeVars, madeVars, up, told, busy, hooked, seen,
                 port, telemetryVars>>

VectorLives(p) ==
  /\ pc[p] = "watch"
  /\ side' = [side EXCEPT ![p] = "held"]
  /\ Goto(p, "hook")
  /\ UNCHANGED <<hostVars, storeVars, madeVars, up, told, busy, hooked, seen,
                 port, telemetryVars>>

VectorDies(p) ==
  /\ pc[p] = "watch"
  /\ IF side[p] = "first"
     THEN side' = [side EXCEPT ![p] = "second"] /\ UNCHANGED pc
     ELSE side' = [side EXCEPT ![p] = "none"] /\ Goto(p, "hook")
  /\ UNCHANGED <<hostVars, storeVars, madeVars, up, told, busy, hooked, seen,
                 port, telemetryVars>>

InstallHook(p) ==
  /\ pc[p] = "hook"
  /\ hooked' = [hooked EXCEPT ![p] = TRUE]
  /\ Goto(p, "connect")
  /\ UNCHANGED <<hostVars, storeVars, madeVars, up, told, busy, side, seen,
                 port, telemetryVars>>

-----------------------------------------------------------------------------
(* The lifespan up to its yield.  What raises in it is not caught: uvicorn *)
(* reports a failed startup and the process leaves with nothing stopped.   *)
Connect(p) ==
  /\ pc[p] = "connect"
  /\ up' = [up EXCEPT ![p] = @ \cup {"database"}]
  /\ Goto(p, "read")
  /\ UNCHANGED <<hostVars, storeVars, madeVars, told, busy, hooked, side, seen,
                 port, telemetryVars>>

Contiguous(versions) == versions = 1..Cardinality(versions)

Migratable(p) ==
  /\ Contiguous(Bundled[p])
  /\ Contiguous(recorded)
  /\ Cardinality(recorded) <= Cardinality(Bundled[p])

ReadVersions(p) ==
  /\ pc[p] = "read"
  /\ seen' = [seen EXCEPT ![p] = recorded]
  /\ Goto(p, IF Migratable(p) THEN "migrate" ELSE "leave")
  /\ UNCHANGED <<hostVars, storeVars, madeVars, up, told, busy, hooked, side,
                 port, telemetryVars>>

Version(p) == Cardinality(seen[p]) + 1

(* Mutant: the transaction does not take the write lock when it begins.    *)
BeginMigrationMutant(p) ==
  /\ pc[p] = "migrate"
  /\ Version(p) \in Bundled[p]
  /\ writer' = p
  /\ Goto(p, "script")
  /\ UNCHANGED <<hostVars, ran, recorded, secret, madeVars, up, told, busy,
                 hooked, side, seen, port, telemetryVars>>

BeginMigration(p) ==
  /\ pc[p] = "migrate"
  /\ Version(p) \in Bundled[p]
  /\ writer = Free
  /\ writer' = p
  /\ Goto(p, "script")
  /\ UNCHANGED <<hostVars, ran, recorded, secret, madeVars, up, told, busy,
                 hooked, side, seen, port, telemetryVars>>

(* A script that has run already, because another process committed it     *)
(* after this one read the versions, fails on what it creates or on its    *)
(* row of schema_version, and is rolled back.                              *)
RunScript(p) ==
  /\ pc[p] = "script"
  /\ IF Version(p) \in recorded
     THEN Goto(p, "leave") /\ writer' = Free
     ELSE Goto(p, "commit") /\ UNCHANGED writer
  /\ UNCHANGED <<hostVars, ran, recorded, secret, madeVars, up, told, busy,
                 hooked, side, seen, port, telemetryVars>>

CommitMigration(p) ==
  /\ pc[p] = "commit"
  /\ ran' = Append(ran, Version(p))
  /\ recorded' = recorded \cup {Version(p)}
  /\ seen' = [seen EXCEPT ![p] = @ \cup {Version(p)}]
  /\ writer' = Free
  /\ Goto(p, "migrate")
  /\ UNCHANGED <<hostVars, secret, madeVars, up, told, busy, hooked, side,
                 port, telemetryVars>>

Migrated(p) ==
  /\ pc[p] = "migrate"
  /\ Version(p) \notin Bundled[p]
  /\ Goto(p, "guard")
  /\ UNCHANGED <<hostVars, storeVars, madeVars, up, told, busy, hooked, side,
                 seen, port, telemetryVars>>

(* Mutant: the stored secrets are not looked at.                           *)
EnsureKeyMutant(p) ==
  /\ pc[p] = "guard"
  /\ Goto(p, "heart")
  /\ UNCHANGED <<hostVars, storeVars, madeVars, up, told, busy, hooked, side,
                 seen, port, telemetryVars>>

(* TOTP secrets and no key at all are a reason not to boot; another key    *)
(* than theirs is not.  The catalog, roles and administrators follow       *)
(* (module AuthBoot).                                                      *)
Enrolled == {u \in Users : secret[u] # None}

EnsureKey(p) ==
  /\ pc[p] = "guard"
  /\ Goto(p, IF Enrolled # {} /\ conf[p].key = None THEN "leave" ELSE "heart")
  /\ UNCHANGED <<hostVars, storeVars, madeVars, up, told, busy, hooked, side,
                 seen, port, telemetryVars>>

(* The step of the lifespan at `at` starts x, if create_app has built it.  *)
Begin(p, at, x, next) ==
  /\ pc[p] = at
  /\ up' = [up EXCEPT ![p] = @ \cup ({x} \cap built[p])]
  /\ Goto(p, next)
  /\ UNCHANGED <<hostVars, storeVars, madeVars, told, busy, hooked, side, seen,
                 port, telemetryVars>>

LoadHeart(p) == Begin(p, "heart", "heart", "tick")
StartTick(p) == Begin(p, "tick", "tick", "telemetry")
StartTelemetry(p) == Begin(p, "telemetry", "telemetry", "opencode")
SweepRuns(p) == Begin(p, "opencode", "opencode", "bind")

(* uvicorn binds after the startup.  A signal it caught meanwhile makes it *)
(* leave without the shutdown of the lifespan; a port already taken makes  *)
(* it leave after it.                                                      *)
Bind(p) ==
  /\ pc[p] = "bind"
  /\ IF port # Free
     THEN Goto(p, "stopTelemetry") /\ UNCHANGED port
     ELSE /\ port' = IF told[p] = 0 THEN p ELSE Free
          /\ Goto(p, IF told[p] = 0 THEN "serve" ELSE "leave")
  /\ UNCHANGED <<hostVars, storeVars, madeVars, up, told, busy, hooked, side,
                 seen, telemetryVars>>

-----------------------------------------------------------------------------
(* Requests, of clients that may take their time.  One of them enrols a    *)
(* user who has no TOTP secret, which needs a key, or drops his.           *)
Accept(p) ==
  /\ pc[p] = "serve" /\ ~busy[p]
  /\ busy' = [busy EXCEPT ![p] = TRUE]
  /\ UNCHANGED <<hostVars, storeVars, madeVars, pc, up, told, hooked, side,
                 seen, port, telemetryVars>>

Answer(p) ==
  /\ busy[p]
  /\ busy' = [busy EXCEPT ![p] = FALSE]
  /\ UNCHANGED <<hostVars, storeVars, madeVars, pc, up, told, hooked, side,
                 seen, port, telemetryVars>>

EnrolTotp(p, u) ==
  /\ busy[p]
  /\ secret[u] = None
  /\ conf[p].key # None
  /\ secret' = [secret EXCEPT ![u] = conf[p].key]
  /\ UNCHANGED <<hostVars, ran, recorded, writer, madeVars, procVars,
                 telemetryVars>>

DropTotp(p, u) ==
  /\ busy[p]
  /\ secret' = [secret EXCEPT ![u] = None]
  /\ UNCHANGED <<hostVars, ran, recorded, writer, madeVars, procVars,
                 telemetryVars>>

Requests(p) ==
  \/ Accept(p)
  \/ Answer(p)
  \/ \E u \in Users : EnrolTotp(p, u) \/ DropTotp(p, u)

Observe(p) ==
  /\ plan.observed
  /\ \/ "telemetry" \in up[p] /\ Sample(conf[p])
     \/ "opencode" \in up[p] /\ Traced(conf[p])
  /\ UNCHANGED daemonVars

-----------------------------------------------------------------------------
(* Mutant: the first signal is swallowed.                                  *)
DrainMutant(p) ==
  /\ pc[p] = "serve"
  /\ told[p] > 1
  /\ port' = Free
  /\ Goto(p, "drain")
  /\ UNCHANGED <<hostVars, storeVars, madeVars, up, told, busy, hooked, side,
                 seen, telemetryVars>>

(* The shutdown: uvicorn closes its socket and waits, for no limit is set  *)
(* (__main__.py:74), until every request has been answered; then the       *)
(* lifespan stops one component after the other.  A Ctrl-C after the first *)
(* signal ends the wait, and skips the lifespan.                           *)
Drain(p) ==
  /\ pc[p] = "serve"
  /\ told[p] > 0
  /\ port' = Free
  /\ Goto(p, "drain")
  /\ UNCHANGED <<hostVars, storeVars, madeVars, up, told, busy, hooked, side,
                 seen, telemetryVars>>

Drained(p) ==
  /\ pc[p] = "drain"
  /\ told[p] = 1 /\ ~busy[p]
  /\ Goto(p, "stopTelemetry")
  /\ UNCHANGED <<hostVars, storeVars, madeVars, up, told, busy, hooked, side,
                 seen, port, telemetryVars>>

ForceExit(p) ==
  /\ pc[p] = "drain"
  /\ told[p] = 2
  /\ Goto(p, "leave")
  /\ busy' = [busy EXCEPT ![p] = FALSE]
  /\ UNCHANGED <<hostVars, storeVars, madeVars, up, told, hooked, side, seen,
                 port, telemetryVars>>

Cease(p, at, x, next) ==
  /\ pc[p] = at
  /\ up' = [up EXCEPT ![p] = @ \ {x}]
  /\ Goto(p, next)
  /\ UNCHANGED <<hostVars, storeVars, madeVars, told, busy, hooked, side, seen,
                 port, telemetryVars>>

StopTelemetry(p) == Cease(p, "stopTelemetry", "telemetry", "stopTick")
(* Mutant: the runtime is unloaded where the loop should be stopped.       *)
StopTickMutant(p) == Cease(p, "stopTick", "heart", "unloadHeart")

StopTick(p) == Cease(p, "stopTick", "tick", "unloadHeart")
UnloadHeart(p) == Cease(p, "unloadHeart", "heart", "closeBrain")
CloseBrain(p) == Cease(p, "closeBrain", "brain", "stopOpencode")
StopOpencode(p) == Cease(p, "stopOpencode", "opencode", "closeDatabase")

(* The wait for the runs is bounded: those still at work are left to it,   *)
(* with a database that is closed under them.                              *)
AbandonRuns(p) ==
  /\ pc[p] = "stopOpencode"
  /\ "opencode" \in up[p]
  /\ Goto(p, "closeDatabase")
  /\ UNCHANGED <<hostVars, storeVars, madeVars, up, told, busy, hooked, side,
                 seen, port, telemetryVars>>

CloseDatabase(p) == Cease(p, "closeDatabase", "database", "leave")

(* Mutant: a finally alone, which a signal raised again never reaches.     *)
LeaveMutant(p) ==
  /\ pc[p] = "leave"
  /\ IF hooked[p] /\ side[p] = "held" /\ told[p] = 0
     THEN /\ side' = [side EXCEPT ![p] = "stopping"]
          /\ Goto(p, "reap")
          /\ UNCHANGED <<storeVars, madeVars, up, told, busy, hooked, seen,
                         port, telemetryVars>>
     ELSE End(p) /\ UNCHANGED side
  /\ UNCHANGED hostVars

(* uvicorn is done.  It raises the signal it caught once more, which finds *)
(* the hook, or the process falls through to the finally of dev mode; both *)
(* stop the child, whose handle is let go before it is waited for.         *)
Leave(p) ==
  /\ pc[p] = "leave"
  /\ IF hooked[p] /\ side[p] = "held"
     THEN /\ side' = [side EXCEPT ![p] = "stopping"]
          /\ Goto(p, "reap")
          /\ UNCHANGED <<storeVars, madeVars, up, told, busy, hooked, seen,
                         port, telemetryVars>>
     ELSE End(p) /\ UNCHANGED side
  /\ UNCHANGED hostVars

(* Terminated, or killed when it does not exit in time.                    *)
Reap(p) ==
  /\ pc[p] = "reap"
  /\ side' = [side EXCEPT ![p] = "none"]
  /\ End(p)
  /\ UNCHANGED hostVars

-----------------------------------------------------------------------------
(* Any step of the startup or of the shutdown may raise.  create_app raises *)
(* when the Heart or the Brain has no adapter on this host, or a route of  *)
(* this build declares no permission; main() ends the process.             *)
Fail(p) ==
  /\ faults < plan.faults
  /\ faults' = faults + 1
  /\ \/ /\ pc[p] = "create"
        /\ End(p)
        /\ UNCHANGED side
     \/ /\ pc[p] \in (Startup \ {"bind"}) \cup Shutdown
        /\ Goto(p, "leave")
        /\ writer' = IF writer = p THEN Free ELSE writer
        /\ UNCHANGED <<ran, recorded, secret, madeVars, up, told, busy, hooked,
                       side, seen, port, telemetryVars>>
  /\ UNCHANGED <<plan, launches, signals>>

(* SIGINT or SIGTERM: uvicorn notes the first, and a Ctrl-C after it;      *)
(* before uvicorn and its hook, and inside the hook's own wait, a signal   *)
(* ends the process.                                                       *)
Signal(p) ==
  /\ signals < plan.signals
  /\ signals' = signals + 1
  /\ \/ /\ pc[p] \in {"create", "dev", "watch", "hook", "reap"}
        /\ End(p)
        /\ UNCHANGED side
     \/ /\ pc[p] \in Uvicorn
        /\ told[p] < 2
        /\ told' = [told EXCEPT ![p] = @ + 1]
        /\ UNCHANGED <<storeVars, madeVars, pc, up, busy, hooked, side, seen,
                       port, telemetryVars>>
  /\ UNCHANGED <<plan, launches, faults>>

Kill(p) ==
  /\ faults < plan.faults
  /\ faults' = faults + 1
  /\ pc[p] # "off"
  /\ End(p)
  /\ UNCHANGED <<plan, launches, signals, side>>

WallClock == Later(plan.time) /\ UNCHANGED daemonVars

Boots(p) ==
  \/ CreateApp(p)
  \/ SkipVector(p)
  \/ SpawnVector(p)
  \/ VectorLives(p)
  \/ VectorDies(p)
  \/ InstallHook(p)
  \/ Connect(p)
  \/ ReadVersions(p)
  \/ BeginMigration(p)
  \/ RunScript(p)
  \/ CommitMigration(p)
  \/ Migrated(p)
  \/ EnsureKey(p)
  \/ LoadHeart(p)
  \/ StartTick(p)
  \/ StartTelemetry(p)
  \/ SweepRuns(p)
  \/ Bind(p)

Stops(p) ==
  \/ Drain(p)
  \/ Drained(p)
  \/ ForceExit(p)
  \/ StopTelemetry(p)
  \/ StopTick(p)
  \/ UnloadHeart(p)
  \/ CloseBrain(p)
  \/ StopOpencode(p)
  \/ AbandonRuns(p)
  \/ CloseDatabase(p)
  \/ Leave(p)
  \/ Reap(p)

Next ==
  \/ \E p \in Procs :
       \/ Launch(p)
       \/ Boots(p)
       \/ Stops(p)
       \/ Requests(p)
       \/ Observe(p)
       \/ Fail(p)
       \/ Signal(p)
       \/ Kill(p)
  \/ WallClock

(* A process that can go on does: what it waits for, but the lock of the   *)
(* other's migration, is its own.  A client owes it nothing: no request is *)
(* sure to end.                                                            *)
Spec ==
  /\ Init
  /\ [][Next]_vars
  /\ \A p \in Procs : WF_vars(Boots(p) \/ Stops(p))

-----------------------------------------------------------------------------
TypeOK ==
  /\ plan \in Plans
  /\ pc \in [Procs -> Others \cup Uvicorn]
  /\ DOMAIN conf = Procs /\ \A p \in Procs : DOMAIN conf[p] = Fields
  /\ built \in [Procs -> SUBSET {"heart", "tick", "brain", "telemetry", "opencode"}]
  /\ \A p \in Procs : up[p] \subseteq built[p] \cup {"database"}
  /\ told \in [Procs -> 0..2]
  /\ side \in [Procs -> {"none", "first", "second", "held", "stopping"}]
  /\ \A p \in Procs : side[p] = "held" /\ pc[p] \in Uvicorn => hooked[p]
  /\ writer \in Procs \cup {Free} /\ port \in Procs \cup {Free}
  /\ \A p \in Procs : (writer = p) <=> pc[p] \in {"script", "commit"}
  /\ \A p \in Procs : (port = p) <=> pc[p] = "serve"
  /\ busy \in [Procs -> BOOLEAN] /\ \A p \in Procs : busy[p] => pc[p] \in Serving
  /\ DOMAIN secret = Users

(* Every migration takes effect once, in order, and schema_version tells   *)
(* which have: a crash between a script and its row, an error, or two      *)
(* processes that both found it pending (migrator.py:142) change nothing.  *)
MigratedOnce ==
  /\ ran = [i \in 1..Len(ran) |-> i]
  /\ recorded = 1..Len(ran)

(* A daemon that no other one lived beside serves the schema of its own    *)
(* build: not an older one, and it refuses a newer one (migrator.py:125).  *)
(* Beside another it may, for the versions are compared once.              *)
SchemaOfBuild ==
  \A p \in Procs :
    pc[p] = "serve" /\ alone[p] => Len(ran) = Cardinality(Bundled[p])

(* The database every process finds, crashes and races included.           *)
SchemaSound == TypeOK /\ MigratedOnce /\ SchemaOfBuild

(* The keys the launches of a plan bring.                                  *)
KeysOf(x) ==
  {Merged(x.source[p]).key : p \in {p \in Procs : x.source[p] # NoLaunch}} \ {None}

(* A lone daemon that serves has the key of every TOTP secret it holds,    *)
(* across restarts with and without one: the boot refuses when the key was *)
(* dropped.  Only a key that was changed makes a secret unreadable, for    *)
(* that is nowhere looked at: it counts as a code that does not match      *)
(* (encryption.py:49, encryption.py:110, step_up.py:118).                  *)
TotpReadable ==
  \A p \in Procs : pc[p] \in Serving /\ alone[p] =>
    \A u \in Enrolled :
      /\ conf[p].key # None
      /\ KeysOf(plan) = {conf[p].key} => secret[u] = conf[p].key

(* What holds a resource holds what it uses, whatever step of the startup  *)
(* or the shutdown raised: the tick its runtime, its Brain and the         *)
(* database; the runs the database, until their stop gave up on them; a    *)
(* request, up to its answer, all that was built; and an executor that     *)
(* serves is observed (app.py:235, app.py:298).                            *)
UsedIsUp ==
  \A p \in Procs :
    /\ "tick" \in up[p] => {"heart", "database"} \cup ({"brain"} \cap built[p])
                             \subseteq up[p]
    /\ "opencode" \in up[p] /\ pc[p] \notin {"leave", "reap"} => "database" \in up[p]
    /\ busy[p] => up[p] = built[p] \cup {"database"}
    /\ busy[p] /\ "opencode" \in up[p] => "telemetry" \in up[p]

(* A process leaves a Vector child behind only when it was killed, or when *)
(* a signal came before the hook was installed or while the hook waited    *)
(* for the child (posture.py:126, sidecar.py:141).                         *)
OrphansOnlyBySignal ==
  [][\A p \in Procs :
       pc[p] # "off" /\ pc'[p] = "off" /\ side'[p] # "none" =>
         \/ faults' > faults
         \/ signals' > signals /\ pc[p] \in {"watch", "hook", "reap"}]_vars

(* A daemon told to stop stops, wherever the signal found it, or waits for *)
(* a request that nobody ends; a Ctrl-C after that ends it all the same    *)
(* (app.py:298, __main__.py:74).                                           *)
ToldEnds ==
  \A p \in Procs :
    /\ told[p] > 0 ~> (pc[p] = "off" \/ [](pc[p] = "drain" /\ busy[p]))
    /\ told[p] > 1 ~> pc[p] = "off"

SpoolBounded ==
  [][\A p \in Procs : Observe(p) => Bounded(conf[p])]_vars

OldestFirst ==
  [][\A p \in Procs : Observe(p) => OldestGo(conf[p])]_vars

(* The spool: within its budget after every line that was written to its   *)
(* end, whatever failed before it, at the price of the oldest files alone  *)
(* (rotation.py:66, rotation.py:105).                                      *)
SpoolSound == SpoolBounded /\ OldestFirst
=============================================================================
