# Ansina in TLA+

Ansina is a single-process daemon: a FastAPI application over one SQLite file, an
always-on local model (the Heart) that decides once per interval whether to idle, act
or escalate, an optional remote model (the Brain), and an executor that runs the
OpenCode CLI as child processes. This directory models the parts of it where the
order of things matters, checks them with TLC on small instances and proves the
central facts with TLAPS for every instance. Paths below are relative to
`src/src/ansina/`.

## 1. Inventory

| Component | State it keeps | Operations | Interacts with |
|---|---|---|---|
| OpenCode run service (`opencode/service.py`) | tracked tasks, `_last_event_at`, `_intake_paused` | `submit`, `_execute`, `cancel`, `stop`, `pause_intake`, `resume_intake`, `apply_intervention` | runner, runs table, API routes, Heart |
| Runs table (`opencode/repository.py`) | one row per run: status, `intervention_count`, `retry_of` | `create`, `update_status`, `count_active`, `increment_intervention_count`, `sweep_stale_on_boot`, `sweep` | every write is one `BEGIN IMMEDIATE` transaction in a worker thread |
| CLI runner (`opencode/runner.py`, `process/handles.py`) | `_admitted`, a semaphore, one child per run | `run`, `_run_one`, `_read_stdout`, `_finish` | the child: stdout, exit code, SIGTERM, SIGKILL |
| Run trace (`opencode/telemetry.py`) | `_seq_by_run` | `record_submitted`, `record_started`, `record_event`, `record_outcome`, `record_intervention` | service, interventions, spool |
| Heart tick loop (`heart/tick/loop.py`) | slot number, stop event, in-flight flag, pause and its reason, gauges and totals | `start`, `stop`, `pause`, `resume`, `run`, `tick_once` | model runtime, decision handlers, API |
| Prompt and sources (`heart/tick/snapshot.py`, `sources/`) | none | `collect_items`, `build_prompt` | tick loop, runs table, journal |
| Heart journal and escalation (`heart/journal.py`, `heart/tick/*_handler.py`) | `heart_journal` rows | `append`, `sweep`, `handle` | tick loop, Brain |
| Fault injection (`heart/tick/fault_injection.py`) | a schedule of fault windows | `load_fault_schedule`, `handle` | tick loop |
| Heart interventions (`heart/tick/opencode_intervention_handler.py`) | `_last_intervention_tick`, `_recent_intervention_times` | `decide`, `handle`, `_escalate_to_brain` | run service, journal, Brain |
| Heart runtime (`heart/runtime.py`, `heart/adapters/mlx.py`) | the loaded model | load, generate, unload | tick loop, bench |
| Brain (`brain/`) | none between calls | `stream`, with retries before the first text | escalation handlers |
| Extraction, curation, triage (`heart/*.py`) | none | a prompt to the model, a parsed reply, a fallback | bench |
| Bench and reports (`heart/eval/`, `scripts/heart_soak_report.py`) | report files, a bucket | four suites and their gates; upload, publish | runtime, Brain, S3 |
| Boot of the identity tables (`auth/reconciler.py`, `bootstrap.py`, `policy.py`) | none of its own; writes resources, roles, permissions, users, identities, credentials | `sync_resources`, `reconcile_builtin_roles`, `ensure_bootstrap_admin`, `ensure_configured_admin` | lifespan of the API, RBAC tables |
| RBAC (`auth/repositories.py`, `management.py`, `role_sync.py`) | users, groups, roles, permissions, assignments, mappings, credentials | CRUD, soft delete, guards of the management calls, role sync | API authorization |
| Login, throttles, step-up (`auth/login_throttle.py`, `sudo.py`, `step_up.py`) | failure buckets with a window and a lock; sudo grants; one-time code floors; tokens | `check`, `record_failure`, `record_success`, `step_up`, `revoke`, enrolment | login, sudo and me routes |
| OIDC login (`auth/oidc.py`, `oidc_login.py`) | login states, external identities | start, callback, role sync | provider over HTTP, RBAC |
| Storage (`storage/database.py`, `migrator.py`) | per-thread connections; `schema_version` | `transaction`, `close`, `run_migrations` | everything |
| Settings (`config/settings.py`) | none | load, layer and validate | everything |
| Telemetry (`telemetry/`) | a spool of rotated files per writer | `write_line`, rotation, budgets, sampling loop | tick loop, run trace, logging |
| Dev mode (`dev/`) | one Vector child, a signal hook | spawn, watch, stop | `process/handles.py`, uvicorn |
| API (`api/`) | readiness, application state | lifespan start and stop, routes, middleware | all of the above |
| Terminal client (`src/tui`) | none | calls of the API | API |

### What is hard here

* Every database call is awaited through `anyio.to_thread.run_sync`. A native task
  cancellation abandons the await; the thread, once started, still commits. So writes
  of one run commit late and beside each other.
* A run can be cancelled at every await, repeatedly, before its first step, while it
  waits for a slot, while a slot is being handed to it, and while it waits for its
  child to die.
* A crash leaves rows and children behind; the next boot repairs rows.
* `asyncio.Semaphore` hands slots over in FIFO order; a waiter cancelled at that moment
  must pass its slot on.
* The tick loop keeps a fixed grid of deadlines against ticks of any length, jitter,
  pauses and stops, and its breaker counts streaks that are reset and raised in
  different places of one tick.
* The interventions' budgets are read before several queries and spent after them.
* A boot writes the identity tables in many transactions; a crash falls between any two,
  and the next boot may be another build with other settings.
* The throttles and several RBAC rules check in one transaction and write in another, with
  a slow password hash or a request to a provider in between.
* A Brain stream may fail after part of its text was delivered.
* The journal and the spool are swept after each write, with a clock that may step back
  and a crash between the write and the sweep.
* Two daemons can be launched on one database; the port that excludes the second is bound
  only after its whole startup. Signals may fall anywhere, also where no handler is
  installed yet.
* Reports of several hosts share the names of one bucket.

### What makes each component correct

* Runs: a terminal status is final; a live task always finds its row open; no slot or
  admission is lost; no row of a dead process stays active; every launched task ends.
* Tick loop: ticks never overlap; one tick per interval at most; only `stop()` ends the
  task, and it always does; a dead Heart pauses the loop; a pause reason is true.
* Interventions: cooldown, hourly ceiling and per-run budget hold; only failed runs are
  retried; every attempt is journaled.
* Login: a lock follows a real burst of failures and a burst locks; a one-time code and a
  login state serve once; who lost access before a login began gets no token from it.
* Boot of the identity tables: after any history of crashes and upgrades the builtin roles
  hold what the policy says; custom roles keep their grants; the bootstrap identity has one
  token at most and none while retired; a deleted user stays deleted.
* RBAC: an administrator remains; rows refer to what exists; a role sync ends at the claims
  and keeps to its own rows.
* Tick: the prompt holds the most urgent items, as many as fit up to the line breaks between
  them; the journal is the newest of what was decided and escalated; no text of the Brain is passed on twice; every tick ends.
* Bench and reports: a reply is tamed before it is used; PASS means what the gate of the
  suite promises; no report of another run is overwritten.
* Daemon: every migration takes effect once, in order; a lone daemon holds a key for the
  secrets it stores, the right one unless the key was changed; what is in use is up, requests
  included; told to stop, it stops, or waits for a request nobody ends; the spool is back in
  its budget after every completed write and the trace shows what it lost.

## 2. Modules

| Module | Models | Kind |
|---|---|---|
| `OpencodeRuns` | service, runs table, runner, child processes, shutdown, crash, boot | state machine |
| `RunLifecycle` | what a caller may rely on about one run's row and child | abstract specification |
| `OpencodeRunsProofs` | inductive invariant, refinement, what is given back, the boot sweep | proofs |
| `TickLoop` | `run`, `tick_once`, schedule, breaker | state machine |
| `TickLoopProofs` | schedule lemmas, loop and breaker invariants | proofs |
| `Interventions` | `decide` query by query, `apply_intervention`, restart | state machine |
| `InterventionsProofs` | the two budgets, the retries | proofs |
| `AuthBoot` | reconciler, bootstrap and configured admin at boot, crash, management calls | state machine |
| `AuthBootProofs` | the reconciler's result, tokens, tombstones, custom grants | proofs |
| `Rbac` | two management calls at once, authorization, role sync of a login | state machine |
| `RbacProofs` | the last administrator, references, the role sync | proofs |
| `Login` | password login, step-up, provider login, with time | state machine |
| `LoginProofs` | what is presented once, refused names, the throttle | proofs |
| `HeartTick` | one tick after another: prompt, faults, decision, Brain stream, journal | state machine |
| `HeartBench` | the bench command: fixtures, replies, gates; extends `HeartTick` for its prompt | state machine |
| `ReportStore` | local and shared report names, uploads, publishers | state machine |
| `HeartUse` | the three above as the processes that use the Heart | composition |
| `HeartProofs` | tick, bench and report store, of the composition | proofs |
| `Settings` | layers, defaults and validators of the configuration | operators |
| `Telemetry` | the spool, the sampler, the trace of runs; extends `Settings` | state machine |
| `Daemon` | the life of the processes: settings, migrations, lifespan, signals, Vector child; extends `Telemetry` | composition |
| `DaemonProofs` | the daemon's processes, the schema, the trace, the spool | proofs |
| `MCOpencodeRuns`, `MCInterventions`, `MCLogin` | symmetry sets and limits of the runs | TLC instances |
| `MCAuthBoot`, `MCDaemon` | two builds with different routes or migrations; what is launched | TLC instances |
| `MCRbac`, `MCHeart` | populated identity tables; schedules, fixture files and replies | TLC instances |

`TickLoop` is checked directly: its only constants are numbers and a set of callers.

### OpencodeRuns

One coroutine per run, `pc[r]`, from the submitting call to the end of its `_execute`
task; an await is a point between two actions. `row[r]` is `opencode_runs.status`,
`write[r]` the UPDATEs that were dispatched to threads and have not committed,
`verdict[r]` why the runner stops the child, `child[r]` the process, `slots` and
`ahead` the semaphore and its queue, `admitted` the counter, `lastEvent` the keys of
`_last_event_at`, `phase` and `downs` the daemon itself.

| Code | Actions |
|---|---|
| `submit` | `SubmitBegin`, `SubmitCount`, `SubmitCreate`, `SubmitLaunch` |
| `_execute`, `_update_status` | `Start`, `CommitWrite`, and the `Cancel...` actions |
| `run`, `_run_one`, `_finish` | `RunRefused`, `RunQueued`, `RunSpawn`, `RunSpawnFails`, `RunEvent`, `RunStopped`, `RunEof`, `FinishReaped`, `FinishKill`, `FinishJoined` |
| `cancel`, `stop`, crash, boot | `cancel`, `Stop`, `StopReturn`, `Crash`, `Boot` |

Left out: telemetry lines, the text of prompts and events, an oversized prompt (refused
before anything happens) and failures of SQLite itself. `uvicorn` drains requests
before the lifespan's shutdown, so `Stop` meets no submission under way; after it the
database is closed and a late write fails. `sweep()` of old rows has no caller in the
daemon. The first tick of the Heart waits a full interval, so the boot sweep, which runs
a moment later in the lifespan, precedes any use the Heart makes of the table.

### RunLifecycle

A row moves from none to queued, running and one terminal status; a child is spawned at
most once and for a running row; an outcome other than cancelled or swept is recorded
only of a child that is gone. `OpencodeRuns!ImplementsLifecycle` maps `status` to `row`
and keeps `child`.

### TickLoop

Time is an integer since `run()` read its start; the clock may advance between any two
steps, so any delay of the event loop is covered. `loop` and `pc["run"]` are where the
background task is suspended. `wait_for` may time out and the stop event be set in
either order, hence the separate "due" place. Collecting and generating are one stage,
"deciding": no code of the loop runs between them. Direct callers of `tick_once()` are
the constant `Callers`; the daemon has none of its own.

### Interventions

Of a run the module keeps what the policy's queries tell apart: healthy, stalled, failed
within the window or before it, ended. Each query is a step and runs move between
them. `attempts` and `applied` are history: the decisions, and the retries that were
resubmitted. `submit()` is one step here: its own races are `OpencodeRuns`' subject. The
Brain call inside an escalation is part of the step that writes its row. COMPACT is
never selected by the policy. The declined answer for a run that is not retryable is
not an action: `RetryTargetsFailed` shows that it cannot be reached.

### AuthBoot

`pc` is the place of the boot in the lifespan of `api/app.py`; "up" and "down" are the
daemon. Every repository call is a transaction of its own and a step: one resource
upserted or retired, one role seeded, one grant inserted or deleted, and the four writes
that make the bootstrap admin. `Down` may fall between any two of them; `StartBoot`
then chooses a build (a catalog of resources and served verbs) and settings anew. A
resource that is not catalogued is one with no verbs. Upserting a row that is already as
wanted changes nothing and is no step; the order within one loop over a set is left open.

While the daemon is up the management API is there in coarse steps, so that boots
start from what administrators leave: users created and deleted, first tokens, the admin
role assigned, the grants of custom roles replaced. Their own check-then-write races are
the subject of `Rbac`, as are groups, deactivation, self-service tokens and
the callers with roles other than admin. Tokens are counted per user; hashes, labels and
the printed banner are left out.

### Rbac

A call is served in the steps the code has: the token is resolved to a principal
(`Authenticate`: the roles are read once), `Authorize`, `Check` (every guard the handler and
its repository read before they write), and one action per write. `Check` of one call and the
commit of another may fall in any order; `fresh` is history and says that nobody wrote since
the guards were read. A call stands in for all calls of its route: what it names is chosen
when it is authorized. `SyncBegin`, `SyncAssign`, `SyncRevoke`, `SyncEnd` are the role sync of
a provider login, row by row. Left out: names and descriptions, listings, the rename of a
group, the reset of a user's one-time codes, and the guard of the bootstrap identity, which
is `AuthBoot`'s.

Several of the rules hold only while no other write falls between check and write; the code
takes no lock across the two. The properties say exactly that: `LastAdminHeld`,
`ReferencesSound` and `SyncConverges` except for stale writes, `SyncKeepsOthers` always.

### Login

`req[w]` is where the call of worker `w` stands. A failure is recorded as the code records it:
the row is read and the new row computed in `BumpGet`, written in `BumpSet`; a login does so
for the name and then for the address. `fails` is history: the failures as they were
recorded, with `None` for a success. The clock is read where the code reads it, so a
step-up's failure is dated back to its check. Codes are steps of the one-time clock. The
provider's answer is a choice; the state it is answered for is taken from the table first.

### HeartTick, HeartBench, ReportStore, HeartUse

`HeartTick` follows a tick through its awaits. `Collect` stands for the sources and the
budgeted prompt: five items of the daemon, three of OpenCode and one of the journal, each with
a cost of its own (`ItemCost`, any function of name and priority). The first item that does not
fit ends the filling, also for smaller ones behind it. The line breaks between the items are
counted by the runtime alone, which refuses a prompt they make too long: `PromptSound` says
what the budget does reach, `PromptFits` what its documentation says of it. `Generate` is the model's reply,
`JournalTick` and `SweepTick` the two transactions of `append()`, then the Brain's stream with
its retries, its own row and sweep, and the injected faults. The clock may step back once and
the daemon die once, between any two steps.

`HeartBench` loads a fixture file (any of the valid ones, or one that breaks a rule), puts
every line to a model that may answer anything, scores the replies and evaluates the gate of
the suite; a fault may end the command at every place. The Brain is built before the runtime,
so a command that ends because no runtime can be built (`NoRuntime`) or loaded (`LoadFails`)
leaves it open (`heart/eval/__main__.py:496-512`), and `NothingLeftLoaded` says exactly that. `Curate`, `Intervened`, `Explained`
and `Parsed` are the parsers with their fallbacks. `ReportStore` has the names of reports of
one day, model and variant: benches, soak renderers and publishers on two checkouts with one
bucket. `PassMeansInTime` says what the gate's p95 comes to: no more than one reply in twenty,
rounded, is late. The three share no state, so `HeartUse` runs each from its own initial
states instead of their product.

### Settings, Telemetry, Daemon

A source is a flag, an environment and a file; `Loads` is the conjunction of the validators
and `Merged` the layering, one layer `Over` the next. Permissions are compared as
`opencode/preflight.py` does: the one-word ones, never `edit` and `bash`, and nothing at all
when `opencode debug config` fails (an empty `effective`).

`Telemetry` has the spool as files with a size and a modification time. `WriteLine` is a write
that comes to its end: rotation, append, and a sweep by age and by budget. `WriteFails` is one
that does not, stopped by an error or by a kill: `CutShort` lists what it can leave, up to the
whole line appended and a sweep that deleted only some of what it should. No lock guards the
spool; the writes of one family are still one after the other, because the run trace writes on
the event loop without an await and the sampler awaits each of its own writes. The lines of a
run are numbered before they are written.

`Daemon` is `__main__.py` and the lifespan, one step per component, for up to two processes
on one database: settings, preflight, Vector child, `run_migrations` statement by statement,
the boot guard of stored secrets, start and stop of each component, `uvicorn`'s handling of
signals, errors of any step, kills. `up[p]` says which components hold their resource,
`busy[p]` whether a request is in flight. A request may enrol or drop a TOTP credential;
`secret[u]` remembers which key it was sealed with. `Drain` closes the port; `Drained` goes on
when no request is in flight, for which there is no limit, and a second Ctrl-C (`ForceExit`)
ends the wait without the shutdown of the lifespan. `StopOpencode` waits for the runs, but not
for ever: `AbandonRuns` goes on without them, and the database is closed under them. `Fail` is
any step of the startup or of the shutdown, `create_app` included: no Heart adapter, no Brain,
a route without a declared permission.

The processes are launched by plans (`MCDaemon`): the whole daemon twice, with a fault and two
signals; its telemetry with time and failing writes, with and without an executor; pairs of
bare ones of two builds, without a key, with one, and each with its own, launched three times;
and settings that do not load. A plan follows the spool or the life of processes, never both
in full, for the two share only which components are up. The trace is of the one daemon that
has an executor (`OneExecutor`). The boot of the identity tables is `AuthBoot`'s.

## 3. Runs

| Run | Bounds | Shows |
|---|---|---|
| `runs_cancel` | 3 runs, depth 2, 1 slot, any cancellations | `LiveTaskOwnsOpenRow`, `NothingLeaks`: task and row stay in step; counters exact; no idle slot |
| `runs_restart` | 2 runs, 2 crashes or shutdowns, with fairness | `NoStaleRowAfterBoot`, `ImplementsLifecycle`, `TasksEnd` |
| `tick` | 1 direct caller, 3½ intervals of 2 units, jitter up to 3, thresholds 2, with fairness | `Breaker`, `NoOverlap`, `OneTickPerInterval`, `StopEndsLoop` |
| `interventions` | 4 runs, 3 ticks per process, 1 restart, two instants an hour apart, ceiling 2, cooldown 2, 1 retry per run | `CooldownHeld`, `HourlyCapHeld`, `RetriesSound` |
| `auth_boot` | 3 resources (plain, `auth.`, `me.`), 2 builds, every setting, 1 custom role, 1 further user, 3 boots | `GrantsMatchPolicy`, `BootstrapTokens`, `CustomGrantsKept` |
| `rbac` | 2 calls, 1 sync, 2 users, 1 group, 1 custom role, 3 populations | `LastAdminHeld`, `ReferencesSound`, `SyncConverges`, `SyncKeepsOthers` |
| `login` | 2 calls, 2 names, 1 address, 3 instants, limit 2, 1 state, 1 enrolment, 1 loss of access | `LockJustified`, `BurstLocks`, `SpentOnce`, `NoTokenForRefused` |
| `heart` | 2 ticks, 4 schedules, 1 death, 1 step back of the clock, 1 retry; 18 fixture files; 2 reports on 2 checkouts, 1 fault, 1 publish | `PromptSound`, `JournalSound`, `DecidedIsJournaled`, `NoTextTwice`, `TickEnds`, `RepliesTamed`, `BenchSound`, `ReportsSound`, `OverwriteOnlyByRace` |
| `daemon` | the plans above, 1 user, 5 lines of 1 or 2 units in a spool of 4, 4 instants, 1 write cut short, with fairness | `SchemaSound`, `TotpReadable`, `UsedIsUp`, `TraceSound`, `SpoolSound`, `OrphansOnlyBySignal`, `ToldEnds` |

Why these bounds are enough for the cases that matter: one slot and three runs give a
holder, a waiter that is granted and a waiter behind it; a refused run needs one more
run than the depth; two downs give a crash of a daemon that already recovered; three
intervals and a half hold a streak of two ticks, what resets it, a jitter that skips a slot and
a stop in between; a ceiling of
two fills in one hour and empties in the next, with a restart that forgets it; three boots
are a crash, a recovery and a boot of the other build or of other settings. Two calls are
what a check-then-write race takes, and the three populations put every guard one call from
its edge. A limit of two failures is reached by two calls, alone or at once, and three
instants see a window or a lock end. A journal of two rows with a retention of one overflows
in either way within two escalating ticks; its items cost 1 to 3 tokens of a small budget, so
that prompts come that fit, that leave an item out, and that the runtime refuses. Five lines rotate a spool of two files and push it
over its budget with files of equal age.
Runs and workers are interchangeable, so symmetry is used where no liveness is checked.
`CHECK_DEADLOCK FALSE` is set where a bounded history simply ends.

Some properties are conjunctions of named parts which belong together
(`NothingLeaks`, `JournalSound`, `ReportsSound`, ...); the modules state each part by itself.

### Statements of the repository the code does not meet

| Run | Statement | What happens |
|---|---|---|
| `runs_stuck_queued` | a cancelled run is never left queued | cancelled before its first step, it is |
| `runs_orphan` | no child survives a clean exit | `stop()` gives up at the moment `kill()` was due |
| `prompt_fits` | every prompt of the tick fits the context (`heart/tick/snapshot.py:3-7`) | eight items that fill the budget are joined by seven line breaks that nobody has counted, and the runtime refuses the prompt |

`findings` in `PROJECT.json` quotes the lines. The models show more of the kind, and the
properties above are stated so that they hold beside it: two submissions can pass one depth
check, and the runner refuses the second when its row exists; ticks that fail in a handler
never trip the breaker, for the tick resets the gauge before its handlers run; a resubmission
refused by `submit()` leaves `apply_intervention()` by exception and is charged but not
journaled; a first boot that dies between its transactions can leave a bootstrap user without
identity or role, which no later boot repairs; an intervention on a run that has ended starts
its trace numbers from 0 again and keeps the counter for ever, against
`opencode/telemetry.py:58-62`, which says that the map never grows unbounded. Some further
statements are met in part, and no run is about them:

* `docs/opencode.md:131-135` says that the preflight refuses to proceed if anything looser than
  configured crept in. `edit` and `bash` are never compared, although both are rendered as one
  word when they are denied or allowed outright (`opencode/config.py:116-126`,
  `opencode/preflight.py:71`), and a failing `opencode debug config` skips the comparison
  (`opencode/preflight.py:143-152`).
* `config/settings.py:863-865` and `dev/posture.py:100` name SIGKILL as what can orphan a Vector
  child. So does any signal while the child is watched or awaited, where neither `uvicorn` nor
  the hook handles it; `OrphansOnlyBySignal` names those places.
* The boot refuses stored secrets without a key (`auth/encryption.py:110`). A key that was
  changed is noticed nowhere: each one-time code then counts as one that does not match
  (`auth/step_up.py:118-120`). `TotpReadable` says where the right key is certain.

### Fairness

`runs_restart` assumes weak fairness of each task's steps (asyncio runs what is ready),
of each dispatched commit (threads finish), of the timeout once due, and that a child
which closed its stdout exits: after end of file `_finish()` waits without a timeout, so
without this assumption a run may hang, as the hazard list says. No fairness is assumed of
callers, cancellations or children that still write. `tick` assumes weak fairness
of the loop's and of each tick's steps: a tick ends, by itself or by exception. `heart`
assumes weak fairness of the tick's steps (the model, the database and the Brain answer, fail
or time out); the bench and the publishers, which somebody starts by hand, have none. `daemon`
assumes weak fairness of each process's own boot and stop steps together: nothing a process
waits for is outside of it but the write lock of another's migration, whose holder goes on or
dies, and the requests in flight when it is told to stop. Clients owe it nothing, so `Answer`
has no fairness: `uvicorn.run` (`__main__.py:74`) sets no limit to its graceful shutdown, and
`ToldEnds` is "ends, or waits for a request for ever, and a second Ctrl-C ends it all the same".
No fairness of launches, signals, errors or kills.

## 4. Proofs

All theorems hold for every value of the constants under the named assumptions of the
modules, and for any number of restarts. The assumptions are what the settings' validators
and the types of the code give: finite sets of runs and reports, limits in the ranges of their
fields, fixture files that are lists with numbered events (`FilesAssumption`), replies that are
lists (`RepliesAssumption`), bounds that are numbers (`TickBounds`), a marker that is no process
(`FreeAssumption`), migrations that are the files of a directory (`BundledAssumption`), lines
that are not empty (`LineAssumption`: a line is a JSON object and a newline) and plans with one
executor (`OneExecutor`, which no proof uses). TLC
evaluates each of them on the instances it checks.

Every safety property of the passing runs is stated by a theorem.

* `OpencodeRunsProofs`: `RunInv` is inductive. `LiveTaskOwnsOpenRow` alone is not: a
  commit may change a row long after its coroutine moved on, so the invariant also says
  which UPDATEs may be pending at each place (`PendingWrites`), that a pending outcome
  stays true of its child until it commits (`OutcomeWrites`), what rows and children are at
  each place (`RowsAndChildren`) and that a dead process has no pending work
  (`DownIsQuiet`). From it: `TypeCorrect`, `LiveTaskRowOpen`, `TerminalFinal` and
  `Refinement`. `NothingLeaksEver` adds `LeakInv`: the parts of `NothingLeaks`, that only
  supervised tasks have an activity stamp, and that `ahead` is a strict total order of the
  waiters (`QueueOrder`). Without that order a release could wake more waiters than there are
  slots, or none; with it, `FirstBound` and its counterparts count whom a release wakes.
  `NoStaleRow` follows from `LostSettled`: a run its process took down has no UPDATE left that
  could commit, and its row is swept before the daemon serves again.
* `TickLoopProofs`: the catch-up of the schedule always finds a slot, never behind and with
  its successor in the future (`NextSlotAhead`, by a least counterexample). `LoopInv` ties
  the place of `run()` to its slot, its wait and its tick; from it `TicksNeverOverlap`,
  `LoopAlwaysOn` and `NoBurst`. `Breaker` adds the gauges; `DeadHeartTrips` and
  `ReasonHolds` are conditional on no direct call having been made, as in the daemon, which
  has no such callers (`StaysAlone` carries that condition back through the history): a caller
  whose tick succeeds between two failing ticks of `run()` rightly resets the gauge.
* `InterventionsProofs`: a gate read early is spent late. `BudgetInv` says what an open
  gate still promises at the later rungs of `decide()`, and that the pruned list of times
  holds every attempt of the last hour. From it `CooldownAlwaysHeld` and
  `HourlyCapAlwaysHeld`, the latter by counting the attempts of an hour as a subset of the
  list plus the new one. `RetriesAlwaysSound` needs `RetryInv`: what was applied is charged, about
  to be, or was lost to a restart (`Counted`), and what is about to be applied is still retryable
  and within its budget (`Targeted`), although the runs move between the queries.
* `AuthBootProofs`: `TypeOK` is inductive. `GrantsMatchPolicy` is not: it speaks of the end of
  the reconciler. The invariant says what each stage has established (the upserted part of
  the catalog, the retired part, the roles seeded and the roles reconciled before `at`) and
  that `BUILTIN_ROLES` lists each role once, so reconciling one leaves the others; from it
  `ReconcilerReachesPolicy`. `OneBootstrapToken` and `RetiredHoldsNoToken` need that no
  token exists while the first boot is under way and that without an identity row the
  token route still gives at most one. `TombstonesFinal` rests on both provisioning
  functions counting tombstones as users, `BootKeepsCustomGrants` on custom slugs not being
  builtin ones.
* `RbacProofs`: from any well-typed tables with no call in progress. What a handler checked
  is the key: `PromiseInv` says that a call nobody disturbed since its check (`fresh`) still
  passes; a write makes the other checks old, and no other step writes. From it
  `LastAdminKept` (whoever stays active and keeps a row of the role and the way to it stays
  an administrator, `SomeAdminStays`) and `ReferencesStaySound`. `HalfWay` relates the
  provider's rows to what a role sync has still to add and to drop; from it
  `SyncReachesDesired`. All four properties of the `rbac` run are proved.
* `LoginProofs`: `WasInv` carries the names allowed at the beginning of a call to its end,
  which gives `RefusedGetNoToken`. `PresentedOnce` needs two invariants: `StatesInv` (a
  stored state has a fresh id and has not been redeemed) and `CodesInv` (without overlap at
  most one call is in progress, no accepted code is above its credential's floor, and one
  about to be accepted is above all of them). `LocksAreJustified` holds however the calls
  overlap: a row that counts n failures is backed by n failures of the history within one
  window, and so is the row a call is about to write (`LockInv`, by counting places of the
  history). `BurstsAlwaysLock` holds without overlap: the row counts the streak that the history
  ends with, unless that streak has gone cold (`StreakInv`).
* `HeartProofs`: of `UseSpec`, so of the tick, the bench and the report store in one theorem
  each.
  - `NoTextEverTwice`: only an attempt without text is repeated (`StreamInv`).
  - `JournalAlwaysSound`, `DecidedAreJournaled`: `JournalInv` is what holds of the table at any
    place (`TableInv`: it is part of the history, which is in the order of the clock until that
    steps back) and what each place of the tick adds (`PlaceInv`: whose row is the last, how
    many there are). A sweep takes the oldest, so what was ever swept is older than what is left.
  - `PromptAlwaysSound`: the order of `collect_items` is one (`Sorted`, shown to be a stable
    sorting by counting predecessors), and `Fitting` is its longest prefix within the budget
    whatever the items cost (`Used` counts the tokens of a prefix), so the text is over the
    budget by its line breaks at most (`TextFits`).
  - `RepliesAlwaysTamed`, `BenchAlwaysSound`: `BenchInv` types a result by its suite; the gates
    see counts and rates, so each count of zero is brought back to every result it is over, and
    the p95 to a bound on the late ones.
  - `ReportsAlwaysSound`, `OverwritesOnlyByRace`: `StoreInv`, as long as no two are at work at
    once (`beside`): at most one works (`AloneInv`), what it writes next is free, what it wrote
    is still there (`WriterInv`, `PublisherInv`), and without faults every file has its mate or
    its mate is on the way (`PairInv`). A stem is 1 or some report's, so a free one exists.
* `DaemonProofs`: `DaemonInv` says of each process what it lives with (`ConfInv`), what it has
  built (`BuiltInv`), what is up at each place (`UpInv`), what has become of its Vector child
  (`SideInv`), and which locks it holds (`LockInv`); of the database that the versions a process
  knows are the first so many of those that ran, all of them when it commits (`SchemaInv`): that
  is why the second of two that found a migration pending fails rather than repeats it. A process
  without another beside it knows more, place by place, from the comparison of the versions to
  the look at the stored secrets (`AloneInv`). From it `SchemaAlwaysSound`, `TotpAlwaysReadable` (every secret was sealed
  with the key of a launch), `UsedAlwaysUp` (with `RequestInv`: a request in flight holds a
  process in `serve` or `drain`) and `OrphansAreOfSignals`. `TraceAlwaysSound` needs `TraceInv`: while a run is open its counter is
  the number of its lines, so the next line is new. `SpoolAlwaysSound` needs that the families
  are finite sets of sized files (`SpoolAlwaysStored`) and that whoever writes has settings that
  load (`ConfInv`): a file size over the budget would break it. A rotation changes no byte
  (`BytesRenamed`), an append adds its own (`BytesSplit`), and a sweep that stopped short, like a
  line that did (`StoppedSound`, `CutSound`), has deleted only what the whole sweep would have. `Bytes` counts the bytes of the
  files and the pass of `_enforce_budget` says of each file what is left when it is reached, so
  neither is a fold; `PassEnds` finds the first file the pass spares (`LeastOf`, by
  well-foundedness of strict inclusion) and `PassMoves` is one turn of its loop.

Only model-checked: the liveness properties `TasksEnd`, `StopEndsLoop`, `TickEnds` and
`ToldEnds`, which the prover does not reach; and the three runs that refute a claim of
the documentation.

## 5. Plan

Done: the identity tables at boot and at run time, login, the tick's inside, the bench, the
reports, and the daemon with its settings and telemetry. Left, in order of worth:

1. Two daemons on the rows of one runs table: the second sweeps the live runs of the first
   before it fails to bind its port.
2. The globs of `edit` and `bash` in the rendered permissions, and the environment the
   OpenCode child inherits.
3. The log mirror as a further family of the spool; retention of old runs once something
   calls it.

## 6. Not modelled

Formatting, logging, redaction and problem documents keep no state over time. Hashing and
encryption are primitives. The HTTP exchange with an identity provider, the checks of its
tokens, and the generation of text by a model are choices of the models. The rendering of
bench and soak reports is text. The terminal client is a separate program that talks to the
API.
