# ShadowHive in TLA+

ShadowHive generates fictional companies with a language model, deploys them
into honeypots and analyses what attackers do there. This directory models the
parts of its backend whose correctness depends on the order of events, checks
them with TLC on small instances, and proves what matters most with TLAPS.
Paths below are relative to `src/`.

## 1. Inventory

The backend is a FastAPI program with one asyncio event loop per process, and a
deployment may run several processes (`UVICORN_WORKERS`) on one database and one
volume; PostgreSQL, Neo4j, the language model and the honeypots are outside it. Code
between two `await`s is atomic within a process; everything that can go wrong goes
wrong between them, or between two processes.

| Component | Code | State | Module |
|---|---|---|---|
| task manager | `backend/services/task_manager.py` | `_tasks` (id to `Task`: status, progress, result, `_coro`, `_paused`), rows of `generation_tasks` | `TaskManager`, `TaskLifecycle` |
| generation endpoints | `backend/api/company.py` | the coroutine `run()` of each task | `TaskManager`; `get_company()` in `CompanyStore` |
| company generator | `backend/generators/company_generator.py` | phase, attempt, heartbeat task | `TaskManager` |
| company persister | `backend/services/company_persister.py` | the rows of a company, in twenty-odd tables | `CompanyStore` |
| database log handler | `backend/services/log_handler.py` | buffer, ring of recent entries, flush and cleanup tasks | `LogHandler` |
| honeypot ingestion | `backend/main.py` (`_cowrie_ingestion_loop`), `backend/ingestion/`, the producers in `portal/` and `wordpress/` | read positions, `last_since`, the log files | `Ingestion`, `MitreMapper` |
| deployment | `backend/services/honeypot_deployer.py`, `backend/api/deploy.py` | user database, contents, marker; what Cowrie has loaded | `Deployment` |
| authentication, administration | `backend/auth.py`, `backend/api/auth.py`, `backend/api/admin.py` | users, lockout counters, reset tokens | `Accounts` |
| lifespan, seed data | `backend/main.py` (`lifespan`), `backend/services/seed_data.py`, `seed_default_tasks()` | the schema, the first rows, the connections and background tasks of a process | `Lifespan` |
| AI providers | `backend/ai/` | registry of providers, a semaphore for Ollama | outcome of a call, in `TaskManager` |
| graph, queries, dashboard | `backend/services/graph_builder.py`, `backend/api/stats.py`, `frontend/` ... | none of their own | section 6 |

How they interact: an endpoint creates a task, marks it running and registers
the coroutine `run()`, which calls the generator; the generator calls back
`on_progress()`, both from the phases and from the heartbeat of a model call;
`on_progress()` waits at the task's pause gate and updates the task; every update
is followed by a `_persist()` of its own to PostgreSQL. Control requests change
the same objects meanwhile. A run that ends stores its company with
`persist_company()`, whose rows the API, the portal and a deployment read. A
deployment writes files for Cowrie, which with the other honeypots writes the
logs that the ingestion loop reads. The lifespan starts and stops all of this.

What makes each component correct:

- *task manager, endpoints, generator*: a paused task can be resumed, an active
  task has somebody working on it (also after a restart), the outcome of a run is
  final and reaches the row, a cancelled task lets go of its run, a deleted task
  does not come back, a completed task accounts for its company.
- *company persister*: a company is seen whole or not at all, and its mails are by
  and to the people whose addresses they have (with an exception: section 4).
- *log handler*: every record is written once or is known to be lost; at
  shutdown nothing is left in the buffer.
- *ingestion*: every line of a log is stored once per life of a worker, or dropped
  for one of the reasons the code has, and is classified.
- *deployment*: the marker names the company whose files are in place, and Cowrie
  runs them.
- *accounts*: one account per address; the lock comes after the configured number
  of failures; a password that was given has to be changed; who is deleted stays so.
- *lifespan*: every start gets to serve and every stop ends; what is seeded is
  whole whichever process seeds it; the loops that use the database end before it is
  closed. (Runs of tasks may outlive the closing: section 4.)

The hazards, each at its line and with the properties that cover it, are in
`PROJECT.json`.

## 2. Plan

Done, in this order: `TaskManager` with its abstract specification `TaskLifecycle`
and the proofs of its types and of the pause gate; `LogHandler`, with proofs;
`Ingestion` with the classification of `MitreMapper`, and with proofs; `Lifespan`, `Deployment` and
`Accounts`, each with proofs of all its safety properties; `CompanyStore`, with proofs;
the proofs of the other safety properties of the task manager and of the implementation
of `TaskLifecycle`.

Every invariant that a run checks is also proved for all constants. What is left, in the
order of its worth: the fallback between AI providers; the client's token refresh.

## 3. The models

### `TaskManager`

An **actor** is a coroutine that may be suspended: a request, the run of a task,
or the heartbeat of its current model call. `stage[a]` says where it is
suspended and `io[a]` which database call it awaits. One action is the code
between two awaits; the database's side of a call is an action of its own
(`Read`, `Commit`, `Load`, `Erase`), so calls of different actors interleave and
commit in any order. `cancelling[t]` is a `CancelledError` on its way to a run.

| Code | Actions |
|---|---|
| `_persist` | asked for by `Suspend(a, s, Call("read", t))`; `Read` (select), `Copy` (of the fields the object has *then*, compared with the row that was read), `Commit` (only the changed columns), `DatabaseFails` (logged, forgotten) |
| `POST /generate` | `Generate`, `MarkRunning`, `Register` |
| `pause`, `resume`, `cancel`, `delete` | `Pause`, `Resume`, `Cancel`, `Delete` |
| `get`, `list_tasks` | `LookUp`, `Load`, `Install`, `Reply` |
| `on_progress` | `OnProgress`, `PassGate`, `Revive`, `EndReport` |
| `_safe_generate` | `StartCall`, `EndCall`, `Unwound`, `Retry`, `BackOff`, `EndBackOff`, `CancelCall` |
| `_heartbeat` | `Heartbeat`, `HeartbeatFails`, `StopHeartbeat` |
| `generate_company`, `run` | `StartRun`, `NextPhase`, `StartSave`, `SaveCompany`, `Complete`, `FailRun`, `CancelRun`, `CancelUnstarted`, `EndRun` |
| `set_session_factory` after a crash | `Restart` |

What is abstracted. Of the columns only status, progress (the number of the
phase) and result (none, stored, unstored) are kept. The error and the timestamps are
written together with a status; the message is not modelled: each heartbeat
writes a new one, so it may differ where the modelled columns agree. A model call returns, fails or times out at any time. The `get()` that ends every control endpoint, which matters only
if the task is not in memory, is a `LookUp` of its own, and the rows that
`list_tasks()` reads are looked up one by one. A cancelled persist has
committed or has not. The `asyncio.Lock` of the manager is never held across an
await while requests are served, so it needs no state. `deleted` and `raced` are
history variables that only properties read. Definitions whose comment says
*mutant* are no part of the model: each is a plausible bug that one of the
properties has been seen to catch.

Not modelled: the recovery at startup failing, a server without database, the
cancellation of tasks by a graceful shutdown (section 1, lifespan), the seed
companies, and `_on_done()`, which finds nothing to do in any reachable case: `run()`
handles every exception, and for a run cancelled before its first step
`exception()` raises.

### `TaskLifecycle`

What a client may rely on, in terms of three variables: the status of each id,
the work behind it (none, starting, working, over) and the ids that were deleted.
`TaskProperties` maps the detailed state to it (`Lifecycle`). It
records two things a reader might not expect: work that is starting overrules a
cancel, and a cancelled task may still complete or fail.

### `TaskProperties`, `MCTaskManager`

The properties and fairness; the sets of endpoints the instances use.

### `LogHandler`

Records are numbered as they are emitted; the buffer, the ring and a batch are sets of
numbers, whose order is that of the deque. `scheduled` counts the flushes that
`emit()` has created and that have not begun, `inflight` holds the batches whose
commit somebody awaits, and `by` says who: a scheduled flush, the loop or `stop()`.

| Code | Actions |
|---|---|
| `emit` | `Emit`; also the end (`Appended`) of every step that logs a failure or a cleanup |
| `_flush` | `Drain` and `DrainRaises` (a message that cannot be formatted), within `ScheduledFlush`, `LoopFlush` and `Stop`; then `CommitBatch` or `CommitFails` |
| `_flush_loop` | `LoopFlush`, `Landed` |
| `cleanup_old_logs` | `Cleanup`, `CleanupFails` |
| `stop`, the end of the process | `Stop`, `Exit` |

A drain is one step and the lock needs no state: `_flush()` awaits nothing while it
holds it. The delete of a cleanup and its log record are one step, since nothing
reads the table in between; a batch that is committed meanwhile is too young to be deleted. `stop()`
cancels the loop: a batch of its own that is being committed has been committed
or is lost. Scheduled flushes live on until `Exit`, which may come without
`stop()`, by a crash or because the shutdown fails before it (section 1, lifespan).
`expired`, `lost` and `atStop` are history variables. The reading functions are left out,
and `clear_recent()`, which nothing calls.

### `MitreMapper`, `Ingestion`

`MitreMapper` is the rule table of `mitre_mapper.py` with its order of precedence: an
event type is a sequence of dotted components, a command or path the set of the
rules' keywords it contains. `Ingestion` is the polling loop of every worker.

| Code | Actions |
|---|---|
| Cowrie, OpenCanary, the portal's pages (outside the backend, or one `write` each) | `WriteLine`, or `WriteHead` and `WriteTail` when a reader comes in between; `Rotate` |
| `wordpress/log_watcher.py` under cron | `Visit` (the access log), `CronRun`, then a `WriteLine`, or `WriteHead` and `WriteTail`, for each line (`owed`), all with the time of the start (`stamp`) |
| `CowrieClient.fetch_events`, `HoneypotFileWatcher.fetch_events` | `Read`, `ReadFails` |
| a poll of the loop: timer, classification, transaction | `Skip`, `Store`, `StoreFails`, `Wake` |
| the worker dies and starts again | `Restart` |

The portal reports a login on each of its six decoy pages, its contact form and its
harvested API keys. A line is two cells, its head and its tail, so that a reader can find half of it. Of
the watched files, which are handled alike, an instance follows one, which the
initial state picks. Lines are numbered as they are written, so what a poll fetches is a
set of lines whose order is that of the numbers: `events[:limit]` are the lines with fewer
than `FetchLimit` before them, `events[-1]` is `LastOf`. `table` is the set of rows, each
with the number of the transaction that stored it (`commits`). `lost` records what a life of a worker dropped, and why.

### `Lifespan`

Startup and stop of the worker processes, a step per `await`: what a step reads of
the database, what it writes, and where the `except` clauses of `lifespan()` resume.

| Code | Actions |
|---|---|
| `init_db`, `set_session_factory`, the log handler, `init_neo4j` | `Start`, `Connect`, `Create`, `Recover`, `Neo4j`, `Fails` |
| `seed_default_tasks` | `SeedTasks`, `SeedTask`, `SeedTasksDone` |
| `ensure_admin_exists` | `FindAdmin`, `MakeAdmin` |
| `seed_events` | `AnyEvents`, `CoveredAlready`, `NotCovered`, `DeleteEvents`, `InsertEvents`, `SeedEventsFails` |
| while it serves | `Ingest`, `Register`; `RunTask`, `SetAside` (pause, cancel, delete), `TakeBack` (resume), `TaskEnds` |
| after the `yield` | `BeginStop`, `DrainTasks`, `StopLogs`, `StopPolling`, `CloseDatabase`, `CloseNeo4j` |
| `_handle_signal`, a crash | `Killed` |

`_handle_signal` raises `SystemExit` in a callback of the loop, so SIGTERM and SIGINT
are `Killed`: the orderly stop is for a server that ends the lifespan itself.
`DrainTasks` looks at the status of the entries of `_tasks`, not at their runs: an entry
with the status `running`, be it of a task of this worker or copied from the row of
another worker's, ends the stop in an `AttributeError`, since `Task` has no `cancel()`
(`aborted`); a run whose task was paused, deleted, or has swallowed its cancellation is
passed over (`run` is `"set aside"`), and may go on until the process ends.
`seeded` and `setback` are history variables.

### `Deployment`

The requests of all workers on the shared volume. Within a worker the file
operations of a request are not interrupted (`LoopFree`); those of another worker
fall between any two of them. A decoy is its path and the company it tells of. The decoys are
written one after the other, and a failure or a crash cuts the writing off after any of
them, the removal at any directory (`CutOff`).

| Code | Actions |
|---|---|
| `deploy_company`, `_build_userdb`, `_write_contents` | `Ask`, `Check`, `WriteUserdb`, `WriteContents`, `OpenMarker`, `WriteMarker` |
| `undeploy_company` | `ReadMarker`, `RemoveMarker`, `RemoveUserdb`, `RemoveContents` |
| `_restart_cowrie` | `Restart`, `RestartFails` |
| an `OSError`, the death of a worker | `FileFails`, `Crash` |

`overlap`, `broken` and `unloaded` are history variables. They are the exemptions of
the properties, and each is needed: the code has no lock between workers, so that
overlapping deployments may leave the marker of one and the files of the other, and
a failed dump leaves an empty marker that makes every later deploy and undeploy
fail until it is removed by hand.

### `Accounts`

A request reads what it needs (`Look`), decides, and commits; others run in between.
A commit writes the columns whose values the request changed from what it had
read (`Saved`), which is how SQLAlchemy's unit of work keeps one request from undoing
another's change to a different column, and how two logins can lose a count.

| Code | Actions |
|---|---|
| `register`, `create_user` | `LookForEmail`, `Insert` |
| `login` | `LookForLogin`, `Commit` (`LoginFailed`, `LoginSucceeded`) |
| `forgot_password`, `reset_password` | `LookForForgotten`, `Issue`; `LookForToken`, `Commit` |
| `get_current_user`, `require_admin` | `Authenticate` |
| `change_password`, `update_user`, `admin_reset_password` | `LookForTarget`, `Commit` |
| `delete_user` | `LookForTarget`, `Delete` |

`lost` records the columns in which a commit met a change since it read them;
`failures` and `failedAt` count what a lockout ought to count.

### `CompanyStore`

`persist_company()` as the statements of one transaction: the flush of the employees,
the UPDATE of the servers, which flushes what was added before it, and the commit. The
readers, `get_company()` and the portal's `query_company()`, read a table at a time, at
READ COMMITTED. A row is the company, the section, its number and what the
properties tell apart: the ids of people in mails and documents, the EDR status of
servers. An address is a local part and a domain; `Starts` says which name begins which,
and `Lower` what a domain is in lower case: the look-up puts the address of a mail in lower
case, and compares it with addresses that keep the domain as the first mail has it.

## 4. The runs

| Run | Instance | Shows |
|---|---|---|
| `tasks_safety` | 1 task, 2 requests, 1 phase, 1 retry, 1 restart, 1 fault, no delete | `TypeOK`, `GateMeansPaused`, `ActiveHasWorker`, `CompletedAccountsForCompany`, `QuietRowMatches`, `OutcomeIsFinal`, `ImplementsLifecycle` |
| `tasks_liveness` | 1 task, 1 request, 2 phases, no retry, 1 fault, with delete, under `FairSpec` | `GateMeansPaused` and `CompletedAccountsForCompany` with delete, `ProgressNeverRegresses`, `GoneIsGone`, `RunEnds`, `CancelEndsRun`, `OutcomeReachesRow` |
| `log_handler` | batches of 2, a ring of 3, 4 messages of which 1 malformed, 1 fault, 1 cleanup, under `FairSpec` | `TypeOK`, `EachInOnePlace`, `BacklogHasFlush`, `RecentIsNewest`, `StopDrains`, `EmittedIsSettled` |
| `ingestion` | 1 worker, 1 line of Cowrie, 2 lines of one of four sources, of one kind, limit 1, 1 fault | `EachLifeStoresInOrder`, `PassedIsAccountedFor`, `SinceDropsOnlyTies`, `LoginsAreMapped`, `EveryLineIsSettled` |
| `lifespan` | 2 workers, of which one generates, 2 starts, 2 seed companies, 2 tactics, 1 event, 1 fault | `SeededMeansCovered`, `SeedTasksBeforeUsers`, `LoopsEndBeforeClosing`, `EveryStartServes`, `EveryStopEnds` |
| `deployment` | 3 requests, 2 workers, 2 companies with a namesake, 1 fault | `MarkerHasFiles`, `DeployedIsWhole`, `CowrieIsCurrent`, `ErrorsHaveReasons` |
| `accounts` | 4 requests, 2 at a time, up to 3 accounts, 1 free address, a lock after 2 failures, time 3 | `OneAccountPerEmail`, `FailuresLock`, `GivenMustBeChanged`, `GoneStaysGone` |
| `company_store` | 2 companies, 3 readers that read twice, 1 fault | `ReadsAreWhole`, `MailsKeepTheirPeople` |
| `task_paused` | 1 phase | a paused task completes (README.md:208) |
| `task_cancelled` | 1 phase | a cancelled task completes (README.md:210) |
| `task_deleted` | 1 phase | a deleted task has a row again (README.md:212) |
| `seed_keeps_events` | 1 worker, 2 starts | a restart deletes ingested events (README.md:247) |

**Bounds.** Tasks share nothing but the event loop and `list_tasks()`, which
reads the database only while memory is empty, so one task shows every
interleaving about it. Two requests, a run and a heartbeat are four concurrent actors
on one task: enough for two overlapping lookups, a control request that races
another, and persists of three of them in flight. Two phases are the least that has a
phase after a model call, and `ProgressNeverRegresses` is about them; one retry is
what the code allows. The run with two requests has one phase and the run with two
phases no retry: with both, the properties hold too, on some four million states. A restart bounded
by `MaxBoots` may come at any point and a fault bounded by `MaxFaults` may hit
any call. `delete` is in the second run, where the state space
with it is small enough; restarts are in the first. Deadlock is checked in both passing runs of the task manager:
there is always a request that can be made.

In the log handler four messages and the reports of failures make up to seven
records: more than two full batches and two rings, so that a batch is in flight
while the next one fills, a malformed record has others on both sides, and old
entries leave the ring. Its process may end, so deadlock is not checked there.

Two lines of a watched file are the least with an order, a clock tie, and one more
than the fetch limit; Cowrie's file shows that the feeds do not disturb each other. A file
has reports of one kind (`MaxKinds`), any of those of its source: what is stored of a line
depends on no other line's report. A single worker generates (`Generating`): the runs of
two workers do not meet in the lifespan.
Several workers ingest independently, so one is enough. Two starts
are both two workers that start at the same time and one that starts again. Two
tactics are the least of which one can be missing. Three deployment requests
are the least for a third that meets what two have left behind. Four requests
on accounts are enough for two failed logins in a row that race an update or a
deletion; a lock of one unit expires within three. A company
has a mail from a name that another name begins with, which is all the look-up
can confuse, and the other has this, too, with namesakes and a capital in its domain. Symmetry, of the
requests on accounts, is used where no temporal property but `[][A]_vars` is checked.
Deadlock is not checked where the bounds on requests and starts end every behaviour.

**Fairness.** Weak fairness of every database call, of every step a coroutine
can take, and of the end of a model call, which `asyncio.wait_for` bounds. None
for requests, for the heartbeat, for restarts or for faults. Weak fairness is
enough: what one coroutine can do next stays possible until it does it, since the
event loop runs ready callbacks in order. For the log handler: weak fairness of
scheduled flushes, of the loop (its two seconds pass) and of the answer to a commit;
none for log calls, cleanup, shutdown or crash. For the ingestion: weak fairness of a
worker's loop, whose sleeps and calls end; none for producers, crashes and rotations.
For the lifespan: weak fairness of the startup and of the stop, each step of which is a call
that returns or raises; none for starts, stops, kills, requests and, above all, the end of
a generation task. The other three state safety only: nothing there waits for anything.

**What the violations say.** The pause gate is looked at only when a phase starts
and by heartbeats, so a task paused in its last model call is saved and
completed. The `except (asyncio.CancelledError, Exception)` around `await hb_task`
swallows a cancel that arrives while the run waits there. `delete()` does
not wait for persists in flight, and one that has seen no row inserts it again.
`seed_events()` takes a table that lacks a tactic for one to be seeded, and deletes what the
honeypots have delivered.

**What else a reader may not expect**, and the models do as the code does: `t.cancel()` of
a running task raises at shutdown and skips the rest of it, even if the task is another
worker's; the runs of paused and deleted tasks survive the draining and the closing of
the database, whose engine opens a new pool for them; SIGTERM skips all of it; two
workers that create the schema at the same time leave one of them without a task
database; an undeploy with nothing deployed removes the files and then reports an error
(`prev` is not bound); a marker that was cut off makes every later deploy and undeploy fail;
two logins that read the same count lose one; where the domain of a company has a
capital, the addresses of its mails are not found as they are, and `ann.lee`'s mail may go to
`ann.leeds`; the portal's API keys and contact forms, and WordPress's events, whose type is
prefixed twice, are stored without a technique; a user who is not an administrator
is denied his own company, whose owner is a UUID compared with a string; the home
directories of an earlier deployment remain beside those of a new one.

## 5. The proofs

Each theorem holds for every value of the constants that satisfies the assumptions named
in the module it is about: `LogAssumption`, `CompanyStoreAssumption` and so on; for
`TaskManager`, `BoundsAssumption` and `NoneAssumption` (the value for absence is none of
the tasks, objects, rows, changes and column values).

- `TypeCorrect` (`TaskManagerProofs`): `Spec => []TypeOK`. `TypeOK` is not inductive.
  `TypeInv` adds what a database call is about (`CallOK`) and that a persist which
  has not yet copied its object finds it in memory unless it carries it
  (`SourceOK`): this is where deletion and replacement of objects (`Orphaned`)
  matter. `AttemptsLeft` adds that a run that backs off has attempts left, which
  the action at the end of the back-off does not test again. The proof has a
  lemma per action, over lemmas on the shapes of a step: one actor's call
  (`IoStep`), an object that leaves memory (`OrphanStep`), one actor's stage
  (`StageStep`), waiters that leave the gate (`GateStages`).
- `GateIsNoTrap` (`TaskManagerProofs`): `Spec => []GateMeansPaused`. The status and the
  event agree only because of when a task can be what: `GateInv` says, task by
  task, that nothing exists of it before it is created (`Untouched`), that one
  request starts its run (`StartedOnce`), that until then neither memory, row nor
  any call about it says running or paused (`NotRunningYet`: otherwise a pause
  before `update(status="running")` would leave a running task with a closed gate),
  that a heartbeat lives within a model call (`BeatHasCall`: otherwise the last
  update of the run could change the status under a waiting heartbeat), and that
  a closed gate means paused while the run is to come or alive
  (`ClosedMeansPaused`). A step is about one task: `ApartKeeps` disposes of all
  others, and one lemma for each kind of step (`DatabaseKeeps`, `ControlKeeps`,
  `CoroutineKeeps`) leaves only what is particular to an action to its own lemma.
  TLC found no violation of `GateInv` among the first thirteen million states
  of an instance with deletion, restart and two requests.

- `TaskLifecycleProofs`: `NoOrphan` (`ActiveHasWorker`), `CompanyIsAccountedFor`
  (`CompletedAccountsForCompany`), `RowFollowsMemory` (`QuietRowMatches`), `OutcomeStays`
  (`OutcomeIsFinal`), `ProgressHolds` (`ProgressNeverRegresses`), `DeletedStaysGone`
  (`GoneIsGone`) and `RegistryImplementsLifecycle`, the refinement: `Spec =>
  ImplementsLifecycle`. All follow from `CallInv /\ LifeInv`, next to the invariants above.
  `CallInv` says that what an actor awaits is what its stage says it awaits. `LifeInv` says of
  every task that was created and not deleted that it is *present* or *archived*.
  - A task is `Present` from its creation, or from a restart that found its row
    unfinished, on. It has one object, which nobody looks up and every persist finds
    (`CallsOf`); its status fits who works on it (`StatusFits`), its progress the phase
    (`ProgressFits`), and its result and its row what the persists in flight have read and
    will write (`ResultFits`, `RowFits`). That the row follows memory rests on one fact a
    reader of `_persist` might miss: the persist of a heartbeat, which alone may be cut
    off, has nothing new to write, since the run reported this phase when it entered it.
  - A task is `Archived` when a restart has found its row settled. It is in memory only
    while somebody has looked it up, and then as its row says. Nobody works on it, and
    whatever reads or persists it finds nothing to change. Without this case the
    outcome of a task would not be final across a `get()`.

  A step is one actor's, about one task (`StepOf`), and leaves every other task aside
  (`StepOfAside`, `AsideKeeps`); the lemma of an action then shows three things of its own
  task (`Lives`): that it keeps the invariant, that it makes one of the moves of
  `TaskLifecycle` or none (`Moves`), and that progress does not go back. The theorems on
  steps and the refinement only combine these. A deletion is the one step that changes
  `forgotten`, and a restart is `Reboot`.

  The proof corrected a property. `CompletedAccountsForCompany` used to ask a result of
  deleted tasks, too. TLC finds that false with three requests on one task, one more than the
  runs have: a persist that a delete request overtook inserts the row again, without a
  result, and a later update of the row sets only the status. The property now leaves deleted
  tasks out there, and keeps them in its other half: what says that a company is stored is
  right, deleted or not.

- `LogHandlerProofs`, for batches and rings of any size (`LogAssumption`):
  `LogTypeCorrect`, `Conservation` (`EachInOnePlace`), `FlushIsScheduled`
  (`BacklogHasFlush`), `ViewerMissesNothing` (`RecentIsNewest`) and
  `StopLeavesNothing` (`StopDrains`), all from one inductive invariant, `LogInv`. It
  strengthens what the run checks by three facts. The buffer is a tail of what was
  emitted (`Tail`): otherwise an entry could enter the ring behind a newer one. There are more
  scheduled flushes than records beyond a batch (`Backlog`): "at least one" is
  not inductive, since a flush that raises may use up the last one and leave a full batch.
  And only `stop()` has a batch of `stop()` (`Flushed`). The lemma
  `NewestAgain` says why a bounded ring can be filled piece by piece.

- `LifespanProofs`: `SeededMeansCovered`, `SeedTasksBeforeUsers` and `LoopsEndBeforeClosing`,
  for any workers, companies, tactics and bounds. `SeedOrder` says what a startup in
  which nothing failed has achieved at each of its steps, `StopOrder` what a stop has ended
  at each of its own, `Fresh` that a process registers nothing before it seeds.
  `SeededMeansCovered` is inductive as it stands, because deletion and insertion are one
  transaction.
- `DeploymentProofs`: `MarkerHasFiles`, `DeployedIsWhole`, `CowrieIsCurrent`,
  `ErrorsHaveReasons`, for any companies, employees, requests and workers. Without an
  overlap one request is in the files at a time (`OneInFiles`), so its step says
  how far they are (`Progress`, and without failures `Wholeness`). `RestartIsDue` carries
  the last property: if Cowrie is behind, some request still has its restart to come.
- `AccountsProofs`: `OneAccountPerEmail`, `FailuresLock`, `GivenMustBeChanged` and
  `GoneStaysGone`, for any number of requests and any lockout. `FailuresLock` is not
  inductive: `Counted` adds that the counter of a row is the number of failures in a row
  as long as nothing was lost, and `NoneYet` that an account not yet made has none.
  The lemmas on `Saved` say what a commit does to a row that it did not read.

- `CompanyStoreProofs`: `ReadsAreWhole` and `MailsKeepTheirPeople`, for any companies, runs,
  readers and failures.
  `Progress` says what a transaction holds at each step, and with it `AllOrNothing` that
  the committed rows have all of a company or none of it; `Reading` says what a reader has
  seen after each table. `MailsKeepTheirPeople` adds that only runs store rows
  (`RowsOfRuns`) and a lemma on the look-up (`LookupDelivers`), for any names, mails, domains and
  any relation `Starts`: an address that is found leads to its owner; one that is not, though
  an employee has it up to capitals, begins at least that employee's address, so that
  the fallback finds somebody. That the first and the last of several people exist is the
  well-foundedness of the naturals. Assumed of what is generated: that mails are finitely
  many, that people are a list, that a name begins itself and that the EDR flag is a Boolean. `SequenceTheorems` and `FiniteSetTheorems`
  supply the facts on `SubSeq` and on the cardinality of the mails.

- `IngestionProofs`: `PassedIsAccountedFor`, `EachLifeStoresInOrder`, `SinceDropsOnlyTies`
  and `LoginsAreMapped`, for any workers, sources, numbers of lines, fetch limit, intervals,
  crashes, rotations and failures. None of them is inductive, because a step depends on what the
  other side has left in the file. `IInv` says of the producers that clocks do not run
  backwards over all lines known anywhere, be it in a file, a batch or the table
  (`ClocksAgree`), and that a file has its cells in the order of the lines
  (`FileInOrder`); of a worker that what it has still to read is newer than
  what this life has stored and than what it holds (`UnreadIsNew`), that what it holds is
  newer than what it has stored (`BatchIsNew`), that `last_since` is the timestamp of a
  row of this life (`SinceIsStored`), and that its position is within a file that was not
  rotated (`PosInFile`). From it: a line below `last_since` would have been
  written before the stored event, so it is not unread; hence the filter drops ties and nothing
  else. `PassedOf` goes over a worker's positions one by one: `PassedStays` for
  those passed before, and for a read the two halves of a line, of which both, or one, were
  read. A cron job gives all its lines the time of its start, so
  `ClocksAgree` also says that this time is no earlier than any line that exists. For
  `LoginsAreMapped`, `RulesOneByOne` lists the path rules in their order: that the first one
  that applies exists is the well-foundedness of the naturals, and which it is is
  compared with the table page by page (`PagesAre`).

Each inductive invariant was checked with TLC first. Only model-checked: the liveness
properties, since liveness and fairness are out of the prover's reach. Among the
invariants and action properties that the passing runs check, none is left unproved.

## 6. Not modelled, and not shown

- Several workers in `TaskManager`: it is one process. In production several share the
  rows, and a worker that starts marks the rows of tasks that another one is still running
  as failed; what is shown of tasks holds for each worker on its own rows.
- What the history variables exempt is what happens, and no property covers it. A
  failed persist, or two that overlap, may leave row and memory apart (`raced`: hazards at
  `task_manager.py:138` and, in part, `:106`). The loser of the race for the schema
  serves without a task database (`setback`). A deployment that fails half way, or meets
  another worker's, may leave two companies mixed (`broken`, `overlap`). Two logins that
  read one count lose one, and a reset by the administrator that races a change of the
  password may lose its obligation (`lost`). A stop that ends in the `AttributeError` is an
  end (`aborted`), so `EveryStopEnds` does not speak of what it skips.
- The graph (`graph_builder.py`, `api/graph.py`, and the copies in `api/events.py` and
  `seed_data.py`): the driver is imported by value while it is `None`, so no request and
  no startup ever writes to it.
- The rate limiter: a refused request changes none of the state here. JWTs and their
  refresh: a token is checked against the account at each use, which is `Authenticate`.
- The fallback between AI providers and Ollama's semaphore: a model call answers, fails or
  times out in `TaskManager`, whichever provider it went to.
- The other generators (one prompt and one parsed answer), statistics, reports and
  sessions (reads), saved profiles (single-statement writes), rendering in the portal and
  the dashboard.

