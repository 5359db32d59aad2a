------------------------------ MODULE Lifespan ------------------------------
(***************************************************************************)
(* The life of the backend's worker processes around the database they     *)
(* share: the startup of main.py's lifespan(), with what it seeds, the     *)
(* serving of events and tasks, the orderly stop, and the ends that skip   *)
(* it.  Every step of the startup tolerates its failure: the worker logs a *)
(* warning and goes on.                                                    *)
(*                                                                         *)
(* A step is what happens between two awaits of one worker, so that the    *)
(* workers of a deployment (UVICORN_WORKERS) interleave in their startups. *)
(***************************************************************************)
EXTENDS Naturals, FiniteSets

CONSTANTS Workers,     \* the worker processes
          Companies,   \* SEED_COMPANIES
          Tactics,     \* ALL_TACTICS
          MaxStarts,   \* bound: starts of workers
          MaxFaults,   \* bound: database statements that fail
          MaxEvents,   \* bound: events ingested by the workers
          Generating   \* bound: the workers that run generation tasks

ASSUME LifespanAssumption ==
    /\ IsFiniteSet(Tactics)
    /\ Cardinality(Tactics) > 1
    /\ {MaxStarts, MaxFaults, MaxEvents} \subseteq Nat
    /\ Generating \subseteq Workers

VARIABLES
    tables,    \* the schema has been created
    users,     \* the users table: the kinds of account in it
    taskRows,  \* the generation_tasks rows of seed companies
    events,    \* the attacker_events rows
    step,      \* per worker, where it is in its life
    pool,      \* per worker, its engine: none, open, disposed
    driver,    \* per worker, neo4j_client._driver: none, open
    factory,   \* per worker, the task manager's session factory is set
    registry,  \* per worker, the seed companies among the manager's tasks
    logs,      \* per worker, its log handler: detached, running, stopped
    run,       \* per worker, its run of a generation task: none, running, set aside
    polling,   \* per worker, its ingestion loop is alive
    found,     \* per worker, what its last look at the database found
    doomed,    \* per worker, the events its transaction has deleted
    starts,    \* how often a worker has been started
    faults,    \* how many of MaxFaults have happened
    setback,   \* history: a step of some startup failed, or the database is older
    seeded     \* history: some startup has committed the seed events

dbVars == <<tables, users, taskRows, events>>
memVars == <<pool, driver, factory, registry, logs, run, polling>>
readVars == <<found, doomed>>
histVars == <<starts, faults, setback, seeded>>
vars == <<dbVars, step, memVars, readVars, histVars>>

Goto(w, s) == step' = [step EXCEPT ![w] = s]

With(f, w, v) == [f EXCEPT ![w] = v]

Covers(rows) == { r.tactic : r \in rows } = Tactics

\* A statement fails, or finds no table: the startup's except clause logs it
\* and the startup goes on at another step.
Fails(w, here, there) ==
    /\ step[w] = here
    /\ \/ ~tables /\ faults' = faults
       \/ faults < MaxFaults /\ faults' = faults + 1
    /\ Goto(w, there)
    /\ setback' = TRUE
    /\ UNCHANGED <<dbVars, memVars, readVars, starts, seeded>>

-----------------------------------------------------------------------------
(* The startup: the database, the task manager and the log handler, Neo4j. *)

Ends == {"off", "killed", "aborted", "stopped"}

\* The process starts with nothing in its memory.
Start(w) ==
    /\ step[w] \in Ends
    /\ starts < MaxStarts
    /\ starts' = starts + 1
    /\ pool' = With(pool, w, "none")
    /\ driver' = With(driver, w, "none")
    /\ factory' = With(factory, w, FALSE)
    /\ registry' = With(registry, w, {})
    /\ logs' = With(logs, w, "detached")
    /\ run' = With(run, w, "none")
    /\ polling' = With(polling, w, FALSE)
    /\ Goto(w, "connect")
    /\ UNCHANGED <<dbVars, readVars, faults, setback, seeded>>

\* init_db: the engine is set before the connection is tried.  create_all
\* looks which tables exist ...
Connect(w) ==
    /\ step[w] = "connect"
    /\ pool' = With(pool, w, "open")
    /\ UNCHANGED <<dbVars, driver, factory, registry, logs, run, polling, readVars, starts, seeded>>
    /\ \/ /\ Goto(w, IF tables THEN "recover" ELSE "create")
          /\ UNCHANGED <<faults, setback>>
       \/ /\ faults < MaxFaults
          /\ faults' = faults + 1
          /\ setback' = TRUE
          /\ Goto(w, "neo4j")

\* Mutant of Create: a worker that finds the tables made waits.
CreateOrWait(w) ==
    /\ step[w] = "create"
    /\ ~tables
    /\ tables' = TRUE
    /\ Goto(w, "recover")
    /\ UNCHANGED <<users, taskRows, events, memVars, readVars, histVars>>

\* ... and creates the missing ones.  When another worker has created them in
\* the meantime, the statement fails: "PostgreSQL not available".
Create(w) ==
    /\ step[w] = "create"
    /\ tables' = TRUE
    /\ Goto(w, IF tables THEN "neo4j" ELSE "recover")
    /\ setback' = (setback \/ tables)
    /\ UNCHANGED <<users, taskRows, events, memVars, readVars, starts, faults, seeded>>

\* set_session_factory sets the factory first; it reads no completed task, so
\* no seed company.  The log handler follows, if that succeeds.
Recover(w) ==
    /\ step[w] = "recover"
    /\ factory' = With(factory, w, TRUE)
    /\ Goto(w, "neo4j")
    /\ UNCHANGED <<dbVars, pool, driver, registry, run, polling, readVars, starts, seeded>>
    /\ \/ /\ logs' = With(logs, w, "running")
          /\ UNCHANGED <<faults, setback>>
       \/ /\ faults < MaxFaults
          /\ faults' = faults + 1
          /\ setback' = TRUE
          /\ UNCHANGED logs

\* init_neo4j sets the driver whether or not its probe is answered.
Neo4j(w) ==
    /\ step[w] = "neo4j"
    /\ driver' = With(driver, w, "open")
    /\ Goto(w, "seed tasks")
    /\ UNCHANGED <<dbVars, pool, factory, registry, logs, run, polling, readVars, histVars>>

-----------------------------------------------------------------------------
(* The startup: what it seeds.                                             *)

\* seed_default_tasks: nothing to do once there is a user.
SeedTasks(w) ==
    /\ step[w] = "seed tasks"
    /\ tables
    /\ Goto(w, IF users = {} THEN "seed task" ELSE "admin")
    /\ UNCHANGED <<dbVars, memVars, readVars, histVars>>

\* Mutant of SeedTask: a row is written when the next company is reached.
SeedTaskWriteBehind(w) ==
    /\ step[w] = "seed task"
    /\ \E c \in Companies \ registry[w] : registry' = [registry EXCEPT ![w] = @ \cup {c}]
    /\ taskRows' = IF factory[w] THEN taskRows \cup registry[w] ELSE taskRows
    /\ UNCHANGED <<tables, users, events, step, pool, driver, factory, logs, run, polling, readVars, histVars>>

\* One company after the other enters the registry and is persisted.  Without
\* a factory _persist does nothing; it swallows the failure of a statement.
SeedTask(w) ==
    /\ step[w] = "seed task"
    /\ \E c \in Companies \ registry[w] :
         /\ registry' = [registry EXCEPT ![w] = @ \cup {c}]
         /\ \/ /\ taskRows' = IF factory[w] THEN taskRows \cup {c} ELSE taskRows
               /\ UNCHANGED <<faults, setback>>
            \/ /\ factory[w]
               /\ faults < MaxFaults
               /\ faults' = faults + 1
               /\ setback' = TRUE
               /\ UNCHANGED taskRows
    /\ UNCHANGED <<tables, users, events, step, pool, driver, factory, logs, run, polling, readVars, starts, seeded>>

SeedTasksDone(w) ==
    /\ step[w] = "seed task"
    /\ Companies \subseteq registry[w]
    /\ Goto(w, "admin")
    /\ UNCHANGED <<dbVars, memVars, readVars, histVars>>

\* ensure_admin_exists looks for the account, under its new and its old name ...
FindAdmin(w) ==
    /\ step[w] = "admin"
    /\ tables
    /\ found' = With(found, w, users)
    /\ Goto(w, IF "admin" \in users THEN "seed events" ELSE "make admin")
    /\ UNCHANGED <<dbVars, memVars, doomed, histVars>>

\* ... and renames the old one or makes one.  Emails are unique: the insert
\* fails when another worker's was faster.
MakeAdmin(w) ==
    /\ step[w] = "make admin"
    /\ users' = (IF "legacy" \in found[w] THEN users \ {"legacy"} ELSE users) \cup {"admin"}
    /\ setback' = (setback \/ ("legacy" \notin found[w] /\ "admin" \in users))
    /\ found' = With(found, w, {})
    /\ Goto(w, "seed events")
    /\ UNCHANGED <<tables, taskRows, events, memVars, doomed, starts, faults, seeded>>

\* The end of the startup: the ingestion and metrics tasks are created.
ServeFrom(w, here) ==
    /\ step[w] = here
    /\ polling' = With(polling, w, TRUE)
    /\ Goto(w, "serving")

\* seed_events: is there any event?
AnyEvents(w) ==
    /\ step[w] = "seed events"
    /\ tables
    /\ doomed' = With(doomed, w, {})
    /\ Goto(w, IF events = {} THEN "insert" ELSE "count")
    /\ UNCHANGED <<dbVars, memVars, found, histVars>>

\* Do the events cover all the tactics?
CoveredAlready(w) ==
    /\ ServeFrom(w, "count")
    /\ Covers(events)
    /\ UNCHANGED <<dbVars, pool, driver, factory, registry, logs, run, readVars, histVars>>

NotCovered(w) ==
    /\ step[w] = "count"
    /\ ~Covers(events)
    /\ Goto(w, "delete")
    /\ UNCHANGED <<dbVars, memVars, readVars, histVars>>

\* Mutant of DeleteEvents: the deletion is a transaction of its own.
DeleteEventsAtOnce(w) ==
    /\ step[w] = "delete"
    /\ events' = {}
    /\ Goto(w, "insert")
    /\ UNCHANGED <<tables, users, taskRows, memVars, readVars, histVars>>

\* Then all events committed by now are deleted, those of attackers included ...
DeleteEvents(w) ==
    /\ step[w] = "delete"
    /\ doomed' = With(doomed, w, events)
    /\ Goto(w, "insert")
    /\ UNCHANGED <<dbVars, memVars, found, histVars>>

SeedRows(w) == { [origin |-> "seed", by |-> w, tactic |-> t] : t \in Tactics }

\* ... the seed events are inserted, and the transaction commits.  (The copy
\* to Neo4j is never made: seed_data binds the driver's value at import, None.)
InsertEvents(w) ==
    /\ ServeFrom(w, "insert")
    /\ events' = (events \ doomed[w]) \cup SeedRows(w)
    /\ seeded' = TRUE
    /\ doomed' = With(doomed, w, {})
    /\ UNCHANGED <<tables, users, taskRows, pool, driver, factory, registry, logs, run, found, starts, faults, setback>>

\* A step of seed_events fails: its transaction rolls back.
SeedEventsFails(w, here) ==
    /\ \/ ~tables /\ faults' = faults
       \/ faults < MaxFaults /\ faults' = faults + 1
    /\ ServeFrom(w, here)
    /\ doomed' = With(doomed, w, {})
    /\ setback' = TRUE
    /\ UNCHANGED <<dbVars, pool, driver, factory, registry, logs, run, found, starts, seeded>>

-----------------------------------------------------------------------------
(* Serving.                                                                *)

\* POST /api/events and the ingestion loop: the rows of a batch are committed
\* together; an event of an attacker shows one of the tactics at most.
Ingest(w) ==
    /\ step[w] = "serving"
    /\ tables
    /\ \E t \in Tactics, k \in 1..MaxEvents :
         LET old == { r \in events : r.origin = "attacker" }
             n   == Cardinality(old)
         IN  /\ n + k <= MaxEvents
             /\ events' = events \cup
                  { [origin |-> "attacker", by |-> n + i, tactic |-> t] : i \in 1..k }
    /\ UNCHANGED <<tables, users, taskRows, step, memVars, readVars, histVars>>

\* A user registers.
Register(w) ==
    /\ step[w] = "serving"
    /\ tables
    /\ users' = users \cup {"user"}
    /\ UNCHANGED <<tables, taskRows, events, step, memVars, readVars, histVars>>

\* POST /generate: the task has the status "running" before its run starts.
RunTask(w) ==
    /\ step[w] = "serving"
    /\ w \in Generating
    /\ run[w] = "none"
    /\ run' = With(run, w, "running")
    /\ UNCHANGED <<dbVars, step, pool, driver, factory, registry, logs, polling, readVars, histVars>>

\* pause, cancel, delete: the registry has the task with another status, or no
\* longer.  Its run goes on: a paused one to its next report, a cancelled one
\* that swallows the cancellation, and a deleted one, to its end.
SetAside(w) ==
    /\ step[w] = "serving"
    /\ run[w] = "running"
    /\ run' = With(run, w, "set aside")
    /\ UNCHANGED <<dbVars, step, pool, driver, factory, registry, logs, polling, readVars, histVars>>

\* resume, or the run's next report looks up its deleted task and finds the row
\* that a late _persist has made.
TakeBack(w) ==
    /\ step[w] \notin Ends
    /\ run[w] = "set aside"
    /\ run' = With(run, w, "running")
    /\ UNCHANGED <<dbVars, step, pool, driver, factory, registry, logs, polling, readVars, histVars>>

\* The run ends, and its last update says how.
TaskEnds(w) ==
    /\ step[w] \notin Ends
    /\ run[w] # "none"
    /\ run' = With(run, w, "none")
    /\ UNCHANGED <<dbVars, step, pool, driver, factory, registry, logs, polling, readVars, histVars>>

-----------------------------------------------------------------------------
(* The end.                                                                *)

\* What dies with the process.
Gone(w) ==
    /\ polling' = With(polling, w, FALSE)
    /\ run' = With(run, w, "none")
    /\ found' = With(found, w, {})
    /\ doomed' = With(doomed, w, {})
    /\ pool' = With(pool, w, "none")
    /\ driver' = With(driver, w, "none")
    /\ factory' = With(factory, w, FALSE)
    /\ registry' = With(registry, w, {})
    /\ logs' = With(logs, w, "detached")

\* SIGTERM or SIGINT: _handle_signal raises SystemExit, which ends the event
\* loop; no statement after lifespan's yield is executed.  A crash does the same.
Killed(w) ==
    /\ step[w] \notin Ends
    /\ Goto(w, "killed")
    /\ Gone(w)
    /\ UNCHANGED <<dbVars, histVars>>

\* The server ends the lifespan: the metrics task is cancelled and awaited.
BeginStop(w) ==
    /\ step[w] = "serving"
    /\ Goto(w, "stop metrics")
    /\ UNCHANGED <<dbVars, memVars, readVars, histVars>>

\* Mutant of DrainTasks: the stop waits for the task with status "running".
DrainTasksByWaiting(w) ==
    /\ step[w] = "stop metrics"
    /\ run[w] # "running"
    /\ Goto(w, "stop logs")
    /\ UNCHANGED <<dbVars, memVars, readVars, histVars>>

\* What the registry has with status "running" is to be cancelled, by a method
\* that Task does not have: AttributeError, and the rest of the stop is skipped.
\* So it is with another worker's task that get or list_tasks has copied into
\* the registry.  Runs that are set aside are passed over.
DrainTasks(w) ==
    /\ step[w] = "stop metrics"
    /\ UNCHANGED <<dbVars, histVars>>
    /\ \E copied \in BOOLEAN :
         /\ copied => \E v \in Workers \ {w} : step[v] # "off"
         /\ IF run[w] = "running" \/ copied THEN Goto(w, "aborted") /\ Gone(w)
            ELSE Goto(w, "stop logs") /\ UNCHANGED <<memVars, readVars>>

\* log_handler.stop(), if there is a handler.
StopLogs(w) ==
    /\ step[w] = "stop logs"
    /\ logs' = IF logs[w] = "running" THEN With(logs, w, "stopped") ELSE logs
    /\ Goto(w, "stop polling")
    /\ UNCHANGED <<dbVars, pool, driver, factory, registry, run, polling, readVars, histVars>>

\* Mutant of StopPolling: the loop is told to stop and not awaited.
StopPollingUnawaited(w) ==
    /\ step[w] = "stop polling"
    /\ Goto(w, "close database")
    /\ UNCHANGED <<dbVars, memVars, readVars, histVars>>

\* The ingestion task is cancelled and awaited.
StopPolling(w) ==
    /\ step[w] = "stop polling"
    /\ polling' = With(polling, w, FALSE)
    /\ Goto(w, "close database")
    /\ UNCHANGED <<dbVars, pool, driver, factory, registry, logs, run, readVars, histVars>>

\* close_db disposes of the engine, which opens a new pool for whoever asks it.
CloseDatabase(w) ==
    /\ step[w] = "close database"
    /\ pool' = With(pool, w, "disposed")
    /\ Goto(w, "close neo4j")
    /\ UNCHANGED <<dbVars, driver, factory, registry, logs, run, polling, readVars, histVars>>

\* The process ends, and with it the run that was set aside.
CloseNeo4j(w) ==
    /\ step[w] = "close neo4j"
    /\ Goto(w, "stopped")
    /\ Gone(w)
    /\ UNCHANGED <<dbVars, histVars>>

-----------------------------------------------------------------------------

\* Some databases hold the account of an older release, or events that were
\* ingested while the seeding failed.
Init ==
    /\ tables \in BOOLEAN
    /\ users \in IF tables THEN {{}, {"legacy"}} ELSE {{}}
    /\ taskRows = {}
    /\ events \in IF tables THEN {{}} \cup { {[origin |-> "attacker", by |-> 1, tactic |-> t]} : t \in Tactics }
                 ELSE {{}}
    /\ step = [w \in Workers |-> "off"]
    /\ pool = [w \in Workers |-> "none"]
    /\ driver = [w \in Workers |-> "none"]
    /\ factory = [w \in Workers |-> FALSE]
    /\ registry = [w \in Workers |-> {}]
    /\ logs = [w \in Workers |-> "detached"]
    /\ run = [w \in Workers |-> "none"]
    /\ polling = [w \in Workers |-> FALSE]
    /\ found = [w \in Workers |-> {}]
    /\ doomed = [w \in Workers |-> {}]
    /\ starts = 0
    /\ faults = 0
    /\ setback = ("legacy" \in users)
    /\ seeded = FALSE

SeedSteps == {"seed events", "count", "delete", "insert"}

\* What lifespan() does before its yield, and after it.
Startup(w) ==
    \/ Connect(w) \/ Create(w) \/ Recover(w) \/ Neo4j(w)
    \/ SeedTasks(w) \/ SeedTask(w) \/ SeedTasksDone(w)
    \/ FindAdmin(w) \/ MakeAdmin(w)
    \/ AnyEvents(w) \/ CoveredAlready(w) \/ NotCovered(w) \/ DeleteEvents(w) \/ InsertEvents(w)
    \/ Fails(w, "create", "neo4j")
    \/ Fails(w, "seed tasks", "admin")
    \/ Fails(w, "admin", "seed events")
    \/ Fails(w, "make admin", "seed events")
    \/ \E s \in SeedSteps : SeedEventsFails(w, s)

Stop(w) ==
    \/ DrainTasks(w) \/ StopLogs(w) \/ StopPolling(w) \/ CloseDatabase(w) \/ CloseNeo4j(w)

Serve(w) ==
    \/ Ingest(w) \/ Register(w)
    \/ RunTask(w) \/ SetAside(w) \/ TakeBack(w) \/ TaskEnds(w)

Next ==
    \E w \in Workers : Start(w) \/ Startup(w) \/ Serve(w) \/ BeginStop(w) \/ Stop(w) \/ Killed(w)

\* Every await of the startup and of the stop is answered or fails; nothing
\* else has to happen.
Spec == Init /\ [][Next]_vars /\ \A w \in Workers : WF_vars(Startup(w)) /\ WF_vars(Stop(w))

-----------------------------------------------------------------------------
(* Properties.                                                             *)

\* Once a startup has seeded the events, the table covers every tactic, for
\* good, however the deletions and insertions of other workers' startups and
\* the ingested events fall between.
SeededMeansCovered == seeded => Covers(events)

\* The seed companies are seeded only as long as there is no user, so their
\* rows must be there before the first one is: a worker killed in between, or
\* overtaken by another one, leaves no database that has users and lacks seed
\* companies, unless a step of a startup failed.
SeedTasksBeforeUsers == (users # {} /\ ~setback) => taskRows = Companies

\* When an orderly stop closes the database, what uses it by itself, again and
\* again, has ended: the ingestion loop and the log handler's loop.  (A run that
\* the draining passed over may still use it.)
LoopsEndBeforeClosing ==
    \A w \in Workers : pool[w] = "disposed" => ~polling[w] /\ logs[w] # "running"

\* Every start reaches the serving of requests, whatever fails in it and
\* whatever the other workers do, unless the process is killed.
EveryStartServes ==
    \A w \in Workers : step[w] = "connect" ~> step[w] \in {"serving", "killed"}

\* Every stop comes to an end, even with tasks that do not.
EveryStopEnds ==
    \A w \in Workers : step[w] = "stop metrics" ~> step[w] \in Ends

\* README.md: seed events are loaded when the table is empty; the events that
\* were ingested stay.
IngestedEventsAreKept ==
    [][\A r \in events : r.origin = "attacker" => r \in events']_vars
=============================================================================
