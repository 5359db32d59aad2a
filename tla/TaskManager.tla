----------------------------- MODULE TaskManager -----------------------------
(***************************************************************************)
(* The life of a company generation: the in-memory registry of tasks       *)
(* (backend/services/task_manager.py), the row each task has in PostgreSQL, *)
(* the HTTP endpoints that create and control tasks (backend/api/company.py)*)
(* and the coroutine that does the work, with its heartbeat                *)
(* (backend/generators/company_generator.py).                              *)
(*                                                                         *)
(* The program is one asyncio event loop: whatever stands between two      *)
(* awaits is one step.  An actor is a coroutine that may be suspended: an  *)
(* HTTP request, the generation of a task, or the heartbeat of its current *)
(* model call.  Each has at most one database call outstanding, io[a],     *)
(* whose database side and whose resumption are steps of their own.        *)
(***************************************************************************)
EXTENDS Naturals

CONSTANTS
  Tasks,      \* task ids
  Requests,   \* HTTP requests that can be in progress at the same time
  Phases,     \* model calls one generation makes (4, or 9 with enrichment)
  Retries,    \* retries of one model call
  Endpoints,  \* lifecycle endpoints that clients use
  MaxBoots,   \* bound: restarts of the process
  MaxFaults,  \* bound: database calls that fail
  None        \* absence: of a task object, of a row, of a value

ASSUME BoundsAssumption ==
  /\ Endpoints \subseteq {"pause", "resume", "cancel", "delete", "get", "list"}
  /\ Phases \in Nat \ {0}
  /\ Retries \in Nat
  /\ MaxBoots \in Nat
  /\ MaxFaults \in Nat

VARIABLES
  mem,        \* _tasks: the Task object of each id, or None
  row,        \* the generation_tasks row of each id, or None
  company,    \* whether the company of a task has been committed
  io,         \* the database call each actor awaits
  stage,      \* where each actor is suspended
  phase,      \* the phase of generate_company each coroutine works on
  attempt,    \* the attempt of _safe_generate each run is in
  cancelling, \* whether a CancelledError is on its way to the run
  created,    \* ids handed out by the generate endpoint
  deleted,    \* ids a delete request has been served for (history)
  raced,      \* ids with overlapping or failed database calls (history)
  boots,      \* restarts so far (bound)
  faults      \* failed database calls so far (bound)

db         == <<row, company>>
suspension == <<io, stage>>
work       == <<phase, attempt, cancelling>>
ids        == <<created, deleted>>
bounds     == <<boots, faults>>
others     == <<ids, bounds>>
vars       == <<mem, db, suspension, work, raced, others>>

-----------------------------------------------------------------------------
Unfinished == {"pending", "running", "paused"}
Settled    == {"completed", "failed", "cancelled"}
Status     == Unfinished \cup Settled

\* The columns, and attributes, that something here tells apart.  result is
\* the outcome of saving the company: its id or the error that was recorded.
Results == {"none", "stored", "unstored"}
Rows    == [status : Status, progress : 0..(Phases + 1),
            result : Results]
Objects == [status : Status, progress : 0..(Phases + 1),
            result : Results,
            coro : BOOLEAN,    \* _coro is set
            open : BOOLEAN]    \* the _paused event is set

RowOf(o) == [status |-> o.status, progress |-> o.progress, result |-> o.result]

\* A Task built from a row has no coroutine and a fresh event, whatever its
\* status.
Rebuilt(r) == [status |-> r.status, progress |-> r.progress,
               result |-> r.result, coro |-> FALSE, open |-> TRUE]

NewTask == [status |-> "pending", progress |-> 0, result |-> "none",
            coro |-> FALSE, open |-> TRUE]

-----------------------------------------------------------------------------
Run(t)  == <<"run", t>>
Beat(t) == <<"heartbeat", t>>
Req(r)  == <<"request", r>>

Coroutines == {"run", "heartbeat"} \X Tasks
Actors     == Coroutines \cup ({"request"} \X Requests)

RunStages ==
  {"off", "registered", "ask", "gate", "adrift", "woken", "report", "llm",
   "unwind", "unwind_cancelled", "backoff", "save", "saved", "unsaved",
   "final", "done"}
BeatStages == {"off", "sleep", "ask", "gate", "adrift", "woken", "report"}
RequestStages ==
  {"idle", "creating", "starting", "acting", "deleting", "replying",
   "listing"}
StagesOf(a) ==
  CASE a[1] = "run" -> RunStages
    [] a[1] = "heartbeat" -> BeatStages
    [] a[1] = "request" -> RequestStages

\* A database call.  A persist selects the row (read), copies the fields of the
\* task (copy), then flushes and commits (insert, update); a lookup goes load,
\* loaded; a removal goes erase; back is a call that returned and failed one
\* that raised.  data is the row that was read, or what a persist is to write:
\* in an update, None leaves a column as it is.  source is the object a persist
\* was asked for, once it is no longer the one in mem.
Changes == [status : Status \cup {None}, progress : 0..(Phases + 1) \cup {None},
            result : Results \cup {None}]
Calls == [at : {"none", "read", "copy", "insert", "update", "load", "loaded",
                "erase", "back", "failed"},
          task : Tasks \cup {None}, source : Rows \cup {None},
          data : Changes \cup {None}]

ASSUME NoneAssumption ==
  None \notin Tasks \cup Objects \cup Rows \cup Changes
              \cup Status \cup Results \cup 0..(Phases + 1)

NoCall == [at |-> "none", task |-> None, source |-> None, data |-> None]
Call(at, t) == [NoCall EXCEPT !.at = at, !.task = t]

Persisting(a, t) ==
  io[a].task = t /\ io[a].at \in {"read", "copy", "insert", "update"}

\* Actor a suspends at stage s, awaiting call c.
Suspend(a, s, c) ==
  /\ stage' = [stage EXCEPT ![a] = s]
  /\ io' = [io EXCEPT ![a] = c]

\* A coroutine that has been cancelled does nothing more where it is
\* suspended: its next step raises CancelledError there.
Interrupted(a) ==
  \/ a[1] = "run" /\ cancelling[a[2]]
  \/ a[1] = "heartbeat" /\ stage[Run(a[2])] \in {"unwind", "unwind_cancelled"}

\* When the object of t leaves mem, persists in flight keep their reference
\* to it, and the waiters on its event wait on an event nobody can reach.
Orphaned(t) ==
  [a \in Actors |->
     IF io[a].task = t /\ io[a].at \in {"read", "copy"} /\ io[a].source = None
     THEN [io[a] EXCEPT !.source = RowOf(mem[t])] ELSE io[a]]
StrandedNever(t) == stage  \* mutant: waiters keep a gate nobody can open
Stranded(t) ==
  [a \in Actors |->
     IF a \in {Run(t), Beat(t)} /\ stage[a] = "gate" THEN "adrift" ELSE stage[a]]

OpenedForLatecomers(t) == stage  \* mutant: set() does not wake who waits already

\* asyncio.Event.set(): whoever waits will resume, even if the event is
\* cleared again before it does.
Opened(t) ==
  [a \in Actors |->
     IF a \in {Run(t), Beat(t)} /\ stage[a] = "gate" THEN "woken" ELSE stage[a]]

-----------------------------------------------------------------------------
Init ==
  /\ mem = [t \in Tasks |-> None]
  /\ row = [t \in Tasks |-> None]
  /\ company = [t \in Tasks |-> FALSE]
  /\ io = [a \in Actors |-> NoCall]
  /\ stage = [a \in Actors |-> IF a[1] = "request" THEN "idle" ELSE "off"]
  /\ phase = [a \in Coroutines |-> 0]
  /\ attempt = [t \in Tasks |-> 0]
  /\ cancelling = [t \in Tasks |-> FALSE]
  /\ created = {}
  /\ deleted = {}
  /\ raced = {}
  /\ boots = 0
  /\ faults = 0

-----------------------------------------------------------------------------
(* The database side of a call, and the one step of _persist that runs in   *)
(* the program between its two database calls.                             *)

\* The columns an UPDATE sets: those whose value is not the one just read.
IfNew(new, old) == IF new = old THEN None ELSE new

\* mutant: the result is written by the INSERT only
DifferenceButResult(new, old) ==
  [status |-> IfNew(new.status, old.status),
   progress |-> IfNew(new.progress, old.progress), result |-> None]

Difference(new, old) ==
  [status |-> IfNew(new.status, old.status),
   progress |-> IfNew(new.progress, old.progress),
   result |-> IfNew(new.result, old.result)]
Unchanged == [status |-> None, progress |-> None, result |-> None]

Read(a) ==
  /\ io[a].at = "read"
  /\ io' = [io EXCEPT ![a].at = "copy", ![a].data = row[io[a].task]]
  /\ UNCHANGED <<mem, db, stage, work, others>>

\* _persist copies the fields the object has by now, not those it had when the
\* persist was asked for, and compares them with the row it read.
Copy(a) ==
  LET t      == io[a].task
      old    == io[a].data
      fields == IF io[a].source = None THEN RowOf(mem[t]) ELSE io[a].source
  IN
  /\ io[a].at = "copy"
  /\ ~Interrupted(a)
  /\ io' = [io EXCEPT ![a] =
       IF old = None
       THEN [Call("insert", t) EXCEPT !.data = fields]
       ELSE IF Difference(fields, old) = Unchanged
            THEN Call("back", t)
            ELSE [Call("update", t) EXCEPT !.data = Difference(fields, old)]]
  /\ UNCHANGED <<mem, db, stage, work, others>>

IfSet(new, old) == IF new = None THEN old ELSE new
Updated(r, d) ==
  [status |-> IfSet(d.status, r.status),
   progress |-> IfSet(d.progress, r.progress),
   result |-> IfSet(d.result, r.result)]

\* An INSERT of a row that has appeared since, and an UPDATE of one that has
\* gone, raise; _persist logs the exception.
Commit(a) ==
  LET t == io[a].task
      d == io[a].data
  IN
  /\ \/ /\ io[a].at = "insert"
        /\ row' = [row EXCEPT ![t] = IF @ = None THEN d ELSE @]
     \/ /\ io[a].at = "update"
        /\ row' = [row EXCEPT ![t] = IF @ = None THEN None ELSE Updated(@, d)]
  /\ io' = [io EXCEPT ![a] = Call("back", t)]
  /\ UNCHANGED <<mem, company, stage, work, others>>

Load(a) ==
  /\ io[a].at = "load"
  /\ io' = [io EXCEPT ![a].at = "loaded", ![a].data = row[io[a].task]]
  /\ UNCHANGED <<mem, db, stage, work, others>>

Erase(a) ==
  /\ io[a].at = "erase"
  /\ row' = [row EXCEPT ![io[a].task] = None]
  /\ io' = [io EXCEPT ![a] = Call("back", io[a].task)]
  /\ UNCHANGED <<mem, company, stage, work, others>>

\* A failed persist is logged and forgotten; a failed lookup or removal
\* raises in its caller.
DatabaseFails(a) ==
  /\ faults < MaxFaults
  /\ faults' = faults + 1
  /\ \/ io[a].at \in {"read", "insert", "update"}
        /\ io' = [io EXCEPT ![a] = Call("back", io[a].task)]
     \/ io[a].at \in {"load", "erase"}
        /\ io' = [io EXCEPT ![a] = Call("failed", io[a].task)]
  /\ UNCHANGED <<mem, db, stage, work, ids, boots>>

DatabaseStep(a) == Read(a) \/ Copy(a) \/ Commit(a) \/ Load(a) \/ Erase(a)

-----------------------------------------------------------------------------
(* POST /generate: create, then update(status="running"), then register.    *)

Idle(r) == stage[Req(r)] = "idle"
Back(r, s) == stage[Req(r)] = s /\ io[Req(r)].at = "back"

Generate(r, t) ==
  /\ Idle(r)
  /\ t \notin created
  /\ created' = created \cup {t}
  /\ mem' = [mem EXCEPT ![t] = NewTask]
  /\ Suspend(Req(r), "creating", Call("read", t))
  /\ UNCHANGED <<db, work, deleted, bounds>>

MarkRunning(r) ==
  LET t == io[Req(r)].task IN
  /\ Back(r, "creating")
  /\ mem[t] # None
  /\ mem' = [mem EXCEPT ![t].status = "running", ![t].progress = 0]
  /\ Suspend(Req(r), "starting", Call("read", t))
  /\ UNCHANGED <<db, work, others>>

Register(r) ==
  LET t == io[Req(r)].task IN
  /\ Back(r, "starting")
  /\ mem[t] # None
  /\ mem' = [mem EXCEPT ![t].coro = TRUE]
  /\ stage' = [stage EXCEPT ![Req(r)] = "idle", ![Run(t)] = "registered"]
  /\ io' = [io EXCEPT ![Req(r)] = NoCall]
  /\ UNCHANGED <<db, work, others>>

-----------------------------------------------------------------------------
(* The lifecycle endpoints.  Each ends with a get() for its response.       *)

Known(r, t) == Idle(r) /\ t \in created

\* mutant: without the check that the task is running
PauseAnyway(r, t) ==
  /\ Known(r, t)
  /\ mem[t] # None
  /\ mem' = [mem EXCEPT ![t].status = "paused", ![t].open = FALSE]
  /\ Suspend(Req(r), "acting", Call("read", t))
  /\ UNCHANGED <<db, work, others>>

Pause(r, t) ==
  /\ Known(r, t)
  /\ mem[t] # None
  /\ mem' = IF mem[t].status = "running"
            THEN [mem EXCEPT ![t].status = "paused", ![t].open = FALSE]
            ELSE mem
  /\ Suspend(Req(r), "acting", Call("read", t))
  /\ UNCHANGED <<db, work, others>>

Resume(r, t) ==
  /\ Known(r, t)
  /\ mem[t] # None
  /\ IF mem[t].status = "paused"
     THEN /\ mem' = [mem EXCEPT ![t].status = "running", ![t].open = TRUE]
          /\ stage' = [Opened(t) EXCEPT ![Req(r)] = "acting"]
     ELSE /\ mem' = mem
          /\ stage' = [stage EXCEPT ![Req(r)] = "acting"]
  /\ io' = [io EXCEPT ![Req(r)] = Call("read", t)]
  /\ UNCHANGED <<db, work, others>>

\* mutant: without the check of the status
CancelAnyway(r, t) ==
  /\ Known(r, t)
  /\ mem[t] # None
  /\ mem' = [mem EXCEPT ![t].status = "cancelled", ![t].open = TRUE]
  /\ stage' = [Opened(t) EXCEPT ![Req(r)] = "acting"]
  /\ cancelling' = [cancelling EXCEPT ![t] = @ \/ mem[t].coro]
  /\ io' = [io EXCEPT ![Req(r)] = Call("read", t)]
  /\ UNCHANGED <<db, phase, attempt, others>>

\* mutant: the status alone, the event stays cleared and the run is not told
CancelStatusOnly(r, t) ==
  /\ Known(r, t)
  /\ mem[t] # None
  /\ mem' = [mem EXCEPT ![t].status = IF @ \in Unfinished THEN "cancelled" ELSE @]
  /\ Suspend(Req(r), "acting", Call("read", t))
  /\ UNCHANGED <<db, work, others>>

Cancel(r, t) ==
  /\ Known(r, t)
  /\ mem[t] # None
  /\ IF mem[t].status \in Unfinished
     THEN /\ mem' = [mem EXCEPT ![t].status = "cancelled", ![t].open = TRUE]
          /\ stage' = [Opened(t) EXCEPT ![Req(r)] = "acting"]
          /\ cancelling' = [cancelling EXCEPT ![t] = @ \/ mem[t].coro]
     ELSE /\ UNCHANGED <<mem, cancelling>>
          /\ stage' = [stage EXCEPT ![Req(r)] = "acting"]
  /\ io' = [io EXCEPT ![Req(r)] = Call("read", t)]
  /\ UNCHANGED <<db, phase, attempt, others>>

\* delete() does not stop the run.
Delete(r, t) ==
  /\ Known(r, t)
  /\ deleted' = deleted \cup {t}
  /\ mem' = [mem EXCEPT ![t] = None]
  /\ io' = [Orphaned(t) EXCEPT ![Req(r)] = Call("erase", t)]
  /\ stage' = [Stranded(t) EXCEPT ![Req(r)] = "deleting"]
  /\ UNCHANGED <<db, work, created, bounds>>

\* get() of an id that is not in memory asks the database.  Each endpoint ends
\* with it, and the rows that list_tasks() reads, which it does only while
\* memory is empty, are looked up here one at a time.
LookUp(r, t, s) ==
  /\ Known(r, t)
  /\ mem[t] = None
  /\ s = "listing" => \A u \in Tasks : mem[u] = None
  /\ Suspend(Req(r), s, Call("load", t))
  /\ UNCHANGED <<mem, db, work, others>>

\* The row becomes the task in memory: for a get() even if one has appeared
\* there since, for a list only if none has.
Install(r) ==
  LET t == io[Req(r)].task IN
  /\ \/ stage[Req(r)] = "replying"
     \/ stage[Req(r)] = "listing" /\ mem[t] = None
  /\ io[Req(r)].at = "loaded"
  /\ io[Req(r)].data # None
  /\ mem' = [mem EXCEPT ![t] = Rebuilt(io[Req(r)].data)]
  /\ io' = [Orphaned(t) EXCEPT ![Req(r)] = NoCall]
  /\ stage' = [Stranded(t) EXCEPT ![Req(r)] = "idle"]
  /\ UNCHANGED <<db, work, others>>

\* The response is sent; nothing else changes.
Reply(r) ==
  LET call == io[Req(r)] IN
  /\ \/ call.at = "failed"
     \/ call.at = "back" /\ stage[Req(r)] \in {"acting", "deleting"}
     \/ call.at = "back" /\ mem[call.task] = None
     \/ call.at = "loaded" /\ call.data = None
     \/ call.at = "loaded" /\ stage[Req(r)] = "listing" /\ mem[call.task] # None
  /\ Suspend(Req(r), "idle", NoCall)
  /\ UNCHANGED <<mem, db, work, others>>

RequestStep(r) == MarkRunning(r) \/ Register(r) \/ Install(r) \/ Reply(r)

-----------------------------------------------------------------------------
(* on_progress(), called by the run when a phase starts and by the          *)
(* heartbeat of a model call: get the task, wait while it is paused, then   *)
(* update its progress.                                                    *)

\* mutant: update() makes a task for an id it does not know
ReportProgressAlways(a, p) ==
  LET t == a[2] IN
  /\ mem' = [mem EXCEPT ![t] = [IF @ = None THEN NewTask ELSE @ EXCEPT !.progress = p]]
  /\ Suspend(a, "report", Call("read", t))

\* update(progress = p), for the task that has this id now.
ReportProgress(a, p) ==
  LET t == a[2] IN
  /\ mem[t] # None
  /\ mem' = [mem EXCEPT ![t].progress = p]
  /\ Suspend(a, "report", Call("read", t))

OnProgress(a, p) ==
  LET t == a[2] IN
  \/ mem[t] = None /\ Suspend(a, "ask", Call("load", t)) /\ UNCHANGED mem
  \/ /\ mem[t] # None /\ ~mem[t].open
     /\ Suspend(a, "gate", NoCall) /\ UNCHANGED mem
  \/ /\ mem[t] # None /\ mem[t].open
     /\ ReportProgress(a, p)

\* A model call starts, with a heartbeat that reports the phase of this call.
StartCall(t) ==
  /\ stage' = [stage EXCEPT ![Run(t)] = "llm", ![Beat(t)] = "sleep"]
  /\ phase' = [phase EXCEPT ![Beat(t)] = phase[Run(t)]]

\* on_progress() has returned to the run or to the heartbeat.
Reported(a) ==
  \/ a = Run(a[2]) /\ StartCall(a[2])
  \/ a = Beat(a[2]) /\ stage' = [stage EXCEPT ![a] = "sleep"] /\ UNCHANGED phase

\* The gate has opened, or the lookup found no row.
PastGate(a) ==
  /\ \/ stage[a] = "woken"
     \/ stage[a] = "ask" /\ io[a].at = "loaded" /\ io[a].data = None
  /\ ~Interrupted(a)

\* Update whatever task has the id.
PassGate(a) ==
  /\ PastGate(a)
  /\ \/ ReportProgress(a, phase[a]) /\ UNCHANGED phase
     \/ /\ mem[a[2]] = None
        /\ Reported(a)
        /\ io' = [io EXCEPT ![a] = NoCall]
        /\ UNCHANGED mem
  /\ UNCHANGED <<db, attempt, cancelling, others>>

\* The lookup found the row of a task that is not in memory: get() puts it
\* back, with an open event, and it is updated at once.
Revive(a) ==
  LET t == a[2] IN
  /\ stage[a] = "ask"
  /\ io[a].at = "loaded"
  /\ io[a].data # None
  /\ ~Interrupted(a)
  /\ mem' = [mem EXCEPT ![t] = [Rebuilt(io[a].data) EXCEPT !.progress = phase[a]]]
  /\ io' = [Orphaned(t) EXCEPT ![a] = Call("read", t)]
  /\ stage' = [Stranded(t) EXCEPT ![a] = "report"]
  /\ UNCHANGED <<db, work, others>>

EndReport(a) ==
  /\ stage[a] = "report"
  /\ io[a].at = "back"
  /\ ~Interrupted(a)
  /\ Reported(a)
  /\ io' = [io EXCEPT ![a] = NoCall]
  /\ UNCHANGED <<mem, db, attempt, cancelling, others>>

\* Every 15 seconds of a model call.
Heartbeat(t) ==
  /\ stage[Run(t)] = "llm"
  /\ stage[Beat(t)] = "sleep"
  /\ OnProgress(Beat(t), phase[Beat(t)])
  /\ UNCHANGED <<db, work, others>>

\* A heartbeat whose lookup raised is over; the model call goes on.
HeartbeatFails(t) ==
  /\ stage[Beat(t)] = "ask"
  /\ io[Beat(t)].at = "failed"
  /\ Suspend(Beat(t), "off", NoCall)
  /\ UNCHANGED <<mem, db, work, others>>

\* hb_task.cancel(): the heartbeat ends where it is suspended, and a persist
\* it had not committed is lost.
StopHeartbeat(t) ==
  /\ stage[Run(t)] \in {"unwind", "unwind_cancelled"}
  /\ stage[Beat(t)] # "off"
  /\ Suspend(Beat(t), "off", NoCall)
  /\ UNCHANGED <<mem, db, work, others>>

-----------------------------------------------------------------------------
(* run(): generate_company(), then persist_company(), then the last update. *)

\* mutant: the last update is not persisted
ConcludeInMemory(t, object) ==
  /\ cancelling' = [cancelling EXCEPT ![t] = FALSE]
  /\ mem' = IF mem[t] = None THEN mem ELSE [mem EXCEPT ![t] = object]
  /\ Suspend(Run(t), "done", NoCall)

\* The last update of a run, if the id still has a task.
Conclude(t, object) ==
  /\ cancelling' = [cancelling EXCEPT ![t] = FALSE]
  /\ \/ /\ mem[t] # None
        /\ mem' = [mem EXCEPT ![t] = object]
        /\ Suspend(Run(t), "final", Call("read", t))
     \/ /\ mem[t] = None
        /\ UNCHANGED mem
        /\ Suspend(Run(t), "done", NoCall)
ConcludeAs(t, s) == Conclude(t, [mem[t] EXCEPT !.status = s])

StartRun(t) ==
  /\ stage[Run(t)] = "registered"
  /\ ~cancelling[t]
  /\ phase' = [phase EXCEPT ![Run(t)] = 1]
  /\ OnProgress(Run(t), 1)
  /\ UNCHANGED <<db, attempt, cancelling, others>>

\* The model answered, timed out or raised, and its heartbeat has to be
\* waited for.
EndCall(t) ==
  /\ stage[Run(t)] = "llm"
  /\ ~cancelling[t]
  /\ stage[Beat(t)] # "off"
  /\ stage' = [stage EXCEPT ![Run(t)] = "unwind"]
  /\ UNCHANGED <<mem, db, io, work, others>>

\* mutant: without waiting for the heartbeat
UnwoundAtOnce(t) ==
  \/ stage[Run(t)] = "unwind"
  \/ stage[Run(t)] = "llm" /\ ~cancelling[t]

\* The heartbeat is over.  A CancelledError that arrived while the run waited
\* for it has been swallowed by the except clause around that wait.
Unwound(t) ==
  /\ stage[Beat(t)] = "off"
  /\ \/ stage[Run(t)] = "unwind"
     \/ stage[Run(t)] = "llm" /\ ~cancelling[t]

\* mutant: one retry too many
RetryOnceMore(t) ==
  /\ Unwound(t)
  /\ attempt[t] <= Retries
  /\ attempt' = [attempt EXCEPT ![t] = @ + 1]
  /\ cancelling' = [cancelling EXCEPT ![t] = FALSE]
  /\ StartCall(t)
  /\ UNCHANGED <<mem, db, io, others>>

\* Invalid JSON or a timeout: the next attempt starts at once.
Retry(t) ==
  /\ Unwound(t)
  /\ attempt[t] < Retries
  /\ attempt' = [attempt EXCEPT ![t] = @ + 1]
  /\ cancelling' = [cancelling EXCEPT ![t] = FALSE]
  /\ StartCall(t)
  /\ UNCHANGED <<mem, db, io, others>>

\* Any other exception: two seconds of sleep before the next attempt.
BackOff(t) ==
  /\ Unwound(t)
  /\ attempt[t] < Retries
  /\ cancelling' = [cancelling EXCEPT ![t] = FALSE]
  /\ stage' = [stage EXCEPT ![Run(t)] = "backoff"]
  /\ UNCHANGED <<mem, db, io, phase, attempt, others>>

EndBackOff(t) ==
  /\ stage[Run(t)] = "backoff"
  /\ ~cancelling[t]
  /\ attempt' = [attempt EXCEPT ![t] = @ + 1]
  /\ StartCall(t)
  /\ UNCHANGED <<mem, db, io, cancelling, others>>

\* A phase ends with the model's data or, when every attempt failed, with a
\* fallback: either way the next phase starts.
NextPhase(t) ==
  /\ Unwound(t)
  /\ phase[Run(t)] < Phases
  /\ phase' = [phase EXCEPT ![Run(t)] = @ + 1]
  /\ attempt' = [attempt EXCEPT ![t] = 0]
  /\ cancelling' = [cancelling EXCEPT ![t] = FALSE]
  /\ OnProgress(Run(t), phase[Run(t)] + 1)
  /\ UNCHANGED <<db, others>>

\* After the last phase run() saves the company, without a look at the pause.
StartSave(t) ==
  /\ Unwound(t)
  /\ phase[Run(t)] = Phases
  /\ attempt' = [attempt EXCEPT ![t] = 0]
  /\ cancelling' = [cancelling EXCEPT ![t] = FALSE]
  /\ stage' = [stage EXCEPT ![Run(t)] = "save"]
  /\ UNCHANGED <<mem, db, io, phase, others>>

\* mutant: the company's session is never committed
SaveCompanyUncommitted(t) ==
  /\ stage[Run(t)] = "save"
  /\ \E s \in {"saved", "unsaved"} : stage' = [stage EXCEPT ![Run(t)] = s]
  /\ UNCHANGED <<mem, db, io, work, others>>

SaveCompany(t) ==
  /\ stage[Run(t)] = "save"
  /\ \/ /\ company' = [company EXCEPT ![t] = TRUE]
        /\ stage' = [stage EXCEPT ![Run(t)] = "saved"]
     \/ /\ UNCHANGED company
        /\ stage' = [stage EXCEPT ![Run(t)] = "unsaved"]
  /\ UNCHANGED <<mem, row, io, work, others>>

\* update(status="completed"), whatever the status is by now.
Complete(t) ==
  /\ stage[Run(t)] \in {"saved", "unsaved"}
  /\ ~cancelling[t]
  /\ Conclude(t, [mem[t] EXCEPT
       !.status = "completed", !.progress = Phases + 1,
       !.result = IF stage[Run(t)] = "saved" THEN "stored" ELSE "unstored"])
  /\ UNCHANGED <<db, phase, attempt, others>>

\* mutant: a lookup that failed in on_progress() is not handled
FailRunExceptLookup(t) ==
  /\ \/ stage[Run(t)] = "registered"
     \/ stage[Run(t)] = "report" /\ io[Run(t)].at = "back"
     \/ PastGate(Run(t)) /\ mem[t] = None
  /\ ~cancelling[t]
  /\ ConcludeAs(t, "failed")
  /\ UNCHANGED <<db, phase, attempt, others>>

\* An exception of generate_company(): a provider that is not configured, a
\* lookup that failed, or, after on_progress() has returned, a prompt that
\* cannot be built from what the model gave.
FailRun(t) ==
  /\ \/ stage[Run(t)] = "registered"
     \/ stage[Run(t)] = "ask" /\ io[Run(t)].at = "failed"
     \/ stage[Run(t)] = "report" /\ io[Run(t)].at = "back"
     \/ PastGate(Run(t)) /\ mem[t] = None
  /\ ~cancelling[t]
  /\ ConcludeAs(t, "failed")
  /\ UNCHANGED <<db, phase, attempt, others>>

\* CancelledError in a model call first runs the finally clause.
CancelCall(t) ==
  /\ cancelling[t]
  /\ stage[Run(t)] = "llm"
  /\ stage[Beat(t)] # "off"
  /\ cancelling' = [cancelling EXCEPT ![t] = FALSE]
  /\ stage' = [stage EXCEPT ![Run(t)] = "unwind_cancelled"]
  /\ UNCHANGED <<mem, db, io, phase, attempt, others>>

\* CancelledError reaches the except clause of run().
CancelRun(t) ==
  /\ \/ /\ cancelling[t]
        /\ \/ stage[Run(t)] \in {"ask", "woken", "report", "backoff", "save",
                                 "saved", "unsaved"}
           \/ stage[Run(t)] = "llm" /\ stage[Beat(t)] = "off"
     \/ stage[Run(t)] = "unwind_cancelled" /\ stage[Beat(t)] = "off"
  /\ ConcludeAs(t, "cancelled")
  /\ UNCHANGED <<db, phase, attempt, others>>

\* A run cancelled before its first step never enters run(), so no handler
\* of run() executes.
CancelUnstarted(t) ==
  /\ cancelling[t]
  /\ stage[Run(t)] = "registered"
  /\ cancelling' = [cancelling EXCEPT ![t] = FALSE]
  /\ Suspend(Run(t), "done", NoCall)
  /\ UNCHANGED <<mem, db, phase, attempt, others>>

EndRun(t) ==
  /\ stage[Run(t)] = "final"
  /\ io[Run(t)].at = "back"
  /\ Suspend(Run(t), "done", NoCall)
  /\ UNCHANGED <<mem, db, work, others>>

GenerationStep(t) ==
  \/ StartRun(t) \/ EndCall(t) \/ Retry(t) \/ BackOff(t) \/ EndBackOff(t)
  \/ NextPhase(t) \/ StartSave(t) \/ SaveCompany(t) \/ Complete(t)
  \/ FailRun(t) \/ CancelCall(t) \/ CancelRun(t) \/ CancelUnstarted(t)
  \/ EndRun(t)

OnProgressStep(a) == PassGate(a) \/ Revive(a) \/ EndReport(a)

-----------------------------------------------------------------------------
(* A restart of the process at any point, and set_session_factory().        *)

InProgress == {"running", "paused"}

\* mutant: paused tasks are left as they were
RecoveredIfRunning(r) ==
  IF r # None /\ r.status = "running" THEN [r EXCEPT !.status = "failed"] ELSE r

Recovered(r) ==
  IF r # None /\ r.status \in InProgress THEN [r EXCEPT !.status = "failed"] ELSE r

Restart ==
  /\ boots < MaxBoots
  /\ boots' = boots + 1
  /\ row' = [t \in Tasks |-> Recovered(row[t])]
  /\ mem' = [t \in Tasks |->
               IF row[t] # None /\ row[t].status \in Unfinished
               THEN Rebuilt(Recovered(row[t])) ELSE None]
  /\ io' = [a \in Actors |-> NoCall]
  /\ stage' = [a \in Actors |-> IF a[1] = "request" THEN "idle" ELSE "off"]
  /\ phase' = [a \in Coroutines |-> 0]
  /\ attempt' = [t \in Tasks |-> 0]
  /\ cancelling' = [t \in Tasks |-> FALSE]
  /\ UNCHANGED <<company, ids, faults>>

\* raced: two persists of one task overlapped, or a database call about it
\* failed, since the process started.
History ==
  raced' =
    (IF boots' # boots THEN {} ELSE raced)
    \cup {t \in Tasks : \E a, b \in Actors :
            a # b /\ Persisting(a, t)' /\ Persisting(b, t)'}
    \cup (IF faults' = faults THEN {}
          ELSE {t \in Tasks : \E a \in Actors : io[a].task = t /\ io'[a] # io[a]})

UserStep(r, t) ==
  \/ Generate(r, t)
  \/ "pause" \in Endpoints /\ Pause(r, t)
  \/ "resume" \in Endpoints /\ Resume(r, t)
  \/ "cancel" \in Endpoints /\ Cancel(r, t)
  \/ "delete" \in Endpoints /\ Delete(r, t)
  \/ "get" \in Endpoints /\ LookUp(r, t, "replying")
  \/ "list" \in Endpoints /\ LookUp(r, t, "listing")

Step ==
  \/ \E a \in Actors : DatabaseStep(a) \/ DatabaseFails(a)
  \/ \E r \in Requests : RequestStep(r) \/ \E t \in Tasks : UserStep(r, t)
  \/ \E a \in Coroutines : OnProgressStep(a)
  \/ \E t \in Tasks :
       GenerationStep(t) \/ Heartbeat(t) \/ HeartbeatFails(t) \/ StopHeartbeat(t)
  \/ Restart

Next == Step /\ History

Spec == Init /\ [][Next]_vars

-----------------------------------------------------------------------------
TypeOK ==
  /\ mem \in [Tasks -> Objects \cup {None}]
  /\ row \in [Tasks -> Rows \cup {None}]
  /\ company \in [Tasks -> BOOLEAN]
  /\ io \in [Actors -> Calls]
  /\ stage \in [Actors -> RunStages \cup BeatStages \cup RequestStages]
  /\ \A a \in Actors : stage[a] \in StagesOf(a)
  /\ phase \in [Coroutines -> 0..Phases]
  /\ attempt \in [Tasks -> 0..Retries]
  /\ cancelling \in [Tasks -> BOOLEAN]
  /\ created \in SUBSET Tasks
  /\ deleted \in SUBSET created
  /\ raced \in SUBSET Tasks
  /\ boots \in 0..MaxBoots
  /\ faults \in 0..MaxFaults
=============================================================================
