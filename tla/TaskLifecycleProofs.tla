------------------------- MODULE TaskLifecycleProofs -------------------------
(***************************************************************************)
(* The registry keeps the promises of TaskLifecycle, and what a task says   *)
(* of its worker, its progress, its company and its row is true: proofs for *)
(* any number of tasks, requests, phases, retries, restarts and faults.    *)
(***************************************************************************)
EXTENDS TaskManagerProofs

-----------------------------------------------------------------------------
(* What an actor awaits is what its stage says it awaits.                  *)

PersistCalls == {"read", "copy", "insert", "update", "back"}
LookUpCalls  == {"load", "loaded", "failed"}
EraseCalls   == {"erase", "back", "failed"}

AwaitsPersist == {"creating", "starting", "acting", "report", "final"}
AwaitsLookUp  == {"ask", "replying", "listing"}

CallFits(a) ==
  /\ stage[a] \in AwaitsPersist => io[a].at \in PersistCalls
  /\ stage[a] \in AwaitsLookUp => io[a].at \in LookUpCalls
  /\ stage[a] = "deleting" => io[a].at \in EraseCalls /\ io[a].task \in deleted
  /\ stage[a] \notin AwaitsPersist \cup AwaitsLookUp \cup {"deleting"} => io[a] = NoCall
  /\ a \in Coroutines => io[a].task \in {a[2], None}

CallInv == \A a \in Actors : CallFits(a)

-----------------------------------------------------------------------------
(* Only a company that has been committed is said to be stored: not in     *)
(* memory, not in the row and not in a call that read or will write either. *)

Stored(x) == x # None /\ x.result = "stored"
SaysStored(t) ==
  \/ Stored(mem[t]) \/ Stored(row[t]) \/ stage[Run(t)] = "saved"
  \/ \E a \in Actors : io[a].task = t /\ (Stored(io[a].source) \/ Stored(io[a].data))
StoredIsTrue(t) == SaysStored(t) => company[t]

-----------------------------------------------------------------------------
(* A task that has been created and not deleted is archived or present.    *)

\* Nobody works on t.
Unattended(t) == stage[Run(t)] = "off" /\ \A q \in Requests : ~Starts(q, t)

\* An archived task has outlived a restart: its row, if it has one, is settled,
\* and whatever reads it back into memory, or persists what was read back,
\* finds nothing to change.
Archived(t) ==
  /\ Unattended(t)
  /\ row[t] # None =>
       /\ row[t].status \in Settled
       /\ row[t].status = "completed" => row[t].result # "none"
  /\ mem[t] # None => row[t] # None /\ RowOf(mem[t]) = row[t]
  /\ \A a \in Actors : io[a].task = t =>
       /\ io[a].at \notin {"insert", "update", "erase"}
       /\ io[a].source \in {None, row[t]}
       /\ io[a].at \in {"copy", "loaded"} => io[a].data = row[t]

\* A present task has one object from its creation, or from the last restart,
\* on: nobody looks it up, and every persist finds it in memory.
CallsOf(t) ==
  \A a \in Actors : io[a].task = t => io[a].at \in PersistCalls /\ io[a].source = None

\* The status says who works on the task.
StatusFits(t) ==
  /\ \A q \in Requests : Starts(q, t) =>
       /\ ~mem[t].coro /\ ~cancelling[t]
       /\ Creates(q, t) => mem[t].status \in {"pending", "cancelled"}
       /\ ~Creates(q, t) => mem[t].status \in {"running", "paused", "cancelled"}
  /\ Alive(t) => mem[t].coro /\ mem[t].status \in {"running", "paused", "cancelled"}
  /\ stage[Run(t)] \in {"final", "done"} => mem[t].status \in Settled
  /\ Unattended(t) => mem[t].status \in {"pending", "failed", "cancelled"}
  /\ cancelling[t] \/ stage[Run(t)] = "unwind_cancelled" => mem[t].status = "cancelled"

\* The run reports a phase when it enters it, and a heartbeat reports the phase
\* of the call it belongs to.
Entering == {"ask", "gate", "adrift", "woken"}
ProgressFits(t) ==
  /\ stage[Run(t)] = "registered" \/ (\E q \in Requests : Starts(q, t))
       => mem[t].progress = 0
  /\ stage[Run(t)] \in Entering => mem[t].progress <= phase[Run(t)]
  /\ Alive(t) /\ stage[Run(t)] \notin Entering \cup {"registered"}
       => mem[t].progress = phase[Run(t)]
  /\ stage[Beat(t)] # "off" => phase[Beat(t)] = phase[Run(t)]

\* The result appears in memory with the status, and no write in flight sets a
\* completed status in a row without setting, or finding, the result there.
RowResult(t) ==
  row[t] # None =>
    /\ row[t].result \in {"none", mem[t].result}
    /\ row[t].status = "completed" => row[t].result # "none"
CallResult(t, c) ==
  /\ c.at = "copy" /\ c.data # None /\ c.data.result # "none"
       => row[t] # None /\ row[t].result = c.data.result
  /\ c.at = "insert" =>
       /\ c.data.result \in {"none", mem[t].result}
       /\ c.data.status = "completed" => c.data.result # "none"
  /\ c.at = "update" =>
       /\ c.data.result # "none" /\ c.data.result \in {None, mem[t].result}
       /\ c.data.status = "completed" =>
            /\ mem[t].result # "none"
            /\ c.data.result = mem[t].result
               \/ (row[t] # None /\ row[t].result = mem[t].result)
ResultFits(t) ==
  /\ Alive(t) \/ (\E q \in Requests : Starts(q, t)) => mem[t].result = "none"
  /\ mem[t].status = "completed" => mem[t].result # "none"
  /\ RowResult(t)
  /\ \A a \in Actors : io[a].task = t => CallResult(t, io[a])

\* Unless persists overlapped, the one in flight will make the row what memory
\* says; a heartbeat's, which may never end, has nothing new to write.
CallMatches(t, c) ==
  /\ c.at = "copy" => c.data = row[t]
  /\ c.at = "insert" => row[t] = None /\ c.data = RowOf(mem[t])
  /\ c.at = "update" => row[t] # None /\ Updated(row[t], c.data) = RowOf(mem[t])
OnePersist(t) == \A a, b \in Actors : Persisting(a, t) /\ Persisting(b, t) => a = b
RowFits(t) ==
  t \notin raced =>
    /\ OnePersist(t)
    /\ \A a \in Actors : io[a].task = t => CallMatches(t, io[a])
    /\ (\A a \in Actors : Persisting(a, t) => a = Beat(t)) => row[t] = RowOf(mem[t])

Present(t) ==
  /\ mem[t] # None
  /\ CallsOf(t)
  /\ StatusFits(t)
  /\ ProgressFits(t)
  /\ ResultFits(t)
  /\ RowFits(t)

LifeOf(t) ==
  /\ StoredIsTrue(t)
  /\ t \notin created => ~cancelling[t]
  /\ t \in created \ deleted => Present(t) \/ Archived(t)

LifeInv == \A t \in Tasks : LifeOf(t)

-----------------------------------------------------------------------------
(* The other tasks: a step is about one task, and leaves the others alone.  *)

\* What History records of t in a step that is no restart.
RacedStep(t) ==
  /\ t \in raced => t \in raced'
  /\ t \notin raced' =>
       \A a, b \in Actors : Persisting(a, t)' /\ Persisting(b, t)' => a = b

LEMMA HistoryRaced ==
  ASSUME TypeInv, NEW t \in Tasks, History, boots' = boots
  PROVE  RacedStep(t)
  BY DEF History, RacedStep

Aside(t) ==
  /\ mem'[t] = mem[t] /\ row'[t] = row[t] /\ company'[t] = company[t]
  /\ cancelling'[t] = cancelling[t]
  /\ phase'[Run(t)] = phase[Run(t)] /\ phase'[Beat(t)] = phase[Beat(t)]
  /\ stage'[Run(t)] = stage[Run(t)] /\ stage'[Beat(t)] = stage[Beat(t)]
  /\ t \in created' <=> t \in created
  /\ t \in deleted' <=> t \in deleted
  /\ \A a \in Actors : io[a].task = t \/ io'[a].task = t => io'[a] = io[a]
  /\ \A q \in Requests : io[Req(q)].task = t => stage'[Req(q)] = stage[Req(q)]

StatusOf(t) == IF mem[t] = None THEN "absent" ELSE mem[t].status
WorkerOf(t) ==
  IF stage[Run(t)] \in {"final", "done"} THEN "over"
  ELSE IF stage[Run(t)] # "off" THEN "working"
  ELSE IF \E q \in Requests : Starts(q, t) THEN "starting" ELSE "none"

LEMMA AsideStarts ==
  ASSUME NEW t \in Tasks, Aside(t)
  PROVE  /\ \A q \in Requests : Starts(q, t)' <=> Starts(q, t)
         /\ \A q \in Requests : Creates(q, t)' <=> Creates(q, t)
         /\ Unattended(t)' <=> Unattended(t)
         /\ Alive(t)' <=> Alive(t)
         /\ StatusOf(t)' = StatusOf(t) /\ WorkerOf(t)' = WorkerOf(t)
<1>1. \A q \in Requests : (Starts(q, t)' <=> Starts(q, t)) /\ (Creates(q, t)' <=> Creates(q, t))
  BY RequestActor DEF Aside, Starts, Creates
<1>2. StatusOf(t)' = StatusOf(t)
  BY DEF Aside, StatusOf
<1>3. WorkerOf(t)' = WorkerOf(t)
  BY <1>1 DEF Aside, WorkerOf
<1> QED
  BY <1>1, <1>2, <1>3 DEF Aside, Unattended, Alive

LEMMA AsideKeeps ==
  ASSUME NEW t \in Tasks, LifeOf(t), Aside(t), RacedStep(t)
  PROVE  LifeOf(t)'
<1>1. StoredIsTrue(t)'
  BY DEF LifeOf, StoredIsTrue, SaysStored, Stored, Aside
<1>2. t \notin created' => ~cancelling'[t]
  BY DEF LifeOf, Aside
<1>3. ASSUME Present(t) PROVE Present(t)'
  <2>1. CallsOf(t)' /\ mem'[t] # None
    BY <1>3 DEF Present, CallsOf, Aside
  <2>2. StatusFits(t)'
    BY <1>3, AsideStarts DEF Present, StatusFits, Aside
  <2>3. ProgressFits(t)'
    BY <1>3, AsideStarts DEF Present, ProgressFits, Aside
  <2>4. ResultFits(t)'
    <3>1. RowResult(t)'
      BY <1>3 DEF Present, ResultFits, RowResult, Aside
    <3>2. ASSUME NEW a \in Actors, io'[a].task = t PROVE CallResult(t, io[a])'
      BY <1>3, <3>2 DEF Present, ResultFits, CallResult, Aside
    <3> QED
      BY <1>3, <3>1, <3>2, AsideStarts DEF Present, ResultFits, Aside
  <2>5. RowFits(t)'
    <3> SUFFICES ASSUME t \notin raced' PROVE RowFits(t)'
      BY DEF RowFits
    <3>1. t \notin raced /\ OnePersist(t)'
      BY DEF RacedStep, OnePersist
    <3>2. \A a \in Actors : Persisting(a, t)' <=> Persisting(a, t)
      BY DEF Persisting, Aside
    <3>3. ASSUME NEW a \in Actors, io'[a].task = t PROVE CallMatches(t, io[a])'
      BY <1>3, <3>1, <3>3 DEF Present, RowFits, CallMatches, Aside
    <3> QED
      BY <1>3, <3>1, <3>2, <3>3 DEF Present, RowFits, Aside
  <2> QED
    BY <2>1, <2>2, <2>3, <2>4, <2>5 DEF Present
<1>4. ASSUME Archived(t) PROVE Archived(t)'
  BY <1>4, AsideStarts DEF Archived, Aside
<1> QED
  BY <1>1, <1>2, <1>3, <1>4 DEF LifeOf, Aside

-----------------------------------------------------------------------------
(* The shape of a step: actor a does something about task t.               *)

\* A call that another actor has outstanding stays, except that a persist may
\* have to carry the object that leaves memory.
CallStays(t, b) ==
  \/ io'[b] = io[b]
  \/ /\ io[b].task = t /\ io[b].at \in {"read", "copy"} /\ io[b].source = None
     /\ mem[t] # None /\ io'[b] = [io[b] EXCEPT !.source = RowOf(mem[t])]

\* Another actor may leave the gate, and a coroutine that waits for nothing may
\* be put to work.
StageStays(t, b) ==
  \/ stage'[b] = stage[b]
  \/ /\ b \in {Run(t), Beat(t)}
     /\ \/ stage[b] = "gate" /\ stage'[b] \in {"woken", "adrift"}
        \/ io[b] = NoCall /\ stage'[b] \in {"registered", "llm", "sleep"}

RestStays(t) ==
  /\ \A u \in Tasks \ {t} :
       /\ mem'[u] = mem[u] /\ row'[u] = row[u] /\ company'[u] = company[u]
       /\ cancelling'[u] = cancelling[u]
       /\ phase'[Run(u)] = phase[Run(u)] /\ phase'[Beat(u)] = phase[Beat(u)]
       /\ u \in created' <=> u \in created
       /\ u \in deleted' <=> u \in deleted
  /\ t \in created' /\ created \subseteq created' /\ deleted \subseteq deleted'
  /\ company[t] => company'[t]
  /\ boots' = boots

StepOf(t, a) ==
  /\ \A u \in Tasks \ {t} : a # Run(u) /\ a # Beat(u)
  /\ io[a].task \in {t, None} /\ io'[a].task \in {t, None}
  /\ CallFits(a)'
  /\ \A b \in Actors \ {a} : CallStays(t, b) /\ StageStays(t, b)
  /\ RestStays(t)

LEMMA StepOfAside ==
  ASSUME TypeInv, NEW t \in Tasks, NEW a \in Actors, StepOf(t, a), NEW u \in Tasks \ {t}
  PROVE  Aside(u)
<1>1. u # None
  BY NoneAssumption
<1>2. ASSUME NEW b \in Actors, io[b].task = u \/ io'[b].task = u
      PROVE  b # a /\ io'[b] = io[b]
  <2>1. b # a
    BY <1>1, <1>2 DEF StepOf
  <2>2. CallStays(t, b) /\ io[b] \in Calls
    BY <2>1 DEF StepOf, TypeInv, TypeOK
  <2>3. io'[b] = io[b] \/ (io[b].task = t /\ io'[b].task = t)
    BY <2>2 DEF CallStays, Calls
  <2> QED
    BY <1>2, <2>1, <2>3
<1>3. /\ stage'[Run(u)] = stage[Run(u)] /\ stage'[Beat(u)] = stage[Beat(u)]
  BY TaskActors, DistinctActors DEF StepOf, StageStays
<1>4. \A q \in Requests : io[Req(q)].task = u => stage'[Req(q)] = stage[Req(q)]
  BY <1>2, RequestActor, DistinctActors DEF StepOf, StageStays
<1> QED
  BY <1>2, <1>3, <1>4 DEF Aside, StepOf, RestStays

LEMMA StepOfCalls ==
  ASSUME TypeInv, CallInv, NEW t \in Tasks, NEW a \in Actors, StepOf(t, a)
  PROVE  CallInv'
<1> SUFFICES ASSUME NEW b \in Actors, b # a PROVE CallFits(b)'
  BY DEF CallInv, StepOf
<1>1. CallFits(b) /\ CallStays(t, b) /\ StageStays(t, b) /\ deleted \subseteq deleted'
  BY DEF CallInv, StepOf, RestStays
<1>2. io[b] \in Calls
  BY DEF TypeInv, TypeOK
<1>3. /\ io'[b].at = io[b].at /\ io'[b].task = io[b].task
      /\ io[b] = NoCall => io'[b] = NoCall
  BY <1>1, <1>2 DEF CallStays, Calls, NoCall
<1>4. CASE stage'[b] = stage[b]
  BY <1>1, <1>3, <1>4 DEF CallFits
<1>5. CASE stage'[b] # stage[b]
  <2>1. io[b] = NoCall /\ stage'[b] \in {"woken", "adrift", "registered", "llm", "sleep"}
    BY <1>1, <1>5 DEF StageStays, CallFits, AwaitsPersist, AwaitsLookUp
  <2> QED
    BY <1>1, <1>3, <2>1 DEF CallFits, AwaitsPersist, AwaitsLookUp
<1> QED
  BY <1>4, <1>5

-----------------------------------------------------------------------------
(* What a step makes of its task.                                          *)

\* The moves of TaskLifecycle for one task.
Moves(t) ==
  LET s == StatusOf(t)
      w == WorkerOf(t)
      becomes(x, y) == StatusOf(t)' = x /\ WorkerOf(t)' = y
  IN
  \/ becomes(s, w)
  \/ s = "absent" /\ w = "none" /\ becomes("pending", "starting")
  \/ w = "starting" /\ s \in {"pending", "cancelled"} /\ becomes("running", "starting")
  \/ w = "starting" /\ s \in {"running", "paused", "cancelled"} /\ becomes(s, "working")
  \/ s = "running" /\ becomes("paused", w)
  \/ s = "paused" /\ becomes("running", w)
  \/ s \in Unfinished /\ becomes("cancelled", w)
  \/ w = "working" /\ \E x \in Settled : (x = "cancelled" => s = x) /\ becomes(x, "over")
  \/ s = "absent" /\ w = "none" /\ \E x \in Settled : becomes(x, "none")
  \/ t \in deleted' /\ becomes("absent", w)
  \/ t \in deleted

ProgressKept(t) ==
  t \notin deleted /\ mem[t] # None /\ mem'[t] # None
    => mem'[t].progress >= mem[t].progress

Lives(t) == LifeOf(t)' /\ Moves(t) /\ ProgressKept(t)

\* A step that leaves the object, the stages and whom a call is about.
Still(t) ==
  /\ mem'[t] = mem[t] /\ cancelling'[t] = cancelling[t] /\ company'[t] = company[t]
  /\ phase'[Run(t)] = phase[Run(t)] /\ phase'[Beat(t)] = phase[Beat(t)]
  /\ UNCHANGED <<stage, created, deleted>>
  /\ \A a \in Actors : io'[a].task = io[a].task

LEMMA StillStarts ==
  ASSUME TypeInv, NEW t \in Tasks, Still(t)
  PROVE  /\ \A q \in Requests : Starts(q, t)' <=> Starts(q, t)
         /\ \A q \in Requests : Creates(q, t)' <=> Creates(q, t)
         /\ Unattended(t)' <=> Unattended(t)
         /\ Alive(t)' <=> Alive(t)
         /\ Moves(t) /\ ProgressKept(t)
<1>1. \A q \in Requests : (Starts(q, t)' <=> Starts(q, t)) /\ (Creates(q, t)' <=> Creates(q, t))
  BY RequestActor DEF Still, Starts, Creates
<1>2. StatusOf(t)' = StatusOf(t)
  BY DEF Still, StatusOf
<1>3. WorkerOf(t)' = WorkerOf(t)
  BY <1>1 DEF Still, WorkerOf
<1>4. ProgressKept(t)
  BY ObjectTyped DEF Still, ProgressKept, Objects
<1> QED
  BY <1>1, <1>2, <1>3, <1>4 DEF Still, Unattended, Alive, Moves

LEMMA StillPresent ==
  ASSUME TypeInv, NEW t \in Tasks, Present(t), Still(t), CallsOf(t)', RowResult(t)',
         \A a \in Actors : io'[a].task = t => CallResult(t, io[a])',
         RowFits(t)'
  PROVE  Present(t)'
<1>1. StatusFits(t)'
  BY StillStarts DEF Present, StatusFits, Still
<1>2. ProgressFits(t)'
  BY StillStarts DEF Present, ProgressFits, Still
<1>3. ResultFits(t)'
  BY StillStarts DEF Present, ResultFits, Still
<1> QED
  BY <1>1, <1>2, <1>3 DEF Present, Still

-----------------------------------------------------------------------------
(* The database.                                                           *)

\* Actor a has finished with the database side of a call about t.
Served(t, a) ==
  /\ t \in Tasks /\ t = io[a].task /\ io'[a].task = t
  /\ \A b \in Actors \ {a} : io'[b] = io[b]
  /\ Still(t)
  /\ boots' = boots

LEMMA DatabaseShape ==
  ASSUME TypeInv, GateInv, CallInv, NEW a \in Actors, DatabaseStep(a) \/ DatabaseFails(a)
  PROVE  Served(io[a].task, a) /\ StepOf(io[a].task, a)
<1>1. PICK t : t = io[a].task
  OBVIOUS
<1>2. io[a].at # "none" /\ UNCHANGED <<mem, company, stage, work, ids, boots>>
  BY DEF DatabaseStep, Read, Copy, Commit, Load, Erase, DatabaseFails, others, bounds, db
<1>3. t \in Tasks /\ io[a] \in Calls /\ row \in [Tasks -> Rows \cup {None}]
  BY <1>1, <1>2 DEF TypeInv, TypeOK, CallOK
<1>4. t \in created
  BY <1>1, <1>3 DEF GateInv, GateInvOf, Untouched
<1>5. \A u \in Tasks \ {t} : row'[u] = row[u]
  BY <1>1, <1>3 DEF DatabaseStep, Read, Copy, Commit, Load, Erase, DatabaseFails, db
<1>6. PICK c : /\ io' = [io EXCEPT ![a] = c] /\ c.task = t
               /\ io[a].at \in {"read", "copy", "insert", "update"} =>
                    c.at \in {"copy", "insert", "update", "back"}
               /\ io[a].at = "load" => c.at \in {"loaded", "failed"}
               /\ io[a].at = "erase" => c.at \in {"back", "failed"}
               /\ io[a].at \in {"read", "copy", "insert", "update", "load", "erase"}
  <2>1. CASE Read(a) \/ Load(a)
    <3>1. PICK c : /\ io' = [io EXCEPT ![a] = c]
                   /\ \/ c = [io[a] EXCEPT !.at = "copy", !.data = row[t]] /\ io[a].at = "read"
                      \/ c = [io[a] EXCEPT !.at = "loaded", !.data = row[t]] /\ io[a].at = "load"
      BY <1>1, <2>1 DEF Read, Load
    <3>2. c.task = t /\ c.at = IF io[a].at = "read" THEN "copy" ELSE "loaded"
      BY <1>1, <1>3, <3>1 DEF Calls
    <3> QED
      BY <3>1, <3>2
  <2>2. CASE Copy(a)
    <3>1. PICK c, d : /\ io' = [io EXCEPT ![a] = c]
                      /\ \/ c = [Call("insert", t) EXCEPT !.data = d]
                         \/ c = Call("back", t)
                         \/ c = [Call("update", t) EXCEPT !.data = d]
      BY <1>1, <2>2 DEF Copy
    <3>2. c.task = t /\ c.at \in {"insert", "back", "update"}
      BY <3>1 DEF Call, NoCall
    <3> QED
      BY <2>2, <3>1, <3>2 DEF Copy
  <2>3. CASE Commit(a) \/ Erase(a) \/ DatabaseFails(a)
    <3>1. PICK at \in {"back", "failed"} :
            /\ io' = [io EXCEPT ![a] = Call(at, t)]
            /\ io[a].at \in {"read", "insert", "update"} => at = "back"
            /\ io[a].at = "load" => at = "failed"
            /\ io[a].at \in {"read", "insert", "update", "load", "erase"}
      BY <1>1, <2>3 DEF Commit, Erase, DatabaseFails
    <3>2. Call(at, t).task = t /\ Call(at, t).at = at
      BY DEF Call, NoCall
    <3> QED
      BY <3>1, <3>2
  <2> QED
    BY <2>1, <2>2, <2>3 DEF DatabaseStep
<1>7. io'[a] = c /\ \A b \in Actors \ {a} : io'[b] = io[b]
  BY <1>6 DEF TypeInv, TypeOK
<1>8. Served(t, a)
  BY <1>1, <1>2, <1>3, <1>6, <1>7 DEF Served, Still, work, ids
<1>9. CallFits(a)'
  <2>1. CallFits(a) /\ stage'[a] = stage[a] /\ deleted' = deleted
    BY <1>2 DEF CallInv, ids
  <2>2. io[a] # NoCall
    BY <1>2 DEF NoCall
  <2> QED
    BY <1>1, <1>6, <1>7, <2>1, <2>2 DEF CallFits, PersistCalls, LookUpCalls, EraseCalls
<1>10. StepOf(t, a)
  <2>1. \A u \in Tasks \ {t} : a # Run(u) /\ a # Beat(u)
    <3> SUFFICES ASSUME NEW u \in Tasks, a \in {Run(u), Beat(u)} PROVE u = t
      OBVIOUS
    <3>1. io[a].task = u \/ io[a].task = None
      BY TaskActors DEF CallInv, CallFits
    <3> QED
      BY <1>1, <1>3, <3>1, NoneAssumption
  <2>2. \A b \in Actors \ {a} : CallStays(t, b) /\ StageStays(t, b)
    BY <1>2, <1>7 DEF CallStays, StageStays
  <2>3. RestStays(t)
    BY <1>2, <1>4, <1>5 DEF RestStays, work, ids
  <2> QED
    BY <1>1, <1>6, <1>7, <1>9, <2>1, <2>2, <2>3 DEF StepOf
<1> QED
  BY <1>1, <1>8, <1>10

LEMMA ServedLives ==
  ASSUME TypeInv, NEW t \in Tasks, NEW a \in Actors, LifeOf(t), Served(t, a),
         Stored(row'[t]) \/ Stored(io'[a].source) \/ Stored(io'[a].data) => SaysStored(t),
         Present(t) /\ t \in created \ deleted => Present(t)',
         Archived(t) => Archived(t)'
  PROVE  Lives(t)
<1>1. SaysStored(t)' => SaysStored(t)
  <2> SUFFICES ASSUME SaysStored(t)' PROVE SaysStored(t)
    OBVIOUS
  <2>1. CASE Stored(mem'[t]) \/ stage'[Run(t)] = "saved"
    BY <2>1 DEF Served, Still, SaysStored
  <2>2. CASE Stored(row'[t])
    BY <2>2
  <2>3. ASSUME NEW b \in Actors, io'[b].task = t, Stored(io'[b].source) \/ Stored(io'[b].data)
        PROVE  SaysStored(t)
    BY <2>3 DEF Served, SaysStored
  <2>4. \/ Stored(mem'[t]) \/ Stored(row'[t]) \/ stage'[Run(t)] = "saved"
        \/ \E b \in Actors : io'[b].task = t /\ (Stored(io'[b].source) \/ Stored(io'[b].data))
    BY DEF SaysStored, Stored
  <2> QED
    BY <2>1, <2>2, <2>3, <2>4
<1>2. StoredIsTrue(t)'
  BY <1>1 DEF LifeOf, StoredIsTrue, Served, Still
<1>3. LifeOf(t)'
  BY <1>2 DEF LifeOf, Served, Still
<1> QED
  BY <1>3, StillStarts DEF Served, Lives

\* What another actor's persist is to write, or has read, fits as it did.
LEMMA OtherCallsFit ==
  ASSUME NEW t \in Tasks, NEW a \in Actors, Served(t, a), row'[t] = row[t],
         Present(t)
  PROVE  /\ \A b \in Actors \ {a} : io'[b].task = t => CallResult(t, io[b])'
         /\ RowResult(t)'
<1>1. mem'[t] = mem[t] /\ \A b \in Actors \ {a} : io'[b] = io[b]
  BY DEF Served, Still
<1>2. RowResult(t)'
  BY <1>1 DEF Present, ResultFits, RowResult
<1>3. ASSUME NEW b \in Actors \ {a}, io'[b].task = t PROVE CallResult(t, io[b])'
  <2>1. CallResult(t, io[b])
    BY <1>1, <1>3 DEF Present, ResultFits
  <2> QED
    BY <1>1, <1>3, <2>1 DEF CallResult
<1> QED
  BY <1>2, <1>3

\* While a persists alone, no other call about t has read anything of it.
LEMMA AloneInFlight ==
  ASSUME NEW t \in Tasks, Present(t), t \notin raced, NEW a \in Actors, Persisting(a, t),
         NEW b \in Actors \ {a}, io[b].task = t
  PROVE  io[b].at = "back"
  BY DEF Present, CallsOf, PersistCalls, RowFits, OnePersist, Persisting

LEMMA ReadLives ==
  ASSUME TypeInv, NEW a \in Actors, NEW t \in Tasks, Served(t, a), LifeOf(t), RacedStep(t), Read(a)
  PROVE  Lives(t)
<1>1. t = io[a].task /\ io[a] \in Calls /\ io[a].at = "read" /\ row'[t] = row[t]
  BY DEF Read, db, Served, TypeInv, TypeOK
<1>2. io'[a].at = "copy" /\ io'[a].data = row[t] /\ io'[a].source = io[a].source
  BY <1>1 DEF Read, TypeInv, TypeOK, Calls
<1>3. Stored(row'[t]) \/ Stored(io'[a].source) \/ Stored(io'[a].data) => SaysStored(t)
  BY <1>1, <1>2 DEF SaysStored
<1>4. ASSUME Present(t) PROVE Present(t)'
  <2>1. CallsOf(t)'
    BY <1>1, <1>2, <1>4 DEF Present, CallsOf, Served, PersistCalls
  <2>2. CallResult(t, io[a])'
    BY <1>1, <1>2 DEF CallResult
  <2>3. RowFits(t)'
    <3> SUFFICES ASSUME t \notin raced' PROVE RowFits(t)'
      BY DEF RowFits
    <3>1. t \notin raced /\ OnePersist(t)'
      BY DEF RacedStep, OnePersist
    <3>2. \A b \in Actors : Persisting(b, t)' <=> Persisting(b, t)
      BY <1>1, <1>2 DEF Persisting, Served
    <3>3. ASSUME NEW b \in Actors, io'[b].task = t PROVE CallMatches(t, io[b])'
      BY <1>1, <1>2, <1>4, <3>1, <3>3 DEF Present, RowFits, CallMatches, Served, Still
    <3> QED
      BY <1>1, <1>4, <3>1, <3>2, <3>3 DEF Present, RowFits, Served, Still
  <2> QED
    BY <1>1, <1>4, <2>1, <2>2, <2>3, OtherCallsFit, StillPresent DEF Served
<1>5. ASSUME Archived(t) PROVE Archived(t)'
  <2>1. Unattended(t)' /\ mem'[t] = mem[t]
    BY <1>5, StillStarts DEF Archived, Served, Still
  <2> QED
    BY <1>1, <1>2, <1>5, <2>1 DEF Archived, Served
<1> QED
  BY <1>3, <1>4, <1>5, ServedLives

LEMMA LoadLives ==
  ASSUME TypeInv, NEW a \in Actors, NEW t \in Tasks, Served(t, a), LifeOf(t), Load(a)
  PROVE  Lives(t)
<1>1. t = io[a].task /\ io[a] \in Calls /\ io[a].at = "load" /\ row'[t] = row[t]
  BY DEF Load, db, Served, TypeInv, TypeOK
<1>2. io'[a].at = "loaded" /\ io'[a].data = row[t] /\ io'[a].source = io[a].source
  BY <1>1 DEF Load, TypeInv, TypeOK, Calls
<1>3. Stored(row'[t]) \/ Stored(io'[a].source) \/ Stored(io'[a].data) => SaysStored(t)
  BY <1>1, <1>2 DEF SaysStored
<1>4. ~Present(t)
  BY <1>1 DEF Present, CallsOf, PersistCalls
<1>5. ASSUME Archived(t) PROVE Archived(t)'
  <2>1. Unattended(t)' /\ mem'[t] = mem[t]
    BY <1>5, StillStarts DEF Archived, Served, Still
  <2> QED
    BY <1>1, <1>2, <1>5, <2>1 DEF Archived, Served
<1> QED
  BY <1>3, <1>4, <1>5, ServedLives

LEMMA EraseLives ==
  ASSUME TypeInv, NEW a \in Actors, NEW t \in Tasks, Served(t, a), LifeOf(t), Erase(a)
  PROVE  Lives(t)
<1>1. t = io[a].task /\ io[a].at = "erase" /\ row'[t] = None
  BY DEF Erase, Served, TypeInv, TypeOK
<1>2. io'[a] = Call("back", t)
  BY <1>1 DEF Erase, TypeInv, TypeOK
<1>3. ~(Stored(row'[t]) \/ Stored(io'[a].source) \/ Stored(io'[a].data))
  BY <1>1, <1>2, CallTyped DEF Stored
<1>4. ~Present(t) /\ ~Archived(t)
  BY <1>1 DEF Present, CallsOf, PersistCalls, Archived
<1> QED
  BY <1>3, <1>4, ServedLives

LEMMA FaultLives ==
  ASSUME TypeInv, NEW a \in Actors, NEW t \in Tasks, Served(t, a), LifeOf(t),
         DatabaseFails(a), History
  PROVE  Lives(t)
<1>1. /\ t = io[a].task /\ row'[t] = row[t] /\ t \in raced'
      /\ io[a].at \in {"load", "erase"} \/ io'[a] = Call("back", t)
      /\ io'[a] = Call("back", t) \/ io'[a] = Call("failed", t)
  <2>1. /\ t = io[a].task /\ row'[t] = row[t]
        /\ \/ io[a].at \in {"load", "erase"} /\ io'[a] = Call("failed", t)
           \/ io[a].at \in {"read", "insert", "update"} /\ io'[a] = Call("back", t)
    BY DEF DatabaseFails, db, Served, TypeInv, TypeOK
  <2>2. io'[a] # io[a] /\ faults' # faults
    BY <2>1, CallTyped DEF DatabaseFails, TypeInv, TypeOK
  <2> QED
    BY <2>1, <2>2 DEF History
<1>2. io'[a].source = None /\ io'[a].data = None /\ io'[a].at \in {"back", "failed"}
  BY <1>1, CallTyped
<1>3. Stored(row'[t]) \/ Stored(io'[a].source) \/ Stored(io'[a].data) => SaysStored(t)
  BY <1>1, <1>2 DEF SaysStored, Stored
<1>4. ASSUME Present(t) PROVE Present(t)'
  <2>1. io'[a].at = "back"
    BY <1>1, <1>4, CallTyped DEF Present, CallsOf, PersistCalls
  <2>2. CallsOf(t)'
    BY <1>2, <1>4, <2>1 DEF Present, CallsOf, Served, PersistCalls
  <2>3. CallResult(t, io[a])'
    BY <2>1 DEF CallResult
  <2>4. RowFits(t)'
    BY <1>1 DEF RowFits
  <2> QED
    BY <1>1, <1>4, <2>2, <2>3, <2>4, OtherCallsFit, StillPresent DEF Served
<1>5. ASSUME Archived(t) PROVE Archived(t)'
  <2>1. Unattended(t)' /\ mem'[t] = mem[t]
    BY <1>5, StillStarts DEF Archived, Served, Still
  <2> QED
    BY <1>1, <1>2, <1>5, <2>1 DEF Archived, Served
<1> QED
  BY <1>3, <1>4, <1>5, ServedLives

\* What IfNew and IfSet make of a column.
LEMMA ColumnWritten ==
  ASSUME NEW new, NEW old, new # None
  PROVE  /\ IfSet(IfNew(new, old), old) = new
         /\ IfNew(new, old) = None => new = old
         /\ IfNew(new, old) # None => IfNew(new, old) = new
  BY DEF IfSet, IfNew

LEMMA DifferenceWritten ==
  ASSUME NEW new \in Rows, NEW old \in Rows
  PROVE  /\ Updated(old, Difference(new, old)) = new
         /\ Difference(new, old) = Unchanged => new = old
         /\ Difference(new, old).result = IfNew(new.result, old.result)
         /\ Difference(new, old).status = IfNew(new.status, old.status)
<1>1. new.status # None /\ new.progress # None /\ new.result # None
  BY NoneAssumption DEF Rows
<1>2. /\ Difference(new, old).result = IfNew(new.result, old.result)
      /\ Difference(new, old).status = IfNew(new.status, old.status)
      /\ Difference(new, old).progress = IfNew(new.progress, old.progress)
  BY DEF Difference
<1>3. Updated(old, Difference(new, old))
        = [status |-> new.status, progress |-> new.progress, result |-> new.result]
  BY <1>1, <1>2, ColumnWritten DEF Updated
<1>4. new = [status |-> new.status, progress |-> new.progress, result |-> new.result]
  BY DEF Rows
<1>5. ASSUME Difference(new, old) = Unchanged PROVE new = old
  <2>1. /\ IfNew(new.status, old.status) = None /\ IfNew(new.progress, old.progress) = None
        /\ IfNew(new.result, old.result) = None
    BY <1>2, <1>5 DEF Unchanged
  <2>2. new.status = old.status /\ new.progress = old.progress /\ new.result = old.result
    BY <1>1, <2>1, ColumnWritten
  <2>3. old = [status |-> old.status, progress |-> old.progress, result |-> old.result]
    BY DEF Rows
  <2> QED
    BY <1>4, <2>2, <2>3
<1> QED
  BY <1>2, <1>3, <1>4, <1>5

LEMMA UpdatedResult ==
  ASSUME NEW r \in Rows, NEW d \in Changes
  PROVE  /\ Updated(r, d).result = IF d.result = None THEN r.result ELSE d.result
         /\ Updated(r, d).status = IF d.status = None THEN r.status ELSE d.status
         /\ Updated(r, d) # None
<1>1. Updated(r, d) \in Rows
  BY DEF Updated, IfSet, Rows, Changes
<1> QED
  BY <1>1, NoneIsNothing DEF Updated, IfSet

\* What a persist makes of the fields f it copied and the row old it read.
CopiedTo(c, t, f, old) ==
  /\ c.task = t /\ c.source = None
  /\ \/ old = None /\ c.at = "insert" /\ c.data = f
     \/ old # None /\ Difference(f, old) = Unchanged /\ c.at = "back" /\ c.data = None
     \/ old # None /\ c.at = "update" /\ c.data = Difference(f, old)

LEMMA CopyEffect ==
  ASSUME TypeInv, NEW a \in Actors, NEW t \in Tasks, Served(t, a), Copy(a)
  PROVE  /\ io[a].at = "copy" /\ row'[t] = row[t] /\ io[a].data \in Rows \cup {None}
         /\ \E f \in Rows :
              /\ CopiedTo(io'[a], t, f, io[a].data)
              /\ IF io[a].source = None THEN mem[t] # None /\ f = RowOf(mem[t])
                 ELSE f = io[a].source
<1>1. /\ t = io[a].task /\ io[a].at = "copy" /\ row'[t] = row[t]
      /\ io[a] \in Calls /\ CallOK(io[a]) /\ SourceOK(a)
  BY DEF Copy, db, Served, TypeInv, TypeOK
<1>2. PICK f : /\ f = IF io[a].source = None THEN RowOf(mem[t]) ELSE io[a].source
               /\ io' = [io EXCEPT ![a] =
                    IF io[a].data = None
                    THEN [Call("insert", t) EXCEPT !.data = f]
                    ELSE IF Difference(f, io[a].data) = Unchanged
                         THEN Call("back", t)
                         ELSE [Call("update", t) EXCEPT !.data = Difference(f, io[a].data)]]
  BY <1>1 DEF Copy
<1>3. io[a].source = None => mem[t] # None /\ mem[t] \in Objects
  BY <1>1, ObjectTyped DEF SourceOK
<1>4. f \in Rows
  BY <1>1, <1>2, <1>3, RowOfTyped DEF Calls
<1>5. \/ io[a].data = None /\ io'[a] = [Call("insert", t) EXCEPT !.data = f]
      \/ io[a].data # None /\ Difference(f, io[a].data) = Unchanged /\ io'[a] = Call("back", t)
      \/ io[a].data # None /\ io'[a] = [Call("update", t) EXCEPT !.data = Difference(f, io[a].data)]
  BY <1>2 DEF TypeInv, TypeOK
<1>6. CopiedTo(io'[a], t, f, io[a].data)
  BY <1>5 DEF CopiedTo, Call, NoCall
<1> QED
  BY <1>1, <1>2, <1>3, <1>4, <1>6 DEF CallOK

LEMMA CopyLives ==
  ASSUME TypeInv, NEW a \in Actors, NEW t \in Tasks, Served(t, a), LifeOf(t), RacedStep(t), Copy(a)
  PROVE  Lives(t)
<1>1. /\ io[a].at = "copy" /\ row'[t] = row[t] /\ t = io[a].task
      /\ io[a].data \in Rows \cup {None}
  BY CopyEffect DEF Served
<1>2. PICK f \in Rows :
        /\ CopiedTo(io'[a], t, f, io[a].data)
        /\ IF io[a].source = None THEN mem[t] # None /\ f = RowOf(mem[t])
           ELSE f = io[a].source
  BY CopyEffect
<1>3. f # None /\ mem'[t] = mem[t]
  BY NoneIsNothing DEF Served, Still
<1>4. Stored(row'[t]) \/ Stored(io'[a].source) \/ Stored(io'[a].data) => SaysStored(t)
  <2>1. Stored(f) => SaysStored(t)
    BY <1>1, <1>2 DEF Stored, SaysStored, RowOf
  <2>2. ASSUME Stored(io'[a].data) PROVE Stored(f)
    <3>1. CASE io'[a].data = f
      BY <2>2, <3>1
    <3>2. CASE io[a].data # None /\ io'[a].data = Difference(f, io[a].data)
      <4>1. io'[a].data.result = IfNew(f.result, io[a].data.result)
        BY <1>1, <3>2, DifferenceWritten
      <4>2. f.result = "stored"
        BY <2>2, <4>1, NoneAssumption DEF Stored, IfNew, Results
      <4> QED
        BY <1>3, <4>2 DEF Stored
    <3> QED
      BY <1>2, <2>2, <3>1, <3>2 DEF CopiedTo, Stored
  <2>3. ~Stored(io'[a].source) /\ (Stored(row'[t]) => SaysStored(t))
    BY <1>1, <1>2 DEF CopiedTo, Stored, SaysStored
  <2> QED
    BY <2>1, <2>2, <2>3
<1>5. ASSUME Present(t) PROVE Present(t)'
  <2>1. f = RowOf(mem[t]) /\ f.result = mem[t].result /\ f.status = mem[t].status
    BY <1>1, <1>2, <1>5 DEF Present, CallsOf, RowOf
  <2>2. CallsOf(t)'
    BY <1>2, <1>5 DEF Present, CallsOf, Served, PersistCalls, CopiedTo
  <2>3. CallResult(t, io[a])'
    <3>1. f.status = "completed" => f.result # "none"
      BY <1>5, <2>1 DEF Present, ResultFits
    <3>2. CASE io'[a].at # "update"
      BY <1>2, <1>3, <2>1, <3>1, <3>2 DEF CopiedTo, CallResult
    <3>3. CASE io'[a].at = "update"
      <4>1. io[a].data \in Rows /\ io'[a].data = Difference(f, io[a].data)
        BY <1>1, <1>2, <3>3 DEF CopiedTo
      <4>2. /\ io'[a].data.result = IfNew(f.result, io[a].data.result)
            /\ io'[a].data.status = IfNew(f.status, io[a].data.status)
        BY <4>1, DifferenceWritten
      <4>3. io[a].data.result # "none" => row[t] # None /\ row[t].result = io[a].data.result
        BY <1>1, <1>3, <1>5, <4>1, NoneIsNothing DEF Present, ResultFits, CallResult
      <4>4. row[t] # None => row[t].result \in {"none", mem[t].result}
        BY <1>5 DEF Present, ResultFits, RowResult
      <4>5. f.result \in Results /\ f.status \in Status
        BY DEF Rows
      <4>6. io'[a].data.result # "none" /\ io'[a].data.result \in {None, mem[t].result}
        BY <2>1, <4>2, <4>3, <4>4, <4>5, NoneAssumption DEF IfNew, Results
      <4>7. ASSUME io'[a].data.status = "completed"
            PROVE  /\ mem[t].result # "none"
                   /\ \/ io'[a].data.result = mem[t].result
                      \/ row[t] # None /\ row[t].result = mem[t].result
        <5>1. f.status = "completed"
          BY <4>2, <4>5, <4>7, NoneAssumption DEF IfNew, Status, Settled
        <5> QED
          BY <2>1, <3>1, <4>2, <4>3, <5>1 DEF IfNew
      <4> QED
        BY <1>1, <1>3, <3>3, <4>6, <4>7 DEF CallResult
    <3> QED
      BY <3>2, <3>3
  <2>4. RowFits(t)'
    <3> SUFFICES ASSUME t \notin raced' PROVE RowFits(t)'
      BY DEF RowFits
    <3>1. t \notin raced /\ OnePersist(t)'
      BY DEF RacedStep, OnePersist
    <3>2. Persisting(a, t) /\ io[a].data = row[t]
      BY <1>1, <1>5, <3>1 DEF Present, RowFits, CallMatches, Persisting
    <3>3. \A b \in Actors \ {a} : io'[b].task = t => io'[b].at = "back"
      BY <1>5, <3>1, <3>2, AloneInFlight DEF Served
    <3>4. CallMatches(t, io[a])'
      <4>1. io'[a].at = "update" => Updated(row[t], io'[a].data) = f
        BY <1>1, <1>2, <3>2, DifferenceWritten DEF CopiedTo
      <4> QED
        BY <1>1, <1>2, <1>3, <2>1, <3>2, <4>1 DEF CopiedTo, CallMatches
    <3>5. \A b \in Actors : io'[b].task = t => CallMatches(t, io[b])'
      BY <3>3, <3>4 DEF CallMatches
    <3>6. ASSUME \A b \in Actors : Persisting(b, t)' => b = Beat(t)
          PROVE  row'[t] = RowOf(mem'[t])
      <4>1. CASE io'[a].at = "back"
        BY <1>1, <1>2, <1>3, <2>1, <3>2, <4>1, DifferenceWritten DEF CopiedTo
      <4>2. CASE io'[a].at # "back"
        <5>1. a = Beat(t)
          BY <1>2, <3>6, <4>2 DEF CopiedTo, Persisting
        <5>2. \A b \in Actors : Persisting(b, t) => b = Beat(t)
          BY <1>5, <3>1, <3>2, <5>1 DEF Present, RowFits, OnePersist
        <5> QED
          BY <1>1, <1>3, <1>5, <3>1, <5>2 DEF Present, RowFits
      <4> QED
        BY <4>1, <4>2
    <3> QED
      BY <3>1, <3>5, <3>6 DEF RowFits
  <2> QED
    BY <1>1, <1>5, <2>2, <2>3, <2>4, OtherCallsFit, StillPresent DEF Served
<1>6. ASSUME Archived(t) PROVE Archived(t)'
  <2>1. io[a].data = row[t] /\ row[t] # None /\ f = row[t]
    BY <1>1, <1>2, <1>6 DEF Archived
  <2>2. io'[a].at = "back" /\ io'[a].source = None
    <3>1. Difference(f, f) = Unchanged
      BY DEF Difference, Unchanged, IfNew
    <3>2. ASSUME io'[a].at = "update" PROVE FALSE
      <4>1. Copy(a) /\ io'[a] # Call("back", t)
        BY <3>2, CallTyped
      <4>2. IF io[a].source = None THEN f = RowOf(mem[t]) ELSE f = io[a].source
        BY <1>2
      <4> QED
        BY <1>1, <2>1, <3>1, <4>1, <4>2 DEF Copy, TypeInv, TypeOK
    <3> QED
      BY <1>2, <2>1, <3>2 DEF CopiedTo
  <2>3. Unattended(t)'
    BY <1>6, StillStarts DEF Archived, Served
  <2> QED
    BY <1>1, <1>3, <1>6, <2>2, <2>3 DEF Archived, Served
<1> QED
  BY <1>4, <1>5, <1>6, ServedLives

LEMMA CommitLives ==
  ASSUME TypeInv, NEW a \in Actors, NEW t \in Tasks, Served(t, a), LifeOf(t), RacedStep(t), Commit(a)
  PROVE  Lives(t)
<1> DEFINE d == io[a].data
<1>1. /\ t = io[a].task /\ io[a].at \in {"insert", "update"} /\ CallOK(io[a])
      /\ row[t] \in Rows \cup {None} /\ io'[a] = Call("back", t)
  BY DEF Commit, Served, TypeInv, TypeOK
<1>2. /\ io[a].at = "insert" => row'[t] = IF row[t] = None THEN d ELSE row[t]
      /\ io[a].at = "update" => row'[t] = IF row[t] = None THEN None ELSE Updated(row[t], d)
  BY <1>1 DEF Commit, TypeInv, TypeOK
<1>3. (io[a].at = "insert" => d \in Rows) /\ (io[a].at = "update" => d \in Changes /\ d # None)
  BY <1>1, NoneAssumption DEF CallOK
<1>4. io'[a].at = "back" /\ io'[a].source = None /\ io'[a].data = None /\ mem'[t] = mem[t]
  BY <1>1, CallTyped DEF Served, Still
<1>5. row[t] # None /\ io[a].at = "update" =>
        /\ row'[t].result = IF d.result = None THEN row[t].result ELSE d.result
        /\ row'[t].status = IF d.status = None THEN row[t].status ELSE d.status
        /\ row'[t] # None
  BY <1>1, <1>2, <1>3, UpdatedResult
<1> HIDE DEF d
<1>6. Stored(row'[t]) \/ Stored(io'[a].source) \/ Stored(io'[a].data) => SaysStored(t)
  <2>1. Stored(row'[t]) => Stored(row[t]) \/ Stored(io[a].data)
    BY <1>1, <1>2, <1>3, <1>5 DEF Stored, d
  <2> QED
    BY <1>1, <1>4, <2>1 DEF Stored, SaysStored
<1>7. ASSUME Present(t) PROVE Present(t)'
  <2>1. CallsOf(t)'
    BY <1>4, <1>7 DEF Present, CallsOf, Served, PersistCalls
  <2>2. CallResult(t, io[a]) /\ RowResult(t)
    BY <1>1, <1>7 DEF Present, ResultFits
  <2>3. RowResult(t)'
    <3>1. mem[t].result # None
      BY <1>7, ObjectTyped, NoneAssumption DEF Present, Objects
    <3> QED
      BY <1>1, <1>2, <1>3, <1>4, <1>5, <2>2, <3>1 DEF CallResult, RowResult, d
  <2>4. row[t] # None => row'[t] # None /\ (row[t].result # "none" => row'[t].result = row[t].result)
    BY <1>1, <1>2, <1>5, <2>2 DEF CallResult, RowResult, d
  <2>5. ASSUME NEW b \in Actors, io'[b].task = t PROVE CallResult(t, io[b])'
    <3>1. CASE b = a
      BY <1>4, <3>1 DEF CallResult
    <3>2. CASE b # a
      <4>1. CallResult(t, io[b]) /\ io'[b] = io[b]
        BY <1>7, <2>5, <3>2 DEF Present, ResultFits, Served
      <4> QED
        BY <1>4, <2>4, <4>1 DEF CallResult
    <3> QED
      BY <3>1, <3>2
  <2>6. RowFits(t)'
    <3> SUFFICES ASSUME t \notin raced' PROVE RowFits(t)'
      BY DEF RowFits
    <3>1. t \notin raced /\ OnePersist(t)'
      BY DEF RacedStep, OnePersist
    <3>2. Persisting(a, t) /\ CallMatches(t, io[a])
      BY <1>1, <1>7, <3>1 DEF Present, RowFits, Persisting
    <3>3. \A b \in Actors : io'[b].task = t => io'[b].at = "back"
      BY <1>4, <1>7, <3>1, <3>2, AloneInFlight DEF Served
    <3>4. row'[t] = RowOf(mem'[t])
      BY <1>1, <1>2, <1>4, <3>2 DEF CallMatches, d
    <3> QED
      BY <3>1, <3>3, <3>4 DEF RowFits, CallMatches
  <2> QED
    BY <1>7, <2>1, <2>3, <2>5, <2>6, StillPresent DEF Served
<1>8. ~Archived(t)
  BY <1>1 DEF Archived
<1> QED
  BY <1>6, <1>7, <1>8, ServedLives

LEMMA DatabaseLives ==
  ASSUME TypeInv, GateInv, CallInv, LifeInv, NEW a \in Actors,
         DatabaseStep(a) \/ DatabaseFails(a), History
  PROVE  Lives(io[a].task)
<1>1. PICK t \in Tasks : t = io[a].task /\ Served(t, a)
  BY DatabaseShape DEF Served
<1>2. LifeOf(t) /\ RacedStep(t)
  BY <1>1, HistoryRaced DEF LifeInv, Served
<1> QED
  BY <1>1, <1>2, ReadLives, LoadLives, EraseLives, FaultLives, CopyLives, CommitLives
  DEF DatabaseStep

-----------------------------------------------------------------------------
(* Steps of the program: what they have in common.                         *)

LEMMA StepAtShape ==
  ASSUME TypeInv, CallInv, NEW t \in Tasks, NEW a \in Actors, NEW c, NEW s,
         StepAt(t, a, c, s), RestStays(t),
         a \in {Run(t), Beat(t)} \/ \E r \in Requests : a = Req(r),
         io[a].task \in {t, None},
         \/ s \in AwaitsPersist /\ c = Call("read", t)
         \/ s \in AwaitsLookUp /\ c = Call("load", t)
         \/ s = "deleting" /\ c = Call("erase", t) /\ t \in deleted'
         \/ s \notin AwaitsPersist \cup AwaitsLookUp \cup {"deleting"} /\ c = NoCall
  PROVE  StepOf(t, a) /\ io'[a] = c /\ stage'[a] = s
<1>1. io'[a] = c /\ stage'[a] = s
  BY StepAtFacts
<1>2. \A u \in Tasks \ {t} : a # Run(u) /\ a # Beat(u)
  BY TaskActors, RequestActor, DistinctActors
<1>3. a \in Coroutines => a[2] = t
  BY TaskActors, RequestActor, CoroutineCases
<1>4. c.task \in {t, None}
  BY CallTyped, NoCallTyped
<1>5. CallFits(a)'
  BY <1>1, <1>3, CallTyped, NoCallTyped
  DEF CallFits, PersistCalls, LookUpCalls, EraseCalls, AwaitsPersist, AwaitsLookUp
<1>6. ASSUME NEW b \in Actors \ {a} PROVE CallStays(t, b)
  BY <1>6 DEF CallStays, StepAt, Orphaned, TypeInv, TypeOK, SourceOK
<1>7. ASSUME NEW b \in Actors \ {a} PROVE StageStays(t, b)
  BY <1>7, StepAtFacts DEF StageStays
<1> QED
  BY <1>1, <1>2, <1>4, <1>5, <1>6, <1>7 DEF StepOf

\* The calls of all others stay as they are.
Plain(a) == \A b \in Actors \ {a} : io'[b] = io[b]

LEMMA PlainCall ==
  ASSUME TypeInv, NEW a \in Actors, NEW c, io' = [io EXCEPT ![a] = c]
  PROVE  Plain(a) /\ io'[a] = c
  BY DEF Plain, TypeInv, TypeOK

\* A step of the program about a present task asks for a persist of what it
\* has changed, or drops a call, or leaves the calls alone.
Persisted(t, a) ==
  /\ mem'[t] # None /\ row'[t] = row[t]
  /\ Plain(a) /\ io'[a] \in {Call("read", t), NoCall, io[a]}
  /\ mem'[t].result = mem[t].result \/ mem[t].result = "none"
  /\ mem'[t].status = "completed" => mem'[t].result # "none"
  /\ \/ io'[a] = Call("read", t) /\ a # Beat(t)
     \/ /\ RowOf(mem'[t]) = RowOf(mem[t])
        /\ Persisting(a, t) /\ a # Beat(t) => Persisting(a, t)'

LEMMA PersistedFits ==
  ASSUME TypeInv, NEW t \in Tasks, NEW a \in Actors, Present(t), RacedStep(t), Persisted(t, a)
  PROVE  /\ CallsOf(t)' /\ RowResult(t)' /\ RowFits(t)'
         /\ \A b \in Actors : io'[b].task = t => CallResult(t, io[b])'
<1>1. /\ Call("read", t).at = "read" /\ Call("read", t).task = t /\ Call("read", t).source = None
      /\ NoCall.task # t
  BY CallTyped, NoCallTyped, NoneAssumption
<1>2. \A b \in Actors : io'[b].task = t => io'[b] = io[b] \/ (b = a /\ io'[b].at = "read" /\ io'[b].source = None)
  BY <1>1 DEF Persisted, Plain
<1>3. CallsOf(t)'
  BY <1>2 DEF Present, CallsOf, PersistCalls
<1>4. RowResult(t)'
  BY DEF Present, ResultFits, RowResult, Persisted
<1>5. ASSUME NEW b \in Actors, io'[b].task = t PROVE CallResult(t, io[b])'
  <2>1. CASE io'[b] = io[b]
    <3>1. CallResult(t, io[b])
      BY <1>5, <2>1 DEF Present, ResultFits
    <3> QED
      BY <2>1, <3>1 DEF CallResult, Persisted
  <2>2. CASE io'[b].at = "read"
    BY <2>2 DEF CallResult
  <2> QED
    BY <1>2, <1>5, <2>1, <2>2
<1>6. RowFits(t)'
  <2> SUFFICES ASSUME t \notin raced' PROVE RowFits(t)'
    BY DEF RowFits
  <2>1. t \notin raced /\ OnePersist(t)'
    BY DEF RacedStep, OnePersist
  <2>2. CASE io'[a] = Call("read", t) /\ a # Beat(t)
    <3>1. Persisting(a, t)'
      BY <1>1, <2>2 DEF Persisting
    <3>2. ASSUME NEW b \in Actors \ {a}, io'[b].task = t PROVE io'[b].at = "back"
      <4>1. ~Persisting(b, t)'
        BY <2>1, <3>1, <3>2 DEF OnePersist
      <4> QED
        BY <1>3, <3>2, <4>1 DEF Persisting, CallsOf, PersistCalls
    <3>3. \A b \in Actors : io'[b].task = t => CallMatches(t, io[b])'
      BY <1>1, <2>2, <3>2 DEF CallMatches
    <3> QED
      BY <2>1, <2>2, <3>1, <3>3 DEF RowFits
  <2>3. CASE /\ RowOf(mem'[t]) = RowOf(mem[t])
             /\ Persisting(a, t) /\ a # Beat(t) => Persisting(a, t)'
    <3>1. ASSUME NEW b \in Actors, io'[b].task = t PROVE CallMatches(t, io[b])'
      <4>1. CASE io'[b] = io[b]
        <5>1. CallMatches(t, io[b])
          BY <2>1, <3>1, <4>1 DEF Present, RowFits
        <5> QED
          BY <2>3, <4>1, <5>1 DEF CallMatches, Persisted
      <4>2. CASE io'[b].at = "read"
        BY <4>2 DEF CallMatches
      <4> QED
        BY <1>2, <3>1, <4>1, <4>2
    <3>2. ASSUME \A b \in Actors : Persisting(b, t)' => b = Beat(t)
          PROVE  \A b \in Actors : Persisting(b, t) => b = Beat(t)
      BY <2>3, <3>2 DEF Persisted, Plain, Persisting
    <3> QED
      BY <2>1, <2>3, <3>1, <3>2 DEF RowFits, Present, Persisted
  <2> QED
    BY <2>2, <2>3 DEF Persisted
<1> QED
  BY <1>3, <1>4, <1>5, <1>6

LEMMA PersistedPresent ==
  ASSUME TypeInv, NEW t \in Tasks, NEW a \in Actors, Present(t), RacedStep(t), Persisted(t, a),
         StatusFits(t)', ProgressFits(t)',
         (Alive(t) \/ \E q \in Requests : Starts(q, t))' => mem'[t].result = "none"
  PROVE  Present(t)'
<1>1. ResultFits(t)'
  BY PersistedFits DEF ResultFits, Persisted
<1> QED
  BY <1>1, PersistedFits DEF Present, Persisted

\* Nothing is said to be stored that was not said to be before.
LEMMA StoredKept ==
  ASSUME TypeInv, NEW t \in Tasks, NEW a \in Actors, StoredIsTrue(t), StepOf(t, a),
         row'[t] = row[t], stage'[Run(t)] = "saved" => company'[t],
         Stored(mem'[t]) => company'[t] \/ SaysStored(t),
         io'[a] = io[a] \/ (io'[a].source = None /\ io'[a].data = None)
  PROVE  StoredIsTrue(t)'
<1> SUFFICES ASSUME SaysStored(t)' PROVE company'[t] \/ SaysStored(t)
  BY DEF StoredIsTrue, StepOf, RestStays
<1>1. CASE Stored(mem'[t]) \/ Stored(row'[t]) \/ stage'[Run(t)] = "saved"
  BY <1>1 DEF SaysStored
<1>2. ASSUME NEW b \in Actors, io'[b].task = t, Stored(io'[b].source) \/ Stored(io'[b].data)
      PROVE  SaysStored(t)
  <2>1. CASE io'[b] = io[b]
    BY <1>2, <2>1 DEF SaysStored
  <2>2. CASE io'[b] # io[b]
    <3>1. b # a
      BY <1>2, <2>2 DEF Stored
    <3>2. /\ io[b].task = t /\ io[b] \in Calls /\ mem[t] # None
          /\ io'[b] = [io[b] EXCEPT !.source = RowOf(mem[t])]
      BY <2>2, <3>1 DEF StepOf, CallStays, TypeInv, TypeOK
    <3>3. io'[b].data = io[b].data /\ io'[b].source = RowOf(mem[t])
      BY <3>2 DEF Calls
    <3>4. Stored(RowOf(mem[t])) => Stored(mem[t])
      BY <3>2 DEF Stored, RowOf
    <3> QED
      BY <1>2, <3>2, <3>3, <3>4 DEF SaysStored
  <2> QED
    BY <2>1, <2>2
<1>3. \/ Stored(mem'[t]) \/ Stored(row'[t]) \/ stage'[Run(t)] = "saved"
      \/ \E b \in Actors : io'[b].task = t /\ (Stored(io'[b].source) \/ Stored(io'[b].data))
  BY DEF SaysStored, Stored
<1> QED
  BY <1>1, <1>2, <1>3

-----------------------------------------------------------------------------
(* The lifecycle endpoints.                                                *)

\* Nobody starts or ends work on t, but who waits at its gate may be let go.
Calm(t) ==
  /\ \A q \in Requests : (Starts(q, t)' <=> Starts(q, t)) /\ (Creates(q, t)' <=> Creates(q, t))
  /\ \A b \in {Run(t), Beat(t)} :
       stage'[b] = stage[b] \/ (stage[b] = "gate" /\ stage'[b] \in {"woken", "adrift"})
  /\ phase'[Run(t)] = phase[Run(t)] /\ phase'[Beat(t)] = phase[Beat(t)]

LEMMA CalmFacts ==
  ASSUME TypeInv, NEW t \in Tasks, Calm(t)
  PROVE  /\ Unattended(t)' <=> Unattended(t)
         /\ Alive(t)' <=> Alive(t)
         /\ WorkerOf(t)' = WorkerOf(t)
         /\ stage'[Run(t)] \in Entering <=> stage[Run(t)] \in Entering
         /\ \A s \in {"registered", "final", "done", "unwind_cancelled", "saved", "off"} :
              stage'[Run(t)] = s <=> stage[Run(t)] = s
         /\ stage'[Beat(t)] = "off" <=> stage[Beat(t)] = "off"
<1>1. /\ stage'[Run(t)] = stage[Run(t)]
         \/ (stage[Run(t)] = "gate" /\ stage'[Run(t)] \in {"woken", "adrift"})
      /\ stage'[Beat(t)] = stage[Beat(t)]
         \/ (stage[Beat(t)] = "gate" /\ stage'[Beat(t)] \in {"woken", "adrift"})
  BY DEF Calm
<1>2. Unattended(t)' <=> Unattended(t)
  BY <1>1 DEF Calm, Unattended
<1>3. WorkerOf(t)' = WorkerOf(t)
  BY <1>1 DEF Calm, WorkerOf
<1> QED
  BY <1>1, <1>2, <1>3 DEF Alive, Entering

\* A request that is no generate request, before and after its step.
LEMMA ControlCalm ==
  ASSUME TypeInv, NEW t \in Tasks, NEW r \in Requests, NEW c, NEW s,
         StepAt(t, Req(r), c, s), s \notin {"creating", "starting"},
         stage[Req(r)] \notin {"creating", "starting"} \/ io[Req(r)].task # t,
         phase'[Run(t)] = phase[Run(t)], phase'[Beat(t)] = phase[Beat(t)]
  PROVE  Calm(t)
<1>1. ASSUME NEW q \in Requests
      PROVE  (Starts(q, t)' <=> Starts(q, t)) /\ (Creates(q, t)' <=> Creates(q, t))
  <2>1. CASE q = r
    BY <2>1, StepAtFacts, RequestActor DEF Starts, Creates
  <2>2. CASE q # r
    <3>1. io'[Req(q)].task = io[Req(q)].task /\ stage'[Req(q)] = stage[Req(q)]
      BY <2>2, StepAtFacts, RequestActor, DistinctActors
    <3> QED
      BY <3>1 DEF Starts, Creates
  <2> QED
    BY <2>1, <2>2
<1>2. \A b \in {Run(t), Beat(t)} :
        stage'[b] = stage[b] \/ (stage[b] = "gate" /\ stage'[b] \in {"woken", "adrift"})
  BY StepAtFacts, TaskActors, RequestActor, DistinctActors
<1> QED
  BY <1>1, <1>2 DEF Calm

\* What pause(), resume() and cancel() do to the object.
Controlled(t) ==
  \/ mem'[t] = mem[t] /\ cancelling'[t] = cancelling[t]
  \/ /\ mem'[t].progress = mem[t].progress /\ mem'[t].result = mem[t].result
     /\ mem'[t].coro = mem[t].coro /\ mem'[t] # None
     /\ \/ /\ mem[t].status = "running" /\ mem'[t].status = "paused"
           /\ cancelling'[t] = cancelling[t]
        \/ /\ mem[t].status = "paused" /\ mem'[t].status = "running"
           /\ cancelling'[t] = cancelling[t]
        \/ /\ mem[t].status \in Unfinished /\ mem'[t].status = "cancelled"
           /\ cancelling'[t] => cancelling[t] \/ mem[t].coro

LEMMA ControlledLives ==
  ASSUME TypeInv, NEW t \in Tasks, NEW r \in Requests, t \in created, LifeOf(t), RacedStep(t),
         StepOf(t, Req(r)), Calm(t), Plain(Req(r)), io'[Req(r)] = Call("read", t),
         row'[t] = row[t], mem[t] # None, Controlled(t),
         t \in deleted' <=> t \in deleted
  PROVE  Lives(t)
<1>1. Req(r) \in Actors /\ Req(r) # Beat(t) /\ mem'[t] # None
  BY RequestActor, TaskActors, DistinctActors DEF Controlled
<1>2. mem'[t].result = mem[t].result /\ mem'[t].progress = mem[t].progress
      /\ mem'[t].coro = mem[t].coro
  BY DEF Controlled
<1>3. StoredIsTrue(t)'
  <2>1. Stored(mem'[t]) => SaysStored(t)
    BY <1>2 DEF Stored, SaysStored
  <2>2. stage'[Run(t)] = "saved" => company'[t]
    BY CalmFacts DEF LifeOf, StoredIsTrue, SaysStored, StepOf, RestStays
  <2>3. io'[Req(r)].source = None /\ io'[Req(r)].data = None
    BY CallTyped
  <2> QED
    BY <1>1, <2>1, <2>2, <2>3, StoredKept DEF LifeOf
<1>4. ASSUME Present(t) PROVE Present(t)'
  <2>1. StatusFits(t)'
    <3>1. /\ \A q \in Requests : Starts(q, t) =>
               /\ ~mem'[t].coro /\ ~cancelling'[t]
               /\ Creates(q, t) => mem'[t].status \in {"pending", "cancelled"}
               /\ ~Creates(q, t) => mem'[t].status \in {"running", "paused", "cancelled"}
      BY <1>2, <1>4 DEF Present, StatusFits, Controlled
    <3>2. Alive(t) => mem'[t].coro /\ mem'[t].status \in {"running", "paused", "cancelled"}
      BY <1>2, <1>4 DEF Present, StatusFits, Controlled
    <3>3. /\ stage[Run(t)] \in {"final", "done"} => mem'[t].status \in Settled
          /\ Unattended(t) => mem'[t].status \in {"pending", "failed", "cancelled"}
          /\ cancelling'[t] \/ stage[Run(t)] = "unwind_cancelled" => mem'[t].status = "cancelled"
      BY <1>4 DEF Present, StatusFits, Controlled, Settled, Unfinished
    <3> QED
      BY <3>1, <3>2, <3>3, CalmFacts DEF StatusFits, Calm
  <2>2. ProgressFits(t)'
    BY <1>2, <1>4, CalmFacts DEF Present, ProgressFits, Calm
  <2>3. (Alive(t) \/ \E q \in Requests : Starts(q, t))' => mem'[t].result = "none"
    BY <1>2, <1>4, CalmFacts DEF Present, ResultFits, Calm
  <2>4. Persisted(t, Req(r))
    BY <1>1, <1>2, <1>4 DEF Persisted, Present, ResultFits, Controlled
  <2> QED
    BY <1>1, <1>4, <2>1, <2>2, <2>3, <2>4, PersistedPresent
<1>5. ASSUME Archived(t) PROVE Archived(t)'
  <2>1. mem'[t] = mem[t]
    <3>1. mem[t].status = row[t].status
      BY <1>5 DEF Archived, RowOf
    <3> QED
      BY <1>5, <3>1 DEF Archived, Controlled, Unfinished, Settled
  <2>2. /\ io'[Req(r)].at = "read" /\ io'[Req(r)].source = None
        /\ \A b \in Actors \ {Req(r)} : io'[b] = io[b]
    BY CallTyped DEF Plain
  <2> QED
    BY <1>5, <2>1, <2>2, CalmFacts DEF Archived
<1>6. LifeOf(t)'
  BY <1>3, <1>4, <1>5 DEF LifeOf, StepOf, RestStays
<1>7. Moves(t)
  <2>1. WorkerOf(t)' = WorkerOf(t) /\ StatusOf(t) = mem[t].status /\ StatusOf(t)' = mem'[t].status
    BY <1>1, CalmFacts DEF StatusOf
  <2> QED
    BY <2>1 DEF Moves, Controlled
<1>8. ProgressKept(t)
  BY <1>2, ObjectTyped DEF ProgressKept, Objects
<1> QED
  BY <1>6, <1>7, <1>8 DEF Lives

LEMMA ControlLives ==
  ASSUME TypeInv, CallInv, LifeInv, History, NEW r \in Requests, NEW t \in Tasks,
         Pause(r, t) \/ Resume(r, t) \/ Cancel(r, t)
  PROVE  StepOf(t, Req(r)) /\ Lives(t)
<1> DEFINE c == Call("read", t)
<1>1. /\ io' = [io EXCEPT ![Req(r)] = c]
      /\ stage[Req(r)] = "idle" /\ t \in created /\ mem[t] # None
      /\ UNCHANGED <<db, phase, created, deleted, boots>>
  BY DEF Pause, Resume, Cancel, Known, Idle, Suspend, work, others, ids, bounds
<1>2. StepAt(t, Req(r), c, "acting")
  BY <1>1 DEF StepAt, Pause, Resume, Cancel, Suspend
<1>3. mem[t] \in Objects
  BY <1>1, ObjectTyped
<1>4. /\ \A u \in Tasks \ {t} : mem'[u] = mem[u] /\ cancelling'[u] = cancelling[u]
      /\ \/ mem'[t] = mem[t] /\ cancelling'[t] = cancelling[t]
         \/ /\ mem[t].status = "running" /\ cancelling'[t] = cancelling[t]
            /\ mem'[t] = [mem[t] EXCEPT !.status = "paused", !.open = FALSE]
         \/ /\ mem[t].status = "paused" /\ cancelling'[t] = cancelling[t]
            /\ mem'[t] = [mem[t] EXCEPT !.status = "running", !.open = TRUE]
         \/ /\ mem[t].status \in Unfinished /\ cancelling'[t] = (cancelling[t] \/ mem[t].coro)
            /\ mem'[t] = [mem[t] EXCEPT !.status = "cancelled", !.open = TRUE]
  <2>1. CASE Pause(r, t)
    BY <2>1 DEF Pause, work, TypeInv, TypeOK
  <2>2. CASE Resume(r, t)
    BY <2>2 DEF Resume, work, TypeInv, TypeOK
  <2>3. CASE Cancel(r, t)
    BY <2>3 DEF Cancel, TypeInv, TypeOK
  <2> QED
    BY <2>1, <2>2, <2>3
<1>5. Controlled(t)
  <2>1. ASSUME NEW s \in Status, NEW b \in BOOLEAN,
               mem'[t] = [mem[t] EXCEPT !.status = s, !.open = b]
        PROVE  /\ mem'[t].progress = mem[t].progress /\ mem'[t].result = mem[t].result
               /\ mem'[t].coro = mem[t].coro /\ mem'[t] # None /\ mem'[t].status = s
    <3>1. mem'[t] \in Objects
      BY <1>3, <2>1 DEF Objects
    <3> QED
      BY <1>3, <2>1, <3>1, NoneIsNothing DEF Objects
  <2>2. {"paused", "running", "cancelled"} \subseteq Status
    BY DEF Status, Unfinished, Settled
  <2> QED
    BY <1>4, <2>1, <2>2 DEF Controlled
<1>6. Req(r) \in Actors /\ io[Req(r)].task = None
  BY <1>1, RequestActor, NoCallTyped DEF CallInv, CallFits, AwaitsPersist, AwaitsLookUp
<1>7. RestStays(t)
  BY <1>1, <1>4 DEF RestStays, db
<1>8. StepOf(t, Req(r)) /\ io'[Req(r)] = c
  BY <1>2, <1>6, <1>7, StepAtShape DEF AwaitsPersist
<1>9. Calm(t)
  BY <1>1, <1>2, ControlCalm
<1>10. Plain(Req(r))
  BY <1>1, <1>6, PlainCall
<1>11. LifeOf(t) /\ RacedStep(t) /\ row'[t] = row[t]
  BY <1>1, HistoryRaced DEF LifeInv, db
<1> HIDE DEF c
<1> QED
  BY <1>1, <1>5, <1>8, <1>9, <1>10, <1>11, ControlledLives DEF c

LEMMA DeleteLives ==
  ASSUME TypeInv, CallInv, LifeInv, NEW r \in Requests, NEW t \in Tasks, Delete(r, t)
  PROVE  StepOf(t, Req(r)) /\ Lives(t)
<1> DEFINE c == Call("erase", t)
<1>1. /\ stage[Req(r)] = "idle" /\ t \in created /\ deleted' = deleted \cup {t}
      /\ UNCHANGED <<db, work, created, boots>>
      /\ mem'[t] = None /\ \A u \in Tasks \ {t} : mem'[u] = mem[u]
  BY DEF Delete, Known, Idle, bounds, TypeInv, TypeOK
<1>2. StepAt(t, Req(r), c, "deleting")
  BY DEF StepAt, Delete
<1>3. Req(r) \in Actors /\ io[Req(r)].task = None
  BY <1>1, RequestActor, NoCallTyped DEF CallInv, CallFits, AwaitsPersist, AwaitsLookUp
<1>4. RestStays(t)
  BY <1>1 DEF RestStays, db, work
<1>5. StepOf(t, Req(r)) /\ io'[Req(r)] = c
  BY <1>1, <1>2, <1>3, <1>4, StepAtShape
<1>6. Calm(t)
  BY <1>1, <1>2, ControlCalm DEF work
<1>7. StoredIsTrue(t)'
  <2>1. stage'[Run(t)] = "saved" => company'[t]
    BY <1>1, <1>6, CalmFacts DEF LifeInv, LifeOf, StoredIsTrue, SaysStored, db
  <2>2. c.source = None /\ c.data = None
    BY CallTyped
  <2> HIDE DEF c
  <2> QED
    BY <1>1, <1>3, <1>5, <2>1, <2>2, StoredKept DEF LifeInv, LifeOf, Stored, db
<1>8. LifeOf(t)'
  BY <1>1, <1>7 DEF LifeOf
<1>9. Moves(t) /\ ProgressKept(t)
  BY <1>1, <1>6, CalmFacts DEF Moves, StatusOf, ProgressKept
<1> QED
  BY <1>5, <1>8, <1>9 DEF Lives

LEMMA LookUpLives ==
  ASSUME TypeInv, CallInv, LifeInv, NEW r \in Requests, NEW t \in Tasks,
         NEW s \in {"replying", "listing"}, LookUp(r, t, s)
  PROVE  StepOf(t, Req(r)) /\ Lives(t)
<1> DEFINE c == Call("load", t)
<1>1. /\ stage[Req(r)] = "idle" /\ t \in created /\ mem[t] = None
      /\ UNCHANGED <<mem, db, work, created, deleted, boots>>
      /\ io' = [io EXCEPT ![Req(r)] = c]
  BY DEF LookUp, Known, Idle, Suspend, others, ids, bounds
<1>2. StepAt(t, Req(r), c, s)
  BY <1>1 DEF StepAt, LookUp, Suspend
<1>3. Req(r) \in Actors /\ io[Req(r)].task = None
  BY <1>1, RequestActor, NoCallTyped DEF CallInv, CallFits, AwaitsPersist, AwaitsLookUp
<1>4. RestStays(t)
  BY <1>1 DEF RestStays, db, work
<1>5. StepOf(t, Req(r)) /\ io'[Req(r)] = c
  BY <1>2, <1>3, <1>4, StepAtShape DEF AwaitsLookUp
<1>6. Calm(t)
  BY <1>1, <1>2, ControlCalm DEF work
<1>7. c.at = "load" /\ c.source = None /\ c.data = None
  BY CallTyped
<1>8. \A b \in Actors \ {Req(r)} : io'[b] = io[b]
  BY <1>1, <1>3, PlainCall DEF Plain
<1> HIDE DEF c
<1>9. StoredIsTrue(t)'
  <2>1. stage'[Run(t)] = "saved" => company'[t]
    BY <1>1, <1>6, CalmFacts DEF LifeInv, LifeOf, StoredIsTrue, SaysStored, db
  <2> QED
    BY <1>1, <1>3, <1>5, <1>7, <2>1, StoredKept DEF LifeInv, LifeOf, Stored, db
<1>10. LifeOf(t)'
  <2>1. Archived(t) => Archived(t)'
    BY <1>1, <1>5, <1>6, <1>7, <1>8, CalmFacts DEF Archived, db
  <2>2. ~Present(t) /\ LifeOf(t)
    BY <1>1 DEF Present, LifeInv
  <2> QED
    BY <1>1, <1>9, <2>1, <2>2 DEF LifeOf, work
<1>11. Moves(t) /\ ProgressKept(t)
  BY <1>1, <1>6, CalmFacts DEF Moves, StatusOf, ProgressKept
<1> QED
  BY <1>5, <1>10, <1>11 DEF Lives

\* Of a deleted task only the stored company is of interest.
LEMMA DeletedLives ==
  ASSUME NEW t \in Tasks, t \in created', t \in deleted, t \in deleted', StoredIsTrue(t)'
  PROVE  Lives(t)
<1>1. LifeOf(t)'
  BY DEF LifeOf
<1>2. Moves(t)
  BY DEF Moves
<1>3. ProgressKept(t)
  BY DEF ProgressKept
<1> QED
  BY <1>1, <1>2, <1>3 DEF Lives

LEMMA ReplyLives ==
  ASSUME TypeInv, GateInv, CallInv, LifeInv, History, NEW r \in Requests, Reply(r)
  PROVE  /\ io[Req(r)].task \in Tasks
         /\ StepOf(io[Req(r)].task, Req(r)) /\ Lives(io[Req(r)].task)
<1>1. Req(r) \in Actors
  BY RequestActor
<1>2. PICK t \in Tasks : t = io[Req(r)].task
  BY <1>1 DEF Reply, TypeInv, CallOK
<1>3. /\ UNCHANGED <<mem, db, work, created, deleted, boots>>
      /\ io' = [io EXCEPT ![Req(r)] = NoCall]
      /\ io[Req(r)].at \in {"failed", "back", "loaded"}
      /\ io[Req(r)].at = "back" => stage[Req(r)] \in {"acting", "deleting"} \/ mem[t] = None
  BY <1>2 DEF Reply, Suspend, others, ids, bounds
<1>4. t \in created
  BY <1>1, <1>2 DEF GateInv, GateInvOf, Untouched
<1>5. StepAt(t, Req(r), NoCall, "idle")
  BY <1>3 DEF StepAt, Reply, Suspend
<1>6. RestStays(t)
  BY <1>3, <1>4 DEF RestStays, db, work
<1>7. StepOf(t, Req(r)) /\ io'[Req(r)] = NoCall /\ stage'[Req(r)] = "idle"
  BY <1>1, <1>2, <1>5, <1>6, StepAtShape DEF AwaitsPersist, AwaitsLookUp
<1>8. Plain(Req(r))
  BY <1>1, <1>3, PlainCall
<1>9. LifeOf(t) /\ RacedStep(t)
  BY <1>3, HistoryRaced DEF LifeInv
<1>10. StoredIsTrue(t)'
  <2>1. stage'[Run(t)] = stage[Run(t)]
    BY <1>5, StepAtFacts, TaskActors, RequestActor, DistinctActors, <1>3
    DEF Reply, Suspend, TypeInv, TypeOK
  <2>2. stage'[Run(t)] = "saved" => company'[t]
    BY <1>3, <1>9, <2>1 DEF LifeOf, StoredIsTrue, SaysStored, db
  <2>3. Stored(mem'[t]) => SaysStored(t)
    BY <1>3 DEF SaysStored
  <2> QED
    BY <1>1, <1>3, <1>7, <1>9, <2>2, <2>3, StoredKept, NoCallTyped DEF LifeOf, db
<1>11. ASSUME t \in deleted PROVE Lives(t)
  BY <1>3, <1>4, <1>10, <1>11, DeletedLives
<1>12. ASSUME t \notin deleted PROVE Lives(t)
  <2>1. stage[Req(r)] \notin {"creating", "starting"}
    <3>1. CASE Present(t)
      <4>1. io[Req(r)].at = "back" /\ mem[t] # None
        BY <1>1, <1>2, <1>3, <3>1 DEF Present, CallsOf, PersistCalls
      <4> QED
        BY <1>3, <4>1
    <3>2. CASE Archived(t)
      BY <1>2, <3>2 DEF Archived, Unattended, Starts
    <3> QED
      BY <1>4, <1>9, <1>12, <3>1, <3>2 DEF LifeOf
  <2>2. Calm(t)
    BY <1>3, <1>5, <2>1, ControlCalm DEF work
  <2>3. ASSUME Present(t) PROVE Present(t)'
    <3>1. StatusFits(t)'
      BY <1>3, <2>2, <2>3, CalmFacts DEF Present, StatusFits, Calm, work
    <3>2. ProgressFits(t)'
      BY <1>3, <2>2, <2>3, CalmFacts DEF Present, ProgressFits, Calm, work
    <3>3. (Alive(t) \/ \E q \in Requests : Starts(q, t))' => mem'[t].result = "none"
      BY <1>3, <2>2, <2>3, CalmFacts DEF Present, ResultFits, Calm
    <3>4. Persisted(t, Req(r))
      BY <1>3, <1>7, <1>8, <2>3 DEF Persisted, Present, ResultFits, Persisting, db
    <3> QED
      BY <1>1, <1>9, <2>3, <3>1, <3>2, <3>3, <3>4, PersistedPresent
  <2>4. ASSUME Archived(t) PROVE Archived(t)'
    <3>1. io'[Req(r)].task # t
      BY <1>7, NoCallTyped, NoneAssumption
    <3> QED
      BY <1>3, <1>8, <2>2, <2>4, <3>1, CalmFacts DEF Archived, Plain, db
  <2>5. LifeOf(t)'
    BY <1>3, <1>4, <1>9, <1>10, <2>3, <2>4 DEF LifeOf, work
  <2>6. Moves(t) /\ ProgressKept(t)
    BY <1>3, <2>2, CalmFacts, ObjectTyped DEF Moves, StatusOf, ProgressKept, Objects
  <2> QED
    BY <2>5, <2>6 DEF Lives
<1> QED
  BY <1>2, <1>7, <1>11, <1>12

LEMMA InstallLives ==
  ASSUME TypeInv, GateInv, CallInv, LifeInv, NEW r \in Requests, Install(r)
  PROVE  /\ io[Req(r)].task \in Tasks
         /\ StepOf(io[Req(r)].task, Req(r)) /\ Lives(io[Req(r)].task)
<1>1. Req(r) \in Actors
  BY RequestActor
<1>2. PICK t \in Tasks : t = io[Req(r)].task
  BY <1>1 DEF Install, TypeInv, CallOK
<1>3. PICK d : d = io[Req(r)].data
  OBVIOUS
<1>4. d \in Rows /\ io[Req(r)].at = "loaded" /\ stage[Req(r)] \in {"replying", "listing"}
  BY <1>1, <1>3 DEF Install, TypeInv, CallOK
<1>5. t \in created
  BY <1>1, <1>2 DEF GateInv, GateInvOf, Untouched
<1>6. /\ mem'[t] = Rebuilt(d) /\ \A u \in Tasks \ {t} : mem'[u] = mem[u]
      /\ UNCHANGED <<db, work, created, deleted, boots>>
  BY <1>2, <1>3 DEF Install, others, ids, bounds, TypeInv, TypeOK
<1>7. StepAt(t, Req(r), NoCall, "idle")
  BY <1>2 DEF Install, StepAt
<1>8. RestStays(t)
  BY <1>5, <1>6 DEF RestStays, db, work
<1>9. StepOf(t, Req(r)) /\ io'[Req(r)] = NoCall
  BY <1>1, <1>2, <1>7, <1>8, StepAtShape DEF AwaitsPersist, AwaitsLookUp
<1>10. Calm(t)
  BY <1>4, <1>6, <1>7, ControlCalm DEF work
<1>11. LifeOf(t)
  BY DEF LifeInv
<1>12. /\ RowOf(Rebuilt(d)) = d /\ Rebuilt(d) # None /\ Rebuilt(d).status = d.status
       /\ Rebuilt(d).result = d.result
  <2>1. RowOf(Rebuilt(d)) = [status |-> d.status, progress |-> d.progress, result |-> d.result]
    BY DEF RowOf, Rebuilt
  <2>2. d = [status |-> d.status, progress |-> d.progress, result |-> d.result]
    BY <1>4 DEF Rows
  <2> QED
    BY <1>4, <2>1, <2>2, RebuiltTyped, NoneIsNothing DEF Rebuilt
<1>13. StoredIsTrue(t)'
  <2>1. Stored(mem'[t]) => SaysStored(t)
    BY <1>1, <1>2, <1>3, <1>4, <1>6, <1>12, NoneIsNothing DEF Stored, SaysStored
  <2>2. stage'[Run(t)] = "saved" => company'[t]
    BY <1>6, <1>10, <1>11, CalmFacts DEF LifeOf, StoredIsTrue, SaysStored, db
  <2> QED
    BY <1>1, <1>6, <1>9, <1>11, <2>1, <2>2, StoredKept, NoCallTyped DEF LifeOf, db
<1>14. ASSUME t \in deleted PROVE Lives(t)
  BY <1>5, <1>6, <1>13, <1>14, DeletedLives
<1>15. ASSUME t \notin deleted PROVE Lives(t)
  <2>1. Archived(t)
    BY <1>1, <1>2, <1>4, <1>5, <1>11, <1>15 DEF LifeOf, Present, CallsOf, PersistCalls
  <2>2. d = row[t] /\ row[t] # None
    BY <1>1, <1>2, <1>3, <1>4, <2>1, NoneIsNothing DEF Archived
  <2>3. Archived(t)'
    <3>1. ASSUME NEW b \in Actors, io'[b].task = t
          PROVE  /\ io'[b].at = io[b].at /\ io'[b].data = io[b].data /\ io[b].task = t
                 /\ io'[b].source \in {io[b].source, row[t]}
      <4>1. b # Req(r) /\ io[b] \in Calls
        BY <1>9, <3>1, NoCallTyped, NoneAssumption DEF TypeInv, TypeOK
      <4>2. CallStays(t, b)
        BY <1>9, <4>1 DEF StepOf
      <4> QED
        BY <2>1, <3>1, <4>1, <4>2 DEF CallStays, Calls, Archived
    <3>2. row'[t] = row[t] /\ mem'[t] # None /\ RowOf(mem'[t]) = row[t]
      BY <1>6, <1>12, <2>2 DEF db
    <3> QED
      BY <1>10, <2>1, <2>2, <3>1, <3>2, CalmFacts DEF Archived
  <2>4. LifeOf(t)'
    BY <1>5, <1>6, <1>13, <2>3 DEF LifeOf
  <2>5. Moves(t)
    <3>1. StatusOf(t)' = row[t].status /\ WorkerOf(t)' = WorkerOf(t)
      BY <1>6, <1>10, <1>12, <2>2, CalmFacts DEF StatusOf
    <3>2. WorkerOf(t) = "none" /\ row[t].status \in Settled
      BY <2>1, <2>2 DEF Archived, Unattended, WorkerOf
    <3>3. StatusOf(t) = "absent" \/ StatusOf(t) = row[t].status
      BY <2>1 DEF StatusOf, Archived, RowOf
    <3> QED
      BY <3>1, <3>2, <3>3 DEF Moves
  <2>6. ProgressKept(t)
    <3>1. mem[t] # None => mem'[t].progress = mem[t].progress
      BY <1>6, <2>1, <2>2 DEF Archived, RowOf, Rebuilt
    <3> QED
      BY <3>1, ObjectTyped DEF ProgressKept, Objects
  <2> QED
    BY <2>4, <2>5, <2>6 DEF Lives
<1> QED
  BY <1>2, <1>9, <1>14, <1>15

-----------------------------------------------------------------------------
(* POST /generate.                                                         *)

LEMMA GenerateLives ==
  ASSUME TypeInv, GateInv, CallInv, LifeInv, NEW r \in Requests, NEW t \in Tasks, Generate(r, t)
  PROVE  StepOf(t, Req(r)) /\ Lives(t)
<1> DEFINE c == Call("read", t)
<1>1. /\ stage[Req(r)] = "idle" /\ t \notin created /\ created' = created \cup {t}
      /\ UNCHANGED <<db, work, deleted, boots>>
      /\ mem'[t] = NewTask /\ \A u \in Tasks \ {t} : mem'[u] = mem[u]
      /\ io' = [io EXCEPT ![Req(r)] = c]
  BY DEF Generate, Idle, Suspend, bounds, TypeInv, TypeOK
<1>2. /\ mem[t] = None /\ row[t] = None /\ stage[Run(t)] = "off" /\ stage[Beat(t)] = "off"
      /\ t \notin deleted /\ ~cancelling[t]
      /\ \A a \in Actors : io[a].task # t
  BY <1>1, BeatOff DEF GateInv, GateInvOf, Untouched, LifeInv, LifeOf, InCall, TypeInv, TypeOK
<1>3. StepAt(t, Req(r), c, "creating")
  BY DEF StepAt, Generate, Suspend
<1>4. Req(r) \in Actors /\ io[Req(r)].task = None /\ Req(r) # Beat(t)
  BY <1>1, RequestActor, TaskActors, DistinctActors, NoCallTyped
  DEF CallInv, CallFits, AwaitsPersist, AwaitsLookUp
<1>5. RestStays(t)
  BY <1>1 DEF RestStays, db, work
<1>6. StepOf(t, Req(r)) /\ io'[Req(r)] = c /\ stage'[Req(r)] = "creating"
  BY <1>3, <1>4, <1>5, StepAtShape DEF AwaitsPersist
<1>7. /\ c.at = "read" /\ c.task = t /\ c.source = None /\ c.data = None
      /\ \A b \in Actors \ {Req(r)} : io'[b] = io[b]
  BY <1>1, <1>4, CallTyped, PlainCall DEF Plain
<1> HIDE DEF c
<1>8. \A b \in Actors : io'[b].task = t => b = Req(r)
  BY <1>2, <1>7
<1>9. stage'[Run(t)] = "off" /\ stage'[Beat(t)] = "off" /\ row'[t] = None /\ ~cancelling'[t]
  BY <1>1, <1>2, <1>3, StepAtFacts, RequestActor, TaskActors, DistinctActors DEF db, work
<1>10. /\ Starts(r, t)' /\ Creates(r, t)'
       /\ \A q \in Requests : Starts(q, t)' => q = r
  BY <1>6, <1>7, <1>8, RequestActor, DistinctActors DEF Starts, Creates
<1>11. /\ mem'[t].status = "pending" /\ mem'[t].progress = 0 /\ mem'[t].result = "none"
       /\ ~mem'[t].coro /\ mem'[t] # None
  <2>1. NewTask # None
    BY NewTaskTyped, NoneIsNothing
  <2> QED
    BY <1>1, <2>1 DEF NewTask
<1>12. StoredIsTrue(t)'
  BY <1>6, <1>7, <1>8, <1>9, <1>11 DEF StoredIsTrue, SaysStored, Stored
<1>13. Present(t)'
  <2>1. CallsOf(t)'
    BY <1>6, <1>7, <1>8 DEF CallsOf, PersistCalls
  <2>2. StatusFits(t)'
    BY <1>9, <1>10, <1>11 DEF StatusFits, Alive, Unattended
  <2>3. ProgressFits(t)'
    BY <1>9, <1>11 DEF ProgressFits, Alive, Entering
  <2>4. ResultFits(t)'
    BY <1>6, <1>7, <1>8, <1>9, <1>11 DEF ResultFits, RowResult, CallResult
  <2>5. RowFits(t)'
    <3>1. Persisting(Req(r), t)' /\ OnePersist(t)'
      BY <1>6, <1>7, <1>8 DEF Persisting, OnePersist
    <3> QED
      BY <1>4, <1>6, <1>7, <1>8, <3>1 DEF RowFits, CallMatches
  <2> QED
    BY <1>11, <2>1, <2>2, <2>3, <2>4, <2>5 DEF Present
<1>14. LifeOf(t)'
  BY <1>1, <1>12, <1>13 DEF LifeOf
<1>15. Moves(t)
  <2>1. \A q \in Requests : ~Starts(q, t)
    BY <1>2, RequestActor DEF Starts
  <2>2. StatusOf(t) = "absent" /\ WorkerOf(t) = "none"
    BY <1>2, <2>1 DEF StatusOf, WorkerOf
  <2>3. StatusOf(t)' = "pending" /\ WorkerOf(t)' = "starting"
    BY <1>9, <1>10, <1>11 DEF StatusOf, WorkerOf
  <2> QED
    BY <2>2, <2>3 DEF Moves
<1>16. ProgressKept(t)
  BY <1>2 DEF ProgressKept
<1> QED
  BY <1>6, <1>14, <1>15, <1>16 DEF Lives

\* A task that is being started is present, if it is not deleted.
LEMMA StartingPresent ==
  ASSUME NEW t \in Tasks, GateInvOf(t), LifeOf(t), NEW q \in Requests, Starts(q, t), t \notin deleted
  PROVE  /\ Present(t) /\ t \in created
         /\ stage[Run(t)] = "off" /\ stage[Beat(t)] = "off"
<1>1. t \in created
  BY RequestActor DEF GateInvOf, Untouched, Starts
<1>2. ~Archived(t)
  BY DEF Archived, Unattended
<1> QED
  BY <1>1, <1>2 DEF LifeOf, GateInvOf, StartedOnce, BeatHasCall, InCall

LEMMA MarkRunningLives ==
  ASSUME TypeInv, GateInv, CallInv, LifeInv, History, NEW r \in Requests, MarkRunning(r)
  PROVE  /\ io[Req(r)].task \in Tasks
         /\ StepOf(io[Req(r)].task, Req(r)) /\ Lives(io[Req(r)].task)
<1>1. Req(r) \in Actors
  BY RequestActor
<1>2. PICK t \in Tasks : t = io[Req(r)].task
  BY <1>1 DEF MarkRunning, Back, TypeInv, CallOK
<1> DEFINE c == Call("read", t)
           o == [mem[t] EXCEPT !.status = "running", !.progress = 0]
<1>3. /\ UNCHANGED <<db, work, created, deleted, boots>>
      /\ io' = [io EXCEPT ![Req(r)] = c] /\ mem[t] # None
      /\ mem' = [mem EXCEPT ![t] = o]
      /\ stage[Req(r)] = "creating" /\ io[Req(r)].at = "back"
  BY <1>2 DEF MarkRunning, Back, Suspend, others, ids, bounds
<1>4. /\ mem'[t] = o /\ \A u \in Tasks \ {t} : mem'[u] = mem[u]
  BY <1>3 DEF TypeInv, TypeOK
<1>5. /\ mem'[t] # None /\ mem'[t].status = "running" /\ mem'[t].progress = 0
      /\ mem'[t].result = mem[t].result /\ mem'[t].coro = mem[t].coro
  <2>1. mem[t] \in Objects /\ "running" \in Status /\ 0 \in 0..(Phases + 1)
    BY <1>3, ObjectTyped, BoundsAssumption DEF Status, Unfinished
  <2>2. o \in Objects
    BY <2>1 DEF Objects
  <2> QED
    BY <1>4, <2>1, <2>2, NoneIsNothing DEF Objects
<1>6. GateInvOf(t) /\ LifeOf(t) /\ RacedStep(t) /\ Starts(r, t) /\ Creates(r, t)
  BY <1>2, <1>3, HistoryRaced DEF GateInv, LifeInv, Starts, Creates
<1>7. t \in created
  BY <1>1, <1>2, <1>6 DEF GateInvOf, Untouched
<1>8. StepAt(t, Req(r), c, "starting")
  BY <1>2 DEF StepAt, MarkRunning, Suspend
<1>9. RestStays(t)
  BY <1>3, <1>4, <1>7 DEF RestStays, db, work
<1> HIDE DEF o
<1>10. StepOf(t, Req(r)) /\ io'[Req(r)] = c /\ stage'[Req(r)] = "starting"
  BY <1>1, <1>2, <1>8, <1>9, StepAtShape DEF AwaitsPersist
<1>11. stage'[Run(t)] = stage[Run(t)] /\ stage'[Beat(t)] = stage[Beat(t)]
  BY <1>8, TaskActors, DistinctActors DEF MarkRunning, Suspend, TypeInv, TypeOK
<1>12. c.task = t /\ c.source = None /\ c.data = None /\ Plain(Req(r))
  BY <1>1, <1>3, CallTyped, PlainCall
<1> HIDE DEF c
<1>13. StoredIsTrue(t)'
  <2>1. Stored(mem'[t]) => SaysStored(t)
    BY <1>3, <1>5 DEF Stored, SaysStored
  <2>2. stage'[Run(t)] = "saved" => company'[t]
    BY <1>3, <1>6, <1>11 DEF LifeOf, StoredIsTrue, SaysStored, db
  <2> QED
    BY <1>1, <1>3, <1>6, <1>10, <1>12, <2>1, <2>2, StoredKept DEF LifeOf, db
<1>14. ASSUME t \in deleted PROVE Lives(t)
  BY <1>3, <1>7, <1>13, <1>14, DeletedLives
<1>15. ASSUME t \notin deleted PROVE Lives(t)
  <2>1. /\ Present(t) /\ stage'[Run(t)] = "off" /\ stage'[Beat(t)] = "off"
        /\ stage[Run(t)] = "off"
    BY <1>6, <1>11, <1>15, StartingPresent
  <2>2. /\ Starts(r, t)' /\ ~Creates(r, t)'
        /\ \A q \in Requests : Starts(q, t)' => q = r
    <3>1. ASSUME NEW q \in Requests, q # r PROVE Starts(q, t)' <=> Starts(q, t)
      BY <1>8, <1>12, <3>1, RequestActor, DistinctActors, StepAtFacts DEF Starts
    <3>2. \A q \in Requests : Starts(q, t) => q = r
      BY <1>6 DEF GateInvOf, StartedOnce
    <3> QED
      BY <1>10, <1>12, <3>1, <3>2 DEF Starts, Creates
  <2>3. ~mem[t].coro /\ ~cancelling[t] /\ mem[t].status \in {"pending", "cancelled"}
        /\ mem[t].result = "none" /\ mem[t].progress = 0
    BY <1>6, <2>1 DEF Present, StatusFits, ResultFits, ProgressFits
  <2>4. StatusFits(t)'
    BY <1>3, <1>5, <2>1, <2>2, <2>3 DEF StatusFits, Alive, Unattended, work
  <2>5. ProgressFits(t)'
    BY <1>5, <2>1 DEF ProgressFits, Alive, Entering
  <2>6. Persisted(t, Req(r))
    <3>1. Req(r) # Beat(t)
      BY TaskActors, DistinctActors
    <3> QED
      BY <1>3, <1>5, <1>10, <1>12, <3>1 DEF Persisted, c, db
  <2>7. Present(t)'
    BY <1>1, <1>5, <1>6, <2>1, <2>3, <2>4, <2>5, <2>6, PersistedPresent
  <2>8. LifeOf(t)'
    BY <1>3, <1>7, <1>13, <2>7 DEF LifeOf
  <2>9. Moves(t)
    <3>1. StatusOf(t) = mem[t].status /\ WorkerOf(t) = "starting"
      BY <1>3, <1>6, <2>1 DEF StatusOf, WorkerOf
    <3>2. StatusOf(t)' = "running" /\ WorkerOf(t)' = "starting"
      BY <1>5, <2>1, <2>2 DEF StatusOf, WorkerOf
    <3> QED
      BY <2>3, <3>1, <3>2 DEF Moves
  <2>10. ProgressKept(t)
    BY <1>5, <2>3 DEF ProgressKept
  <2> QED
    BY <2>8, <2>9, <2>10 DEF Lives
<1> QED
  BY <1>2, <1>10, <1>14, <1>15

LEMMA RegisterLives ==
  ASSUME TypeInv, GateInv, CallInv, LifeInv, History, NEW r \in Requests, Register(r)
  PROVE  /\ io[Req(r)].task \in Tasks
         /\ StepOf(io[Req(r)].task, Req(r)) /\ Lives(io[Req(r)].task)
<1>1. Req(r) \in Actors
  BY RequestActor
<1>2. PICK t \in Tasks : t = io[Req(r)].task
  BY <1>1 DEF Register, Back, TypeInv, CallOK
<1> DEFINE o == [mem[t] EXCEPT !.coro = TRUE]
<1>3. /\ UNCHANGED <<db, work, created, deleted, boots>>
      /\ io' = [io EXCEPT ![Req(r)] = NoCall] /\ mem[t] # None
      /\ mem' = [mem EXCEPT ![t] = o]
      /\ stage' = [stage EXCEPT ![Req(r)] = "idle", ![Run(t)] = "registered"]
      /\ stage[Req(r)] = "starting" /\ io[Req(r)].at = "back"
  BY <1>2 DEF Register, Back, others, ids, bounds
<1>4. mem'[t] = o /\ \A u \in Tasks \ {t} : mem'[u] = mem[u]
  BY <1>3 DEF TypeInv, TypeOK
<1>5. /\ mem'[t] # None /\ mem'[t].status = mem[t].status /\ mem'[t].progress = mem[t].progress
      /\ mem'[t].result = mem[t].result /\ mem'[t].coro
  <2>1. mem[t] \in Objects
    BY <1>3, ObjectTyped
  <2>2. o \in Objects
    BY <2>1 DEF Objects
  <2> QED
    BY <1>4, <2>1, <2>2, NoneIsNothing DEF Objects
<1>6. GateInvOf(t) /\ LifeOf(t) /\ RacedStep(t) /\ Starts(r, t) /\ ~Creates(r, t)
  BY <1>2, <1>3, HistoryRaced DEF GateInv, LifeInv, Starts, Creates
<1>7. t \in created /\ stage[Run(t)] = "off" /\ stage[Beat(t)] = "off"
  BY <1>1, <1>2, <1>6 DEF GateInvOf, Untouched, StartedOnce, BeatHasCall, InCall
<1> HIDE DEF o
<1>8. /\ stage'[Req(r)] = "idle" /\ stage'[Run(t)] = "registered" /\ stage'[Beat(t)] = "off"
      /\ \A b \in Actors \ {Req(r), Run(t)} : stage'[b] = stage[b]
  BY <1>1, <1>3, <1>7, TaskActors, DistinctActors DEF TypeInv, TypeOK
<1>9. io'[Req(r)] = NoCall /\ Plain(Req(r))
  BY <1>1, <1>3, PlainCall
<1>10. StepOf(t, Req(r))
  <2>1. \A u \in Tasks \ {t} : Req(r) # Run(u) /\ Req(r) # Beat(u)
    BY DistinctActors
  <2>2. CallFits(Req(r))'
    BY <1>8, <1>9, NoCallTyped DEF CallFits, AwaitsPersist, AwaitsLookUp
  <2>3. ASSUME NEW b \in Actors \ {Req(r)} PROVE CallStays(t, b) /\ StageStays(t, b)
    <3>1. io[Run(t)] = NoCall
      BY <1>7, TaskActors DEF CallInv, CallFits, AwaitsPersist, AwaitsLookUp
    <3> QED
      BY <1>8, <1>9, <3>1 DEF CallStays, StageStays, Plain
  <2>4. RestStays(t)
    BY <1>3, <1>4, <1>7 DEF RestStays, db, work
  <2> QED
    BY <1>2, <1>9, <2>1, <2>2, <2>3, <2>4, NoCallTyped DEF StepOf
<1>11. StoredIsTrue(t)'
  <2>1. Stored(mem'[t]) => SaysStored(t)
    BY <1>3, <1>5 DEF Stored, SaysStored
  <2>2. stage'[Run(t)] # "saved"
    BY <1>8
  <2> QED
    BY <1>1, <1>3, <1>6, <1>9, <1>10, <2>1, <2>2, NoCallTyped, StoredKept DEF LifeOf, db
<1>12. ASSUME t \in deleted PROVE Lives(t)
  BY <1>3, <1>7, <1>11, <1>12, DeletedLives
<1>13. ASSUME t \notin deleted PROVE Lives(t)
  <2>1. Present(t)
    BY <1>6, <1>13, StartingPresent
  <2>2. \A q \in Requests : ~Starts(q, t)'
    <3>1. ASSUME NEW q \in Requests, q # r PROVE Starts(q, t)' <=> Starts(q, t)
      BY <1>8, <1>9, <3>1, RequestActor, DistinctActors DEF Starts, Plain
    <3>2. \A q \in Requests : Starts(q, t) => q = r
      BY <1>6 DEF GateInvOf, StartedOnce
    <3> QED
      BY <1>8, <3>1, <3>2 DEF Starts
  <2>3. ~cancelling[t] /\ mem[t].status \in {"running", "paused", "cancelled"}
        /\ mem[t].result = "none" /\ mem[t].progress = 0
    BY <1>6, <2>1 DEF Present, StatusFits, ResultFits, ProgressFits
  <2>4. StatusFits(t)'
    BY <1>3, <1>5, <1>8, <2>2, <2>3 DEF StatusFits, Unattended, work
  <2>5. ProgressFits(t)'
    BY <1>5, <1>8, <2>3 DEF ProgressFits, Entering
  <2>6. Persisted(t, Req(r))
    BY <1>3, <1>5, <1>9, <2>3 DEF Persisted, Persisting, RowOf, db
  <2>7. Present(t)'
    BY <1>1, <1>5, <1>6, <2>1, <2>3, <2>4, <2>5, <2>6, PersistedPresent
  <2>8. LifeOf(t)'
    BY <1>3, <1>7, <1>11, <2>7 DEF LifeOf
  <2>9. Moves(t)
    <3>1. StatusOf(t) = mem[t].status /\ WorkerOf(t) = "starting"
      BY <1>3, <1>6, <1>7 DEF StatusOf, WorkerOf
    <3>2. StatusOf(t)' = mem[t].status /\ WorkerOf(t)' = "working"
      BY <1>5, <1>8 DEF StatusOf, WorkerOf
    <3> QED
      BY <2>3, <3>1, <3>2 DEF Moves
  <2>10. ProgressKept(t)
    BY <1>5, <2>3 DEF ProgressKept
  <2> QED
    BY <2>8, <2>9, <2>10 DEF Lives
<1> QED
  BY <1>2, <1>10, <1>12, <1>13

-----------------------------------------------------------------------------
(* The run and its heartbeat: what their steps have in common.             *)

\* The steps of a run are about a task that is present, unless it is deleted.
LEMMA WorkingPresent ==
  ASSUME NEW t \in Tasks, GateInvOf(t), LifeOf(t), stage[Run(t)] # "off"
  PROVE  /\ t \in created
         /\ \A q \in Requests : ~Starts(q, t)
         /\ t \notin deleted => Present(t)
<1>1. t \in created /\ ~Archived(t)
  BY DEF GateInvOf, Untouched, Archived, Unattended
<1> QED
  BY <1>1 DEF GateInvOf, StartedOnce, LifeOf

LEMMA OwnCall ==
  ASSUME CallInv, NEW t \in Tasks, NEW a \in {Run(t), Beat(t)}
  PROVE  a \in Actors /\ a \in Coroutines /\ a[2] = t /\ io[a].task \in {t, None}
<1>1. a \in Actors /\ a \in Coroutines /\ a[2] = t
  BY TaskActors DEF Run, Beat
<1> QED
  BY <1>1 DEF CallInv, CallFits

\* A present task is not looked up by its run or heartbeat.
LEMMA NotAsking ==
  ASSUME TypeInv, CallInv, NEW t \in Tasks, NEW a \in {Run(t), Beat(t)}, Present(t)
  PROVE  stage[a] # "ask"
<1> SUFFICES ASSUME stage[a] = "ask" PROVE FALSE
  OBVIOUS
<1>1. a \in Actors /\ io[a].task \in {t, None}
  BY OwnCall
<1>2. io[a].at \in LookUpCalls
  BY <1>1 DEF CallInv, CallFits, AwaitsLookUp
<1>3. io[a].task \in Tasks
  BY <1>1, <1>2 DEF TypeInv, CallOK, LookUpCalls
<1>4. io[a].task = t
  BY <1>1, <1>3, NoneAssumption
<1> QED
  BY <1>1, <1>2, <1>4 DEF Present, CallsOf, PersistCalls, LookUpCalls

LEMMA CoroutineRest ==
  ASSUME TypeInv, NEW t \in Tasks, t \in created, UNCHANGED <<row, created, deleted, boots>>,
         company' = company \/ company' = [company EXCEPT ![t] = TRUE],
         mem' = mem \/ \E o : mem' = [mem EXCEPT ![t] = o],
         cancelling' = cancelling \/ cancelling' = [cancelling EXCEPT ![t] = FALSE],
         phase' = phase
           \/ \E b \in {Run(t), Beat(t)}, p \in 0..Phases : phase' = [phase EXCEPT ![b] = p]
  PROVE  /\ RestStays(t)
         /\ cancelling'[t] => cancelling[t]
<1>1. ASSUME NEW u \in Tasks \ {t}
      PROVE  phase'[Run(u)] = phase[Run(u)] /\ phase'[Beat(u)] = phase[Beat(u)]
  BY TaskActors, DistinctActors DEF TypeInv, TypeOK
<1>2. ASSUME NEW u \in Tasks \ {t}
      PROVE  /\ mem'[u] = mem[u] /\ company'[u] = company[u] /\ cancelling'[u] = cancelling[u]
  BY DEF TypeInv, TypeOK
<1>3. (company[t] => company'[t]) /\ (cancelling'[t] => cancelling[t])
  BY DEF TypeInv, TypeOK
<1> QED
  BY <1>1, <1>2, <1>3 DEF RestStays

LEMMA OwnStarts ==
  ASSUME TypeInv, NEW t \in Tasks, NEW a \in {Run(t), Beat(t)}, StepOf(t, a)
  PROVE  \A q \in Requests : Starts(q, t)' <=> Starts(q, t)
<1> SUFFICES ASSUME NEW q \in Requests PROVE Starts(q, t)' <=> Starts(q, t)
  OBVIOUS
<1>1. Req(q) \in Actors /\ Req(q) \notin {Run(t), Beat(t)}
  BY RequestActor, DistinctActors
<1>2. CallStays(t, Req(q)) /\ StageStays(t, Req(q)) /\ io[Req(q)] \in Calls
  BY <1>1 DEF StepOf, TypeInv, TypeOK
<1>3. io'[Req(q)].task = io[Req(q)].task /\ stage'[Req(q)] = stage[Req(q)]
  BY <1>1, <1>2 DEF CallStays, StageStays, Calls
<1> QED
  BY <1>3 DEF Starts

\* Progress keeps pace with the run.
Paced(t) ==
  /\ stage[Run(t)] # "registered"
  /\ stage[Run(t)] \in Entering => mem[t].progress <= phase[Run(t)]
  /\ stage[Run(t)] \notin Entering => mem[t].progress = phase[Run(t)]
  /\ stage[Beat(t)] # "off" => phase[Beat(t)] = phase[Run(t)]

\* A step of a run or heartbeat, a, after which the run goes on.
Continues(t, a) ==
  /\ mem'[t] # None /\ mem'[t].status = mem[t].status /\ mem'[t].coro = mem[t].coro
  /\ mem'[t].result = mem[t].result
  /\ mem'[t].progress >= mem[t].progress
  /\ Plain(a) /\ io'[a] \in {Call("read", t), NoCall, io[a]}
  /\ \/ io'[a] = Call("read", t) /\ a # Beat(t)
     \/ /\ mem'[t].progress = mem[t].progress
        /\ Persisting(a, t) /\ a # Beat(t) => Persisting(a, t)'
  /\ Paced(t)'

LEMMA RunContinues ==
  ASSUME TypeInv, NEW t \in Tasks, NEW a \in {Run(t), Beat(t)}, GateInvOf(t), LifeOf(t),
         RacedStep(t), StepOf(t, a), Alive(t), Alive(t)', StoredIsTrue(t)',
         row'[t] = row[t], t \in deleted' <=> t \in deleted,
         cancelling'[t] => cancelling[t],
         stage'[Run(t)] = "unwind_cancelled"
           => cancelling[t] \/ stage[Run(t)] = "unwind_cancelled",
         Present(t) /\ t \notin deleted => Continues(t, a)
  PROVE  Lives(t)
<1>1. stage[Run(t)] # "off" /\ stage'[Run(t)] \notin {"off", "final", "done"}
  BY DEF Alive
<1>2. t \in created /\ t \in created' /\ \A q \in Requests : ~Starts(q, t) /\ ~Starts(q, t)'
  BY <1>1, WorkingPresent, OwnStarts DEF StepOf, RestStays
<1>3. ASSUME t \in deleted PROVE Lives(t)
  BY <1>2, <1>3, DeletedLives
<1>4. ASSUME t \notin deleted PROVE Lives(t)
  <2>1. Present(t) /\ Continues(t, a)
    BY <1>1, <1>4, WorkingPresent
  <2>2. /\ mem[t].coro /\ mem[t].status \in {"running", "paused", "cancelled"}
        /\ mem[t].result = "none" /\ mem[t] # None
    BY <2>1 DEF Present, StatusFits, ResultFits
  <2>3. StatusFits(t)'
    BY <1>1, <1>2, <2>1, <2>2 DEF Continues, Present, StatusFits, Unattended
  <2>4. ProgressFits(t)'
    BY <1>1, <1>2, <2>1 DEF Continues, Paced, ProgressFits
  <2>5. Persisted(t, a)
    BY <2>1, <2>2 DEF Continues, Persisted, RowOf
  <2>6. Present(t)'
    BY <2>1, <2>2, <2>3, <2>4, <2>5, TaskActors, PersistedPresent DEF Continues
  <2>7. LifeOf(t)'
    BY <1>2, <1>4, <2>6 DEF LifeOf
  <2>8. Moves(t)
    <3>1. WorkerOf(t) = "working" /\ WorkerOf(t)' = "working"
      BY <1>1 DEF WorkerOf, Alive
    <3>2. StatusOf(t)' = StatusOf(t)
      BY <2>1, <2>2 DEF StatusOf, Continues
    <3> QED
      BY <3>1, <3>2 DEF Moves
  <2>9. ProgressKept(t)
    BY <2>1 DEF ProgressKept, Continues
  <2> QED
    BY <2>7, <2>8, <2>9 DEF Lives
<1> QED
  BY <1>3, <1>4

\* A step after which the run has come to its end.
Concludes(t) ==
  /\ mem'[t] # None /\ mem'[t].status \in Settled
  /\ mem'[t].status = "cancelled" => mem[t].status = "cancelled"
  /\ mem'[t].status = "completed" => mem'[t].result # "none"
  /\ mem'[t].progress >= mem[t].progress
  /\ \/ io'[Run(t)] = Call("read", t)
     \/ io'[Run(t)] = NoCall /\ mem'[t] = mem[t] /\ ~Persisting(Run(t), t)

LEMMA RunConcludes ==
  ASSUME TypeInv, NEW t \in Tasks, GateInvOf(t), LifeOf(t), RacedStep(t), StepOf(t, Run(t)),
         stage[Run(t)] # "off", stage'[Run(t)] \in {"final", "done"}, stage'[Beat(t)] = "off",
         Plain(Run(t)), StoredIsTrue(t)', row'[t] = row[t], t \in deleted' <=> t \in deleted,
         cancelling'[t] => ~Alive(t) /\ cancelling[t],
         Present(t) /\ t \notin deleted => Concludes(t) /\ (Alive(t) \/ mem'[t] = mem[t])
  PROVE  Lives(t)
<1>1. t \in created /\ t \in created' /\ \A q \in Requests : ~Starts(q, t) /\ ~Starts(q, t)'
  BY WorkingPresent, OwnStarts DEF StepOf, RestStays
<1>2. ASSUME t \in deleted PROVE Lives(t)
  BY <1>1, <1>2, DeletedLives
<1>3. ASSUME t \notin deleted PROVE Lives(t)
  <2>1. Present(t) /\ Concludes(t) /\ (Alive(t) \/ mem'[t] = mem[t]) /\ mem[t] # None
    BY <1>3, WorkingPresent DEF Present
  <2>2. Alive(t) => mem[t].result = "none"
    BY <2>1 DEF Present, ResultFits
  <2>3. StatusFits(t)'
    BY <1>1, <2>1 DEF Concludes, Present, StatusFits, Unattended, Alive
  <2>4. ProgressFits(t)'
    BY <1>1 DEF ProgressFits, Alive, Entering
  <2>5. Persisted(t, Run(t))
    BY <2>1, <2>2, TaskActors DEF Concludes, Persisted
  <2>6. ~(Alive(t) \/ \E q \in Requests : Starts(q, t))'
    BY <1>1 DEF Alive
  <2>7. Present(t)'
    BY <2>1, <2>3, <2>4, <2>5, <2>6, TaskActors, PersistedPresent
  <2>8. LifeOf(t)'
    BY <1>1, <1>3, <2>7 DEF LifeOf
  <2>9. Moves(t)
    <3>1. /\ WorkerOf(t)' = "over"
          /\ WorkerOf(t) = IF Alive(t) THEN "working" ELSE "over"
      BY DEF WorkerOf, Alive
    <3>2. StatusOf(t) = mem[t].status /\ StatusOf(t)' = mem'[t].status
      BY <2>1 DEF StatusOf, Concludes
    <3> QED
      BY <2>1, <3>1, <3>2 DEF Moves, Concludes
  <2>10. ProgressKept(t)
    BY <2>1 DEF ProgressKept, Concludes
  <2> QED
    BY <2>8, <2>9, <2>10 DEF Lives
<1> QED
  BY <1>2, <1>3

\* What holds before, and around, every step of a run or heartbeat.
OwnStep(t) ==
  /\ GateInvOf(t) /\ LifeOf(t) /\ RacedStep(t)
  /\ stage[Run(t)] # "off"
  /\ UNCHANGED <<row, created, deleted, boots>>
  /\ cancelling' = cancelling \/ cancelling' = [cancelling EXCEPT ![t] = FALSE]

LEMMA OwnShape ==
  ASSUME TypeInv, CallInv, NEW t \in Tasks, NEW a \in {Run(t), Beat(t)}, NEW c, NEW s,
         RestStays(t), io' = [io EXCEPT ![a] = c], stage' = [stage EXCEPT ![a] = s],
         \/ s \in AwaitsPersist /\ c = Call("read", t)
         \/ s \in AwaitsLookUp /\ c = Call("load", t)
         \/ s \notin AwaitsPersist \cup AwaitsLookUp \cup {"deleting"} /\ c = NoCall
  PROVE  /\ StepOf(t, a) /\ Plain(a) /\ io'[a] = c /\ stage'[a] = s
         /\ \A b \in Actors \ {a} : stage'[b] = stage[b]
<1>1. a \in Actors /\ io[a].task \in {t, None}
  BY OwnCall
<1>2. StepAt(t, a, c, s)
  BY DEF StepAt
<1>3. StepOf(t, a) /\ io'[a] = c /\ stage'[a] = s
  BY <1>1, <1>2, StepAtShape
<1>4. \A b \in Actors \ {a} : stage'[b] = stage[b]
  BY <1>1 DEF TypeInv, TypeOK
<1> QED
  BY <1>1, <1>3, <1>4, PlainCall

\* The run or heartbeat awaits nothing afterwards, and the object is left alone.
LEMMA RunMovesLives ==
  ASSUME TypeInv, CallInv, NEW t \in Tasks, NEW a \in {Run(t), Beat(t)}, OwnStep(t), Alive(t),
         NEW s, s \notin AwaitsPersist \cup AwaitsLookUp \cup Entering \cup {"deleting", "registered"},
         s \notin {"off", "final", "done"} \/ a = Beat(t),
         io' = [io EXCEPT ![a] = NoCall], stage' = [stage EXCEPT ![a] = s],
         ~Persisting(a, t) \/ a = Beat(t),
         UNCHANGED <<mem, phase>>,
         company' = company \/ company' = [company EXCEPT ![t] = TRUE],
         s = "saved" => company'[t],
         s = "unwind_cancelled" => cancelling[t],
         stage[Run(t)] \notin Entering \cup {"registered"} \/ t \in deleted,
         a = Beat(t) => stage[a] # "off"
  PROVE  StepOf(t, a) /\ Lives(t)
<1>1. t \in created
  BY WorkingPresent DEF OwnStep
<1>2. RestStays(t) /\ (cancelling'[t] => cancelling[t])
  BY <1>1, CoroutineRest DEF OwnStep
<1>3. /\ StepOf(t, a) /\ Plain(a) /\ io'[a] = NoCall /\ stage'[a] = s
      /\ \A b \in Actors \ {a} : stage'[b] = stage[b]
  <2> DEFINE c == NoCall
  <2>1. s \notin AwaitsPersist \cup AwaitsLookUp \cup {"deleting"} /\ c = NoCall
    OBVIOUS
  <2>2. io' = [io EXCEPT ![a] = c]
    OBVIOUS
  <2> HIDE DEF c
  <2>3. StepOf(t, a)
    BY <1>2, <2>1, <2>2, OwnShape
  <2>5. Plain(a) /\ io'[a] = c
    BY <2>2, OwnCall, PlainCall
  <2>6. stage'[a] = s
    BY OwnCall DEF TypeInv, TypeOK
  <2>4. \A b \in Actors \ {a} : stage'[b] = stage[b]
    BY <1>2, <2>1, <2>2, OwnShape
  <2> QED
    BY <2>1, <2>3, <2>4, <2>5, <2>6
<1>4. Run(t) \in Actors /\ Beat(t) \in Actors /\ Run(t) # Beat(t)
  BY TaskActors
<1>5. Alive(t)'
  BY <1>3, <1>4 DEF Alive
<1>6. StoredIsTrue(t)'
  <2>1. stage'[Run(t)] = "saved" => company'[t]
    <3>1. CASE a = Run(t)
      BY <1>3, <3>1
    <3>2. CASE a = Beat(t)
      BY <1>2, <1>3, <1>4, <3>2 DEF OwnStep, LifeOf, StoredIsTrue, SaysStored, RestStays
    <3> QED
      BY <3>1, <3>2
  <2>2. Stored(mem'[t]) => SaysStored(t)
    BY DEF SaysStored
  <2> QED
    BY <1>3, <1>4, <2>1, <2>2, StoredKept, NoCallTyped DEF OwnStep, LifeOf
<1>7. ASSUME Present(t), t \notin deleted PROVE Continues(t, a)
  <2>1. /\ mem[t] # None /\ mem[t].progress = phase[Run(t)]
        /\ stage[Beat(t)] # "off" => phase[Beat(t)] = phase[Run(t)]
    BY <1>7 DEF Present, ProgressFits
  <2>2. Paced(t)'
    <3>1. stage'[Run(t)] \notin Entering \cup {"registered"}
      BY <1>3, <1>4, <1>7
    <3>2. stage'[Beat(t)] # "off" => stage[Beat(t)] # "off"
      BY <1>3, <1>4
    <3> QED
      BY <2>1, <3>1, <3>2 DEF Paced
  <2>3. mem[t].progress >= mem[t].progress
    BY <2>1, ObjectTyped DEF Objects
  <2> QED
    BY <1>3, <1>4, <2>1, <2>2, <2>3 DEF Continues
<1>8. stage'[Run(t)] = "unwind_cancelled" => cancelling[t] \/ stage[Run(t)] = "unwind_cancelled"
  BY <1>3, <1>4
<1> QED
  BY <1>2, <1>3, <1>5, <1>6, <1>7, <1>8, RunContinues DEF OwnStep

LEMMA StartCallLives ==
  ASSUME TypeInv, CallInv, NEW t \in Tasks, OwnStep(t), Alive(t), StartCall(t),
         stage[Beat(t)] = "off", io' = [io EXCEPT ![Run(t)] = NoCall], ~Persisting(Run(t), t),
         UNCHANGED <<mem, company>>,
         stage[Run(t)] \notin Entering \cup {"registered"} \/ t \in deleted
  PROVE  StepOf(t, Run(t)) /\ Lives(t)
<1>1. t \in created
  BY WorkingPresent DEF OwnStep
<1>2. RestStays(t) /\ (cancelling'[t] => cancelling[t])
  <2>1. phase[Run(t)] \in 0..Phases
    BY TaskActors DEF TypeInv, TypeOK
  <2>2. \E b \in {Run(t), Beat(t)}, p \in 0..Phases : phase' = [phase EXCEPT ![b] = p]
    BY <2>1 DEF StartCall
  <2> QED
    BY <1>1, <2>2, CoroutineRest DEF OwnStep
<1>3. Run(t) \in Actors /\ Beat(t) \in Actors /\ Run(t) # Beat(t)
  BY TaskActors
<1>4. /\ stage'[Run(t)] = "llm" /\ stage'[Beat(t)] = "sleep"
      /\ \A b \in Actors \ {Run(t), Beat(t)} : stage'[b] = stage[b]
      /\ phase'[Beat(t)] = phase[Run(t)] /\ phase'[Run(t)] = phase[Run(t)]
  BY <1>3, TaskActors DEF StartCall, TypeInv, TypeOK
<1>5. io'[Run(t)] = NoCall /\ Plain(Run(t))
  BY <1>3, PlainCall
<1>6. StepOf(t, Run(t))
  <2>1. \A u \in Tasks \ {t} : Run(t) # Run(u) /\ Run(t) # Beat(u)
    BY DEF Run, Beat
  <2>2. CallFits(Run(t))'
    BY <1>4, <1>5, NoCallTyped DEF CallFits, AwaitsPersist, AwaitsLookUp
  <2>3. ASSUME NEW b \in Actors \ {Run(t)} PROVE CallStays(t, b) /\ StageStays(t, b)
    <3>1. io[Beat(t)] = NoCall
      BY <1>3 DEF CallInv, CallFits, AwaitsPersist, AwaitsLookUp
    <3> QED
      BY <1>4, <1>5, <3>1 DEF CallStays, StageStays, Plain
  <2>4. io[Run(t)].task \in {t, None}
    BY OwnCall
  <2> QED
    BY <1>2, <1>5, <2>1, <2>2, <2>3, <2>4, NoCallTyped DEF StepOf
<1>7. StoredIsTrue(t)'
  <2>1. Stored(mem'[t]) => SaysStored(t)
    BY DEF SaysStored
  <2> QED
    BY <1>3, <1>4, <1>5, <1>6, <2>1, StoredKept, NoCallTyped DEF OwnStep, LifeOf
<1>8. ASSUME Present(t), t \notin deleted PROVE Continues(t, Run(t))
  <2>1. mem[t] # None /\ mem[t].progress = phase[Run(t)]
    BY <1>8 DEF Present, ProgressFits
  <2>2. Paced(t)'
    BY <1>4, <2>1 DEF Paced, Entering
  <2>3. mem[t].progress >= mem[t].progress
    BY <2>1, ObjectTyped DEF Objects
  <2> QED
    BY <1>3, <1>5, <2>1, <2>2, <2>3 DEF Continues
<1>9. Alive(t)'
  BY <1>4 DEF Alive
<1> QED
  BY <1>2, <1>4, <1>6, <1>7, <1>8, <1>9, RunContinues DEF OwnStep

-----------------------------------------------------------------------------
(* on_progress().                                                          *)

LEMMA ReportLives ==
  ASSUME TypeInv, CallInv, NEW t \in Tasks, NEW a \in {Run(t), Beat(t)}, NEW p \in 0..Phases,
         OwnStep(t), Alive(t), ReportProgress(a, p), ~Persisting(a, t), UNCHANGED company,
         phase' = phase \/ (a = Run(t) /\ phase' = [phase EXCEPT ![a] = p]),
         a = Run(t) => /\ stage[Beat(t)] = "off" /\ phase'[a] = p
                       /\ Present(t) => mem[t].progress <= p,
         a = Beat(t) => stage[a] # "off" /\ p = phase[a] /\ stage[Run(t)] \in InCall
  PROVE  StepOf(t, a) /\ Lives(t)
<1> DEFINE c == Call("read", t)
           o == [mem[t] EXCEPT !.progress = p]
<1>1. /\ a \in Actors /\ a[2] = t
      /\ Run(t) \in Actors /\ Beat(t) \in Actors /\ Run(t) # Beat(t)
  BY OwnCall, TaskActors
<1>2. /\ mem[t] # None /\ mem' = [mem EXCEPT ![t] = o]
      /\ stage' = [stage EXCEPT ![a] = "report"] /\ io' = [io EXCEPT ![a] = c]
  BY <1>1 DEF ReportProgress, Suspend
<1>3. /\ mem'[t] # None /\ mem'[t].status = mem[t].status /\ mem'[t].coro = mem[t].coro
      /\ mem'[t].result = mem[t].result /\ mem'[t].progress = p
  <2>1. mem[t] \in Objects /\ p \in 0..(Phases + 1)
    BY <1>2, ObjectTyped, BoundsAssumption
  <2>2. o \in Objects
    BY <2>1 DEF Objects
  <2>3. mem'[t] = o
    BY <1>2 DEF TypeInv, TypeOK
  <2> QED
    BY <2>1, <2>2, <2>3, NoneIsNothing DEF Objects
<1>4. t \in created
  BY WorkingPresent DEF OwnStep
<1>5. RestStays(t) /\ (cancelling'[t] => cancelling[t])
  <2>1. \E x : mem' = [mem EXCEPT ![t] = x]
    BY <1>2
  <2> QED
    BY <1>4, <2>1, CoroutineRest DEF OwnStep
<1> HIDE DEF o
<1>6. StepOf(t, a)
  <2>1. StepAt(t, a, c, "report")
    BY <1>2 DEF StepAt
  <2> QED
    BY <1>5, <2>1, StepAtShape, OwnCall DEF AwaitsPersist
<1>7. /\ Plain(a) /\ io'[a] = c /\ stage'[a] = "report"
      /\ \A b \in Actors \ {a} : stage'[b] = stage[b]
  BY <1>1, <1>2, PlainCall DEF TypeInv, TypeOK
<1>8. stage'[Run(t)] \in {"report", stage[Run(t)]} /\ c.source = None /\ c.data = None
  BY <1>1, <1>7, CallTyped
<1>9. StoredIsTrue(t)'
  <2>1. stage'[Run(t)] = "saved" => company'[t]
    BY <1>8 DEF OwnStep, LifeOf, StoredIsTrue, SaysStored
  <2>2. Stored(mem'[t]) => SaysStored(t)
    BY <1>2, <1>3 DEF Stored, SaysStored
  <2> QED
    BY <1>1, <1>6, <1>7, <1>8, <2>1, <2>2, StoredKept DEF OwnStep, LifeOf
<1>10. ASSUME Present(t), t \notin deleted PROVE Continues(t, a)
  <2>1. CASE a = Run(t)
    <3>1. stage'[Run(t)] = "report" /\ stage'[Beat(t)] = "off" /\ phase'[Run(t)] = p
      BY <1>1, <1>7, <2>1
    <3>2. Paced(t)'
      BY <1>3, <3>1 DEF Paced, Entering
    <3>3. mem'[t].progress >= mem[t].progress
      BY <1>2, <1>3, <1>10, <2>1, ObjectTyped DEF Objects
    <3> QED
      BY <1>1, <1>3, <1>7, <2>1, <3>2, <3>3 DEF Continues
  <2>2. CASE a = Beat(t)
    <3>1. /\ mem[t].progress = phase[Run(t)] /\ phase[Beat(t)] = phase[Run(t)]
      BY <1>10, <2>2 DEF Present, ProgressFits, InCall, Entering
    <3>2. stage'[Run(t)] = stage[Run(t)] /\ phase' = phase /\ mem'[t].progress = mem[t].progress
      BY <1>1, <1>3, <1>7, <2>2, <3>1
    <3>3. Paced(t)'
      BY <2>2, <3>1, <3>2 DEF Paced, Entering, InCall
    <3>4. mem'[t].progress >= mem[t].progress
      BY <1>2, <3>2, ObjectTyped DEF Objects
    <3> QED
      BY <1>3, <1>7, <2>2, <3>2, <3>3, <3>4 DEF Continues
  <2> QED
    BY <2>1, <2>2
<1>11. Alive(t)' /\ (stage'[Run(t)] = "unwind_cancelled" => stage[Run(t)] = "unwind_cancelled")
  BY <1>8 DEF Alive
<1> QED
  BY <1>5, <1>6, <1>9, <1>10, <1>11, RunContinues DEF OwnStep

LEMMA OnProgressLives ==
  ASSUME TypeInv, CallInv, NEW t \in Tasks, NEW a \in {Run(t), Beat(t)}, NEW p \in 0..Phases,
         OwnStep(t), Alive(t), OnProgress(a, p), io[a] = NoCall, UNCHANGED company,
         phase' = phase \/ (a = Run(t) /\ phase' = [phase EXCEPT ![a] = p]),
         a = Run(t) => /\ stage[Beat(t)] = "off" /\ phase'[a] = p
                       /\ Present(t) => mem[t].progress <= p,
         a = Beat(t) => stage[a] # "off" /\ p = phase[a] /\ stage[Run(t)] \in InCall
  PROVE  StepOf(t, a) /\ Lives(t)
<1>1. /\ a \in Actors /\ a[2] = t /\ ~Persisting(a, t)
      /\ Run(t) \in Actors /\ Beat(t) \in Actors /\ Run(t) # Beat(t)
  BY OwnCall, TaskActors, NoCallTyped DEF Persisting
<1>2. CASE mem[t] # None /\ ReportProgress(a, p)
  BY <1>1, <1>2, ReportLives
<1>3. ASSUME UNCHANGED mem,
             \/ mem[t] = None /\ Suspend(a, "ask", Call("load", t))
             \/ Suspend(a, "gate", NoCall)
      PROVE  StepOf(t, a) /\ Lives(t)
  <2>1. PICK s, c :
          /\ s \in {"ask", "gate"}
          /\ io' = [io EXCEPT ![a] = c] /\ stage' = [stage EXCEPT ![a] = s]
          /\ \/ s = "ask" /\ c = Call("load", t) /\ mem[t] = None
             \/ s = "gate" /\ c = NoCall
    BY <1>3 DEF Suspend
  <2>2. t \in created
    BY WorkingPresent DEF OwnStep
  <2>3. RestStays(t) /\ (cancelling'[t] => cancelling[t])
    BY <1>3, <2>2, CoroutineRest DEF OwnStep
  <2>4. StepOf(t, a)
    <3>1. StepAt(t, a, c, s)
      BY <2>1 DEF StepAt
    <3> QED
      BY <2>1, <2>3, <3>1, StepAtShape, OwnCall DEF AwaitsPersist, AwaitsLookUp
  <2>5. /\ Plain(a) /\ io'[a] = c /\ stage'[a] = s
        /\ \A b \in Actors \ {a} : stage'[b] = stage[b]
    BY <1>1, <2>1, PlainCall DEF TypeInv, TypeOK
  <2>6. stage'[Run(t)] \in {s, stage[Run(t)]} /\ c.source = None /\ c.data = None
    BY <1>1, <2>1, <2>5, CallTyped, NoCallTyped
  <2>7. StoredIsTrue(t)'
    <3>1. stage'[Run(t)] = "saved" => company'[t]
      BY <2>1, <2>6 DEF OwnStep, LifeOf, StoredIsTrue, SaysStored
    <3>2. Stored(mem'[t]) => SaysStored(t)
      BY <1>3 DEF SaysStored
    <3> QED
      BY <1>1, <2>4, <2>5, <2>6, <3>1, <3>2, StoredKept DEF OwnStep, LifeOf
  <2>8. ASSUME Present(t), t \notin deleted PROVE Continues(t, a)
    <3>1. s = "gate" /\ c = NoCall /\ mem[t] # None
      BY <2>1, <2>8 DEF Present
    <3>2. Paced(t)'
      <4>1. CASE a = Run(t)
        <5>1. stage'[Run(t)] = "gate" /\ stage'[Beat(t)] = "off" /\ phase'[Run(t)] = p
          BY <1>1, <2>5, <3>1, <4>1
        <5> QED
          BY <1>3, <2>8, <4>1, <5>1 DEF Paced, Entering
      <4>2. CASE a = Beat(t)
        <5>1. /\ mem[t].progress = phase[Run(t)] /\ phase[Beat(t)] = phase[Run(t)]
          BY <2>8, <4>2 DEF Present, ProgressFits, InCall, Entering
        <5>2. stage'[Run(t)] = stage[Run(t)] /\ phase' = phase
          BY <1>1, <2>5, <4>2
        <5> QED
          BY <1>3, <4>2, <5>1, <5>2 DEF Paced, Entering, InCall
      <4> QED
        BY <4>1, <4>2
    <3>3. mem[t].progress >= mem[t].progress
      BY <3>1, ObjectTyped DEF Objects
    <3> QED
      BY <1>1, <1>3, <2>5, <3>1, <3>2, <3>3 DEF Continues
  <2>9. Alive(t)' /\ (stage'[Run(t)] = "unwind_cancelled" => stage[Run(t)] = "unwind_cancelled")
    BY <2>1, <2>6 DEF Alive
  <2> QED
    BY <2>3, <2>4, <2>7, <2>8, <2>9, RunContinues DEF OwnStep
<1> QED
  BY <1>1, <1>2, <1>3 DEF OnProgress

LEMMA OwnStepHolds ==
  ASSUME TypeInv, GateInv, LifeInv, History, NEW t \in Tasks, stage[Run(t)] # "off",
         UNCHANGED <<row, created, deleted, boots>>,
         cancelling' = cancelling \/ cancelling' = [cancelling EXCEPT ![t] = FALSE]
  PROVE  OwnStep(t)
  BY HistoryRaced DEF OwnStep, GateInv, LifeInv

\* Who waits at the gate or for nothing awaits no call.
LEMMA NoCallAwaited ==
  ASSUME CallInv, NEW a \in Actors,
         stage[a] \notin AwaitsPersist \cup AwaitsLookUp \cup {"deleting"}
  PROVE  io[a] = NoCall /\ \A t \in Tasks : ~Persisting(a, t)
<1>1. io[a] = NoCall
  BY DEF CallInv, CallFits
<1> QED
  BY <1>1, NoCallTyped DEF Persisting

LEMMA EndReportLives ==
  ASSUME TypeInv, GateInv, CallInv, LifeInv, History, NEW a \in Coroutines, EndReport(a)
  PROVE  StepOf(a[2], a) /\ Lives(a[2])
<1>1. PICK t \in Tasks : t = a[2] /\ a \in {Run(t), Beat(t)}
  BY CoroutineCases
<1>2. /\ stage[a] = "report" /\ io[a].at = "back" /\ Reported(a)
      /\ io' = [io EXCEPT ![a] = NoCall]
      /\ UNCHANGED <<mem, row, company, cancelling, created, deleted, boots>>
  BY DEF EndReport, db, others, ids, bounds
<1>3. /\ Alive(t) /\ stage[a] # "off"
      /\ a = Run(t) => stage[Beat(t)] = "off"
      /\ a = Beat(t) => stage[Run(t)] \in InCall
  BY <1>1, <1>2, SuspendedAlive
<1>4. OwnStep(t)
  <2>1. stage[Run(t)] # "off"
    BY <1>3 DEF Alive
  <2> QED
    BY <1>2, <2>1, OwnStepHolds
<1>5. ~Persisting(a, t)
  BY <1>2 DEF Persisting
<1>6. CASE a = Run(t)
  <2>1. StartCall(t) /\ stage[Run(t)] \notin Entering \cup {"registered"}
    BY <1>1, <1>2, <1>6, TaskActors DEF Reported, Entering
  <2>2. StepOf(t, Run(t)) /\ Lives(t)
    BY <1>2, <1>3, <1>4, <1>5, <1>6, <2>1, StartCallLives
  <2> QED
    BY <1>1, <1>6, <2>2
<1>7. CASE a = Beat(t)
  <2> DEFINE s == "sleep"
  <2>1. stage' = [stage EXCEPT ![a] = s] /\ UNCHANGED phase
    BY <1>1, <1>2, <1>7, TaskActors DEF Reported
  <2>2. stage[Run(t)] \notin Entering \cup {"registered"}
    BY <1>3, <1>7 DEF InCall, Entering
  <2>3. s \notin AwaitsPersist \cup AwaitsLookUp \cup Entering \cup {"deleting", "registered"}
    BY DEF AwaitsPersist, AwaitsLookUp, Entering
  <2>4. s # "saved" /\ s # "unwind_cancelled"
    OBVIOUS
  <2> HIDE DEF s
  <2>5. StepOf(t, a) /\ Lives(t)
    BY <1>1, <1>2, <1>3, <1>4, <1>7, <2>1, <2>2, <2>3, <2>4, RunMovesLives
  <2> QED
    BY <1>1, <2>5
<1> QED
  BY <1>1, <1>6, <1>7

LEMMA PassGateLives ==
  ASSUME TypeInv, GateInv, CallInv, LifeInv, History, NEW a \in Coroutines, PassGate(a)
  PROVE  StepOf(a[2], a) /\ Lives(a[2])
<1>1. PICK t \in Tasks : t = a[2] /\ a \in {Run(t), Beat(t)}
  BY CoroutineCases
<1>2. /\ stage[a] \in {"woken", "ask"} /\ (stage[a] = "ask" => io[a].at = "loaded")
      /\ UNCHANGED <<row, company, cancelling, created, deleted, boots>>
  BY DEF PassGate, PastGate, db, others, ids, bounds
<1>3. /\ Alive(t) /\ stage[a] # "off"
      /\ a = Run(t) => stage[Beat(t)] = "off"
      /\ a = Beat(t) => stage[Run(t)] \in InCall
  BY <1>1, <1>2, SuspendedAlive
<1>4. stage[Run(t)] # "off"
  BY <1>3 DEF Alive
<1>5. OwnStep(t)
  BY <1>2, <1>4, OwnStepHolds
<1>6. ~Persisting(a, t) /\ a \in Actors
  <2>1. a \in Actors /\ (stage[a] = "woken" => ~Persisting(a, t))
    BY <1>1, OwnCall, NoCallAwaited DEF AwaitsPersist, AwaitsLookUp
  <2> QED
    BY <1>2, <2>1 DEF Persisting
<1>7. ASSUME ReportProgress(a, phase[a]), UNCHANGED phase PROVE StepOf(t, a) /\ Lives(t)
  <2> DEFINE p == phase[a]
  <2>1. p \in 0..Phases
    BY DEF TypeInv, TypeOK
  <2>2. a = Run(t) => phase'[a] = p /\ (Present(t) => mem[t].progress <= p)
    BY <1>2, <1>7 DEF Present, ProgressFits, Entering
  <2>3. p = phase[a]
    OBVIOUS
  <2> HIDE DEF p
  <2> QED
    BY <1>1, <1>2, <1>3, <1>5, <1>6, <1>7, <2>1, <2>2, <2>3, ReportLives
<1>8. ASSUME mem[t] = None, Reported(a), io' = [io EXCEPT ![a] = NoCall], UNCHANGED mem
      PROVE  StepOf(t, a) /\ Lives(t)
  <2>1. t \in deleted
    BY <1>4, <1>5, <1>8, WorkingPresent DEF OwnStep, Present
  <2>2. CASE a = Run(t)
    <3>1. StartCall(t)
      BY <1>1, <1>8, <2>2, TaskActors DEF Reported
    <3> QED
      BY <1>2, <1>3, <1>5, <1>6, <1>8, <2>1, <2>2, <3>1, StartCallLives
  <2>3. CASE a = Beat(t)
    <3> DEFINE s == "sleep"
    <3>1. stage' = [stage EXCEPT ![a] = s] /\ UNCHANGED phase
      BY <1>1, <1>8, <2>3, TaskActors DEF Reported
    <3>2. s \notin AwaitsPersist \cup AwaitsLookUp \cup Entering \cup {"deleting", "registered"}
      BY DEF AwaitsPersist, AwaitsLookUp, Entering
    <3>3. s # "saved" /\ s # "unwind_cancelled"
      OBVIOUS
    <3> HIDE DEF s
    <3> QED
      BY <1>1, <1>2, <1>3, <1>5, <1>8, <2>1, <2>3, <3>1, <3>2, <3>3, RunMovesLives
  <2> QED
    BY <1>1, <2>2, <2>3
<1> QED
  BY <1>1, <1>7, <1>8 DEF PassGate

LEMMA ReviveLives ==
  ASSUME TypeInv, GateInv, CallInv, LifeInv, History, NEW a \in Coroutines, Revive(a)
  PROVE  StepOf(a[2], a) /\ Lives(a[2])
<1>1. PICK t \in Tasks : t = a[2] /\ a \in {Run(t), Beat(t)}
  BY CoroutineCases
<1> DEFINE c == Call("read", t)
           d == io[a].data
           o == [Rebuilt(d) EXCEPT !.progress = phase[a]]
<1>2. /\ stage[a] = "ask" /\ io[a].at = "loaded" /\ d # None
      /\ mem' = [mem EXCEPT ![t] = o]
      /\ UNCHANGED <<row, company, cancelling, phase, created, deleted, boots>>
  BY <1>1 DEF Revive, db, work, others, ids, bounds
<1>3. Alive(t) /\ stage[Run(t)] # "off" /\ a \in Actors
  BY <1>1, <1>2, SuspendedAlive, CoroutineCases DEF Alive
<1>4. GateInvOf(t) /\ LifeOf(t)
  BY DEF GateInv, LifeInv
<1>5. t \in created /\ t \in deleted
  BY <1>1, <1>2, <1>3, <1>4, WorkingPresent, NotAsking
<1>6. RestStays(t)
  <2>1. \E x : mem' = [mem EXCEPT ![t] = x]
    BY <1>2
  <2> QED
    BY <1>2, <1>5, <2>1, CoroutineRest
<1>7. io[a].task = t
  <2>1. io[a].task \in {t, None}
    BY <1>1, OwnCall
  <2>2. io[a].task \in Tasks
    BY <1>2, <1>3 DEF TypeInv, CallOK
  <2> QED
    BY <2>1, <2>2, NoneAssumption
<1>8. mem'[t].result = d.result /\ d \in Rows
  <2>1. d \in Rows
    BY <1>2, <1>3 DEF TypeInv, CallOK
  <2>2. mem'[t] = o
    BY <1>2 DEF TypeInv, TypeOK
  <2> QED
    BY <2>1, <2>2 DEF Rebuilt
<1>9. Stored(mem'[t]) => SaysStored(t)
  BY <1>3, <1>7, <1>8, NoneIsNothing DEF Stored, SaysStored
<1>10. StepAt(t, a, c, "report")
  BY <1>1 DEF StepAt, Revive
<1> HIDE DEF d, o
<1>11. StepOf(t, a) /\ io'[a] = c /\ stage'[a] = "report"
  BY <1>1, <1>3, <1>6, <1>7, <1>10, StepAtShape DEF AwaitsPersist
<1>12. StoredIsTrue(t)'
  <2>1. stage'[Run(t)] = "saved" => company'[t]
    <3>1. stage'[Run(t)] = "saved" => stage[Run(t)] = "saved"
      BY <1>3, <1>10, <1>11, TaskActors, StepAtFacts
    <3> QED
      BY <1>2, <1>4, <3>1 DEF LifeOf, StoredIsTrue, SaysStored
  <2>2. c.source = None /\ c.data = None
    BY CallTyped
  <2> QED
    BY <1>2, <1>3, <1>4, <1>9, <1>11, <2>1, <2>2, StoredKept DEF LifeOf
<1>13. Lives(t)
  BY <1>2, <1>5, <1>12, DeletedLives
<1> QED
  BY <1>1, <1>11, <1>13

-----------------------------------------------------------------------------
(* The run: between two reports.                                           *)

LEMMA RunPassesLives ==
  ASSUME TypeInv, CallInv, NEW t \in Tasks, OwnStep(t),
         NEW s \in {"unwind", "backoff", "save", "saved", "unsaved", "unwind_cancelled"},
         stage[Run(t)] \in {"llm", "unwind", "save"},
         stage' = [stage EXCEPT ![Run(t)] = s], UNCHANGED <<mem, io, phase>>,
         company' = company \/ company' = [company EXCEPT ![t] = TRUE],
         s = "saved" => company'[t], s = "unwind_cancelled" => cancelling[t]
  PROVE  StepOf(t, Run(t)) /\ Lives(t)
<1>1. Run(t) \in Actors /\ Run(t) # Beat(t)
  BY TaskActors
<1>2. io[Run(t)] = NoCall /\ ~Persisting(Run(t), t)
  BY <1>1, NoCallAwaited DEF AwaitsPersist, AwaitsLookUp
<1>3. io' = [io EXCEPT ![Run(t)] = NoCall]
  BY <1>1, <1>2 DEF TypeInv, TypeOK
<1>4. Alive(t) /\ stage[Run(t)] \notin Entering \cup {"registered"}
  BY DEF Alive, Entering
<1>5. s \notin AwaitsPersist \cup AwaitsLookUp \cup Entering \cup {"deleting", "registered"}
      /\ s \notin {"off", "final", "done"}
  BY DEF AwaitsPersist, AwaitsLookUp, Entering
<1> QED
  BY <1>1, <1>2, <1>3, <1>4, <1>5, RunMovesLives

LEMMA PassingLives ==
  ASSUME TypeInv, GateInv, CallInv, LifeInv, History, NEW t \in Tasks,
         EndCall(t) \/ BackOff(t) \/ StartSave(t) \/ SaveCompany(t) \/ CancelCall(t)
  PROVE  StepOf(t, Run(t)) /\ Lives(t)
<1>1. /\ stage[Run(t)] \in {"llm", "unwind", "save"}
      /\ UNCHANGED <<mem, io, phase, row, created, deleted, boots>>
      /\ cancelling' = cancelling \/ cancelling' = [cancelling EXCEPT ![t] = FALSE]
  BY DEF EndCall, BackOff, StartSave, SaveCompany, CancelCall, Unwound, db, work, others,
         ids, bounds
<1>2. OwnStep(t)
  BY <1>1, OwnStepHolds
<1>3. CASE EndCall(t)
  <2>1. stage' = [stage EXCEPT ![Run(t)] = "unwind"] /\ company' = company
    BY <1>3 DEF EndCall, db
  <2> QED
    BY <1>1, <1>2, <2>1, RunPassesLives
<1>4. CASE BackOff(t)
  <2>1. stage' = [stage EXCEPT ![Run(t)] = "backoff"] /\ company' = company
    BY <1>4 DEF BackOff, db
  <2> QED
    BY <1>1, <1>2, <2>1, RunPassesLives
<1>5. CASE StartSave(t)
  <2>1. stage' = [stage EXCEPT ![Run(t)] = "save"] /\ company' = company
    BY <1>5 DEF StartSave, db
  <2> QED
    BY <1>1, <1>2, <2>1, RunPassesLives
<1>6. CASE SaveCompany(t)
  <2>1. \/ /\ stage' = [stage EXCEPT ![Run(t)] = "saved"]
           /\ company' = [company EXCEPT ![t] = TRUE] /\ company'[t]
        \/ stage' = [stage EXCEPT ![Run(t)] = "unsaved"] /\ company' = company
    BY <1>6 DEF SaveCompany, TypeInv, TypeOK
  <2> QED
    BY <1>1, <1>2, <2>1, RunPassesLives
<1>7. CASE CancelCall(t)
  <2>1. stage' = [stage EXCEPT ![Run(t)] = "unwind_cancelled"] /\ company' = company /\ cancelling[t]
    BY <1>7 DEF CancelCall, db
  <2> QED
    BY <1>1, <1>2, <2>1, RunPassesLives
<1> QED
  BY <1>3, <1>4, <1>5, <1>6, <1>7

LEMMA AgainLives ==
  ASSUME TypeInv, GateInv, CallInv, LifeInv, History, NEW t \in Tasks,
         Retry(t) \/ EndBackOff(t)
  PROVE  StepOf(t, Run(t)) /\ Lives(t)
<1>1. /\ stage[Run(t)] \in {"llm", "unwind", "backoff"} /\ StartCall(t)
      /\ UNCHANGED <<mem, io, row, company, created, deleted, boots>>
      /\ cancelling' = cancelling \/ cancelling' = [cancelling EXCEPT ![t] = FALSE]
  BY DEF Retry, EndBackOff, Unwound, db, others, ids, bounds
<1>2. stage[Beat(t)] = "off"
  BY BeatOff DEF Retry, EndBackOff, Unwound, InCall
<1>3. OwnStep(t)
  BY <1>1, OwnStepHolds
<1>4. Run(t) \in Actors
  BY TaskActors
<1>5. io[Run(t)] = NoCall /\ ~Persisting(Run(t), t)
  BY <1>1, <1>4, NoCallAwaited DEF AwaitsPersist, AwaitsLookUp
<1>6. io' = [io EXCEPT ![Run(t)] = NoCall]
  BY <1>1, <1>4, <1>5 DEF TypeInv, TypeOK
<1>7. Alive(t) /\ stage[Run(t)] \notin Entering \cup {"registered"}
  BY <1>1 DEF Alive, Entering
<1> QED
  BY <1>1, <1>2, <1>3, <1>5, <1>6, <1>7, StartCallLives

LEMMA PhaseLives ==
  ASSUME TypeInv, GateInv, CallInv, LifeInv, History, NEW t \in Tasks,
         StartRun(t) \/ NextPhase(t)
  PROVE  StepOf(t, Run(t)) /\ Lives(t)
<1>1. PICK p : /\ p = IF StartRun(t) THEN 1 ELSE phase[Run(t)] + 1
               /\ phase' = [phase EXCEPT ![Run(t)] = p] /\ OnProgress(Run(t), p)
               /\ StartRun(t) \/ phase[Run(t)] < Phases
  BY DEF StartRun, NextPhase
<1>2. /\ stage[Run(t)] \in {"registered", "llm", "unwind"}
      /\ StartRun(t) => stage[Run(t)] = "registered"
      /\ ~StartRun(t) => stage[Run(t)] \in {"llm", "unwind"} /\ stage[Beat(t)] = "off"
      /\ UNCHANGED <<row, company, created, deleted, boots>>
      /\ cancelling' = cancelling \/ cancelling' = [cancelling EXCEPT ![t] = FALSE]
  BY DEF StartRun, NextPhase, Unwound, db, others, ids, bounds
<1>3. Run(t) \in Actors /\ Run(t) \in Coroutines /\ Run(t) # Beat(t)
  BY TaskActors
<1>4. OwnStep(t) /\ Alive(t) /\ stage[Beat(t)] = "off"
  BY <1>2, OwnStepHolds, BeatOff DEF Alive, InCall
<1>5. io[Run(t)] = NoCall
  BY <1>2, <1>3, NoCallAwaited DEF AwaitsPersist, AwaitsLookUp
<1>6. phase[Run(t)] \in 0..Phases /\ Phases \in Nat \ {0}
  BY <1>3, BoundsAssumption DEF TypeInv, TypeOK
<1>7. p \in 0..Phases /\ phase'[Run(t)] = p
  BY <1>1, <1>3, <1>6 DEF TypeInv, TypeOK
<1>8. Present(t) => mem[t].progress <= p
  <2>1. CASE StartRun(t)
    BY <1>1, <1>2, <2>1 DEF Present, ProgressFits
  <2>2. CASE ~StartRun(t)
    <3>1. Present(t) => mem[t].progress = phase[Run(t)]
      BY <1>2, <1>4, <2>2 DEF Present, ProgressFits, Entering
    <3> QED
      BY <1>1, <1>6, <2>2, <3>1
  <2> QED
    BY <2>1, <2>2
<1> QED
  BY <1>1, <1>2, <1>3, <1>4, <1>5, <1>7, <1>8, OnProgressLives

-----------------------------------------------------------------------------
(* The heartbeat.                                                          *)

LEMMA HeartbeatLives ==
  ASSUME TypeInv, GateInv, CallInv, LifeInv, History, NEW t \in Tasks, Heartbeat(t)
  PROVE  StepOf(t, Beat(t)) /\ Lives(t)
<1> DEFINE p == phase[Beat(t)]
<1>1. /\ stage[Run(t)] = "llm" /\ stage[Beat(t)] = "sleep" /\ OnProgress(Beat(t), p)
      /\ UNCHANGED <<row, company, phase, cancelling, created, deleted, boots>>
  BY DEF Heartbeat, db, work, others, ids, bounds
<1>2. Beat(t) \in Actors /\ Beat(t) \in Coroutines /\ Run(t) # Beat(t)
  BY TaskActors
<1>3. OwnStep(t) /\ Alive(t) /\ stage[Run(t)] \in InCall
  BY <1>1, OwnStepHolds DEF Alive, InCall
<1>4. io[Beat(t)] = NoCall
  BY <1>1, <1>2, NoCallAwaited DEF AwaitsPersist, AwaitsLookUp
<1>5. p \in 0..Phases /\ p = phase[Beat(t)]
  BY <1>2 DEF TypeInv, TypeOK
<1> HIDE DEF p
<1> QED
  BY <1>1, <1>2, <1>3, <1>4, <1>5, OnProgressLives

LEMMA BeatEndsLives ==
  ASSUME TypeInv, GateInv, CallInv, LifeInv, History, NEW t \in Tasks,
         HeartbeatFails(t) \/ StopHeartbeat(t)
  PROVE  StepOf(t, Beat(t)) /\ Lives(t)
<1> DEFINE s == "off"
<1>1. /\ stage[Beat(t)] # "off"
      /\ io' = [io EXCEPT ![Beat(t)] = NoCall] /\ stage' = [stage EXCEPT ![Beat(t)] = s]
      /\ UNCHANGED <<mem, row, company, phase, cancelling, created, deleted, boots>>
  BY DEF HeartbeatFails, StopHeartbeat, Suspend, db, work, others, ids, bounds
<1>2. stage[Run(t)] \in InCall
  BY <1>1, BeatOn
<1>3. OwnStep(t) /\ Alive(t) /\ stage[Run(t)] \notin Entering \cup {"registered"}
  BY <1>1, <1>2, OwnStepHolds DEF Alive, InCall, Entering
<1>4. s \notin AwaitsPersist \cup AwaitsLookUp \cup Entering \cup {"deleting", "registered"}
      /\ s # "saved" /\ s # "unwind_cancelled"
  BY DEF AwaitsPersist, AwaitsLookUp, Entering
<1> HIDE DEF s
<1> QED
  BY <1>1, <1>3, <1>4, TaskActors, RunMovesLives

-----------------------------------------------------------------------------
(* The end of a run.                                                       *)

LEMMA ConcludeLives ==
  ASSUME TypeInv, CallInv, NEW t \in Tasks, OwnStep(t), Alive(t), stage[Beat(t)] = "off",
         NEW o, Conclude(t, o), UNCHANGED <<company, phase>>,
         mem[t] # None => o \in Objects /\ (o.result = "stored" => SaysStored(t)),
         Present(t) => /\ o.status \in Settled
                       /\ o.status = "cancelled" => mem[t].status = "cancelled"
                       /\ o.status = "completed" => o.result # "none"
                       /\ o.progress >= mem[t].progress
  PROVE  StepOf(t, Run(t)) /\ Lives(t)
<1>1. Run(t) \in Actors /\ Beat(t) \in Actors /\ Run(t) # Beat(t)
  BY TaskActors
<1>2. PICK s, c :
        /\ s \in {"final", "done"}
        /\ io' = [io EXCEPT ![Run(t)] = c] /\ stage' = [stage EXCEPT ![Run(t)] = s]
        /\ \/ /\ s = "final" /\ c = Call("read", t) /\ mem[t] # None
              /\ mem' = [mem EXCEPT ![t] = o]
           \/ s = "done" /\ c = NoCall /\ mem[t] = None /\ mem' = mem
  BY DEF Conclude, Suspend
<1>3. ~cancelling'[t]
  BY DEF Conclude, TypeInv, TypeOK
<1>4. t \in created
  BY WorkingPresent DEF OwnStep
<1>5. RestStays(t)
  <2>1. mem' = mem \/ \E x : mem' = [mem EXCEPT ![t] = x]
    BY <1>2
  <2> QED
    BY <1>4, <2>1, CoroutineRest DEF OwnStep
<1>6. StepOf(t, Run(t))
  <2>1. StepAt(t, Run(t), c, s)
    BY <1>2 DEF StepAt
  <2> QED
    BY <1>2, <1>5, <2>1, StepAtShape, OwnCall DEF AwaitsPersist, AwaitsLookUp
<1>7. /\ Plain(Run(t)) /\ io'[Run(t)] = c /\ stage'[Run(t)] = s /\ stage'[Beat(t)] = "off"
  BY <1>1, <1>2, PlainCall DEF TypeInv, TypeOK
<1>8. mem[t] # None => mem'[t] = o /\ o # None
  BY <1>2, NoneIsNothing DEF TypeInv, TypeOK
<1>9. StoredIsTrue(t)'
  <2>1. Stored(mem'[t]) => SaysStored(t)
    BY <1>2, <1>8 DEF Stored
  <2>2. c.source = None /\ c.data = None
    BY <1>2, CallTyped, NoCallTyped
  <2> QED
    BY <1>1, <1>2, <1>6, <1>7, <2>1, <2>2, StoredKept DEF OwnStep, LifeOf
<1>10. Present(t) => Concludes(t)
  BY <1>2, <1>7, <1>8 DEF Present, Concludes
<1> QED
  BY <1>2, <1>3, <1>6, <1>7, <1>9, <1>10, RunConcludes DEF OwnStep

LEMMA CompleteLives ==
  ASSUME TypeInv, GateInv, CallInv, LifeInv, History, NEW t \in Tasks, Complete(t)
  PROVE  StepOf(t, Run(t)) /\ Lives(t)
<1> DEFINE x == IF stage[Run(t)] = "saved" THEN "stored" ELSE "unstored"
           o == [mem[t] EXCEPT !.status = "completed", !.progress = Phases + 1, !.result = x]
<1>1. /\ stage[Run(t)] \in {"saved", "unsaved"} /\ Conclude(t, o)
      /\ UNCHANGED <<row, company, phase, created, deleted, boots>>
      /\ cancelling' = [cancelling EXCEPT ![t] = FALSE]
  BY DEF Complete, Conclude, db, others, ids, bounds
<1>2. OwnStep(t) /\ Alive(t) /\ stage[Beat(t)] = "off"
  BY <1>1, OwnStepHolds, BeatOff DEF Alive, InCall
<1>3. x \in Results /\ x # "none" /\ (x = "stored" => SaysStored(t)) /\ "completed" \in Settled
  BY DEF Results, SaysStored, Settled
<1> HIDE DEF x
<1>4. mem[t] # None => /\ o \in Objects /\ o.status = "completed" /\ o.result = x
                       /\ o.progress >= mem[t].progress
  <2> SUFFICES ASSUME mem[t] # None
               PROVE  /\ o \in Objects /\ o.status = "completed" /\ o.result = x
                      /\ o.progress >= mem[t].progress
    OBVIOUS
  <2>1. mem[t] \in Objects /\ "completed" \in Status /\ Phases + 1 \in 0..(Phases + 1)
    BY ObjectTyped, BoundsAssumption DEF Status, Settled
  <2>2. Phases + 1 >= mem[t].progress
    BY <2>1, BoundsAssumption DEF Objects
  <2> QED
    BY <1>3, <2>1, <2>2 DEF Objects
<1> HIDE DEF o
<1> QED
  BY <1>1, <1>2, <1>3, <1>4, ConcludeLives DEF Present

LEMMA StopsAsLives ==
  ASSUME TypeInv, CallInv, NEW t \in Tasks, OwnStep(t), Alive(t), stage[Beat(t)] = "off",
         NEW s \in {"failed", "cancelled"}, ConcludeAs(t, s), UNCHANGED <<company, phase>>,
         Present(t) /\ s = "cancelled" => mem[t].status = "cancelled"
  PROVE  StepOf(t, Run(t)) /\ Lives(t)
<1> DEFINE o == [mem[t] EXCEPT !.status = s]
<1>1. Conclude(t, o)
  BY DEF ConcludeAs
<1>2. s \in Settled
  BY DEF Settled
<1>3. mem[t] # None => /\ o \in Objects /\ o.status = s /\ o.result = mem[t].result
                       /\ o.progress >= mem[t].progress
  <2> SUFFICES ASSUME mem[t] # None
               PROVE  /\ o \in Objects /\ o.status = s /\ o.result = mem[t].result
                      /\ o.progress >= mem[t].progress
    OBVIOUS
  <2>1. mem[t] \in Objects /\ s \in Status
    BY <1>2, ObjectTyped DEF Status
  <2>2. mem[t].progress >= mem[t].progress
    BY <2>1 DEF Objects
  <2> QED
    BY <2>1, <2>2 DEF Objects
<1>4. mem[t] # None => (mem[t].result = "stored" => SaysStored(t))
  BY DEF SaysStored, Stored
<1> HIDE DEF o
<1> QED
  BY <1>1, <1>2, <1>3, <1>4, ConcludeLives DEF Present

LEMMA StopLives ==
  ASSUME TypeInv, GateInv, CallInv, LifeInv, History, NEW t \in Tasks, FailRun(t) \/ CancelRun(t)
  PROVE  StepOf(t, Run(t)) /\ Lives(t)
<1>1. /\ stage[Run(t)] \notin {"off", "final", "done"} /\ stage[Beat(t)] = "off"
      /\ UNCHANGED <<row, company, phase, created, deleted, boots>>
      /\ cancelling' = [cancelling EXCEPT ![t] = FALSE]
  BY BeatOff DEF FailRun, CancelRun, ConcludeAs, Conclude, PastGate, InCall, db, others, ids, bounds
<1>2. OwnStep(t) /\ Alive(t)
  BY <1>1, OwnStepHolds DEF Alive
<1>3. CASE FailRun(t)
  <2>1. ConcludeAs(t, "failed")
    BY <1>3 DEF FailRun
  <2> QED
    BY <1>1, <1>2, <2>1, StopsAsLives
<1>4. CASE CancelRun(t)
  <2>1. ConcludeAs(t, "cancelled") /\ (cancelling[t] \/ stage[Run(t)] = "unwind_cancelled")
    BY <1>4 DEF CancelRun
  <2>2. Present(t) => mem[t].status = "cancelled"
    BY <2>1 DEF Present, StatusFits
  <2> QED
    BY <1>1, <1>2, <2>1, <2>2, StopsAsLives
<1> QED
  BY <1>3, <1>4

LEMMA DoneLives ==
  ASSUME TypeInv, GateInv, CallInv, LifeInv, History, NEW t \in Tasks,
         CancelUnstarted(t) \/ EndRun(t)
  PROVE  StepOf(t, Run(t)) /\ Lives(t)
<1>1. Run(t) \in Actors /\ Beat(t) \in Actors /\ Run(t) # Beat(t)
  BY TaskActors
<1>2. /\ stage[Run(t)] \in {"registered", "final"}
      /\ stage[Run(t)] = "registered" => cancelling[t] /\ ~cancelling'[t]
      /\ stage[Run(t)] = "final" => io[Run(t)].at = "back" /\ cancelling'[t] = cancelling[t]
      /\ io' = [io EXCEPT ![Run(t)] = NoCall] /\ stage' = [stage EXCEPT ![Run(t)] = "done"]
      /\ UNCHANGED <<mem, row, company, phase, created, deleted, boots>>
      /\ cancelling' = cancelling \/ cancelling' = [cancelling EXCEPT ![t] = FALSE]
  BY DEF CancelUnstarted, EndRun, Suspend, db, work, others, ids, bounds, TypeInv, TypeOK
<1>3. OwnStep(t) /\ stage[Beat(t)] = "off" /\ stage[Run(t)] # "off"
      /\ (Alive(t) <=> stage[Run(t)] = "registered")
  BY <1>2, OwnStepHolds, BeatOff DEF Alive, InCall
<1>4. RestStays(t) /\ (cancelling'[t] => cancelling[t])
  <2>1. t \in created
    BY <1>3, WorkingPresent DEF OwnStep
  <2> QED
    BY <1>2, <1>3, <2>1, CoroutineRest DEF OwnStep
<1>5. StepOf(t, Run(t))
  <2>1. StepAt(t, Run(t), NoCall, "done")
    BY <1>2 DEF StepAt
  <2> QED
    BY <1>1, <1>4, <2>1, StepAtShape, OwnCall DEF AwaitsPersist, AwaitsLookUp
<1>6. Plain(Run(t)) /\ io'[Run(t)] = NoCall /\ stage'[Run(t)] = "done" /\ stage'[Beat(t)] = "off"
  BY <1>1, <1>2, <1>3, PlainCall DEF TypeInv, TypeOK
<1>7. ~Persisting(Run(t), t)
  <2>1. stage[Run(t)] = "registered" => ~Persisting(Run(t), t)
    BY <1>1, NoCallAwaited DEF AwaitsPersist, AwaitsLookUp
  <2> QED
    BY <1>2, <2>1 DEF Persisting
<1>8. StoredIsTrue(t)'
  <2>1. Stored(mem'[t]) => SaysStored(t)
    BY <1>2 DEF SaysStored
  <2> QED
    BY <1>1, <1>2, <1>3, <1>5, <1>6, <2>1, StoredKept, NoCallTyped DEF OwnStep, LifeOf
<1>9. ASSUME Present(t) PROVE Concludes(t)
  <2>1. mem[t].status \in Settled
        /\ (stage[Run(t)] = "registered" => mem[t].status = "cancelled")
    BY <1>2, <1>9 DEF Present, StatusFits, Settled
  <2>2. mem[t].status = "completed" => mem[t].result # "none"
    BY <1>9 DEF Present, ResultFits
  <2>3. mem[t] # None /\ mem[t].progress >= mem[t].progress
    BY <1>9, ObjectTyped DEF Present, Objects
  <2> QED
    BY <1>2, <1>6, <1>7, <2>1, <2>2, <2>3 DEF Concludes
<1> QED
  BY <1>2, <1>3, <1>4, <1>5, <1>6, <1>8, <1>9, RunConcludes DEF OwnStep

LEMMA GenerationLives ==
  ASSUME TypeInv, GateInv, CallInv, LifeInv, History, NEW t \in Tasks, GenerationStep(t)
  PROVE  StepOf(t, Run(t)) /\ Lives(t)
  BY PassingLives, AgainLives, PhaseLives, CompleteLives, StopLives, DoneLives DEF GenerationStep

-----------------------------------------------------------------------------
(* A restart.                                                              *)

LEMMA RecoveredRow ==
  ASSUME NEW r \in Rows
  PROVE  /\ Recovered(r) \in Rows /\ Recovered(r) # None /\ Recovered(r).result = r.result
         /\ r.status \in InProgress => Recovered(r).status = "failed"
         /\ r.status \notin InProgress => Recovered(r) = r
<1>1. r # None
  BY NoneIsNothing
<1>2. Recovered(r) \in Rows /\ Recovered(r).result = r.result
      /\ (r.status \in InProgress => Recovered(r).status = "failed")
      /\ (r.status \notin InProgress => Recovered(r) = r)
  BY <1>1 DEF Recovered, Rows, InProgress, Status, Settled, Unfinished
<1> QED
  BY <1>2, NoneIsNothing

\* What is left of a task: nothing in memory, or the object that its unfinished
\* row was made into.
LEMMA RestartEffect ==
  ASSUME TypeInv, Restart, NEW t \in Tasks
  PROVE  /\ stage'[Run(t)] = "off" /\ stage'[Beat(t)] = "off" /\ ~cancelling'[t]
         /\ UNCHANGED <<company, created, deleted>>
         /\ \A a \in Actors : io'[a] = NoCall
         /\ \A q \in Requests : ~Starts(q, t)'
         /\ \/ /\ row[t] # None /\ row[t].status \in Unfinished
               /\ mem'[t] # None /\ row'[t] # None /\ RowOf(mem'[t]) = row'[t]
               /\ mem'[t].status = row'[t].status /\ mem'[t].result = row[t].result
               /\ row'[t].result = row[t].result
               /\ row'[t].status = IF row[t].status = "pending" THEN "pending" ELSE "failed"
            \/ /\ row[t] # None => row[t].status \in Settled
               /\ mem'[t] = None /\ row'[t] = row[t]
<1>1. /\ stage'[Run(t)] = "off" /\ stage'[Beat(t)] = "off" /\ ~cancelling'[t]
      /\ UNCHANGED <<company, created, deleted>>
      /\ \A a \in Actors : io'[a] = NoCall
  BY TaskActors DEF Restart, ids, Run, Beat
<1>2. \A q \in Requests : ~Starts(q, t)'
  BY RequestActor DEF Restart, Starts
<1>3. /\ row'[t] = Recovered(row[t])
      /\ mem'[t] = IF row[t] # None /\ row[t].status \in Unfinished
                   THEN Rebuilt(Recovered(row[t])) ELSE None
      /\ row[t] \in Rows \cup {None}
  BY DEF Restart, TypeInv, TypeOK
<1>4. CASE row[t] # None /\ row[t].status \in Unfinished
  <2> DEFINE d == Recovered(row[t])
  <2>1. d \in Rows /\ d # None /\ d.result = row[t].result
        /\ d.status = IF row[t].status = "pending" THEN "pending" ELSE "failed"
    BY <1>3, <1>4, RecoveredRow DEF Unfinished, InProgress
  <2> HIDE DEF d
  <2>2. /\ Rebuilt(d) # None /\ Rebuilt(d).status = d.status /\ Rebuilt(d).result = d.result
        /\ RowOf(Rebuilt(d)) = d
    <3>1. RowOf(Rebuilt(d)) = [status |-> d.status, progress |-> d.progress, result |-> d.result]
      BY DEF RowOf, Rebuilt
    <3>2. d = [status |-> d.status, progress |-> d.progress, result |-> d.result]
      BY <2>1 DEF Rows
    <3> QED
      BY <2>1, <3>1, <3>2, RebuiltTyped, NoneIsNothing DEF Rebuilt
  <2>3. mem'[t] = Rebuilt(d) /\ row'[t] = d
    BY <1>3, <1>4 DEF d
  <2> QED
    BY <1>1, <1>2, <1>4, <2>1, <2>2, <2>3
<1>5. CASE row[t] = None \/ row[t].status \notin Unfinished
  <2>1. row[t] # None => row[t].status \in Settled
    BY <1>3, <1>5 DEF Rows, Status
  <2>2. row'[t] = row[t]
    BY <1>3, <2>1, RecoveredRow DEF Recovered, InProgress, Settled
  <2> QED
    BY <1>1, <1>2, <1>3, <1>5, <2>1, <2>2
<1> QED
  BY <1>4, <1>5

LEMMA RestartLives ==
  ASSUME TypeInv, LifeInv, Restart
  PROVE  CallInv' /\ LifeInv'
<1>1. CallInv'
  BY NoCallTyped DEF Restart, CallInv, CallFits, AwaitsPersist, AwaitsLookUp
<1>2. ASSUME NEW t \in Tasks PROVE LifeOf(t)'
  <2>1. LifeOf(t)
    BY DEF LifeInv
  <2>2. /\ stage'[Run(t)] = "off" /\ stage'[Beat(t)] = "off" /\ ~cancelling'[t]
        /\ UNCHANGED <<company, created, deleted>>
        /\ \A a \in Actors : io'[a].task # t
        /\ \A q \in Requests : ~Starts(q, t)'
    BY RestartEffect, NoCallTyped, NoneAssumption
  <2>3. StoredIsTrue(t)'
    <3>1. Stored(mem'[t]) \/ Stored(row'[t]) => Stored(row[t])
      BY RestartEffect DEF Stored
    <3> QED
      BY <2>1, <2>2, <3>1 DEF LifeOf, StoredIsTrue, SaysStored, Stored
  <2>4. ASSUME t \in created \ deleted PROVE Present(t)' \/ Archived(t)'
    <3>1. CASE row[t] # None /\ row[t].status \in Unfinished
      <4>1. /\ mem'[t] # None /\ row'[t] # None /\ RowOf(mem'[t]) = row'[t]
            /\ mem'[t].status \in {"pending", "failed"} /\ mem'[t].status = row'[t].status
            /\ mem'[t].result = row'[t].result
        BY <3>1, RestartEffect DEF Unfinished, Settled
      <4>2. CallsOf(t)' /\ StatusFits(t)' /\ ProgressFits(t)'
        BY <2>2, <4>1 DEF CallsOf, StatusFits, ProgressFits, Alive, Entering
      <4>3. ResultFits(t)' /\ RowFits(t)'
        BY <2>2, <4>1 DEF ResultFits, RowResult, RowFits, OnePersist, Persisting, Alive
      <4> QED
        BY <4>1, <4>2, <4>3 DEF Present
    <3>2. CASE ~(row[t] # None /\ row[t].status \in Unfinished)
      <4>1. mem'[t] = None /\ row'[t] = row[t] /\ (row[t] # None => row[t].status \in Settled)
        BY <3>2, RestartEffect
      <4>2. row[t] # None /\ row[t].status = "completed" => row[t].result # "none"
        BY <2>1, <2>4 DEF LifeOf, Present, ResultFits, RowResult, Archived
      <4> QED
        BY <2>2, <4>1, <4>2 DEF Archived, Unattended
    <3> QED
      BY <3>1, <3>2
  <2> QED
    BY <2>2, <2>3, <2>4 DEF LifeOf
<1> QED
  BY <1>1, <1>2 DEF LifeInv

-----------------------------------------------------------------------------
(* The invariant.                                                          *)

LEMMA InitLife == Init => CallInv /\ LifeInv
<1> SUFFICES ASSUME Init PROVE CallInv /\ LifeInv
  OBVIOUS
<1>1. CallInv
  BY NoCallTyped DEF Init, CallInv, CallFits, AwaitsPersist, AwaitsLookUp
<1>2. ASSUME NEW t \in Tasks PROVE LifeOf(t)
  <2>1. mem[t] = None /\ row[t] = None /\ stage[Run(t)] = "off"
    BY TaskActors DEF Init, Run
  <2>2. \A a \in Actors : io[a].task # t
    BY NoCallTyped, NoneAssumption DEF Init
  <2>3. StoredIsTrue(t)
    BY <2>1, <2>2 DEF StoredIsTrue, SaysStored, Stored
  <2> QED
    BY <2>3 DEF Init, LifeOf
<1> QED
  BY <1>1, <1>2 DEF LifeInv

\* Every step but a restart is one actor's, about one task.
LEMMA StepLives ==
  ASSUME TypeInv, GateInv, CallInv, LifeInv, Next
  PROVE  \/ Restart
         \/ \E t \in Tasks, a \in Actors : StepOf(t, a) /\ Lives(t)
<1>1. History
  BY DEF Next
<1>2. ASSUME NEW a \in Actors, DatabaseStep(a) \/ DatabaseFails(a)
      PROVE  \E t \in Tasks : StepOf(t, a) /\ Lives(t)
  <2>1. PICK t : t = io[a].task
    OBVIOUS
  <2>2. t \in Tasks
    BY <1>2, <2>1, DatabaseShape DEF Served
  <2>3. StepOf(t, a) /\ Lives(t)
    BY <1>1, <1>2, <2>1, DatabaseShape, DatabaseLives
  <2> QED
    BY <2>2, <2>3
<1>3. ASSUME NEW r \in Requests, RequestStep(r)
      PROVE  \E t \in Tasks : StepOf(t, Req(r)) /\ Lives(t)
  BY <1>1, <1>3, MarkRunningLives, RegisterLives, InstallLives, ReplyLives DEF RequestStep
<1>4. ASSUME NEW r \in Requests, NEW t \in Tasks, UserStep(r, t)
      PROVE  StepOf(t, Req(r)) /\ Lives(t)
  BY <1>1, <1>4, GenerateLives, ControlLives, DeleteLives, LookUpLives DEF UserStep
<1>5. ASSUME NEW a \in Coroutines, OnProgressStep(a)
      PROVE  StepOf(a[2], a) /\ Lives(a[2])
  BY <1>1, <1>5, PassGateLives, ReviveLives, EndReportLives DEF OnProgressStep
<1>6. ASSUME NEW t \in Tasks,
             GenerationStep(t) \/ Heartbeat(t) \/ HeartbeatFails(t) \/ StopHeartbeat(t)
      PROVE  \E a \in {Run(t), Beat(t)} : StepOf(t, a) /\ Lives(t)
  BY <1>1, <1>6, GenerationLives, HeartbeatLives, BeatEndsLives
<1>7. \/ Restart
      \/ \E a \in Actors : DatabaseStep(a) \/ DatabaseFails(a)
      \/ \E r \in Requests : RequestStep(r) \/ \E t \in Tasks : UserStep(r, t)
      \/ \E a \in Coroutines : OnProgressStep(a)
      \/ \E t \in Tasks :
           GenerationStep(t) \/ Heartbeat(t) \/ HeartbeatFails(t) \/ StopHeartbeat(t)
  BY DEF Next, Step
<1> QED
  BY <1>2, <1>3, <1>4, <1>5, <1>6, <1>7, TaskActors, RequestActor, CoroutineCases

LEMMA LifeInductive ==
  ASSUME TypeInv, GateInv, CallInv, LifeInv, [Next]_vars
  PROVE  CallInv' /\ LifeInv'
<1>1. ASSUME Next, NEW t \in Tasks, NEW a \in Actors, StepOf(t, a), Lives(t)
      PROVE  CallInv' /\ LifeInv'
  <2>1. History /\ boots' = boots
    BY <1>1 DEF Next, StepOf, RestStays
  <2>2. ASSUME NEW u \in Tasks PROVE LifeOf(u)'
    <3>1. CASE u = t
      BY <1>1, <3>1 DEF Lives
    <3>2. CASE u # t
      BY <1>1, <2>1, <3>2, StepOfAside, HistoryRaced, AsideKeeps DEF LifeInv
    <3> QED
      BY <3>1, <3>2
  <2> QED
    BY <1>1, <2>2, StepOfCalls DEF LifeInv
<1>2. CASE UNCHANGED vars
  <2>1. UNCHANGED <<mem, row, company, io, stage, phase, cancelling, created, deleted, raced>>
    BY <1>2 DEF vars, db, suspension, work, others, ids
  <2>2. CallInv'
    BY <2>1 DEF CallInv, CallFits
  <2>3. ASSUME NEW t \in Tasks PROVE LifeOf(t)'
    BY <2>1 DEF LifeInv, LifeOf, StoredIsTrue, SaysStored, Present, Archived, CallsOf,
       StatusFits, ProgressFits, ResultFits, RowResult, CallResult, RowFits, OnePersist,
       CallMatches, Persisting, Unattended, Alive, Starts, Creates
  <2> QED
    BY <2>2, <2>3 DEF LifeInv
<1> QED
  BY <1>1, <1>2, StepLives, RestartLives

-----------------------------------------------------------------------------
(* What a client may rely on.                                              *)

LEMMA KnownTask ==
  ASSUME GateInv, LifeInv, NEW t \in Tasks \ deleted, mem[t] # None \/ row[t] # None
  PROVE  Present(t) \/ Archived(t)
  BY DEF GateInv, GateInvOf, Untouched, LifeInv, LifeOf

LEMMA LifeSafe ==
  ASSUME TypeInv, GateInv, LifeInv
  PROVE  ActiveHasWorker /\ CompletedAccountsForCompany /\ QuietRowMatches
<1>1. ASSUME NEW t \in Tasks \ deleted, mem[t] # None, mem[t].status \in InProgress
      PROVE  Alive(t) \/ Starting(t)
  <2>1. CASE Present(t)
    <3>1. stage[Run(t)] \notin {"final", "done"} /\ ~Unattended(t)
      BY <1>1, <2>1 DEF Present, StatusFits, InProgress, Settled
    <3> QED
      BY <3>1 DEF Alive, Unattended, Starting, Starts
  <2>2. CASE Archived(t)
    <3>1. row[t].status = mem[t].status /\ row[t].status \in Settled
      BY <1>1, <2>2 DEF Archived, RowOf
    <3> QED
      BY <1>1, <3>1 DEF InProgress, Settled
  <2> QED
    BY <1>1, <2>1, <2>2, KnownTask
<1>2. ASSUME NEW t \in Tasks, NEW x \in {mem[t], row[t]} \ {None}
      PROVE  /\ x.status = "completed" /\ t \notin deleted => x.result # "none"
             /\ x.result = "stored" => company[t]
  <2>1. x.result = "stored" => company[t]
    BY <1>2 DEF LifeInv, LifeOf, StoredIsTrue, SaysStored, Stored
  <2>2. ASSUME x.status = "completed", t \notin deleted PROVE x.result # "none"
    <3>1. CASE Present(t)
      BY <1>2, <2>2, <3>1 DEF Present, ResultFits, RowResult
    <3>2. CASE Archived(t)
      BY <1>2, <2>2, <3>2 DEF Archived, RowOf
    <3> QED
      BY <1>2, <2>2, <3>1, <3>2, KnownTask
  <2> QED
    BY <2>1, <2>2
<1>3. ASSUME NEW t \in Tasks \ (deleted \cup raced), mem[t] # None,
             ~\E a \in Actors : Persisting(a, t)
      PROVE  row[t] = RowOf(mem[t])
  <2>1. CASE Present(t)
    BY <1>3, <2>1 DEF Present, RowFits
  <2>2. CASE Archived(t)
    BY <1>3, <2>2 DEF Archived
  <2> QED
    BY <1>3, <2>1, <2>2, KnownTask
<1> QED
  BY <1>1, <1>2, <1>3
  DEF ActiveHasWorker, CompletedAccountsForCompany, QuietRowMatches, Exists

LEMMA LifeInvariant == Spec => [](TypeInv /\ GateInv /\ CallInv /\ LifeInv)
<1>1. Init => TypeInv /\ AttemptsLeft /\ GateInv /\ CallInv /\ LifeInv
  BY InitTyped, InitGate, InitLife
<1>2. TypeInv /\ AttemptsLeft /\ GateInv /\ CallInv /\ LifeInv /\ [Next]_vars
        => TypeInv' /\ AttemptsLeft' /\ GateInv' /\ CallInv' /\ LifeInv'
  BY TypeInductive, GateInductive, LifeInductive
<1> QED
  BY <1>1, <1>2, PTL DEF Spec

\* A task shown as running or paused has a run that will finish it, or a generate
\* request about to register one: no order of requests, lookups, faults and
\* restarts leaves a task in progress that nobody works on.
THEOREM NoOrphan == Spec => []ActiveHasWorker
<1>1. TypeInv /\ GateInv /\ CallInv /\ LifeInv => ActiveHasWorker
  BY LifeSafe
<1> QED
  BY <1>1, LifeInvariant, PTL

\* Whatever persists overlap, a task says that its company is stored only when it
\* is, and a completed task says what became of its company.
THEOREM CompanyIsAccountedFor == Spec => []CompletedAccountsForCompany
<1>1. TypeInv /\ GateInv /\ CallInv /\ LifeInv => CompletedAccountsForCompany
  BY LifeSafe
<1> QED
  BY <1>1, LifeInvariant, PTL

\* When no persist of a task is in flight its row is what memory says, unless two
\* of them overlapped, one failed, or the task was deleted.
THEOREM RowFollowsMemory == Spec => []QuietRowMatches
<1>1. TypeInv /\ GateInv /\ CallInv /\ LifeInv => QuietRowMatches
  BY LifeSafe
<1> QED
  BY <1>1, LifeInvariant, PTL

-----------------------------------------------------------------------------
(* What a step may never do.                                               *)

\* In one process a step either moves t or leaves it aside.
LEMMA StepOnTask ==
  ASSUME TypeInv, GateInv, CallInv, LifeInv, Next, boots' = boots, NEW t \in Tasks
  PROVE  Lives(t) \/ Aside(t)
<1>1. ~Restart
  BY DEF Restart, TypeInv, TypeOK
<1>2. PICK u \in Tasks, a \in Actors : StepOf(u, a) /\ Lives(u)
  BY <1>1, StepLives
<1> QED
  BY <1>2, StepOfAside

\* Whoever works on a task that is not deleted finds it running, paused or cancelled.
LEMMA WorkersTask ==
  ASSUME TypeInv, GateInv, LifeInv, NEW t \in Tasks \ deleted, mem[t] # None,
         WorkerOf(t) = "working"
  PROVE  mem[t].status \in {"running", "paused", "cancelled"}
<1>1. Alive(t)
  BY DEF WorkerOf, Alive
<1>2. ~Archived(t)
  BY <1>1 DEF Archived, Unattended, Alive
<1> QED
  BY <1>1, <1>2, KnownTask DEF Present, StatusFits

\* Once a task is completed or failed, no request, heartbeat, lookup or late
\* cancellation changes its status before a restart.
THEOREM OutcomeStays == Spec => OutcomeIsFinal
<1>1. ASSUME TypeInv, GateInv, CallInv, LifeInv, TypeInv', Next, NEW t \in Tasks \ deleted,
             Exists(t), mem[t].status \in {"completed", "failed"}, Stays(t)
      PROVE  mem'[t].status = mem[t].status
  <2>1. mem[t] # None /\ mem'[t] # None /\ boots' = boots
    BY <1>1 DEF Exists, Stays
  <2>2. StatusOf(t) = mem[t].status /\ StatusOf(t)' = mem'[t].status
    BY <2>1 DEF StatusOf
  <2>3. mem'[t].status # "absent" /\ mem[t].status # "absent"
    BY <1>1, <2>1 DEF TypeInv, TypeOK, Objects, Status, Unfinished, Settled
  <2>4. WorkerOf(t) # "working"
    BY <1>1, <2>1, WorkersTask
  <2>5. CASE Moves(t)
    BY <1>1, <2>2, <2>3, <2>4, <2>5 DEF Moves, Unfinished
  <2> QED
    BY <1>1, <2>1, <2>5, StepOnTask DEF Lives, Aside
<1>2. TypeInv /\ GateInv /\ CallInv /\ LifeInv /\ TypeInv' /\ [Next]_vars
        => [\A t \in Tasks \ deleted :
              Exists(t) /\ mem[t].status \in {"completed", "failed"} /\ Stays(t)
                => mem'[t].status = mem[t].status]_vars
  BY <1>1
<1> QED
  BY <1>2, LifeInvariant, PTL DEF Spec, OutcomeIsFinal

\* Whatever run, heartbeat and endpoints report concurrently, the progress of a
\* task does not go back before a restart.
THEOREM ProgressHolds == Spec => ProgressNeverRegresses
<1>1. ASSUME TypeInv, GateInv, CallInv, LifeInv, Next, NEW t \in Tasks \ deleted,
             Exists(t), Stays(t)
      PROVE  mem'[t].progress >= mem[t].progress
  <2>1. mem[t] # None /\ mem'[t] # None /\ boots' = boots
    BY <1>1 DEF Exists, Stays
  <2>2. mem[t].progress \in Nat
    BY <1>1, <2>1, ObjectTyped DEF Objects
  <2> QED
    BY <1>1, <2>1, <2>2, StepOnTask DEF Lives, Aside, ProgressKept
<1>2. TypeInv /\ GateInv /\ CallInv /\ LifeInv /\ [Next]_vars
        => [\A t \in Tasks \ deleted :
              Exists(t) /\ Stays(t) => mem'[t].progress >= mem[t].progress]_vars
  BY <1>1
<1> QED
  BY <1>2, LifeInvariant, PTL DEF Spec, ProgressNeverRegresses

\* Nothing is left of t, and nobody holds what could bring it back.
Gone(t) ==
  /\ mem[t] = None /\ row[t] = None
  /\ \A a \in Actors : ~Persisting(a, t)
                      /\ ~(io[a].task = t /\ io[a].at = "loaded" /\ io[a].data # None)

LEMMA GoneInDatabase ==
  ASSUME TypeInv, NEW t \in deleted, Gone(t), NEW a \in Actors,
         DatabaseStep(a) \/ DatabaseFails(a)
  PROVE  mem'[t] = None /\ row'[t] = None
<1>1. row \in [Tasks -> Rows \cup {None}] /\ t \in Tasks
  BY DEF TypeInv, TypeOK
<1>2. CASE Commit(a)
  <2>1. io[a].task # t
    BY <1>2 DEF Commit, Gone, Persisting
  <2> QED
    BY <1>1, <1>2, <2>1 DEF Commit, Gone
<1>3. CASE Read(a) \/ Copy(a) \/ Load(a) \/ Erase(a) \/ DatabaseFails(a)
  BY <1>1, <1>3 DEF Read, Copy, Load, Erase, DatabaseFails, Gone, db
<1> QED
  BY <1>2, <1>3 DEF DatabaseStep

LEMMA GoneForRequests ==
  ASSUME TypeInv, NEW t \in deleted, Gone(t), NEW r \in Requests,
         RequestStep(r) \/ \E u \in Tasks : UserStep(r, u)
  PROVE  mem'[t] = None /\ row'[t] = None
<1>1. mem \in [Tasks -> Objects \cup {None}] /\ t \in Tasks /\ t \in created
  BY DEF TypeInv, TypeOK
<1>2. Req(r) \in Actors
  BY RequestActor
<1>3. CASE MarkRunning(r) \/ Register(r) \/ Reply(r)
  BY <1>1, <1>3 DEF MarkRunning, Register, Reply, Gone, db
<1>4. CASE Install(r)
  <2>1. io[Req(r)].task # t
    BY <1>2, <1>4 DEF Install, Gone
  <2> QED
    BY <1>1, <1>4, <2>1 DEF Install, Gone, db
<1>5. ASSUME NEW u \in Tasks, UserStep(r, u)
      PROVE  mem'[t] = None /\ row'[t] = None
  <2>1. CASE Generate(r, u) \/ Delete(r, u) \/ LookUp(r, u, "replying") \/ LookUp(r, u, "listing")
    BY <1>1, <2>1 DEF Generate, Delete, LookUp, Gone, db
  <2>2. CASE Pause(r, u) \/ Resume(r, u) \/ Cancel(r, u)
    BY <1>1, <2>2 DEF Pause, Resume, Cancel, Gone, db
  <2> QED
    BY <1>5, <2>1, <2>2 DEF UserStep
<1> QED
  BY <1>3, <1>4, <1>5 DEF RequestStep

LEMMA GoneForCoroutines ==
  ASSUME TypeInv, CallInv, NEW t \in deleted, Gone(t),
         \/ \E a \in Coroutines : OnProgressStep(a)
         \/ \E u \in Tasks : \/ GenerationStep(u) \/ Heartbeat(u)
                            \/ HeartbeatFails(u) \/ StopHeartbeat(u)
  PROVE  mem'[t] = None /\ row'[t] = None
<1>1. mem \in [Tasks -> Objects \cup {None}] /\ t \in Tasks
  BY DEF TypeInv, TypeOK
<1>2. ASSUME NEW a \in Coroutines, OnProgressStep(a)
      PROVE  mem'[t] = None /\ row'[t] = None
  <2>1. CASE PassGate(a) \/ EndReport(a)
    BY <1>1, <2>1 DEF PassGate, ReportProgress, EndReport, Gone, db
  <2>2. CASE Revive(a)
    <3>1. a \in Actors /\ io[a].task \in {a[2], None} /\ io[a].at = "loaded"
      BY <2>2 DEF Revive, Actors, CallInv, CallFits
    <3>2. io[a].task = a[2]
      BY <3>1, NoneAssumption DEF TypeInv, CallOK
    <3>3. a[2] # t
      BY <2>2, <3>1, <3>2 DEF Revive, Gone
    <3> QED
      BY <1>1, <2>2, <3>3 DEF Revive, Gone, db
  <2> QED
    BY <1>2, <2>1, <2>2 DEF OnProgressStep
<1>3. ASSUME NEW u \in Tasks, NEW a \in {Run(u), Beat(u)}, NEW p, OnProgress(a, p)
      PROVE  mem'[t] = None
  BY <1>1, <1>3 DEF OnProgress, ReportProgress, Gone, Run, Beat
<1>4. ASSUME NEW u \in Tasks, NEW o, Conclude(u, o)
      PROVE  mem'[t] = None
  BY <1>1, <1>4 DEF Conclude, Gone
<1>5. ASSUME NEW u \in Tasks, GenerationStep(u)
      PROVE  mem'[t] = None /\ row'[t] = None
  <2>1. CASE StartRun(u) \/ NextPhase(u)
    BY <1>3, <2>1 DEF StartRun, NextPhase, Gone, db
  <2>2. CASE Complete(u) \/ FailRun(u) \/ CancelRun(u)
    BY <1>4, <2>2 DEF Complete, FailRun, CancelRun, ConcludeAs, Gone, db
  <2>3. CASE \/ EndCall(u) \/ Retry(u) \/ BackOff(u) \/ EndBackOff(u) \/ StartSave(u)
             \/ SaveCompany(u) \/ CancelCall(u) \/ CancelUnstarted(u) \/ EndRun(u)
    BY <2>3 DEF EndCall, Retry, BackOff, EndBackOff, StartSave, SaveCompany, CancelCall,
       CancelUnstarted, EndRun, Gone, db
  <2> QED
    BY <1>5, <2>1, <2>2, <2>3 DEF GenerationStep
<1>6. ASSUME NEW u \in Tasks, Heartbeat(u) \/ HeartbeatFails(u) \/ StopHeartbeat(u)
      PROVE  mem'[t] = None /\ row'[t] = None
  BY <1>3, <1>6 DEF Heartbeat, HeartbeatFails, StopHeartbeat, Gone, db
<1> QED
  BY <1>2, <1>5, <1>6

\* A task that has been deleted, and that no persist or lookup in flight holds, is
\* not brought back: not by its run or heartbeat, nor by a request or a restart.
THEOREM DeletedStaysGone == Spec => GoneIsGone
<1>1. ASSUME TypeInv, CallInv, Next, NEW t \in deleted, Gone(t)
      PROVE  mem'[t] = None /\ row'[t] = None
  <2>1. CASE Restart
    BY <1>1, <2>1 DEF Restart, Recovered, Gone, TypeInv, TypeOK
  <2> QED
    BY <1>1, <2>1, GoneInDatabase, GoneForRequests, GoneForCoroutines DEF Next, Step
<1>2. TypeInv /\ GateInv /\ CallInv /\ LifeInv /\ [Next]_vars
        => [\A t \in deleted :
              /\ mem[t] = None /\ row[t] = None
              /\ \A a \in Actors : ~Persisting(a, t)
                                  /\ ~(io[a].task = t /\ io[a].at = "loaded" /\ io[a].data # None)
              => mem'[t] = None /\ row'[t] = None]_vars
  BY <1>1 DEF Gone
<1> QED
  BY <1>2, LifeInvariant, PTL DEF Spec, GoneIsGone

-----------------------------------------------------------------------------
(* The registry implements TaskLifecycle.                                  *)

LEMMA AbstractTask ==
  ASSUME NEW t \in Tasks
  PROVE  /\ AbstractStatus[t] = StatusOf(t) /\ AbstractStatus'[t] = StatusOf(t)'
         /\ AbstractWorker[t] = WorkerOf(t) /\ AbstractWorker'[t] = WorkerOf(t)'
<1>1. Starting(t) <=> \E q \in Requests : Starts(q, t)
  BY DEF Starting, Starts
<1>2. Starting(t)' <=> \E q \in Requests : Starts(q, t)'
  BY DEF Starting, Starts
<1> QED
  BY <1>1, <1>2 DEF AbstractStatus, AbstractWorker, StatusOf, WorkerOf

LEMMA AbstractFunctions ==
  /\ AbstractStatus = [t \in Tasks |-> AbstractStatus[t]]
  /\ AbstractWorker = [t \in Tasks |-> AbstractWorker[t]]
  /\ AbstractStatus' = [t \in Tasks |-> AbstractStatus'[t]]
  /\ AbstractWorker' = [t \in Tasks |-> AbstractWorker'[t]]
  BY DEF AbstractStatus, AbstractWorker

\* A step about t changes the abstract status and worker of t alone.
LEMMA AbstractStepOf ==
  ASSUME TypeInv, NEW t \in Tasks, NEW a \in Actors, StepOf(t, a)
  PROVE  /\ AbstractStatus' = [AbstractStatus EXCEPT ![t] = StatusOf(t)']
         /\ AbstractWorker' = [AbstractWorker EXCEPT ![t] = WorkerOf(t)']
<1>1. ASSUME NEW u \in Tasks \ {t}
      PROVE  AbstractStatus'[u] = AbstractStatus[u] /\ AbstractWorker'[u] = AbstractWorker[u]
  <2>1. Aside(u)
    BY StepOfAside
  <2> QED
    BY <2>1, AsideStarts, AbstractTask
<1>2. AbstractStatus'[t] = StatusOf(t)' /\ AbstractWorker'[t] = WorkerOf(t)'
  BY AbstractTask
<1> QED
  BY <1>1, <1>2, AbstractFunctions

LEMMA AbstractTyped ==
  ASSUME TypeInv, NEW t \in Tasks
  PROVE  /\ StatusOf(t) \in Unfinished \cup Settled \cup {"absent"}
         /\ WorkerOf(t) \in {"none", "starting", "working", "over"}
         /\ mem[t] # None => StatusOf(t) # "absent"
  BY ObjectTyped DEF StatusOf, WorkerOf, Objects, Status, Unfinished, Settled

\* Only a delete request deletes.
LEMMA OnlyDeleteDeletes ==
  ASSUME Next
  PROVE  deleted' = deleted \/ \E r \in Requests, t \in Tasks : Delete(r, t)
<1>1. ASSUME NEW a \in Actors, DatabaseStep(a) \/ DatabaseFails(a) PROVE deleted' = deleted
  BY <1>1 DEF DatabaseStep, Read, Copy, Commit, Load, Erase, DatabaseFails, others, ids
<1>2. ASSUME NEW r \in Requests, RequestStep(r) PROVE deleted' = deleted
  BY <1>2 DEF RequestStep, MarkRunning, Register, Install, Reply, others, ids
<1>3. ASSUME NEW r \in Requests, NEW t \in Tasks, UserStep(r, t), ~Delete(r, t)
      PROVE  deleted' = deleted
  BY <1>3 DEF UserStep, Generate, Pause, Resume, Cancel, LookUp, others, ids
<1>4. ASSUME NEW a \in Coroutines, OnProgressStep(a) PROVE deleted' = deleted
  BY <1>4 DEF OnProgressStep, PassGate, Revive, EndReport, others, ids
<1>5. ASSUME NEW t \in Tasks, GenerationStep(t) PROVE deleted' = deleted
  BY <1>5 DEF GenerationStep, StartRun, EndCall, Retry, BackOff, EndBackOff, NextPhase,
     StartSave, SaveCompany, Complete, FailRun, CancelCall, CancelRun, CancelUnstarted,
     EndRun, others, ids
<1>6. ASSUME NEW t \in Tasks, Heartbeat(t) \/ HeartbeatFails(t) \/ StopHeartbeat(t)
      PROVE  deleted' = deleted
  BY <1>6 DEF Heartbeat, HeartbeatFails, StopHeartbeat, others, ids
<1>7. Restart => deleted' = deleted
  BY DEF Restart, ids
<1> QED
  BY <1>1, <1>2, <1>3, <1>4, <1>5, <1>6, <1>7 DEF Next, Step

LEMMA DeleteForgets ==
  ASSUME TypeInv, CallInv, LifeInv, NEW r \in Requests, NEW t \in Tasks, Delete(r, t)
  PROVE  Lifecycle!Forget(t)
<1>1. StepOf(t, Req(r)) /\ Req(r) \in Actors
  BY DeleteLives, RequestActor
<1>2. StepAt(t, Req(r), Call("erase", t), "deleting") /\ stage[Req(r)] = "idle"
  BY DEF StepAt, Delete, Known, Idle
<1>3. Calm(t)
  BY <1>2, ControlCalm DEF Delete, work
<1>4. WorkerOf(t)' = WorkerOf(t)
  BY <1>3, CalmFacts
<1>5. StatusOf(t)' = "absent" /\ deleted' = deleted \cup {t}
  BY DEF Delete, StatusOf, TypeInv, TypeOK
<1>6. AbstractWorker' = AbstractWorker
  BY <1>1, <1>4, AbstractStepOf, AbstractTask, AbstractFunctions
<1> QED
  BY <1>1, <1>5, <1>6, AbstractStepOf DEF Lifecycle!Forget

LEMMA MovesImplement ==
  ASSUME TypeInv, TypeInv', NEW t \in Tasks, NEW a \in Actors, StepOf(t, a), Moves(t),
         deleted' = deleted
  PROVE  [Lifecycle!Next]_(Lifecycle!lifecycle)
<1> DEFINE s == StatusOf(t)
           w == WorkerOf(t)
<1>1. Lifecycle!Becomes(t, StatusOf(t)', WorkerOf(t)')
  BY AbstractStepOf DEF Lifecycle!Becomes
<1>2. AbstractStatus[t] = StatusOf(t) /\ AbstractWorker[t] = WorkerOf(t)
  BY AbstractTask
<1>3. CASE StatusOf(t)' = s /\ WorkerOf(t)' = w
  <2>1. AbstractStatus' = AbstractStatus /\ AbstractWorker' = AbstractWorker
    BY <1>2, <1>3, AbstractStepOf, AbstractFunctions
  <2> QED
    BY <2>1 DEF Lifecycle!lifecycle
<1>4. CASE t \in deleted
  <2>1. /\ StatusOf(t)' \in Unfinished \cup Settled \cup {"absent"}
        /\ WorkerOf(t)' \in {"none", "starting", "working", "over"}
    BY DEF StatusOf, WorkerOf, TypeInv, TypeOK, Objects, Status, Unfinished, Settled
  <2>2. Lifecycle!Wander(t)
    BY <1>1, <1>4, <2>1
    DEF Lifecycle!Wander, Lifecycle!Unfinished, Lifecycle!Settled, Unfinished, Settled
  <2> QED
    BY <2>2 DEF Lifecycle!Next
<1>5. CASE \E x \in Settled : /\ w = "working" /\ (x = "cancelled" => s = x)
                              /\ StatusOf(t)' = x /\ WorkerOf(t)' = "over"
  <2>1. PICK x \in Settled : Lifecycle!Conclude(t, x)
    BY <1>1, <1>2, <1>5 DEF Lifecycle!Conclude
  <2> QED
    BY <2>1 DEF Lifecycle!Next, Lifecycle!Settled, Settled
<1>6. CASE \E x \in Settled : /\ s = "absent" /\ w = "none"
                              /\ StatusOf(t)' = x /\ WorkerOf(t)' = "none"
  <2>1. PICK x \in Settled : Lifecycle!Recall(t, x)
    BY <1>1, <1>2, <1>6 DEF Lifecycle!Recall
  <2> QED
    BY <2>1 DEF Lifecycle!Next, Lifecycle!Settled, Settled
<1>7. CASE \/ /\ s = "absent" /\ w = "none"
              /\ StatusOf(t)' = "pending" /\ WorkerOf(t)' = "starting"
           \/ /\ w = "starting" /\ s \in {"pending", "cancelled"}
              /\ StatusOf(t)' = "running" /\ WorkerOf(t)' = "starting"
           \/ /\ w = "starting" /\ s \in {"running", "paused", "cancelled"}
              /\ StatusOf(t)' = s /\ WorkerOf(t)' = "working"
  <2>1. Lifecycle!Submit(t) \/ Lifecycle!Begin(t) \/ Lifecycle!Launch(t)
    BY <1>1, <1>2, <1>7 DEF Lifecycle!Submit, Lifecycle!Begin, Lifecycle!Launch
  <2> QED
    BY <2>1 DEF Lifecycle!Next
<1>8. CASE \/ s = "running" /\ StatusOf(t)' = "paused" /\ WorkerOf(t)' = w
           \/ s = "paused" /\ StatusOf(t)' = "running" /\ WorkerOf(t)' = w
           \/ s \in Unfinished /\ StatusOf(t)' = "cancelled" /\ WorkerOf(t)' = w
  <2>1. Lifecycle!Pause(t) \/ Lifecycle!Resume(t) \/ Lifecycle!Cancel(t)
    BY <1>1, <1>2, <1>8
    DEF Lifecycle!Pause, Lifecycle!Resume, Lifecycle!Cancel, Lifecycle!Unfinished, Unfinished
  <2> QED
    BY <2>1 DEF Lifecycle!Next
<1> QED
  BY <1>3, <1>4, <1>5, <1>6, <1>7, <1>8 DEF Moves

LEMMA RestartReboots ==
  ASSUME TypeInv, GateInv, LifeInv, Restart
  PROVE  Lifecycle!Reboot
<1>1. ASSUME NEW t \in Tasks PROVE AbstractWorker'[t] = "none"
  BY RestartEffect, AbstractTask DEF WorkerOf
<1>2. ASSUME NEW t \in Tasks \ deleted
      PROVE  AbstractStatus'[t] \in {"absent", "pending", "failed"}
  BY RestartEffect, AbstractTask DEF StatusOf
<1>3. ASSUME NEW t \in Tasks \ deleted, AbstractStatus'[t] = "pending"
      PROVE  AbstractStatus[t] # "absent"
  <2>1. row[t] # None /\ row[t].status \in Unfinished
    BY <1>3, RestartEffect, AbstractTask DEF StatusOf
  <2>2. mem[t] # None
    BY <2>1, KnownTask DEF Present, Archived, Unfinished, Settled
  <2> QED
    BY <2>2, AbstractTask, AbstractTyped
<1>4. AbstractWorker' = [t \in Tasks |-> "none"]
  BY <1>1, AbstractFunctions
<1> QED
  BY <1>2, <1>3, <1>4 DEF Lifecycle!Reboot, Restart, ids

\* The registry, its rows, endpoints, runs and heartbeats together keep what
\* TaskLifecycle promises a client: a final outcome, work that starts once, a cancel
\* that only a request makes, and nothing in progress after a restart.
THEOREM RegistryImplementsLifecycle == Spec => ImplementsLifecycle
<1>1. Init => Lifecycle!Init
  <2> SUFFICES ASSUME Init PROVE Lifecycle!Init
    OBVIOUS
  <2>1. ASSUME NEW t \in Tasks
        PROVE  AbstractStatus[t] = "absent" /\ AbstractWorker[t] = "none"
    BY TaskActors, RequestActor, AbstractTask DEF Init, StatusOf, WorkerOf, Starts, Run
  <2> QED
    BY <2>1, AbstractFunctions DEF Init, Lifecycle!Init
<1>2. ASSUME TypeInv, GateInv, CallInv, LifeInv, TypeInv', Next
      PROVE  [Lifecycle!Next]_(Lifecycle!lifecycle)
  <2>1. ASSUME NEW r \in Requests, NEW t \in Tasks, Delete(r, t)
        PROVE  Lifecycle!Next
    BY <1>2, <2>1, DeleteForgets DEF Lifecycle!Next
  <2>2. ASSUME Restart PROVE Lifecycle!Next
    BY <1>2, <2>2, RestartReboots DEF Lifecycle!Next
  <2>3. ASSUME deleted' = deleted, ~Restart PROVE [Lifecycle!Next]_(Lifecycle!lifecycle)
    BY <1>2, <2>3, StepLives, MovesImplement DEF Lives
  <2> QED
    BY <1>2, <2>1, <2>2, <2>3, OnlyDeleteDeletes
<1>3. UNCHANGED vars => UNCHANGED Lifecycle!lifecycle
  <2> SUFFICES ASSUME UNCHANGED vars PROVE UNCHANGED Lifecycle!lifecycle
    OBVIOUS
  <2>1. UNCHANGED <<mem, io, stage, deleted>>
    BY DEF vars, suspension, others, ids
  <2> QED
    BY <2>1 DEF Lifecycle!lifecycle, AbstractStatus, AbstractWorker, Starting
<1>4. TypeInv /\ GateInv /\ CallInv /\ LifeInv /\ TypeInv' /\ [Next]_vars
        => [Lifecycle!Next]_(Lifecycle!lifecycle)
  BY <1>2, <1>3
<1> QED
  BY <1>1, <1>4, LifeInvariant, PTL DEF Spec, ImplementsLifecycle, Lifecycle!Spec

=============================================================================
