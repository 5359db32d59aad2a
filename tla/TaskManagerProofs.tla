-------------------------- MODULE TaskManagerProofs --------------------------
(***************************************************************************)
(* Proofs about TaskManager, for any number of tasks, requests, phases,    *)
(* retries, restarts and database faults.                                  *)
(***************************************************************************)
EXTENDS TaskProperties, TLAPS

-----------------------------------------------------------------------------
(* The inductive strengthening of TypeOK: what a database call is about.   *)

CallOK(c) ==
  /\ c.at # "none" => c.task \in Tasks
  /\ c.at \in {"copy", "loaded"} => c.data \in Rows \cup {None}
  /\ c.at = "insert" => c.data \in Rows
  /\ c.at = "update" => c.data \in Changes

\* A persist that has not copied its object yet can still find it.
SourceOK(a) ==
  io[a].at \in {"read", "copy"} /\ io[a].source = None => mem[io[a].task] # None

TypeInv ==
  /\ TypeOK
  /\ \A a \in Actors : CallOK(io[a]) /\ SourceOK(a)

-----------------------------------------------------------------------------
(* Actors, their stages, and the values the model is built from.           *)

LEMMA TaskActors ==
  ASSUME NEW t \in Tasks
  PROVE  /\ Run(t) \in Coroutines /\ Beat(t) \in Coroutines
         /\ Run(t) \in Actors /\ Beat(t) \in Actors
         /\ Run(t) # Beat(t)
         /\ StagesOf(Run(t)) = RunStages
         /\ StagesOf(Beat(t)) = BeatStages
         /\ Run(t)[2] = t /\ Beat(t)[2] = t
         /\ Run(t)[1] = "run" /\ Beat(t)[1] = "heartbeat"
  BY DEF Run, Beat, Coroutines, Actors, StagesOf

LEMMA RequestActor ==
  ASSUME NEW r \in Requests
  PROVE  /\ Req(r) \in Actors
         /\ StagesOf(Req(r)) = RequestStages
         /\ Req(r)[1] = "request" /\ Req(r)[2] = r
  BY DEF Req, Coroutines, Actors, StagesOf

LEMMA ActorCases ==
  ASSUME NEW a \in Actors
  PROVE  \/ \E t \in Tasks : a = Run(t) \/ a = Beat(t)
         \/ \E r \in Requests : a = Req(r)
  BY DEF Run, Beat, Req, Coroutines, Actors

LEMMA CoroutineCases ==
  ASSUME NEW a \in Coroutines
  PROVE  /\ a \in Actors /\ a[2] \in Tasks
         /\ \/ a = Run(a[2]) /\ a[1] = "run"
            \/ a = Beat(a[2]) /\ a[1] = "heartbeat"
  BY DEF Run, Beat, Coroutines, Actors

LEMMA DistinctActors ==
  ASSUME NEW t \in Tasks, NEW u \in Tasks, NEW r \in Requests, NEW q \in Requests
  PROVE  /\ Run(t) # Beat(u) /\ Run(t) # Req(r) /\ Beat(t) # Req(r)
         /\ Run(t) = Run(u) => t = u
         /\ Beat(t) = Beat(u) => t = u
         /\ Req(r) = Req(q) => r = q
  BY DEF Run, Beat, Req

LEMMA NoneIsNothing == None \notin Rows /\ None \notin Objects
  BY NoneAssumption

LEMMA RebuiltTyped ==
  ASSUME NEW r \in Rows
  PROVE  /\ Rebuilt(r) \in Objects
         /\ Rebuilt(r).status = r.status /\ Rebuilt(r).open /\ ~Rebuilt(r).coro
  BY DEF Rebuilt, Rows, Objects

LEMMA RowOfTyped ==
  ASSUME NEW o \in Objects
  PROVE  RowOf(o) \in Rows /\ RowOf(o).status = o.status
  BY DEF RowOf, Rows, Objects

LEMMA NewTaskTyped == NewTask \in Objects /\ NewTask.open /\ NewTask.status = "pending"
  BY BoundsAssumption DEF NewTask, Objects, Status, Unfinished, Results

LEMMA CallTyped ==
  ASSUME NEW t \in Tasks, NEW at \in {"read", "load", "erase", "back", "failed"}
  PROVE  /\ Call(at, t) \in Calls /\ CallOK(Call(at, t))
         /\ Call(at, t).at = at /\ Call(at, t).task = t
         /\ Call(at, t).source = None /\ Call(at, t).data = None
  BY DEF Call, NoCall, Calls, CallOK

LEMMA NoCallTyped ==
  /\ NoCall \in Calls /\ CallOK(NoCall)
  /\ NoCall.at = "none" /\ NoCall.task = None
  /\ NoCall.source = None /\ NoCall.data = None
  BY DEF NoCall, Calls, CallOK

-----------------------------------------------------------------------------
(* Type correctness.                                                       *)

MemTyped == mem \in [Tasks -> Objects \cup {None}]
IoTyped ==
  /\ io \in [Actors -> Calls]
  /\ \A a \in Actors : CallOK(io[a]) /\ SourceOK(a)
StageTyped ==
  /\ stage \in [Actors -> RunStages \cup BeatStages \cup RequestStages]
  /\ \A a \in Actors : stage[a] \in StagesOf(a)
RestTyped ==
  /\ row \in [Tasks -> Rows \cup {None}]
  /\ company \in [Tasks -> BOOLEAN]
  /\ phase \in [Coroutines -> 0..Phases]
  /\ attempt \in [Tasks -> 0..Retries]
  /\ cancelling \in [Tasks -> BOOLEAN]
  /\ created \in SUBSET Tasks
  /\ deleted \in SUBSET created
  /\ raced \in SUBSET Tasks
  /\ boots \in 0..MaxBoots
  /\ faults \in 0..MaxFaults

LEMMA TypeParts == TypeInv <=> MemTyped /\ IoTyped /\ StageTyped /\ RestTyped
  BY DEF TypeInv, TypeOK, MemTyped, IoTyped, StageTyped, RestTyped

LEMMA TypePartsPrimed ==
  TypeInv' <=> MemTyped' /\ IoTyped' /\ StageTyped' /\ RestTyped'
  BY DEF TypeInv, TypeOK, MemTyped, IoTyped, StageTyped, RestTyped

\* Tasks that stay where they are, or appear, keep every persist's object.
Grows == \A t \in Tasks : mem[t] # None => mem'[t] # None

\* One actor gets another call.
LEMMA IoStep ==
  ASSUME IoTyped, Grows, NEW a \in Actors, NEW c \in Calls, CallOK(c),
         c.at \in {"read", "copy"} /\ c.source = None => mem'[c.task] # None,
         io' = [io EXCEPT ![a] = c]
  PROVE  IoTyped'
<1>1. io' \in [Actors -> Calls]
  BY DEF IoTyped
<1>2. ASSUME NEW b \in Actors PROVE CallOK(io'[b]) /\ SourceOK(b)'
  <2>1. CASE b = a
    BY <2>1 DEF IoTyped, SourceOK
  <2>2. CASE b # a
    <3>1. io'[b] = io[b]
      BY <2>2 DEF IoTyped
    <3>2. io[b].at # "none" => io[b].task \in Tasks
      BY DEF IoTyped, CallOK
    <3> QED
      BY <3>1, <3>2 DEF IoTyped, SourceOK, Grows
  <2> QED
    BY <2>1, <2>2
<1> QED
  BY <1>1, <1>2 DEF IoTyped

\* The object of one task goes, or is replaced, and one actor gets a call.
LEMMA OrphanStep ==
  ASSUME IoTyped, MemTyped, NEW t \in Tasks,
         \A u \in Tasks \ {t} : mem'[u] = mem[u],
         NEW a \in Actors, NEW c \in Calls, CallOK(c),
         c.at \in {"read", "copy"} /\ c.source = None => mem'[c.task] # None,
         io' = [Orphaned(t) EXCEPT ![a] = c]
  PROVE  IoTyped'
<1>1. ASSUME NEW b \in Actors, b # a
      PROVE  io'[b] \in Calls /\ CallOK(io'[b]) /\ SourceOK(b)'
  <2>1. io'[b] = Orphaned(t)[b] /\ io[b] \in Calls
    BY <1>1 DEF Orphaned, IoTyped
  <2>2. CASE io[b].task = t /\ io[b].at \in {"read", "copy"} /\ io[b].source = None
    <3>1. mem[t] # None
      BY <2>2 DEF IoTyped, SourceOK
    <3>2. RowOf(mem[t]) \in Rows
      BY <3>1, RowOfTyped DEF MemTyped
    <3>3. io'[b] = [io[b] EXCEPT !.source = RowOf(mem[t])]
      BY <2>1, <2>2 DEF Orphaned
    <3>4. io'[b] \in Calls /\ io'[b].source # None
          /\ io'[b].at = io[b].at /\ io'[b].task = t /\ io'[b].data = io[b].data
      BY <2>1, <2>2, <3>2, <3>3, NoneIsNothing DEF Calls
    <3>5. CallOK(io[b])
      BY DEF IoTyped
    <3> QED
      BY <2>2, <3>4, <3>5 DEF CallOK, SourceOK
  <2>3. CASE ~(io[b].task = t /\ io[b].at \in {"read", "copy"} /\ io[b].source = None)
    <3>1. io'[b] = io[b]
      BY <2>1, <2>3 DEF Orphaned
    <3>2. io[b].at # "none" => io[b].task \in Tasks
      BY DEF IoTyped, CallOK
    <3> QED
      BY <2>1, <2>3, <3>1, <3>2 DEF IoTyped, SourceOK
  <2> QED
    BY <2>2, <2>3
<1>2. io'[a] = c /\ CallOK(io'[a]) /\ SourceOK(a)'
  BY DEF SourceOK, Orphaned
<1>3. io' = [b \in Actors |-> io'[b]]
  BY DEF Orphaned
<1> QED
  BY <1>1, <1>2, <1>3 DEF IoTyped

\* One actor is suspended elsewhere.
LEMMA StageStep ==
  ASSUME StageTyped, NEW a \in Actors, NEW s \in StagesOf(a),
         stage' = [stage EXCEPT ![a] = s]
  PROVE  StageTyped'
<1>1. s \in RunStages \cup BeatStages \cup RequestStages
  BY ActorCases, TaskActors, RequestActor
<1> QED
  BY <1>1 DEF StageTyped

\* Waiters that are moved from the gate stay at stages of theirs.
LEMMA GateStages ==
  ASSUME NEW t \in Tasks, StageTyped
  PROVE  /\ \A a \in Actors : Opened(t)[a] \in StagesOf(a) /\ Stranded(t)[a] \in StagesOf(a)
         /\ Opened(t) = [a \in Actors |-> Opened(t)[a]]
         /\ Stranded(t) = [a \in Actors |-> Stranded(t)[a]]
  BY TaskActors DEF StageTyped, Opened, Stranded, RunStages, BeatStages, RequestStages

LEMMA SuspendStep ==
  ASSUME TypeInv, NEW a \in Actors, NEW s \in StagesOf(a), NEW c \in Calls,
         CallOK(c), c.at \in {"read", "copy"} /\ c.source = None => mem'[c.task] # None,
         Suspend(a, s, c), Grows, MemTyped', RestTyped'
  PROVE  TypeInv'
<1>1. IoTyped'
  BY IoStep, TypeParts DEF Suspend
<1>2. StageTyped'
  BY StageStep, TypeParts DEF Suspend
<1> QED
  BY <1>1, <1>2, TypePartsPrimed

\* The usual case: an actor asks for a persist of a task that is in memory.
LEMMA AskStep ==
  ASSUME TypeInv, Grows, NEW a \in Actors, NEW t \in Tasks, mem'[t] # None,
         io' = [io EXCEPT ![a] = Call("read", t)]
  PROVE  IoTyped'
<1> DEFINE c == Call("read", t)
<1>1. c \in Calls /\ CallOK(c) /\ c.task = t
  BY CallTyped
<1> HIDE DEF c
<1>2. io' = [io EXCEPT ![a] = c]
  BY DEF c
<1> QED
  BY <1>1, <1>2, IoStep, TypeParts

LEMMA SuspendToPersist ==
  ASSUME TypeInv, NEW a \in Actors, NEW s \in StagesOf(a), NEW t \in Tasks,
         mem'[t] # None, Suspend(a, s, Call("read", t)), Grows, MemTyped', RestTyped'
  PROVE  TypeInv'
<1>1. IoTyped'
  BY AskStep DEF Suspend
<1>2. StageTyped'
  BY StageStep, TypeParts DEF Suspend
<1> QED
  BY <1>1, <1>2, TypePartsPrimed

\* The task an actor works for exists, and its object has the right type.
LEMMA ObjectTyped ==
  ASSUME TypeInv, NEW t \in Tasks, mem[t] # None
  PROVE  mem[t] \in Objects
  BY DEF TypeInv, TypeOK

LEMMA PutTyped ==
  ASSUME TypeInv, NEW t \in Tasks, NEW o \in Objects, mem' = [mem EXCEPT ![t] = o]
  PROVE  MemTyped' /\ Grows /\ mem'[t] # None
  BY NoneIsNothing DEF TypeInv, TypeOK, MemTyped, Grows

LEMMA KeptTyped ==
  ASSUME TypeInv, UNCHANGED mem
  PROVE  MemTyped' /\ Grows
  BY DEF TypeInv, TypeOK, MemTyped, Grows

-----------------------------------------------------------------------------
LEMMA ReadTyped ==
  ASSUME TypeInv, NEW a \in Actors, Read(a), raced' \in SUBSET Tasks
  PROVE  TypeInv'
<1> DEFINE c == [io[a] EXCEPT !.at = "copy", !.data = row[io[a].task]]
<1>1. io[a].task \in Tasks /\ io[a] \in Calls
  BY DEF Read, TypeInv, TypeOK, CallOK
<1>2. row[io[a].task] \in Rows \cup {None}
  BY <1>1 DEF TypeInv, TypeOK
<1>3. row[io[a].task] \in Changes \cup {None}
  BY <1>2 DEF Rows, Changes
<1>4. c \in Calls /\ CallOK(c)
  BY <1>1, <1>2, <1>3 DEF Calls, CallOK
<1>7. c.source = None => mem'[c.task] # None
  <2>1. c.source = io[a].source /\ c.task = io[a].task
    BY <1>1 DEF Calls
  <2> QED
    BY <2>1 DEF Read, TypeInv, SourceOK
<1>5. io' = [io EXCEPT ![a] = c]
  BY DEF Read
<1>6. IoTyped'
  <2> HIDE DEF c
  <2> QED
    BY <1>4, <1>7, <1>5, IoStep, KeptTyped, TypeParts DEF Read
<1> QED
  BY <1>6, TypeParts, TypePartsPrimed, KeptTyped
  DEF Read, StageTyped, RestTyped, db, work, others, ids, bounds

LEMMA CopyTyped ==
  ASSUME TypeInv, NEW a \in Actors, Copy(a), raced' \in SUBSET Tasks
  PROVE  TypeInv'
<1> DEFINE t == io[a].task
           old == io[a].data
           fields == IF io[a].source = None THEN RowOf(mem[t]) ELSE io[a].source
<1>1. t \in Tasks /\ io[a] \in Calls
  BY DEF Copy, TypeInv, TypeOK, CallOK
<1>2. fields \in Rows
  <2>1. CASE io[a].source = None
    <3>1. mem[t] # None
      BY <2>1 DEF Copy, TypeInv, SourceOK
    <3> QED
      BY <1>1, <2>1, <3>1, ObjectTyped, RowOfTyped
  <2>2. CASE io[a].source # None
    BY <1>1, <2>2 DEF Calls
  <2> QED
    BY <2>1, <2>2
<1>3. old = None \/ old \in Rows
  BY DEF Copy, TypeInv, CallOK
<1>4. fields \in Changes
  BY <1>2 DEF Rows, Changes
<1>5. ASSUME old # None PROVE Difference(fields, old) \in Changes
  <2> HIDE DEF fields, old
  <2>1. old \in Rows
    BY <1>3, <1>5
  <2> QED
    BY <1>2, <2>1 DEF Difference, IfNew, Rows, Changes
<1>6. PICK c \in Calls : CallOK(c) /\ c.at \notin {"read", "copy"} /\ io' = [io EXCEPT ![a] = c]
  <2> HIDE DEF fields, old
  <2>1. [Call("insert", t) EXCEPT !.data = fields] \in Calls
        /\ CallOK([Call("insert", t) EXCEPT !.data = fields])
    BY <1>1, <1>2, <1>4 DEF Call, NoCall, Calls, CallOK
  <2>2. ASSUME old # None
        PROVE  [Call("update", t) EXCEPT !.data = Difference(fields, old)] \in Calls
               /\ CallOK([Call("update", t) EXCEPT !.data = Difference(fields, old)])
    BY <1>1, <1>5, <2>2 DEF Call, NoCall, Calls, CallOK
  <2>3. [Call("insert", t) EXCEPT !.data = fields].at = "insert"
        /\ [Call("update", t) EXCEPT !.data = Difference(fields, old)].at = "update"
    BY DEF Call, NoCall
  <2>4. io' = [io EXCEPT ![a] =
          IF old = None THEN [Call("insert", t) EXCEPT !.data = fields]
          ELSE IF Difference(fields, old) = Unchanged THEN Call("back", t)
          ELSE [Call("update", t) EXCEPT !.data = Difference(fields, old)]]
    BY DEF Copy, fields, old
  <2> QED
    BY <1>1, <2>1, <2>2, <2>3, <2>4, CallTyped
<1>7. IoTyped'
  BY <1>6, IoStep, KeptTyped, TypeParts DEF Copy
<1> QED
  BY <1>7, TypeParts, TypePartsPrimed, KeptTyped
  DEF Copy, StageTyped, RestTyped, db, work, others, ids, bounds

LEMMA CommitTyped ==
  ASSUME TypeInv, NEW a \in Actors, Commit(a), raced' \in SUBSET Tasks
  PROVE  TypeInv'
<1> DEFINE t == io[a].task
           d == io[a].data
<1>1. t \in Tasks /\ io[a] \in Calls /\ CallOK(io[a])
  BY DEF Commit, TypeInv, TypeOK, CallOK
<1>2. row' \in [Tasks -> Rows \cup {None}]
  <2>1. CASE io[a].at = "insert" /\ row' = [row EXCEPT ![t] = IF @ = None THEN d ELSE @]
    BY <1>1, <2>1 DEF CallOK, TypeInv, TypeOK
  <2>2. CASE /\ io[a].at = "update"
             /\ row' = [row EXCEPT ![t] = IF @ = None THEN None ELSE Updated(@, d)]
    <3>1. ASSUME row[t] # None PROVE Updated(row[t], d) \in Rows
      <4>1. row[t] \in Rows
        BY <1>1, <3>1 DEF TypeInv, TypeOK
      <4>2. d \in Changes
        BY <1>1, <2>2 DEF CallOK
      <4> HIDE DEF d
      <4> QED
        BY <4>1, <4>2 DEF Updated, IfSet, Rows, Changes
    <3> QED
      BY <1>1, <2>2, <3>1 DEF TypeInv, TypeOK
  <2> QED
    BY <2>1, <2>2 DEF Commit
<1>3. io' = [io EXCEPT ![a] = Call("back", t)]
  BY DEF Commit
<1>4. IoTyped'
  BY <1>1, <1>3, IoStep, KeptTyped, CallTyped, TypeParts DEF Commit
<1> QED
  BY <1>2, <1>4, TypeParts, TypePartsPrimed, KeptTyped
  DEF Commit, StageTyped, RestTyped, work, others, ids, bounds

LEMMA LoadTyped ==
  ASSUME TypeInv, NEW a \in Actors, Load(a), raced' \in SUBSET Tasks
  PROVE  TypeInv'
<1> DEFINE c == [io[a] EXCEPT !.at = "loaded", !.data = row[io[a].task]]
<1>1. io[a].task \in Tasks /\ io[a] \in Calls
  BY DEF Load, TypeInv, TypeOK, CallOK
<1>2. row[io[a].task] \in Rows \cup {None}
  BY <1>1 DEF TypeInv, TypeOK
<1>3. row[io[a].task] \in Changes \cup {None}
  BY <1>2 DEF Rows, Changes
<1>4. c \in Calls /\ CallOK(c) /\ c.at = "loaded"
  BY <1>1, <1>2, <1>3 DEF Calls, CallOK
<1>5. io' = [io EXCEPT ![a] = c]
  BY DEF Load
<1>6. IoTyped'
  <2> HIDE DEF c
  <2> QED
    BY <1>4, <1>5, IoStep, KeptTyped, TypeParts DEF Load
<1> QED
  BY <1>6, TypeParts, TypePartsPrimed, KeptTyped
  DEF Load, StageTyped, RestTyped, db, work, others, ids, bounds

LEMMA EraseTyped ==
  ASSUME TypeInv, NEW a \in Actors, Erase(a), raced' \in SUBSET Tasks
  PROVE  TypeInv'
<1>1. io[a].task \in Tasks
  BY DEF Erase, TypeInv, CallOK
<1>2. IoTyped'
  BY <1>1, IoStep, KeptTyped, CallTyped, TypeParts DEF Erase
<1> QED
  BY <1>2, TypeParts, TypePartsPrimed, KeptTyped
  DEF Erase, StageTyped, RestTyped, work, others, ids, bounds

LEMMA DatabaseFailsTyped ==
  ASSUME TypeInv, NEW a \in Actors, DatabaseFails(a), raced' \in SUBSET Tasks
  PROVE  TypeInv'
<1>1. io[a].task \in Tasks
  BY DEF DatabaseFails, TypeInv, CallOK
<1>2. PICK at \in {"back", "failed"} : io' = [io EXCEPT ![a] = Call(at, io[a].task)]
  BY DEF DatabaseFails
<1>3. IoTyped'
  BY <1>1, <1>2, IoStep, KeptTyped, CallTyped, TypeParts DEF DatabaseFails
<1>4. faults' \in 0..MaxFaults
  BY BoundsAssumption DEF DatabaseFails, TypeInv, TypeOK
<1> QED
  BY <1>3, <1>4, TypeParts, TypePartsPrimed, KeptTyped
  DEF DatabaseFails, StageTyped, RestTyped, db, work, ids

-----------------------------------------------------------------------------
LEMMA GenerateTyped ==
  ASSUME TypeInv, NEW r \in Requests, NEW t \in Tasks, Generate(r, t),
         raced' \in SUBSET Tasks
  PROVE  TypeInv'
<1>1. MemTyped' /\ Grows /\ mem'[t] # None
  BY PutTyped, NewTaskTyped DEF Generate
<1>2. RestTyped'
  BY TypeParts DEF Generate, RestTyped, db, work, bounds
<1>3. "creating" \in StagesOf(Req(r))
  BY RequestActor DEF RequestStages
<1> QED
  BY <1>1, <1>2, <1>3, SuspendToPersist, RequestActor DEF Generate

LEMMA MarkRunningTyped ==
  ASSUME TypeInv, NEW r \in Requests, MarkRunning(r), raced' \in SUBSET Tasks
  PROVE  TypeInv'
<1> DEFINE t == io[Req(r)].task
           o == [mem[t] EXCEPT !.status = "running", !.progress = 0]
<1>1. t \in Tasks
  BY RequestActor DEF MarkRunning, Back, TypeInv, CallOK
<1>2. o \in Objects
  <2>1. mem[t] \in Objects
    BY <1>1, ObjectTyped DEF MarkRunning
  <2> QED
    <3>1. 0 \in 0..(Phases + 1)
      BY BoundsAssumption
    <3> QED
      BY <2>1, <3>1 DEF Objects, Status, Unfinished
<1>3. mem' = [mem EXCEPT ![t] = o]
  BY DEF MarkRunning
<1>4. MemTyped' /\ Grows /\ mem'[t] # None
  <2> HIDE DEF o, t
  <2> QED
    BY <1>1, <1>2, <1>3, PutTyped
<1>5. RestTyped'
  BY TypeParts DEF MarkRunning, RestTyped, db, work, others, ids, bounds
<1>6. "starting" \in StagesOf(Req(r))
  BY RequestActor DEF RequestStages
<1> QED
  BY <1>1, <1>4, <1>5, <1>6, SuspendToPersist, RequestActor DEF MarkRunning

LEMMA RegisterTyped ==
  ASSUME TypeInv, NEW r \in Requests, Register(r), raced' \in SUBSET Tasks
  PROVE  TypeInv'
<1> DEFINE t == io[Req(r)].task
           o == [mem[t] EXCEPT !.coro = TRUE]
<1>1. t \in Tasks
  BY RequestActor DEF Register, Back, TypeInv, CallOK
<1>2. o \in Objects
  <2>1. mem[t] \in Objects
    BY <1>1, ObjectTyped DEF Register
  <2> QED
    BY <2>1 DEF Objects
<1>3. mem' = [mem EXCEPT ![t] = o]
  BY DEF Register
<1>4. MemTyped' /\ Grows
  <2> HIDE DEF o, t
  <2> QED
    BY <1>1, <1>2, <1>3, PutTyped
<1>5. RestTyped'
  BY TypeParts DEF Register, RestTyped, db, work, others, ids, bounds
<1>6. IoTyped'
  BY <1>4, IoStep, NoCallTyped, RequestActor, TypeParts DEF Register
<1>7. StageTyped'
  <2> HIDE DEF t
  <2>1. "idle" \in StagesOf(Req(r)) /\ "registered" \in StagesOf(Run(t))
    BY <1>1, RequestActor, TaskActors DEF RequestStages, RunStages
  <2>2. stage' = [stage EXCEPT ![Req(r)] = "idle", ![Run(t)] = "registered"]
    BY DEF Register, t
  <2> QED
    BY <1>1, <2>1, <2>2, RequestActor, TaskActors, TypeParts
    DEF StageTyped, RunStages, RequestStages
<1> QED
  BY <1>4, <1>5, <1>6, <1>7, TypePartsPrimed

LEMMA PauseTyped ==
  ASSUME TypeInv, NEW r \in Requests, NEW t \in Tasks, Pause(r, t),
         raced' \in SUBSET Tasks
  PROVE  TypeInv'
<1> DEFINE o == [mem[t] EXCEPT !.status = "paused", !.open = FALSE]
<1>1. o \in Objects
  <2>1. mem[t] \in Objects
    BY ObjectTyped DEF Pause
  <2> QED
    BY <2>1 DEF Objects, Status, Unfinished
<1>2. mem' = [mem EXCEPT ![t] = o] \/ mem' = mem
  BY DEF Pause
<1>3. MemTyped' /\ Grows /\ mem'[t] # None
  <2> HIDE DEF o
  <2> QED
    BY <1>1, <1>2, PutTyped, KeptTyped DEF Pause
<1>4. RestTyped'
  BY TypeParts DEF Pause, RestTyped, db, work, others, ids, bounds
<1>5. "acting" \in StagesOf(Req(r))
  BY RequestActor DEF RequestStages
<1> QED
  BY <1>3, <1>4, <1>5, SuspendToPersist, RequestActor DEF Pause

\* Waiters leave the gate of t, or do not, and one actor is suspended.
LEMMA GateStep ==
  ASSUME TypeInv, NEW t \in Tasks, NEW a \in Actors, NEW s \in StagesOf(a),
         \/ stage' = [Opened(t) EXCEPT ![a] = s]
         \/ stage' = [Stranded(t) EXCEPT ![a] = s]
         \/ stage' = [stage EXCEPT ![a] = s]
  PROVE  StageTyped'
<1>1. CASE stage' = [stage EXCEPT ![a] = s]
  BY <1>1, StageStep, TypeParts
<1>2. CASE \/ stage' = [Opened(t) EXCEPT ![a] = s]
           \/ stage' = [Stranded(t) EXCEPT ![a] = s]
  <2>1. \A b \in Actors : stage'[b] \in StagesOf(b)
    BY <1>2, GateStages, TypeParts
  <2>2. \A b \in Actors : StagesOf(b) \subseteq RunStages \cup BeatStages \cup RequestStages
    BY ActorCases, TaskActors, RequestActor
  <2>3. stage' = [b \in Actors |-> stage'[b]]
    BY <1>2 DEF Opened, Stranded
  <2> QED
    BY <2>1, <2>2, <2>3 DEF StageTyped
<1> QED
  BY <1>1, <1>2

LEMMA ResumeTyped ==
  ASSUME TypeInv, NEW r \in Requests, NEW t \in Tasks, Resume(r, t),
         raced' \in SUBSET Tasks
  PROVE  TypeInv'
<1> DEFINE o == [mem[t] EXCEPT !.status = "running", !.open = TRUE]
<1>1. o \in Objects
  <2>1. mem[t] \in Objects
    BY ObjectTyped DEF Resume
  <2> QED
    BY <2>1 DEF Objects, Status, Unfinished
<1>2. mem' = [mem EXCEPT ![t] = o] \/ mem' = mem
  BY DEF Resume
<1>3. MemTyped' /\ Grows /\ mem'[t] # None
  <2> HIDE DEF o
  <2> QED
    BY <1>1, <1>2, PutTyped, KeptTyped DEF Resume
<1>4. RestTyped'
  BY TypeParts DEF Resume, RestTyped, db, work, others, ids, bounds
<1>5. StageTyped'
  <2>1. "acting" \in StagesOf(Req(r))
    BY RequestActor DEF RequestStages
  <2> QED
    BY <2>1, GateStep, RequestActor DEF Resume
<1>6. io' = [io EXCEPT ![Req(r)] = Call("read", t)]
  BY DEF Resume
<1>7. IoTyped'
  BY <1>3, <1>6, AskStep, RequestActor
<1> QED
  BY <1>3, <1>4, <1>5, <1>7, TypePartsPrimed

LEMMA CancelTyped ==
  ASSUME TypeInv, NEW r \in Requests, NEW t \in Tasks, Cancel(r, t),
         raced' \in SUBSET Tasks
  PROVE  TypeInv'
<1> DEFINE o == [mem[t] EXCEPT !.status = "cancelled", !.open = TRUE]
<1>0. mem[t] \in Objects
  BY ObjectTyped DEF Cancel
<1>1. o \in Objects
  BY <1>0 DEF Objects, Status, Settled
<1>2. mem' = [mem EXCEPT ![t] = o] \/ mem' = mem
  BY DEF Cancel
<1>3. MemTyped' /\ Grows /\ mem'[t] # None
  <2> HIDE DEF o
  <2> QED
    BY <1>1, <1>2, PutTyped, KeptTyped DEF Cancel
<1>4. cancelling' \in [Tasks -> BOOLEAN]
  BY <1>0 DEF Cancel, TypeInv, TypeOK, Objects
<1>5. RestTyped'
  BY <1>4, TypeParts DEF Cancel, RestTyped, db, work, others, ids, bounds
<1>6. StageTyped'
  <2>1. "acting" \in StagesOf(Req(r))
    BY RequestActor DEF RequestStages
  <2> QED
    BY <2>1, GateStep, RequestActor DEF Cancel
<1>7. io' = [io EXCEPT ![Req(r)] = Call("read", t)]
  BY DEF Cancel
<1>8. IoTyped'
  BY <1>3, <1>7, AskStep, RequestActor
<1> QED
  BY <1>3, <1>5, <1>6, <1>8, TypePartsPrimed


LEMMA DeleteTyped ==
  ASSUME TypeInv, NEW r \in Requests, NEW t \in Tasks, Delete(r, t),
         raced' \in SUBSET Tasks
  PROVE  TypeInv'
<1>1. MemTyped'
  BY DEF Delete, TypeInv, TypeOK, MemTyped
<1>2. \A u \in Tasks \ {t} : mem'[u] = mem[u]
  BY DEF Delete, TypeInv, TypeOK
<1>3. IoTyped'
  <2> DEFINE c == Call("erase", t)
  <2>1. c \in Calls /\ CallOK(c) /\ c.at \notin {"read", "copy"}
    BY CallTyped
  <2>2. io' = [Orphaned(t) EXCEPT ![Req(r)] = c]
    BY DEF Delete
  <2> HIDE DEF c
  <2> QED
    BY <1>2, <2>1, <2>2, OrphanStep, RequestActor, TypeParts
<1>4. StageTyped'
  <2>1. "deleting" \in StagesOf(Req(r))
    BY RequestActor DEF RequestStages
  <2> QED
    BY <2>1, GateStep, RequestActor DEF Delete
<1>5. RestTyped'
  BY TypeParts DEF Delete, Known, RestTyped, db, work, bounds
<1> QED
  BY <1>1, <1>3, <1>4, <1>5, TypePartsPrimed

LEMMA LookUpTyped ==
  ASSUME TypeInv, NEW r \in Requests, NEW t \in Tasks,
         NEW s \in {"replying", "listing"}, LookUp(r, t, s), raced' \in SUBSET Tasks
  PROVE  TypeInv'
<1>1. s \in StagesOf(Req(r))
  BY RequestActor DEF RequestStages
<1>2. MemTyped' /\ Grows
  BY KeptTyped DEF LookUp
<1>3. RestTyped'
  BY TypeParts DEF LookUp, RestTyped, db, work, others, ids, bounds
<1>4. Suspend(Req(r), s, Call("load", t))
  BY DEF LookUp
<1>5. Call("load", t) \in Calls /\ CallOK(Call("load", t)) /\ Call("load", t).at \notin {"read", "copy"}
  BY CallTyped
<1> QED
  BY <1>1, <1>2, <1>3, <1>4, <1>5, SuspendStep, RequestActor

LEMMA InstallTyped ==
  ASSUME TypeInv, NEW r \in Requests, Install(r), raced' \in SUBSET Tasks
  PROVE  TypeInv'
<1> DEFINE t == io[Req(r)].task
           o == Rebuilt(io[Req(r)].data)
<1>1. t \in Tasks /\ io[Req(r)].data \in Rows
  BY RequestActor DEF Install, TypeInv, CallOK
<1>2. o \in Objects
  BY <1>1, RebuiltTyped
<1>3. mem' = [mem EXCEPT ![t] = o]
  BY DEF Install
<1>4. io' = [Orphaned(t) EXCEPT ![Req(r)] = NoCall]
  BY DEF Install
<1>5. stage' = [Stranded(t) EXCEPT ![Req(r)] = "idle"]
  BY DEF Install
<1> HIDE DEF t, o
<1>6. MemTyped' /\ \A u \in Tasks \ {t} : mem'[u] = mem[u]
  BY <1>1, <1>2, <1>3, PutTyped DEF TypeInv, TypeOK
<1>7. IoTyped'
  BY <1>1, <1>4, <1>6, OrphanStep, NoCallTyped, RequestActor, TypeParts
<1>8. StageTyped'
  <2>1. "idle" \in StagesOf(Req(r))
    BY RequestActor DEF RequestStages
  <2> QED
    BY <1>1, <1>5, <2>1, GateStep, RequestActor
<1>9. RestTyped'
  BY TypeParts DEF Install, RestTyped, db, work, others, ids, bounds
<1> QED
  BY <1>6, <1>7, <1>8, <1>9, TypePartsPrimed

LEMMA ReplyTyped ==
  ASSUME TypeInv, NEW r \in Requests, Reply(r), raced' \in SUBSET Tasks
  PROVE  TypeInv'
<1>1. "idle" \in StagesOf(Req(r))
  BY RequestActor DEF RequestStages
<1>2. MemTyped' /\ Grows
  BY KeptTyped DEF Reply
<1>3. RestTyped'
  BY TypeParts DEF Reply, RestTyped, db, work, others, ids, bounds
<1>4. Suspend(Req(r), "idle", NoCall)
  BY DEF Reply
<1> QED
  BY <1>1, <1>2, <1>3, <1>4, SuspendStep, NoCallTyped, RequestActor

-----------------------------------------------------------------------------
LEMMA CoroutineStages ==
  ASSUME NEW a \in Coroutines
  PROVE  {"off", "ask", "gate", "report"} \subseteq StagesOf(a)
  BY CoroutineCases, TaskActors DEF RunStages, BeatStages

LEMMA ReportProgressTyped ==
  ASSUME TypeInv, NEW a \in Coroutines, NEW p \in 0..Phases, ReportProgress(a, p),
         RestTyped'
  PROVE  TypeInv'
<1> DEFINE t == a[2]
           o == [mem[t] EXCEPT !.progress = p]
<1>1. t \in Tasks /\ a \in Actors
  BY CoroutineCases
<1>2. o \in Objects
  <2>1. mem[t] \in Objects
    BY <1>1, ObjectTyped DEF ReportProgress
  <2>2. p \in 0..(Phases + 1)
    BY BoundsAssumption
  <2> HIDE DEF t
  <2> QED
    BY <2>1, <2>2 DEF Objects
<1>3. mem' = [mem EXCEPT ![t] = o] /\ Suspend(a, "report", Call("read", t))
  BY DEF ReportProgress
<1> HIDE DEF t, o
<1>4. MemTyped' /\ Grows /\ mem'[t] # None
  BY <1>1, <1>2, <1>3, PutTyped
<1>5. "report" \in StagesOf(a)
  BY CoroutineStages
<1> QED
  BY <1>1, <1>3, <1>4, <1>5, SuspendToPersist

LEMMA OnProgressTyped ==
  ASSUME TypeInv, NEW a \in Coroutines, NEW p \in 0..Phases, OnProgress(a, p),
         RestTyped'
  PROVE  TypeInv'
<1>1. a[2] \in Tasks /\ a \in Actors
  BY CoroutineCases
<1>2. CASE Suspend(a, "ask", Call("load", a[2])) /\ UNCHANGED mem
  <2>1. /\ Call("load", a[2]) \in Calls /\ CallOK(Call("load", a[2]))
        /\ Call("load", a[2]).at \notin {"read", "copy"}
    BY <1>1, CallTyped
  <2> QED
    BY <1>1, <1>2, <2>1, CoroutineStages, KeptTyped, SuspendStep
<1>3. CASE Suspend(a, "gate", NoCall) /\ UNCHANGED mem
  BY <1>1, <1>3, CoroutineStages, NoCallTyped, KeptTyped, SuspendStep
<1>4. CASE ReportProgress(a, p)
  BY <1>4, ReportProgressTyped
<1> QED
  BY <1>2, <1>3, <1>4 DEF OnProgress

\* A model call and its heartbeat start.
LEMMA StartCallTyped ==
  ASSUME TypeInv, NEW t \in Tasks, StartCall(t)
  PROVE  StageTyped' /\ phase' \in [Coroutines -> 0..Phases]
<1>1. "llm" \in StagesOf(Run(t)) /\ "sleep" \in StagesOf(Beat(t))
  BY TaskActors DEF RunStages, BeatStages
<1>2. StageTyped'
  BY <1>1, TaskActors, TypeParts DEF StartCall, StageTyped, RunStages, BeatStages
<1>3. phase' \in [Coroutines -> 0..Phases]
  BY TaskActors DEF StartCall, TypeInv, TypeOK
<1> QED
  BY <1>2, <1>3

LEMMA ReportedTyped ==
  ASSUME TypeInv, NEW a \in Coroutines, Reported(a)
  PROVE  StageTyped' /\ phase' \in [Coroutines -> 0..Phases]
<1>1. a \in Actors /\ a[2] \in Tasks
  BY CoroutineCases
<1>2. CASE StartCall(a[2])
  BY <1>1, <1>2, StartCallTyped
<1>3. CASE a = Beat(a[2]) /\ stage' = [stage EXCEPT ![a] = "sleep"] /\ UNCHANGED phase
  <2>1. "sleep" \in StagesOf(a)
    BY <1>1, <1>3, TaskActors DEF BeatStages
  <2> QED
    BY <1>1, <1>3, <2>1, StageStep, TypeParts DEF RestTyped
<1> QED
  BY <1>2, <1>3 DEF Reported

LEMMA PassGateTyped ==
  ASSUME TypeInv, NEW a \in Coroutines, PassGate(a), raced' \in SUBSET Tasks
  PROVE  TypeInv'
<1>1. a \in Actors /\ a[2] \in Tasks
  BY CoroutineCases
<1>2. CASE ReportProgress(a, phase[a]) /\ UNCHANGED phase
  <2>1. phase[a] \in 0..Phases
    BY DEF TypeInv, TypeOK
  <2>2. RestTyped'
    BY <1>2, TypeParts DEF PassGate, RestTyped, db, others, ids, bounds
  <2> QED
    BY <1>2, <2>1, <2>2, ReportProgressTyped
<1>3. CASE Reported(a) /\ io' = [io EXCEPT ![a] = NoCall] /\ UNCHANGED mem
  <2>1. StageTyped' /\ phase' \in [Coroutines -> 0..Phases]
    BY <1>3, ReportedTyped
  <2>2. IoTyped'
    BY <1>1, <1>3, IoStep, KeptTyped, NoCallTyped, TypeParts
  <2>3. RestTyped'
    BY <2>1, TypeParts DEF PassGate, RestTyped, db, others, ids, bounds
  <2> QED
    BY <1>3, <2>1, <2>2, <2>3, KeptTyped, TypePartsPrimed
<1> QED
  BY <1>2, <1>3 DEF PassGate

LEMMA ReviveTyped ==
  ASSUME TypeInv, NEW a \in Coroutines, Revive(a), raced' \in SUBSET Tasks
  PROVE  TypeInv'
<1> DEFINE t == a[2]
           d == io[a].data
           o == [Rebuilt(d) EXCEPT !.progress = phase[a]]
<1>1. a \in Actors /\ t \in Tasks
  BY CoroutineCases
<1>2. d \in Rows
  BY <1>1 DEF Revive, TypeInv, CallOK
<1>3. o \in Objects
  <2>1. phase[a] \in 0..(Phases + 1)
    BY BoundsAssumption DEF TypeInv, TypeOK
  <2>2. Rebuilt(d) \in Objects
    BY <1>2, RebuiltTyped
  <2> HIDE DEF d
  <2> QED
    BY <2>1, <2>2 DEF Objects
<1>4. /\ mem' = [mem EXCEPT ![t] = o]
      /\ io' = [Orphaned(t) EXCEPT ![a] = Call("read", t)]
      /\ stage' = [Stranded(t) EXCEPT ![a] = "report"]
  BY DEF Revive
<1> HIDE DEF t, d, o
<1>5. /\ MemTyped' /\ mem'[t] # None
      /\ \A u \in Tasks \ {t} : mem'[u] = mem[u]
  BY <1>1, <1>3, <1>4, PutTyped DEF TypeInv, TypeOK
<1>6. IoTyped'
  <2> DEFINE c == Call("read", t)
  <2>1. c \in Calls /\ CallOK(c) /\ c.task = t
    BY <1>1, CallTyped
  <2>2. io' = [Orphaned(t) EXCEPT ![a] = c]
    BY <1>4
  <2> HIDE DEF c
  <2> QED
    BY <1>1, <1>5, <2>1, <2>2, OrphanStep, TypeParts
<1>7. StageTyped'
  BY <1>1, <1>4, CoroutineStages, GateStep
<1>8. RestTyped'
  BY TypeParts DEF Revive, RestTyped, db, work, others, ids, bounds
<1> QED
  BY <1>5, <1>6, <1>7, <1>8, TypePartsPrimed

LEMMA EndReportTyped ==
  ASSUME TypeInv, NEW a \in Coroutines, EndReport(a), raced' \in SUBSET Tasks
  PROVE  TypeInv'
<1>1. StageTyped' /\ phase' \in [Coroutines -> 0..Phases]
  BY ReportedTyped DEF EndReport
<1>2. IoTyped'
  BY IoStep, KeptTyped, CoroutineCases, NoCallTyped, TypeParts DEF EndReport
<1>3. RestTyped'
  BY <1>1, TypeParts DEF EndReport, RestTyped, db, others, ids, bounds
<1> QED
  BY <1>1, <1>2, <1>3, KeptTyped, TypePartsPrimed DEF EndReport


\* A step that moves one actor and leaves memory and the database calls alone.
LEMMA StageOnlyTyped ==
  ASSUME TypeInv, NEW a \in Actors, NEW s \in StagesOf(a),
         stage' = [stage EXCEPT ![a] = s], UNCHANGED <<mem, io>>, RestTyped'
  PROVE  TypeInv'
<1>1. StageTyped'
  BY StageStep, TypeParts
<1>2. MemTyped' /\ IoTyped'
  BY TypeParts DEF MemTyped, IoTyped, SourceOK
<1> QED
  BY <1>1, <1>2, TypePartsPrimed

LEMMA RunStagesTyped ==
  ASSUME NEW t \in Tasks, NEW s \in RunStages
  PROVE  Run(t) \in Actors /\ s \in StagesOf(Run(t))
  BY TaskActors

LEMMA ConcludeTyped ==
  ASSUME TypeInv, NEW t \in Tasks, NEW object,
         mem[t] # None => object \in Objects,
         Conclude(t, object), UNCHANGED <<db, phase, attempt, others>>,
         raced' \in SUBSET Tasks
  PROVE  TypeInv'
<1>1. cancelling' \in [Tasks -> BOOLEAN]
  BY DEF Conclude, TypeInv, TypeOK
<1>2. RestTyped'
  BY <1>1, TypeParts DEF RestTyped, db, others, ids, bounds
<1>3. "final" \in RunStages /\ "done" \in RunStages
  BY DEF RunStages
<1>4. CASE /\ mem[t] # None
           /\ mem' = [mem EXCEPT ![t] = object]
           /\ Suspend(Run(t), "final", Call("read", t))
  BY <1>2, <1>3, <1>4, PutTyped, RunStagesTyped, SuspendToPersist
<1>5. CASE UNCHANGED mem /\ Suspend(Run(t), "done", NoCall)
  BY <1>2, <1>3, <1>5, KeptTyped, RunStagesTyped, NoCallTyped, SuspendStep
<1> QED
  BY <1>4, <1>5 DEF Conclude

LEMMA ConcludeAsTyped ==
  ASSUME TypeInv, NEW t \in Tasks, NEW s \in Settled, ConcludeAs(t, s),
         UNCHANGED <<db, phase, attempt, others>>, raced' \in SUBSET Tasks
  PROVE  TypeInv'
<1> DEFINE o == [mem[t] EXCEPT !.status = s]
<1>1. mem[t] # None => o \in Objects
  <2>1. mem[t] # None => mem[t] \in Objects
    BY ObjectTyped
  <2> QED
    BY <2>1 DEF Objects, Status
<1>2. Conclude(t, o)
  BY DEF ConcludeAs
<1> HIDE DEF o
<1> QED
  BY <1>1, <1>2, ConcludeTyped

LEMMA StartRunTyped ==
  ASSUME TypeInv, NEW t \in Tasks, StartRun(t), raced' \in SUBSET Tasks
  PROVE  TypeInv'
<1>1. 1 \in 0..Phases
  BY BoundsAssumption
<1>2. phase' \in [Coroutines -> 0..Phases]
  BY <1>1 DEF StartRun, TypeInv, TypeOK
<1>3. RestTyped'
  BY <1>2, TypeParts DEF StartRun, RestTyped, db, others, ids, bounds
<1> QED
  BY <1>1, <1>3, OnProgressTyped, TaskActors DEF StartRun

LEMMA NextPhaseTyped ==
  ASSUME TypeInv, NEW t \in Tasks, NextPhase(t), raced' \in SUBSET Tasks
  PROVE  TypeInv'
<1> DEFINE p == phase[Run(t)] + 1
<1>1. p \in 0..Phases
  BY TaskActors, BoundsAssumption DEF NextPhase, TypeInv, TypeOK
<1>2. phase' \in [Coroutines -> 0..Phases]
  BY <1>1 DEF NextPhase, TypeInv, TypeOK
<1>3. attempt' \in [Tasks -> 0..Retries] /\ cancelling' \in [Tasks -> BOOLEAN]
  BY BoundsAssumption DEF NextPhase, TypeInv, TypeOK
<1>4. RestTyped'
  BY <1>2, <1>3, TypeParts DEF NextPhase, RestTyped, db, others, ids, bounds
<1>5. OnProgress(Run(t), p)
  BY DEF NextPhase
<1> HIDE DEF p
<1> QED
  BY <1>1, <1>4, <1>5, OnProgressTyped, TaskActors

LEMMA HeartbeatTyped ==
  ASSUME TypeInv, NEW t \in Tasks, Heartbeat(t), raced' \in SUBSET Tasks
  PROVE  TypeInv'
<1>1. RestTyped'
  BY TypeParts DEF Heartbeat, RestTyped, db, work, others, ids, bounds
<1>2. phase[Beat(t)] \in 0..Phases
  BY TaskActors DEF TypeInv, TypeOK
<1> QED
  BY <1>1, <1>2, OnProgressTyped, TaskActors DEF Heartbeat

\* The end of a heartbeat, whatever ends it.
LEMMA HeartbeatEndsTyped ==
  ASSUME TypeInv, NEW t \in Tasks, HeartbeatFails(t) \/ StopHeartbeat(t),
         raced' \in SUBSET Tasks
  PROVE  TypeInv'
<1>1. Suspend(Beat(t), "off", NoCall) /\ MemTyped' /\ Grows
  BY KeptTyped DEF HeartbeatFails, StopHeartbeat
<1>2. RestTyped'
  BY TypeParts DEF HeartbeatFails, StopHeartbeat, RestTyped, db, work, others, ids, bounds
<1>3. "off" \in StagesOf(Beat(t))
  BY TaskActors DEF BeatStages
<1> QED
  BY <1>1, <1>2, <1>3, SuspendStep, NoCallTyped, TaskActors

\* The next attempt at a model call, with or without a pause before it.
LEMMA RetryTyped ==
  ASSUME TypeInv, NEW t \in Tasks, Retry(t), raced' \in SUBSET Tasks
  PROVE  TypeInv'
<1>1. StageTyped' /\ phase' \in [Coroutines -> 0..Phases]
  BY StartCallTyped DEF Retry
<1>2. attempt' \in [Tasks -> 0..Retries] /\ cancelling' \in [Tasks -> BOOLEAN]
  BY BoundsAssumption DEF Retry, TypeInv, TypeOK
<1>3. RestTyped'
  BY <1>1, <1>2, TypeParts DEF Retry, RestTyped, db, others, ids, bounds
<1>4. MemTyped' /\ IoTyped'
  BY TypeParts DEF Retry, MemTyped, IoTyped, SourceOK
<1> QED
  BY <1>1, <1>3, <1>4, TypePartsPrimed

\* EndBackOff does not test the bound, BackOff did.
AttemptsLeft == \A t \in Tasks : stage[Run(t)] = "backoff" => attempt[t] < Retries


LEMMA EndBackOffTyped ==
  ASSUME TypeInv, AttemptsLeft, NEW t \in Tasks, EndBackOff(t), raced' \in SUBSET Tasks
  PROVE  TypeInv'
<1>1. StageTyped' /\ phase' \in [Coroutines -> 0..Phases]
  BY StartCallTyped DEF EndBackOff
<1>2. attempt[t] + 1 \in 0..Retries
  BY BoundsAssumption DEF EndBackOff, AttemptsLeft, TypeInv, TypeOK
<1>3. attempt' \in [Tasks -> 0..Retries]
  BY <1>2 DEF EndBackOff, TypeInv, TypeOK
<1>4. RestTyped'
  BY <1>1, <1>3, TypeParts DEF EndBackOff, RestTyped, db, others, ids, bounds
<1>5. MemTyped' /\ IoTyped'
  BY TypeParts DEF EndBackOff, MemTyped, IoTyped, SourceOK
<1> QED
  BY <1>1, <1>4, <1>5, TypePartsPrimed

\* The steps of a run that only move it.
LEMMA RunMovesTyped ==
  ASSUME TypeInv, NEW t \in Tasks, raced' \in SUBSET Tasks,
         \/ EndCall(t) \/ BackOff(t) \/ StartSave(t) \/ SaveCompany(t) \/ CancelCall(t)
  PROVE  TypeInv'
<1>1. PICK s \in RunStages : stage' = [stage EXCEPT ![Run(t)] = s]
  <2>1. CASE EndCall(t)
    BY <2>1 DEF EndCall, RunStages
  <2>2. CASE BackOff(t)
    BY <2>2 DEF BackOff, RunStages
  <2>3. CASE StartSave(t)
    BY <2>3 DEF StartSave, RunStages
  <2>4. CASE SaveCompany(t)
    BY <2>4 DEF SaveCompany, RunStages
  <2>5. CASE CancelCall(t)
    BY <2>5 DEF CancelCall, RunStages
  <2> QED
    BY <2>1, <2>2, <2>3, <2>4, <2>5
<1>2. RestTyped' /\ UNCHANGED <<mem, io>>
  <2>1. CASE EndCall(t)
    BY <2>1, TypeParts DEF EndCall, RestTyped, db, work, others, ids, bounds
  <2>2. CASE BackOff(t)
    BY <2>2, TypeParts DEF BackOff, RestTyped, db, others, ids, bounds
  <2>3. CASE StartSave(t)
    BY <2>3, TypeParts, BoundsAssumption DEF StartSave, RestTyped, db, others, ids, bounds
  <2>4. CASE SaveCompany(t)
    BY <2>4, TypeParts DEF SaveCompany, RestTyped, work, others, ids, bounds
  <2>5. CASE CancelCall(t)
    BY <2>5, TypeParts DEF CancelCall, RestTyped, db, others, ids, bounds
  <2> QED
    BY <2>1, <2>2, <2>3, <2>4, <2>5
<1> QED
  BY <1>1, <1>2, RunStagesTyped, StageOnlyTyped

LEMMA CompleteTyped ==
  ASSUME TypeInv, NEW t \in Tasks, Complete(t), raced' \in SUBSET Tasks
  PROVE  TypeInv'
<1> DEFINE o == [mem[t] EXCEPT
       !.status = "completed", !.progress = Phases + 1,
       !.result = IF stage[Run(t)] = "saved" THEN "stored" ELSE "unstored"]
<1>1. mem[t] # None => o \in Objects
  <2>1. mem[t] # None => mem[t] \in Objects
    BY ObjectTyped
  <2>2. Phases + 1 \in 0..(Phases + 1)
    BY BoundsAssumption
  <2>3. "completed" \in Status /\ {"stored", "unstored"} \subseteq Results
    BY DEF Status, Settled, Results
  <2> QED
    BY <2>1, <2>2, <2>3 DEF Objects
<1>2. Conclude(t, o) /\ UNCHANGED <<db, phase, attempt, others>>
  BY DEF Complete
<1> HIDE DEF o
<1> QED
  BY <1>1, <1>2, ConcludeTyped

LEMMA RunEndsTyped ==
  ASSUME TypeInv, NEW t \in Tasks, FailRun(t) \/ CancelRun(t), raced' \in SUBSET Tasks
  PROVE  TypeInv'
<1>1. CASE FailRun(t)
  BY <1>1, ConcludeAsTyped DEF FailRun, Settled
<1>2. CASE CancelRun(t)
  BY <1>2, ConcludeAsTyped DEF CancelRun, Settled
<1> QED
  BY <1>1, <1>2

LEMMA RunDoneTyped ==
  ASSUME TypeInv, NEW t \in Tasks, CancelUnstarted(t) \/ EndRun(t),
         raced' \in SUBSET Tasks
  PROVE  TypeInv'
<1>1. Suspend(Run(t), "done", NoCall) /\ MemTyped' /\ Grows
  BY KeptTyped DEF CancelUnstarted, EndRun
<1>2. RestTyped'
  BY TypeParts DEF CancelUnstarted, EndRun, RestTyped, db, work, others, ids, bounds
<1>3. "done" \in RunStages
  BY DEF RunStages
<1> QED
  BY <1>1, <1>2, <1>3, SuspendStep, NoCallTyped, RunStagesTyped

LEMMA GenerationTyped ==
  ASSUME TypeInv, AttemptsLeft, NEW t \in Tasks, GenerationStep(t),
         raced' \in SUBSET Tasks
  PROVE  TypeInv'
BY StartRunTyped, RetryTyped, EndBackOffTyped, NextPhaseTyped, RunMovesTyped,
   CompleteTyped, RunEndsTyped, RunDoneTyped DEF GenerationStep

-----------------------------------------------------------------------------
LEMMA RecoveredTyped ==
  ASSUME NEW r \in Rows
  PROVE  Recovered(r) \in Rows /\ Recovered(r).status \notin InProgress
  BY NoneIsNothing DEF Recovered, Rows, Status, Settled, InProgress

LEMMA RestartTyped ==
  ASSUME TypeInv, Restart, raced' \in SUBSET Tasks
  PROVE  TypeInv'
<1>1. row' \in [Tasks -> Rows \cup {None}] /\ MemTyped'
  <2>1. ASSUME NEW t \in Tasks
        PROVE  Recovered(row[t]) \in Rows \cup {None}
               /\ (row[t] # None => Rebuilt(Recovered(row[t])) \in Objects)
    BY <2>1, RecoveredTyped, RebuiltTyped DEF Recovered, TypeInv, TypeOK
  <2> QED
    BY <2>1 DEF Restart, MemTyped
<1>2. IoTyped'
  BY NoCallTyped DEF Restart, IoTyped, SourceOK
<1>3. StageTyped'
  <2>1. ASSUME NEW a \in Actors PROVE stage'[a] \in StagesOf(a)
    <3>1. CASE \E t \in Tasks : a = Run(t) \/ a = Beat(t)
      BY <3>1, TaskActors DEF Restart, RunStages, BeatStages
    <3>2. CASE \E r \in Requests : a = Req(r)
      BY <3>2, RequestActor DEF Restart, RequestStages
    <3> QED
      BY <3>1, <3>2, ActorCases
  <2>2. \A a \in Actors : StagesOf(a) \subseteq RunStages \cup BeatStages \cup RequestStages
    BY ActorCases, TaskActors, RequestActor
  <2>3. stage' = [a \in Actors |-> stage'[a]]
    BY DEF Restart
  <2> QED
    BY <2>1, <2>2, <2>3 DEF StageTyped
<1>4. RestTyped'
  BY <1>1, TypeParts, BoundsAssumption DEF Restart, RestTyped, ids
<1> QED
  BY <1>1, <1>2, <1>3, <1>4, TypePartsPrimed

LEMMA InitTyped == Init => TypeInv /\ AttemptsLeft
<1> SUFFICES ASSUME Init PROVE TypeInv /\ AttemptsLeft
  OBVIOUS
<1>1. IoTyped
  BY NoCallTyped DEF Init, IoTyped, SourceOK
<1>2. StageTyped
  <2>1. ASSUME NEW a \in Actors PROVE stage[a] \in StagesOf(a)
    <3>1. CASE \E t \in Tasks : a = Run(t) \/ a = Beat(t)
      BY <3>1, TaskActors DEF Init, RunStages, BeatStages
    <3>2. CASE \E r \in Requests : a = Req(r)
      BY <3>2, RequestActor DEF Init, RequestStages
    <3> QED
      BY <3>1, <3>2, ActorCases
  <2>2. \A a \in Actors : StagesOf(a) \subseteq RunStages \cup BeatStages \cup RequestStages
    BY ActorCases, TaskActors, RequestActor
  <2>3. stage = [a \in Actors |-> stage[a]]
    BY DEF Init
  <2> QED
    BY <2>1, <2>2, <2>3 DEF StageTyped
<1>3. MemTyped /\ RestTyped
  BY BoundsAssumption DEF Init, MemTyped, RestTyped
<1>4. AttemptsLeft
  BY TaskActors DEF Init, AttemptsLeft
<1> QED
  BY <1>1, <1>2, <1>3, <1>4, TypeParts


-----------------------------------------------------------------------------
(* The run of a task backs off only while it has attempts left.            *)

\* No run starts to back off in this step, and none that does changes its
\* number of attempts.
NoBackOff ==
  \A t \in Tasks :
    stage'[Run(t)] = "backoff" => stage[Run(t)] = "backoff" /\ attempt'[t] = attempt[t]

LEMMA NoBackOffKeeps ==
  ASSUME AttemptsLeft, NoBackOff
  PROVE  AttemptsLeft'
  BY DEF AttemptsLeft, NoBackOff

\* A step of one actor that suspends it anywhere else leaves the others there.
LEMMA SuspendNoBackOff ==
  ASSUME StageTyped, NEW a \in Actors, NEW s, s # "backoff",
         stage' = [stage EXCEPT ![a] = s], UNCHANGED attempt
  PROVE  NoBackOff
  BY TaskActors DEF StageTyped, NoBackOff

LEMMA GateNoBackOff ==
  ASSUME StageTyped, NEW t \in Tasks, NEW a \in Actors, NEW s, s # "backoff",
         \/ stage' = [Opened(t) EXCEPT ![a] = s]
         \/ stage' = [Stranded(t) EXCEPT ![a] = s]
         \/ stage' = [stage EXCEPT ![a] = s],
         UNCHANGED attempt
  PROVE  NoBackOff
  BY TaskActors DEF StageTyped, NoBackOff, Opened, Stranded

LEMMA RequestNoBackOff ==
  ASSUME TypeInv, NEW r \in Requests,
         RequestStep(r) \/ \E t \in Tasks : UserStep(r, t)
  PROVE  NoBackOff
<1>1. CASE RequestStep(r)
  <2>1. CASE MarkRunning(r)
    BY <2>1, SuspendNoBackOff, RequestActor, TypeParts DEF MarkRunning, Suspend, work
  <2>2. CASE Register(r)
    BY <2>2, DistinctActors, RequestActor, TaskActors, TypeParts
    DEF Register, work, StageTyped, NoBackOff
  <2>3. CASE Install(r)
    <3>1. io[Req(r)].task \in Tasks
      BY <2>3, RequestActor DEF Install, TypeInv, CallOK
    <3> QED
      BY <2>3, <3>1, GateNoBackOff, RequestActor, TypeParts DEF Install, work
  <2>4. CASE Reply(r)
    BY <2>4, SuspendNoBackOff, RequestActor, TypeParts DEF Reply, Suspend, work
  <2> QED
    BY <1>1, <2>1, <2>2, <2>3, <2>4 DEF RequestStep
<1>2. ASSUME NEW t \in Tasks, UserStep(r, t) PROVE NoBackOff
  <2>1. CASE Generate(r, t)
    BY <2>1, SuspendNoBackOff, RequestActor, TypeParts DEF Generate, Suspend, work
  <2>2. CASE Pause(r, t)
    BY <2>2, SuspendNoBackOff, RequestActor, TypeParts DEF Pause, Suspend, work
  <2>3. CASE Resume(r, t)
    BY <2>3, GateNoBackOff, RequestActor, TypeParts DEF Resume, work
  <2>4. CASE Cancel(r, t)
    <3>1. /\ UNCHANGED attempt
          /\ \/ stage' = [Opened(t) EXCEPT ![Req(r)] = "acting"]
             \/ stage' = [stage EXCEPT ![Req(r)] = "acting"]
      BY <2>4 DEF Cancel
    <3> QED
      BY <3>1, GateNoBackOff, RequestActor, TypeParts
  <2>5. CASE Delete(r, t)
    BY <2>5, GateNoBackOff, RequestActor, TypeParts DEF Delete, work
  <2>6. CASE LookUp(r, t, "replying") \/ LookUp(r, t, "listing")
    BY <2>6, SuspendNoBackOff, RequestActor, TypeParts DEF LookUp, Suspend, work
  <2> QED
    BY <1>2, <2>1, <2>2, <2>3, <2>4, <2>5, <2>6 DEF UserStep
<1> QED
  BY <1>1, <1>2

\* Where on_progress() and the start of a model call may leave the stages.
LEMMA ProgressStages ==
  ASSUME NEW a \in Coroutines, NEW p, OnProgress(a, p)
  PROVE  \E s \in {"ask", "gate", "report"} : stage' = [stage EXCEPT ![a] = s]
  BY DEF OnProgress, ReportProgress, Suspend

LEMMA StartCallNoBackOff ==
  ASSUME TypeInv, NEW t \in Tasks, StartCall(t),
         \A u \in Tasks \ {t} : attempt'[u] = attempt[u]
  PROVE  NoBackOff
  BY DistinctActors, TaskActors, TypeParts DEF StartCall, StageTyped, NoBackOff

LEMMA ReportedNoBackOff ==
  ASSUME TypeInv, NEW a \in Coroutines, Reported(a), UNCHANGED attempt
  PROVE  NoBackOff
<1>1. CASE StartCall(a[2])
  BY <1>1, StartCallNoBackOff, CoroutineCases
<1>2. CASE stage' = [stage EXCEPT ![a] = "sleep"]
  BY <1>2, SuspendNoBackOff, CoroutineCases, TypeParts
<1> QED
  BY <1>1, <1>2 DEF Reported

LEMMA OnProgressNoBackOff ==
  ASSUME TypeInv, NEW a \in Coroutines, OnProgressStep(a)
  PROVE  NoBackOff
<1>0. a \in Actors /\ a[2] \in Tasks
  BY CoroutineCases
<1>1. CASE PassGate(a)
  BY <1>0, <1>1, SuspendNoBackOff, ReportedNoBackOff, TypeParts
  DEF PassGate, ReportProgress, Suspend
<1>2. CASE Revive(a)
  BY <1>0, <1>2, GateNoBackOff, TypeParts DEF Revive, work
<1>3. CASE EndReport(a)
  BY <1>3, ReportedNoBackOff DEF EndReport
<1> QED
  BY <1>1, <1>2, <1>3 DEF OnProgressStep

LEMMA BeatNoBackOff ==
  ASSUME TypeInv, NEW t \in Tasks, Heartbeat(t) \/ HeartbeatFails(t) \/ StopHeartbeat(t)
  PROVE  NoBackOff
<1>1. CASE Heartbeat(t)
  BY <1>1, ProgressStages, SuspendNoBackOff, TaskActors, TypeParts DEF Heartbeat, work
<1>2. CASE HeartbeatFails(t) \/ StopHeartbeat(t)
  BY <1>2, SuspendNoBackOff, TaskActors, TypeParts
  DEF HeartbeatFails, StopHeartbeat, Suspend, work
<1> QED
  BY <1>1, <1>2

LEMMA ConcludeNoBackOff ==
  ASSUME TypeInv, NEW t \in Tasks, NEW o, Conclude(t, o), UNCHANGED attempt
  PROVE  NoBackOff
  BY SuspendNoBackOff, TaskActors, TypeParts DEF Conclude, Suspend

LEMMA GenerationAttempts ==
  ASSUME TypeInv, AttemptsLeft, NEW t \in Tasks, GenerationStep(t)
  PROVE  AttemptsLeft'
<1>1. CASE StartRun(t)
  <2>1. PICK s \in {"ask", "gate", "report"} : stage' = [stage EXCEPT ![Run(t)] = s]
    BY <1>1, ProgressStages, TaskActors DEF StartRun
  <2>2. UNCHANGED attempt
    BY <1>1 DEF StartRun
  <2> QED
    BY <2>1, <2>2, SuspendNoBackOff, NoBackOffKeeps, TaskActors, TypeParts
<1>2. CASE EndCall(t) \/ SaveCompany(t)
  BY <1>2, SuspendNoBackOff, NoBackOffKeeps, TaskActors, TypeParts
  DEF EndCall, SaveCompany, work
<1>3. CASE CancelCall(t)
  BY <1>3, SuspendNoBackOff, NoBackOffKeeps, TaskActors, TypeParts DEF CancelCall
<1>4. CASE Retry(t)
  BY <1>4, StartCallNoBackOff, NoBackOffKeeps DEF Retry, TypeInv, TypeOK
<1>5. CASE EndBackOff(t)
  BY <1>5, StartCallNoBackOff, NoBackOffKeeps DEF EndBackOff, TypeInv, TypeOK
<1>6. CASE BackOff(t)
  BY <1>6, DistinctActors, TaskActors, TypeParts DEF BackOff, AttemptsLeft, StageTyped
<1>7. CASE NextPhase(t)
  <2>1. PICK s \in {"ask", "gate", "report"} : stage' = [stage EXCEPT ![Run(t)] = s]
    BY <1>7, ProgressStages, TaskActors DEF NextPhase
  <2>2. \A u \in Tasks \ {t} : attempt'[u] = attempt[u]
    BY <1>7 DEF NextPhase, TypeInv, TypeOK
  <2> QED
    BY <2>1, <2>2, DistinctActors, TaskActors, TypeParts DEF AttemptsLeft, StageTyped
<1>8. CASE StartSave(t)
  <2>1. \A u \in Tasks \ {t} : attempt'[u] = attempt[u]
    BY <1>8 DEF StartSave, TypeInv, TypeOK
  <2> QED
    BY <1>8, <2>1, DistinctActors, TaskActors, TypeParts
    DEF StartSave, AttemptsLeft, StageTyped
<1>9. CASE Complete(t) \/ FailRun(t) \/ CancelRun(t)
  BY <1>9, ConcludeNoBackOff, NoBackOffKeeps DEF Complete, FailRun, CancelRun, ConcludeAs
<1>10. CASE CancelUnstarted(t) \/ EndRun(t)
  <2>1. stage' = [stage EXCEPT ![Run(t)] = "done"] /\ UNCHANGED attempt
    BY <1>10 DEF CancelUnstarted, EndRun, Suspend, work
  <2> QED
    BY <2>1, SuspendNoBackOff, NoBackOffKeeps, TaskActors, TypeParts
<1> QED
  BY <1>1, <1>2, <1>3, <1>4, <1>5, <1>6, <1>7, <1>8, <1>9, <1>10 DEF GenerationStep

LEMMA StepAttempts ==
  ASSUME TypeInv, AttemptsLeft, Step
  PROVE  AttemptsLeft'
<1>1. ASSUME NEW a \in Actors, DatabaseStep(a) \/ DatabaseFails(a)
      PROVE  AttemptsLeft'
  BY <1>1 DEF DatabaseStep, Read, Copy, Commit, Load, Erase, DatabaseFails, work, AttemptsLeft
<1>2. ASSUME NEW r \in Requests, RequestStep(r) \/ \E t \in Tasks : UserStep(r, t)
      PROVE  AttemptsLeft'
  BY <1>2, RequestNoBackOff, NoBackOffKeeps
<1>3. ASSUME NEW a \in Coroutines, OnProgressStep(a)
      PROVE  AttemptsLeft'
  BY <1>3, OnProgressNoBackOff, NoBackOffKeeps
<1>4. ASSUME NEW t \in Tasks,
             GenerationStep(t) \/ Heartbeat(t) \/ HeartbeatFails(t) \/ StopHeartbeat(t)
      PROVE  AttemptsLeft'
  BY <1>4, GenerationAttempts, BeatNoBackOff, NoBackOffKeeps
<1>5. ASSUME Restart PROVE AttemptsLeft'
  BY <1>5, TaskActors DEF Restart, AttemptsLeft
<1> QED
  BY <1>1, <1>2, <1>3, <1>4, <1>5 DEF Step

-----------------------------------------------------------------------------
LEMMA HistoryTyped ==
  ASSUME TypeInv, History
  PROVE  raced' \in SUBSET Tasks
  BY DEF History, TypeInv, TypeOK

LEMMA StepTyped ==
  ASSUME TypeInv, AttemptsLeft, Step, raced' \in SUBSET Tasks
  PROVE  TypeInv'
<1>1. ASSUME NEW a \in Actors, DatabaseStep(a) \/ DatabaseFails(a)
      PROVE  TypeInv'
  BY <1>1, ReadTyped, CopyTyped, CommitTyped, LoadTyped, EraseTyped, DatabaseFailsTyped
  DEF DatabaseStep
<1>2. ASSUME NEW r \in Requests, RequestStep(r) PROVE TypeInv'
  BY <1>2, MarkRunningTyped, RegisterTyped, InstallTyped, ReplyTyped DEF RequestStep
<1>3. ASSUME NEW r \in Requests, NEW t \in Tasks, UserStep(r, t) PROVE TypeInv'
  BY <1>3, GenerateTyped, PauseTyped, ResumeTyped, CancelTyped, DeleteTyped, LookUpTyped
  DEF UserStep
<1>4. ASSUME NEW a \in Coroutines, OnProgressStep(a) PROVE TypeInv'
  BY <1>4, PassGateTyped, ReviveTyped, EndReportTyped DEF OnProgressStep
<1>5. ASSUME NEW t \in Tasks,
             GenerationStep(t) \/ Heartbeat(t) \/ HeartbeatFails(t) \/ StopHeartbeat(t)
      PROVE  TypeInv'
  BY <1>5, GenerationTyped, HeartbeatTyped, HeartbeatEndsTyped
<1>6. ASSUME Restart PROVE TypeInv'
  BY <1>6, RestartTyped
<1> QED
  BY <1>1, <1>2, <1>3, <1>4, <1>5, <1>6 DEF Step

LEMMA TypeInductive ==
  ASSUME TypeInv, AttemptsLeft, [Next]_vars
  PROVE  TypeInv' /\ AttemptsLeft'
<1>1. CASE Next
  BY <1>1, HistoryTyped, StepTyped, StepAttempts DEF Next
<1>2. CASE UNCHANGED vars
  BY <1>2 DEF vars, db, suspension, work, others, ids, bounds, TypeInv, TypeOK,
              SourceOK, AttemptsLeft
<1> QED
  BY <1>1, <1>2

\* Every variable keeps its type: in particular a persist that is about to
\* read its object always finds one, what a lookup returns is a row, and no
\* run makes more attempts than _safe_generate() allows.
THEOREM TypeCorrect == Spec => []TypeOK
<1>1. Init => TypeInv /\ AttemptsLeft
  BY InitTyped
<1>2. TypeInv /\ AttemptsLeft /\ [Next]_vars => TypeInv' /\ AttemptsLeft'
  BY TypeInductive
<1>3. TypeInv => TypeOK
  BY DEF TypeInv
<1> QED
  BY <1>1, <1>2, <1>3, PTL DEF Spec

-----------------------------------------------------------------------------
(* The inductive strengthening of GateMeansPaused, task by task.           *)

\* Request q still has to register the run of t.
Starts(q, t) ==
  stage[Req(q)] \in {"creating", "starting"} /\ io[Req(q)].task = t
Creates(q, t) == stage[Req(q)] = "creating" /\ io[Req(q)].task = t

\* Nothing exists of a task before it is created.
Untouched(t) ==
  t \notin created =>
    /\ mem[t] = None /\ row[t] = None
    /\ stage[Run(t)] = "off"
    /\ \A a \in Actors : io[a].task # t

\* Only one request starts a run, and until then there is none.
StartedOnce(t) ==
  \A q \in Requests : Starts(q, t) =>
    /\ stage[Run(t)] = "off"
    /\ \A p \in Requests : Starts(p, t) => p = q

\* Until update(status = "running") the task is neither running nor paused: not
\* in memory, not in its row and not in a call that read or will write either.
Before(x) == x # None => x.status \notin InProgress
CallBefore(c) == Before(c.source) /\ Before(c.data)
AllBefore(t) ==
  /\ Before(mem[t]) /\ (mem[t] # None => mem[t].open)
  /\ Before(row[t])
  /\ \A a \in Actors : io[a].task = t => CallBefore(io[a])
NotRunningYet(t) == \A q \in Requests : Creates(q, t) => AllBefore(t)

\* A heartbeat belongs to a model call of a run.
InCall == {"llm", "unwind", "unwind_cancelled"}
BeatHasCall(t) == stage[Beat(t)] # "off" => stage[Run(t)] \in InCall

\* While the run is to come or alive, a closed gate means a paused task.
ClosedMeansPaused(t) ==
  Exists(t) /\ ~mem[t].open /\ (Alive(t) \/ \E q \in Requests : Starts(q, t))
    => mem[t].status = "paused"

WaitsPaused(t) ==
  stage[Run(t)] = "gate" \/ stage[Beat(t)] = "gate"
    => Exists(t) /\ mem[t].status = "paused" /\ ~mem[t].open

GateInvOf(t) ==
  /\ Untouched(t)
  /\ StartedOnce(t)
  /\ NotRunningYet(t)
  /\ BeatHasCall(t)
  /\ ClosedMeansPaused(t)
  /\ WaitsPaused(t)

GateInv == \A t \in Tasks : GateInvOf(t)

-----------------------------------------------------------------------------
(* The other tasks.  A step is about one task; nothing about another task   *)
(* changes, and the invariant of that task holds as it did.                 *)

Apart(t) ==
  /\ mem'[t] = mem[t] /\ row'[t] = row[t]
  /\ stage'[Run(t)] = stage[Run(t)] /\ stage'[Beat(t)] = stage[Beat(t)]
  /\ t \in created' <=> t \in created
  /\ \A a \in Actors : io'[a].task = t => io'[a] = io[a]
  /\ \A q \in Requests : io'[Req(q)].task = t => stage'[Req(q)] = stage[Req(q)]

LEMMA ApartKeeps ==
  ASSUME NEW t \in Tasks, GateInvOf(t), Apart(t)
  PROVE  GateInvOf(t)'
<1>1. \A q \in Requests : /\ Starts(q, t)' => Starts(q, t)
                          /\ Creates(q, t)' => Creates(q, t)
  BY RequestActor DEF Apart, Starts, Creates
<1>2. Untouched(t)'
  BY DEF Apart, GateInvOf, Untouched
<1>3. StartedOnce(t)'
  BY <1>1 DEF Apart, GateInvOf, StartedOnce
<1>4. AllBefore(t) => AllBefore(t)'
  BY DEF Apart, AllBefore
<1>5. NotRunningYet(t)'
  BY <1>1, <1>4 DEF GateInvOf, NotRunningYet
<1>6. BeatHasCall(t)' /\ WaitsPaused(t)'
  BY DEF Apart, GateInvOf, BeatHasCall, WaitsPaused, Exists
<1>7. ClosedMeansPaused(t)'
  BY <1>1 DEF Apart, GateInvOf, ClosedMeansPaused, Exists, Alive
<1> QED
  BY <1>2, <1>3, <1>5, <1>6, <1>7 DEF GateInvOf

\* What a step about t does to the calls and the stages: actor a gets call c
\* and goes to stage s, and t may lose or open its gate.
StepAt(t, a, c, s) ==
  /\ \/ io' = [io EXCEPT ![a] = c]
     \/ io' = [Orphaned(t) EXCEPT ![a] = c]
  /\ \/ stage' = [stage EXCEPT ![a] = s]
     \/ stage' = [Opened(t) EXCEPT ![a] = s]
     \/ stage' = [Stranded(t) EXCEPT ![a] = s]

LEMMA StepAtFacts ==
  ASSUME TypeInv, NEW t \in Tasks, NEW a \in Actors, NEW c, NEW s, StepAt(t, a, c, s)
  PROVE  /\ io'[a] = c /\ stage'[a] = s
         /\ \A b \in Actors \ {a} :
              /\ io'[b].task = io[b].task /\ io'[b].data = io[b].data
              /\ \/ io'[b] = io[b]
                 \/ /\ io[b].task = t /\ mem[t] # None
                    /\ io'[b].source = RowOf(mem[t])
              /\ stage'[b] = stage[b]
                 \/ (b \in {Run(t), Beat(t)} /\ stage[b] = "gate"
                     /\ stage'[b] \in {"woken", "adrift"})
<1>1. io'[a] = c /\ stage'[a] = s
  BY DEF StepAt, Orphaned, Opened, Stranded, TypeInv, TypeOK
<1>2. ASSUME NEW b \in Actors \ {a}
      PROVE  stage'[b] = stage[b]
             \/ (b \in {Run(t), Beat(t)} /\ stage[b] = "gate"
                 /\ stage'[b] \in {"woken", "adrift"})
  BY <1>2 DEF StepAt, Opened, Stranded, TypeInv, TypeOK
<1>3. ASSUME NEW b \in Actors \ {a}
      PROVE  /\ io'[b].task = io[b].task /\ io'[b].data = io[b].data
             /\ \/ io'[b] = io[b]
                \/ /\ io[b].task = t /\ mem[t] # None
                   /\ io'[b].source = RowOf(mem[t])
  <2>1. io[b] \in Calls
    BY <1>3 DEF TypeInv, TypeOK
  <2>2. io'[b] = io[b]
        \/ /\ io[b].task = t /\ mem[t] # None
           /\ io'[b] = [io[b] EXCEPT !.source = RowOf(mem[t])]
    BY <1>3 DEF StepAt, Orphaned, TypeInv, TypeOK, SourceOK
  <2> QED
    BY <2>1, <2>2 DEF Calls
<1> QED
  BY <1>1, <1>2, <1>3

LEMMA Elsewhere ==
  ASSUME TypeInv, NEW t \in Tasks, NEW a \in Actors, NEW c, NEW s, StepAt(t, a, c, s),
         c.task \in {t, None}, NEW u \in Tasks \ {t}, a \notin {Run(u), Beat(u)},
         mem'[u] = mem[u], row'[u] = row[u], u \in created' <=> u \in created
  PROVE  Apart(u)
<1>1. c.task # u
  BY NoneAssumption
<1>2. \A b \in Actors : io'[b].task = u => b # a /\ io'[b] = io[b]
  BY <1>1, StepAtFacts
<1>3. stage'[Run(u)] = stage[Run(u)] /\ stage'[Beat(u)] = stage[Beat(u)]
  BY StepAtFacts, TaskActors, DistinctActors
<1>4. \A q \in Requests : io'[Req(q)].task = u => stage'[Req(q)] = stage[Req(q)]
  BY <1>2, StepAtFacts, RequestActor, DistinctActors
<1> QED
  BY <1>2, <1>3, <1>4 DEF Apart

-----------------------------------------------------------------------------
(* The database: only what it has read or is to write changes.             *)

LEMMA DatabaseKeeps ==
  ASSUME TypeInv, GateInv, NEW t \in Tasks, NEW a \in Actors, io[a].task = t,
         NEW c, c.task = t, io' = [io EXCEPT ![a] = c],
         UNCHANGED <<mem, stage, created>>,
         \A u \in Tasks \ {t} : row'[u] = row[u],
         AllBefore(t) => Before(row'[t]) /\ CallBefore(c)
  PROVE  GateInv'
<1>1. io'[a] = c /\ \A b \in Actors \ {a} : io'[b] = io[b]
  BY DEF TypeInv, TypeOK
<1>2. ASSUME NEW u \in Tasks \ {t} PROVE GateInvOf(u)'
  <2>1. Apart(u)
    BY <1>1, <1>2 DEF Apart
  <2> QED
    BY <2>1, ApartKeeps DEF GateInv
<1>3. GateInvOf(t)'
  <2>1. GateInvOf(t)
    BY DEF GateInv
  <2>2. \A q \in Requests : (Starts(q, t)' <=> Starts(q, t)) /\ (Creates(q, t)' <=> Creates(q, t))
    BY <1>1, RequestActor DEF Starts, Creates
  <2>3. Untouched(t)'
    BY <2>1 DEF GateInvOf, Untouched
  <2>4. StartedOnce(t)'
    BY <2>1, <2>2 DEF GateInvOf, StartedOnce
  <2>5. AllBefore(t) => AllBefore(t)'
    BY <1>1 DEF AllBefore, CallBefore, Before
  <2>6. NotRunningYet(t)'
    BY <2>1, <2>2, <2>5 DEF GateInvOf, NotRunningYet
  <2>7. BeatHasCall(t)' /\ WaitsPaused(t)'
    BY <2>1 DEF GateInvOf, BeatHasCall, WaitsPaused, Exists
  <2>8. ClosedMeansPaused(t)'
    BY <2>1, <2>2 DEF GateInvOf, ClosedMeansPaused, Exists, Alive
  <2> QED
    BY <2>3, <2>4, <2>6, <2>7, <2>8 DEF GateInvOf
<1> QED
  BY <1>2, <1>3 DEF GateInv

LEMMA NoneBefore == Before(None)
  BY DEF Before

LEMMA EmptyCallBefore ==
  ASSUME NEW at, NEW t
  PROVE  CallBefore(Call(at, t)) /\ Call(at, t).task = t
  BY NoneBefore DEF CallBefore, Call, NoCall

LEMMA DatabaseGate ==
  ASSUME TypeInv, GateInv, NEW a \in Actors, DatabaseStep(a) \/ DatabaseFails(a)
  PROVE  GateInv'
<1> DEFINE t == io[a].task
<1>1. io[a].at # "none" /\ UNCHANGED <<mem, stage, created>>
  BY DEF DatabaseStep, Read, Copy, Commit, Load, Erase, DatabaseFails, others, ids, db
<1>2. t \in Tasks /\ io[a] \in Calls /\ CallOK(io[a]) /\ SourceOK(a)
  BY <1>1 DEF TypeInv, TypeOK, CallOK
<1>3. AllBefore(t) => CallBefore(io[a]) /\ Before(row[t]) /\ Before(mem[t])
  BY DEF AllBefore
<1>4. row \in [Tasks -> Rows \cup {None}] /\ mem \in [Tasks -> Objects \cup {None}]
  BY DEF TypeInv, TypeOK
<1>5. CASE Read(a)
  <2> DEFINE c == [io[a] EXCEPT !.at = "copy", !.data = row[io[a].task]]
  <2>1. c.task = t /\ c.source = io[a].source /\ c.data = row[t]
    BY <1>2 DEF Calls
  <2>2. io' = [io EXCEPT ![a] = c] /\ UNCHANGED row
    BY <1>5 DEF Read, db
  <2>3. AllBefore(t) => Before(row'[t]) /\ CallBefore(c)
    BY <1>3, <2>1, <2>2 DEF CallBefore
  <2> HIDE DEF c, t
  <2> QED
    BY <1>1, <1>2, <2>1, <2>2, <2>3, DatabaseKeeps DEF t
<1>6. CASE Load(a)
  <2> DEFINE c == [io[a] EXCEPT !.at = "loaded", !.data = row[io[a].task]]
  <2>1. c.task = t /\ c.source = io[a].source /\ c.data = row[t]
    BY <1>2 DEF Calls
  <2>2. io' = [io EXCEPT ![a] = c] /\ UNCHANGED row
    BY <1>6 DEF Load, db
  <2>3. AllBefore(t) => Before(row'[t]) /\ CallBefore(c)
    BY <1>3, <2>1, <2>2 DEF CallBefore
  <2> HIDE DEF c, t
  <2> QED
    BY <1>1, <1>2, <2>1, <2>2, <2>3, DatabaseKeeps DEF t
<1>7. CASE Copy(a)
  <2> DEFINE old == io[a].data
             fields == IF io[a].source = None THEN RowOf(mem[t]) ELSE io[a].source
  <2>1. AllBefore(t) => fields.status \notin InProgress
    <3>1. CASE io[a].source = None
      <4>1. mem[t] # None
        BY <1>7, <3>1, <1>2 DEF Copy, SourceOK
      <4>2. RowOf(mem[t]).status = mem[t].status
        BY DEF RowOf
      <4> QED
        BY <1>3, <3>1, <4>1, <4>2 DEF Before
    <3>2. CASE io[a].source # None
      BY <1>3, <3>2 DEF CallBefore, Before
    <3> QED
      BY <3>1, <3>2
  <2> HIDE DEF fields
  <2>2. AllBefore(t) => Before(fields) /\ Before(Difference(fields, old))
    BY <2>1, NoneAssumption DEF Before, Difference, IfNew, Status, Unfinished, InProgress
  <2>3. PICK c : /\ io' = [io EXCEPT ![a] = c]
                 /\ \/ c = [Call("insert", t) EXCEPT !.data = fields]
                    \/ c = Call("back", t)
                    \/ c = [Call("update", t) EXCEPT !.data = Difference(fields, old)]
    BY <1>7 DEF Copy, fields
  <2>4. /\ c.task = t /\ c.source = None
        /\ c.data \in {fields, Difference(fields, old), None}
    BY <2>3 DEF Call, NoCall
  <2>5. UNCHANGED row
    BY <1>7 DEF Copy, db
  <2>6. AllBefore(t) => Before(row'[t]) /\ CallBefore(c)
    BY <1>3, <2>2, <2>4, <2>5, NoneBefore DEF CallBefore
  <2> HIDE DEF t
  <2> QED
    BY <1>1, <1>2, <2>3, <2>4, <2>5, <2>6, DatabaseKeeps DEF t
<1>8. CASE Commit(a)
  <2> DEFINE d == io[a].data
  <2>1. \A u \in Tasks \ {t} : row'[u] = row[u]
    BY <1>2, <1>4, <1>8 DEF Commit
  <2>2. AllBefore(t) => Before(row'[t])
    <3>1. CASE row'[t] \in {None, row[t]}
      BY <1>3, <3>1, NoneBefore
    <3>2. CASE row'[t] = d /\ d \in Rows
      BY <1>3, <3>2 DEF CallBefore
    <3>3. CASE row[t] # None /\ row'[t] = Updated(row[t], d) /\ d \in Changes
      <4>1. d # None
        BY <3>3, NoneAssumption
      <4>2. AllBefore(t) => d.status \notin InProgress /\ row[t].status \notin InProgress
        BY <1>3, <3>3, <4>1 DEF CallBefore, Before
      <4> QED
        BY <3>3, <4>2 DEF Before, Updated, IfSet
    <3>4. \/ row'[t] \in {None, row[t]}
          \/ row'[t] = d /\ d \in Rows
          \/ row[t] # None /\ row'[t] = Updated(row[t], d) /\ d \in Changes
      BY <1>2, <1>4, <1>8 DEF Commit, CallOK
    <3> QED
      BY <3>1, <3>2, <3>3, <3>4
  <2>3. io' = [io EXCEPT ![a] = Call("back", t)]
    BY <1>8 DEF Commit
  <2>4. AllBefore(t) => Before(row'[t]) /\ CallBefore(Call("back", t))
    BY <2>2, EmptyCallBefore
  <2> DEFINE c == Call("back", t)
  <2>5. c.task = t /\ io' = [io EXCEPT ![a] = c] /\ (AllBefore(t) => Before(row'[t]) /\ CallBefore(c))
    BY <2>3, <2>4, EmptyCallBefore
  <2> HIDE DEF c
  <2> QED
    BY <1>1, <1>2, <2>1, <2>5, DatabaseKeeps
<1>9. CASE Erase(a)
  <2>1. /\ \A u \in Tasks \ {t} : row'[u] = row[u]
        /\ row'[t] = None /\ io' = [io EXCEPT ![a] = Call("back", t)]
    BY <1>2, <1>4, <1>9 DEF Erase
  <2>2. AllBefore(t) => Before(row'[t]) /\ CallBefore(Call("back", t))
    BY <2>1, NoneBefore, EmptyCallBefore
  <2> DEFINE c == Call("back", t)
  <2>3. c.task = t /\ io' = [io EXCEPT ![a] = c] /\ (AllBefore(t) => Before(row'[t]) /\ CallBefore(c))
    BY <2>1, <2>2, EmptyCallBefore
  <2> HIDE DEF c
  <2> QED
    BY <1>1, <1>2, <2>1, <2>3, DatabaseKeeps
<1>10. CASE DatabaseFails(a)
  <2>1. PICK at \in {"back", "failed"} : io' = [io EXCEPT ![a] = Call(at, t)]
    BY <1>10 DEF DatabaseFails
  <2>2. UNCHANGED row
    BY <1>10 DEF DatabaseFails, db
  <2>3. AllBefore(t) => Before(row'[t]) /\ CallBefore(Call(at, t))
    BY <1>3, <2>2, EmptyCallBefore
  <2> DEFINE c == Call(at, t)
  <2>4. c.task = t /\ io' = [io EXCEPT ![a] = c] /\ (AllBefore(t) => Before(row'[t]) /\ CallBefore(c))
    BY <2>1, <2>3, EmptyCallBefore
  <2> HIDE DEF c
  <2> QED
    BY <1>1, <1>2, <2>2, <2>4, DatabaseKeeps
<1> QED
  BY <1>5, <1>6, <1>7, <1>8, <1>9, <1>10 DEF DatabaseStep

-----------------------------------------------------------------------------
(* The lifecycle endpoints.                                                *)

\* What a step leaves of AllBefore(t): the calls that carry an object which
\* leaves memory carry what it was.
LEMMA CarriedBefore ==
  ASSUME TypeInv, NEW t \in Tasks, AllBefore(t),
         NEW a \in Actors, NEW c, CallBefore(c), NEW s, StepAt(t, a, c, s),
         Before(mem'[t]), mem'[t] # None => mem'[t].open, Before(row'[t])
  PROVE  AllBefore(t)'
<1>1. ASSUME NEW b \in Actors, io'[b].task = t PROVE CallBefore(io'[b])
  <2>1. CASE b = a
    BY <2>1, StepAtFacts
  <2>2. CASE b # a /\ io'[b] = io[b]
    BY <1>1, <2>2 DEF AllBefore
  <2>3. CASE b # a /\ io'[b] # io[b]
    <3>1. /\ io[b].task = t /\ io'[b].data = io[b].data
          /\ io'[b].source = RowOf(mem[t]) /\ mem[t] # None
      BY <2>3, StepAtFacts
    <3>2. RowOf(mem[t]).status \notin InProgress
      BY <3>1 DEF AllBefore, Before, RowOf
    <3> QED
      BY <3>1, <3>2 DEF AllBefore, CallBefore, Before
  <2> QED
    BY <2>1, <2>2, <2>3
<1> QED
  BY <1>1 DEF AllBefore, CallBefore, Before

\* An endpoint that serves task t, and is not a generate request any more.
LEMMA ControlKeeps ==
  ASSUME TypeInv, GateInv, NEW r \in Requests, NEW t \in Tasks, t \in created,
         UNCHANGED <<row, created>>,
         NEW c, CallBefore(c), c.task \in {t, None},
         NEW s, s \notin {"creating", "starting"}, StepAt(t, Req(r), c, s),
         \A u \in Tasks \ {t} : mem'[u] = mem[u],
         AllBefore(t) => Before(mem'[t]) /\ (mem'[t] # None => mem'[t].open),
         \/ mem'[t] = mem[t]
         \/ mem'[t] # None /\ ~mem'[t].open => mem'[t].status = "paused",
         \/ mem'[t] = mem[t]
         \/ Exists(t) /\ mem[t].status = "running"
         \/ stage'[Run(t)] # "gate" /\ stage'[Beat(t)] # "gate"
  PROVE  GateInv'
<1>1. ASSUME NEW u \in Tasks \ {t} PROVE GateInvOf(u)'
  <2>1. Apart(u)
    BY <1>1, Elsewhere, RequestActor, DistinctActors
  <2> QED
    BY <1>1, <2>1, ApartKeeps DEF GateInv
<1>2. GateInvOf(t)'
  <2>1. GateInvOf(t)
    BY DEF GateInv
  <2>2. ASSUME NEW q \in Requests
        PROVE  (Starts(q, t)' => Starts(q, t)) /\ (Creates(q, t)' => Creates(q, t))
    <3>1. CASE q = r
      BY <3>1, StepAtFacts, RequestActor DEF Starts, Creates
    <3>2. CASE q # r
      <4>1. /\ io'[Req(q)].task = io[Req(q)].task
            /\ stage'[Req(q)] = stage[Req(q)]
        BY <3>2, StepAtFacts, RequestActor, DistinctActors
      <4> QED
        BY <4>1 DEF Starts, Creates
    <3> QED
      BY <3>1, <3>2
  <2>3. \A b \in {Run(t), Beat(t)} :
          \/ stage'[b] = stage[b]
          \/ stage[b] = "gate" /\ stage'[b] \in {"woken", "adrift"}
    BY StepAtFacts, TaskActors, RequestActor, DistinctActors
  <2>4. Untouched(t)'
    BY DEF Untouched
  <2>5. StartedOnce(t)'
    BY <2>1, <2>2, <2>3 DEF GateInvOf, StartedOnce
  <2>6. AllBefore(t) => AllBefore(t)'
    BY CarriedBefore, RequestActor DEF AllBefore
  <2>7. NotRunningYet(t)'
    BY <2>1, <2>2, <2>6 DEF GateInvOf, NotRunningYet
  <2>8. BeatHasCall(t)'
    BY <2>1, <2>3 DEF GateInvOf, BeatHasCall, InCall
  <2>9. ClosedMeansPaused(t)'
    BY <2>1, <2>2, <2>3 DEF GateInvOf, ClosedMeansPaused, Exists, Alive
  <2>10. WaitsPaused(t)'
    BY <2>1, <2>3 DEF GateInvOf, WaitsPaused, Exists
  <2> QED
    BY <2>4, <2>5, <2>7, <2>8, <2>9, <2>10 DEF GateInvOf
<1> QED
  BY <1>1, <1>2 DEF GateInv

LEMMA PauseGate ==
  ASSUME TypeInv, GateInv, NEW r \in Requests, NEW t \in Tasks, Pause(r, t)
  PROVE  GateInv'
<1> DEFINE c == Call("read", t)
<1>1. CallBefore(c) /\ c.task = t
  BY EmptyCallBefore
<1>2. /\ io' = [io EXCEPT ![Req(r)] = c] /\ stage' = [stage EXCEPT ![Req(r)] = "acting"]
      /\ t \in created /\ mem[t] # None /\ UNCHANGED <<row, created>>
  BY DEF Pause, Known, Suspend, db, others, ids
<1>3. StepAt(t, Req(r), c, "acting")
  BY <1>2 DEF StepAt
<1>4. \/ mem' = mem
      \/ /\ mem[t].status = "running"
         /\ mem' = [mem EXCEPT ![t].status = "paused", ![t].open = FALSE]
  BY DEF Pause
<1>5. /\ \A u \in Tasks \ {t} : mem'[u] = mem[u]
      /\ \/ mem'[t] = mem[t]
         \/ /\ mem[t].status = "running"
            /\ mem'[t] = [mem[t] EXCEPT !.status = "paused", !.open = FALSE]
  BY <1>4 DEF TypeInv, TypeOK
<1>6. mem[t] \in Objects
  BY <1>2, ObjectTyped
<1>7. mem'[t] = mem[t] \/ (mem[t].status = "running" /\ mem'[t].status = "paused")
  BY <1>5, <1>6 DEF Objects
<1>8. AllBefore(t) => mem'[t] = mem[t]
  BY <1>2, <1>7 DEF AllBefore, Before, InProgress
<1> HIDE DEF c
<1> QED
  BY <1>1, <1>2, <1>3, <1>5, <1>7, <1>8, ControlKeeps DEF AllBefore, Exists

LEMMA ResumeGate ==
  ASSUME TypeInv, GateInv, NEW r \in Requests, NEW t \in Tasks, Resume(r, t)
  PROVE  GateInv'
<1> DEFINE c == Call("read", t)
<1>1. CallBefore(c) /\ c.task = t
  BY EmptyCallBefore
<1>2. /\ io' = [io EXCEPT ![Req(r)] = c]
      /\ t \in created /\ mem[t] # None /\ UNCHANGED <<row, created>>
  BY DEF Resume, Known, db, others, ids
<1>3. StepAt(t, Req(r), c, "acting")
  BY <1>2 DEF StepAt, Resume
<1>4. mem[t] \in Objects
  BY <1>2, ObjectTyped
<1>5. /\ \A u \in Tasks \ {t} : mem'[u] = mem[u]
      /\ \/ mem'[t] = mem[t]
         \/ /\ mem[t].status = "paused"
            /\ mem'[t] = [mem[t] EXCEPT !.status = "running", !.open = TRUE]
            /\ stage' = [Opened(t) EXCEPT ![Req(r)] = "acting"]
  BY DEF Resume, TypeInv, TypeOK
<1>6. \/ mem'[t] = mem[t]
      \/ /\ mem[t].status = "paused" /\ mem'[t].open
         /\ stage'[Run(t)] # "gate" /\ stage'[Beat(t)] # "gate"
  <2>1. CASE mem'[t] = mem[t]
    BY <2>1
  <2>2. CASE /\ mem'[t] = [mem[t] EXCEPT !.status = "running", !.open = TRUE]
             /\ stage' = [Opened(t) EXCEPT ![Req(r)] = "acting"]
    <3>1. mem'[t].status = "running" /\ mem'[t].open
      BY <2>2, <1>4 DEF Objects
    <3>2. stage'[Run(t)] # "gate" /\ stage'[Beat(t)] # "gate"
      BY <2>2, TaskActors, RequestActor DEF Opened
    <3> QED
      BY <3>1, <3>2, <1>5
  <2> QED
    BY <2>1, <2>2, <1>5
<1>7. AllBefore(t) => mem'[t] = mem[t]
  BY <1>2, <1>6 DEF AllBefore, Before, InProgress
<1> HIDE DEF c
<1> QED
  BY <1>1, <1>2, <1>3, <1>5, <1>6, <1>7, ControlKeeps DEF AllBefore

LEMMA CancelGate ==
  ASSUME TypeInv, GateInv, NEW r \in Requests, NEW t \in Tasks, Cancel(r, t)
  PROVE  GateInv'
<1> DEFINE c == Call("read", t)
<1>1. CallBefore(c) /\ c.task = t
  BY EmptyCallBefore
<1>2. /\ io' = [io EXCEPT ![Req(r)] = c]
      /\ t \in created /\ mem[t] # None /\ UNCHANGED <<row, created>>
  BY DEF Cancel, Known, db, others, ids
<1>3. \/ mem' = mem /\ stage' = [stage EXCEPT ![Req(r)] = "acting"]
      \/ /\ mem' = [mem EXCEPT ![t].status = "cancelled", ![t].open = TRUE]
         /\ stage' = [Opened(t) EXCEPT ![Req(r)] = "acting"]
  BY DEF Cancel
<1>4. StepAt(t, Req(r), c, "acting")
  BY <1>2, <1>3 DEF StepAt
<1>5. mem[t] \in Objects
  BY <1>2, ObjectTyped
<1>6. /\ \A u \in Tasks \ {t} : mem'[u] = mem[u]
      /\ \/ mem'[t] = mem[t]
         \/ /\ mem'[t] = [mem[t] EXCEPT !.status = "cancelled", !.open = TRUE]
            /\ stage' = [Opened(t) EXCEPT ![Req(r)] = "acting"]
  BY <1>3 DEF TypeInv, TypeOK
<1>7. \/ mem'[t] = mem[t]
      \/ /\ mem'[t].status = "cancelled" /\ mem'[t].open
         /\ stage'[Run(t)] # "gate" /\ stage'[Beat(t)] # "gate"
  <2>1. CASE mem'[t] = mem[t]
    BY <2>1
  <2>2. CASE /\ mem'[t] = [mem[t] EXCEPT !.status = "cancelled", !.open = TRUE]
             /\ stage' = [Opened(t) EXCEPT ![Req(r)] = "acting"]
    <3>1. mem'[t].status = "cancelled" /\ mem'[t].open
      BY <2>2, <1>5 DEF Objects
    <3>2. stage'[Run(t)] # "gate" /\ stage'[Beat(t)] # "gate"
      BY <2>2, TaskActors, RequestActor DEF Opened
    <3> QED
      BY <3>1, <3>2, <1>6
  <2> QED
    BY <2>1, <2>2, <1>6
<1>8. AllBefore(t) => Before(mem'[t]) /\ (mem'[t] # None => mem'[t].open)
  BY <1>7 DEF AllBefore, Before, InProgress
<1> HIDE DEF c
<1> QED
  BY <1>1, <1>2, <1>4, <1>6, <1>7, <1>8, ControlKeeps

LEMMA DeleteGate ==
  ASSUME TypeInv, GateInv, NEW r \in Requests, NEW t \in Tasks, Delete(r, t)
  PROVE  GateInv'
<1> DEFINE c == Call("erase", t)
<1>1. CallBefore(c) /\ c.task = t
  BY EmptyCallBefore
<1>2. StepAt(t, Req(r), c, "deleting")
  BY DEF Delete, StepAt
<1>3. /\ t \in created /\ UNCHANGED <<row, created>>
      /\ mem'[t] = None /\ \A u \in Tasks \ {t} : mem'[u] = mem[u]
  BY DEF Delete, Known, db, TypeInv, TypeOK
<1>4. stage'[Run(t)] # "gate" /\ stage'[Beat(t)] # "gate"
  BY TaskActors, RequestActor DEF Delete, Stranded
<1> HIDE DEF c
<1> QED
  BY <1>1, <1>2, <1>3, <1>4, NoneBefore, ControlKeeps

LEMMA LookUpGate ==
  ASSUME TypeInv, GateInv, NEW r \in Requests, NEW t \in Tasks,
         NEW s \in {"replying", "listing"}, LookUp(r, t, s)
  PROVE  GateInv'
<1> DEFINE c == Call("load", t)
<1>1. CallBefore(c) /\ c.task = t
  BY EmptyCallBefore
<1>2. StepAt(t, Req(r), c, s)
  BY DEF LookUp, Suspend, StepAt
<1>3. t \in created /\ UNCHANGED <<mem, row, created>>
  BY DEF LookUp, Known, db, others, ids
<1> HIDE DEF c
<1> QED
  BY <1>1, <1>2, <1>3, ControlKeeps DEF AllBefore

LEMMA InstallGate ==
  ASSUME TypeInv, GateInv, NEW r \in Requests, Install(r)
  PROVE  GateInv'
<1> DEFINE t == io[Req(r)].task
           o == Rebuilt(io[Req(r)].data)
<1>1. t \in Tasks /\ io[Req(r)].data \in Rows
  BY RequestActor DEF Install, TypeInv, CallOK
<1>2. o \in Objects /\ o.status = io[Req(r)].data.status /\ o.open
  BY <1>1, RebuiltTyped
<1>3. t \in created
  BY <1>1, RequestActor DEF GateInv, GateInvOf, Untouched
<1>4. AllBefore(t) => Before(o)
  BY <1>1, <1>2, RequestActor, NoneIsNothing DEF AllBefore, CallBefore, Before
<1>5. /\ mem'[t] = o /\ \A u \in Tasks \ {t} : mem'[u] = mem[u]
      /\ UNCHANGED <<row, created>>
  BY <1>1 DEF Install, db, others, ids, TypeInv, TypeOK
<1>6. StepAt(t, Req(r), NoCall, "idle")
  BY DEF Install, StepAt
<1>7. stage'[Run(t)] # "gate" /\ stage'[Beat(t)] # "gate"
  BY <1>1, TaskActors, RequestActor DEF Install, Stranded
<1>8. CallBefore(NoCall) /\ NoCall.task = None
  BY NoneBefore DEF CallBefore, NoCall
<1> HIDE DEF o, t
<1> QED
  BY <1>1, <1>2, <1>3, <1>4, <1>5, <1>6, <1>7, <1>8, ControlKeeps

LEMMA ReplyGate ==
  ASSUME TypeInv, GateInv, NEW r \in Requests, Reply(r)
  PROVE  GateInv'
<1> DEFINE t == io[Req(r)].task
<1>1. t \in Tasks
  BY RequestActor DEF Reply, TypeInv, CallOK
<1>2. t \in created
  BY <1>1, RequestActor DEF GateInv, GateInvOf, Untouched
<1>3. StepAt(t, Req(r), NoCall, "idle") /\ UNCHANGED <<mem, row, created>>
  BY DEF Reply, Suspend, StepAt, db, others, ids
<1>4. CallBefore(NoCall) /\ NoCall.task = None
  BY NoneBefore DEF CallBefore, NoCall
<1> HIDE DEF t
<1> QED
  BY <1>1, <1>2, <1>3, <1>4, ControlKeeps DEF AllBefore

-----------------------------------------------------------------------------
(* The generate request.                                                   *)

LEMMA GenerateGate ==
  ASSUME TypeInv, GateInv, NEW r \in Requests, NEW t \in Tasks, Generate(r, t)
  PROVE  GateInv'
<1> DEFINE c == Call("read", t)
<1>1. CallBefore(c) /\ c.task = t
  BY EmptyCallBefore
<1>2. StepAt(t, Req(r), c, "creating")
  BY DEF Generate, Suspend, StepAt
<1>3. /\ t \notin created /\ created' = created \cup {t} /\ UNCHANGED row
      /\ mem'[t] = NewTask /\ \A u \in Tasks \ {t} : mem'[u] = mem[u]
  BY DEF Generate, db, TypeInv, TypeOK
<1> HIDE DEF c
<1>4. ASSUME NEW u \in Tasks \ {t} PROVE GateInvOf(u)'
  <2>1. Apart(u)
    BY <1>1, <1>2, <1>3, <1>4, Elsewhere, RequestActor, DistinctActors
  <2> QED
    BY <1>4, <2>1, ApartKeeps DEF GateInv
<1>5. GateInvOf(t)'
  <2>1. GateInvOf(t)
    BY DEF GateInv
  <2>2. /\ row[t] = None /\ stage[Run(t)] = "off"
        /\ \A a \in Actors : io[a].task # t
    BY <1>3, <2>1 DEF GateInvOf, Untouched
  <2>3. stage'[Run(t)] = "off" /\ stage'[Beat(t)] = "off"
    BY <1>2, <2>1, <2>2, StepAtFacts, RequestActor, TaskActors, DistinctActors
    DEF GateInvOf, BeatHasCall, InCall
  <2>4. io'[Req(r)] = c /\ \A a \in Actors : io'[a].task = t => a = Req(r)
    BY <1>2, <2>2, StepAtFacts, RequestActor
  <2>5. \A q \in Requests : Starts(q, t)' => q = r
    BY <2>4, RequestActor DEF Starts, Req
  <2>6. mem'[t] # None /\ mem'[t].open /\ Before(mem'[t])
    BY <1>3, NewTaskTyped, NoneIsNothing DEF Before, InProgress
  <2>7. Untouched(t)' /\ StartedOnce(t)'
    BY <1>3, <2>3, <2>5 DEF Untouched, StartedOnce
  <2>8. AllBefore(t)'
    BY <1>1, <1>3, <2>2, <2>4, <2>6, NoneBefore DEF AllBefore, CallBefore, Before
  <2>9. BeatHasCall(t)' /\ WaitsPaused(t)'
    BY <2>3 DEF BeatHasCall, WaitsPaused
  <2>10. ClosedMeansPaused(t)'
    BY <2>6 DEF ClosedMeansPaused
  <2> QED
    BY <2>7, <2>8, <2>9, <2>10 DEF GateInvOf, NotRunningYet
<1> QED
  BY <1>4, <1>5 DEF GateInv

LEMMA MarkRunningGate ==
  ASSUME TypeInv, GateInv, NEW r \in Requests, MarkRunning(r)
  PROVE  GateInv'
<1>1. PICK t \in Tasks : t = io[Req(r)].task
  BY RequestActor DEF MarkRunning, Back, TypeInv, CallOK
<1> DEFINE c == Call("read", t)
<1>2. c.task = t
  BY EmptyCallBefore
<1>3. StepAt(t, Req(r), c, "starting")
  BY <1>1 DEF MarkRunning, Suspend, StepAt
<1>4. /\ Creates(r, t) /\ Starts(r, t)
      /\ UNCHANGED <<row, created>>
      /\ mem[t] # None
      /\ mem' = [mem EXCEPT ![t].status = "running", ![t].progress = 0]
  BY <1>1 DEF MarkRunning, Back, Creates, Starts, db, others, ids
<1> HIDE DEF c
<1>5. UNCHANGED <<row, created>> /\ \A u \in Tasks \ {t} : mem'[u] = mem[u]
  BY <1>4 DEF TypeInv, TypeOK
<1>6. ASSUME NEW u \in Tasks \ {t} PROVE GateInvOf(u)'
  <2>1. Apart(u)
    BY <1>1, <1>2, <1>3, <1>5, <1>6, Elsewhere, RequestActor, DistinctActors
  <2> QED
    BY <1>6, <2>1, ApartKeeps DEF GateInv
<1>7. GateInvOf(t)'
  <2>1. GateInvOf(t)
    BY <1>1 DEF GateInv
  <2>2. stage[Run(t)] = "off" /\ \A q \in Requests : Starts(q, t) => q = r
    BY <1>4, <2>1 DEF GateInvOf, StartedOnce
  <2>3. stage'[Run(t)] = "off" /\ stage'[Beat(t)] = "off"
    BY <1>1, <1>3, <2>1, <2>2, StepAtFacts, RequestActor, TaskActors, DistinctActors
    DEF GateInvOf, BeatHasCall, InCall
  <2>4. \A q \in Requests \ {r} : Starts(q, t)' => Starts(q, t)
    BY <1>1, <1>3, StepAtFacts, RequestActor, DistinctActors DEF Starts
  <2>5. \A q \in Requests : Starts(q, t)' => q = r
    BY <2>2, <2>4
  <2>6. mem'[t] = [mem[t] EXCEPT !.status = "running", !.progress = 0]
        /\ mem[t] \in Objects
    BY <1>1, <1>4, ObjectTyped DEF TypeInv, TypeOK
  <2>7. mem[t].open
    BY <1>4, <2>1 DEF GateInvOf, NotRunningYet, AllBefore
  <2>8. mem'[t].open
    BY <2>6, <2>7 DEF Objects
  <2>9. Untouched(t)' /\ StartedOnce(t)'
    <3>1. t \in created
      BY <1>4, <2>1, RequestActor DEF GateInvOf, Untouched, Starts
    <3> QED
      BY <1>4, <2>3, <2>5, <3>1 DEF Untouched, StartedOnce
  <2>10. NotRunningYet(t)'
    <3>1. stage'[Req(r)] = "starting"
      BY <1>1, <1>3, StepAtFacts, RequestActor
    <3>2. \A q \in Requests : ~Creates(q, t)'
      BY <2>5, <3>1 DEF Creates, Starts
    <3> QED
      BY <3>2 DEF NotRunningYet
  <2>11. BeatHasCall(t)' /\ WaitsPaused(t)'
    BY <2>3 DEF BeatHasCall, WaitsPaused
  <2>12. ClosedMeansPaused(t)'
    BY <2>8 DEF ClosedMeansPaused
  <2> QED
    BY <2>9, <2>10, <2>11, <2>12 DEF GateInvOf
<1> QED
  BY <1>6, <1>7 DEF GateInv

LEMMA RegisterGate ==
  ASSUME TypeInv, GateInv, NEW r \in Requests, Register(r)
  PROVE  GateInv'
<1>1. PICK t \in Tasks : t = io[Req(r)].task
  BY RequestActor DEF Register, Back, TypeInv, CallOK
<1>2. /\ Starts(r, t) /\ UNCHANGED <<row, created>> /\ mem[t] # None
      /\ mem' = [mem EXCEPT ![t].coro = TRUE]
      /\ stage' = [stage EXCEPT ![Req(r)] = "idle", ![Run(t)] = "registered"]
      /\ io' = [io EXCEPT ![Req(r)] = NoCall]
  BY <1>1 DEF Register, Back, Starts, db, others, ids
<1>3. /\ stage'[Req(r)] = "idle" /\ stage'[Run(t)] = "registered"
      /\ \A a \in Actors \ {Req(r), Run(t)} : stage'[a] = stage[a]
      /\ io'[Req(r)] = NoCall /\ \A a \in Actors \ {Req(r)} : io'[a] = io[a]
      /\ \A u \in Tasks \ {t} : mem'[u] = mem[u]
  BY <1>1, <1>2, TaskActors, RequestActor, DistinctActors DEF TypeInv, TypeOK
<1>4. NoCall.task = None
  BY DEF NoCall
<1>5. ASSUME NEW u \in Tasks \ {t} PROVE GateInvOf(u)'
  <2>1. u # None
    BY NoneAssumption
  <2>2. \A a \in Actors : io'[a].task = u => a # Req(r) /\ io'[a] = io[a]
    BY <1>3, <1>4, <2>1
  <2>3. stage'[Run(u)] = stage[Run(u)] /\ stage'[Beat(u)] = stage[Beat(u)]
    BY <1>1, <1>3, TaskActors, DistinctActors
  <2>4. \A q \in Requests : io'[Req(q)].task = u => stage'[Req(q)] = stage[Req(q)]
    BY <1>1, <1>3, <2>2, RequestActor, DistinctActors
  <2>5. Apart(u)
    BY <1>2, <1>3, <2>2, <2>3, <2>4 DEF Apart
  <2> QED
    BY <1>5, <2>5, ApartKeeps DEF GateInv
<1>6. GateInvOf(t)'
  <2>1. GateInvOf(t)
    BY <1>1 DEF GateInv
  <2>2. stage[Run(t)] = "off" /\ \A q \in Requests : Starts(q, t) => q = r
    BY <1>2, <2>1 DEF GateInvOf, StartedOnce
  <2>3. stage'[Beat(t)] = "off"
    BY <1>1, <1>3, <2>1, <2>2, TaskActors, RequestActor, DistinctActors
    DEF GateInvOf, BeatHasCall, InCall
  <2>4. \A q \in Requests \ {r} : Starts(q, t)' => Starts(q, t)
    BY <1>1, <1>3, RequestActor, DistinctActors DEF Starts
  <2>5. \A q \in Requests : ~Starts(q, t)'
    BY <1>3, <2>2, <2>4 DEF Starts
  <2>6. t \in created
    BY <1>2, <2>1, RequestActor DEF GateInvOf, Untouched, Starts
  <2>7. mem'[t] = [mem[t] EXCEPT !.coro = TRUE] /\ mem[t] \in Objects
    BY <1>1, <1>2, ObjectTyped DEF TypeInv, TypeOK
  <2>8. mem'[t].open = mem[t].open /\ mem'[t].status = mem[t].status
    BY <2>7 DEF Objects
  <2>9. Untouched(t)' /\ StartedOnce(t)' /\ NotRunningYet(t)'
    BY <1>2, <2>5, <2>6 DEF Untouched, StartedOnce, NotRunningYet, Creates, Starts
  <2>10. BeatHasCall(t)' /\ WaitsPaused(t)'
    BY <1>3, <2>3 DEF BeatHasCall, WaitsPaused
  <2>11. ClosedMeansPaused(t)'
    <3>1. ~mem[t].open => mem[t].status = "paused"
      BY <1>2, <2>1 DEF GateInvOf, ClosedMeansPaused, Exists
    <3> QED
      BY <2>8, <3>1 DEF ClosedMeansPaused
  <2> QED
    BY <2>9, <2>10, <2>11 DEF GateInvOf
<1> QED
  BY <1>5, <1>6 DEF GateInv

-----------------------------------------------------------------------------
(* The run of a task and its heartbeat.                                    *)

LEMMA CoroutineKeeps ==
  ASSUME TypeInv, GateInv, NEW t \in Tasks, stage[Run(t)] # "off",
         UNCHANGED <<row, created>>,
         \A u \in Tasks \ {t} : mem'[u] = mem[u],
         \A b \in Actors \ {Run(t), Beat(t)} :
           /\ stage'[b] = stage[b]
           /\ io'[b] = io[b] \/ (io'[b].task = t /\ io[b].task = t),
         \A b \in {Run(t), Beat(t)} : io'[b] = io[b] \/ io'[b].task \in {t, None},
         BeatHasCall(t)', WaitsPaused(t)',
         Alive(t)' /\ Exists(t)' /\ ~mem'[t].open => mem'[t].status = "paused"
  PROVE  GateInv'
<1>1. ASSUME NEW u \in Tasks \ {t} PROVE GateInvOf(u)'
  <2>1. u # None
    BY NoneAssumption
  <2>2. \A a \in Actors : io'[a].task = u => io'[a] = io[a]
    BY <2>1
  <2>3. stage'[Run(u)] = stage[Run(u)] /\ stage'[Beat(u)] = stage[Beat(u)]
    BY TaskActors, DistinctActors
  <2>4. \A q \in Requests : stage'[Req(q)] = stage[Req(q)]
    BY RequestActor, DistinctActors
  <2>5. Apart(u)
    BY <2>2, <2>3, <2>4 DEF Apart
  <2> QED
    BY <1>1, <2>5, ApartKeeps DEF GateInv
<1>2. GateInvOf(t)'
  <2>1. GateInvOf(t)
    BY DEF GateInv
  <2>2. t \in created
    BY <2>1 DEF GateInvOf, Untouched
  <2>3. \A q \in Requests : ~Starts(q, t)
    BY <2>1 DEF GateInvOf, StartedOnce
  <2>4. ASSUME NEW q \in Requests PROVE ~Starts(q, t)'
    <3>1. stage'[Req(q)] = stage[Req(q)]
          /\ (io'[Req(q)].task = t => io[Req(q)].task = t)
      BY RequestActor, DistinctActors
    <3> QED
      BY <2>3, <3>1 DEF Starts
  <2>5. Untouched(t)' /\ StartedOnce(t)' /\ NotRunningYet(t)'
    BY <2>2, <2>4 DEF Untouched, StartedOnce, NotRunningYet, Creates, Starts
  <2>6. ClosedMeansPaused(t)'
    BY <2>4 DEF ClosedMeansPaused
  <2> QED
    BY <2>5, <2>6 DEF GateInvOf
<1> QED
  BY <1>1, <1>2 DEF GateInv

\* A step of a run or its heartbeat that leaves the task as it is, and enters
\* no gate.
LEMMA MoveGate ==
  ASSUME TypeInv, GateInv, NEW t \in Tasks, Alive(t)' => Alive(t),
         stage[Run(t)] # "off", UNCHANGED <<mem, row, created>>,
         \A b \in Actors \ {Run(t), Beat(t)} : stage'[b] = stage[b] /\ io'[b] = io[b],
         \A b \in {Run(t), Beat(t)} :
           /\ stage'[b] = "gate" => stage[b] = "gate"
           /\ io'[b] = io[b] \/ io'[b].task \in {t, None},
         BeatHasCall(t)'
  PROVE  GateInv'
<1>1. GateInvOf(t)
  BY DEF GateInv
<1>2. WaitsPaused(t)'
  BY <1>1 DEF GateInvOf, WaitsPaused, Exists
<1>3. Alive(t)' /\ Exists(t)' /\ ~mem'[t].open => mem'[t].status = "paused"
  BY <1>1 DEF GateInvOf, ClosedMeansPaused, Exists
<1> QED
  BY <1>2, <1>3, CoroutineKeeps

\* A heartbeat is off unless its run is in a model call.
LEMMA BeatOff ==
  ASSUME GateInv, NEW t \in Tasks, stage[Run(t)] \notin InCall
  PROVE  stage[Beat(t)] = "off"
  BY DEF GateInv, GateInvOf, BeatHasCall

LEMMA BeatOn ==
  ASSUME GateInv, NEW t \in Tasks, stage[Beat(t)] # "off"
  PROVE  stage[Run(t)] \in InCall
  BY DEF GateInv, GateInvOf, BeatHasCall

\* update(progress = p) leaves status and event alone.
LEMMA ReportEffect ==
  ASSUME TypeInv, NEW a \in Coroutines, NEW p, ReportProgress(a, p)
  PROVE  LET t == a[2] IN
         /\ mem[t] # None
         /\ mem'[t].status = mem[t].status /\ mem'[t].open = mem[t].open
         /\ \A u \in Tasks \ {t} : mem'[u] = mem[u]
         /\ stage' = [stage EXCEPT ![a] = "report"]
         /\ \E c : c.task = t /\ io' = [io EXCEPT ![a] = c]
<1>1. a[2] \in Tasks /\ mem[a[2]] # None
  BY CoroutineCases DEF ReportProgress
<1>2. mem[a[2]] \in Objects
  BY <1>1, ObjectTyped
<1>3. /\ mem'[a[2]] = [mem[a[2]] EXCEPT !.progress = p]
      /\ \A u \in Tasks \ {a[2]} : mem'[u] = mem[u]
  BY <1>1 DEF ReportProgress, TypeInv, TypeOK
<1>4. mem'[a[2]].status = mem[a[2]].status /\ mem'[a[2]].open = mem[a[2]].open
  BY <1>2, <1>3 DEF Objects
<1>5. /\ stage' = [stage EXCEPT ![a] = "report"]
      /\ \E c : c.task = a[2] /\ io' = [io EXCEPT ![a] = c]
  <2> DEFINE c == Call("read", a[2])
  <2>1. stage' = [stage EXCEPT ![a] = "report"] /\ io' = [io EXCEPT ![a] = c]
    BY DEF ReportProgress, Suspend
  <2>2. c.task = a[2]
    BY EmptyCallBefore
  <2> HIDE DEF c
  <2> QED
    BY <2>1, <2>2
<1> QED
  BY <1>1, <1>3, <1>4, <1>5

LEMMA ReportGate ==
  ASSUME TypeInv, GateInv, NEW a \in Coroutines, NEW p, ReportProgress(a, p),
         Alive(a[2]), UNCHANGED <<row, created>>,
         a = Run(a[2]) => stage[Beat(a[2])] = "off",
         a = Beat(a[2]) => stage[Run(a[2])] \in InCall
  PROVE  GateInv'
<1>1. PICK t \in Tasks : t = a[2] /\ a \in {Run(t), Beat(t)}
  BY CoroutineCases
<1>2. GateInvOf(t)
  BY DEF GateInv
<1>3. PICK c : c.task = t /\ io' = [io EXCEPT ![a] = c]
  BY <1>1, ReportEffect
<1>4. /\ mem[t] # None /\ mem'[t].status = mem[t].status /\ mem'[t].open = mem[t].open
      /\ \A u \in Tasks \ {t} : mem'[u] = mem[u]
      /\ stage' = [stage EXCEPT ![a] = "report"]
  BY <1>1, ReportEffect
<1>5. /\ stage'[a] = "report" /\ \A b \in Actors \ {a} : stage'[b] = stage[b]
      /\ io'[a] = c /\ \A b \in Actors \ {a} : io'[b] = io[b]
  BY <1>1, <1>3, <1>4, TaskActors DEF TypeInv, TypeOK
<1>6. /\ \A b \in Actors \ {Run(t), Beat(t)} : stage'[b] = stage[b] /\ io'[b] = io[b]
      /\ \A b \in {Run(t), Beat(t)} : io'[b] = io[b] \/ io'[b].task \in {t, None}
  BY <1>1, <1>3, <1>5, TaskActors
<1>7. BeatHasCall(t)' /\ WaitsPaused(t)'
  BY <1>1, <1>5, TaskActors DEF BeatHasCall, WaitsPaused, InCall
<1>8. Alive(t) /\ stage[Run(t)] # "off"
  BY <1>1 DEF Alive
<1>9. Exists(t)' /\ ~mem'[t].open => mem'[t].status = "paused"
  BY <1>2, <1>4, <1>8 DEF GateInvOf, ClosedMeansPaused, Exists
<1> QED
  BY <1>1, <1>4, <1>6, <1>7, <1>8, <1>9, CoroutineKeeps

LEMMA OnProgressGate ==
  ASSUME TypeInv, GateInv, NEW a \in Coroutines, NEW p, OnProgress(a, p),
         Alive(a[2]), UNCHANGED <<row, created>>,
         a = Run(a[2]) => stage[Beat(a[2])] = "off",
         a = Beat(a[2]) => stage[Run(a[2])] \in InCall
  PROVE  GateInv'
<1>1. PICK t \in Tasks : t = a[2] /\ a \in {Run(t), Beat(t)}
  BY CoroutineCases
<1>2. GateInvOf(t) /\ Alive(t) /\ stage[Run(t)] # "off"
  BY <1>1 DEF GateInv, Alive
<1>3. CASE ReportProgress(a, p)
  BY <1>3, ReportGate
<1>4. CASE mem[t] = None /\ Suspend(a, "ask", Call("load", t)) /\ UNCHANGED mem
  <2> DEFINE c == Call("load", t)
  <2>1. c.task = t /\ stage' = [stage EXCEPT ![a] = "ask"] /\ io' = [io EXCEPT ![a] = c]
    BY <1>4, EmptyCallBefore DEF Suspend
  <2> HIDE DEF c
  <2>2. /\ stage'[a] = "ask" /\ \A b \in Actors \ {a} : stage'[b] = stage[b]
        /\ io'[a] = c /\ \A b \in Actors \ {a} : io'[b] = io[b]
    BY <1>1, <2>1, TaskActors DEF TypeInv, TypeOK
  <2>3. BeatHasCall(t)' /\ Alive(t)'
    BY <1>1, <1>2, <2>2, TaskActors DEF BeatHasCall, InCall, Alive
  <2>4. \A b \in {Run(t), Beat(t)} :
          /\ stage'[b] = "gate" => stage[b] = "gate"
          /\ io'[b] = io[b] \/ io'[b].task \in {t, None}
    BY <1>1, <2>1, <2>2, TaskActors
  <2>5. \A b \in Actors \ {Run(t), Beat(t)} : stage'[b] = stage[b] /\ io'[b] = io[b]
    BY <1>1, <2>2
  <2> QED
    BY <1>2, <1>4, <2>3, <2>4, <2>5, MoveGate
<1>5. CASE mem[t] # None /\ ~mem[t].open /\ Suspend(a, "gate", NoCall) /\ UNCHANGED mem
  <2>1. /\ stage'[a] = "gate" /\ \A b \in Actors \ {a} : stage'[b] = stage[b]
        /\ io'[a] = NoCall /\ \A b \in Actors \ {a} : io'[b] = io[b]
    BY <1>1, <1>5, TaskActors DEF Suspend, TypeInv, TypeOK
  <2>2. NoCall.task = None
    BY DEF NoCall
  <2>3. mem[t].status = "paused"
    BY <1>2, <1>5 DEF GateInvOf, ClosedMeansPaused, Exists
  <2>4. BeatHasCall(t)' /\ WaitsPaused(t)'
    BY <1>1, <1>5, <2>1, <2>3, TaskActors DEF BeatHasCall, WaitsPaused, InCall, Exists
  <2>5. \A b \in Actors \ {Run(t), Beat(t)} : stage'[b] = stage[b] /\ io'[b] = io[b]
    BY <1>1, <2>1
  <2>6. \A b \in {Run(t), Beat(t)} : io'[b] = io[b] \/ io'[b].task \in {t, None}
    BY <1>1, <2>1, <2>2, TaskActors
  <2> QED
    BY <1>2, <1>5, <2>3, <2>4, <2>5, <2>6, CoroutineKeeps
<1> QED
  BY <1>1, <1>3, <1>4, <1>5 DEF OnProgress

\* The model call of a run starts, or the heartbeat goes back to sleep.
LEMMA StartCallGate ==
  ASSUME TypeInv, GateInv, NEW t \in Tasks, StartCall(t), Alive(t),
         UNCHANGED <<mem, row, created>>,
         \A b \in Actors \ {Run(t), Beat(t)} : io'[b] = io[b],
         \A b \in {Run(t), Beat(t)} : io'[b] = io[b] \/ io'[b].task \in {t, None}
  PROVE  GateInv'
<1>1. /\ stage'[Run(t)] = "llm" /\ stage'[Beat(t)] = "sleep"
      /\ \A b \in Actors \ {Run(t), Beat(t)} : stage'[b] = stage[b]
  BY TaskActors DEF StartCall, TypeInv, TypeOK
<1>2. BeatHasCall(t)' /\ stage[Run(t)] # "off"
  BY <1>1 DEF BeatHasCall, InCall, Alive
<1> QED
  BY <1>1, <1>2, MoveGate

LEMMA ReportedGate ==
  ASSUME TypeInv, GateInv, NEW a \in Coroutines, Reported(a), Alive(a[2]),
         stage[a] # "off", UNCHANGED <<mem, row, created>>,
         \A b \in Actors \ {a} : io'[b] = io[b],
         io'[a].task = None
  PROVE  GateInv'
<1>1. PICK t \in Tasks : t = a[2] /\ a \in {Run(t), Beat(t)}
  BY CoroutineCases
<1>2. /\ \A b \in Actors \ {Run(t), Beat(t)} : io'[b] = io[b]
      /\ \A b \in {Run(t), Beat(t)} : io'[b] = io[b] \/ io'[b].task \in {t, None}
  BY <1>1, TaskActors
<1>3. CASE StartCall(t)
  BY <1>1, <1>2, <1>3, StartCallGate
<1>4. CASE a = Beat(t) /\ stage' = [stage EXCEPT ![a] = "sleep"]
  <2>1. stage'[a] = "sleep" /\ \A b \in Actors \ {a} : stage'[b] = stage[b]
    BY <1>1, <1>4, TaskActors DEF TypeInv, TypeOK
  <2>2. stage'[Run(t)] = stage[Run(t)] /\ stage[Run(t)] \in InCall
    BY <1>1, <1>4, <2>1, BeatOn, TaskActors
  <2>3. BeatHasCall(t)' /\ stage[Run(t)] # "off" /\ Alive(t)
    BY <1>1, <2>2 DEF BeatHasCall, InCall
  <2>4. /\ \A b \in Actors \ {Run(t), Beat(t)} : stage'[b] = stage[b]
        /\ \A b \in {Run(t), Beat(t)} : stage'[b] = "gate" => stage[b] = "gate"
    BY <1>1, <1>4, <2>1, TaskActors
  <2> QED
    BY <1>2, <2>3, <2>4, MoveGate
<1> QED
  BY <1>1, <1>3, <1>4 DEF Reported

\* Where on_progress() can be suspended, run and heartbeat are alive, and never
\* both.
LEMMA SuspendedAlive ==
  ASSUME GateInv, NEW a \in Coroutines, stage[a] \in {"woken", "ask", "report"}
  PROVE  /\ Alive(a[2]) /\ stage[a] # "off"
         /\ a = Run(a[2]) => stage[Beat(a[2])] = "off"
         /\ a = Beat(a[2]) => stage[Run(a[2])] \in InCall
<1>1. PICK t \in Tasks : t = a[2] /\ a \in {Run(t), Beat(t)}
  BY CoroutineCases
<1>2. CASE a = Run(t)
  BY <1>1, <1>2, BeatOff, TaskActors DEF InCall, Alive
<1>3. CASE a = Beat(t)
  BY <1>1, <1>3, BeatOn, TaskActors DEF InCall, Alive
<1> QED
  BY <1>1, <1>2, <1>3

LEMMA PassGateGate ==
  ASSUME TypeInv, GateInv, NEW a \in Coroutines, PassGate(a)
  PROVE  GateInv'
<1>1. stage[a] \in {"woken", "ask"} /\ UNCHANGED <<row, created>>
  BY DEF PassGate, PastGate, db, others, ids
<1>2. CASE ReportProgress(a, phase[a])
  BY <1>1, <1>2, ReportGate, SuspendedAlive
<1>3. CASE Reported(a) /\ io' = [io EXCEPT ![a] = NoCall] /\ UNCHANGED mem
  <2>1. io'[a].task = None /\ \A b \in Actors \ {a} : io'[b] = io[b]
    BY <1>3, CoroutineCases DEF NoCall, TypeInv, TypeOK
  <2> QED
    BY <1>1, <1>3, <2>1, ReportedGate, SuspendedAlive
<1> QED
  BY <1>2, <1>3 DEF PassGate

LEMMA EndReportGate ==
  ASSUME TypeInv, GateInv, NEW a \in Coroutines, EndReport(a)
  PROVE  GateInv'
<1>1. /\ stage[a] = "report" /\ UNCHANGED <<mem, row, created>> /\ Reported(a)
      /\ io' = [io EXCEPT ![a] = NoCall]
  BY DEF EndReport, db, others, ids
<1>2. io'[a].task = None /\ \A b \in Actors \ {a} : io'[b] = io[b]
  BY <1>1, CoroutineCases DEF NoCall, TypeInv, TypeOK
<1> QED
  BY <1>1, <1>2, ReportedGate, SuspendedAlive

LEMMA ReviveGate ==
  ASSUME TypeInv, GateInv, NEW a \in Coroutines, Revive(a)
  PROVE  GateInv'
<1>1. PICK t \in Tasks : t = a[2] /\ a \in {Run(t), Beat(t)}
  BY CoroutineCases
<1>2. stage[a] = "ask" /\ UNCHANGED <<row, created>> /\ Alive(t) /\ stage[Run(t)] # "off"
  BY <1>1, SuspendedAlive DEF Revive, Alive, db, others, ids
<1> DEFINE c == Call("read", t)
<1>3. c.task = t
  BY EmptyCallBefore
<1>4. StepAt(t, a, c, "report")
  BY <1>1 DEF Revive, StepAt
<1>5. \A u \in Tasks \ {t} : mem'[u] = mem[u]
  BY <1>1 DEF Revive, TypeInv, TypeOK
<1>6. mem'[t].open
  <2>1. io[a].data \in Rows /\ mem' = [mem EXCEPT ![t] = [Rebuilt(io[a].data) EXCEPT !.progress = phase[a]]]
    BY <1>1, CoroutineCases DEF Revive, TypeInv, CallOK
  <2>2. mem'[t] = [Rebuilt(io[a].data) EXCEPT !.progress = phase[a]]
    BY <2>1 DEF TypeInv, TypeOK
  <2>3. Rebuilt(io[a].data) \in Objects /\ Rebuilt(io[a].data).open
    BY <2>1, RebuiltTyped
  <2> QED
    BY <2>2, <2>3 DEF Objects
<1> HIDE DEF c
<1>7. stage'[a] = "report" /\ io'[a] = c
  BY <1>1, <1>4, StepAtFacts, TaskActors
<1>8. \A b \in Actors \ {Run(t), Beat(t)} :
        stage'[b] = stage[b] /\ (io'[b] = io[b] \/ (io'[b].task = t /\ io[b].task = t))
  BY <1>1, <1>4, StepAtFacts, TaskActors
<1>9. \A b \in {Run(t), Beat(t)} : io'[b] = io[b] \/ io'[b].task \in {t, None}
  BY <1>1, <1>3, <1>4, StepAtFacts, TaskActors
<1>10. BeatHasCall(t)' /\ WaitsPaused(t)'
  <2>1. CASE a = Run(t)
    <3>1. stage[Beat(t)] = "off"
      BY <1>1, <1>2, <2>1, SuspendedAlive
    <3>2. stage'[Beat(t)] = "off" /\ stage'[Run(t)] = "report"
      BY <1>1, <1>4, <1>7, <2>1, <3>1, StepAtFacts, TaskActors
    <3> QED
      BY <3>2 DEF BeatHasCall, WaitsPaused
  <2>2. CASE a = Beat(t)
    <3>1. stage[Run(t)] \in InCall
      BY <1>1, <1>2, <2>2, SuspendedAlive
    <3>2. stage'[Run(t)] \in InCall /\ stage'[Beat(t)] = "report"
      BY <1>1, <1>4, <1>7, <2>2, <3>1, StepAtFacts, TaskActors DEF InCall
    <3> QED
      BY <3>2 DEF BeatHasCall, WaitsPaused, InCall
  <2> QED
    BY <1>1, <2>1, <2>2
<1> QED
  BY <1>2, <1>5, <1>6, <1>8, <1>9, <1>10, CoroutineKeeps

\* Only the run moves, and its heartbeat is off before and after.
LEMMA RunMovesGate ==
  ASSUME TypeInv, GateInv, NEW t \in Tasks,
         NEW s \in RunStages \ {"off", "gate"},
         stage' = [stage EXCEPT ![Run(t)] = s], Alive(t) \/ s = "done",
         stage[Run(t)] # "off", UNCHANGED <<mem, row, created>>,
         stage[Beat(t)] = "off" \/ s \in InCall,
         UNCHANGED io \/ io' = [io EXCEPT ![Run(t)] = NoCall]
  PROVE  GateInv'
<1>1. /\ stage'[Run(t)] = s /\ stage'[Beat(t)] = stage[Beat(t)]
      /\ \A b \in Actors \ {Run(t), Beat(t)} : stage'[b] = stage[b]
  BY TaskActors DEF TypeInv, TypeOK
<1>2. /\ \A b \in Actors \ {Run(t), Beat(t)} : io'[b] = io[b]
      /\ \A b \in {Run(t), Beat(t)} : io'[b] = io[b] \/ io'[b].task \in {t, None}
  BY TaskActors DEF TypeInv, TypeOK, NoCall
<1>3. BeatHasCall(t)' /\ (Alive(t)' => Alive(t))
  BY <1>1 DEF BeatHasCall, Alive
<1>4. \A b \in {Run(t), Beat(t)} : stage'[b] = "gate" => stage[b] = "gate"
  BY <1>1
<1> QED
  BY <1>1, <1>2, <1>3, <1>4, MoveGate

\* The last update of a run whose heartbeat is over.
LEMMA ConcludeGate ==
  ASSUME TypeInv, GateInv, NEW t \in Tasks, NEW o, Conclude(t, o),
         stage[Run(t)] # "off", stage[Beat(t)] = "off", UNCHANGED <<row, created>>
  PROVE  GateInv'
<1>1. PICK s \in {"final", "done"} : stage' = [stage EXCEPT ![Run(t)] = s]
  BY DEF Conclude, Suspend
<1>2. /\ stage'[Run(t)] = s /\ stage'[Beat(t)] = "off"
      /\ \A b \in Actors \ {Run(t), Beat(t)} : stage'[b] = stage[b]
  BY <1>1, TaskActors DEF TypeInv, TypeOK
<1>3. /\ \A b \in Actors \ {Run(t)} : io'[b] = io[b]
      /\ io'[Run(t)].task \in {t, None}
  <2> DEFINE c == Call("read", t)
  <2>1. io' = [io EXCEPT ![Run(t)] = c] \/ io' = [io EXCEPT ![Run(t)] = NoCall]
    BY DEF Conclude, Suspend
  <2>2. c.task = t /\ NoCall.task = None
    BY EmptyCallBefore DEF NoCall
  <2> HIDE DEF c
  <2> QED
    BY <2>1, <2>2, TaskActors DEF TypeInv, TypeOK
<1>4. \A u \in Tasks \ {t} : mem'[u] = mem[u]
  BY DEF Conclude, TypeInv, TypeOK
<1>5. BeatHasCall(t)' /\ WaitsPaused(t)' /\ ~Alive(t)'
  BY <1>1, <1>2 DEF BeatHasCall, WaitsPaused, Alive
<1>6. \A b \in {Run(t), Beat(t)} : io'[b] = io[b] \/ io'[b].task \in {t, None}
  BY <1>3, TaskActors
<1> QED
  BY <1>2, <1>3, <1>4, <1>5, <1>6, CoroutineKeeps

LEMMA GenerationGate ==
  ASSUME TypeInv, GateInv, NEW t \in Tasks, GenerationStep(t)
  PROVE  GateInv'
<1>1. UNCHANGED <<row, created>>
  BY DEF GenerationStep, StartRun, EndCall, Retry, BackOff, EndBackOff, NextPhase,
         StartSave, SaveCompany, Complete, FailRun, CancelCall, CancelRun,
         CancelUnstarted, EndRun, db, others, ids
<1>2. stage[Run(t)] \notin InCall => stage[Beat(t)] = "off"
  BY BeatOff
<1>3. CASE StartRun(t)
  <2>1. stage[Run(t)] = "registered" /\ OnProgress(Run(t), 1)
    BY <1>3 DEF StartRun
  <2> QED
    BY <1>1, <1>2, <2>1, OnProgressGate, TaskActors DEF InCall, Alive
<1>4. CASE NextPhase(t)
  <2>1. /\ stage[Run(t)] \in {"llm", "unwind"} /\ stage[Beat(t)] = "off"
        /\ OnProgress(Run(t), phase[Run(t)] + 1)
    BY <1>4 DEF NextPhase, Unwound
  <2> QED
    BY <1>1, <2>1, OnProgressGate, TaskActors DEF Alive
<1>5. CASE Retry(t) \/ EndBackOff(t)
  <2>1. /\ stage[Run(t)] \in {"llm", "unwind", "backoff"} /\ StartCall(t)
        /\ UNCHANGED <<mem, io>>
    BY <1>5 DEF Retry, EndBackOff, Unwound
  <2> QED
    BY <1>1, <2>1, StartCallGate DEF Alive
<1>6. CASE EndCall(t) \/ CancelCall(t)
  <2>1. PICK s \in {"unwind", "unwind_cancelled"} :
          stage' = [stage EXCEPT ![Run(t)] = s]
    BY <1>6 DEF EndCall, CancelCall
  <2>2. stage[Run(t)] = "llm" /\ UNCHANGED <<mem, io>>
    BY <1>6 DEF EndCall, CancelCall
  <2> QED
    BY <1>1, <2>1, <2>2, RunMovesGate DEF RunStages, InCall, Alive
<1>7. CASE BackOff(t) \/ StartSave(t)
  <2>1. PICK s \in {"backoff", "save"} : stage' = [stage EXCEPT ![Run(t)] = s]
    BY <1>7 DEF BackOff, StartSave
  <2>2. /\ stage[Run(t)] \in {"llm", "unwind"} /\ stage[Beat(t)] = "off"
        /\ UNCHANGED <<mem, io>>
    BY <1>7 DEF BackOff, StartSave, Unwound
  <2> QED
    BY <1>1, <2>1, <2>2, RunMovesGate DEF RunStages, Alive
<1>8. CASE SaveCompany(t)
  <2>1. PICK s \in {"saved", "unsaved"} : stage' = [stage EXCEPT ![Run(t)] = s]
    BY <1>8 DEF SaveCompany
  <2>2. stage[Run(t)] = "save" /\ UNCHANGED <<mem, io>>
    BY <1>8 DEF SaveCompany
  <2> QED
    BY <1>1, <1>2, <2>1, <2>2, RunMovesGate DEF RunStages, InCall, Alive
<1>9. CASE CancelUnstarted(t) \/ EndRun(t)
  <2>1. /\ stage' = [stage EXCEPT ![Run(t)] = "done"]
        /\ io' = [io EXCEPT ![Run(t)] = NoCall]
        /\ stage[Run(t)] \in {"registered", "final"} /\ UNCHANGED mem
    BY <1>9 DEF CancelUnstarted, EndRun, Suspend
  <2> QED
    BY <1>1, <1>2, <2>1, RunMovesGate DEF RunStages, InCall
<1>10. CASE Complete(t) \/ FailRun(t) \/ CancelRun(t)
  <2>1. \E o : Conclude(t, o)
    BY <1>10 DEF Complete, FailRun, CancelRun, ConcludeAs
  <2>2. stage[Run(t)] # "off" /\ stage[Beat(t)] = "off"
    BY <1>2, <1>10 DEF Complete, FailRun, CancelRun, PastGate, InCall
  <2> QED
    BY <1>1, <2>1, <2>2, ConcludeGate
<1> QED
  BY <1>3, <1>4, <1>5, <1>6, <1>7, <1>8, <1>9, <1>10 DEF GenerationStep

LEMMA BeatGate ==
  ASSUME TypeInv, GateInv, NEW t \in Tasks,
         Heartbeat(t) \/ HeartbeatFails(t) \/ StopHeartbeat(t)
  PROVE  GateInv'
<1>1. UNCHANGED <<row, created>>
  BY DEF Heartbeat, HeartbeatFails, StopHeartbeat, db, others, ids
<1>2. CASE Heartbeat(t)
  <2>1. stage[Run(t)] = "llm" /\ OnProgress(Beat(t), phase[Beat(t)])
    BY <1>2 DEF Heartbeat
  <2> QED
    BY <1>1, <2>1, OnProgressGate, TaskActors DEF Alive, InCall
<1>3. CASE HeartbeatFails(t) \/ StopHeartbeat(t)
  <2>1. /\ stage' = [stage EXCEPT ![Beat(t)] = "off"]
        /\ io' = [io EXCEPT ![Beat(t)] = NoCall]
        /\ stage[Beat(t)] # "off" /\ UNCHANGED mem
    BY <1>3 DEF HeartbeatFails, StopHeartbeat, Suspend
  <2>2. stage[Run(t)] \in InCall
    BY <2>1, BeatOn
  <2>3. /\ stage'[Beat(t)] = "off" /\ stage'[Run(t)] = stage[Run(t)]
        /\ \A b \in Actors \ {Run(t), Beat(t)} : stage'[b] = stage[b] /\ io'[b] = io[b]
        /\ \A b \in {Run(t), Beat(t)} : io'[b] = io[b] \/ io'[b].task \in {t, None}
    BY <2>1, TaskActors DEF TypeInv, TypeOK, NoCall
  <2>4. BeatHasCall(t)' /\ Alive(t) /\ stage[Run(t)] # "off"
    BY <2>2, <2>3 DEF BeatHasCall, Alive, InCall
  <2>5. \A b \in {Run(t), Beat(t)} : stage'[b] = "gate" => stage[b] = "gate"
    BY <2>3
  <2> QED
    BY <1>1, <2>1, <2>3, <2>4, <2>5, MoveGate
<1> QED
  BY <1>2, <1>3

-----------------------------------------------------------------------------
LEMMA RestartGate ==
  ASSUME TypeInv, GateInv, Restart
  PROVE  GateInv'
<1>1. ASSUME NEW t \in Tasks PROVE GateInvOf(t)'
  <2>1. stage'[Run(t)] = "off" /\ stage'[Beat(t)] = "off"
    BY TaskActors DEF Restart
  <2>2. \A q \in Requests : ~Starts(q, t)'
    BY RequestActor DEF Restart, Starts
  <2>3. Untouched(t)'
    <3>1. ASSUME t \notin created PROVE mem'[t] = None /\ row'[t] = None
      <4>1. row[t] = None
        BY <3>1 DEF GateInv, GateInvOf, Untouched
      <4> QED
        BY <4>1 DEF Restart, Recovered
    <3>2. \A a \in Actors : io'[a].task = None
      BY DEF Restart, NoCall
    <3>3. created' = created /\ t # None
      BY NoneAssumption DEF Restart, ids
    <3> QED
      BY <2>1, <3>1, <3>2, <3>3 DEF Untouched
  <2>4. StartedOnce(t)' /\ NotRunningYet(t)'
    BY <2>2 DEF StartedOnce, NotRunningYet, Creates, Starts
  <2>5. BeatHasCall(t)' /\ WaitsPaused(t)'
    BY <2>1 DEF BeatHasCall, WaitsPaused
  <2>6. ClosedMeansPaused(t)'
    BY <2>1, <2>2 DEF ClosedMeansPaused, Alive
  <2> QED
    BY <2>3, <2>4, <2>5, <2>6 DEF GateInvOf
<1> QED
  BY <1>1 DEF GateInv

LEMMA InitGate == Init => GateInv
<1> SUFFICES ASSUME Init, NEW t \in Tasks PROVE GateInvOf(t)
  BY DEF GateInv
<1>1. /\ stage[Run(t)] = "off" /\ stage[Beat(t)] = "off"
      /\ mem[t] = None /\ row[t] = None
      /\ \A a \in Actors : io[a].task # t
  BY TaskActors, NoneAssumption DEF Init, NoCall
<1>2. \A q \in Requests : ~Starts(q, t)
  BY <1>1, RequestActor DEF Starts
<1> QED
  BY <1>1, <1>2 DEF GateInvOf, Untouched, StartedOnce, NotRunningYet, Creates, Starts,
                    BeatHasCall, ClosedMeansPaused, WaitsPaused, Exists

LEMMA GateInductive ==
  ASSUME TypeInv, GateInv, [Next]_vars
  PROVE  GateInv'
<1>1. CASE Next
  <2>1. ASSUME NEW a \in Actors, DatabaseStep(a) \/ DatabaseFails(a) PROVE GateInv'
    BY <2>1, DatabaseGate
  <2>2. ASSUME NEW r \in Requests, RequestStep(r) PROVE GateInv'
    BY <2>2, MarkRunningGate, RegisterGate, InstallGate, ReplyGate DEF RequestStep
  <2>3. ASSUME NEW r \in Requests, NEW t \in Tasks, UserStep(r, t) PROVE GateInv'
    BY <2>3, GenerateGate, PauseGate, ResumeGate, CancelGate, DeleteGate, LookUpGate
    DEF UserStep
  <2>4. ASSUME NEW a \in Coroutines, OnProgressStep(a) PROVE GateInv'
    BY <2>4, PassGateGate, ReviveGate, EndReportGate DEF OnProgressStep
  <2>5. ASSUME NEW t \in Tasks,
               GenerationStep(t) \/ Heartbeat(t) \/ HeartbeatFails(t) \/ StopHeartbeat(t)
        PROVE  GateInv'
    BY <2>5, GenerationGate, BeatGate
  <2> QED
    BY <1>1, <2>1, <2>2, <2>3, <2>4, <2>5, RestartGate DEF Next, Step
<1>2. CASE UNCHANGED vars
  <2>1. UNCHANGED <<mem, row, io, stage, created>>
    BY <1>2 DEF vars, db, suspension, others, ids
  <2>2. ASSUME NEW t \in Tasks PROVE GateInvOf(t)'
    <3>1. Apart(t)
      BY <2>1 DEF Apart
    <3> QED
      BY <3>1, ApartKeeps DEF GateInv
  <2> QED
    BY <2>2 DEF GateInv
<1> QED
  BY <1>1, <1>2

\* Nobody waits at the pause gate of a task that is not shown as paused, so
\* that resume and cancel always find, and release, whoever waits: whatever the
\* order of requests, lookups, heartbeats, deletions, faults and restarts.
THEOREM GateIsNoTrap == Spec => []GateMeansPaused
<1>1. Init => TypeInv /\ AttemptsLeft /\ GateInv
  BY InitTyped, InitGate
<1>2. TypeInv /\ AttemptsLeft /\ GateInv /\ [Next]_vars
        => TypeInv' /\ AttemptsLeft' /\ GateInv'
  BY TypeInductive, GateInductive
<1>3. GateInv => GateMeansPaused
  BY CoroutineCases DEF GateInv, GateInvOf, WaitsPaused, GateMeansPaused
<1> QED
  BY <1>1, <1>2, <1>3, PTL DEF Spec
=============================================================================
