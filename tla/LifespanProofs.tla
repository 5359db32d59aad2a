--------------------------- MODULE LifespanProofs ---------------------------
(***************************************************************************)
(* That the safety invariants of Lifespan hold for any workers, seed       *)
(* companies, tactics, starts and failures.  IInv adds to them what each   *)
(* worker has achieved at the steps of its startup and of its stop.        *)
(***************************************************************************)
EXTENDS Lifespan, TLAPS

\* The types that the proof needs.
Typed ==
    /\ DOMAIN step = Workers
    /\ DOMAIN pool = Workers
    /\ factory \in [Workers -> BOOLEAN]
    /\ registry \in [Workers -> SUBSET Companies]
    /\ DOMAIN logs = Workers
    /\ polling \in [Workers -> BOOLEAN]
    /\ taskRows \subseteq Companies
    /\ \A e \in events : e.tactic \in Tactics

\* The steps of a startup after the seeding of tasks.
AfterSeeding == {"admin", "make admin", "seed events", "count", "delete", "insert", "serving"}

\* As long as nothing has failed, a worker that seeds tasks has a session
\* factory and has written what it has registered, and the rows of all seed
\* companies are there when it goes on.
SeedOrder ==
    ~setback => \A w \in Workers :
        /\ step[w] \in {"neo4j", "seed tasks", "seed task"} => factory[w] /\ registry[w] \subseteq taskRows
        /\ step[w] \in AfterSeeding => taskRows = Companies

\* What an orderly stop has ended, at each of its steps.
StopOrder ==
    \A w \in Workers :
        /\ step[w] \in {"stop polling", "close database", "close neo4j"} => logs[w] # "running"
        /\ step[w] \in {"close database", "close neo4j"} => ~polling[w]
        /\ pool[w] = "disposed" => step[w] = "close neo4j"

\* Before it connects, a worker has registered nothing.
Fresh ==
    \A w \in Workers : step[w] \in {"connect", "create", "recover", "neo4j", "seed tasks"} => registry[w] = {}

IInv == Typed /\ Fresh /\ SeedOrder /\ StopOrder /\ SeededMeansCovered /\ SeedTasksBeforeUsers

-----------------------------------------------------------------------------

\* The initial states satisfy the inductive invariant.
LEMMA InitIInv == Init => IInv
<1>. SUFFICES ASSUME Init PROVE IInv
  OBVIOUS
<1>. USE DEF Init
<1>1. Typed
  <2>1. \A e \in events : e.tactic \in Tactics
    OBVIOUS
  <2>2. registry \in [Workers -> SUBSET Companies]
    OBVIOUS
  <2>3. QED
    BY <2>1, <2>2 DEF Typed
<1>2. Fresh /\ StopOrder
  BY DEF Fresh, StopOrder
<1>3. users # {} => setback
  OBVIOUS
<1>4. SeedOrder /\ SeededMeansCovered /\ SeedTasksBeforeUsers
  BY <1>3 DEF SeedOrder, AfterSeeding, SeededMeansCovered, SeedTasksBeforeUsers
<1>5. QED
  BY <1>1, <1>2, <1>4 DEF IInv

\* A process starts with nothing in its memory.
LEMMA StartIInv == ASSUME NEW w \in Workers, IInv, Start(w) PROVE IInv'
<1>. USE DEF IInv, dbVars, memVars, readVars, histVars
<1>1. Typed'
  BY DEF Start, Goto, With, Typed
<1>2. Fresh'
  BY DEF Start, Goto, With, Typed, Fresh
<1>3. SeedOrder'
  BY DEF Start, Goto, With, Typed, Fresh, SeedOrder, SeedTasksBeforeUsers, AfterSeeding
<1>4. StopOrder'
  BY DEF Start, Goto, With, Typed, StopOrder
<1>5. SeededMeansCovered'
  BY DEF Start, Goto, With, Typed, SeededMeansCovered
<1>6. SeedTasksBeforeUsers'
  BY DEF Start, Goto, With, Typed, SeedOrder, SeedTasksBeforeUsers, AfterSeeding
<1>7. QED
  BY <1>1, <1>2, <1>3, <1>4, <1>5, <1>6

\* The engine is set, and the schema is looked for.
LEMMA ConnectIInv == ASSUME NEW w \in Workers, IInv, Connect(w) PROVE IInv'
<1>. USE DEF IInv, dbVars, memVars, readVars, histVars
<1>1. Typed'
  BY DEF Connect, Goto, With, Typed
<1>2. Fresh'
  BY DEF Connect, Goto, With, Typed, Fresh
<1>3. SeedOrder'
  BY DEF Connect, Goto, With, Typed, Fresh, SeedOrder, SeedTasksBeforeUsers, AfterSeeding
<1>4. StopOrder'
  BY DEF Connect, Goto, With, Typed, StopOrder
<1>5. SeededMeansCovered'
  BY DEF Connect, Goto, With, Typed, SeededMeansCovered
<1>6. SeedTasksBeforeUsers'
  BY DEF Connect, Goto, With, Typed, SeedOrder, SeedTasksBeforeUsers, AfterSeeding
<1>7. QED
  BY <1>1, <1>2, <1>3, <1>4, <1>5, <1>6

\* The schema is created, or another worker was faster.
LEMMA CreateIInv == ASSUME NEW w \in Workers, IInv, Create(w) PROVE IInv'
<1>. USE DEF IInv, dbVars, memVars, readVars, histVars
<1>1. Typed'
  BY DEF Create, Goto, With, Typed
<1>2. Fresh'
  BY DEF Create, Goto, With, Typed, Fresh
<1>3. SeedOrder'
  BY DEF Create, Goto, With, Typed, Fresh, SeedOrder, SeedTasksBeforeUsers, AfterSeeding
<1>4. StopOrder'
  BY DEF Create, Goto, With, Typed, StopOrder
<1>5. SeededMeansCovered'
  BY DEF Create, Goto, With, Typed, SeededMeansCovered
<1>6. SeedTasksBeforeUsers'
  BY DEF Create, Goto, With, Typed, SeedOrder, SeedTasksBeforeUsers, AfterSeeding
<1>7. QED
  BY <1>1, <1>2, <1>3, <1>4, <1>5, <1>6

\* The session factory is set.
LEMMA RecoverIInv == ASSUME NEW w \in Workers, IInv, Recover(w) PROVE IInv'
<1>. USE DEF IInv, dbVars, memVars, readVars, histVars
<1>1. Typed'
  BY DEF Recover, Goto, With, Typed
<1>2. Fresh'
  BY DEF Recover, Goto, With, Typed, Fresh
<1>3. SeedOrder'
  BY DEF Recover, Goto, With, Typed, Fresh, SeedOrder, SeedTasksBeforeUsers, AfterSeeding
<1>4. StopOrder'
  BY DEF Recover, Goto, With, Typed, StopOrder
<1>5. SeededMeansCovered'
  BY DEF Recover, Goto, With, Typed, SeededMeansCovered
<1>6. SeedTasksBeforeUsers'
  BY DEF Recover, Goto, With, Typed, SeedOrder, SeedTasksBeforeUsers, AfterSeeding
<1>7. QED
  BY <1>1, <1>2, <1>3, <1>4, <1>5, <1>6

\* The driver is set.
LEMMA Neo4jIInv == ASSUME NEW w \in Workers, IInv, Neo4j(w) PROVE IInv'
<1>. USE DEF IInv, dbVars, memVars, readVars, histVars
<1>1. Typed'
  BY DEF Neo4j, Goto, With, Typed
<1>2. Fresh'
  BY DEF Neo4j, Goto, With, Typed, Fresh
<1>3. SeedOrder'
  BY DEF Neo4j, Goto, With, Typed, Fresh, SeedOrder, SeedTasksBeforeUsers, AfterSeeding
<1>4. StopOrder'
  BY DEF Neo4j, Goto, With, Typed, StopOrder
<1>5. SeededMeansCovered'
  BY DEF Neo4j, Goto, With, Typed, SeededMeansCovered
<1>6. SeedTasksBeforeUsers'
  BY DEF Neo4j, Goto, With, Typed, SeedOrder, SeedTasksBeforeUsers, AfterSeeding
<1>7. QED
  BY <1>1, <1>2, <1>3, <1>4, <1>5, <1>6

\* Whether there are users decides whether tasks are seeded.
LEMMA SeedTasksIInv == ASSUME NEW w \in Workers, IInv, SeedTasks(w) PROVE IInv'
<1>. USE DEF IInv, dbVars, memVars, readVars, histVars
<1>1. Typed'
  BY DEF SeedTasks, Goto, With, Typed
<1>2. Fresh'
  BY DEF SeedTasks, Goto, With, Typed, Fresh
<1>3. SeedOrder'
  BY DEF SeedTasks, Goto, With, Typed, Fresh, SeedOrder, SeedTasksBeforeUsers, AfterSeeding
<1>4. StopOrder'
  BY DEF SeedTasks, Goto, With, Typed, StopOrder
<1>5. SeededMeansCovered'
  BY DEF SeedTasks, Goto, With, Typed, SeededMeansCovered
<1>6. SeedTasksBeforeUsers'
  BY DEF SeedTasks, Goto, With, Typed, SeedOrder, SeedTasksBeforeUsers, AfterSeeding
<1>7. QED
  BY <1>1, <1>2, <1>3, <1>4, <1>5, <1>6

\* A seed company is registered and persisted.
LEMMA SeedTaskIInv == ASSUME NEW w \in Workers, IInv, SeedTask(w) PROVE IInv'
<1>. USE DEF IInv, dbVars, memVars, readVars, histVars
<1>0. PICK c \in Companies \ registry[w] :
         /\ registry' = [registry EXCEPT ![w] = @ \cup {c}]
         /\ \/ /\ taskRows' = IF factory[w] THEN taskRows \cup {c} ELSE taskRows
               /\ setback' = setback
            \/ setback' /\ taskRows' = taskRows
  BY DEF SeedTask
<1>1. Typed'
  <2>1. registry' \in [Workers -> SUBSET Companies] /\ taskRows' \subseteq Companies
    BY <1>0 DEF Typed
  <2>2. QED
    BY <2>1 DEF SeedTask, Typed
<1>2. Fresh'
  BY DEF SeedTask, Goto, With, Typed, Fresh
<1>3. SeedOrder'
  <2>. SUFFICES ASSUME ~setback', NEW v \in Workers
       PROVE  /\ step'[v] \in {"neo4j", "seed tasks", "seed task"} => factory'[v] /\ registry'[v] \subseteq taskRows'
              /\ step'[v] \in AfterSeeding => taskRows' = Companies
    BY DEF SeedOrder
  <2>0. setback' = setback
    BY <1>0
  <2>1. ~setback /\ factory[w] /\ taskRows' = taskRows \cup {c}
    BY <1>0, <2>0 DEF SeedTask, SeedOrder
  <2>2. UNCHANGED <<step, factory>>
    BY DEF SeedTask
  <2>3. registry'[v] \subseteq registry[v] \cup {c}
    BY <1>0 DEF Typed
  <2>4. QED
    BY <2>1, <2>2, <2>3 DEF SeedOrder, Typed
<1>4. StopOrder'
  BY DEF SeedTask, Goto, With, Typed, StopOrder
<1>5. SeededMeansCovered'
  BY DEF SeedTask, Goto, With, Typed, SeededMeansCovered
<1>6. SeedTasksBeforeUsers'
  <2>. SUFFICES ASSUME users' # {}, ~setback' PROVE taskRows' = Companies
    BY DEF SeedTasksBeforeUsers
  <2>1. setback' = setback /\ users' = users
    BY <1>0 DEF SeedTask
  <2>2. taskRows = Companies
    BY <2>1 DEF SeedTasksBeforeUsers
  <2>3. QED
    BY <1>0, <2>2
<1>7. QED
  BY <1>1, <1>2, <1>3, <1>4, <1>5, <1>6

\* All seed companies are there.
LEMMA SeedTasksDoneIInv == ASSUME NEW w \in Workers, IInv, SeedTasksDone(w) PROVE IInv'
<1>. USE DEF IInv, dbVars, memVars, readVars, histVars
<1>1. Typed'
  BY DEF SeedTasksDone, Goto, With, Typed
<1>2. Fresh'
  BY DEF SeedTasksDone, Goto, With, Typed, Fresh
<1>3. SeedOrder'
  BY DEF SeedTasksDone, Goto, With, Typed, Fresh, SeedOrder, SeedTasksBeforeUsers, AfterSeeding
<1>4. StopOrder'
  BY DEF SeedTasksDone, Goto, With, Typed, StopOrder
<1>5. SeededMeansCovered'
  BY DEF SeedTasksDone, Goto, With, Typed, SeededMeansCovered
<1>6. SeedTasksBeforeUsers'
  BY DEF SeedTasksDone, Goto, With, Typed, SeedOrder, SeedTasksBeforeUsers, AfterSeeding
<1>7. QED
  BY <1>1, <1>2, <1>3, <1>4, <1>5, <1>6

\* The account is looked for.
LEMMA FindAdminIInv == ASSUME NEW w \in Workers, IInv, FindAdmin(w) PROVE IInv'
<1>. USE DEF IInv, dbVars, memVars, readVars, histVars
<1>1. Typed'
  BY DEF FindAdmin, Goto, With, Typed
<1>2. Fresh'
  BY DEF FindAdmin, Goto, With, Typed, Fresh
<1>3. SeedOrder'
  BY DEF FindAdmin, Goto, With, Typed, Fresh, SeedOrder, SeedTasksBeforeUsers, AfterSeeding
<1>4. StopOrder'
  BY DEF FindAdmin, Goto, With, Typed, StopOrder
<1>5. SeededMeansCovered'
  BY DEF FindAdmin, Goto, With, Typed, SeededMeansCovered
<1>6. SeedTasksBeforeUsers'
  BY DEF FindAdmin, Goto, With, Typed, SeedOrder, SeedTasksBeforeUsers, AfterSeeding
<1>7. QED
  BY <1>1, <1>2, <1>3, <1>4, <1>5, <1>6

\* The account is made.
LEMMA MakeAdminIInv == ASSUME NEW w \in Workers, IInv, MakeAdmin(w) PROVE IInv'
<1>. USE DEF IInv, dbVars, memVars, readVars, histVars
<1>1. Typed'
  BY DEF MakeAdmin, Goto, With, Typed
<1>2. Fresh'
  BY DEF MakeAdmin, Goto, With, Typed, Fresh
<1>3. SeedOrder'
  BY DEF MakeAdmin, Goto, With, Typed, Fresh, SeedOrder, SeedTasksBeforeUsers, AfterSeeding
<1>4. StopOrder'
  BY DEF MakeAdmin, Goto, With, Typed, StopOrder
<1>5. SeededMeansCovered'
  BY DEF MakeAdmin, Goto, With, Typed, SeededMeansCovered
<1>6. SeedTasksBeforeUsers'
  BY DEF MakeAdmin, Goto, With, Typed, SeedOrder, SeedTasksBeforeUsers, AfterSeeding
<1>7. QED
  BY <1>1, <1>2, <1>3, <1>4, <1>5, <1>6

\* The events are looked for.
LEMMA AnyEventsIInv == ASSUME NEW w \in Workers, IInv, AnyEvents(w) PROVE IInv'
<1>. USE DEF IInv, dbVars, memVars, readVars, histVars
<1>1. Typed'
  BY DEF AnyEvents, Goto, With, Typed
<1>2. Fresh'
  BY DEF AnyEvents, Goto, With, Typed, Fresh
<1>3. SeedOrder'
  BY DEF AnyEvents, Goto, With, Typed, Fresh, SeedOrder, SeedTasksBeforeUsers, AfterSeeding
<1>4. StopOrder'
  BY DEF AnyEvents, Goto, With, Typed, StopOrder
<1>5. SeededMeansCovered'
  BY DEF AnyEvents, Goto, With, Typed, SeededMeansCovered
<1>6. SeedTasksBeforeUsers'
  BY DEF AnyEvents, Goto, With, Typed, SeedOrder, SeedTasksBeforeUsers, AfterSeeding
<1>7. QED
  BY <1>1, <1>2, <1>3, <1>4, <1>5, <1>6

\* Nothing is to be seeded.
LEMMA CoveredAlreadyIInv == ASSUME NEW w \in Workers, IInv, CoveredAlready(w) PROVE IInv'
<1>. USE DEF IInv, dbVars, memVars, readVars, histVars
<1>1. Typed'
  BY DEF CoveredAlready, ServeFrom, Goto, With, Typed
<1>2. Fresh'
  BY DEF CoveredAlready, ServeFrom, Goto, With, Typed, Fresh
<1>3. SeedOrder'
  BY DEF CoveredAlready, ServeFrom, Goto, With, Typed, Fresh, SeedOrder, SeedTasksBeforeUsers, AfterSeeding
<1>4. StopOrder'
  BY DEF CoveredAlready, ServeFrom, Goto, With, Typed, StopOrder
<1>5. SeededMeansCovered'
  BY DEF CoveredAlready, ServeFrom, Goto, With, Typed, SeededMeansCovered
<1>6. SeedTasksBeforeUsers'
  BY DEF CoveredAlready, ServeFrom, Goto, With, Typed, SeedOrder, SeedTasksBeforeUsers, AfterSeeding
<1>7. QED
  BY <1>1, <1>2, <1>3, <1>4, <1>5, <1>6

\* The events are to be replaced.
LEMMA NotCoveredIInv == ASSUME NEW w \in Workers, IInv, NotCovered(w) PROVE IInv'
<1>. USE DEF IInv, dbVars, memVars, readVars, histVars
<1>1. Typed'
  BY DEF NotCovered, Goto, With, Typed
<1>2. Fresh'
  BY DEF NotCovered, Goto, With, Typed, Fresh
<1>3. SeedOrder'
  BY DEF NotCovered, Goto, With, Typed, Fresh, SeedOrder, SeedTasksBeforeUsers, AfterSeeding
<1>4. StopOrder'
  BY DEF NotCovered, Goto, With, Typed, StopOrder
<1>5. SeededMeansCovered'
  BY DEF NotCovered, Goto, With, Typed, SeededMeansCovered
<1>6. SeedTasksBeforeUsers'
  BY DEF NotCovered, Goto, With, Typed, SeedOrder, SeedTasksBeforeUsers, AfterSeeding
<1>7. QED
  BY <1>1, <1>2, <1>3, <1>4, <1>5, <1>6

\* The events are deleted in the transaction.
LEMMA DeleteEventsIInv == ASSUME NEW w \in Workers, IInv, DeleteEvents(w) PROVE IInv'
<1>. USE DEF IInv, dbVars, memVars, readVars, histVars
<1>1. Typed'
  BY DEF DeleteEvents, Goto, With, Typed
<1>2. Fresh'
  BY DEF DeleteEvents, Goto, With, Typed, Fresh
<1>3. SeedOrder'
  BY DEF DeleteEvents, Goto, With, Typed, Fresh, SeedOrder, SeedTasksBeforeUsers, AfterSeeding
<1>4. StopOrder'
  BY DEF DeleteEvents, Goto, With, Typed, StopOrder
<1>5. SeededMeansCovered'
  BY DEF DeleteEvents, Goto, With, Typed, SeededMeansCovered
<1>6. SeedTasksBeforeUsers'
  BY DEF DeleteEvents, Goto, With, Typed, SeedOrder, SeedTasksBeforeUsers, AfterSeeding
<1>7. QED
  BY <1>1, <1>2, <1>3, <1>4, <1>5, <1>6

\* The seed events are committed.
LEMMA InsertEventsIInv == ASSUME NEW w \in Workers, IInv, InsertEvents(w) PROVE IInv'
<1>. USE DEF IInv, dbVars, memVars, readVars, histVars
<1>1. Typed'
  BY DEF InsertEvents, ServeFrom, SeedRows, Covers, Goto, With, Typed
<1>2. Fresh'
  BY DEF InsertEvents, ServeFrom, SeedRows, Covers, Goto, With, Typed, Fresh
<1>3. SeedOrder'
  BY DEF InsertEvents, ServeFrom, SeedRows, Covers, Goto, With, Typed, Fresh, SeedOrder, SeedTasksBeforeUsers, AfterSeeding
<1>4. StopOrder'
  BY DEF InsertEvents, ServeFrom, SeedRows, Covers, Goto, With, Typed, StopOrder
<1>5. SeededMeansCovered'
  <2>1. \A e \in events' : e.tactic \in Tactics
    BY <1>1 DEF Typed
  <2>2. \A t \in Tactics : \E e \in events' : e.tactic = t
    <3>1. \A t \in Tactics : [origin |-> "seed", by |-> w, tactic |-> t] \in events'
      BY DEF InsertEvents, SeedRows
    <3>2. QED
      BY <3>1
  <2>3. { e.tactic : e \in events' } = Tactics
    BY <2>1, <2>2
  <2>4. QED
    BY <2>3 DEF SeededMeansCovered, Covers
<1>6. SeedTasksBeforeUsers'
  BY DEF InsertEvents, ServeFrom, SeedRows, Covers, Goto, With, Typed, SeedOrder, SeedTasksBeforeUsers, AfterSeeding
<1>7. QED
  BY <1>1, <1>2, <1>3, <1>4, <1>5, <1>6

\* Events are ingested.
LEMMA IngestIInv == ASSUME NEW w \in Workers, IInv, Ingest(w) PROVE IInv'
<1>. USE DEF IInv, dbVars, memVars, readVars, histVars
<1>1. Typed'
  BY DEF Ingest, Covers, Goto, With, Typed
<1>2. Fresh'
  BY DEF Ingest, Covers, Goto, With, Typed, Fresh
<1>3. SeedOrder'
  BY DEF Ingest, Covers, Goto, With, Typed, Fresh, SeedOrder, SeedTasksBeforeUsers, AfterSeeding
<1>4. StopOrder'
  BY DEF Ingest, Covers, Goto, With, Typed, StopOrder
<1>5. SeededMeansCovered'
  BY DEF Ingest, Covers, Goto, With, Typed, SeededMeansCovered
<1>6. SeedTasksBeforeUsers'
  BY DEF Ingest, Covers, Goto, With, Typed, SeedOrder, SeedTasksBeforeUsers, AfterSeeding
<1>7. QED
  BY <1>1, <1>2, <1>3, <1>4, <1>5, <1>6

\* A user registers.
LEMMA RegisterIInv == ASSUME NEW w \in Workers, IInv, Register(w) PROVE IInv'
<1>. USE DEF IInv, dbVars, memVars, readVars, histVars
<1>1. Typed'
  BY DEF Register, Goto, With, Typed
<1>2. Fresh'
  BY DEF Register, Goto, With, Typed, Fresh
<1>3. SeedOrder'
  BY DEF Register, Goto, With, Typed, Fresh, SeedOrder, SeedTasksBeforeUsers, AfterSeeding
<1>4. StopOrder'
  BY DEF Register, Goto, With, Typed, StopOrder
<1>5. SeededMeansCovered'
  BY DEF Register, Goto, With, Typed, SeededMeansCovered
<1>6. SeedTasksBeforeUsers'
  BY DEF Register, Goto, With, Typed, SeedOrder, SeedTasksBeforeUsers, AfterSeeding
<1>7. QED
  BY <1>1, <1>2, <1>3, <1>4, <1>5, <1>6

\* A task starts.
LEMMA RunTaskIInv == ASSUME NEW w \in Workers, IInv, RunTask(w) PROVE IInv'
<1>. USE DEF IInv, dbVars, memVars, readVars, histVars
<1>1. Typed'
  BY DEF RunTask, Goto, With, Typed
<1>2. Fresh'
  BY DEF RunTask, Goto, With, Typed, Fresh
<1>3. SeedOrder'
  BY DEF RunTask, Goto, With, Typed, Fresh, SeedOrder, SeedTasksBeforeUsers, AfterSeeding
<1>4. StopOrder'
  BY DEF RunTask, Goto, With, Typed, StopOrder
<1>5. SeededMeansCovered'
  BY DEF RunTask, Goto, With, Typed, SeededMeansCovered
<1>6. SeedTasksBeforeUsers'
  BY DEF RunTask, Goto, With, Typed, SeedOrder, SeedTasksBeforeUsers, AfterSeeding
<1>7. QED
  BY <1>1, <1>2, <1>3, <1>4, <1>5, <1>6

\* A task is paused, cancelled or deleted; its run goes on.
LEMMA SetAsideIInv == ASSUME NEW w \in Workers, IInv, SetAside(w) PROVE IInv'
<1>. USE DEF IInv, dbVars, memVars, readVars, histVars
<1>1. Typed'
  BY DEF SetAside, Goto, With, Typed
<1>2. Fresh'
  BY DEF SetAside, Goto, With, Typed, Fresh
<1>3. SeedOrder'
  BY DEF SetAside, Goto, With, Typed, Fresh, SeedOrder, SeedTasksBeforeUsers, AfterSeeding
<1>4. StopOrder'
  BY DEF SetAside, Goto, With, Typed, StopOrder
<1>5. SeededMeansCovered'
  BY DEF SetAside, Goto, With, Typed, SeededMeansCovered
<1>6. SeedTasksBeforeUsers'
  BY DEF SetAside, Goto, With, Typed, SeedOrder, SeedTasksBeforeUsers, AfterSeeding
<1>7. QED
  BY <1>1, <1>2, <1>3, <1>4, <1>5, <1>6

\* Its status is "running" again.
LEMMA TakeBackIInv == ASSUME NEW w \in Workers, IInv, TakeBack(w) PROVE IInv'
<1>. USE DEF IInv, dbVars, memVars, readVars, histVars
<1>1. Typed'
  BY DEF TakeBack, Ends, Goto, With, Typed
<1>2. Fresh'
  BY DEF TakeBack, Ends, Goto, With, Typed, Fresh
<1>3. SeedOrder'
  BY DEF TakeBack, Ends, Goto, With, Typed, Fresh, SeedOrder, SeedTasksBeforeUsers, AfterSeeding
<1>4. StopOrder'
  BY DEF TakeBack, Ends, Goto, With, Typed, StopOrder
<1>5. SeededMeansCovered'
  BY DEF TakeBack, Ends, Goto, With, Typed, SeededMeansCovered
<1>6. SeedTasksBeforeUsers'
  BY DEF TakeBack, Ends, Goto, With, Typed, SeedOrder, SeedTasksBeforeUsers, AfterSeeding
<1>7. QED
  BY <1>1, <1>2, <1>3, <1>4, <1>5, <1>6

\* A task ends.
LEMMA TaskEndsIInv == ASSUME NEW w \in Workers, IInv, TaskEnds(w) PROVE IInv'
<1>. USE DEF IInv, dbVars, memVars, readVars, histVars
<1>1. Typed'
  BY DEF TaskEnds, Ends, Goto, With, Typed
<1>2. Fresh'
  BY DEF TaskEnds, Ends, Goto, With, Typed, Fresh
<1>3. SeedOrder'
  BY DEF TaskEnds, Ends, Goto, With, Typed, Fresh, SeedOrder, SeedTasksBeforeUsers, AfterSeeding
<1>4. StopOrder'
  BY DEF TaskEnds, Ends, Goto, With, Typed, StopOrder
<1>5. SeededMeansCovered'
  BY DEF TaskEnds, Ends, Goto, With, Typed, SeededMeansCovered
<1>6. SeedTasksBeforeUsers'
  BY DEF TaskEnds, Ends, Goto, With, Typed, SeedOrder, SeedTasksBeforeUsers, AfterSeeding
<1>7. QED
  BY <1>1, <1>2, <1>3, <1>4, <1>5, <1>6

\* The stop begins.
LEMMA BeginStopIInv == ASSUME NEW w \in Workers, IInv, BeginStop(w) PROVE IInv'
<1>. USE DEF IInv, dbVars, memVars, readVars, histVars
<1>1. Typed'
  BY DEF BeginStop, Goto, With, Typed
<1>2. Fresh'
  BY DEF BeginStop, Goto, With, Typed, Fresh
<1>3. SeedOrder'
  BY DEF BeginStop, Goto, With, Typed, Fresh, SeedOrder, SeedTasksBeforeUsers, AfterSeeding
<1>4. StopOrder'
  BY DEF BeginStop, Goto, With, Typed, StopOrder
<1>5. SeededMeansCovered'
  BY DEF BeginStop, Goto, With, Typed, SeededMeansCovered
<1>6. SeedTasksBeforeUsers'
  BY DEF BeginStop, Goto, With, Typed, SeedOrder, SeedTasksBeforeUsers, AfterSeeding
<1>7. QED
  BY <1>1, <1>2, <1>3, <1>4, <1>5, <1>6

\* The stop passes the running tasks.
LEMMA DrainTasksIInv == ASSUME NEW w \in Workers, IInv, DrainTasks(w) PROVE IInv'
<1>. USE DEF IInv, dbVars, memVars, readVars, histVars
<1>1. Typed'
  BY DEF DrainTasks, Gone, Goto, With, Typed
<1>2. Fresh'
  BY DEF DrainTasks, Gone, Goto, With, Typed, Fresh
<1>3. SeedOrder'
  <2>1. /\ step'[w] \in {"aborted", "stop logs"}
        /\ \A v \in Workers \ {w} : step'[v] = step[v] /\ factory'[v] = factory[v] /\ registry'[v] = registry[v]
        /\ UNCHANGED <<setback, taskRows>>
    BY DEF DrainTasks, Gone, Goto, With, Typed
  <2>2. QED
    BY <2>1 DEF SeedOrder, AfterSeeding
<1>4. StopOrder'
  BY DEF DrainTasks, Gone, Goto, With, Typed, StopOrder
<1>5. SeededMeansCovered'
  BY DEF DrainTasks, Gone, Goto, With, Typed, SeededMeansCovered
<1>6. SeedTasksBeforeUsers'
  BY DEF DrainTasks, Gone, Goto, With, Typed, SeedOrder, SeedTasksBeforeUsers, AfterSeeding
<1>7. QED
  BY <1>1, <1>2, <1>3, <1>4, <1>5, <1>6

\* The log handler is stopped.
LEMMA StopLogsIInv == ASSUME NEW w \in Workers, IInv, StopLogs(w) PROVE IInv'
<1>. USE DEF IInv, dbVars, memVars, readVars, histVars
<1>1. Typed'
  BY DEF StopLogs, Goto, With, Typed
<1>2. Fresh'
  BY DEF StopLogs, Goto, With, Typed, Fresh
<1>3. SeedOrder'
  BY DEF StopLogs, Goto, With, Typed, Fresh, SeedOrder, SeedTasksBeforeUsers, AfterSeeding
<1>4. StopOrder'
  BY DEF StopLogs, Goto, With, Typed, StopOrder
<1>5. SeededMeansCovered'
  BY DEF StopLogs, Goto, With, Typed, SeededMeansCovered
<1>6. SeedTasksBeforeUsers'
  BY DEF StopLogs, Goto, With, Typed, SeedOrder, SeedTasksBeforeUsers, AfterSeeding
<1>7. QED
  BY <1>1, <1>2, <1>3, <1>4, <1>5, <1>6

\* The ingestion loop is stopped.
LEMMA StopPollingIInv == ASSUME NEW w \in Workers, IInv, StopPolling(w) PROVE IInv'
<1>. USE DEF IInv, dbVars, memVars, readVars, histVars
<1>1. Typed'
  BY DEF StopPolling, Goto, With, Typed
<1>2. Fresh'
  BY DEF StopPolling, Goto, With, Typed, Fresh
<1>3. SeedOrder'
  BY DEF StopPolling, Goto, With, Typed, Fresh, SeedOrder, SeedTasksBeforeUsers, AfterSeeding
<1>4. StopOrder'
  BY DEF StopPolling, Goto, With, Typed, StopOrder
<1>5. SeededMeansCovered'
  BY DEF StopPolling, Goto, With, Typed, SeededMeansCovered
<1>6. SeedTasksBeforeUsers'
  BY DEF StopPolling, Goto, With, Typed, SeedOrder, SeedTasksBeforeUsers, AfterSeeding
<1>7. QED
  BY <1>1, <1>2, <1>3, <1>4, <1>5, <1>6

\* The engine is disposed of.
LEMMA CloseDatabaseIInv == ASSUME NEW w \in Workers, IInv, CloseDatabase(w) PROVE IInv'
<1>. USE DEF IInv, dbVars, memVars, readVars, histVars
<1>1. Typed'
  BY DEF CloseDatabase, Goto, With, Typed
<1>2. Fresh'
  BY DEF CloseDatabase, Goto, With, Typed, Fresh
<1>3. SeedOrder'
  BY DEF CloseDatabase, Goto, With, Typed, Fresh, SeedOrder, SeedTasksBeforeUsers, AfterSeeding
<1>4. StopOrder'
  BY DEF CloseDatabase, Goto, With, Typed, StopOrder
<1>5. SeededMeansCovered'
  BY DEF CloseDatabase, Goto, With, Typed, SeededMeansCovered
<1>6. SeedTasksBeforeUsers'
  BY DEF CloseDatabase, Goto, With, Typed, SeedOrder, SeedTasksBeforeUsers, AfterSeeding
<1>7. QED
  BY <1>1, <1>2, <1>3, <1>4, <1>5, <1>6

\* The driver is closed.
LEMMA CloseNeo4jIInv == ASSUME NEW w \in Workers, IInv, CloseNeo4j(w) PROVE IInv'
<1>. USE DEF IInv, dbVars, memVars, readVars, histVars
<1>1. Typed'
  BY DEF CloseNeo4j, Gone, Goto, With, Typed
<1>2. Fresh'
  BY DEF CloseNeo4j, Gone, Goto, With, Typed, Fresh
<1>3. SeedOrder'
  BY DEF CloseNeo4j, Gone, Goto, With, Typed, Fresh, SeedOrder, SeedTasksBeforeUsers, AfterSeeding
<1>4. StopOrder'
  BY DEF CloseNeo4j, Gone, Goto, With, Typed, StopOrder
<1>5. SeededMeansCovered'
  BY DEF CloseNeo4j, Gone, Goto, With, Typed, SeededMeansCovered
<1>6. SeedTasksBeforeUsers'
  BY DEF CloseNeo4j, Gone, Goto, With, Typed, SeedOrder, SeedTasksBeforeUsers, AfterSeeding
<1>7. QED
  BY <1>1, <1>2, <1>3, <1>4, <1>5, <1>6

\* The process ends.
LEMMA KilledIInv == ASSUME NEW w \in Workers, IInv, Killed(w) PROVE IInv'
<1>. USE DEF IInv, dbVars, memVars, readVars, histVars
<1>1. Typed'
  BY DEF Killed, Gone, Ends, Goto, With, Typed
<1>2. Fresh'
  BY DEF Killed, Gone, Ends, Goto, With, Typed, Fresh
<1>3. SeedOrder'
  BY DEF Killed, Gone, Ends, Goto, With, Typed, Fresh, SeedOrder, SeedTasksBeforeUsers, AfterSeeding
<1>4. StopOrder'
  BY DEF Killed, Gone, Ends, Goto, With, Typed, StopOrder
<1>5. SeededMeansCovered'
  BY DEF Killed, Gone, Ends, Goto, With, Typed, SeededMeansCovered
<1>6. SeedTasksBeforeUsers'
  BY DEF Killed, Gone, Ends, Goto, With, Typed, SeedOrder, SeedTasksBeforeUsers, AfterSeeding
<1>7. QED
  BY <1>1, <1>2, <1>3, <1>4, <1>5, <1>6

\* A step of the startup fails.
LEMMA FailsIInv == ASSUME NEW w \in Workers, IInv,
                 NEW here, NEW there, Fails(w, here, there),
                 <<here, there>> \in { <<"create", "neo4j">>, <<"seed tasks", "admin">>,
                                      <<"admin", "seed events">>, <<"make admin", "seed events">> }
          PROVE IInv'
<1>. USE DEF IInv, dbVars, memVars, readVars, histVars
<1>0. /\ \/ here = "create" /\ there = "neo4j"
         \/ here \in {"seed tasks", "admin", "make admin"} /\ there \in {"admin", "seed events"}
      /\ step[w] = here /\ step' = [step EXCEPT ![w] = there]
  BY DEF Fails, Goto
<1>1. Typed'
  BY DEF Fails, Goto, With, Typed
<1>2. Fresh'
  BY <1>0 DEF Fails, Goto, With, Typed, Fresh
<1>3. SeedOrder'
  BY DEF Fails, Goto, With, Typed, Fresh, SeedOrder, SeedTasksBeforeUsers, AfterSeeding
<1>4. StopOrder'
  BY <1>0 DEF Fails, Goto, With, Typed, StopOrder
<1>5. SeededMeansCovered'
  BY DEF Fails, Goto, With, Typed, SeededMeansCovered
<1>6. SeedTasksBeforeUsers'
  BY DEF Fails, Goto, With, Typed, SeedOrder, SeedTasksBeforeUsers, AfterSeeding
<1>7. QED
  BY <1>1, <1>2, <1>3, <1>4, <1>5, <1>6

\* The seeding of events fails.
LEMMA SeedEventsFailsIInv == ASSUME NEW w \in Workers, IInv, NEW here \in SeedSteps, SeedEventsFails(w, here) PROVE IInv'
<1>. USE DEF IInv, dbVars, memVars, readVars, histVars
<1>1. Typed'
  BY DEF SeedSteps, SeedEventsFails, ServeFrom, Goto, With, Typed
<1>2. Fresh'
  BY DEF SeedSteps, SeedEventsFails, ServeFrom, Goto, With, Typed, Fresh
<1>3. SeedOrder'
  BY DEF SeedSteps, SeedEventsFails, ServeFrom, Goto, With, Typed, Fresh, SeedOrder, SeedTasksBeforeUsers, AfterSeeding
<1>4. StopOrder'
  BY DEF SeedSteps, SeedEventsFails, ServeFrom, Goto, With, Typed, StopOrder
<1>5. SeededMeansCovered'
  BY DEF SeedSteps, SeedEventsFails, ServeFrom, Goto, With, Typed, SeededMeansCovered
<1>6. SeedTasksBeforeUsers'
  BY DEF SeedSteps, SeedEventsFails, ServeFrom, Goto, With, Typed, SeedOrder, SeedTasksBeforeUsers, AfterSeeding
<1>7. QED
  BY <1>1, <1>2, <1>3, <1>4, <1>5, <1>6

\* Every step preserves the inductive invariant.
LEMMA NextIInv == IInv /\ [Next]_vars => IInv'
<1>. SUFFICES ASSUME IInv, [Next]_vars PROVE IInv'
  OBVIOUS
<1>1. CASE UNCHANGED vars
  BY <1>1 DEF vars, dbVars, memVars, readVars, histVars, IInv, Typed, Fresh, SeedOrder, StopOrder,
     SeededMeansCovered, Covers, SeedTasksBeforeUsers
<1>2. CASE Next
  BY <1>2, StartIInv, ConnectIInv, CreateIInv, RecoverIInv, Neo4jIInv, SeedTasksIInv,
     SeedTaskIInv, SeedTasksDoneIInv, FindAdminIInv, MakeAdminIInv,
     AnyEventsIInv, CoveredAlreadyIInv, NotCoveredIInv, DeleteEventsIInv,
     InsertEventsIInv, IngestIInv, RegisterIInv, RunTaskIInv, SetAsideIInv,
     TakeBackIInv, TaskEndsIInv,
     BeginStopIInv, DrainTasksIInv, StopLogsIInv, StopPollingIInv,
     CloseDatabaseIInv, CloseNeo4jIInv, KilledIInv, FailsIInv,
     SeedEventsFailsIInv
  DEF Next, Startup, Serve, Stop
<1>3. QED
  BY <1>1, <1>2

\* The inductive invariant holds in every reachable state.
THEOREM IInvHolds == Spec => []IInv
  BY InitIInv, NextIInv, PTL DEF Spec

\* Once a startup has seeded the events, they cover every tactic for good, for
\* any number of workers, tactics, failures and ingested events.
THEOREM SeededMeansCoveredAlways == Spec => []SeededMeansCovered
<1>1. IInv => SeededMeansCovered
  BY DEF IInv
<1>2. QED
  BY <1>1, IInvHolds, PTL

\* Unless a step of a startup failed, a database with users has every seed task.
THEOREM SeedTasksBeforeUsersAlways == Spec => []SeedTasksBeforeUsers
<1>1. IInv => SeedTasksBeforeUsers
  BY DEF IInv
<1>2. QED
  BY <1>1, IInvHolds, PTL

\* An orderly stop closes the database after the loops that use it have ended.
THEOREM LoopsEndBeforeClosingAlways == Spec => []LoopsEndBeforeClosing
<1>1. IInv => LoopsEndBeforeClosing
  BY DEF IInv, StopOrder, LoopsEndBeforeClosing
<1>2. QED
  BY <1>1, IInvHolds, PTL
=============================================================================
