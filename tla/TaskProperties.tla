---------------------------- MODULE TaskProperties ----------------------------
(***************************************************************************)
(* What TaskManager guarantees, under which fairness, and the statements   *)
(* of the documentation that it does not keep.                             *)
(***************************************************************************)
EXTENDS TaskManager

Exists(t) == mem[t] # None

\* The task is still there after the step, in the same process.
Stays(t) == mem'[t] # None /\ boots' = boots

\* A run that can still take a step of its own, now or after a wait.
Alive(t) == stage[Run(t)] \notin {"off", "final", "done"}

\* A generate request is still between create and register.
Starting(t) ==
  \E r \in Requests : /\ stage[Req(r)] \in {"creating", "starting"}
                      /\ io[Req(r)].task = t

-----------------------------------------------------------------------------
(* Safety.                                                                 *)

\* No lost wakeup: a run or heartbeat waits at the pause gate only while the
\* task that clients see is paused, so that resume and cancel release it.  The
\* status and the event are separate fields set by different endpoints, and
\* update() changes the status without the event.
GateMeansPaused ==
  \A a \in Coroutines :
    stage[a] = "gate" =>
      Exists(a[2]) /\ mem[a[2]].status = "paused" /\ ~mem[a[2]].open

\* No orphan: a task shown as running or paused has a run that will finish it,
\* or a generate request about to register one; set_session_factory() has to
\* see to it after a restart.
ActiveHasWorker ==
  \A t \in Tasks \ deleted :
    Exists(t) /\ mem[t].status \in InProgress => Alive(t) \/ Starting(t)

\* A task that says its company is stored is right, in memory and in its row, and
\* a completed task that is not deleted says what became of its company.  The
\* columns of a row are written by overlapping persists that each set only some
\* of them; the INSERT of a persist that a delete request overtook would complete
\* a row without its result.
CompletedAccountsForCompany ==
  \A t \in Tasks : \A x \in {mem[t], row[t]} \ {None} :
    /\ x.status = "completed" /\ t \notin deleted => x.result # "none"
    /\ x.result = "stored" => company[t]

\* Once the persists of a task are over, its row is what memory says, unless
\* two of them overlapped or a database call failed, or the task was deleted.
QuietRowMatches ==
  \A t \in Tasks \ (deleted \cup raced) :
    Exists(t) /\ ~(\E a \in Actors : Persisting(a, t)) => row[t] = RowOf(mem[t])

\* Between restarts the outcome of a run is final: no late pause, resume, cancel, heartbeat or
\* lookup changes the status of a completed or failed task.
OutcomeIsFinal ==
  [][\A t \in Tasks \ deleted :
       Exists(t) /\ mem[t].status \in {"completed", "failed"} /\ Stays(t)
         => mem'[t].status = mem[t].status]_vars

\* Between restarts progress never goes back, although the heartbeat of a finished model call
\* and the next phase report it concurrently.
ProgressNeverRegresses ==
  [][\A t \in Tasks \ deleted :
       Exists(t) /\ Stays(t) => mem'[t].progress >= mem[t].progress]_vars

\* What a delete request removed stays removed, once no persist of the task and
\* no lookup that found its row is in flight: a run that outlives its task does
\* not bring it back by itself.
GoneIsGone ==
  [][\A t \in deleted :
       /\ mem[t] = None /\ row[t] = None
       /\ \A a \in Actors : ~Persisting(a, t)
                           /\ ~(io[a].task = t /\ io[a].at = "loaded" /\ io[a].data # None)
       => mem'[t] = None /\ row'[t] = None]_vars

-----------------------------------------------------------------------------
(* The abstract life cycle of a task, implemented by the registry.         *)

AbstractStatus ==
  [t \in Tasks |-> IF mem[t] = None THEN "absent" ELSE mem[t].status]
AbstractWorker ==
  [t \in Tasks |->
     IF stage[Run(t)] \in {"final", "done"} THEN "over"
     ELSE IF stage[Run(t)] # "off" THEN "working"
     ELSE IF Starting(t) THEN "starting" ELSE "none"]

Lifecycle == INSTANCE TaskLifecycle
               WITH status <- AbstractStatus, worker <- AbstractWorker,
                    forgotten <- deleted
ImplementsLifecycle == Lifecycle!Spec

-----------------------------------------------------------------------------
(* Liveness.  The event loop runs every coroutine that can run, PostgreSQL *)
(* answers, and wait_for bounds every model call; clients need not do      *)
(* anything, and neither a heartbeat nor a restart has to happen.          *)

Fairness ==
  /\ \A a \in Actors : WF_vars(DatabaseStep(a) /\ History)
  /\ \A r \in Requests : WF_vars(RequestStep(r) /\ History)
  /\ \A a \in Coroutines : WF_vars(OnProgressStep(a) /\ History)
  /\ \A t \in Tasks : WF_vars(GenerationStep(t) /\ History)
  /\ \A t \in Tasks : WF_vars(StopHeartbeat(t) /\ History)

FairSpec == Spec /\ Fairness

\* A run comes to its end, or waits at the gate of a task that is paused or was
\* deleted while it was paused: no retry, heartbeat, failed lookup or lost
\* CancelledError leaves it hanging elsewhere.
RunEnds ==
  \A t \in Tasks :
    stage[Run(t)] \in {"registered", "llm"}
      ~> stage[Run(t)] \in {"off", "done", "gate", "adrift"}

\* Unless it is deleted, a cancelled task with a run does not keep it for ever, even if the
\* CancelledError was swallowed or the run was waiting at the pause gate.
CancelEndsRun ==
  \A t \in Tasks :
    (Exists(t) /\ mem[t].status = "cancelled" /\ mem[t].coro)
      ~> stage[Run(t)] \in {"off", "done"} \/ t \in deleted

\* The outcome of a task reaches its row, unless its persists overlapped or
\* failed, it was deleted, or the process restarted first.
OutcomeReachesRow ==
  \A t \in Tasks : \A s \in Settled :
    (Exists(t) /\ mem[t].status = s)
      ~> \/ row[t] # None /\ row[t].status = s
         \/ t \in raced \cup deleted
         \/ ~Exists(t) \/ mem[t].status # s

-----------------------------------------------------------------------------
(* What the documentation says and the code does not do.                   *)

\* README.md:208, pause "Freezes generation mid-phase": a paused task does not
\* complete.
PausedDoesNotComplete ==
  [][\A t \in Tasks :
       Exists(t) /\ mem[t].status = "paused" /\ Exists(t)'
         => mem'[t].status # "completed"]_vars

\* README.md:210, cancel "Cancels the asyncio task": a task whose run was
\* registered and then cancelled does not complete.
CancelledDoesNotComplete ==
  [][\A t \in Tasks :
       Exists(t) /\ mem[t].status = "cancelled" /\ Exists(t)'
         => mem'[t].status # "completed"]_vars

\* README.md:212, delete "Removes task from history": once a delete request has
\* been answered, the task has no row.
DeletedIsRemoved ==
  \A t \in deleted :
    (\A r \in Requests : ~(stage[Req(r)] = "deleting" /\ io[Req(r)].task = t))
      => row[t] = None
=============================================================================
