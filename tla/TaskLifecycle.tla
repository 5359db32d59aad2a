---------------------------- MODULE TaskLifecycle ----------------------------
(***************************************************************************)
(* What a client of the lifecycle endpoints may rely on about the status   *)
(* of a generation task, whatever the interleaving of requests, run,       *)
(* heartbeat, database calls and restarts:                                 *)
(*   - the status is decided once, when the work ends, and is then final;  *)
(*   - work starts only through a generate request, and at most once;      *)
(*   - a task is cancelled only by a cancel request, which the work may     *)
(*     still overrule by completing or failing;                            *)
(*   - after a restart no task is running or paused.                       *)
(* Nothing is promised of a task once it has been deleted.                 *)
(***************************************************************************)
CONSTANT Tasks

VARIABLES
  status,    \* what the registry says of each id
  worker,    \* the work behind each id
  forgotten  \* ids that have been deleted

lifecycle == <<status, worker, forgotten>>

Unfinished == {"pending", "running", "paused"}
Settled    == {"completed", "failed", "cancelled"}

Init ==
  /\ status = [t \in Tasks |-> "absent"]
  /\ worker = [t \in Tasks |-> "none"]
  /\ forgotten = {}

Becomes(t, s, w) ==
  /\ status' = [status EXCEPT ![t] = s]
  /\ worker' = [worker EXCEPT ![t] = w]
  /\ UNCHANGED forgotten

Submit(t) == status[t] = "absent" /\ worker[t] = "none" /\ Becomes(t, "pending", "starting")

\* Overrules a cancel that came between the creation of the task and this.
Begin(t) ==
  /\ worker[t] = "starting"
  /\ status[t] \in {"pending", "cancelled"}
  /\ Becomes(t, "running", "starting")

Launch(t) ==
  /\ worker[t] = "starting"
  /\ status[t] \in {"running", "paused", "cancelled"}
  /\ Becomes(t, status[t], "working")

Pause(t)  == status[t] = "running" /\ Becomes(t, "paused", worker[t])
Resume(t) == status[t] = "paused" /\ Becomes(t, "running", worker[t])
Cancel(t) == status[t] \in Unfinished /\ Becomes(t, "cancelled", worker[t])

Conclude(t, s) ==
  /\ worker[t] = "working"
  /\ s = "cancelled" => status[t] = "cancelled"
  /\ Becomes(t, s, "over")

\* A task that is only in the database is read back.
Recall(t, s) == status[t] = "absent" /\ worker[t] = "none" /\ Becomes(t, s, "none")

Forget(t) ==
  /\ forgotten' = forgotten \cup {t}
  /\ status' = [status EXCEPT ![t] = "absent"]
  /\ UNCHANGED worker

\* Anything may happen to a deleted task: its run and the lookups that raced
\* the deletion can bring it back.
Wander(t) ==
  /\ t \in forgotten
  /\ \E s \in Unfinished \cup Settled \cup {"absent"},
        w \in {"none", "starting", "working", "over"} : Becomes(t, s, w)

Reboot ==
  /\ \A t \in Tasks \ forgotten : status'[t] \in {"absent", "pending", "failed"}
  /\ \A t \in Tasks \ forgotten : status'[t] = "pending" => status[t] # "absent"
  /\ worker' = [t \in Tasks |-> "none"]
  /\ UNCHANGED forgotten

Next ==
  \/ \E t \in Tasks :
       \/ Submit(t) \/ Begin(t) \/ Launch(t) \/ Pause(t) \/ Resume(t) \/ Cancel(t)
       \/ \E s \in Settled : Conclude(t, s) \/ Recall(t, s)
       \/ Forget(t) \/ Wander(t)
  \/ Reboot

Spec == Init /\ [][Next]_lifecycle
=============================================================================
