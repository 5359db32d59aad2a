----------------------------- MODULE Deployment -----------------------------
(***************************************************************************)
(* Deploying a company to the honeypots (api/deploy.py and                 *)
(* services/honeypot_deployer.py): the user database, the decoy files and  *)
(* the marker active_company.json on the volume that the backend's worker  *)
(* processes share, and Cowrie, which reads them when it is restarted.     *)
(*                                                                         *)
(* The file operations of a request have no await between them: requests   *)
(* of one worker interleave around them, those of another worker fall      *)
(* between any two of them.                                                *)
(***************************************************************************)
EXTENDS Naturals, Sequences, FiniteSets

CONSTANTS Companies,  \* the companies a request may name
          Employees,  \* per company, the names of its employees
          Requests,   \* bound: the deploy and undeploy requests
          Workers,    \* the worker processes
          MaxFaults,  \* bound: failed file operations, restarts, and crashes
          None

ASSUME DeploymentAssumption ==
    /\ {None, "absent", "empty"} \cap Companies = {}
    /\ Workers # {}
    /\ MaxFaults \in Nat

VARIABLES
    stored,   \* the companies in the database
    userdb,   \* userdb.txt: None, or the company it was written for
    files,    \* contents/: the decoy files, each with the company it tells of
    marker,   \* active_company.json: "absent", "empty" or a company
    cowrie,   \* what Cowrie loaded when it was last restarted
    step,     \* per request, its next step
    job,      \* per request, the company to deploy, or None to undeploy
    host,     \* per request, the worker that serves it
    prev,     \* per request, the marker it found
    result,   \* per request, its outcome
    overlap,  \* history: file operations of two workers have overlapped
    broken,   \* history: a file operation failed or a worker crashed
    unloaded, \* history: a restart of Cowrie failed, or never came
    faults

diskVars == <<userdb, files, marker>>
reqVars == <<step, job, host, prev, result>>
histVars == <<overlap, broken, unloaded, faults>>
vars == <<stored, diskVars, cowrie, reqVars, histVars>>

Goto(r, s) == step' = [step EXCEPT ![r] = s]

\* The steps of a request that has touched files and is not done with them.
InFiles(r) ==
    step[r] \in {"contents", "open marker", "write marker",
                 "remove marker", "remove userdb", "remove contents"}

\* An event loop does nothing else until a request's file operations are done.
LoopFree(w) == \A r \in Requests : InFiles(r) => host[r] # w

\* Does the step of a request fall between the file operations of another?
Meets(r) == \E q \in Requests \ {r} : InFiles(q)

Ends(r, outcome) ==
    /\ Goto(r, "done")
    /\ result' = [result EXCEPT ![r] = outcome]

-----------------------------------------------------------------------------
(* deploy                                                                  *)

\* An administrator asks some worker to deploy a company, or to undeploy.
Ask(r) ==
    /\ step[r] = "idle"
    /\ \E w \in Workers, c \in Companies \cup {None} :
         /\ host' = [host EXCEPT ![r] = w]
         /\ job' = [job EXCEPT ![r] = c]
         /\ Goto(r, IF c = None THEN "undeploy" ELSE "deploy")
    /\ UNCHANGED <<stored, diskVars, cowrie, prev, result, histVars>>

\* The company is looked up (404), then the marker is read: one that holds no
\* JSON raises an error.
Check(r) ==
    /\ step[r] = "deploy"
    /\ LoopFree(host[r])
    /\ prev' = [prev EXCEPT ![r] = marker]
    /\ overlap' = (overlap \/ (job[r] \in stored /\ Meets(r)))
    /\ IF job[r] \notin stored THEN Ends(r, "not found")
       ELSE IF marker = "empty" THEN Ends(r, "error")
       ELSE Goto(r, "load") /\ UNCHANGED result
    /\ UNCHANGED <<stored, diskVars, cowrie, job, host, broken, unloaded, faults>>

\* Mutant of WriteUserdb: the marker is written before the decoys.
WriteUserdbAndMarker(r) ==
    /\ step[r] = "load"
    /\ LoopFree(host[r])
    /\ userdb' = job[r]
    /\ marker' = job[r]
    /\ Goto(r, "contents")
    /\ overlap' = (overlap \/ Meets(r))
    /\ UNCHANGED <<stored, files, cowrie, job, host, prev, result, broken, unloaded, faults>>

\* The employees have been read: the user database is written.
WriteUserdb(r) ==
    /\ step[r] = "load"
    /\ LoopFree(host[r])
    /\ userdb' = job[r]
    /\ Goto(r, "contents")
    /\ overlap' = (overlap \/ Meets(r))
    /\ UNCHANGED <<stored, files, marker, cowrie, job, host, prev, result, broken, unloaded, faults>>

\* The decoys in the order of their writing: most have a fixed path; the web
\* root has the company's name; at last, each employee has a home directory.
SystemPaths(c) ==
    << <<"etc", "hostname">>, <<"etc", "nginx">>, <<"var", "db_dump">>, <<"var", "auth.log">>,
       <<"var", "www", c>>, <<"opt", "config">>, <<"tmp", "credentials">> >>

SystemFiles(c, n) == { [path |-> SystemPaths(c)[i], of |-> c] : i \in 1..n }

Homes(c) == { [path |-> <<"home", e>>, of |-> c] : e \in Employees[c] }

Decoys(c) == SystemFiles(c, Len(SystemPaths(c))) \cup Homes(c)

\* Mutant of Written: a file that is already there is not written again.
WrittenOnce(old, new) == old \cup { d \in new : \A o \in old : o.path # d.path }

\* Writing replaces what was at a path and leaves the other paths alone: the
\* homes of an earlier deployment stay.
Written(old, new) == new \cup { d \in old : \A n \in new : n.path # d.path }

WriteContents(r) ==
    /\ step[r] = "contents"
    /\ files' = Written(files, Decoys(job[r]))
    /\ Goto(r, "open marker")
    /\ UNCHANGED <<stored, userdb, marker, cowrie, job, host, prev, result, histVars>>

\* open(..., "w") empties the marker, the dump that follows fills it.
OpenMarker(r) ==
    /\ step[r] = "open marker"
    /\ marker' = "empty"
    /\ Goto(r, "write marker")
    /\ UNCHANGED <<stored, userdb, files, cowrie, job, host, prev, result, histVars>>

WriteMarker(r) ==
    /\ step[r] = "write marker"
    /\ marker' = job[r]
    /\ Goto(r, "restart")
    /\ UNCHANGED <<stored, userdb, files, cowrie, job, host, prev, result, histVars>>

-----------------------------------------------------------------------------
(* undeploy                                                                *)

\* The marker, if there is one, is read ...
ReadMarker(r) ==
    /\ step[r] = "undeploy"
    /\ LoopFree(host[r])
    /\ prev' = [prev EXCEPT ![r] = marker]
    /\ overlap' = (overlap \/ Meets(r))
    /\ CASE marker = "empty"  -> Ends(r, "error")
         [] marker = "absent" -> Goto(r, "remove userdb") /\ UNCHANGED result
         [] OTHER             -> Goto(r, "remove marker") /\ UNCHANGED result
    /\ UNCHANGED <<stored, diskVars, cowrie, job, host, broken, unloaded, faults>>

\* ... and removed, unless another worker was faster.
RemoveMarker(r) ==
    /\ step[r] = "remove marker"
    /\ marker' = "absent"
    /\ IF marker = "absent" THEN Ends(r, "error")
       ELSE Goto(r, "remove userdb") /\ UNCHANGED result
    /\ UNCHANGED <<stored, userdb, files, cowrie, job, host, prev, histVars>>

RemoveUserdb(r) ==
    /\ step[r] = "remove userdb"
    /\ userdb' = None
    /\ Goto(r, "remove contents")
    /\ UNCHANGED <<stored, files, marker, cowrie, job, host, prev, result, histVars>>

\* Mutant of RemoveContents: Cowrie is left as it is.
RemoveContentsOnly(r) ==
    /\ step[r] = "remove contents"
    /\ files' = {}
    /\ Ends(r, IF prev[r] = "absent" THEN "error" ELSE "done")
    /\ UNCHANGED <<stored, userdb, marker, cowrie, job, host, prev, histVars>>

RemoveContents(r) ==
    /\ step[r] = "remove contents"
    /\ files' = {}
    /\ Goto(r, "restart")
    /\ UNCHANGED <<stored, userdb, marker, cowrie, job, host, prev, result, histVars>>

-----------------------------------------------------------------------------
(* The end of both, and what may fail.                                     *)

\* Mutant of Outcome: deploy, too, needs the name of the previous deployment.
OutcomeUnbound(r) == IF prev[r] = "absent" THEN "error" ELSE "done"

\* undeploy_company() reports the name it read from the marker, through a
\* variable that is bound only if there was one: UnboundLocalError.
Outcome(r) == IF job[r] = None /\ prev[r] = "absent" THEN "error" ELSE "done"

\* Docker restarts Cowrie, which loads what is there.
Restart(r) ==
    /\ step[r] = "restart"
    /\ LoopFree(host[r])
    /\ cowrie' = [userdb |-> userdb, files |-> files]
    /\ Ends(r, Outcome(r))
    /\ UNCHANGED <<stored, diskVars, job, host, prev, histVars>>

\* No socket, a refusal or an exception: the request succeeds all the same.
RestartFails(r) ==
    /\ faults < MaxFaults
    /\ step[r] = "restart"
    /\ LoopFree(host[r])
    /\ Ends(r, Outcome(r))
    /\ unloaded' = TRUE
    /\ faults' = faults + 1
    /\ UNCHANGED <<stored, diskVars, cowrie, job, host, prev, overlap, broken>>

\* What request r leaves when it gets no further than its present step: of the
\* decoys it writes, those that come first; of the directories it removes, any.
CutOff(r) ==
    IF step[r] = "contents" THEN
      { Written(files, SystemFiles(job[r], n)) : n \in 0..Len(SystemPaths(job[r])) } \cup
      { Written(files, SystemFiles(job[r], Len(SystemPaths(job[r]))) \cup homes) :
          homes \in SUBSET Homes(job[r]) }
    ELSE IF step[r] = "remove contents" THEN
      { { d \in files : d.path[1] \notin gone } :
          gone \in SUBSET {"etc", "var", "opt", "tmp", "home"} }
    ELSE {files}

\* A file operation raises: the request ends there.
FileFails(r) ==
    /\ faults < MaxFaults
    /\ InFiles(r) \/ (step[r] = "load" /\ LoopFree(host[r]))
    /\ files' \in CutOff(r)
    /\ Ends(r, "error")
    /\ broken' = TRUE
    /\ unloaded' = TRUE
    /\ faults' = faults + 1
    /\ UNCHANGED <<stored, userdb, marker, cowrie, job, host, prev, overlap>>

\* A worker dies with the requests it serves, of which one at most is busy with
\* the files.
Crash(w) ==
    /\ faults < MaxFaults
    /\ LET dead == { r \in Requests : step[r] \notin {"idle", "done"} /\ host[r] = w }
       IN  /\ dead # {}
           /\ step' = [r \in Requests |-> IF r \in dead THEN "done" ELSE step[r]]
           /\ result' = [r \in Requests |-> IF r \in dead THEN "lost" ELSE result[r]]
           /\ \E r \in dead : files' \in CutOff(r)
    /\ broken' = TRUE
    /\ unloaded' = TRUE
    /\ faults' = faults + 1
    /\ UNCHANGED <<stored, userdb, marker, cowrie, job, host, prev, overlap>>

Init ==
    /\ stored \in SUBSET Companies
    /\ stored # {}
    /\ userdb = None
    /\ files = {}
    /\ marker = "absent"
    /\ cowrie = [userdb |-> None, files |-> {}]
    /\ step = [r \in Requests |-> "idle"]
    /\ job = [r \in Requests |-> None]
    /\ host = [r \in Requests |-> CHOOSE w \in Workers : TRUE]
    /\ prev = [r \in Requests |-> "absent"]
    /\ result = [r \in Requests |-> "none"]
    /\ overlap = FALSE
    /\ broken = FALSE
    /\ unloaded = FALSE
    /\ faults = 0

Deploy(r) == Check(r) \/ WriteUserdb(r) \/ WriteContents(r) \/ OpenMarker(r) \/ WriteMarker(r)
Undeploy(r) == ReadMarker(r) \/ RemoveMarker(r) \/ RemoveUserdb(r) \/ RemoveContents(r)

Next ==
    \/ \E r \in Requests : Ask(r) \/ Deploy(r) \/ Undeploy(r) \/ Restart(r) \/ RestartFails(r) \/ FileFails(r)
    \/ \E w \in Workers : Crash(w)

Spec == Init /\ [][Next]_vars

-----------------------------------------------------------------------------
(* Properties.                                                             *)

Quiet == \A r \in Requests : step[r] \in {"idle", "done"}

\* A marker that can be read promises files: deploy writes it last and undeploy
\* removes it first, so that no crash or failed operation of any request leaves
\* a marker without a user database and decoys, as long as the file operations
\* of two workers do not overlap.
MarkerHasFiles == (~overlap /\ marker \in Companies) => userdb # None /\ files # {}

\* Without failures, a deployment is all of one company: the marker, the user
\* database and each of its decoys, those included that an earlier deployment
\* had put at the same path.
DeployedIsWhole ==
    (Quiet /\ ~overlap /\ ~broken /\ marker \in Companies)
        => userdb = marker /\ Decoys(marker) \subseteq files

\* When all requests are done and every restart of Cowrie succeeded, Cowrie
\* runs what is on the volume, in whatever order the requests of all workers
\* wrote and restarted.
CowrieIsCurrent ==
    (Quiet /\ ~unloaded) => cowrie = [userdb |-> userdb, files |-> files]

\* A request ends in an error only for a reason: a failed operation, a crash
\* that left an empty marker, the overlap of two workers, or an undeploy when
\* nothing was deployed.
ErrorsHaveReasons ==
    \A r \in Requests :
        result[r] = "error" => broken \/ overlap \/ (job[r] = None /\ prev[r] = "absent")
=============================================================================
