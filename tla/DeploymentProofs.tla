--------------------------- MODULE DeploymentProofs ---------------------------
(***************************************************************************)
(* That the safety invariants of Deployment hold for any companies,        *)
(* employees, requests, workers and failures.  IInv adds to each what the  *)
(* requests that are under way have achieved by then.                      *)
(***************************************************************************)
EXTENDS Deployment, TLAPS

Steps == {"idle", "deploy", "load", "contents", "open marker", "write marker", "undeploy",
          "remove marker", "remove userdb", "remove contents", "restart", "done"}

Markers == Companies \cup {"absent", "empty"}

\* The types that the proof needs.
Typed ==
    /\ step \in [Requests -> Steps]
    /\ job \in [Requests -> Companies \cup {None}]
    /\ prev \in [Requests -> Markers]
    /\ DOMAIN result = Requests
    /\ marker \in Markers
    /\ userdb \in Companies \cup {None}
    /\ stored \subseteq Companies

\* What a request has been asked for, at each of its steps; its outcome comes
\* with its end.
Purposes ==
    \A r \in Requests :
        /\ step[r] \in {"deploy", "load", "contents", "open marker", "write marker"} => job[r] \in Companies
        /\ step[r] \in {"undeploy", "remove marker", "remove userdb", "remove contents"} => job[r] = None
        /\ result[r] = "error" => step[r] = "done"

\* Without an overlap the files are the business of one request at a time.
OneInFiles == ~overlap => \A q, r \in Requests : InFiles(q) /\ InFiles(r) => q = r

\* How far the files are, by the step of the request that is busy with them.
Progress ==
    ~overlap => \A r \in Requests :
        /\ step[r] = "contents" => userdb # None
        /\ step[r] \in {"open marker", "write marker"} => userdb # None /\ files # {}
        /\ step[r] = "remove marker" => marker # "absent"
        /\ step[r] \in {"remove userdb", "remove contents"} => marker \notin Companies

\* Without failures, whose the files are, and why the marker may be empty.
Wholeness ==
    (~overlap /\ ~broken) =>
        /\ \A r \in Requests :
             /\ step[r] = "contents" => userdb = job[r]
             /\ step[r] \in {"open marker", "write marker"} => userdb = job[r] /\ Decoys(job[r]) \subseteq files
        /\ (marker \in Companies /\ \A r \in Requests : ~InFiles(r))
             => userdb = marker /\ Decoys(marker) \subseteq files
        /\ marker = "empty" => \E r \in Requests : step[r] = "write marker"

\* The steps after which a restart of Cowrie is still to come.
Changing == {"contents", "open marker", "write marker", "remove userdb", "remove contents", "restart"}

RestartIsDue ==
    ~unloaded => \/ cowrie = [userdb |-> userdb, files |-> files]
                 \/ \E r \in Requests : step[r] \in Changing

IInv ==
    /\ Typed /\ Purposes /\ OneInFiles /\ Progress /\ Wholeness /\ RestartIsDue
    /\ MarkerHasFiles /\ ErrorsHaveReasons

-----------------------------------------------------------------------------

\* The decoys of a company are never none, and what is written is there.
LEMMA DecoysAreThere ==
    ASSUME NEW c, NEW old
    PROVE  /\ Decoys(c) # {}
           /\ Decoys(c) \subseteq Written(old, Decoys(c))
           /\ Written(old, Decoys(c)) # {}
<1>1. 1 \in 1..Len(SystemPaths(c))
  BY DEF SystemPaths
<1>2. [path |-> SystemPaths(c)[1], of |-> c] \in Decoys(c)
  BY <1>1 DEF Decoys, SystemFiles
<1>3. Decoys(c) \subseteq Written(old, Decoys(c))
  BY DEF Written
<1>4. QED
  BY <1>2, <1>3

\* A request that is cut off leaves files where there were some, unless it was
\* about to remove them; it leaves them alone outside the decoys.
LEMMA CutOffLeaves ==
    ASSUME NEW r, NEW new \in CutOff(r)
    PROVE  /\ (files # {} /\ step[r] # "remove contents") => new # {}
           /\ step[r] \notin {"contents", "remove contents"} => new = files
<1>1. ASSUME NEW part, files # {} PROVE Written(files, part) # {}
  <2>1. PICK d \in files : TRUE
    BY <1>1
  <2>2. d \in Written(files, part) \/ part # {}
    BY DEF Written
  <2>3. part \subseteq Written(files, part)
    BY DEF Written
  <2>4. QED
    BY <2>2, <2>3
<1>2. step[r] = "contents" => \E part : new = Written(files, part)
  BY DEF CutOff
<1>3. step[r] \notin {"contents", "remove contents"} => new = files
  BY DEF CutOff
<1>4. QED
  BY <1>1, <1>2, <1>3

\* The initial states satisfy the inductive invariant.
LEMMA InitIInv == Init => IInv
<1>. SUFFICES ASSUME Init PROVE IInv
  OBVIOUS
<1>. USE DEF Init
<1>1. Typed
  BY DEF Typed, Steps, Markers
<1>2. Purposes
  BY DEF Purposes
<1>3. \A r \in Requests : ~InFiles(r)
  BY DEF InFiles
<1>4. OneInFiles /\ Progress /\ RestartIsDue
  BY <1>3 DEF OneInFiles, Progress, RestartIsDue
<1>5. Wholeness /\ MarkerHasFiles /\ ErrorsHaveReasons
  BY DeploymentAssumption DEF Wholeness, MarkerHasFiles, ErrorsHaveReasons
<1>6. QED
  BY <1>1, <1>2, <1>4, <1>5 DEF IInv

\* Asking touches no file.
LEMMA AskIInv == ASSUME NEW r \in Requests, IInv, Ask(r) PROVE IInv'
<1>. USE DeploymentAssumption DEF IInv, diskVars, histVars
<1>1. Typed'
  BY DEF Ask, Goto, Typed, Steps, Markers
<1>2. Purposes'
  BY DEF Ask, Goto, Typed, Purposes
<1>3. OneInFiles'
  BY DEF Ask, Goto, Typed, OneInFiles, InFiles
<1>4. Progress'
  <2>1. step'[r] \in {"deploy", "undeploy"} /\ \A q \in Requests \ {r} : step'[q] = step[q]
    BY DEF Ask, Goto, Typed
  <2>2. UNCHANGED <<userdb, files, marker, overlap>>
    BY DEF Ask
  <2>3. QED
    BY <2>1, <2>2 DEF Progress
<1>5. Wholeness'
  BY <1>1 DEF Ask, Goto, Typed, Purposes, OneInFiles, Progress, Wholeness, InFiles
<1>6. RestartIsDue'
  BY DEF Ask, Goto, Typed, RestartIsDue, Changing
<1>7. MarkerHasFiles'
  BY <1>1 DEF Ask, Goto, Typed, Purposes, OneInFiles, Progress, MarkerHasFiles, InFiles
<1>8. ErrorsHaveReasons'
  BY DEF Ask, Goto, Typed, Purposes, OneInFiles, Progress, Wholeness, ErrorsHaveReasons, InFiles
<1>9. QED
  BY <1>1, <1>2, <1>3, <1>4, <1>5, <1>6, <1>7, <1>8

\* Looking before a deployment touches no file.
LEMMA CheckIInv == ASSUME NEW r \in Requests, IInv, Check(r) PROVE IInv'
<1>. USE DeploymentAssumption DEF IInv, diskVars, histVars
<1>1. Typed'
  BY DEF Check, Ends, Goto, Meets, Typed, Steps, Markers
<1>2. Purposes'
  BY DEF Check, Ends, Goto, Meets, Typed, Purposes
<1>3. OneInFiles'
  <2>1. \A q \in Requests : InFiles(q)' => InFiles(q)
    BY DEF Check, Ends, Goto, Typed, InFiles
  <2>2. ~overlap' => ~overlap
    BY DEF Check, Ends, Typed
  <2>3. QED
    BY <2>1, <2>2 DEF OneInFiles
<1>4. Progress'
  BY <1>1 DEF Check, Ends, Goto, Meets, Typed, Purposes, OneInFiles, Progress, InFiles
<1>5. Wholeness'
  BY <1>1 DEF Check, Ends, Goto, Meets, Typed, Purposes, OneInFiles, Progress, Wholeness, InFiles
<1>6. RestartIsDue'
  BY DEF Check, Ends, Goto, Meets, Typed, RestartIsDue, Changing
<1>7. MarkerHasFiles'
  BY <1>1 DEF Check, Ends, Goto, Meets, Typed, Purposes, OneInFiles, Progress, MarkerHasFiles, InFiles
<1>8. ErrorsHaveReasons'
  BY DEF Check, Ends, Goto, Meets, Typed, Purposes, OneInFiles, Progress, Wholeness, ErrorsHaveReasons, InFiles
<1>9. QED
  BY <1>1, <1>2, <1>3, <1>4, <1>5, <1>6, <1>7, <1>8

\* The user database is written: the request is busy with the files from now on.
LEMMA WriteUserdbIInv == ASSUME NEW r \in Requests, IInv, WriteUserdb(r) PROVE IInv'
<1>. USE DeploymentAssumption DEF IInv, diskVars, histVars
<1>1. Typed'
  BY DEF WriteUserdb, Goto, Meets, Typed, Steps, Markers
<1>2. Purposes'
  BY DEF WriteUserdb, Goto, Meets, Typed, Purposes
<1>3. OneInFiles'
  BY DEF WriteUserdb, Goto, Meets, Typed, OneInFiles, InFiles
<1>4. Progress'
  BY <1>1 DEF WriteUserdb, Goto, Meets, Typed, Purposes, OneInFiles, Progress, InFiles
<1>5. Wholeness'
  BY <1>1 DEF WriteUserdb, Goto, Meets, Typed, Purposes, OneInFiles, Progress, Wholeness, InFiles
<1>6. RestartIsDue'
  BY DEF WriteUserdb, Goto, Meets, Typed, RestartIsDue, Changing
<1>7. MarkerHasFiles'
  BY <1>1 DEF WriteUserdb, Goto, Meets, Typed, Purposes, OneInFiles, Progress, MarkerHasFiles, InFiles
<1>8. ErrorsHaveReasons'
  BY DEF WriteUserdb, Goto, Meets, Typed, Purposes, OneInFiles, Progress, Wholeness, ErrorsHaveReasons, InFiles
<1>9. QED
  BY <1>1, <1>2, <1>3, <1>4, <1>5, <1>6, <1>7, <1>8

\* The decoys are written.
LEMMA WriteContentsIInv == ASSUME NEW r \in Requests, IInv, WriteContents(r) PROVE IInv'
<1>. USE DeploymentAssumption DEF IInv, diskVars, histVars
<1>1. Typed'
  BY DEF WriteContents, Goto, Typed, Steps, Markers
<1>2. Purposes'
  BY DEF WriteContents, Goto, Typed, Purposes
<1>3. OneInFiles'
  <2>1. \A q \in Requests : InFiles(q)' => InFiles(q)
    BY DEF WriteContents, Goto, Typed, InFiles
  <2>2. ~overlap' => ~overlap
    BY DEF WriteContents, Typed
  <2>3. QED
    BY <2>1, <2>2 DEF OneInFiles
<1>4. Progress'
  BY DecoysAreThere, <1>1 DEF WriteContents, Goto, Typed, Purposes, OneInFiles, Progress, InFiles
<1>5. Wholeness'
  BY DecoysAreThere, <1>1 DEF WriteContents, Goto, Typed, Purposes, OneInFiles, Progress, Wholeness, InFiles
<1>6. RestartIsDue'
  BY DEF WriteContents, Goto, Typed, RestartIsDue, Changing
<1>7. MarkerHasFiles'
  BY DecoysAreThere, <1>1 DEF WriteContents, Goto, Typed, Purposes, OneInFiles, Progress, MarkerHasFiles, InFiles
<1>8. ErrorsHaveReasons'
  BY DEF WriteContents, Goto, Typed, Purposes, OneInFiles, Progress, Wholeness, ErrorsHaveReasons, InFiles
<1>9. QED
  BY <1>1, <1>2, <1>3, <1>4, <1>5, <1>6, <1>7, <1>8

\* The marker is emptied.
LEMMA OpenMarkerIInv == ASSUME NEW r \in Requests, IInv, OpenMarker(r) PROVE IInv'
<1>. USE DeploymentAssumption DEF IInv, diskVars, histVars
<1>1. Typed'
  BY DEF OpenMarker, Goto, Typed, Steps, Markers
<1>2. Purposes'
  BY DEF OpenMarker, Goto, Typed, Purposes
<1>3. OneInFiles'
  BY DEF OpenMarker, Goto, Typed, OneInFiles, InFiles
<1>4. Progress'
  BY <1>1 DEF OpenMarker, Goto, Typed, Purposes, OneInFiles, Progress, InFiles
<1>5. Wholeness'
  BY <1>1 DEF OpenMarker, Goto, Typed, Purposes, OneInFiles, Progress, Wholeness, InFiles
<1>6. RestartIsDue'
  BY DEF OpenMarker, Goto, Typed, RestartIsDue, Changing
<1>7. MarkerHasFiles'
  BY <1>1 DEF OpenMarker, Goto, Typed, Purposes, OneInFiles, Progress, MarkerHasFiles, InFiles
<1>8. ErrorsHaveReasons'
  BY DEF OpenMarker, Goto, Typed, Purposes, OneInFiles, Progress, Wholeness, ErrorsHaveReasons, InFiles
<1>9. QED
  BY <1>1, <1>2, <1>3, <1>4, <1>5, <1>6, <1>7, <1>8

\* The marker is filled.
LEMMA WriteMarkerIInv == ASSUME NEW r \in Requests, IInv, WriteMarker(r) PROVE IInv'
<1>. USE DeploymentAssumption DEF IInv, diskVars, histVars
<1>1. Typed'
  <2>1. job[r] \in Companies
    BY DEF WriteMarker, Purposes
  <2>2. QED
    BY <2>1 DEF WriteMarker, Goto, Typed, Steps, Markers
<1>2. Purposes'
  BY DEF WriteMarker, Goto, Typed, Purposes
<1>3. OneInFiles'
  BY DEF WriteMarker, Goto, Typed, OneInFiles, InFiles
<1>4. Progress'
  BY <1>1 DEF WriteMarker, Goto, Typed, Purposes, OneInFiles, Progress, InFiles
<1>5. Wholeness'
  BY <1>1 DEF WriteMarker, Goto, Typed, Purposes, OneInFiles, Progress, Wholeness, InFiles
<1>6. RestartIsDue'
  BY DEF WriteMarker, Goto, Typed, RestartIsDue, Changing
<1>7. MarkerHasFiles'
  BY <1>1 DEF WriteMarker, Goto, Typed, Purposes, OneInFiles, Progress, MarkerHasFiles, InFiles
<1>8. ErrorsHaveReasons'
  BY DEF WriteMarker, Goto, Typed, Purposes, OneInFiles, Progress, Wholeness, ErrorsHaveReasons, InFiles
<1>9. QED
  BY <1>1, <1>2, <1>3, <1>4, <1>5, <1>6, <1>7, <1>8

\* The marker is read: the request is busy with the files from now on.
LEMMA ReadMarkerIInv == ASSUME NEW r \in Requests, IInv, ReadMarker(r) PROVE IInv'
<1>. USE DeploymentAssumption DEF IInv, diskVars, histVars
<1>1. Typed'
  BY DEF ReadMarker, Ends, Goto, Meets, Typed, Steps, Markers
<1>2. Purposes'
  BY DEF ReadMarker, Ends, Goto, Meets, Typed, Purposes
<1>3. OneInFiles'
  <2>1. \A q \in Requests \ {r} : InFiles(q)' => InFiles(q)
    BY DEF ReadMarker, Ends, Goto, Typed, InFiles
  <2>2. ~overlap' => ~overlap /\ ~Meets(r)
    BY DEF ReadMarker
  <2>3. QED
    BY <2>1, <2>2 DEF OneInFiles, Meets
<1>4. Progress'
  BY <1>1 DEF ReadMarker, Ends, Goto, Meets, Typed, Purposes, OneInFiles, Progress, InFiles
<1>5. Wholeness'
  BY <1>1 DEF ReadMarker, Ends, Goto, Meets, Typed, Purposes, OneInFiles, Progress, Wholeness, InFiles
<1>6. RestartIsDue'
  BY DEF ReadMarker, Ends, Goto, Meets, Typed, RestartIsDue, Changing
<1>7. MarkerHasFiles'
  BY <1>1 DEF ReadMarker, Ends, Goto, Meets, Typed, Purposes, OneInFiles, Progress, MarkerHasFiles, InFiles
<1>8. ErrorsHaveReasons'
  BY DEF ReadMarker, Ends, Goto, Meets, Typed, Purposes, OneInFiles, Progress, Wholeness, ErrorsHaveReasons, InFiles
<1>9. QED
  BY <1>1, <1>2, <1>3, <1>4, <1>5, <1>6, <1>7, <1>8

\* The marker is removed.
LEMMA RemoveMarkerIInv == ASSUME NEW r \in Requests, IInv, RemoveMarker(r) PROVE IInv'
<1>. USE DeploymentAssumption DEF IInv, diskVars, histVars
<1>1. Typed'
  BY DEF RemoveMarker, Ends, Goto, Typed, Steps, Markers
<1>2. Purposes'
  BY DEF RemoveMarker, Ends, Goto, Typed, Purposes
<1>3. OneInFiles'
  <2>1. \A q \in Requests : InFiles(q)' => InFiles(q)
    BY DEF RemoveMarker, Ends, Goto, Typed, InFiles
  <2>2. ~overlap' => ~overlap
    BY DEF RemoveMarker, Ends, Typed
  <2>3. QED
    BY <2>1, <2>2 DEF OneInFiles
<1>4. Progress'
  BY <1>1 DEF RemoveMarker, Ends, Goto, Typed, Purposes, OneInFiles, Progress, InFiles
<1>5. Wholeness'
  BY <1>1 DEF RemoveMarker, Ends, Goto, Typed, Purposes, OneInFiles, Progress, Wholeness, InFiles
<1>6. RestartIsDue'
  BY DEF RemoveMarker, Ends, Goto, Typed, RestartIsDue, Changing
<1>7. MarkerHasFiles'
  BY <1>1 DEF RemoveMarker, Ends, Goto, Typed, Purposes, OneInFiles, Progress, MarkerHasFiles, InFiles
<1>8. ErrorsHaveReasons'
  BY DEF RemoveMarker, Ends, Goto, Typed, Purposes, OneInFiles, Progress, Wholeness, ErrorsHaveReasons, InFiles
<1>9. QED
  BY <1>1, <1>2, <1>3, <1>4, <1>5, <1>6, <1>7, <1>8

\* The user database is removed.
LEMMA RemoveUserdbIInv == ASSUME NEW r \in Requests, IInv, RemoveUserdb(r) PROVE IInv'
<1>. USE DeploymentAssumption DEF IInv, diskVars, histVars
<1>1. Typed'
  BY DEF RemoveUserdb, Goto, Typed, Steps, Markers
<1>2. Purposes'
  BY DEF RemoveUserdb, Goto, Typed, Purposes
<1>3. OneInFiles'
  BY DEF RemoveUserdb, Goto, Typed, OneInFiles, InFiles
<1>4. Progress'
  BY <1>1 DEF RemoveUserdb, Goto, Typed, Purposes, OneInFiles, Progress, InFiles
<1>5. Wholeness'
  BY <1>1 DEF RemoveUserdb, Goto, Typed, Purposes, OneInFiles, Progress, Wholeness, InFiles
<1>6. RestartIsDue'
  BY DEF RemoveUserdb, Goto, Typed, RestartIsDue, Changing
<1>7. MarkerHasFiles'
  BY <1>1 DEF RemoveUserdb, Goto, Typed, Purposes, OneInFiles, Progress, MarkerHasFiles, InFiles
<1>8. ErrorsHaveReasons'
  BY DEF RemoveUserdb, Goto, Typed, Purposes, OneInFiles, Progress, Wholeness, ErrorsHaveReasons, InFiles
<1>9. QED
  BY <1>1, <1>2, <1>3, <1>4, <1>5, <1>6, <1>7, <1>8

\* The decoys are removed.
LEMMA RemoveContentsIInv == ASSUME NEW r \in Requests, IInv, RemoveContents(r) PROVE IInv'
<1>. USE DeploymentAssumption DEF IInv, diskVars, histVars
<1>1. Typed'
  BY DEF RemoveContents, Goto, Typed, Steps, Markers
<1>2. Purposes'
  BY DEF RemoveContents, Goto, Typed, Purposes
<1>3. OneInFiles'
  BY DEF RemoveContents, Goto, Typed, OneInFiles, InFiles
<1>4. Progress'
  BY <1>1 DEF RemoveContents, Goto, Typed, Purposes, OneInFiles, Progress, InFiles
<1>5. Wholeness'
  BY <1>1 DEF RemoveContents, Goto, Typed, Purposes, OneInFiles, Progress, Wholeness, InFiles
<1>6. RestartIsDue'
  BY DEF RemoveContents, Goto, Typed, RestartIsDue, Changing
<1>7. MarkerHasFiles'
  BY <1>1 DEF RemoveContents, Goto, Typed, Purposes, OneInFiles, Progress, MarkerHasFiles, InFiles
<1>8. ErrorsHaveReasons'
  BY DEF RemoveContents, Goto, Typed, Purposes, OneInFiles, Progress, Wholeness, ErrorsHaveReasons, InFiles
<1>9. QED
  BY <1>1, <1>2, <1>3, <1>4, <1>5, <1>6, <1>7, <1>8

\* Cowrie is restarted.
LEMMA RestartIInv == ASSUME NEW r \in Requests, IInv, Restart(r) PROVE IInv'
<1>. USE DeploymentAssumption DEF IInv, diskVars, histVars
<1>1. Typed'
  BY DEF Restart, Ends, Goto, Outcome, Typed, Steps, Markers
<1>2. Purposes'
  BY DEF Restart, Ends, Goto, Outcome, Typed, Purposes
<1>3. OneInFiles'
  BY DEF Restart, Ends, Goto, Outcome, Typed, OneInFiles, InFiles
<1>4. Progress'
  BY <1>1 DEF Restart, Ends, Goto, Outcome, Typed, Purposes, OneInFiles, Progress, InFiles
<1>5. Wholeness'
  BY <1>1 DEF Restart, Ends, Goto, Outcome, Typed, Purposes, OneInFiles, Progress, Wholeness, InFiles
<1>6. RestartIsDue'
  BY DEF Restart, Ends, Goto, Outcome, Typed, RestartIsDue, Changing
<1>7. MarkerHasFiles'
  BY <1>1 DEF Restart, Ends, Goto, Outcome, Typed, Purposes, OneInFiles, Progress, MarkerHasFiles, InFiles
<1>8. ErrorsHaveReasons'
  BY DEF Restart, Ends, Goto, Outcome, Typed, Purposes, OneInFiles, Progress, Wholeness, ErrorsHaveReasons, InFiles
<1>9. QED
  BY <1>1, <1>2, <1>3, <1>4, <1>5, <1>6, <1>7, <1>8

\* Cowrie is not restarted.
LEMMA RestartFailsIInv == ASSUME NEW r \in Requests, IInv, RestartFails(r) PROVE IInv'
<1>. USE DeploymentAssumption DEF IInv, diskVars, histVars
<1>1. Typed'
  BY DEF RestartFails, Ends, Goto, Outcome, Typed, Steps, Markers
<1>2. Purposes'
  BY DEF RestartFails, Ends, Goto, Outcome, Typed, Purposes
<1>3. OneInFiles'
  BY DEF RestartFails, Ends, Goto, Outcome, Typed, OneInFiles, InFiles
<1>4. Progress'
  BY <1>1 DEF RestartFails, Ends, Goto, Outcome, Typed, Purposes, OneInFiles, Progress, InFiles
<1>5. Wholeness'
  BY <1>1 DEF RestartFails, Ends, Goto, Outcome, Typed, Purposes, OneInFiles, Progress, Wholeness, InFiles
<1>6. RestartIsDue'
  BY DEF RestartFails, Ends, Goto, Outcome, Typed, RestartIsDue, Changing
<1>7. MarkerHasFiles'
  BY <1>1 DEF RestartFails, Ends, Goto, Outcome, Typed, Purposes, OneInFiles, Progress, MarkerHasFiles, InFiles
<1>8. ErrorsHaveReasons'
  BY DEF RestartFails, Ends, Goto, Outcome, Typed, Purposes, OneInFiles, Progress, Wholeness, ErrorsHaveReasons, InFiles
<1>9. QED
  BY <1>1, <1>2, <1>3, <1>4, <1>5, <1>6, <1>7, <1>8

\* A file operation fails.
LEMMA FileFailsIInv == ASSUME NEW r \in Requests, IInv, FileFails(r) PROVE IInv'
<1>. USE DeploymentAssumption DEF IInv, diskVars, histVars
<1>0. /\ (files # {} /\ step[r] # "remove contents") => files' # {}
      /\ step[r] \notin {"contents", "remove contents"} => files' = files
  BY CutOffLeaves DEF FileFails
<1>1. Typed'
  BY DEF FileFails, Ends, Goto, Typed, Steps, Markers
<1>2. Purposes'
  BY DEF FileFails, Ends, Goto, Typed, Purposes
<1>3. OneInFiles'
  BY DEF FileFails, Ends, Goto, Typed, OneInFiles, InFiles
<1>4. Progress'
  BY <1>0, <1>1 DEF FileFails, Ends, Goto, Typed, Purposes, OneInFiles, Progress, InFiles
<1>5. Wholeness'
  BY <1>0, <1>1 DEF FileFails, Ends, Goto, Typed, Purposes, OneInFiles, Progress, Wholeness, InFiles
<1>6. RestartIsDue'
  BY DEF FileFails, Ends, Goto, Typed, RestartIsDue, Changing
<1>7. MarkerHasFiles'
  BY <1>0, <1>1 DEF FileFails, Ends, Goto, Typed, Purposes, OneInFiles, Progress, MarkerHasFiles, InFiles
<1>8. ErrorsHaveReasons'
  BY DEF FileFails, Ends, Goto, Typed, Purposes, OneInFiles, Progress, Wholeness, ErrorsHaveReasons, InFiles
<1>9. QED
  BY <1>1, <1>2, <1>3, <1>4, <1>5, <1>6, <1>7, <1>8

\* A worker dies.
LEMMA CrashIInv == ASSUME NEW w \in Workers, IInv, Crash(w) PROVE IInv'
<1>. USE DeploymentAssumption DEF IInv, diskVars, histVars
<1>0. \E r \in Requests :
        /\ step[r] \notin {"idle", "done"} /\ step'[r] = "done"
        /\ (files # {} /\ step[r] # "remove contents") => files' # {}
        /\ step[r] \notin {"contents", "remove contents"} => files' = files
  <2>1. PICK r \in Requests : step[r] \notin {"idle", "done"} /\ step'[r] = "done" /\ files' \in CutOff(r)
    BY DEF Crash
  <2>2. QED
    BY <2>1, CutOffLeaves
<1>1. Typed'
  BY DEF Crash, Typed, Steps, Markers
<1>2. Purposes'
  BY DEF Crash, Typed, Purposes
<1>3. OneInFiles'
  BY DEF Crash, Typed, OneInFiles, InFiles
<1>4. Progress'
  BY <1>0, <1>1 DEF Crash, Typed, Purposes, OneInFiles, Progress, InFiles
<1>5. Wholeness'
  BY <1>0, <1>1 DEF Crash, Typed, Purposes, OneInFiles, Progress, Wholeness, InFiles
<1>6. RestartIsDue'
  BY DEF Crash, Typed, RestartIsDue, Changing
<1>7. MarkerHasFiles'
  BY <1>0, <1>1 DEF Crash, Typed, Purposes, OneInFiles, Progress, MarkerHasFiles, InFiles
<1>8. ErrorsHaveReasons'
  BY DEF Crash, Typed, Purposes, OneInFiles, Progress, Wholeness, ErrorsHaveReasons, InFiles
<1>9. QED
  BY <1>1, <1>2, <1>3, <1>4, <1>5, <1>6, <1>7, <1>8

\* Every step preserves the inductive invariant.
LEMMA NextIInv == IInv /\ [Next]_vars => IInv'
<1>. SUFFICES ASSUME IInv, [Next]_vars PROVE IInv'
  OBVIOUS
<1>1. CASE UNCHANGED vars
  BY <1>1 DEF vars, diskVars, reqVars, histVars, IInv, Typed, Purposes, OneInFiles, Progress,
     Wholeness, RestartIsDue, MarkerHasFiles, ErrorsHaveReasons, InFiles
<1>2. CASE Next
  BY <1>2, AskIInv, CheckIInv, WriteUserdbIInv, WriteContentsIInv, OpenMarkerIInv, WriteMarkerIInv, ReadMarkerIInv, RemoveMarkerIInv, RemoveUserdbIInv, RemoveContentsIInv, RestartIInv, RestartFailsIInv, FileFailsIInv, CrashIInv
  DEF Next, Deploy, Undeploy
<1>3. QED
  BY <1>1, <1>2

\* The inductive invariant holds in every reachable state.
THEOREM IInvHolds == Spec => []IInv
  BY InitIInv, NextIInv, PTL DEF Spec

\* A marker that can be read promises a user database and decoys, for any
\* companies, requests and workers, whatever fails.
THEOREM MarkerHasFilesAlways == Spec => []MarkerHasFiles
<1>1. IInv => MarkerHasFiles
  BY DEF IInv
<1>2. QED
  BY <1>1, IInvHolds, PTL

\* Without failures and overlaps, a deployment is all of one company.
THEOREM DeployedIsWholeAlways == Spec => []DeployedIsWhole
<1>1. IInv => DeployedIsWhole
  BY DEF IInv, Wholeness, DeployedIsWhole, Quiet, InFiles
<1>2. QED
  BY <1>1, IInvHolds, PTL

\* When all requests are done and no restart failed, Cowrie runs what is there.
THEOREM CowrieIsCurrentAlways == Spec => []CowrieIsCurrent
<1>1. IInv => CowrieIsCurrent
  BY DEF IInv, RestartIsDue, CowrieIsCurrent, Quiet, Changing
<1>2. QED
  BY <1>1, IInvHolds, PTL

\* A request ends in an error only for one of the four reasons.
THEOREM ErrorsHaveReasonsAlways == Spec => []ErrorsHaveReasons
<1>1. IInv => ErrorsHaveReasons
  BY DEF IInv
<1>2. QED
  BY <1>1, IInvHolds, PTL
=============================================================================
