----------------------------- MODULE Ingestion -----------------------------
(***************************************************************************)
(* How honeypot events reach the attacker_events table: the producers      *)
(* append JSON lines to log files, and the background loop of every        *)
(* backend worker (main.py, _cowrie_ingestion_loop) polls the files        *)
(* through a CowrieClient and HoneypotFileWatchers, classifies the new     *)
(* events and stores them, one transaction per poll.                       *)
(*                                                                         *)
(* Of the loop's watchers, which are alike, an instance follows one: the   *)
(* initial state picks which (source).  A line is the two cells it may be  *)
(* written in, its head and its tail: a reader that comes between them     *)
(* finds half a line.  Lines are numbered as they are written, so that a   *)
(* list of lines is the set of them: its order is that of the numbers.     *)
(* Everything a worker knows about the files (pos, since, timer) is in its *)
(* memory.                                                                 *)
(***************************************************************************)
EXTENDS Naturals, FiniteSets, MitreMapper

CONSTANTS Workers,        \* the backend's worker processes
          Watched,        \* the sources the second watcher may follow
          FetchLimit,     \* ingestion.cowrie.fetch_limit
          PollInterval,   \* ingestion.cowrie.poll_interval
          WatchInterval,  \* a watcher's own poll interval
          MaxCowrie,      \* bound: lines written to Cowrie's file
          MaxLines,       \* bound: lines written to the watched file
          MaxVisits,      \* bound: requests in the access log
          MaxKinds,       \* bound: different reports in one file
          MaxFaults       \* bound: crashes, failed reads and commits, rotations

ASSUME IngestionAssumption ==
    /\ Watched \subseteq {"portal", "wordpress", "opencanary", "cowrie2"}
    /\ {FetchLimit, PollInterval, WatchInterval} \subseteq Nat \ {0}
    /\ {MaxCowrie, MaxLines, MaxVisits, MaxKinds} \subseteq Nat \ {0}
    /\ MaxFaults \in Nat

VARIABLES
    source,   \* the source behind the second feed
    visits,   \* wordpress: the requests in Apache's access log
    owed,     \* wordpress: the lines its cron job has yet to write
    stamp,    \* wordpress: the time at which the cron job was started
    written,  \* per feed, the lines its producer has made so far
    file,     \* per feed, the cells of the log file
    pos,      \* per worker and feed, the reader's _last_position
    since,    \* per worker and feed, last_since (0: None)
    timer,    \* per worker, the watcher's timer
    pc,       \* per worker, the next step of its loop
    batch,    \* per worker, the events read and not yet committed
    life,     \* per worker, how often it has been started
    table,    \* attacker_events, each row with the number of its transaction
    commits,  \* how many transactions have been committed
    lost,     \* history: the lines a life dropped, and why
    rotated,  \* history: the feeds whose file was rotated
    faults    \* how many of MaxFaults have happened

prodVars == <<source, visits, owed, stamp, written, file, rotated>>
workVars == <<pos, since, timer, pc, batch, life>>
vars == <<prodVars, workVars, table, commits, lost, faults>>

Feeds == {"cowrie", "watched"}
Bound(f) == IF f = "cowrie" THEN MaxCowrie ELSE MaxLines

-----------------------------------------------------------------------------
(* The events the producers write.                                         *)

\* What each source reports: the event type, and the keywords in the text
\* that becomes the event's command (portal/main.py, wordpress/log_watcher.py).
Reports(f) ==
    CASE f = "cowrie" -> { [type |-> <<"cowrie", "login", "failed">>, words |-> {}] }
      [] source = "cowrie2" -> { [type |-> <<"cowrie", "command", "input">>, words |-> {"whoami"}] }
      [] source = "portal" -> { [type |-> <<"web", "wp_login">>, words |-> {"wp-login"}],
                                [type |-> <<"web", "phpmyadmin">>, words |-> {"phpmyadmin"}],
                                [type |-> <<"web", "jenkins_login">>, words |-> {"jenkins"}],
                                [type |-> <<"web", "gitlab_login">>, words |-> {"git"}],
                                [type |-> <<"web", "webmail_login">>, words |-> {"webmail", "mail"}],
                                [type |-> <<"web", "vpn_login">>, words |-> {"vpn"}],
                                [type |-> <<"web", "contact_form">>, words |-> {}],
                                [type |-> <<"web", "api_key_harvest">>, words |-> {}] }
      [] source = "wordpress" -> { [type |-> <<"wp", "login_attempt">>, words |-> {"wp-login"}] }
      [] source = "opencanary" -> { [type |-> <<"ftp", "login">>, words |-> {}] }

\* OpenCanary's events have no field called timestamp.
Stamped(f) == f = "cowrie" \/ source # "opencanary"

\* _parse_honeypot_event: the event type as the loop classifies it.
NormalType(f, type) ==
    CASE f = "cowrie" \/ source = "cowrie2" -> type
      [] source = "portal" -> <<"web">> \o type
      [] source = "wordpress" -> <<"wp">> \o type
      [] source = "opencanary" -> <<"opencanary">> \o type

Cells(line) == << [line |-> line, part |-> "head"], [line |-> line, part |-> "tail"] >>

ByCron(f) == f = "watched" /\ source = "wordpress"

\* The timestamp of a new line: the producer's clock may not have moved since
\* the last one; all the lines of a cron job have the time of its start.
Times(f) ==
    IF ByCron(f) THEN {stamp}
    ELSE IF Stamped(f) THEN {written[f], written[f] + 1} \ {0} ELSE {0}

\* What the next line may report, within the bound on the kinds in a file.
Kinds(f) ==
    { r \in Reports(f) :
        Cardinality({ c.line.report : c \in ToSet(file[f]) } \cup {r}) <= MaxKinds }

NewLines(f) ==
    { [n |-> written[f] + 1, ts |-> t, report |-> r] : t \in Times(f), r \in Kinds(f) }

\* There is something to write, and the last line is complete.
MayWrite(f) ==
    /\ written[f] < Bound(f)
    /\ ByCron(f) => owed > 0
    /\ file[f] # <<>> => Last(file[f]).part = "tail"

\* A line is begun: of a cron job there is one less to write.
Begun(f) ==
    /\ written' = [written EXCEPT ![f] = @ + 1]
    /\ owed' = IF ByCron(f) THEN owed - 1 ELSE owed
    /\ UNCHANGED <<source, visits, stamp, rotated, workVars, table, commits, lost, faults>>

\* _log_honeypot_event and its kin: one line, in one write ...
WriteLine(f) ==
    /\ MayWrite(f)
    /\ \E line \in NewLines(f) : file' = [file EXCEPT ![f] = @ \o Cells(line)]
    /\ Begun(f)

\* ... or, when it does not fit what is left of the writer's buffer, in two.
WriteHead(f) ==
    /\ MayWrite(f)
    /\ \E line \in NewLines(f) : file' = [file EXCEPT ![f] = Append(@, Cells(line)[1])]
    /\ Begun(f)

WriteTail(f) ==
    /\ file[f] # <<>>
    /\ Last(file[f]).part = "head"
    /\ file' = [file EXCEPT ![f] = Append(@, Cells(Last(@).line)[2])]
    /\ UNCHANGED <<source, visits, owed, stamp, written, rotated, workVars, table, commits, lost, faults>>

\* A request for the WordPress login page enters Apache's access log.
Visit ==
    /\ source = "wordpress"
    /\ visits < MaxVisits
    /\ visits' = visits + 1
    /\ UNCHANGED <<source, owed, stamp, written, file, rotated, workVars, table, commits, lost, faults>>

\* wordpress/log_watcher.py, run by cron: it reads the access log from the
\* start.  It remembers what it has reported as hash(line), which Python salts
\* anew in every process, so no run recognises a line of an earlier one: every
\* run reports all the log's requests, with the time it was started at.
CronRun ==
    /\ source = "wordpress"
    /\ visits > 0
    /\ owed = 0
    /\ written["watched"] + visits <= MaxLines
    /\ owed' = visits
    /\ stamp' = written["watched"] + 1
    /\ UNCHANGED <<source, visits, written, file, rotated, workVars, table, commits, lost, faults>>

\* A honeypot rotates its log: the file starts again from nothing.
Rotate(f) ==
    /\ faults < MaxFaults
    /\ f = "cowrie" \/ source = "cowrie2"
    /\ file[f] # <<>>
    /\ Last(file[f]).part = "tail"
    /\ file' = [file EXCEPT ![f] = <<>>]
    /\ rotated' = rotated \cup {f}
    /\ faults' = faults + 1
    /\ UNCHANGED <<source, visits, owed, stamp, written, workVars, table, commits, lost>>

-----------------------------------------------------------------------------
(* The readers (CowrieClient and HoneypotFileWatcher, fetch_events).       *)

\* The cells _read_new_lines returns: all beyond the position.  A position
\* beyond the end of a rotated file returns nothing, and stays.
NewCells(w, f) == SubSeq(file[f], pos[w][f] + 1, Len(file[f]))

\* Mutant of NewPos: the reader does not keep its position.
NewPosForgotten(w, f) == pos[w][f]

NewPos(w, f) == IF pos[w][f] > Len(file[f]) THEN pos[w][f] ELSE Len(file[f])

\* The lines that parse as JSON: those of which both halves were read.
Whole(cells) ==
    { c.line : c \in { x \in ToSet(cells) : x.part = "head" } }
        \cap { c.line : c \in { x \in ToSet(cells) : x.part = "tail" } }

Torn(cells) == { c.line : c \in ToSet(cells) } \ Whole(cells)

\* "if since": the filter is strict, and a missing timestamp is "" (0).
AfterSince(lines, s) == { l \in lines : s = 0 \/ l.ts > s }

\* events[:limit]; the position has already moved past the rest.
Limited(lines) ==
    { l \in lines : Cardinality({ k \in lines : k.n < l.n }) < FetchLimit }

\* events[-1].
LastOf(lines) == CHOOSE l \in lines : \A k \in lines : k.n <= l.n

Life(w) == <<w, life[w]>>

Dropped(w, f, lines, why) ==
    { [life |-> Life(w), feed |-> f, line |-> l, why |-> why] : l \in lines }

After(f) == IF f = "cowrie" THEN "read watched" ELSE "sleep"
ReadStep(f) == IF f = "cowrie" THEN "read cowrie" ELSE "read watched"
StoreStep(f) == IF f = "cowrie" THEN "store cowrie" ELSE "store watched"

\* Has the watcher's own interval passed?  (Cowrie is polled every round.)
Due(w, f) == f = "cowrie" \/ timer[w] + PollInterval >= WatchInterval

\* Mutant of TickTimer: a round that is not due resets the timer, too.
TickTimerFromZero(w, f) ==
    timer' = IF f = "cowrie" THEN timer ELSE [timer EXCEPT ![w] = 0]

TickTimer(w, f) ==
    timer' = IF f = "cowrie" THEN timer
             ELSE [timer EXCEPT ![w] = IF Due(w, f) THEN 0 ELSE @ + PollInterval]

\* One fetch_events: the new lines become the batch to store.
Read(w, f) ==
    LET cells == NewCells(w, f)
        whole == Whole(cells)
        fresh == AfterSince(whole, since[w][f])
        kept  == Limited(fresh)
    IN  /\ pc[w] = ReadStep(f)
        /\ Due(w, f)
        /\ TickTimer(w, f)
        /\ pos' = [pos EXCEPT ![w][f] = NewPos(w, f)]
        /\ batch' = [batch EXCEPT ![w] = kept]
        /\ pc' = [pc EXCEPT ![w] = IF kept = {} THEN After(f) ELSE StoreStep(f)]
        /\ lost' = lost \cup Dropped(w, f, Torn(cells), "torn")
                        \cup Dropped(w, f, whole \ fresh, "since")
                        \cup Dropped(w, f, fresh \ kept, "limit")
        /\ UNCHANGED <<prodVars, since, life, table, commits, faults>>

\* The watcher is not due yet: "continue".
Skip(w, f) ==
    /\ pc[w] = ReadStep(f)
    /\ ~Due(w, f)
    /\ TickTimer(w, f)
    /\ pc' = [pc EXCEPT ![w] = After(f)]
    /\ UNCHANGED <<prodVars, pos, since, batch, life, table, commits, lost, faults>>

\* The file cannot be read: fetch_events logs the error and returns [].
ReadFails(w, f) ==
    /\ faults < MaxFaults
    /\ pc[w] = ReadStep(f)
    /\ Due(w, f)
    /\ TickTimer(w, f)
    /\ pc' = [pc EXCEPT ![w] = After(f)]
    /\ faults' = faults + 1
    /\ UNCHANGED <<prodVars, pos, since, batch, life, table, commits, lost>>

-----------------------------------------------------------------------------
(* The loop's other steps.                                                 *)

\* The row of an event: the classification is made when it is stored.
Row(w, f, line) ==
    [at |-> commits + 1, life |-> Life(w), feed |-> f, line |-> line,
     mitre |-> RuleBasedMatch(NormalType(f, line.report.type), line.report.words)]

\* The transaction of a poll commits; only then does last_since move, to the
\* timestamp of the batch's last event, if it has one.
Store(w, f) ==
    LET last == LastOf(batch[w]).ts
    IN  /\ pc[w] = StoreStep(f)
        /\ table' = table \cup { Row(w, f, l) : l \in batch[w] }
        /\ commits' = commits + 1
        /\ since' = IF last = 0 THEN since ELSE [since EXCEPT ![w][f] = last]
        /\ batch' = [batch EXCEPT ![w] = {}]
        /\ pc' = [pc EXCEPT ![w] = After(f)]
        /\ UNCHANGED <<prodVars, pos, timer, life, lost, faults>>

\* Mutant of StoreFails: the since mark moves though nothing was stored.
StoreFailsMovingSince(w, f) ==
    /\ faults < MaxFaults
    /\ pc[w] = StoreStep(f)
    /\ since' = [since EXCEPT ![w][f] = LastOf(batch[w]).ts]
    /\ lost' = lost \cup Dropped(w, f, batch[w], "commit")
    /\ batch' = [batch EXCEPT ![w] = {}]
    /\ pc' = [pc EXCEPT ![w] = After(f)]
    /\ faults' = faults + 1
    /\ UNCHANGED <<prodVars, pos, timer, life, table, commits>>

\* The transaction fails ("poll failed"): nothing of the batch is stored, and
\* the position is past it.
StoreFails(w, f) ==
    /\ faults < MaxFaults
    /\ pc[w] = StoreStep(f)
    /\ lost' = lost \cup Dropped(w, f, batch[w], "commit")
    /\ batch' = [batch EXCEPT ![w] = {}]
    /\ pc' = [pc EXCEPT ![w] = After(f)]
    /\ faults' = faults + 1
    /\ UNCHANGED <<prodVars, pos, since, timer, life, table, commits>>

\* wait_for(shutdown.wait(), poll_interval) times out: the next round.
Wake(w) ==
    /\ pc[w] = "sleep"
    /\ pc' = [pc EXCEPT ![w] = "read cowrie"]
    /\ UNCHANGED <<prodVars, pos, since, timer, batch, life, table, commits, lost, faults>>

\* Mutant of Restart: the positions survive the process, the batch does not.
RestartKeepingPosition(w) ==
    /\ faults < MaxFaults
    /\ life' = [life EXCEPT ![w] = @ + 1]
    /\ timer' = [timer EXCEPT ![w] = 0]
    /\ batch' = [batch EXCEPT ![w] = {}]
    /\ pc' = [pc EXCEPT ![w] = "read cowrie"]
    /\ faults' = faults + 1
    /\ UNCHANGED <<prodVars, pos, since, table, commits, lost>>

\* A worker process dies, at any point, and is started again: all it knew of
\* the files is forgotten, and it reads them from the start.
Restart(w) ==
    /\ faults < MaxFaults
    /\ life' = [life EXCEPT ![w] = @ + 1]
    /\ pos' = [pos EXCEPT ![w] = [f \in Feeds |-> 0]]
    /\ since' = [since EXCEPT ![w] = [f \in Feeds |-> 0]]
    /\ timer' = [timer EXCEPT ![w] = 0]
    /\ batch' = [batch EXCEPT ![w] = {}]
    /\ pc' = [pc EXCEPT ![w] = "read cowrie"]
    /\ faults' = faults + 1
    /\ UNCHANGED <<prodVars, table, commits, lost>>

Init ==
    /\ source \in Watched
    /\ visits = 0
    /\ owed = 0
    /\ stamp = 0
    /\ written = [f \in Feeds |-> 0]
    /\ file = [f \in Feeds |-> <<>>]
    /\ rotated = {}
    /\ pos = [w \in Workers |-> [f \in Feeds |-> 0]]
    /\ since = [w \in Workers |-> [f \in Feeds |-> 0]]
    /\ timer = [w \in Workers |-> 0]
    /\ pc = [w \in Workers |-> "read cowrie"]
    /\ batch = [w \in Workers |-> {}]
    /\ life = [w \in Workers |-> 1]
    /\ table = {}
    /\ commits = 0
    /\ lost = {}
    /\ faults = 0

\* What a worker's loop does, and what may go wrong with it.
Loop(w) ==
    \/ Wake(w)
    \/ \E f \in Feeds : Read(w, f) \/ Skip(w, f) \/ Store(w, f)

Fault ==
    \/ \E w \in Workers : Restart(w)
    \/ \E w \in Workers, f \in Feeds : ReadFails(w, f) \/ StoreFails(w, f)
    \/ \E f \in Feeds : Rotate(f)

Produce ==
    \/ \E f \in Feeds : WriteLine(f) \/ WriteHead(f) \/ WriteTail(f)
    \/ Visit
    \/ CronRun

Next == Produce \/ Fault \/ \E w \in Workers : Loop(w)

\* The event loop keeps running every worker's task; nobody has to attack.
Spec == Init /\ [][Next]_vars /\ \A w \in Workers : WF_vars(Loop(w))

-----------------------------------------------------------------------------
(* Properties.                                                             *)

StoredBy(l, f, n) == \E r \in table : r.life = l /\ r.feed = f /\ r.line.n = n
DroppedBy(l, f, n) == \E d \in lost : d.life = l /\ d.feed = f /\ d.line.n = n
InHand(w, f, n) == pc[w] = StoreStep(f) /\ \E l \in batch[w] : l.n = n

\* From one transaction to the next, a life of a worker stores only newer lines
\* of a feed, in their order and none of them twice, however polls, writes,
\* failures and rotations interleave.
EachLifeStoresInOrder ==
    \A r, q \in table :
        (r.life = q.life /\ r.feed = q.feed /\ r.at < q.at) => r.line.n < q.line.n

\* What a worker's position has passed of a file that was not rotated is
\* accounted for: each line it covers
\* is stored by this life, is in the batch about to be stored, or was dropped
\* for one of the reasons the code has (a half line, the fetch limit, the
\* since filter, a failed transaction).
PassedIsAccountedFor ==
    \A w \in Workers, f \in Feeds \ rotated :
        \A i \in 1..pos[w][f] :
            LET n == file[f][i].line.n
            IN  StoredBy(Life(w), f, n) \/ InHand(w, f, n) \/ DroppedBy(Life(w), f, n)

\* The since filter never costs an event of its own: what it drops carries the
\* timestamp of an event this life has already stored.
SinceDropsOnlyTies ==
    \A d \in lost :
        d.why = "since" =>
            \E r \in table : r.life = d.life /\ r.feed = d.feed /\ r.line.ts = d.line.ts

\* The portal's decoy login pages.
LoginTypes ==
    { <<"web", page>> : page \in {"wp_login", "phpmyadmin", "jenkins_login", "gitlab_login",
                                  "webmail_login", "vpn_login"} }

\* Every login captured by one of the portal's six decoy pages is stored with
\* the technique and tactic that the table of event types has for the page,
\* although its type, prefixed twice, is not found there: the rules about
\* paths agree with the table, and no rule before them applies.
LoginsAreMapped ==
    \A r \in table :
        (source = "portal" /\ r.feed = "watched" /\ r.line.report.type \in LoginTypes)
            => \E rule \in WebRules :
                 /\ r.line.report.type \in rule.types
                 /\ r.mitre = [technique |-> rule.technique, tactic |-> rule.tactic]

\* A line that was written out completely is in the end stored, or dropped
\* for a reason, by some life, unless its file is rotated.
EveryLineIsSettled ==
    \A f \in Feeds, n \in 1..(MaxCowrie + MaxLines) :
        (\E c \in ToSet(file[f]) : c.line.n = n /\ c.part = "tail")
            ~> \/ \E r \in table : r.feed = f /\ r.line.n = n
               \/ \E d \in lost : d.feed = f /\ d.line.n = n
               \/ f \in rotated
=============================================================================
