------------------------------ MODULE LogHandler ------------------------------
(***************************************************************************)
(* The logging handler that buffers records and writes them to PostgreSQL  *)
(* in batches (backend/services/log_handler.py).                           *)
(*                                                                         *)
(* Records are numbered in the order they are emitted, so that a set of    *)
(* numbers stands for a deque.  A flush drains the buffer in one step: the *)
(* lock around the loop is free whenever _flush() asks for it, because     *)
(* nobody awaits anything while holding it.  The commit of the batch is a  *)
(* step of its own.                                                        *)
(***************************************************************************)
EXTENDS Naturals, FiniteSets

CONSTANTS
  BatchSize,     \* FLUSH_BATCH_SIZE
  RecentSize,    \* RECENT_BUFFER_SIZE
  MaxMessages,   \* bound: records emitted before only reports follow
  MaxMalformed,  \* bound: records whose message cannot be formatted
  MaxFaults,     \* bound: database calls that fail
  MaxCleanups    \* bound: cleanups that delete something

ASSUME LogAssumption ==
  /\ BatchSize \in Nat \ {0}
  /\ RecentSize \in Nat \ {0}
  /\ {MaxMessages, MaxMalformed, MaxFaults, MaxCleanups} \subseteq Nat

VARIABLES
  emitted,    \* number of records emitted so far
  malformed,  \* records for which getMessage() raises
  buffer,     \* _buffer
  recent,     \* _recent, the ring the log viewer reads
  scheduled,  \* flushes created by emit() that have not begun
  loop,       \* _flush_loop(): where it is
  inflight,   \* batches whose commit is awaited, and by which flush
  stored,     \* rows of app_logs
  expired,    \* records whose row a cleanup has deleted (history)
  lost,       \* drained or dropped without a row (history)
  proc,       \* the process: serving, or how far its shutdown is
  atStop,     \* records emitted before stop() was called (history)
  faults,     \* failed database calls so far (bound)
  cleanups    \* cleanups so far (bound)

queue  == <<emitted, malformed, buffer, scheduled>>
fate   == <<stored, expired, lost>>
bounds == <<faults, cleanups>>
shut   == <<proc, atStop>>
vars   == <<queue, recent, loop, inflight, fate, shut, bounds>>

Records == 1..emitted
Flights == [by : {"task", "loop", "stop"}, batch : SUBSET Records]

TypeOK ==
  /\ emitted \in Nat
  /\ scheduled \in Nat
  /\ atStop \in Nat
  /\ {malformed, buffer, recent, stored, expired, lost} \subseteq SUBSET Records
  /\ inflight \subseteq Flights
  /\ loop \in {"sleeping", "flushing", "ended"}
  /\ proc \in {"serving", "stopping", "stopped", "aborted", "exited"}
  /\ faults \in 0..MaxFaults
  /\ cleanups \in 0..MaxCleanups

Init ==
  /\ emitted = 0 /\ scheduled = 0 /\ atStop = 0
  /\ malformed = {} /\ buffer = {} /\ recent = {}
  /\ inflight = {} /\ stored = {} /\ expired = {} /\ lost = {}
  /\ loop = "sleeping" /\ proc = "serving"
  /\ faults = 0 /\ cleanups = 0

-----------------------------------------------------------------------------
Up == proc # "exited"

\* Mutant of Appended: only the hundredth record schedules a flush.
ExactlyFull(rest, pending) ==
  /\ emitted' = emitted + 1
  /\ buffer' = rest \cup {emitted + 1}
  /\ scheduled' = IF Cardinality(rest) + 1 = BatchSize
                    THEN pending + 1 ELSE pending

\* emit(): the record joins what the step leaves in the buffer, and from the
\* hundredth on schedules a flush.  pending is the number of flushes that were
\* scheduled before.
Appended(rest, pending) ==
  /\ emitted' = emitted + 1
  /\ buffer' = rest \cup {emitted + 1}
  /\ scheduled' = IF Cardinality(rest) + 1 >= BatchSize
                    THEN pending + 1 ELSE pending

Emit(bad) ==
  /\ Up /\ emitted < MaxMessages
  /\ bad => Cardinality(malformed) < MaxMalformed
  /\ malformed' = IF bad THEN malformed \cup {emitted + 1} ELSE malformed
  /\ Appended(buffer, scheduled)
  /\ UNCHANGED <<recent, loop, inflight, fate, shut, bounds>>

-----------------------------------------------------------------------------
(* _flush().  Formatting stops at the first malformed record: it and the   *)
(* records popped before it are gone, those behind it stay in the buffer.  *)

Raises == buffer \cap malformed # {}
Popped == {n \in buffer : \A m \in buffer \cap malformed : n <= m}

\* The deque with a maximal length: the newest entries.
Newest(S) == {n \in S : Cardinality({k \in S : k > n}) < RecentSize}

Format == recent' = Newest(recent \cup (Popped \ malformed))

\* Mutant of Drain: the records are read but not popped.
DrainKeeps(by, pending) ==
  /\ ~Raises
  /\ Format
  /\ inflight' = inflight \cup {[by |-> by, batch |-> buffer]}
  /\ scheduled' = pending
  /\ UNCHANGED <<emitted, malformed, buffer, fate>>

\* The whole buffer becomes a batch.
Drain(by, pending) ==
  /\ ~Raises
  /\ Format
  /\ buffer' = {}
  /\ inflight' = inflight \cup {[by |-> by, batch |-> buffer]}
  /\ scheduled' = pending
  /\ UNCHANGED <<emitted, malformed, fate>>

\* Mutant of DrainRaises: the ring is filled when the batch is complete.
RaisesBeforeRing(pending) ==
  /\ Raises
  /\ lost' = lost \cup Popped
  /\ Appended(buffer \ Popped, pending)
  /\ UNCHANGED <<malformed, recent, inflight, stored, expired>>

\* The exception is logged: by the flush loop, or by asyncio for a task whose
\* exception nobody retrieves.
DrainRaises(pending) ==
  /\ Raises
  /\ Format
  /\ lost' = lost \cup Popped
  /\ Appended(buffer \ Popped, pending)
  /\ UNCHANGED <<malformed, inflight, stored, expired>>

\* A flush created by emit() gets its turn.
ScheduledFlush ==
  /\ Up /\ scheduled > 0
  /\ \/ /\ buffer = {}
        /\ scheduled' = scheduled - 1
        /\ UNCHANGED <<emitted, malformed, buffer, recent, inflight, fate>>
     \/ buffer # {} /\ Drain("task", scheduled - 1)
     \/ DrainRaises(scheduled - 1)
  /\ UNCHANGED <<loop, shut, bounds>>

\* Mutant of LoopFlush: the try statement is around the loop, not in it.
LoopGivesUp ==
  /\ proc = "serving" /\ loop = "sleeping" /\ buffer # {}
  /\ \/ Drain("loop", scheduled) /\ loop' = "flushing"
     \/ DrainRaises(scheduled) /\ loop' = "ended"
  /\ UNCHANGED <<shut, bounds>>

\* Mutant of LoopFlush: it takes the place of a scheduled flush.
LoopReplacesFlush ==
  /\ proc = "serving" /\ loop = "sleeping" /\ buffer # {}
  /\ \/ Drain("loop", scheduled - 1) /\ loop' = "flushing"
     \/ DrainRaises(scheduled - 1) /\ UNCHANGED loop
  /\ UNCHANGED <<shut, bounds>>

\* The flush loop wakes up and finds something in the buffer.
LoopFlush ==
  /\ proc = "serving" /\ loop = "sleeping" /\ buffer # {}
  /\ \/ Drain("loop", scheduled) /\ loop' = "flushing"
     \/ DrainRaises(scheduled) /\ UNCHANGED loop
  /\ UNCHANGED <<shut, bounds>>

\* Whoever awaited the commit goes on.
Landed(f) ==
  /\ inflight' = inflight \ {f}
  /\ loop' = IF f.by = "loop" THEN "sleeping" ELSE loop
  /\ proc' = IF f.by = "stop" THEN "stopped" ELSE proc

CommitBatch(f) ==
  /\ Landed(f)
  /\ stored' = stored \cup f.batch
  /\ UNCHANGED <<queue, recent, expired, lost, atStop, bounds>>

\* The batch is not put back; the failure is itself logged.
CommitFails(f) ==
  /\ faults < MaxFaults
  /\ faults' = faults + 1
  /\ Landed(f)
  /\ lost' = lost \cup f.batch
  /\ Appended(buffer, scheduled)
  /\ UNCHANGED <<malformed, recent, stored, expired, atStop, cleanups>>

-----------------------------------------------------------------------------
(* cleanup_old_logs(), by its loop or by a request.  Timestamps grow with   *)
(* the numbers, so the rows before the cutoff are those up to some number. *)

Cleanup(cutoff) ==
  /\ proc = "serving" /\ cleanups < MaxCleanups
  /\ \E n \in stored : n <= cutoff
  /\ stored' = {n \in stored : n > cutoff}
  /\ expired' = expired \cup {n \in stored : n <= cutoff}
  /\ cleanups' = cleanups + 1
  /\ Appended(buffer, scheduled)
  /\ UNCHANGED <<malformed, recent, loop, inflight, lost, shut, faults>>

CleanupFails ==
  /\ proc = "serving" /\ faults < MaxFaults
  /\ faults' = faults + 1
  /\ Appended(buffer, scheduled)
  /\ UNCHANGED <<malformed, recent, loop, inflight, fate, shut, cleanups>>

-----------------------------------------------------------------------------
(* Shutdown.                                                               *)

Batches(F) == UNION {f.batch : f \in F}
Mine       == {f \in inflight : f.by = "loop"}

\* Mutant of Stop: the tasks are cancelled and the buffer is forgotten.
StopWithoutFlush ==
  /\ proc = "serving"
  /\ loop' = "ended" /\ atStop' = emitted
  /\ proc' = "stopped"
  /\ inflight' = inflight \ Mine
  /\ lost' = lost \cup Batches(Mine)
  /\ UNCHANGED <<queue, recent, stored, expired, bounds>>

\* stop(): the flush loop is cancelled.  If it was waiting for a commit, the
\* batch may have been committed or not.  Then what is in the buffer is
\* flushed; a flush that raises ends the shutdown of the application there.
Stop ==
  /\ proc = "serving"
  /\ loop' = "ended" /\ atStop' = emitted
  /\ \E done \in SUBSET Mine :
       LET interrupted == Batches(Mine \ done) IN
       /\ stored' = stored \cup Batches(done)
       /\ \/ /\ buffer = {}
             /\ proc' = "stopped"
             /\ inflight' = inflight \ Mine
             /\ lost' = lost \cup interrupted
             /\ UNCHANGED <<buffer, recent>>
          \/ /\ buffer # {} /\ ~Raises
             /\ proc' = "stopping"
             /\ Format
             /\ buffer' = {}
             /\ inflight' = (inflight \ Mine)
                              \cup {[by |-> "stop", batch |-> buffer]}
             /\ lost' = lost \cup interrupted
          \/ /\ Raises
             /\ proc' = "aborted"
             /\ Format
             /\ buffer' = buffer \ Popped
             /\ inflight' = inflight \ Mine
             /\ lost' = lost \cup interrupted \cup Popped
  /\ UNCHANGED <<emitted, malformed, scheduled, expired, bounds>>

\* The process ends, after its shutdown or without one.  A commit under way
\* has happened or has not.
Exit ==
  /\ Up
  /\ proc' = "exited" /\ loop' = "ended"
  /\ \E done \in SUBSET inflight :
       /\ stored' = stored \cup Batches(done)
       /\ lost' = lost \cup Batches(inflight \ done) \cup buffer
  /\ buffer' = {} /\ inflight' = {} /\ scheduled' = 0 /\ recent' = {}
  /\ UNCHANGED <<emitted, malformed, expired, atStop, bounds>>

Next ==
  \/ \E bad \in BOOLEAN : Emit(bad)
  \/ ScheduledFlush
  \/ LoopFlush
  \/ \E f \in inflight : CommitBatch(f)
  \/ \E f \in inflight : CommitFails(f)
  \/ \E cutoff \in Records : Cleanup(cutoff)
  \/ CleanupFails
  \/ Stop
  \/ Exit

Spec == Init /\ [][Next]_vars

\* The event loop runs what is ready, the two seconds pass, and PostgreSQL
\* answers.  Nothing is assumed of the program's log calls or of its shutdown.
FairSpec ==
  /\ Spec
  /\ WF_vars(ScheduledFlush)
  /\ WF_vars(LoopFlush)
  /\ WF_vars(\E f \in inflight : CommitBatch(f) \/ CommitFails(f))

-----------------------------------------------------------------------------
(* Properties.                                                             *)

Waiting == Batches(inflight)

\* Conservation: every record that was emitted is in exactly one place: in
\* the buffer, in one batch, in the database, deleted from it, or lost.  No
\* flush writes what another one, the loop's or a scheduled one, has drained.
EachInOnePlace ==
  /\ Records = buffer \cup Waiting \cup stored \cup expired \cup lost
  /\ buffer \cap (Waiting \cup stored \cup expired \cup lost) = {}
  /\ Waiting \cap (stored \cup expired \cup lost) = {}
  /\ stored \cap (expired \cup lost) = {} /\ expired \cap lost = {}
  /\ \A f, g \in inflight : f # g => f.batch \cap g.batch = {}

\* A buffer with a full batch never has to wait for the loop: a flush is
\* scheduled, also after one that raised at a malformed record.
BacklogHasFlush == Cardinality(buffer) >= BatchSize => scheduled > 0

\* The viewer misses nothing: the ring holds the newest of all the records
\* that were drained and could be formatted, whatever became of their batch.
RecentIsNewest == Up => recent = Newest((Records \ buffer) \ malformed)

\* When stop() has returned, nothing that was emitted before it is left in the
\* buffer, which nobody but a full batch would flush any more.
StopDrains == proc = "stopped" => \A n \in buffer : n > atStop

\* Every record is written or known to be lost in the end, unless a shutdown
\* begins: a malformed record or a failed commit does not hold up the others.
EmittedIsSettled ==
  \A n \in 1..(MaxMessages + MaxMalformed + MaxFaults + MaxCleanups) :
    n \in Records ~> n \in stored \cup expired \cup lost \/ proc # "serving"

=============================================================================
