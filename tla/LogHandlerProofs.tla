--------------------------- MODULE LogHandlerProofs ---------------------------
(***************************************************************************)
(* Proofs about LogHandler, for batches and rings of any size and any      *)
(* number of records, malformed ones, faults and cleanups.                 *)
(***************************************************************************)
EXTENDS LogHandler, FiniteSetTheorems, TLAPS

(* The inductive invariant. *)

\* The buffer is a tail of what was emitted.
Tail == \A d \in Records \ buffer, n \in buffer : d < n

\* Every record beyond a full batch has scheduled a flush of its own.
Backlog == Cardinality(buffer) < BatchSize + scheduled

Stopped == proc \in {"stopping", "stopped"}

\* Nothing from before stop() is in the buffer once it has flushed.
Flushed == /\ atStop <= emitted
           /\ Stopped => \A n \in buffer : n > atStop
           /\ \A f \in inflight : f.by = "stop" => Stopped

LogInv == TypeOK /\ Tail /\ EachInOnePlace /\ Backlog /\ RecentIsNewest /\ Flushed

-----------------------------------------------------------------------------
(* Sets of records.                                                        *)

LEMMA SubsetSize ==
  ASSUME NEW n \in Nat, NEW T \in SUBSET (1..n)
  PROVE  IsFiniteSet(T) /\ Cardinality(T) \in Nat
<1>1. IsFiniteSet(1..n)
  BY FS_Interval
<1>2. IsFiniteSet(T)
  BY <1>1, FS_Subset
<1> QED
  BY <1>2, FS_CardinalityType

LEMMA Minimum ==
  ASSUME NEW T \in SUBSET Nat, T # {}
  PROVE  \E m \in T : \A n \in T : m <= n
<1>1. PICK m \in T : \A n \in T : ~(<<n, m>> \in OpToRel(<, Nat))
  BY WFMin, NatLessThanWellFounded
<1>2. ASSUME NEW n \in T PROVE m <= n
  <2>1. <<n, m>> \in Nat \X Nat /\ ~(<<n, m>> \in OpToRel(<, Nat))
    BY <1>1
  <2>2. ~(n < m)
    BY <2>1 DEF OpToRel
  <2> QED
    BY <2>2
<1> QED
  BY <1>2

\* A flush that raises pops at least the malformed record.
LEMMA PoppedSome ==
  ASSUME TypeOK, Raises
  PROVE  Popped # {}
<1>1. buffer \cap malformed \in SUBSET Nat
  BY DEF TypeOK, Records
<1>2. PICK m \in buffer \cap malformed : \A n \in buffer \cap malformed : m <= n
  BY <1>1, Minimum DEF Raises
<1>3. m \in Popped
  BY <1>2 DEF Popped
<1> QED
  BY <1>3

\* What the ring does with new entries: keeping the newest of the newest and
\* the new ones is keeping the newest of all.
LEMMA NewestAgain ==
  ASSUME NEW e \in Nat, NEW D \in SUBSET (1..e), NEW P \in SUBSET (1..e),
         \A d \in D, p \in P : d < p, RecentSize \in Nat
  PROVE  Newest(Newest(D) \cup P) = Newest(D \cup P)
<1> DEFINE Above(S, n) == {k \in S : k > n}
<1>1. Newest(D) \subseteq D
  BY DEF Newest
<1>2. ASSUME NEW n \in Newest(D) \cup P
      PROVE  Above(Newest(D) \cup P, n) = Above(D \cup P, n)
  <2> n \in D \cup P
    BY <1>1
  <2> \A k \in D \cup P : k \in Nat
    OBVIOUS
  <2> n \in Nat
    OBVIOUS
  <2>1. CASE n \in P
    <3>1. \A k \in D : ~(k > n)
      BY <2>1
    <3> QED
      BY <3>1, <1>1
  <2>2. CASE n \in Newest(D)
    <3>1. ASSUME NEW k \in D, k > n PROVE k \in Newest(D)
      <4>1. Above(D, n) \in SUBSET (1..e) /\ Above(D, k) \in SUBSET Above(D, n)
        <5>1. ASSUME NEW j \in D, j > k PROVE j > n
          BY <3>1, <5>1
        <5> QED
          BY <5>1
      <4>2. IsFiniteSet(Above(D, n)) /\ Cardinality(Above(D, n)) \in Nat
        BY <4>1, SubsetSize
      <4>3. /\ Cardinality(Above(D, k)) <= Cardinality(Above(D, n))
            /\ Cardinality(Above(D, k)) \in Nat
        <5>1. Above(D, k) \in SUBSET (1..e)
          BY <4>1
        <5> QED
          BY <4>1, <4>2, <5>1, FS_Subset, SubsetSize
      <4>4. Cardinality(Above(D, n)) < RecentSize
        BY <2>2 DEF Newest
      <4>5. Cardinality(Above(D, k)) < RecentSize
        BY <4>2, <4>3, <4>4
      <4> QED
        BY <4>5, <3>1 DEF Newest
    <3> QED
      BY <3>1, <1>1, <2>2
  <2> QED
    BY <2>1, <2>2
<1>3. ASSUME NEW n \in D, n \notin Newest(D)
      PROVE  n \notin Newest(D \cup P)
  <2>1. ~(Cardinality(Above(D, n)) < RecentSize)
    BY <1>3 DEF Newest
  <2>2. /\ Above(D, n) \in SUBSET Above(D \cup P, n)
        /\ Above(D, n) \in SUBSET (1..e) /\ Above(D \cup P, n) \in SUBSET (1..e)
    OBVIOUS
  <2>3. /\ IsFiniteSet(Above(D \cup P, n)) /\ Cardinality(Above(D \cup P, n)) \in Nat
        /\ Cardinality(Above(D, n)) \in Nat
    BY <2>2, SubsetSize
  <2>4. Cardinality(Above(D, n)) <= Cardinality(Above(D \cup P, n))
    BY <2>2, <2>3, FS_Subset
  <2>5. ~(Cardinality(Above(D \cup P, n)) < RecentSize)
    BY <2>1, <2>3, <2>4
  <2> QED
    BY <2>5 DEF Newest
<1>4. ASSUME NEW n \in Newest(D) \cup P
      PROVE  n \in Newest(Newest(D) \cup P) <=> n \in Newest(D \cup P)
  BY <1>2, <1>4, <1>1 DEF Newest
<1> QED
  BY <1>1, <1>3, <1>4 DEF Newest

-----------------------------------------------------------------------------
(* Batches.                                                                *)

Disjoint(F) == \A f, g \in F : f # g => f.batch \cap g.batch = {}

LEMMA BatchOf == ASSUME NEW f PROVE Batches({f}) = f.batch
  BY DEF Batches

LEMMA AddBatch ==
  ASSUME NEW F, NEW f, Disjoint(F), f.batch \cap Batches(F) = {}
  PROVE  Disjoint(F \cup {f}) /\ Batches(F \cup {f}) = Batches(F) \cup f.batch
  BY DEF Disjoint, Batches

LEMMA SplitBatches ==
  ASSUME NEW F, NEW D \in SUBSET F, Disjoint(F)
  PROVE  /\ Disjoint(F \ D) /\ Disjoint(D)
         /\ Batches(F) = Batches(D) \cup Batches(F \ D)
         /\ Batches(D) \cap Batches(F \ D) = {}
  BY DEF Disjoint, Batches

LEMMA BatchesTyped ==
  ASSUME TypeOK, NEW D \in SUBSET inflight
  PROVE  Batches(D) \subseteq Records
  BY DEF TypeOK, Batches, Flights

-----------------------------------------------------------------------------
(* Steps on the buffer.                                                    *)

LEMMA InitHolds == Init => LogInv
<1> SUFFICES ASSUME Init PROVE LogInv
  OBVIOUS
<1>1. Records = {} /\ Batches(inflight) = {} /\ Newest({}) = {}
  BY DEF Init, Records, Batches, Newest
<1>2. Cardinality(buffer) < BatchSize + scheduled
  BY FS_EmptySet, LogAssumption DEF Init
<1>3. TypeOK
  BY <1>1, LogAssumption DEF Init, TypeOK
<1>4. Tail /\ EachInOnePlace /\ RecentIsNewest /\ Flushed
  BY <1>1 DEF Init, Tail, EachInOnePlace, Waiting, RecentIsNewest, Flushed, Stopped
<1> QED
  BY <1>2, <1>3, <1>4 DEF LogInv, Backlog

LEMMA AppendedKeeps ==
  ASSUME TypeOK, NEW rest \in SUBSET buffer, NEW pending \in Nat,
         Cardinality(rest) < BatchSize + pending,
         \A d \in Records \ rest, n \in rest : d < n,
         Appended(rest, pending)
  PROVE  /\ Backlog' /\ Tail'
         /\ emitted' = emitted + 1 /\ emitted' \in Nat /\ scheduled' \in Nat
         /\ Records' = Records \cup {emitted + 1} /\ emitted + 1 \notin Records
         /\ buffer' = rest \cup {emitted + 1}
<1>1. /\ emitted' = emitted + 1 /\ emitted' \in Nat /\ emitted \in Nat
      /\ Records' = Records \cup {emitted + 1} /\ emitted + 1 \notin Records
      /\ buffer' = rest \cup {emitted + 1}
      /\ rest \in SUBSET (1..emitted)
  BY DEF TypeOK, Records, Appended
<1>2. IsFiniteSet(rest) /\ Cardinality(rest) \in Nat
  BY <1>1, SubsetSize
<1>3. Cardinality(buffer') = Cardinality(rest) + 1
  BY <1>1, <1>2, FS_AddElement DEF Records
<1>4. scheduled' \in Nat /\ Backlog'
  BY <1>2, <1>3, LogAssumption DEF Appended, Backlog
<1>5. ASSUME NEW d \in Records' \ buffer', NEW n \in buffer' PROVE d < n
  <2>1. d \in Records \ rest /\ d \in 1..emitted
    BY <1>1 DEF Records
  <2>2. CASE n = emitted + 1
    BY <1>1, <2>1, <2>2
  <2>3. CASE n \in rest
    BY <2>1, <2>3
  <2> QED
    BY <1>1, <2>2, <2>3
<1>6. Tail'
  BY <1>5 DEF Tail
<1> QED
  BY <1>1, <1>4, <1>6

\* What a step that only appends leaves true.
LEMMA OnlyAppended ==
  ASSUME LogInv, Appended(buffer, scheduled)
  PROVE  /\ Backlog' /\ Tail'
         /\ emitted' = emitted + 1 /\ emitted' \in Nat /\ scheduled' \in Nat
         /\ Records' = Records \cup {emitted + 1} /\ emitted + 1 \notin Records
         /\ buffer' = buffer \cup {emitted + 1}
<1>1. TypeOK /\ Tail /\ Backlog /\ scheduled \in Nat
  BY DEF LogInv, TypeOK
<1> QED
  BY <1>1, AppendedKeeps DEF Tail, Backlog

LEMMA FormatKeeps ==
  ASSUME LogInv, Up, Format
  PROVE  /\ Popped \subseteq buffer
         /\ recent' = Newest((Records \ (buffer \ Popped)) \ malformed)
         /\ recent' \subseteq Records
         /\ ~Raises => Popped = buffer
         /\ \A d \in Records \ (buffer \ Popped), n \in buffer \ Popped : d < n
<1> DEFINE D == (Records \ buffer) \ malformed
           P == Popped \ malformed
<1>1. /\ emitted \in Nat /\ Records = 1..emitted /\ buffer \subseteq Records
      /\ Popped \subseteq buffer
  BY DEF LogInv, TypeOK, Records, Popped
<1>2. \A d \in D, p \in P : d < p
  BY <1>1 DEF LogInv, Tail
<1>3. D \in SUBSET (1..emitted) /\ P \in SUBSET (1..emitted)
  BY <1>1
<1>4. Newest(Newest(D) \cup P) = Newest(D \cup P)
  BY <1>1, <1>2, <1>3, NewestAgain, LogAssumption
<1>5. recent = Newest(D)
  BY DEF LogInv, RecentIsNewest
<1>6. D \cup P = (Records \ (buffer \ Popped)) \ malformed
  BY <1>1
<1>7. recent' = Newest((Records \ (buffer \ Popped)) \ malformed)
  BY <1>4, <1>5, <1>6 DEF Format
<1>8. recent' \subseteq Records
  BY <1>7 DEF Newest
<1>9. ~Raises => Popped = buffer
  BY DEF Raises, Popped
<1>10. ASSUME NEW d \in Records \ (buffer \ Popped), NEW n \in buffer \ Popped
       PROVE  d < n
  <2>1. CASE d \notin buffer
    BY <1>1, <2>1 DEF LogInv, Tail
  <2>2. CASE d \in Popped
    <3>1. PICK m \in buffer \cap malformed : ~(n <= m)
      BY <1>10 DEF Popped
    <3>2. d <= m
      BY <2>2, <3>1 DEF Popped
    <3>3. d \in Nat /\ m \in Nat /\ n \in Nat
      BY <1>1, <3>1
    <3> QED
      BY <3>1, <3>2, <3>3
  <2> QED
    BY <2>1, <2>2
<1> QED
  BY <1>1, <1>7, <1>8, <1>9, <1>10

\* A flush that raises leaves less in the buffer than there was.
LEMMA PoppedCounts ==
  ASSUME LogInv, Raises
  PROVE  Cardinality(buffer \ Popped) + 1 < BatchSize + scheduled
<1>1. /\ emitted \in Nat /\ buffer \in SUBSET (1..emitted) /\ Popped \subseteq buffer
      /\ Popped # {} /\ scheduled \in Nat
  BY PoppedSome DEF LogInv, TypeOK, Records, Popped
<1>2. /\ IsFiniteSet(buffer) /\ Cardinality(buffer) \in Nat
      /\ Cardinality(buffer \ Popped) \in Nat
  <2>1. buffer \ Popped \in SUBSET (1..emitted)
    BY <1>1
  <2> QED
    BY <1>1, <2>1, SubsetSize
<1>3. /\ Cardinality(buffer \ Popped) <= Cardinality(buffer)
      /\ Cardinality(buffer \ Popped) # Cardinality(buffer)
  <2>1. buffer \ Popped \in SUBSET buffer /\ buffer \ Popped # buffer
    BY <1>1
  <2> QED
    BY <1>2, <2>1, FS_Subset
<1> QED
  BY <1>1, <1>2, <1>3, LogAssumption DEF LogInv, Backlog

-----------------------------------------------------------------------------
(* Flushes.                                                                *)

LEMMA DrainKeepsInv ==
  ASSUME LogInv, proc \in {"serving", "stopping", "stopped", "aborted"},
         NEW by \in {"task", "loop"}, NEW pending \in Nat,
         Drain(by, pending), buffer # {},
         loop' \in {"sleeping", "flushing", "ended"}, UNCHANGED <<shut, bounds>>
  PROVE  LogInv'
<1> DEFINE f == [by |-> by, batch |-> buffer]
<1>1. /\ TypeOK /\ Up /\ Records' = Records /\ buffer' = {} /\ emitted' = emitted
      /\ malformed' = malformed /\ scheduled' = pending
      /\ inflight' = inflight \cup {f} /\ UNCHANGED fate /\ ~Raises
  BY DEF LogInv, Up, Drain, Records
<1>2. /\ recent' = Newest(Records \ malformed) /\ recent' \subseteq Records
  <2>1. Format
    BY DEF Drain
  <2> QED
    BY <1>1, <2>1, FormatKeeps
<1>3. TypeOK'
  <2>1. f \in Flights'
    BY <1>1 DEF Flights, TypeOK
  <2>2. inflight' \subseteq Flights'
    BY <1>1, <2>1 DEF Flights, TypeOK
  <2> QED
    BY <1>1, <1>2, <2>2 DEF TypeOK, fate, shut, bounds
<1>4. Disjoint(inflight) /\ f.batch \cap Batches(inflight) = {} /\ f.batch = buffer
  BY DEF LogInv, EachInOnePlace, Disjoint, Waiting
<1>5. Disjoint(inflight') /\ Batches(inflight') = Batches(inflight) \cup buffer
  BY <1>1, <1>4, AddBatch
<1>6. EachInOnePlace'
  BY <1>1, <1>5 DEF LogInv, EachInOnePlace, Disjoint, Waiting, fate
<1>7. Backlog'
  BY <1>1, FS_EmptySet, LogAssumption DEF Backlog
<1>8. Tail' /\ RecentIsNewest' /\ Flushed'
  BY <1>1, <1>2 DEF Tail, RecentIsNewest, Flushed, Stopped, LogInv, shut
<1> QED
  BY <1>3, <1>6, <1>7, <1>8 DEF LogInv

LEMMA DrainRaisesKeepsInv ==
  ASSUME LogInv, Up, NEW pending \in Nat, scheduled <= pending + 1,
         DrainRaises(pending), UNCHANGED <<loop, shut, bounds>>
  PROVE  LogInv'
<1> DEFINE rest == buffer \ Popped
<1>1. /\ TypeOK /\ Raises /\ Format /\ Appended(rest, pending)
      /\ malformed' = malformed /\ inflight' = inflight
      /\ stored' = stored /\ expired' = expired /\ lost' = lost \cup Popped
  BY DEF LogInv, DrainRaises
<1>2. /\ Popped \subseteq buffer
      /\ recent' = Newest((Records \ rest) \ malformed) /\ recent' \subseteq Records
      /\ \A d \in Records \ rest, n \in rest : d < n
  BY <1>1, FormatKeeps
<1>3. Cardinality(rest) < BatchSize + pending
  <2>1. Cardinality(rest) + 1 < BatchSize + scheduled
    BY <1>1, PoppedCounts
  <2>2. /\ scheduled \in Nat /\ emitted \in Nat /\ rest \in SUBSET (1..emitted)
    BY <1>1 DEF TypeOK, Records
  <2>3. Cardinality(rest) \in Nat
    BY <2>2, SubsetSize
  <2> QED
    BY <2>1, <2>2, <2>3, LogAssumption
<1>4. /\ Backlog' /\ Tail'
      /\ emitted' = emitted + 1 /\ emitted' \in Nat /\ scheduled' \in Nat
      /\ Records' = Records \cup {emitted + 1} /\ emitted + 1 \notin Records
      /\ buffer' = rest \cup {emitted + 1}
  <2>1. rest \in SUBSET buffer
    OBVIOUS
  <2> QED
    BY <1>1, <1>2, <1>3, <2>1, AppendedKeeps
<1> HIDE DEF rest
<1>5. TypeOK'
  <2>1. inflight' \subseteq Flights'
    BY <1>1, <1>4 DEF TypeOK, Flights
  <2> QED
    BY <1>1, <1>2, <1>4, <2>1 DEF TypeOK, shut, bounds, rest
<1>6. EachInOnePlace'
  BY <1>1, <1>2, <1>4 DEF LogInv, EachInOnePlace, Waiting, TypeOK, rest
<1>7. RecentIsNewest'
  <2>1. (Records' \ buffer') \ malformed' = (Records \ rest) \ malformed
    BY <1>1, <1>4
  <2> QED
    BY <1>2, <2>1 DEF RecentIsNewest, Newest
<1>8. Flushed'
  BY <1>1, <1>2, <1>4 DEF LogInv, TypeOK, Flushed, Stopped, shut, rest
<1> QED
  BY <1>4, <1>5, <1>6, <1>7, <1>8 DEF LogInv

-----------------------------------------------------------------------------
(* The actions.                                                            *)

\* A step that appends a record and moves others from the database or a batch
\* into history keeps the ring, the tail and the rest.
LEMMA AppendKeepsRing ==
  ASSUME LogInv, Appended(buffer, scheduled), recent' = recent,
         malformed' \ {emitted + 1} = malformed,
         Up \/ ~Up', atStop' = atStop,
         inflight' \subseteq inflight, proc' # proc => Stopped /\ proc' = "stopped"
  PROVE  RecentIsNewest' /\ Flushed'
<1>1. /\ emitted' = emitted + 1 /\ Records' = Records \cup {emitted + 1}
      /\ emitted + 1 \notin Records /\ buffer' = buffer \cup {emitted + 1}
  BY OnlyAppended
<1>2. (Records' \ buffer') \ malformed' = (Records \ buffer) \ malformed
  BY <1>1
<1>3. RecentIsNewest'
  BY <1>2 DEF LogInv, RecentIsNewest, Newest, Up
<1>4. atStop \in Nat /\ emitted \in Nat
  BY DEF LogInv, TypeOK
<1>5. Flushed'
  BY <1>1, <1>4 DEF LogInv, Flushed, Stopped
<1> QED
  BY <1>3, <1>5

LEMMA EmitKeeps ==
  ASSUME LogInv, NEW bad \in BOOLEAN, Emit(bad)
  PROVE  LogInv'
<1>1. /\ Backlog' /\ Tail'
      /\ emitted' = emitted + 1 /\ emitted' \in Nat /\ scheduled' \in Nat
      /\ Records' = Records \cup {emitted + 1} /\ emitted + 1 \notin Records
      /\ buffer' = buffer \cup {emitted + 1}
  BY OnlyAppended DEF Emit
<1>2. malformed' \ {emitted + 1} = malformed /\ malformed' \subseteq Records'
  BY <1>1 DEF Emit, LogInv, TypeOK
<1>3. RecentIsNewest' /\ Flushed'
  BY <1>2, AppendKeepsRing DEF Emit, shut
<1>4. TypeOK'
  <2>1. inflight' \subseteq Flights'
    BY <1>1 DEF LogInv, TypeOK, Flights, Emit
  <2> QED
    BY <1>1, <1>2, <2>1 DEF LogInv, TypeOK, Emit, fate, shut, bounds
<1>5. EachInOnePlace'
  BY <1>1 DEF LogInv, TypeOK, EachInOnePlace, Waiting, Batches, Flights, Emit, fate
<1> QED
  BY <1>1, <1>3, <1>4, <1>5 DEF LogInv

LEMMA ScheduledFlushKeeps == ASSUME LogInv, ScheduledFlush PROVE LogInv'
<1>1. scheduled \in Nat /\ scheduled - 1 \in Nat /\ Up
      /\ UNCHANGED <<loop, shut, bounds>>
  BY DEF ScheduledFlush, LogInv, TypeOK
<1>2. CASE /\ buffer = {} /\ scheduled' = scheduled - 1
           /\ UNCHANGED <<emitted, malformed, buffer, recent, inflight, fate>>
  <2>1. Backlog'
    BY <1>1, <1>2, FS_EmptySet, LogAssumption DEF Backlog
  <2>2. TypeOK'
    BY <1>1, <1>2 DEF LogInv, TypeOK, Records, Flights, fate, shut, bounds
  <2>3. EachInOnePlace'
    BY <1>2 DEF LogInv, EachInOnePlace, Waiting, Batches, Records, fate
  <2>4. RecentIsNewest' /\ Tail' /\ Flushed'
    BY <1>1, <1>2 DEF LogInv, RecentIsNewest, Newest, Records, Up, Tail, Flushed, Stopped, shut
  <2> QED
    BY <2>1, <2>2, <2>3, <2>4 DEF LogInv
<1>3. CASE buffer # {} /\ Drain("task", scheduled - 1)
  <2>1. /\ proc \in {"serving", "stopping", "stopped", "aborted"}
        /\ loop' \in {"sleeping", "flushing", "ended"}
    BY <1>1 DEF LogInv, TypeOK, Up
  <2> QED
    BY <1>1, <1>3, <2>1, DrainKeepsInv
<1>4. CASE DrainRaises(scheduled - 1)
  <2>1. scheduled <= (scheduled - 1) + 1
    BY <1>1
  <2> QED
    BY <1>1, <1>4, <2>1, DrainRaisesKeepsInv
<1> QED
  BY <1>2, <1>3, <1>4 DEF ScheduledFlush

LEMMA LoopFlushKeeps == ASSUME LogInv, LoopFlush PROVE LogInv'
<1>1. scheduled \in Nat /\ proc = "serving" /\ buffer # {} /\ Up
      /\ UNCHANGED <<shut, bounds>>
  BY DEF LoopFlush, LogInv, TypeOK, Up
<1>2. CASE Drain("loop", scheduled) /\ loop' = "flushing"
  BY <1>1, <1>2, DrainKeepsInv
<1>3. CASE DrainRaises(scheduled) /\ UNCHANGED loop
  <2>1. scheduled <= scheduled + 1
    BY <1>1
  <2> QED
    BY <1>1, <1>3, <2>1, DrainRaisesKeepsInv
<1> QED
  BY <1>2, <1>3 DEF LoopFlush

\* The batch that lands leaves the waiting ones, and only it.
LEMMA LandedKeeps ==
  ASSUME LogInv, NEW f \in inflight, Landed(f)
  PROVE  /\ Disjoint(inflight') /\ inflight' \subseteq inflight
         /\ Waiting' = Waiting \ f.batch /\ f.batch \subseteq Waiting
         /\ f.batch \subseteq Records
         /\ loop' \in {"sleeping", "flushing", "ended"}
         /\ proc' \in {"serving", "stopping", "stopped", "aborted", "exited"}
         /\ proc' # proc => Stopped /\ proc' = "stopped"
<1>1. Disjoint(inflight) /\ inflight' = inflight \ {f} /\ {f} \in SUBSET inflight
  BY DEF LogInv, EachInOnePlace, Disjoint, Landed
<1>2. /\ Disjoint(inflight \ {f})
      /\ Batches(inflight) = Batches({f}) \cup Batches(inflight \ {f})
      /\ Batches({f}) \cap Batches(inflight \ {f}) = {}
  BY <1>1, SplitBatches
<1>3. Batches({f}) = f.batch
  BY BatchOf
<1>4. f.batch \subseteq Records
  BY DEF LogInv, TypeOK, Flights
<1> QED
  BY <1>1, <1>2, <1>3, <1>4 DEF LogInv, TypeOK, Waiting, Landed, Flushed

LEMMA CommitBatchKeeps ==
  ASSUME LogInv, NEW f \in inflight, CommitBatch(f)
  PROVE  LogInv'
<1>1. /\ Disjoint(inflight') /\ inflight' \subseteq inflight
      /\ Waiting' = Waiting \ f.batch /\ f.batch \subseteq Waiting
      /\ f.batch \subseteq Records
      /\ loop' \in {"sleeping", "flushing", "ended"}
      /\ proc' \in {"serving", "stopping", "stopped", "aborted", "exited"}
      /\ proc' # proc => Stopped /\ proc' = "stopped"
  BY LandedKeeps DEF CommitBatch
<1>2. /\ stored' = stored \cup f.batch /\ Records' = Records
      /\ UNCHANGED <<queue, recent, expired, lost, atStop, bounds>>
  BY DEF CommitBatch, Records, queue
<1>3. TypeOK'
  BY <1>1, <1>2 DEF LogInv, TypeOK, Flights, queue, bounds
<1>4. EachInOnePlace'
  BY <1>1, <1>2 DEF LogInv, EachInOnePlace, Disjoint, queue
<1>5. Tail' /\ Backlog' /\ Flushed' /\ RecentIsNewest'
  BY <1>1, <1>2 DEF LogInv, Tail, Backlog, Flushed, Stopped, RecentIsNewest, Newest,
                    Up, queue
<1> QED
  BY <1>3, <1>4, <1>5 DEF LogInv

LEMMA CommitFailsKeeps ==
  ASSUME LogInv, NEW f \in inflight, CommitFails(f)
  PROVE  LogInv'
<1>1. /\ Disjoint(inflight') /\ inflight' \subseteq inflight
      /\ Waiting' = Waiting \ f.batch /\ f.batch \subseteq Waiting
      /\ f.batch \subseteq Records
      /\ loop' \in {"sleeping", "flushing", "ended"}
      /\ proc' \in {"serving", "stopping", "stopped", "aborted", "exited"}
      /\ proc' # proc => Stopped /\ proc' = "stopped"
  BY LandedKeeps DEF CommitFails
<1>2. /\ lost' = lost \cup f.batch /\ Appended(buffer, scheduled)
      /\ UNCHANGED <<malformed, recent, stored, expired, atStop, cleanups>>
      /\ faults' \in 0..MaxFaults
  BY LogAssumption DEF CommitFails, LogInv, TypeOK
<1>3. /\ Backlog' /\ Tail'
      /\ emitted' = emitted + 1 /\ emitted' \in Nat /\ scheduled' \in Nat
      /\ Records' = Records \cup {emitted + 1} /\ emitted + 1 \notin Records
      /\ buffer' = buffer \cup {emitted + 1}
  BY <1>2, OnlyAppended
<1>4. TypeOK'
  BY <1>1, <1>2, <1>3 DEF LogInv, TypeOK, Flights
<1>5. EachInOnePlace'
  BY <1>1, <1>2, <1>3 DEF LogInv, EachInOnePlace, Disjoint, TypeOK
<1>6. RecentIsNewest' /\ Flushed'
  <2>1. malformed' \ {emitted + 1} = malformed
    BY <1>2, <1>3 DEF LogInv, TypeOK
  <2>2. Up \/ ~Up'
    BY <1>1 DEF Up, Stopped
  <2> QED
    BY <1>1, <1>2, <2>1, <2>2, AppendKeepsRing
<1> QED
  BY <1>3, <1>4, <1>5, <1>6 DEF LogInv

LEMMA CleanupKeeps ==
  ASSUME LogInv, NEW cutoff \in Records, Cleanup(cutoff)
  PROVE  LogInv'
<1>. \A n \in stored \cup {cutoff} : n \in Nat
  BY DEF LogInv, TypeOK, Records
<1>. \A n \in stored : n <= cutoff <=> ~(n > cutoff)
  OBVIOUS
<1>1. /\ Appended(buffer, scheduled) /\ cleanups' \in 0..MaxCleanups
      /\ stored' \subseteq stored /\ expired' = expired \cup (stored \ stored')
      /\ UNCHANGED <<malformed, recent, loop, inflight, lost, shut, faults>>
  BY LogAssumption DEF Cleanup, LogInv, TypeOK
<1>2. /\ Backlog' /\ Tail'
      /\ emitted' = emitted + 1 /\ emitted' \in Nat /\ scheduled' \in Nat
      /\ Records' = Records \cup {emitted + 1} /\ emitted + 1 \notin Records
      /\ buffer' = buffer \cup {emitted + 1}
  BY <1>1, OnlyAppended
<1>3. TypeOK'
  BY <1>1, <1>2 DEF LogInv, TypeOK, Flights, shut
<1>4. EachInOnePlace'
  <2>1. Waiting \subseteq Records
    BY DEF LogInv, EachInOnePlace
  <2> QED
    BY <1>1, <1>2, <2>1 DEF LogInv, EachInOnePlace, Waiting, Batches, TypeOK
<1>5. RecentIsNewest' /\ Flushed'
  <2>1. malformed' \ {emitted + 1} = malformed
    BY <1>1, <1>2 DEF LogInv, TypeOK
  <2> QED
    BY <1>1, <2>1, AppendKeepsRing DEF shut, Up
<1> QED
  BY <1>2, <1>3, <1>4, <1>5 DEF LogInv

LEMMA CleanupFailsKeeps == ASSUME LogInv, CleanupFails PROVE LogInv'
<1>1. /\ Appended(buffer, scheduled) /\ faults' \in 0..MaxFaults
      /\ UNCHANGED <<malformed, recent, loop, inflight, fate, shut, cleanups>>
  BY LogAssumption DEF CleanupFails, LogInv, TypeOK
<1>2. /\ Backlog' /\ Tail'
      /\ emitted' = emitted + 1 /\ emitted' \in Nat /\ scheduled' \in Nat
      /\ Records' = Records \cup {emitted + 1} /\ emitted + 1 \notin Records
      /\ buffer' = buffer \cup {emitted + 1}
  BY <1>1, OnlyAppended
<1>3. TypeOK'
  BY <1>1, <1>2 DEF LogInv, TypeOK, Flights, shut, fate
<1>4. EachInOnePlace'
  <2>1. Waiting \subseteq Records
    BY DEF LogInv, EachInOnePlace
  <2> QED
    BY <1>1, <1>2, <2>1 DEF LogInv, EachInOnePlace, Waiting, Batches, TypeOK, fate
<1>5. RecentIsNewest' /\ Flushed'
  <2>1. malformed' \ {emitted + 1} = malformed
    BY <1>1, <1>2 DEF LogInv, TypeOK
  <2> QED
    BY <1>1, <2>1, AppendKeepsRing DEF shut, Up
<1> QED
  BY <1>2, <1>3, <1>4, <1>5 DEF LogInv

\* stop() cancels the loop; what was in the buffer is flushed.
LEMMA StopKeeps == ASSUME LogInv, Stop PROVE LogInv'
<1>1. PICK done \in SUBSET Mine :
        LET interrupted == Batches(Mine \ done) IN
        /\ stored' = stored \cup Batches(done)
        /\ \/ /\ buffer = {}
              /\ proc' = "stopped"
              /\ inflight' = inflight \ Mine
              /\ lost' = lost \cup interrupted
              /\ UNCHANGED <<buffer, recent>>
           \/ /\ buffer # {} /\ ~Raises
              /\ proc' = "stopping"
              /\ Format
              /\ buffer' = {}
              /\ inflight' = (inflight \ Mine)
                               \cup {[by |-> "stop", batch |-> buffer]}
              /\ lost' = lost \cup interrupted
           \/ /\ Raises
              /\ proc' = "aborted"
              /\ Format
              /\ buffer' = buffer \ Popped
              /\ inflight' = inflight \ Mine
              /\ lost' = lost \cup interrupted \cup Popped
  BY DEF Stop
<1>2. /\ proc = "serving" /\ loop' = "ended" /\ atStop' = emitted /\ Records' = Records
      /\ UNCHANGED <<emitted, malformed, scheduled, expired, bounds>>
  BY DEF Stop, Records
<1> DEFINE kept == inflight \ Mine
           cut  == Batches(Mine \ done)
           f    == [by |-> "stop", batch |-> buffer]
<1>3. /\ Disjoint(kept) /\ Waiting = Batches(Mine) \cup Batches(kept)
      /\ Batches(Mine) \cap Batches(kept) = {}
      /\ Batches(Mine) = Batches(done) \cup cut /\ Batches(done) \cap cut = {}
  <2>1. Mine \in SUBSET inflight /\ Disjoint(inflight)
    BY DEF Mine, LogInv, EachInOnePlace, Disjoint
  <2>2. Disjoint(Mine)
    BY <2>1 DEF Disjoint
  <2> QED
    BY <2>1, <2>2, SplitBatches DEF Waiting
<1>4. /\ stored' = stored \cup Batches(done) /\ emitted \in Nat /\ scheduled \in Nat
      /\ buffer \in SUBSET (1..emitted) /\ Up
      /\ kept \subseteq inflight /\ \A g \in kept : g.by # "stop"
  BY <1>1, <1>2 DEF LogInv, TypeOK, Records, Up, Flushed, Stopped
<1>5. Waiting \subseteq Records
  BY DEF LogInv, EachInOnePlace
<1>. HIDE DEF kept, cut
<1>6. CASE /\ buffer = {} /\ proc' = "stopped" /\ inflight' = kept
           /\ lost' = lost \cup cut /\ UNCHANGED <<buffer, recent>>
  <2>1. TypeOK'
    BY <1>2, <1>3, <1>4, <1>5, <1>6 DEF LogInv, TypeOK, Flights, bounds
  <2>2. EachInOnePlace'
    <3>1. Waiting' = Batches(kept)
      BY <1>6 DEF Waiting
    <3> QED
      BY <1>2, <1>3, <1>4, <1>6, <3>1 DEF LogInv, EachInOnePlace, Disjoint
  <2>3. Tail' /\ Backlog' /\ RecentIsNewest' /\ Flushed'
    BY <1>2, <1>4, <1>6
    DEF LogInv, Tail, Backlog, RecentIsNewest, Newest, Up, Flushed, Stopped
  <2> QED
    BY <2>1, <2>2, <2>3 DEF LogInv
<1>7. CASE /\ buffer # {} /\ ~Raises /\ proc' = "stopping" /\ Format /\ buffer' = {}
           /\ inflight' = kept \cup {f} /\ lost' = lost \cup cut
  <2>1. recent' = Newest(Records \ malformed) /\ recent' \subseteq Records
    BY <1>4, <1>7, FormatKeeps
  <2>2. TypeOK'
    <3>1. f \in Flights'
      BY <1>2, <1>4 DEF Flights, Records
    <3>2. inflight' \subseteq Flights'
      BY <1>2, <1>4, <1>7, <3>1 DEF LogInv, TypeOK, Flights
    <3> QED
      BY <1>2, <1>3, <1>4, <1>5, <1>7, <2>1, <3>2 DEF LogInv, TypeOK, bounds
  <2>3. EachInOnePlace'
    <3>1. f.batch = buffer /\ buffer \cap Batches(kept) = {}
      BY <1>3 DEF LogInv, EachInOnePlace
    <3>2. Disjoint(inflight') /\ Waiting' = Batches(kept) \cup buffer
      BY <1>3, <1>7, <3>1, AddBatch DEF Waiting
    <3> QED
      BY <1>2, <1>3, <1>4, <1>7, <3>2 DEF LogInv, EachInOnePlace, Disjoint
  <2>4. Backlog'
    BY <1>2, <1>4, <1>7, FS_EmptySet, LogAssumption DEF Backlog
  <2>5. Tail' /\ RecentIsNewest' /\ Flushed'
    BY <1>2, <1>4, <1>7, <2>1 DEF Tail, RecentIsNewest, Flushed, Stopped
  <2> QED
    BY <2>2, <2>3, <2>4, <2>5 DEF LogInv
<1>8. CASE /\ Raises /\ proc' = "aborted" /\ Format /\ buffer' = buffer \ Popped
           /\ inflight' = kept /\ lost' = lost \cup cut \cup Popped
  <2>1. /\ Popped \subseteq buffer
        /\ recent' = Newest((Records \ buffer') \ malformed) /\ recent' \subseteq Records
        /\ \A d \in Records \ buffer', n \in buffer' : d < n
    BY <1>4, <1>8, FormatKeeps
  <2>2. TypeOK'
    <3>1. inflight' \subseteq Flights'
      BY <1>2, <1>4, <1>8 DEF LogInv, TypeOK, Flights
    <3>2. /\ {malformed', buffer', recent', expired'} \subseteq SUBSET Records'
          /\ stored' \subseteq Records' /\ lost' \subseteq Records'
      BY <1>2, <1>3, <1>4, <1>5, <1>8, <2>1 DEF LogInv, TypeOK
    <3> QED
      BY <1>2, <1>4, <1>8, <3>1, <3>2 DEF LogInv, TypeOK, bounds
  <2>3. EachInOnePlace'
    <3>1. Waiting' = Batches(kept)
      BY <1>8 DEF Waiting
    <3> QED
      BY <1>2, <1>3, <1>4, <1>8, <2>1, <3>1 DEF LogInv, EachInOnePlace, Disjoint
  <2>4. Backlog'
    <3>1. Cardinality(buffer') + 1 < BatchSize + scheduled
      BY <1>8, PoppedCounts
    <3>2. Cardinality(buffer') \in Nat
      <4>1. buffer' \in SUBSET (1..emitted)
        BY <1>4, <1>8
      <4> QED
        BY <1>4, <4>1, SubsetSize
    <3> QED
      BY <1>2, <1>4, <3>1, <3>2, LogAssumption DEF Backlog
  <2>5. Tail' /\ RecentIsNewest' /\ Flushed'
    BY <1>2, <1>4, <1>8, <2>1 DEF Tail, RecentIsNewest, Newest, Flushed, Stopped
  <2> QED
    BY <2>2, <2>3, <2>4, <2>5 DEF LogInv
<1> QED
  BY <1>1, <1>6, <1>7, <1>8 DEF kept, cut

LEMMA ExitKeeps == ASSUME LogInv, Exit PROVE LogInv'
<1>1. PICK done \in SUBSET inflight :
        /\ stored' = stored \cup Batches(done)
        /\ lost' = lost \cup Batches(inflight \ done) \cup buffer
  BY DEF Exit
<1>2. /\ Waiting = Batches(done) \cup Batches(inflight \ done)
      /\ Batches(done) \cap Batches(inflight \ done) = {}
  BY SplitBatches DEF LogInv, EachInOnePlace, Disjoint, Waiting
<1>3. /\ proc' = "exited" /\ loop' = "ended" /\ Records' = Records
      /\ buffer' = {} /\ inflight' = {} /\ scheduled' = 0 /\ recent' = {}
      /\ UNCHANGED <<emitted, malformed, expired, atStop, bounds>>
  BY DEF Exit, Records
<1>4. Waiting' = {}
  BY <1>3 DEF Waiting, Batches
<1>5. TypeOK'
  BY <1>1, <1>2, <1>3 DEF LogInv, TypeOK, EachInOnePlace, bounds
<1>6. EachInOnePlace'
  BY <1>1, <1>2, <1>3, <1>4 DEF LogInv, EachInOnePlace
<1>7. Backlog'
  BY <1>3, FS_EmptySet, LogAssumption DEF Backlog
<1>8. Tail' /\ RecentIsNewest' /\ Flushed'
  BY <1>3 DEF LogInv, Tail, RecentIsNewest, Up, Flushed, Stopped
<1> QED
  BY <1>5, <1>6, <1>7, <1>8 DEF LogInv

LEMMA LogInductive == ASSUME LogInv, [Next]_vars PROVE LogInv'
<1>1. CASE Next
  BY <1>1, EmitKeeps, ScheduledFlushKeeps, LoopFlushKeeps, CommitBatchKeeps,
     CommitFailsKeeps, CleanupKeeps, CleanupFailsKeeps, StopKeeps, ExitKeeps DEF Next
<1>2. CASE UNCHANGED vars
  BY <1>2 DEF vars, queue, fate, shut, bounds, LogInv, TypeOK, Records, Flights, Tail,
    EachInOnePlace, Waiting, Batches, Backlog, RecentIsNewest, Newest, Up, Flushed, Stopped
<1> QED
  BY <1>1, <1>2

LEMMA LogInvariant == Spec => []LogInv
<1>1. LogInv /\ [Next]_vars => LogInv'
  BY LogInductive
<1> QED
  BY InitHolds, <1>1, PTL DEF Spec

-----------------------------------------------------------------------------
(* Theorems.                                                               *)

\* Type correctness of the log handler.
THEOREM LogTypeCorrect == Spec => []TypeOK
<1>1. LogInv => TypeOK
  BY DEF LogInv
<1> QED
  BY <1>1, LogInvariant, PTL

\* Conservation: no flush, cleanup, failure, malformed record or shutdown, in
\* any order, ever duplicates a record or loses track of one.
THEOREM Conservation == Spec => []EachInOnePlace
<1>1. LogInv => EachInOnePlace
  BY DEF LogInv
<1> QED
  BY <1>1, LogInvariant, PTL

\* A full batch in the buffer always has a flush of its own on the way, because
\* every record beyond it has scheduled one and every flush takes at least one.
THEOREM FlushIsScheduled == Spec => []BacklogHasFlush
<1>1. LogInv => BacklogHasFlush
  <2> SUFFICES ASSUME LogInv PROVE BacklogHasFlush
    OBVIOUS
  <2>1. emitted \in Nat /\ scheduled \in Nat /\ buffer \in SUBSET (1..emitted)
    BY DEF LogInv, TypeOK, Records
  <2>2. Cardinality(buffer) \in Nat
    BY <2>1, SubsetSize
  <2> QED
    BY <2>1, <2>2, LogAssumption DEF LogInv, Backlog, BacklogHasFlush
<1> QED
  BY <1>1, LogInvariant, PTL

\* The ring of the log viewer holds exactly the newest of the records that were
\* drained, also around malformed records and failed commits.
THEOREM ViewerMissesNothing == Spec => []RecentIsNewest
<1>1. LogInv => RecentIsNewest
  BY DEF LogInv
<1> QED
  BY <1>1, LogInvariant, PTL

\* After stop() has returned no record from before it waits in the buffer.
THEOREM StopLeavesNothing == Spec => []StopDrains
<1>1. LogInv => StopDrains
  BY DEF LogInv, Flushed, Stopped, StopDrains
<1> QED
  BY <1>1, LogInvariant, PTL

=============================================================================
