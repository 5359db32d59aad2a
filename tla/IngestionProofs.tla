-------------------------- MODULE IngestionProofs --------------------------
(***************************************************************************)
(* Theorems about Ingestion, for any workers, fetch limit, intervals and   *)
(* bounds, and whichever source the second watcher follows: what a life of *)
(* a worker stores and loses of the lines in the log files, and how the    *)
(* logins captured by the portal are classified.                           *)
(***************************************************************************)
EXTENDS Ingestion, SequenceTheorems, WellFoundedInduction, TLAPS

-----------------------------------------------------------------------------
(* The inductive invariant.                                                *)

Steps == {"read cowrie", "store cowrie", "read watched", "store watched", "sleep"}

LineOf(f) == [n : Nat, ts : Nat, report : Reports(f)]
CellOf(f) == [line : LineOf(f), part : {"head", "tail"}]
AnyLine == [n : Nat, ts : Nat, report : UNION { Reports(f) : f \in Feeds }]
AnyCell == [line : AnyLine, part : {"head", "tail"}]

TypeOK ==
    /\ source \in Watched
    /\ {visits, owed, stamp} \subseteq Nat
    /\ written \in [Feeds -> Nat]
    /\ file \in [Feeds -> Seq(AnyCell)]
    /\ pos \in [Workers -> [Feeds -> Nat]]
    /\ since \in [Workers -> [Feeds -> Nat]]
    /\ pc \in [Workers -> Steps]
    /\ batch \in [Workers -> SUBSET AnyLine]
    /\ life \in [Workers -> Nat]
    /\ commits \in Nat
    /\ rotated \subseteq Feeds

\* A line that feed f's producer has made: its clock is never ahead of the
\* number of the lines it has written.
Made(f, l) ==
    /\ l \in LineOf(f)
    /\ l.n <= written[f]
    /\ IF Stamped(f) THEN l.ts <= written[f] ELSE l.ts = 0

\* What is in a file, in the hands of a worker or stored.
InFile(f) == { c.line : c \in Range(file[f]) }
Held(f) == UNION { batch[w] : w \in { v \in Workers : pc[v] = StoreStep(f) } }
Stored(f) == { r.line : r \in { x \in table : x.feed = f } }
Known(f) == InFile(f) \cup Held(f) \cup Stored(f)

\* Clocks do not run backwards, and the cron job's start is not earlier than
\* any line that is known.
ClocksAgree(f) ==
    /\ \A l \in Known(f) : Made(f, l)
    /\ \A k, l \in Known(f) : k.n < l.n => k.ts <= l.ts
    /\ ByCron(f) => stamp <= written[f] + 1 /\ \A l \in Known(f) : l.ts <= stamp

\* The cells of a file are in the order of their lines, and a head begins one.
FileInOrder(f) ==
    /\ file[f] \in Seq(CellOf(f))
    /\ \A i, j \in 1..Len(file[f]) :
         i < j => /\ file[f][i].line.n <= file[f][j].line.n
                  /\ file[f][j].part = "head" => file[f][i].line.n < file[f][j].line.n

RowOk(r) ==
    /\ r.at \in Nat /\ r.at <= commits
    /\ r.feed \in Feeds
    /\ \E w \in Workers : \E k \in 0..life[w] : r.life = <<w, k>>
    /\ r.line \in LineOf(r.feed)
    /\ r.mitre = RuleBasedMatch(NormalType(r.feed, r.line.report.type), r.line.report.words)

\* What worker w has still to read of feed f is newer than all it has stored
\* of it in this life and than what it has in hand.
UnreadIsNew(w, f) ==
    \A i \in 1..Len(file[f]) :
        (i > pos[w][f] /\ file[f][i].part = "head") =>
            /\ \A r \in table : (r.life = Life(w) /\ r.feed = f) => r.line.n < file[f][i].line.n
            /\ pc[w] = StoreStep(f) => \A l \in batch[w] : l.n < file[f][i].line.n

\* What it has in hand is newer than all it has stored of the feed.
BatchIsNew(w, f) ==
    pc[w] = StoreStep(f) =>
        /\ batch[w] # {}
        /\ \A l \in batch[w], r \in table :
             (r.life = Life(w) /\ r.feed = f) => r.line.n < l.n

\* last_since is the timestamp of an event that this life has stored.
SinceIsStored(w, f) ==
    since[w][f] # 0 =>
        \E r \in table : r.life = Life(w) /\ r.feed = f /\ r.line.ts = since[w][f]

PosInFile(w, f) == f \notin rotated => pos[w][f] <= Len(file[f])

IInv ==
    /\ TypeOK
    /\ \A f \in Feeds : ClocksAgree(f) /\ FileInOrder(f)
    /\ \A r \in table : RowOk(r)
    /\ \A w \in Workers, f \in Feeds :
         /\ UnreadIsNew(w, f)
         /\ BatchIsNew(w, f)
         /\ SinceIsStored(w, f)
         /\ PosInFile(w, f)

-----------------------------------------------------------------------------
(* Lines, cells and sources.                                               *)

\* A source stays what it is.
LEMMA SameSource ==
    ASSUME source' = source, NEW f
    PROVE  /\ Reports(f)' = Reports(f) /\ Stamped(f)' = Stamped(f)
           /\ LineOf(f)' = LineOf(f) /\ CellOf(f)' = CellOf(f)
           /\ ByCron(f)' = ByCron(f)
           /\ AnyLine' = AnyLine /\ AnyCell' = AnyCell
<1>1. \A g : Reports(g)' = Reports(g)
  BY DEF Reports
<1>2. Stamped(f)' = Stamped(f)
  BY DEF Stamped
<1>3. LineOf(f)' = LineOf(f)
  BY <1>1 DEF LineOf
<1>4. CellOf(f)' = CellOf(f)
  BY <1>3 DEF CellOf
<1>5. AnyLine' = AnyLine
  BY <1>1 DEF AnyLine
<1>6. ByCron(f)' = ByCron(f)
  BY DEF ByCron
<1>7. QED
  BY <1>1, <1>2, <1>3, <1>4, <1>5, <1>6 DEF AnyCell

LEMMA SameType ==
    ASSUME source' = source, NEW f, NEW t
    PROVE  NormalType(f, t)' = NormalType(f, t)
BY DEF NormalType

LEMMA LinesAreAny ==
    ASSUME NEW f \in Feeds
    PROVE  LineOf(f) \subseteq AnyLine /\ CellOf(f) \subseteq AnyCell
BY DEF LineOf, AnyLine, CellOf, AnyCell

\* The steps of the two feeds are different ones.
LEMMA StepFacts ==
    ASSUME NEW f \in Feeds, NEW g \in Feeds
    PROVE  /\ {StoreStep(f), ReadStep(f), After(f)} \subseteq Steps
           /\ StoreStep(f) \notin {ReadStep(g), After(g), "sleep", "read cowrie"}
           /\ f # g => StoreStep(f) # StoreStep(g)
BY DEF Feeds, StoreStep, ReadStep, After, Steps

\* What is at a place of the file.
LEMMA CellFacts ==
    ASSUME IInv, NEW f \in Feeds, NEW i \in 1..Len(file[f])
    PROVE  /\ file[f][i] \in CellOf(f)
           /\ file[f][i].line \in LineOf(f) \cap InFile(f)
           /\ file[f][i].line.n \in Nat /\ file[f][i].line.ts \in Nat
           /\ file[f][i].part \in {"head", "tail"}
           /\ file[f][i].line.n <= written[f]
<1>1. file[f] \in Seq(CellOf(f))
  BY DEF IInv, FileInOrder
<1>2. file[f][i] \in CellOf(f)
  BY <1>1, ElementOfSeq
<1>3. i \in DOMAIN file[f]
  BY <1>1
<1>4. file[f][i].line \in InFile(f)
  BY <1>3 DEF InFile, Range
<1>5. file[f][i].line.n <= written[f]
  BY <1>4 DEF IInv, ClocksAgree, Known, Made
<1>6. QED
  BY <1>2, <1>4, <1>5 DEF CellOf, LineOf

\* What a known line is like.
LEMMA KnownFacts ==
    ASSUME IInv, NEW f \in Feeds, NEW l \in Known(f)
    PROVE  /\ l \in LineOf(f) /\ l.n \in Nat /\ l.ts \in Nat
           /\ l.n <= written[f]
           /\ Stamped(f) => l.ts <= written[f]
           /\ ~Stamped(f) => l.ts = 0
<1>1. Made(f, l)
  BY DEF IInv, ClocksAgree
<1>2. QED
  BY <1>1 DEF Made, LineOf

\* The nonempty sets of lines below a bound have a last.
LEMMA LastOfIsIn ==
    ASSUME NEW S, S # {}, NEW m \in Nat,
           \A l \in S : l.n \in Nat /\ l.n <= m
    PROVE  LastOf(S) \in S
<1> DEFINE T == { m - l.n : l \in S }
<1>1. T \in SUBSET Nat /\ T # {}
  <2>1. \A l \in S : m - l.n \in Nat
    OBVIOUS
  <2>2. QED
    BY <2>1
<1>2. PICK x \in T : \A y \in T : ~(<<y, x>> \in OpToRel(<, Nat))
  BY <1>1, WFMin, NatLessThanWellFounded
<1>3. \A y \in T : x <= y
  <2>1. ASSUME NEW y \in T PROVE x <= y
    <3>1. <<y, x>> \in Nat \X Nat /\ ~(<<y, x>> \in OpToRel(<, Nat))
      BY <1>1, <1>2
    <3>2. ~(y < x)
      BY <3>1 DEF OpToRel
    <3>3. QED
      BY <1>1, <3>2
  <2>2. QED
    BY <2>1
<1>4. PICK l \in S : x = m - l.n
  BY <1>2
<1>5. \A k \in S : k.n <= l.n
  <2>1. ASSUME NEW k \in S PROVE k.n <= l.n
    <3>1. m - k.n \in T
      OBVIOUS
    <3>2. m - l.n <= m - k.n
      BY <1>3, <1>4, <3>1
    <3>3. QED
      BY <3>2
  <2>2. QED
    BY <2>1
<1>6. QED
  BY <1>5 DEF LastOf

-----------------------------------------------------------------------------
(* What a reader gets.                                                     *)

\* The new cells are those beyond the position.
LEMMA NewCellsFacts ==
    ASSUME IInv, NEW w \in Workers, NEW f \in Feeds
    PROVE  ToSet(NewCells(w, f)) =
             { file[f][i] : i \in { k \in 1..Len(file[f]) : k > pos[w][f] } }
<1> DEFINE m == pos[w][f] + 1
           n == Len(file[f])
           s == SubSeq(file[f], m, n)
<1>1. pos[w][f] \in Nat /\ file[f] \in Seq(CellOf(f)) /\ n \in Nat
  BY DEF IInv, TypeOK, FileInOrder
<1>2. m \in Int /\ n \in Int /\ \A i \in m..n : file[f][i] \in CellOf(f)
  <2>1. ASSUME NEW i \in m..n PROVE file[f][i] \in CellOf(f)
    <3>1. i \in 1..Len(file[f])
      BY <1>1
    <3>2. QED
      BY <3>1, CellFacts
  <2>2. QED
    BY <1>1, <2>1
<1>3. /\ s \in Seq(CellOf(f))
      /\ Len(s) = IF m <= n THEN n - m + 1 ELSE 0
      /\ \A i \in 1..n - m + 1 : s[i] = file[f][m + i - 1]
  <2> HIDE DEF m, n
  <2>1. QED
    BY <1>2, SubSeqProperties, SMT
<1>4. NewCells(w, f) = s /\ ToSet(s) = { s[i] : i \in DOMAIN s } /\ DOMAIN s = 1..Len(s)
  BY <1>3 DEF NewCells, ToSet
<1> DEFINE R == { file[f][i] : i \in { k \in 1..n : k > pos[w][f] } }
<1>5. ASSUME NEW c \in ToSet(s) PROVE c \in R
  <2>1. PICK i \in DOMAIN s : c = s[i]
    BY <1>4
  <2>2. i \in 1..Len(s) /\ i \in Nat
    <3> HIDE DEF s
    <3>1. Len(s) \in Nat
      BY <1>3
    <3>2. QED
      BY <1>4, <3>1
  <2>3. m <= n /\ i \in 1..n - m + 1
    BY <1>1, <1>2, <1>3, <2>2
  <2>4. c = file[f][m + i - 1]
    BY <1>3, <2>1, <2>3
  <2>5. m + i - 1 \in { k \in 1..n : k > pos[w][f] }
    BY <1>1, <2>2, <2>3
  <2>6. QED
    BY <2>4, <2>5
<1>6. ASSUME NEW c \in R PROVE c \in ToSet(s)
  <2>1. PICK k \in 1..n : k > pos[w][f] /\ c = file[f][k]
    OBVIOUS
  <2>2. m <= n /\ k - m + 1 \in 1..n - m + 1 /\ m + (k - m + 1) - 1 = k
    <3>1. k \in Int /\ k <= n /\ m <= k
      BY <1>1, <2>1
    <3> HIDE DEF m, n
    <3>2. QED
      BY <1>2, <3>1
  <2>3. k - m + 1 \in DOMAIN s
    BY <1>1, <1>3, <1>4, <2>2
  <2>4. s[k - m + 1] = c
    BY <1>3, <2>1, <2>2
  <2>5. QED
    BY <1>4, <2>3, <2>4
<1>7. QED
  BY <1>4, <1>5, <1>6

-----------------------------------------------------------------------------
(* What the producers do.                                                  *)

\* Line l is one of the next m lines of feed f.
NextLine(f, l, m) ==
    /\ l \in LineOf(f)
    /\ written[f] < l.n /\ l.n <= written[f] + m
    /\ IF Stamped(f) THEN l.ts <= written[f] + m ELSE l.ts = 0
    /\ \A k \in Known(f) : k.ts <= l.ts
    /\ ByCron(f) => l.ts = stamp

\* Line l is the one the file ends in.
EndsIn(f, l) == l \in InFile(f) /\ \A i \in 1..Len(file[f]) : file[f][i].line.n <= l.n

\* The cells new are those of the next m lines, or the tail of the last one.
Appends(f, new, m) ==
    /\ m \in Nat
    /\ new \in Seq(CellOf(f))
    /\ \A j \in 1..Len(new) : \/ NextLine(f, new[j].line, m)
                              \/ new[j].part = "tail" /\ EndsIn(f, new[j].line)
    /\ \A i, j \in 1..Len(new) :
         /\ new[i].line.n < new[j].line.n => new[i].line.ts <= new[j].line.ts
         /\ i < j => /\ new[i].line.n <= new[j].line.n
                     /\ new[j].part = "head" => new[i].line.n < new[j].line.n

Grow(f, new, m) ==
    /\ Appends(f, new, m)
    /\ file' = [file EXCEPT ![f] = @ \o new]
    /\ written' = [written EXCEPT ![f] = @ + m]
    /\ owed' \in Nat
    /\ UNCHANGED <<source, visits, stamp, rotated, workVars, table, commits, lost>>

LEMMA GrownFile ==
    ASSUME IInv, NEW f \in Feeds, NEW new, NEW m, Grow(f, new, m)
    PROVE  /\ Len(file[f]) \in Nat /\ Len(new) \in Nat
           /\ file'[f] \in Seq(CellOf(f)) /\ Len(file'[f]) = Len(file[f]) + Len(new)
           /\ \A i \in 1..Len(file[f]) : file'[f][i] = file[f][i]
           /\ \A i \in 1..Len(file'[f]) :
                i > Len(file[f]) => i - Len(file[f]) \in 1..Len(new) /\ file'[f][i] = new[i - Len(file[f])]
           /\ \A g \in Feeds : g # f => file'[g] = file[g] /\ written'[g] = written[g]
           /\ written'[f] = written[f] + m /\ written[f] \in Nat /\ m \in Nat
           /\ file' \in [Feeds -> Seq(AnyCell)] /\ written' \in [Feeds -> Nat]
<1> DEFINE old == file[f]
           both == old \o new
<1>1. old \in Seq(CellOf(f)) /\ new \in Seq(CellOf(f)) /\ m \in Nat
  BY DEF IInv, FileInOrder, Grow, Appends
<1>2. Len(old) \in Nat /\ Len(new) \in Nat
  BY <1>1, LenProperties
<1>3. /\ both \in Seq(CellOf(f)) /\ Len(both) = Len(old) + Len(new)
      /\ \A i \in 1..Len(old) + Len(new) : both[i] = IF i <= Len(old) THEN old[i] ELSE new[i - Len(old)]
  BY <1>1, ConcatProperties
<1>4. file \in [Feeds -> Seq(AnyCell)] /\ written \in [Feeds -> Nat]
  BY DEF IInv, TypeOK
<1>5. /\ file' = [file EXCEPT ![f] = both]
      /\ written' = [written EXCEPT ![f] = written[f] + m]
  BY DEF Grow
<1>6. file'[f] = both
  BY <1>4, <1>5
<1>7. both \in Seq(AnyCell)
  BY <1>3, LinesAreAny
<1>8. file' \in [Feeds -> Seq(AnyCell)]
  BY <1>4, <1>5, <1>7
<1>9. /\ written' \in [Feeds -> Nat] /\ written'[f] = written[f] + m /\ written[f] \in Nat
      /\ \A g \in Feeds : g # f => file'[g] = file[g] /\ written'[g] = written[g]
  BY <1>1, <1>4, <1>5
<1> HIDE DEF both, old
<1>10. \A i \in 1..Len(old) : both[i] = old[i]
  BY <1>2, <1>3
<1>11. ASSUME NEW i \in 1..Len(both), i > Len(old)
       PROVE  i - Len(old) \in 1..Len(new) /\ both[i] = new[i - Len(old)]
  <2>1. i \in 1..Len(old) + Len(new)
    BY <1>3, <1>11
  <2>2. QED
    BY <1>2, <1>3, <1>11, <2>1
<1>12. QED
  BY <1>1, <1>2, <1>3, <1>6, <1>8, <1>9, <1>10, <1>11 DEF old

\* What becomes known are the lines of the new cells.
LEMMA GrownKnown ==
    ASSUME IInv, NEW f \in Feeds, NEW new, NEW m, Grow(f, new, m)
    PROVE  /\ \A l \in Known(f)' : l \in Known(f) \/ \E j \in 1..Len(new) : l = new[j].line
           /\ \A g \in Feeds : g # f => Known(g)' = Known(g)
<1>1. \A g \in Feeds : Held(g)' = Held(g) /\ Stored(g)' = Stored(g)
  BY DEF Held, Stored, Grow, workVars, StoreStep
<1>2. \A g \in Feeds : g # f => InFile(g)' = InFile(g)
  BY GrownFile DEF InFile
<1>3. ASSUME NEW l \in InFile(f)'
      PROVE  l \in InFile(f) \/ \E j \in 1..Len(new) : l = new[j].line
  <2>1. PICK i \in DOMAIN file'[f] : l = file'[f][i].line
    BY <1>3 DEF InFile, Range
  <2>2. i \in 1..Len(file'[f]) /\ i \in Nat
    BY <2>1, GrownFile
  <2>3. CASE i <= Len(file[f])
    <3>1. i \in 1..Len(file[f])
      BY <2>2, <2>3, GrownFile
    <3>2. QED
      BY <2>1, <3>1, GrownFile, CellFacts
  <2>4. CASE i > Len(file[f])
    <3>1. i - Len(file[f]) \in 1..Len(new) /\ file'[f][i] = new[i - Len(file[f])]
      BY <2>2, <2>4, GrownFile
    <3>2. QED
      BY <2>1, <3>1
  <2>5. QED
    BY <2>2, <2>3, <2>4, GrownFile
<1>4. QED
  BY <1>1, <1>2, <1>3 DEF Known

LEMMA GrownClocks ==
    ASSUME IInv, NEW f \in Feeds, NEW new, NEW m, Grow(f, new, m)
    PROVE  \A g \in Feeds : ClocksAgree(g)'
<1>0. source' = source
  BY DEF Grow
<1> DEFINE IsNew(l) == \E j \in 1..Len(new) : l = new[j].line
<1>1. ASSUME NEW l \in Known(f)'
      PROVE  l \in Known(f) \/ (IsNew(l) /\ NextLine(f, l, m))
  <2>1. CASE l \in Known(f)
    BY <2>1
  <2>2. CASE \E j \in 1..Len(new) : l = new[j].line
    <3>1. PICK j \in 1..Len(new) : l = new[j].line
      BY <2>2
    <3>2. NextLine(f, l, m) \/ l \in InFile(f)
      BY <3>1 DEF Grow, Appends, EndsIn
    <3>3. QED
      BY <3>1, <3>2 DEF Known
  <2>3. QED
    BY <1>1, <2>1, <2>2, GrownKnown
<1>2. \A l \in Known(f)' : Made(f, l)'
  <2> SUFFICES ASSUME NEW l \in Known(f)' PROVE Made(f, l)'
    OBVIOUS
  <2>1. l \in LineOf(f)' /\ (Stamped(f)' <=> Stamped(f))
    BY <1>0, <1>1, KnownFacts, SameSource DEF NextLine
  <2>2. l.n \in Nat /\ l.ts \in Nat
    BY <1>0, <2>1, SameSource DEF LineOf
  <2>3. CASE l \in Known(f)
    BY <2>1, <2>2, <2>3, KnownFacts, GrownFile DEF Made
  <2>4. CASE NextLine(f, l, m)
    BY <2>1, <2>2, <2>4, GrownFile DEF Made, NextLine
  <2>5. QED
    BY <1>1, <2>3, <2>4
<1>3. \A k, l \in Known(f)' : k.n < l.n => k.ts <= l.ts
  <2> SUFFICES ASSUME NEW k \in Known(f)', NEW l \in Known(f)', k.n < l.n
               PROVE  k.ts <= l.ts
    OBVIOUS
  <2>1. k.n \in Nat /\ k.ts \in Nat /\ l.n \in Nat /\ l.ts \in Nat /\ written[f] \in Nat
    BY <1>1, KnownFacts, GrownFile DEF NextLine, LineOf
  <2>2. CASE k \in Known(f) /\ l \in Known(f)
    BY <2>2 DEF IInv, ClocksAgree
  <2>3. CASE k \in Known(f) /\ NextLine(f, l, m)
    BY <2>1, <2>3, KnownFacts DEF NextLine
  <2>4. CASE NextLine(f, k, m) /\ l \in Known(f)
    BY <2>1, <2>4, KnownFacts DEF NextLine
  <2>5. CASE IsNew(k) /\ IsNew(l)
    BY <2>5 DEF Grow, Appends
  <2>6. QED
    BY <1>1, <2>2, <2>3, <2>4, <2>5
<1>4. ASSUME ByCron(f)' PROVE stamp' <= written'[f] + 1 /\ \A l \in Known(f)' : l.ts <= stamp'
  <2>1. ByCron(f) /\ stamp' = stamp /\ stamp \in Nat
    BY <1>0, <1>4, SameSource DEF Grow, IInv, TypeOK
  <2>2. stamp <= written[f] + 1 /\ \A l \in Known(f) : l.ts <= stamp
    BY <2>1 DEF IInv, ClocksAgree
  <2>3. stamp <= written'[f] + 1
    BY <2>1, <2>2, GrownFile
  <2>4. \A l \in Known(f)' : l.ts <= stamp
    BY <1>1, <2>1, <2>2 DEF NextLine
  <2>5. QED
    BY <2>1, <2>3, <2>4
<1>5. ASSUME NEW g \in Feeds, g # f PROVE ClocksAgree(g)'
  <2>1. \A l \in Known(g) : Made(g, l) /\ l \in Known(g)'
    BY <1>5, GrownKnown DEF IInv, ClocksAgree
  <2>2. \A l : Made(g, l) => Made(g, l)'
    BY <1>0, <1>5, GrownFile, SameSource DEF Made
  <2>3. (ByCron(g)' <=> ByCron(g)) /\ stamp' = stamp /\ written'[g] = written[g]
    BY <1>0, <1>5, SameSource, GrownFile DEF Grow
  <2>4. QED
    BY <1>5, <2>1, <2>2, <2>3, GrownKnown DEF IInv, ClocksAgree
<1>6. QED
  BY <1>2, <1>3, <1>5, <1>4 DEF ClocksAgree

LEMMA GrownOrder ==
    ASSUME IInv, NEW f \in Feeds, NEW new, NEW m, Grow(f, new, m)
    PROVE  \A g \in Feeds : FileInOrder(g)'
<1>0. source' = source
  BY DEF Grow
<1>1. ASSUME NEW g \in Feeds, g # f PROVE FileInOrder(g)'
  <2>1. file'[g] = file[g] /\ CellOf(g)' = CellOf(g)
    BY <1>0, <1>1, GrownFile, SameSource
  <2>2. QED
    BY <2>1 DEF IInv, FileInOrder
<1>2. FileInOrder(f)'
  <2>1. file'[f] \in Seq(CellOf(f)')
    BY <1>0, GrownFile, SameSource
  <2>2. ASSUME NEW i \in 1..Len(file'[f]), NEW j \in 1..Len(file'[f]), i < j
        PROVE  /\ file'[f][i].line.n <= file'[f][j].line.n
               /\ file'[f][j].part = "head" => file'[f][i].line.n < file'[f][j].line.n
    <3> DEFINE a == Len(file[f])
    <3>1. a \in Nat /\ i \in Nat /\ j \in Nat /\ i >= 1 /\ j >= 1
      BY GrownFile
    <3>2. CASE j <= a
      <4>1. i \in 1..a /\ j \in 1..a
        BY <2>2, <3>1, <3>2
      <4>2. file'[f][i] = file[f][i] /\ file'[f][j] = file[f][j]
        BY <4>1, GrownFile
      <4>3. QED
        BY <2>2, <4>1, <4>2 DEF IInv, FileInOrder
    <3>3. CASE i > a
      <4>1. /\ i - a \in 1..Len(new) /\ file'[f][i] = new[i - a]
            /\ j - a \in 1..Len(new) /\ file'[f][j] = new[j - a]
        <5>1. j > a
          BY <2>2, <3>1, <3>3
        <5>2. QED
          BY <3>3, <5>1, GrownFile
      <4>2. i - a < j - a
        BY <2>2, <3>1
      <4>3. QED
        BY <4>1, <4>2 DEF Grow, Appends
    <3>4. CASE i <= a /\ j > a
      <4>1. i \in 1..a
        BY <3>1, <3>4
      <4>2. file'[f][i] = file[f][i] /\ file[f][i].line.n \in Nat /\ file[f][i].line.n <= written[f]
        BY <4>1, GrownFile, CellFacts
      <4>3. j - a \in 1..Len(new) /\ file'[f][j] = new[j - a]
        BY <3>4, GrownFile
      <4>4. CASE NextLine(f, new[j - a].line, m)
        <5>1. /\ written[f] \in Nat /\ new[j - a].line.n \in Nat
              /\ written[f] < new[j - a].line.n
          BY <4>4, GrownFile DEF NextLine, LineOf
        <5>2. QED
          BY <4>2, <4>3, <5>1
      <4>5. CASE new[j - a].part = "tail" /\ EndsIn(f, new[j - a].line)
        BY <4>1, <4>2, <4>3, <4>5 DEF EndsIn
      <4>6. QED
        BY <4>3, <4>4, <4>5 DEF Grow, Appends
    <3>5. QED
      BY <3>1, <3>2, <3>3, <3>4
  <2>3. QED
    BY <2>1, <2>2 DEF FileInOrder
<1>3. QED
  BY <1>1, <1>2

\* A head that was appended is beyond all that is known.
LEMMA GrownUnread ==
    ASSUME IInv, NEW f \in Feeds, NEW new, NEW m, Grow(f, new, m),
           NEW w \in Workers, NEW g \in Feeds
    PROVE  UnreadIsNew(w, g)'
<1>0. /\ Life(w)' = Life(w) /\ pos'[w][g] = pos[w][g] /\ StoreStep(g)' = StoreStep(g)
      /\ pc' = pc /\ batch' = batch /\ table' = table
  BY DEF Grow, workVars, Life, StoreStep
<1>1. CASE g # f
  <2>1. file'[g] = file[g]
    BY <1>1, GrownFile
  <2>2. QED
    BY <1>0, <2>1 DEF IInv, UnreadIsNew
<1>2. CASE g = f
  <2> SUFFICES ASSUME NEW i \in 1..Len(file'[f]), i > pos[w][f], file'[f][i].part = "head"
               PROVE  /\ \A r \in table : (r.life = Life(w) /\ r.feed = f) => r.line.n < file'[f][i].line.n
                      /\ pc[w] = StoreStep(f) => \A l \in batch[w] : l.n < file'[f][i].line.n
    BY <1>0, <1>2 DEF UnreadIsNew
  <2>1. CASE i <= Len(file[f])
    <3>1. i \in 1..Len(file[f]) /\ file'[f][i] = file[f][i]
      BY <2>1, GrownFile
    <3>2. QED
      BY <3>1 DEF IInv, UnreadIsNew
  <2>2. CASE i > Len(file[f])
    <3>1. i - Len(file[f]) \in 1..Len(new) /\ file'[f][i] = new[i - Len(file[f])]
      BY <2>2, GrownFile
    <3>2. NextLine(f, file'[f][i].line, m)
      BY <3>1 DEF Grow, Appends
    <3>3. \A l \in Known(f) : l.n < file'[f][i].line.n
      BY <3>2, KnownFacts, GrownFile DEF NextLine, LineOf
    <3>4. \A r \in table : r.feed = f => r.line \in Known(f)
      BY DEF Known, Stored
    <3>5. pc[w] = StoreStep(f) => batch[w] \subseteq Known(f)
      BY DEF Known, Held
    <3>6. QED
      BY <3>3, <3>4, <3>5
  <2>3. QED
    BY <2>1, <2>2, GrownFile
<1>3. QED
  BY <1>1, <1>2

LEMMA RowsStay ==
    ASSUME IInv, source' = source, life' = life, commits' = commits, table' = table
    PROVE  \A r \in table' : RowOk(r)'
<1> SUFFICES ASSUME NEW r \in table PROVE RowOk(r)'
  OBVIOUS
<1>1. RowOk(r)
  BY DEF IInv
<1>2. /\ LineOf(r.feed)' = LineOf(r.feed)
      /\ NormalType(r.feed, r.line.report.type)' = NormalType(r.feed, r.line.report.type)
  BY SameSource, SameType
<1>3. QED
  BY <1>1, <1>2 DEF RowOk

\* Whatever is appended, the invariant stays.
LEMMA Grown ==
    ASSUME IInv, NEW f \in Feeds, NEW new, NEW m, Grow(f, new, m), visits' \in Nat
    PROVE  IInv'
<1>1. UNCHANGED <<source, rotated, pos, since, pc, batch, life, table, commits>>
  BY DEF Grow, workVars
<1>2. TypeOK'
  <2>1. owed' \in Nat /\ stamp' \in Nat
    BY DEF Grow, IInv, TypeOK
  <2>2. AnyLine' = AnyLine /\ AnyCell' = AnyCell
    BY <1>1, SameSource
  <2>3. QED
    BY <1>1, <2>2, <2>1, GrownFile DEF IInv, TypeOK
<1>3. \A r \in table' : RowOk(r)'
  BY <1>1, RowsStay
<1>4. ASSUME NEW w \in Workers, NEW g \in Feeds
      PROVE  BatchIsNew(w, g)' /\ SinceIsStored(w, g)' /\ PosInFile(w, g)'
  <2>1. Life(w)' = Life(w)
    BY <1>1 DEF Life
  <2>2. BatchIsNew(w, g)'
    BY <1>1, <2>1 DEF IInv, BatchIsNew, StoreStep
  <2>3. SinceIsStored(w, g)'
    BY <1>1, <2>1 DEF IInv, SinceIsStored
  <2>4. PosInFile(w, g)'
    <3>1. Len(file[g]) \in Nat /\ Len(file'[g]) \in Nat /\ Len(file[g]) <= Len(file'[g])
      BY GrownFile DEF IInv, FileInOrder
    <3>2. pos[w][g] \in Nat
      BY DEF IInv, TypeOK
    <3>3. QED
      BY <1>1, <3>1, <3>2 DEF IInv, PosInFile
  <2>5. QED
    BY <2>2, <2>3, <2>4
<1>5. QED
  BY <1>2, <1>3, <1>4, GrownClocks, GrownOrder, GrownUnread DEF IInv

\* A line is begun by a producer whose clock has not run backwards.
LEMMA NewLineFacts ==
    ASSUME IInv, NEW f \in Feeds, NEW line \in NewLines(f)
    PROVE  NextLine(f, line, 1) /\ line.n \in Nat /\ line.ts \in Nat
<1>1. written[f] \in Nat /\ stamp \in Nat
  BY DEF IInv, TypeOK
<1>2. PICK t \in Times(f), r \in Kinds(f) : line = [n |-> written[f] + 1, ts |-> t, report |-> r]
  BY DEF NewLines
<1>3. r \in Reports(f)
  BY DEF Kinds
<1>4. /\ t \in Nat
      /\ IF Stamped(f) THEN t <= written[f] + 1 ELSE t = 0
      /\ \A k \in Known(f) : k.ts <= t
      /\ ByCron(f) => t = stamp
  <2>1. CASE ByCron(f)
    <3>1. t = stamp /\ Stamped(f)
      BY <2>1 DEF Times, ByCron, Stamped
    <3>2. stamp <= written[f] + 1 /\ \A k \in Known(f) : k.ts <= stamp
      BY <2>1 DEF IInv, ClocksAgree
    <3>3. QED
      BY <1>1, <3>1, <3>2
  <2>2. CASE ~ByCron(f)
    <3>1. t \in (IF Stamped(f) THEN {written[f], written[f] + 1} \ {0} ELSE {0})
      BY <2>2 DEF Times
    <3>2. QED
      BY <1>1, <2>2, <3>1, KnownFacts
  <2>3. QED
    BY <2>1, <2>2
<1>5. line.n = written[f] + 1 /\ line.ts = t /\ line.report = r
  BY <1>2
<1>6. line \in LineOf(f)
  BY <1>1, <1>2, <1>3, <1>4 DEF LineOf
<1>7. QED
  BY <1>1, <1>4, <1>5, <1>6 DEF NextLine

\* What a line that is begun does besides its cells.
LEMMA BegunFacts ==
    ASSUME IInv, NEW f \in Feeds, MayWrite(f), Begun(f)
    PROVE  /\ owed' \in Nat /\ written' = [written EXCEPT ![f] = @ + 1]
           /\ UNCHANGED <<source, visits, stamp, rotated, workVars, table, commits, lost>>
<1>1. owed \in Nat /\ (ByCron(f) => owed > 0)
  BY DEF IInv, TypeOK, MayWrite
<1>2. owed' = IF ByCron(f) THEN owed - 1 ELSE owed
  BY DEF Begun
<1>3. owed' \in Nat
  BY <1>1, <1>2
<1>4. QED
  BY <1>3 DEF Begun

LEMMA WriteLineGrows ==
    ASSUME IInv, NEW f \in Feeds, WriteLine(f)
    PROVE  visits' = visits /\ \E new, m : Grow(f, new, m)
<1>1. PICK line \in NewLines(f) : file' = [file EXCEPT ![f] = @ \o Cells(line)]
  BY DEF WriteLine
<1> DEFINE new == Cells(line)
<1>2. NextLine(f, line, 1) /\ line.n \in Nat /\ line.ts \in Nat
  BY NewLineFacts
<1>3. /\ Len(new) = 2
      /\ new[1] = [line |-> line, part |-> "head"] /\ new[2] = [line |-> line, part |-> "tail"]
  BY DEF Cells
<1>4. new \in Seq(CellOf(f))
  BY <1>2 DEF NextLine, CellOf, Cells
<1> HIDE DEF new
<1>5. \A j \in 1..Len(new) : new[j].line = line /\ (new[j].part = "head" => j = 1)
  BY <1>3
<1>6. Appends(f, new, 1)
  <2>1. \A i, j \in 1..Len(new) : i < j => j # 1
    BY <1>3
  <2>2. \A j \in 1..Len(new) : NextLine(f, new[j].line, 1)
    BY <1>2, <1>5
  <2>3. \A i, j \in 1..Len(new) :
          /\ new[i].line.n < new[j].line.n => new[i].line.ts <= new[j].line.ts
          /\ i < j => /\ new[i].line.n <= new[j].line.n
                      /\ new[j].part = "head" => new[i].line.n < new[j].line.n
    BY <1>2, <1>5, <2>1
  <2>4. QED
    BY <1>4, <2>2, <2>3 DEF Appends
<1>7. Grow(f, new, 1) /\ visits' = visits
  BY <1>1, <1>6, BegunFacts DEF WriteLine, Grow, new
<1>8. QED
  BY <1>7

\* Appending one cell.
LEMMA OneCell ==
    ASSUME IInv, NEW f \in Feeds, NEW c \in CellOf(f), NEW m \in Nat,
           NextLine(f, c.line, m) \/ (c.part = "tail" /\ EndsIn(f, c.line))
    PROVE  Appends(f, <<c>>, m) /\ Append(file[f], c) = file[f] \o <<c>>
<1>1. <<c>> \in Seq(CellOf(f)) /\ Len(<<c>>) = 1 /\ <<c>>[1] = c
  OBVIOUS
<1>2. file[f] \in Seq(CellOf(f))
  BY DEF IInv, FileInOrder
<1>3. c.line.n \in Nat /\ c.line.ts \in Nat
  BY DEF CellOf, LineOf
<1>4. \A j \in 1..Len(<<c>>) : j = 1 /\ <<c>>[j] = c
  BY <1>1
<1>5. Appends(f, <<c>>, m)
  BY <1>1, <1>3, <1>4 DEF Appends
<1>6. QED
  BY <1>2, <1>5, AppendIsConcat

LEMMA WriteHeadGrows ==
    ASSUME IInv, NEW f \in Feeds, WriteHead(f)
    PROVE  visits' = visits /\ \E new, m : Grow(f, new, m)
<1>1. PICK line \in NewLines(f) : file' = [file EXCEPT ![f] = Append(@, Cells(line)[1])]
  BY DEF WriteHead
<1> DEFINE c == [line |-> line, part |-> "head"]
<1>2. NextLine(f, line, 1) /\ Cells(line)[1] = c
  BY NewLineFacts DEF Cells
<1>3. c \in CellOf(f) /\ c.line = line
  BY <1>2 DEF NextLine, CellOf
<1> HIDE DEF c
<1>4. Appends(f, <<c>>, 1) /\ Append(file[f], c) = file[f] \o <<c>>
  BY <1>2, <1>3, OneCell
<1>5. Grow(f, <<c>>, 1) /\ visits' = visits
  BY <1>1, <1>2, <1>4, BegunFacts DEF WriteHead, Grow
<1>6. QED
  BY <1>5

LEMMA WriteTailGrows ==
    ASSUME IInv, NEW f \in Feeds, WriteTail(f)
    PROVE  visits' = visits /\ \E new, m : Grow(f, new, m)
<1> DEFINE n == Len(file[f])
           line == Last(file[f]).line
           c == [line |-> line, part |-> "tail"]
<1>1. file[f] \in Seq(CellOf(f)) /\ n \in Nat /\ file[f] # <<>>
  BY DEF IInv, FileInOrder, WriteTail
<1>2. n \in 1..n
  BY <1>1
<1>3. line = file[f][n].line /\ line \in LineOf(f) \cap InFile(f) /\ line.n \in Nat
  BY <1>2, CellFacts DEF Last
<1>4. EndsIn(f, line)
  <2>1. ASSUME NEW i \in 1..n PROVE file[f][i].line.n <= line.n
    <3>1. CASE i = n
      BY <1>3, <3>1
    <3>2. CASE i < n
      BY <1>2, <1>3, <3>2 DEF IInv, FileInOrder
    <3>3. QED
      BY <1>1, <3>1, <3>2
  <2>2. QED
    BY <1>3, <2>1 DEF EndsIn
<1>5. c \in CellOf(f) /\ c.line = line /\ c.part = "tail" /\ Cells(line)[2] = c
  BY <1>3 DEF CellOf, Cells
<1> HIDE DEF c, n
<1>6. Appends(f, <<c>>, 0) /\ Append(file[f], c) = file[f] \o <<c>>
  BY <1>4, <1>5, OneCell
<1>7. written' = [written EXCEPT ![f] = @ + 0]
  <2>1. written \in [Feeds -> Nat] /\ written' = written
    BY DEF IInv, TypeOK, WriteTail
  <2>2. written[f] + 0 = written[f]
    BY <2>1
  <2>3. QED
    BY <2>1, <2>2
<1>8. Grow(f, <<c>>, 0) /\ visits' = visits
  BY <1>5, <1>6, <1>7 DEF WriteTail, Grow, IInv, TypeOK
<1>9. QED
  BY <1>8

\* Requests may be made, and the cron job started.
LEMMA Unmoved ==
    ASSUME IInv, visits' \in Nat, owed' \in Nat,
           stamp' = stamp \/ stamp' = written["watched"] + 1,
           UNCHANGED <<source, written, file, rotated, pos, since, pc, batch, life, table, commits>>
    PROVE  IInv'
<1>1. \A f \in Feeds : /\ LineOf(f)' = LineOf(f) /\ CellOf(f)' = CellOf(f)
                      /\ (Stamped(f)' <=> Stamped(f)) /\ (ByCron(f)' <=> ByCron(f))
  BY SameSource
<1>2. written["watched"] \in Nat /\ stamp \in Nat /\ stamp' \in Nat
  BY DEF IInv, TypeOK, Feeds
<1>3. TypeOK'
  <2>1. AnyLine' = AnyLine /\ AnyCell' = AnyCell
    BY SameSource
  <2>2. QED
    BY <1>2, <2>1 DEF IInv, TypeOK
<1>4. ASSUME NEW f \in Feeds PROVE ClocksAgree(f)' /\ FileInOrder(f)'
  <2>1. Known(f)' = Known(f)
    BY DEF Known, InFile, Held, Stored, StoreStep
  <2>2. \A l : Made(f, l) => Made(f, l)'
    BY <1>1 DEF Made
  <2>3. ASSUME ByCron(f)' PROVE stamp' <= written'[f] + 1 /\ \A l \in Known(f)' : l.ts <= stamp'
    <3>1. f = "watched" /\ ByCron(f) /\ Stamped(f)
      BY <1>1, <2>3 DEF ByCron, Stamped
    <3>2. stamp <= written[f] + 1 /\ \A l \in Known(f) : l.ts <= stamp
      BY <3>1 DEF IInv, ClocksAgree
    <3>3. \A l \in Known(f) : l.ts \in Nat /\ l.ts <= written[f]
      BY <3>1, KnownFacts
    <3>4. QED
      BY <1>2, <2>1, <3>1, <3>2, <3>3
  <2>4. FileInOrder(f)'
    BY <1>1 DEF IInv, FileInOrder
  <2>5. QED
    BY <1>1, <2>1, <2>2, <2>3, <2>4 DEF IInv, ClocksAgree
<1>5. \A r \in table' : RowOk(r)'
  BY RowsStay
<1>6. ASSUME NEW w \in Workers, NEW f \in Feeds
      PROVE  UnreadIsNew(w, f)' /\ BatchIsNew(w, f)' /\ SinceIsStored(w, f)' /\ PosInFile(w, f)'
  <2>1. Life(w)' = Life(w) /\ StoreStep(f)' = StoreStep(f)
    BY DEF Life, StoreStep
  <2>2. UnreadIsNew(w, f)'
    BY <2>1 DEF IInv, UnreadIsNew
  <2>3. BatchIsNew(w, f)'
    BY <2>1 DEF IInv, BatchIsNew
  <2>4. SinceIsStored(w, f)' /\ PosInFile(w, f)'
    BY <2>1 DEF IInv, SinceIsStored, PosInFile
  <2>5. QED
    BY <2>2, <2>3, <2>4
<1>7. QED
  BY <1>3, <1>4, <1>5, <1>6 DEF IInv

\* A producer appends to a file, or a request is made, or the cron job started.
LEMMA ProduceGrows ==
    ASSUME IInv, Produce
    PROVE  /\ visits' \in Nat
           /\ \/ \E f \in Feeds : \E new, m : Grow(f, new, m)
              \/ /\ owed' \in Nat /\ (stamp' = stamp \/ stamp' = written["watched"] + 1)
                 /\ UNCHANGED <<source, written, file, rotated, workVars, table, commits, lost>>
<1>1. visits \in Nat /\ owed \in Nat
  BY DEF IInv, TypeOK
<1>2. CASE Visit
  BY <1>1, <1>2 DEF Visit
<1>3. CASE CronRun
  BY <1>1, <1>3 DEF CronRun
<1>4. ASSUME NEW f \in Feeds, WriteLine(f) \/ WriteHead(f) \/ WriteTail(f)
      PROVE  visits' = visits /\ \E new, m : Grow(f, new, m)
  BY <1>4, WriteLineGrows, WriteHeadGrows, WriteTailGrows
<1>5. QED
  BY <1>1, <1>2, <1>3, <1>4 DEF Produce

LEMMA ProduceKeeps ==
    ASSUME IInv, Produce
    PROVE  IInv'
<1>1. CASE \E f \in Feeds : \E new, m : Grow(f, new, m)
  BY <1>1, ProduceGrows, Grown
<1>2. CASE /\ owed' \in Nat /\ (stamp' = stamp \/ stamp' = written["watched"] + 1)
           /\ UNCHANGED <<source, written, file, rotated, workVars, table, commits, lost>>
  BY <1>2, ProduceGrows, Unmoved DEF workVars
<1>3. QED
  BY <1>1, <1>2, ProduceGrows

-----------------------------------------------------------------------------
(* What a step leaves as it was.                                           *)

\* Nothing new is known.
LEMMA NoNews ==
    ASSUME IInv, source' = source, written' = written, stamp' = stamp,
           \A f \in Feeds : Known(f)' \subseteq Known(f)
    PROVE  \A f \in Feeds : ClocksAgree(f)'
<1> SUFFICES ASSUME NEW f \in Feeds PROVE ClocksAgree(f)'
  OBVIOUS
<1>1. \A l : Made(f, l) => Made(f, l)'
  BY SameSource DEF Made
<1>2. ByCron(f)' <=> ByCron(f)
  BY SameSource
<1>3. QED
  BY <1>1, <1>2 DEF IInv, ClocksAgree

LEMMA FilesStay ==
    ASSUME IInv, source' = source, file' = file
    PROVE  \A f \in Feeds : FileInOrder(f)' /\ InFile(f)' = InFile(f)
<1> SUFFICES ASSUME NEW f \in Feeds PROVE FileInOrder(f)' /\ InFile(f)' = InFile(f)
  OBVIOUS
<1>1. CellOf(f)' = CellOf(f)
  BY SameSource
<1>2. QED
  BY <1>1 DEF IInv, FileInOrder, InFile

LEMMA RowsKeep ==
    ASSUME IInv, source' = source, commits' \in Nat, commits <= commits',
           \A w \in Workers : life'[w] \in Nat /\ life[w] <= life'[w],
           \A r \in table' : r \in table \/ RowOk(r)'
    PROVE  \A r \in table' : RowOk(r)'
<1> SUFFICES ASSUME NEW r \in table PROVE RowOk(r)'
  OBVIOUS
<1>1. RowOk(r) /\ commits \in Nat /\ life \in [Workers -> Nat]
  BY DEF IInv, TypeOK
<1>2. /\ LineOf(r.feed)' = LineOf(r.feed)
      /\ NormalType(r.feed, r.line.report.type)' = NormalType(r.feed, r.line.report.type)
  BY SameSource, SameType
<1>3. PICK w \in Workers : \E k \in 0..life[w] : r.life = <<w, k>>
  BY <1>1 DEF RowOk
<1>4. \E k \in 0..life'[w] : r.life = <<w, k>>
  <2>1. PICK k \in 0..life[w] : r.life = <<w, k>>
    BY <1>3
  <2>2. k \in 0..life'[w]
    BY <1>1
  <2>3. QED
    BY <2>1, <2>2
<1>5. r.at \in Nat /\ r.at <= commits'
  BY <1>1 DEF RowOk
<1>6. QED
  BY <1>1, <1>2, <1>4, <1>5 DEF RowOk

\* What a worker knows of a feed that the step is not about.
Reader(w, f) ==
    UnreadIsNew(w, f) /\ BatchIsNew(w, f) /\ SinceIsStored(w, f) /\ PosInFile(w, f)

LEMMA ReaderStays ==
    ASSUME IInv, NEW w \in Workers, NEW f \in Feeds,
           file' = file, rotated' = rotated,
           pos'[w][f] = pos[w][f], since'[w][f] = since[w][f], life'[w] = life[w],
           (pc'[w] = pc[w] /\ batch'[w] = batch[w]) \/ pc'[w] # StoreStep(f),
           table \subseteq table',
           \A r \in table' : r \in table \/ r.life # Life(w) \/ r.feed # f
    PROVE  Reader(w, f)'
<1>1. Life(w)' = Life(w) /\ StoreStep(f)' = StoreStep(f)
  BY DEF Life, StoreStep
<1>2. \A r \in table' : (r.life = Life(w) /\ r.feed = f) => r \in table
  OBVIOUS
<1>3. UnreadIsNew(w, f)'
  BY <1>1, <1>2 DEF IInv, UnreadIsNew
<1>4. BatchIsNew(w, f)'
  BY <1>1, <1>2 DEF IInv, BatchIsNew
<1>5. SinceIsStored(w, f)' /\ PosInFile(w, f)'
  BY <1>1 DEF IInv, SinceIsStored, PosInFile
<1>6. QED
  BY <1>3, <1>4, <1>5 DEF Reader

\* What the step of a worker whose next step stores nothing has in hand.
LEMMA LessHeld ==
    ASSUME NEW w \in Workers,
           pc \in [Workers -> Steps], batch \in [Workers -> SUBSET AnyLine],
           \A v \in Workers : v # w => pc'[v] = pc[v] /\ batch'[v] = batch[v],
           \A f \in Feeds : pc'[w] # StoreStep(f)
    PROVE  \A f \in Feeds : Held(f)' \subseteq Held(f)
<1> SUFFICES ASSUME NEW f \in Feeds, NEW l \in Held(f)' PROVE l \in Held(f)
  OBVIOUS
<1>1. PICK v \in Workers : pc'[v] = StoreStep(f) /\ l \in batch'[v]
  BY DEF Held, StoreStep
<1>2. v # w
  BY <1>1
<1>3. QED
  BY <1>1, <1>2 DEF Held

\* A step of the loop that stores nothing and does not read.
LEMMA IdleStep ==
    ASSUME IInv, NEW w \in Workers, NEW next \in Steps, NEW b \in SUBSET AnyLine,
           \A f \in Feeds : next # StoreStep(f),
           pc' = [pc EXCEPT ![w] = next], batch' = [batch EXCEPT ![w] = b],
           UNCHANGED <<prodVars, pos, since, life, table, commits>>
    PROVE  IInv'
<1>1. UNCHANGED <<source, visits, owed, stamp, written, file, rotated, pos, since, life, table, commits>>
  BY DEF prodVars
<1>2. /\ pc \in [Workers -> Steps] /\ batch \in [Workers -> SUBSET AnyLine]
      /\ commits \in Nat /\ life \in [Workers -> Nat]
  BY DEF IInv, TypeOK
<1>3. /\ pc'[w] = next /\ batch'[w] = b
      /\ \A v \in Workers : v # w => pc'[v] = pc[v] /\ batch'[v] = batch[v]
      /\ pc' \in [Workers -> Steps] /\ batch' \in [Workers -> SUBSET AnyLine]
  BY <1>2
<1>4. TypeOK'
  <2>1. AnyLine' = AnyLine /\ AnyCell' = AnyCell
    BY <1>1, SameSource
  <2>2. QED
    BY <1>1, <1>3, <2>1 DEF IInv, TypeOK
<1>5. \A f \in Feeds : Known(f)' \subseteq Known(f)
  <2>1. \A f \in Feeds : Held(f)' \subseteq Held(f)
    BY <1>2, <1>3, LessHeld
  <2>2. \A f \in Feeds : Stored(f)' = Stored(f) /\ InFile(f)' = InFile(f)
    BY <1>1, FilesStay DEF Stored
  <2>3. QED
    BY <2>1, <2>2 DEF Known
<1>6. \A r \in table' : RowOk(r)'
  BY <1>1, RowsStay
<1>7. ASSUME NEW v \in Workers, NEW f \in Feeds PROVE Reader(v, f)'
  BY <1>1, <1>3, ReaderStays
<1>8. QED
  BY <1>1, <1>4, <1>5, <1>6, <1>7, NoNews, FilesStay DEF IInv, Reader

LEMMA WakeKeeps ==
    ASSUME IInv, NEW w \in Workers, Wake(w)
    PROVE  IInv'
<1>1. "read cowrie" \in Steps /\ \A f \in Feeds : "read cowrie" # StoreStep(f)
  BY StepFacts DEF Steps
<1>2. batch[w] \in SUBSET AnyLine /\ batch' = [batch EXCEPT ![w] = batch[w]]
  BY DEF IInv, TypeOK, Wake
<1>3. QED
  BY <1>1, <1>2, IdleStep DEF Wake

LEMMA SkipKeeps ==
    ASSUME IInv, NEW w \in Workers, NEW f \in Feeds, Skip(w, f) \/ ReadFails(w, f)
    PROVE  IInv'
<1>1. After(f) \in Steps /\ \A g \in Feeds : After(f) # StoreStep(g)
  BY StepFacts
<1>2. batch[w] \in SUBSET AnyLine /\ batch' = [batch EXCEPT ![w] = batch[w]]
  BY DEF IInv, TypeOK, Skip, ReadFails
<1>3. QED
  BY <1>1, <1>2, IdleStep DEF Skip, ReadFails

LEMMA StoreFailsKeeps ==
    ASSUME IInv, NEW w \in Workers, NEW f \in Feeds, StoreFails(w, f)
    PROVE  IInv'
<1>1. After(f) \in Steps /\ \A g \in Feeds : After(f) # StoreStep(g)
  BY StepFacts
<1>2. {} \in SUBSET AnyLine
  OBVIOUS
<1>3. QED
  BY <1>1, <1>2, IdleStep DEF StoreFails

\* A new life of a worker has stored nothing yet.
LEMMA RestartKeeps ==
    ASSUME IInv, NEW w \in Workers, Restart(w)
    PROVE  IInv'
<1>1. UNCHANGED <<source, visits, owed, stamp, written, file, rotated, table, commits>>
  BY DEF Restart, prodVars
<1>2. /\ pc \in [Workers -> Steps] /\ batch \in [Workers -> SUBSET AnyLine]
      /\ commits \in Nat /\ life \in [Workers -> Nat]
      /\ pos \in [Workers -> [Feeds -> Nat]] /\ since \in [Workers -> [Feeds -> Nat]]
  BY DEF IInv, TypeOK
<1>3. /\ pc'[w] = "read cowrie" /\ batch'[w] = {} /\ life'[w] = life[w] + 1
      /\ pos'[w] = [f \in Feeds |-> 0] /\ since'[w] = [f \in Feeds |-> 0]
      /\ \A v \in Workers : v # w =>
           /\ pc'[v] = pc[v] /\ batch'[v] = batch[v] /\ life'[v] = life[v]
           /\ pos'[v] = pos[v] /\ since'[v] = since[v]
  BY <1>2 DEF Restart
<1>4. \A f \in Feeds : pc'[w] # StoreStep(f)
  BY <1>3, StepFacts
<1>5. TypeOK'
  <2>1. AnyLine' = AnyLine /\ AnyCell' = AnyCell
    BY <1>1, SameSource
  <2>2. /\ pc' \in [Workers -> Steps] /\ batch' \in [Workers -> SUBSET AnyLine]
        /\ life' \in [Workers -> Nat]
        /\ pos' \in [Workers -> [Feeds -> Nat]] /\ since' \in [Workers -> [Feeds -> Nat]]
    <3>1. life[w] + 1 \in Nat /\ [f \in Feeds |-> 0] \in [Feeds -> Nat]
      BY <1>2
    <3>2. /\ pc' = [pc EXCEPT ![w] = "read cowrie"] /\ batch' = [batch EXCEPT ![w] = {}]
          /\ life' = [life EXCEPT ![w] = life[w] + 1]
          /\ pos' = [pos EXCEPT ![w] = [f \in Feeds |-> 0]]
          /\ since' = [since EXCEPT ![w] = [f \in Feeds |-> 0]]
      BY DEF Restart
    <3>3. pc' \in [Workers -> Steps] /\ batch' \in [Workers -> SUBSET AnyLine]
      BY <1>2, <3>2 DEF Steps
    <3>4. life' \in [Workers -> Nat]
      BY <1>2, <3>1, <3>2
    <3>5. pos' \in [Workers -> [Feeds -> Nat]] /\ since' \in [Workers -> [Feeds -> Nat]]
      BY <1>2, <3>1, <3>2
    <3>6. QED
      BY <3>3, <3>4, <3>5
  <2>3. QED
    BY <1>1, <2>1, <2>2 DEF IInv, TypeOK
<1>6. \A f \in Feeds : Known(f)' \subseteq Known(f)
  <2>1. \A f \in Feeds : Held(f)' \subseteq Held(f)
    BY <1>2, <1>3, <1>4, LessHeld
  <2>2. \A f \in Feeds : Stored(f)' = Stored(f) /\ InFile(f)' = InFile(f)
    BY <1>1, FilesStay DEF Stored
  <2>3. QED
    BY <2>1, <2>2 DEF Known
<1>7. \A r \in table' : RowOk(r)'
  <2>1. \A v \in Workers : life'[v] \in Nat /\ life[v] <= life'[v]
    <3> TAKE v \in Workers
    <3>1. life[v] \in Nat
      BY <1>2
    <3>2. life'[v] = life[v] + 1 \/ life'[v] = life[v]
      BY <1>3
    <3>3. QED
      BY <3>1, <3>2
  <2>2. QED
    BY <1>1, <1>2, <2>1, RowsKeep
<1>8. ASSUME NEW v \in Workers, NEW f \in Feeds PROVE Reader(v, f)'
  <2>1. CASE v # w
    BY <1>1, <1>3, <2>1, ReaderStays
  <2>2. CASE v = w
    <3>1. \A r \in table' : r.life # Life(w)'
      <4>1. ASSUME NEW r \in table PROVE r.life # <<w, life[w] + 1>>
        <5>1. PICK x \in Workers : \E k \in 0..life[x] : r.life = <<x, k>>
          BY DEF IInv, RowOk
        <5>2. PICK k \in 0..life[x] : r.life = <<x, k>>
          BY <5>1
        <5>3. life[w] \in Nat
          BY <1>2
        <5>4. QED
          BY <5>2, <5>3
      <4>2. QED
        BY <1>1, <1>3, <4>1 DEF Life
    <3>2. pos'[w][f] = 0 /\ since'[w][f] = 0
      BY <1>3
    <3>3. StoreStep(f)' = StoreStep(f)
      BY DEF StoreStep
    <3>4. UnreadIsNew(w, f)'
      BY <1>4, <3>1, <3>3 DEF UnreadIsNew
    <3>5. BatchIsNew(w, f)' /\ SinceIsStored(w, f)'
      BY <1>4, <3>2, <3>3 DEF BatchIsNew, SinceIsStored
    <3>6. PosInFile(w, f)'
      <4>1. Len(file[f]) \in Nat
        BY DEF IInv, FileInOrder
      <4>2. QED
        BY <1>1, <3>2, <4>1 DEF PosInFile
    <3>7. QED
      BY <2>2, <3>4, <3>5, <3>6 DEF Reader
  <2>3. QED
    BY <2>1, <2>2
<1>9. QED
  BY <1>1, <1>5, <1>6, <1>7, <1>8, NoNews, FilesStay DEF IInv, Reader

\* A file that starts again has nothing to be read.
LEMMA RotateKeeps ==
    ASSUME IInv, NEW f \in Feeds, Rotate(f)
    PROVE  IInv'
<1>1. UNCHANGED <<source, visits, owed, stamp, written, pos, since, pc, batch, life, table, commits>>
  BY DEF Rotate, workVars
<1>2. file \in [Feeds -> Seq(AnyCell)] /\ \A g \in Feeds : file[g] \in Seq(CellOf(g))
  BY DEF IInv, TypeOK, FileInOrder
<1>3. /\ file' \in [Feeds -> Seq(AnyCell)] /\ file'[f] = <<>>
      /\ \A g \in Feeds : g # f => file'[g] = file[g]
      /\ rotated' = rotated \cup {f}
  BY <1>2 DEF Rotate
<1>4. TypeOK'
  <2>1. AnyLine' = AnyLine /\ AnyCell' = AnyCell
    BY <1>1, SameSource
  <2>2. QED
    BY <1>1, <1>3, <2>1 DEF IInv, TypeOK
<1>5. \A g \in Feeds : Known(g)' \subseteq Known(g)
  <2>1. \A g \in Feeds : Held(g)' = Held(g) /\ Stored(g)' = Stored(g)
    BY <1>1 DEF Held, Stored, StoreStep
  <2>2. \A g \in Feeds : InFile(g)' \subseteq InFile(g)
    <3> SUFFICES ASSUME NEW g \in Feeds PROVE InFile(g)' \subseteq InFile(g)
      OBVIOUS
    <3>1. CASE g = f
      <4>1. Range(<<>>) = {}
        BY DEF Range
      <4>2. QED
        BY <1>3, <3>1, <4>1 DEF InFile
    <3>2. CASE g # f
      BY <1>3, <3>2 DEF InFile
    <3>3. QED
      BY <3>1, <3>2
  <2>3. QED
    BY <2>1, <2>2 DEF Known
<1>6. ASSUME NEW g \in Feeds PROVE FileInOrder(g)'
  <2>1. CellOf(g)' = CellOf(g)
    BY <1>1, SameSource
  <2>2. CASE g = f
    <3>1. Len(file'[f]) = 0 /\ file'[f] \in Seq(CellOf(f))
      BY <1>3
    <3>2. QED
      BY <2>1, <2>2, <3>1 DEF FileInOrder
  <2>3. CASE g # f
    BY <1>3, <2>1, <2>3 DEF IInv, FileInOrder
  <2>4. QED
    BY <2>2, <2>3
<1>7. \A r \in table' : RowOk(r)'
  BY <1>1, RowsStay
<1>8. ASSUME NEW v \in Workers, NEW g \in Feeds PROVE Reader(v, g)'
  <2>1. Life(v)' = Life(v) /\ StoreStep(g)' = StoreStep(g)
    BY <1>1 DEF Life, StoreStep
  <2>2. BatchIsNew(v, g)' /\ SinceIsStored(v, g)'
    BY <1>1, <2>1 DEF IInv, BatchIsNew, SinceIsStored
  <2>3. UnreadIsNew(v, g)'
    <3>1. CASE g = f
      <4>1. Len(file'[g]) = 0
        BY <1>3, <3>1
      <4>2. QED
        BY <4>1 DEF UnreadIsNew
    <3>2. CASE g # f
      BY <1>1, <1>3, <2>1, <3>2 DEF IInv, UnreadIsNew
    <3>3. QED
      BY <3>1, <3>2
  <2>4. PosInFile(v, g)'
    BY <1>1, <1>3 DEF IInv, PosInFile
  <2>5. QED
    BY <2>2, <2>3, <2>4 DEF Reader
<1>9. QED
  BY <1>1, <1>4, <1>5, <1>6, <1>7, <1>8, NoNews DEF IInv, Reader

-----------------------------------------------------------------------------
(* Reading and storing.                                                    *)

\* The batch of a poll: some of the lines of which a head is unread.
Fetched(w, f) == Limited(AfterSince(Whole(NewCells(w, f)), since[w][f]))

LEMMA FetchedFacts ==
    ASSUME IInv, NEW w \in Workers, NEW f \in Feeds, NEW l \in Whole(NewCells(w, f))
    PROVE  /\ l \in InFile(f) /\ l \in LineOf(f)
           /\ \E i \in 1..Len(file[f]) : i > pos[w][f] /\ file[f][i].part = "head" /\ file[f][i].line = l
<1>1. PICK c \in ToSet(NewCells(w, f)) : c.part = "head" /\ c.line = l
  BY DEF Whole
<1>2. PICK i \in 1..Len(file[f]) : i > pos[w][f] /\ c = file[f][i]
  BY <1>1, NewCellsFacts
<1>3. QED
  BY <1>1, <1>2, CellFacts

LEMMA FetchedIsWhole ==
    ASSUME NEW w, NEW f
    PROVE  Fetched(w, f) \subseteq Whole(NewCells(w, f))
BY DEF Fetched, Limited, AfterSince

LEMMA ReadKeeps ==
    ASSUME IInv, NEW w \in Workers, NEW f \in Feeds, Read(w, f)
    PROVE  IInv'
<1> DEFINE kept == Fetched(w, f)
<1>1. /\ UNCHANGED <<source, visits, owed, stamp, written, file, rotated, since, life, table, commits>>
      /\ pc[w] = ReadStep(f)
      /\ pos' = [pos EXCEPT ![w][f] = NewPos(w, f)]
      /\ batch' = [batch EXCEPT ![w] = kept]
      /\ pc' = [pc EXCEPT ![w] = IF kept = {} THEN After(f) ELSE StoreStep(f)]
  BY DEF Read, prodVars, Fetched
<1>2. /\ pc \in [Workers -> Steps] /\ batch \in [Workers -> SUBSET AnyLine]
      /\ pos \in [Workers -> [Feeds -> Nat]] /\ commits \in Nat /\ Len(file[f]) \in Nat
  BY DEF IInv, TypeOK, FileInOrder
<1>3. /\ NewPos(w, f) \in Nat /\ Len(file[f]) <= NewPos(w, f)
      /\ f \notin rotated => NewPos(w, f) = Len(file[f])
  <2>1. pos[w][f] \in Nat /\ (f \notin rotated => pos[w][f] <= Len(file[f]))
    BY <1>2 DEF IInv, PosInFile
  <2>2. QED
    BY <1>2, <2>1 DEF NewPos
<1>4. kept \subseteq InFile(f) /\ kept \in SUBSET AnyLine
  BY FetchedFacts, FetchedIsWhole, LinesAreAny
<1> HIDE DEF kept
<1>5. /\ pc'[w] = (IF kept = {} THEN After(f) ELSE StoreStep(f)) /\ batch'[w] = kept
      /\ pos'[w][f] = NewPos(w, f) /\ \A g \in Feeds : g # f => pos'[w][g] = pos[w][g]
      /\ \A v \in Workers : v # w =>
           pc'[v] = pc[v] /\ batch'[v] = batch[v] /\ \A g \in Feeds : pos'[v][g] = pos[v][g]
      /\ pc' \in [Workers -> Steps] /\ batch' \in [Workers -> SUBSET AnyLine]
      /\ pos' \in [Workers -> [Feeds -> Nat]]
  <2>1. After(f) \in Steps /\ StoreStep(f) \in Steps
    BY StepFacts
  <2>2. QED
    BY <1>1, <1>2, <1>3, <1>4, <2>1
<1>6. \A g \in Feeds : g # f => pc'[w] # StoreStep(g)
  BY <1>5, StepFacts
<1>7. TypeOK'
  <2>1. AnyLine' = AnyLine /\ AnyCell' = AnyCell
    BY <1>1, SameSource
  <2>2. QED
    BY <1>1, <1>5, <2>1 DEF IInv, TypeOK
<1>8. \A g \in Feeds : Known(g)' \subseteq Known(g)
  <2>1. ASSUME NEW g \in Feeds, NEW l \in Held(g)' PROVE l \in Held(g) \/ l \in InFile(g)
    <3>1. PICK v \in Workers : pc'[v] = StoreStep(g) /\ l \in batch'[v]
      BY <2>1 DEF Held, StoreStep
    <3>2. CASE v = w
      BY <1>4, <1>5, <1>6, <3>1, <3>2
    <3>3. CASE v # w
      BY <1>5, <3>1, <3>3 DEF Held
    <3>4. QED
      BY <3>2, <3>3
  <2>2. \A g \in Feeds : Stored(g)' = Stored(g) /\ InFile(g)' = InFile(g)
    BY <1>1, FilesStay DEF Stored
  <2>3. QED
    BY <2>1, <2>2 DEF Known
<1>9. \A r \in table' : RowOk(r)'
  BY <1>1, RowsStay
<1>10. Reader(w, f)'
  <2>1. Life(w)' = Life(w) /\ StoreStep(f)' = StoreStep(f)
    BY <1>1 DEF Life, StoreStep
  <2>2. UnreadIsNew(w, f)'
    <3>1. \A i \in 1..Len(file[f]) : ~(i > pos'[w][f])
      BY <1>2, <1>3, <1>5
    <3>2. QED
      BY <1>1, <3>1 DEF UnreadIsNew
  <2>3. BatchIsNew(w, f)'
    <3>1. ASSUME NEW l \in kept, NEW r \in table, r.life = Life(w), r.feed = f
          PROVE  r.line.n < l.n
      <4>1. PICK i \in 1..Len(file[f]) : i > pos[w][f] /\ file[f][i].part = "head" /\ file[f][i].line = l
        BY FetchedFacts, FetchedIsWhole DEF kept
      <4>2. UnreadIsNew(w, f)
        BY DEF IInv
      <4>3. QED
        BY <3>1, <4>1, <4>2 DEF UnreadIsNew
    <3>2. pc'[w] = StoreStep(f) => kept # {}
      BY <1>5, StepFacts
    <3>3. QED
      BY <1>1, <1>5, <2>1, <3>1, <3>2 DEF BatchIsNew
  <2>4. SinceIsStored(w, f)'
    BY <1>1, <2>1 DEF IInv, SinceIsStored
  <2>5. PosInFile(w, f)'
    BY <1>1, <1>2, <1>3, <1>5 DEF PosInFile
  <2>6. QED
    BY <2>2, <2>3, <2>4, <2>5 DEF Reader
<1>11. ASSUME NEW v \in Workers, NEW g \in Feeds, v # w \/ g # f PROVE Reader(v, g)'
  <2>1. pos'[v][g] = pos[v][g]
    BY <1>5, <1>11
  <2>2. (pc'[v] = pc[v] /\ batch'[v] = batch[v]) \/ pc'[v] # StoreStep(g)
    BY <1>5, <1>6, <1>11
  <2>3. QED
    BY <1>1, <2>1, <2>2, ReaderStays
<1>12. \A v \in Workers, g \in Feeds : Reader(v, g)'
  BY <1>10, <1>11
<1>13. QED
  BY <1>1, <1>7, <1>8, <1>9, <1>12, NoNews, FilesStay DEF IInv, Reader

LEMMA StoreKeeps ==
    ASSUME IInv, NEW w \in Workers, NEW f \in Feeds, Store(w, f)
    PROVE  IInv'
<1> DEFINE last == LastOf(batch[w])
           new == { Row(w, f, l) : l \in batch[w] }
<1>1. /\ UNCHANGED <<source, visits, owed, stamp, written, file, rotated, pos, life>>
      /\ pc[w] = StoreStep(f)
      /\ table' = table \cup new
      /\ commits' = commits + 1
      /\ since' = IF last.ts = 0 THEN since ELSE [since EXCEPT ![w][f] = last.ts]
      /\ batch' = [batch EXCEPT ![w] = {}]
      /\ pc' = [pc EXCEPT ![w] = After(f)]
  BY DEF Store, prodVars
<1>2. /\ pc \in [Workers -> Steps] /\ batch \in [Workers -> SUBSET AnyLine]
      /\ since \in [Workers -> [Feeds -> Nat]] /\ life \in [Workers -> Nat]
      /\ commits \in Nat /\ written[f] \in Nat
  BY DEF IInv, TypeOK
<1>3. \A l \in batch[w] : l \in Known(f) /\ l \in LineOf(f) /\ l.n \in Nat /\ l.ts \in Nat /\ l.n <= written[f]
  <2>1. batch[w] \subseteq Known(f)
    BY <1>1 DEF Known, Held
  <2>2. QED
    BY <2>1, KnownFacts
<1>4. last \in batch[w]
  <2>1. batch[w] # {}
    BY <1>1 DEF IInv, BatchIsNew
  <2>2. QED
    BY <1>2, <1>3, <2>1, LastOfIsIn
<1>5. \A r \in new : /\ r.at = commits + 1 /\ r.life = Life(w) /\ r.feed = f /\ r.line \in batch[w]
                     /\ r.mitre = RuleBasedMatch(NormalType(f, r.line.report.type), r.line.report.words)
  BY DEF Row
<1>6. ASSUME NEW l \in batch[w] PROVE \E r \in new : r.line = l
  <2>1. Row(w, f, l) \in new
    OBVIOUS
  <2>2. Row(w, f, l).line = l
    BY DEF Row
  <2>3. QED
    BY <2>1, <2>2
<1> HIDE DEF new, last
<1>7. /\ pc'[w] = After(f) /\ batch'[w] = {}
      /\ \A v \in Workers : v # w =>
           /\ pc'[v] = pc[v] /\ batch'[v] = batch[v]
           /\ \A g \in Feeds : since'[v][g] = since[v][g]
      /\ \A g \in Feeds : g # f => since'[w][g] = since[w][g]
      /\ since'[w][f] = IF last.ts = 0 THEN since[w][f] ELSE last.ts
      /\ pc' \in [Workers -> Steps] /\ batch' \in [Workers -> SUBSET AnyLine]
  <2>1. After(f) \in Steps
    BY StepFacts
  <2>2. QED
    BY <1>1, <1>2, <2>1
<1>8. \A g \in Feeds : pc'[w] # StoreStep(g)
  BY <1>7, StepFacts
<1>9. TypeOK'
  <2>1. AnyLine' = AnyLine /\ AnyCell' = AnyCell
    BY <1>1, SameSource
  <2>2. since' \in [Workers -> [Feeds -> Nat]] /\ commits' \in Nat
    BY <1>1, <1>2, <1>3, <1>4
  <2>3. QED
    BY <1>1, <1>7, <2>1, <2>2 DEF IInv, TypeOK
<1>10. \A g \in Feeds : Known(g)' \subseteq Known(g)
  <2>1. \A g \in Feeds : Held(g)' \subseteq Held(g)
    BY <1>2, <1>7, <1>8, LessHeld
  <2>2. ASSUME NEW g \in Feeds, NEW l \in Stored(g)' PROVE l \in Known(g)
    <3>1. PICK r \in table' : r.feed = g /\ r.line = l
      BY <2>2 DEF Stored
    <3>2. CASE r \in table
      BY <3>1, <3>2 DEF Stored, Known
    <3>3. CASE r \in new
      BY <1>3, <1>5, <3>1, <3>3
    <3>4. QED
      BY <1>1, <3>1, <3>2, <3>3
  <2>3. \A g \in Feeds : InFile(g)' = InFile(g)
    BY <1>1, FilesStay
  <2>4. QED
    BY <2>1, <2>2, <2>3 DEF Known
<1>11. \A r \in table' : RowOk(r)'
  <2>1. ASSUME NEW r \in new PROVE RowOk(r)'
    <3>1. /\ LineOf(f)' = LineOf(f)
          /\ NormalType(f, r.line.report.type)' = NormalType(f, r.line.report.type)
      BY <1>1, SameSource, SameType
    <3>2. r.at \in Nat /\ r.at <= commits'
      BY <1>1, <1>2, <1>5
    <3>3. \E k \in 0..life'[w] : r.life = <<w, k>>
      <4>1. life[w] \in 0..life[w]
        BY <1>2
      <4>2. QED
        BY <1>1, <1>5, <4>1 DEF Life
    <3>4. QED
      BY <1>3, <1>5, <3>1, <3>2, <3>3 DEF RowOk
  <2>2. commits' \in Nat /\ commits <= commits' /\ \A v \in Workers : life'[v] \in Nat /\ life[v] <= life'[v]
    BY <1>1, <1>2
  <2>3. QED
    BY <1>1, <2>1, <2>2, RowsKeep
<1>12. Reader(w, f)'
  <2>1. Life(w)' = Life(w) /\ StoreStep(f)' = StoreStep(f)
    BY <1>1 DEF Life, StoreStep
  <2>2. UnreadIsNew(w, f)'
    <3> SUFFICES ASSUME NEW i \in 1..Len(file[f]), i > pos[w][f], file[f][i].part = "head",
                        NEW r \in table', r.life = Life(w), r.feed = f
                 PROVE  r.line.n < file[f][i].line.n
      BY <1>1, <1>8, <2>1 DEF UnreadIsNew
    <3>1. CASE r \in table
      BY <3>1 DEF IInv, UnreadIsNew
    <3>2. CASE r \in new
      BY <1>1, <1>5, <3>2 DEF IInv, UnreadIsNew
    <3>3. QED
      BY <1>1, <3>1, <3>2
  <2>3. BatchIsNew(w, f)'
    BY <1>8, <2>1 DEF BatchIsNew
  <2>4. SinceIsStored(w, f)'
    <3>1. CASE last.ts = 0
      BY <1>1, <1>7, <2>1, <3>1 DEF IInv, SinceIsStored
    <3>2. CASE last.ts # 0
      <4>1. PICK r \in new : r.line = last
        BY <1>4, <1>6
      <4>2. QED
        BY <1>1, <1>5, <1>7, <2>1, <3>2, <4>1 DEF SinceIsStored
    <3>3. QED
      BY <3>1, <3>2
  <2>5. PosInFile(w, f)'
    BY <1>1 DEF IInv, PosInFile
  <2>6. QED
    BY <2>2, <2>3, <2>4, <2>5 DEF Reader
<1>13. ASSUME NEW v \in Workers, NEW g \in Feeds, v # w \/ g # f PROVE Reader(v, g)'
  <2>1. since'[v][g] = since[v][g]
    BY <1>7, <1>13
  <2>2. (pc'[v] = pc[v] /\ batch'[v] = batch[v]) \/ pc'[v] # StoreStep(g)
    BY <1>7, <1>8, <1>13
  <2>3. \A r \in table' : r \in table \/ r.life # Life(v) \/ r.feed # g
    <3>1. v # w => Life(v) # Life(w)
      BY DEF Life
    <3>2. QED
      BY <1>1, <1>5, <1>13, <3>1
  <2>4. QED
    BY <1>1, <2>1, <2>2, <2>3, ReaderStays
<1>14. \A v \in Workers, g \in Feeds : Reader(v, g)'
  BY <1>12, <1>13
<1>15. QED
  BY <1>1, <1>9, <1>10, <1>11, <1>14, NoNews, FilesStay DEF IInv, Reader

-----------------------------------------------------------------------------
(* The invariant.                                                          *)

LEMMA InitIInv == Init => IInv
<1> SUFFICES ASSUME Init PROVE IInv
  OBVIOUS
<1>1. TypeOK
  <2>1. <<>> \in Seq(AnyCell) /\ "read cowrie" \in Steps /\ {} \in SUBSET AnyLine
    BY DEF Steps
  <2>2. file \in [Feeds -> Seq(AnyCell)] /\ pc \in [Workers -> Steps] /\ batch \in [Workers -> SUBSET AnyLine]
    BY <2>1 DEF Init
  <2>3. visits = 0 /\ owed = 0 /\ stamp = 0
    BY DEF Init
  <2>4. /\ source \in Watched /\ commits \in Nat /\ rotated \subseteq Feeds
        /\ written \in [Feeds -> Nat] /\ life \in [Workers -> Nat]
        /\ pos \in [Workers -> [Feeds -> Nat]] /\ since \in [Workers -> [Feeds -> Nat]]
    BY DEF Init
  <2>5. QED
    BY <2>2, <2>4, <2>3 DEF TypeOK
<1>2. ASSUME NEW f \in Feeds PROVE ClocksAgree(f) /\ FileInOrder(f)
  <2>1. file[f] = <<>>
    BY DEF Init
  <2>2. Len(file[f]) = 0 /\ file[f] \in Seq(CellOf(f)) /\ DOMAIN file[f] = {}
    BY <2>1
  <2>3. InFile(f) = {}
    BY <2>2 DEF InFile, Range
  <2>4. Held(f) = {} /\ Stored(f) = {}
    BY DEF Held, Stored, Init
  <2>5. FileInOrder(f)
    BY <2>2 DEF FileInOrder
  <2>6. stamp <= written[f] + 1
    <3>1. stamp = 0 /\ written[f] = 0
      BY DEF Init
    <3>2. QED
      BY <3>1
  <2>7. QED
    BY <2>3, <2>4, <2>5, <2>6 DEF ClocksAgree, Known
<1>3. ASSUME NEW w \in Workers, NEW f \in Feeds PROVE Reader(w, f)
  <2>1. file[f] = <<>> /\ pos[w][f] = 0 /\ since[w][f] = 0 /\ pc[w] = "read cowrie"
    BY DEF Init
  <2>2. Len(file[f]) = 0 /\ pc[w] # StoreStep(f)
    BY <2>1, StepFacts
  <2>3. UnreadIsNew(w, f)
    BY <2>2 DEF UnreadIsNew
  <2>4. BatchIsNew(w, f) /\ SinceIsStored(w, f)
    BY <2>1, <2>2 DEF BatchIsNew, SinceIsStored
  <2>5. PosInFile(w, f)
    <3>1. pos[w][f] = 0 /\ Len(file[f]) = 0
      BY <2>1, <2>2
    <3>2. pos[w][f] <= Len(file[f])
      BY <3>1
    <3>3. QED
      BY <3>2 DEF PosInFile
  <2>6. QED
    BY <2>3, <2>4, <2>5 DEF Reader
<1>4. QED
  <2>1. table = {}
    BY DEF Init
  <2>2. QED
    BY <1>1, <1>2, <1>3, <2>1 DEF IInv, Reader

LEMMA NextIInv == IInv /\ [Next]_vars => IInv'
<1> SUFFICES ASSUME IInv, [Next]_vars PROVE IInv'
  OBVIOUS
<1>1. CASE Produce
  BY <1>1, ProduceKeeps
<1>2. CASE Fault
  BY <1>2, RestartKeeps, SkipKeeps, StoreFailsKeeps, RotateKeeps DEF Fault
<1>3. ASSUME NEW w \in Workers, Loop(w) PROVE IInv'
  BY <1>3, WakeKeeps, ReadKeeps, SkipKeeps, StoreKeeps DEF Loop
<1>4. CASE UNCHANGED vars
  <2>1. UNCHANGED <<source, visits, owed, stamp, written, file, rotated, pos, since, pc, batch, life, table, commits>>
    BY <1>4 DEF vars, prodVars, workVars
  <2>2. visits \in Nat /\ owed \in Nat
    BY DEF IInv, TypeOK
  <2>3. QED
    BY <2>1, <2>2, Unmoved
<1>5. QED
  BY <1>1, <1>2, <1>3, <1>4 DEF Next

LEMMA Invariant == Spec => []IInv
BY InitIInv, NextIInv, PTL DEF Spec

-----------------------------------------------------------------------------
(* What is stored.                                                         *)

\* Only the commit of a batch changes the table.
LEMMA TableSteps ==
    ASSUME [Next]_vars
    PROVE  table' = table \/ \E w \in Workers, f \in Feeds : Store(w, f)
<1>1. CASE Produce
  BY <1>1 DEF Produce, WriteLine, WriteHead, WriteTail, Begun, Visit, CronRun
<1>2. CASE Fault
  BY <1>2 DEF Fault, Restart, ReadFails, StoreFails, Rotate
<1>3. ASSUME NEW w \in Workers, Loop(w)
      PROVE  table' = table \/ \E f \in Feeds : Store(w, f)
  BY <1>3 DEF Loop, Wake, Read, Skip
<1>4. CASE UNCHANGED vars
  BY <1>4 DEF vars
<1>5. QED
  BY <1>1, <1>2, <1>3, <1>4 DEF Next

\* From poll to poll, one life of a worker stores only newer lines of a feed, in
\* their order and none of them twice, whichever clocks, halves, limits, failures and
\* rotations it meets and whatever other workers do.
THEOREM EachLifeStoresInOrderAlways == Spec => []EachLifeStoresInOrder
<1>1. Init => EachLifeStoresInOrder
  BY DEF Init, EachLifeStoresInOrder
<1>2. IInv /\ EachLifeStoresInOrder /\ [Next]_vars => EachLifeStoresInOrder'
  <2> SUFFICES ASSUME IInv, EachLifeStoresInOrder, [Next]_vars
               PROVE  EachLifeStoresInOrder'
    OBVIOUS
  <2>1. CASE table' = table
    BY <2>1 DEF EachLifeStoresInOrder
  <2>2. ASSUME NEW w \in Workers, NEW f \in Feeds, Store(w, f)
        PROVE  EachLifeStoresInOrder'
    <3> SUFFICES ASSUME NEW r \in table', NEW q \in table', r.life = q.life, r.feed = q.feed, r.at < q.at
                 PROVE  r.line.n < q.line.n
      BY DEF EachLifeStoresInOrder
    <3> DEFINE new == { Row(w, f, l) : l \in batch[w] }
    <3>1. table' = table \cup new /\ pc[w] = StoreStep(f) /\ commits \in Nat
      BY <2>2 DEF Store, IInv, TypeOK
    <3>2. \A x \in new : x.at = commits + 1 /\ x.life = Life(w) /\ x.feed = f /\ x.line \in batch[w]
      BY DEF Row
    <3> HIDE DEF new
    <3>3. \A x \in table : x.at \in Nat /\ x.at <= commits
      BY DEF IInv, RowOk
    <3>4. CASE r \in table /\ q \in table
      BY <3>4 DEF EachLifeStoresInOrder
    <3>5. CASE r \in table /\ q \in new
      BY <3>1, <3>2, <3>5 DEF IInv, BatchIsNew
    <3>6. CASE r \in new
      BY <3>1, <3>2, <3>3, <3>6
    <3>7. QED
      BY <3>1, <3>4, <3>5, <3>6
  <2>3. QED
    BY <2>1, <2>2, TableSteps
<1>3. QED
  BY <1>1, <1>2, Invariant, PTL DEF Spec

-----------------------------------------------------------------------------
(* What is lost.                                                           *)

\* Lines are dropped by a poll and by a commit that fails, and rows stay.
LEMMA LostSteps ==
    ASSUME [Next]_vars
    PROVE  /\ table \subseteq table'
           /\ \/ lost' = lost
              \/ \E w \in Workers, f \in Feeds : Read(w, f) \/ StoreFails(w, f)
<1>1. CASE Produce
  BY <1>1 DEF Produce, WriteLine, WriteHead, WriteTail, Begun, Visit, CronRun
<1>2. CASE Fault
  BY <1>2 DEF Fault, Restart, ReadFails, StoreFails, Rotate
<1>3. ASSUME NEW w \in Workers, Loop(w)
      PROVE  table \subseteq table' /\ (lost' = lost \/ \E f \in Feeds : Read(w, f))
  BY <1>3 DEF Loop, Wake, Read, Skip, Store
<1>4. CASE UNCHANGED vars
  BY <1>4 DEF vars
<1>5. QED
  BY <1>1, <1>2, <1>3, <1>4 DEF Next

\* The strict comparison with last_since drops only events whose timestamp is
\* that of an event which the same life of the worker has stored.
THEOREM SinceDropsOnlyTiesAlways == Spec => []SinceDropsOnlyTies
<1> DEFINE Tie(d) == \E r \in table : r.life = d.life /\ r.feed = d.feed /\ r.line.ts = d.line.ts
<1>1. Init => SinceDropsOnlyTies
  BY DEF Init, SinceDropsOnlyTies
<1>2. IInv /\ SinceDropsOnlyTies /\ [Next]_vars => SinceDropsOnlyTies'
  <2> SUFFICES ASSUME IInv, SinceDropsOnlyTies, [Next]_vars,
                      NEW d \in lost', d.why = "since"
               PROVE  Tie(d)'
    BY DEF SinceDropsOnlyTies
  <2>1. CASE d \in lost
    <3>1. Tie(d)
      BY <2>1 DEF SinceDropsOnlyTies
    <3>2. QED
      BY <3>1, LostSteps
  <2>2. CASE d \notin lost
    <3>1. PICK w \in Workers, f \in Feeds : Read(w, f) \/ StoreFails(w, f)
      BY <2>2, LostSteps
    <3>2. CASE StoreFails(w, f)
      BY <2>2, <3>2 DEF StoreFails, Dropped
    <3>3. CASE Read(w, f)
      <4> DEFINE whole == Whole(NewCells(w, f))
      <4>1. /\ d.life = Life(w) /\ d.feed = f /\ d.line \in whole
            /\ d.line \notin AfterSince(whole, since[w][f])
            /\ table' = table
        BY <2>2, <3>3 DEF Read, Dropped
      <4>2. /\ d.line \in InFile(f) /\ d.line \in LineOf(f)
            /\ \E i \in 1..Len(file[f]) : i > pos[w][f] /\ file[f][i].part = "head" /\ file[f][i].line = d.line
        BY <4>1, FetchedFacts
      <4>3. since[w][f] # 0 /\ ~(d.line.ts > since[w][f]) /\ since[w][f] \in Nat /\ d.line.ts \in Nat
        BY <4>1, <4>2 DEF AfterSince, IInv, TypeOK, LineOf
      <4>4. PICK r \in table : r.life = Life(w) /\ r.feed = f /\ r.line.ts = since[w][f]
        BY <4>3 DEF IInv, SinceIsStored
      <4>5. r.line.n < d.line.n
        BY <4>2, <4>4 DEF IInv, UnreadIsNew
      <4>6. r.line \in Known(f) /\ d.line \in Known(f)
        BY <4>2, <4>4 DEF Known, Stored
      <4>7. r.line.ts <= d.line.ts
        BY <4>5, <4>6 DEF IInv, ClocksAgree
      <4>8. r.line.ts = d.line.ts
        BY <4>3, <4>4, <4>7
      <4>9. QED
        BY <4>1, <4>4, <4>8
    <3>4. QED
      BY <3>1, <3>2, <3>3
  <2>3. QED
    BY <2>1, <2>2
<1>3. QED
  BY <1>1, <1>2, Invariant, PTL DEF Spec

Accounted(w, f, n) == StoredBy(Life(w), f, n) \/ InHand(w, f, n) \/ DroppedBy(Life(w), f, n)

PassedOf(w, f) ==
    f \notin rotated =>
        \A i \in 1..pos[w][f] : \A n : n = file[f][i].line.n => Accounted(w, f, n)

LEMMA PassedIsEach ==
    PassedIsAccountedFor <=> \A w \in Workers, f \in Feeds : PassedOf(w, f)
BY DEF PassedIsAccountedFor, PassedOf, Accounted

\* What was accounted for stays so, unless a batch is disposed of.
LEMMA AccountedStays ==
    ASSUME NEW w \in Workers, NEW f \in Feeds, NEW n, Accounted(w, f, n),
           life'[w] = life[w], table \subseteq table', lost \subseteq lost',
           (pc'[w] = pc[w] /\ batch'[w] = batch[w]) \/ pc[w] # StoreStep(f)
    PROVE  Accounted(w, f, n)'
<1>1. Life(w)' = Life(w) /\ StoreStep(f)' = StoreStep(f)
  BY DEF Life, StoreStep
<1>2. CASE StoredBy(Life(w), f, n)
  BY <1>1, <1>2 DEF StoredBy, Accounted
<1>3. CASE InHand(w, f, n)
  BY <1>1, <1>3 DEF InHand, Accounted
<1>4. CASE DroppedBy(Life(w), f, n)
  BY <1>1, <1>4 DEF DroppedBy, Accounted
<1>5. QED
  BY <1>2, <1>3, <1>4 DEF Accounted

\* The part of the file that was passed is the same.
LEMMA PassedStays ==
    ASSUME IInv, NEW w \in Workers, NEW f \in Feeds, PassedOf(w, f),
           rotated \subseteq rotated', pos'[w][f] = pos[w][f],
           f \notin rotated' => \A i \in 1..Len(file[f]) : file'[f][i] = file[f][i],
           \A n : Accounted(w, f, n) => Accounted(w, f, n)'
    PROVE  PassedOf(w, f)'
<1> SUFFICES ASSUME f \notin rotated', NEW i \in 1..pos[w][f], NEW n, n = file'[f][i].line.n
             PROVE  Accounted(w, f, n)'
  BY DEF PassedOf
<1>1. f \notin rotated /\ pos[w][f] \in Nat /\ pos[w][f] <= Len(file[f]) /\ Len(file[f]) \in Nat
  BY DEF IInv, PosInFile, TypeOK, FileInOrder
<1>2. i \in 1..Len(file[f])
  BY <1>1
<1>3. n = file[f][i].line.n
  BY <1>2
<1>4. QED
  BY <1>1, <1>3 DEF PassedOf

\* A line that a poll passes is in the batch, or was dropped for a reason.
LEMMA ReadAccounts ==
    ASSUME IInv, NEW w \in Workers, NEW f \in Feeds, Read(w, f),
           NEW i \in 1..Len(file[f]), i > pos[w][f], NEW n, n = file[f][i].line.n
    PROVE  Accounted(w, f, n)'
<1> DEFINE cells == NewCells(w, f)
           whole == Whole(cells)
           fresh == AfterSince(whole, since[w][f])
           kept  == Fetched(w, f)
           line  == file[f][i].line
<1>1. Life(w)' = Life(w) /\ StoreStep(f)' = StoreStep(f)
  BY DEF Life, StoreStep, Read
<1>2. line \in { c.line : c \in ToSet(cells) }
  BY NewCellsFacts
<1>3. CASE line \in kept
  <2>1. pc \in [Workers -> Steps] /\ batch \in [Workers -> SUBSET AnyLine]
    BY DEF IInv, TypeOK
  <2>2. pc'[w] = StoreStep(f) /\ batch'[w] = kept
    BY <1>3, <2>1 DEF Read, Fetched
  <2> HIDE DEF kept, line
  <2>3. n = line.n
    BY DEF line
  <2>4. QED
    BY <1>1, <1>3, <2>2, <2>3 DEF InHand, Accounted
<1>4. ASSUME NEW why, NEW lines, line \in lines, Dropped(w, f, lines, why) \subseteq lost'
      PROVE  DroppedBy(Life(w), f, n)'
  <2>1. [life |-> Life(w), feed |-> f, line |-> line, why |-> why] \in lost'
    BY <1>4 DEF Dropped
  <2>2. QED
    BY <1>1, <2>1 DEF DroppedBy
<1>5. CASE line \notin kept
  <2>1. line \in Torn(cells) \/ line \in whole \ fresh \/ line \in fresh \ kept
    BY <1>2, <1>5 DEF Torn
  <2>2. /\ Dropped(w, f, Torn(cells), "torn") \subseteq lost'
        /\ Dropped(w, f, whole \ fresh, "since") \subseteq lost'
        /\ Dropped(w, f, fresh \ kept, "limit") \subseteq lost'
    BY DEF Read, Fetched
  <2> HIDE DEF cells, whole, fresh, kept, line
  <2>3. DroppedBy(Life(w), f, n)'
    BY <1>4, <2>1, <2>2
  <2>4. QED
    BY <2>3 DEF Accounted
<1>6. QED
  BY <1>3, <1>5

\* What the batch held is stored, or dropped with the transaction.
LEMMA StoreAccounts ==
    ASSUME NEW w \in Workers, NEW f \in Feeds, Store(w, f) \/ StoreFails(w, f),
           NEW n, InHand(w, f, n)
    PROVE  Accounted(w, f, n)'
<1>1. Life(w)' = Life(w)
  BY DEF Life, Store, StoreFails
<1>2. PICK l \in batch[w] : l.n = n
  BY DEF InHand
<1>3. CASE Store(w, f)
  <2>1. Row(w, f, l) \in table'
    BY <1>3 DEF Store
  <2>2. Row(w, f, l).life = Life(w) /\ Row(w, f, l).feed = f /\ Row(w, f, l).line.n = n
    BY <1>2 DEF Row
  <2>3. StoredBy(Life(w), f, n)'
    BY <1>1, <2>1, <2>2 DEF StoredBy
  <2>4. QED
    BY <2>3 DEF Accounted
<1>4. CASE StoreFails(w, f)
  <2>1. [life |-> Life(w), feed |-> f, line |-> l, why |-> "commit"] \in lost'
    BY <1>4 DEF StoreFails, Dropped
  <2>2. DroppedBy(Life(w), f, n)'
    BY <1>1, <1>2, <2>1 DEF DroppedBy
  <2>3. QED
    BY <2>2 DEF Accounted
<1>5. QED
  BY <1>3, <1>4

\* The steps that are not worker w's leave what it passed accounted for.
LEMMA OthersAccount ==
    ASSUME IInv, NEW w \in Workers, NEW f \in Feeds, PassedOf(w, f),
           life'[w] = life[w], pc'[w] = pc[w], batch'[w] = batch[w], pos'[w] = pos[w],
           file' = file, rotated' = rotated, table \subseteq table', lost \subseteq lost'
    PROVE  PassedOf(w, f)'
<1>1. \A n : Accounted(w, f, n) => Accounted(w, f, n)'
  BY AccountedStays
<1>2. QED
  BY <1>1, PassedStays

LEMMA ProducePassed ==
    ASSUME IInv, Produce \/ (\E g \in Feeds : Rotate(g)) \/ UNCHANGED vars,
           NEW w \in Workers, NEW f \in Feeds, PassedOf(w, f)
    PROVE  PassedOf(w, f)'
<1>1. CASE Produce
  <2>1. UNCHANGED <<workVars, table, lost, rotated>>
    BY <1>1 DEF Produce, WriteLine, WriteHead, WriteTail, Begun, Visit, CronRun
  <2>2. \A i \in 1..Len(file[f]) : file'[f][i] = file[f][i]
    <3>1. CASE \E g \in Feeds : \E new, m : Grow(g, new, m)
      BY <3>1, GrownFile
    <3>2. CASE file' = file
      BY <3>2
    <3>3. QED
      BY <1>1, <3>1, <3>2, ProduceGrows
  <2>3. \A n : Accounted(w, f, n) => Accounted(w, f, n)'
    BY <2>1, AccountedStays DEF workVars
  <2>4. QED
    BY <2>1, <2>2, <2>3, PassedStays DEF workVars
<1>2. ASSUME NEW g \in Feeds, Rotate(g) PROVE PassedOf(w, f)'
  <2>1. UNCHANGED <<workVars, table, lost>> /\ rotated' = rotated \cup {g}
    BY <1>2 DEF Rotate
  <2>2. f \notin rotated' => file'[f] = file[f]
    BY <1>2, <2>1 DEF Rotate, IInv, TypeOK
  <2>3. \A n : Accounted(w, f, n) => Accounted(w, f, n)'
    BY <2>1, AccountedStays DEF workVars
  <2>4. QED
    BY <2>1, <2>2, <2>3, PassedStays DEF workVars
<1>3. CASE UNCHANGED vars
  BY <1>3, OthersAccount DEF vars, prodVars, workVars
<1>4. QED
  BY <1>1, <1>2, <1>3

\* The other workers keep what they know.
LEMMA OthersStay ==
    ASSUME IInv, NEW v \in Workers, NEW g \in Feeds,
           Restart(v) \/ Wake(v) \/ Read(v, g) \/ Skip(v, g) \/ ReadFails(v, g) \/ Store(v, g) \/ StoreFails(v, g),
           NEW w \in Workers, w # v
    PROVE  /\ life'[w] = life[w] /\ pc'[w] = pc[w] /\ batch'[w] = batch[w] /\ pos'[w] = pos[w]
           /\ file' = file /\ rotated' = rotated /\ table \subseteq table' /\ lost \subseteq lost'
<1>1. /\ life \in [Workers -> Nat] /\ pc \in [Workers -> Steps]
      /\ batch \in [Workers -> SUBSET AnyLine] /\ pos \in [Workers -> [Feeds -> Nat]]
  BY DEF IInv, TypeOK
<1>2. file' = file /\ rotated' = rotated /\ table \subseteq table' /\ lost \subseteq lost'
  BY DEF Restart, Wake, Read, Skip, ReadFails, Store, StoreFails, prodVars
<1>3. life'[w] = life[w] /\ pc'[w] = pc[w]
  BY <1>1 DEF Restart, Wake, Read, Skip, ReadFails, Store, StoreFails
<1>4. batch'[w] = batch[w]
  BY <1>1 DEF Restart, Wake, Read, Skip, ReadFails, Store, StoreFails
<1>5. pos'[w] = pos[w]
  BY <1>1 DEF Restart, Wake, Read, Skip, ReadFails, Store, StoreFails
<1>6. QED
  BY <1>2, <1>3, <1>4, <1>5

\* A step of worker w itself.
LEMMA OwnPassed ==
    ASSUME IInv, NEW w \in Workers, NEW f \in Feeds, PassedOf(w, f), NEW g \in Feeds,
           Restart(w) \/ Wake(w) \/ Read(w, g) \/ Skip(w, g) \/ ReadFails(w, g) \/ Store(w, g) \/ StoreFails(w, g)
    PROVE  PassedOf(w, f)'
<1>1. /\ life \in [Workers -> Nat] /\ pos \in [Workers -> [Feeds -> Nat]] /\ Len(file[f]) \in Nat
      /\ file' = file /\ rotated' = rotated /\ table \subseteq table' /\ lost \subseteq lost'
  <2>1. life \in [Workers -> Nat] /\ pos \in [Workers -> [Feeds -> Nat]] /\ Len(file[f]) \in Nat
    BY DEF IInv, TypeOK, FileInOrder
  <2>2. file' = file /\ rotated' = rotated /\ table \subseteq table' /\ lost \subseteq lost'
    BY DEF Restart, Wake, Read, Skip, ReadFails, Store, StoreFails, prodVars
  <2>3. QED
    BY <2>1, <2>2
<1>2. CASE Restart(w)
  <2>1. pos'[w][f] = 0
    BY <1>1, <1>2 DEF Restart
  <2>2. QED
    BY <2>1 DEF PassedOf
<1>3. CASE Wake(w) \/ Skip(w, g) \/ ReadFails(w, g)
  <2>1. pc[w] # StoreStep(f) /\ life' = life /\ pos' = pos
    BY <1>3, StepFacts DEF Wake, Skip, ReadFails
  <2>2. \A n : Accounted(w, f, n) => Accounted(w, f, n)'
    BY <1>1, <2>1, AccountedStays
  <2>3. QED
    BY <1>1, <2>1, <2>2, PassedStays
<1>4. CASE Read(w, g)
  <2>1. pc[w] # StoreStep(f) /\ life' = life
    BY <1>4, StepFacts DEF Read
  <2>2. \A n : Accounted(w, f, n) => Accounted(w, f, n)'
    BY <1>1, <2>1, AccountedStays
  <2>3. CASE g # f
    <3>1. pos'[w][f] = pos[w][f]
      BY <1>1, <1>4, <2>3 DEF Read
    <3>2. QED
      BY <1>1, <2>2, <3>1, PassedStays
  <2>4. CASE g = f
    <3> SUFFICES ASSUME f \notin rotated, NEW i \in 1..pos'[w][f], NEW n, n = file[f][i].line.n
                 PROVE  Accounted(w, f, n)'
      BY <1>1 DEF PassedOf
    <3>1. pos[w][f] \in Nat /\ pos[w][f] <= Len(file[f])
      BY <1>1 DEF IInv, PosInFile
    <3>2. pos'[w][f] = Len(file[f])
      <4>1. pos'[w][f] = NewPos(w, f)
        BY <1>1, <1>4, <2>4 DEF Read
      <4>2. QED
        BY <1>1, <3>1, <4>1 DEF NewPos
    <3>3. i \in 1..Len(file[f])
      BY <3>2
    <3>4. CASE i <= pos[w][f]
      <4>1. i \in 1..pos[w][f]
        BY <3>1, <3>3, <3>4
      <4>2. QED
        BY <2>2, <4>1 DEF PassedOf
    <3>5. CASE i > pos[w][f]
      BY <1>4, <2>4, <3>3, <3>5, ReadAccounts
    <3>6. QED
      BY <3>1, <3>3, <3>4, <3>5
  <2>5. QED
    BY <2>3, <2>4
<1>5. CASE Store(w, g) \/ StoreFails(w, g)
  <2>1. pc[w] = StoreStep(g) /\ life' = life /\ pos' = pos
    BY <1>5 DEF Store, StoreFails
  <2>2. \A n : Accounted(w, f, n) => Accounted(w, f, n)'
    <3>1. CASE g # f
      BY <1>1, <2>1, <3>1, AccountedStays, StepFacts
    <3>2. CASE g = f
      <4> SUFFICES ASSUME NEW n, Accounted(w, f, n) PROVE Accounted(w, f, n)'
        OBVIOUS
      <4>1. Life(w)' = Life(w)
        BY <2>1 DEF Life
      <4>2. CASE InHand(w, f, n)
        BY <1>5, <3>2, <4>2, StoreAccounts
      <4>3. CASE StoredBy(Life(w), f, n)
        BY <1>1, <4>1, <4>3 DEF StoredBy, Accounted
      <4>4. CASE DroppedBy(Life(w), f, n)
        BY <1>1, <4>1, <4>4 DEF DroppedBy, Accounted
      <4>5. QED
        BY <4>2, <4>3, <4>4 DEF Accounted
    <3>3. QED
      BY <3>1, <3>2
  <2>3. QED
    BY <1>1, <2>1, <2>2, PassedStays
<1>6. QED
  BY <1>2, <1>3, <1>4, <1>5

\* Whatever a position has passed of a file that was not rotated was stored by this life of the worker, is in
\* the batch to be stored, or was dropped for a reason the code has: no line
\* gets lost in between.
THEOREM PassedIsAccountedForAlways == Spec => []PassedIsAccountedFor
<1>1. Init => PassedIsAccountedFor
  <2>1. ASSUME Init, NEW w \in Workers, NEW f \in Feeds PROVE PassedOf(w, f)
    <3>1. pos[w][f] = 0
      BY <2>1 DEF Init
    <3>2. QED
      BY <3>1 DEF PassedOf
  <2>2. QED
    BY <2>1, PassedIsEach
<1>2. IInv /\ PassedIsAccountedFor /\ [Next]_vars => PassedIsAccountedFor'
  <2> SUFFICES ASSUME IInv, PassedIsAccountedFor, [Next]_vars,
                      NEW w \in Workers, NEW f \in Feeds
               PROVE  PassedOf(w, f)'
    BY DEF PassedIsAccountedFor, PassedOf, Accounted
  <2>1. PassedOf(w, f)
    BY PassedIsEach
  <2>2. CASE Produce \/ (\E g \in Feeds : Rotate(g)) \/ UNCHANGED vars
    BY <2>1, <2>2, ProducePassed
  <2>3. ASSUME NEW v \in Workers, NEW g \in Feeds,
               Restart(v) \/ Wake(v) \/ Read(v, g) \/ Skip(v, g) \/ ReadFails(v, g) \/ Store(v, g) \/ StoreFails(v, g)
        PROVE  PassedOf(w, f)'
    <3>1. CASE v = w
      BY <2>1, <2>3, <3>1, OwnPassed
    <3>2. CASE v # w
      BY <2>1, <2>3, <3>2, OthersStay, OthersAccount
    <3>3. QED
      BY <3>1, <3>2
  <2>4. f \in Feeds
    OBVIOUS
  <2>5. QED
    BY <2>2, <2>3, <2>4 DEF Next, Loop, Fault
<1>3. QED
  BY <1>1, <1>2, Invariant, PTL DEF Spec

-----------------------------------------------------------------------------
(* The classification.                                                     *)

\* Seven, and four, elements are a sequence.
LEMMA SevenAre ==
    ASSUME NEW S, NEW a \in S, NEW b \in S, NEW c \in S, NEW d \in S, NEW e \in S, NEW f \in S, NEW g \in S
    PROVE  <<a, b, c, d, e, f, g>> \in Seq(S) /\ Len(<<a, b, c, d, e, f, g>>) = 7
  OBVIOUS

LEMMA FourAre ==
    ASSUME NEW S, NEW a \in S, NEW b \in S, NEW c \in S, NEW d \in S
    PROVE  /\ <<a, b, c, d>> \in Seq(S) /\ Len(<<a, b, c, d>>) = 4
           /\ <<a, b, c, d>>[1] = a /\ <<a, b, c, d>>[2] = b
           /\ <<a, b, c, d>>[3] = c /\ <<a, b, c, d>>[4] = d
  OBVIOUS

\* The keywords in the paths of the portal's login pages.
PageWords == {"wp-login", "phpmyadmin", "jenkins", "git", "webmail", "mail", "vpn"}

\* No rule about commands applies to the path of a login page.
LEMMA CommandsAreOther ==
    \E S : /\ \A r \in S : r.words \cap PageWords = {}
           /\ CommandRules \in Seq(S) /\ Len(CommandRules) = 7
<1> DEFINE a == [words |-> {"powershell"}, technique |-> "T1059.001", tactic |-> "execution"]
           b == [words |-> {"ls", "cat ", "find ", "dir "}, technique |-> "T1083", tactic |-> "discovery"]
           c == [words |-> {"whoami", "uname"}, technique |-> "T1082", tactic |-> "discovery"]
           d == [words |-> {"ssh ", "scp "}, technique |-> "T1021", tactic |-> "lateral-movement"]
           e == [words |-> {"nmap", "netstat", "ss -", "ip a"}, technique |-> "T1046", tactic |-> "discovery"]
           f == [words |-> {"chmod", "chown", "rm "}, technique |-> "T1070.004", tactic |-> "defense-evasion"]
           g == [words |-> {"passwd", "shadow", "credential"}, technique |-> "T1003", tactic |-> "credential-access"]
           S == {a, b, c, d, e, f, g}
<1>1. CommandRules = <<a, b, c, d, e, f, g>>
  BY DEF CommandRules
<1>2. /\ a.words \cap PageWords = {} /\ b.words \cap PageWords = {} /\ c.words \cap PageWords = {}
      /\ d.words \cap PageWords = {} /\ e.words \cap PageWords = {} /\ f.words \cap PageWords = {}
      /\ g.words \cap PageWords = {}
  BY DEF PageWords
<1> HIDE DEF a, b, c, d, e, f, g
<1>3. \A r \in S : r.words \cap PageWords = {}
  BY <1>2
<1>4. a \in S /\ b \in S /\ c \in S /\ d \in S /\ e \in S /\ f \in S /\ g \in S
  OBVIOUS
<1> HIDE DEF S
<1>5. CommandRules \in Seq(S) /\ Len(CommandRules) = 7
  BY <1>1, <1>4, SevenAre
<1>6. QED
  BY <1>3, <1>5

LEMMA TwoJoined ==
    ASSUME NEW a, NEW b
    PROVE  <<a>> \o <<b>> = <<a, b>>
<1> DEFINE S == {a, b}
           s == <<a>> \o <<b>>
           t == <<a, b>>
<1>1. a \in S /\ b \in S
  OBVIOUS
<1> HIDE DEF S
<1>2. /\ <<a>> \in Seq(S) /\ <<b>> \in Seq(S)
      /\ Len(<<a>>) = 1 /\ Len(<<b>>) = 1 /\ <<a>>[1] = a /\ <<b>>[1] = b
  BY <1>1
<1>3. t \in Seq(S) /\ Len(t) = 2 /\ t[1] = a /\ t[2] = b
  BY <1>1
<1>4. s \in Seq(S) /\ Len(s) = 2 /\ s[1] = a /\ s[2] = b
  BY <1>2, ConcatProperties
<1> HIDE DEF s, t
<1>5. \A i \in 1..Len(s) : s[i] = t[i]
  BY <1>3, <1>4
<1>6. s = t
  BY <1>3, <1>4, <1>5, SeqEqual
<1>7. QED
  BY <1>6 DEF s, t

\* The rules about paths, one by one.
LEMMA PathRulesAre ==
    /\ Len(PathRules) = 4 /\ \E T : PathRules \in Seq(T)
    /\ PathRules[1] = [words |-> {"wp-login"}, technique |-> "T1078", tactic |-> "defense-evasion"]
    /\ PathRules[2] = [words |-> {"phpmyadmin", "pma"}, technique |-> "T1190", tactic |-> "initial-access"]
    /\ PathRules[3] = [words |-> {"jenkins", "git", "webmail", "owa", "mail"},
                       technique |-> "T1078", tactic |-> "defense-evasion"]
    /\ PathRules[4] = [words |-> {"vpn"}, technique |-> "T1133", tactic |-> "initial-access"]
<1> DEFINE p == [words |-> {"wp-login"}, technique |-> "T1078", tactic |-> "defense-evasion"]
           q == [words |-> {"phpmyadmin", "pma"}, technique |-> "T1190", tactic |-> "initial-access"]
           s == [words |-> {"jenkins", "git", "webmail", "owa", "mail"},
                 technique |-> "T1078", tactic |-> "defense-evasion"]
           t == [words |-> {"vpn"}, technique |-> "T1133", tactic |-> "initial-access"]
           T == {p, q, s, t}
<1>1. PathRules = <<p, q, s, t>>
  BY DEF PathRules
<1>2. p \in T /\ q \in T /\ s \in T /\ t \in T
  OBVIOUS
<1>3. QED
  <2> HIDE DEF p, q, s, t, T
  <2>1. /\ Len(PathRules) = 4 /\ PathRules \in Seq(T)
        /\ PathRules[1] = p /\ PathRules[2] = q /\ PathRules[3] = s /\ PathRules[4] = t
    BY <1>1, <1>2, FourAre
  <2>2. QED
    BY <2>1 DEF p, q, s, t

\* The smallest number of a set of naturals is one of the set.
LEMMA MinIsIn ==
    ASSUME NEW H \in SUBSET Nat, H # {}
    PROVE  Min(H) \in H
<1>1. PICK x \in H : \A y \in H : ~(<<y, x>> \in OpToRel(<, Nat))
  BY WFMin, NatLessThanWellFounded
<1>2. ASSUME NEW y \in H PROVE x <= y
  <2>1. <<y, x>> \in Nat \X Nat /\ ~(<<y, x>> \in OpToRel(<, Nat))
    BY <1>1
  <2>2. ~(y < x)
    BY <2>1 DEF OpToRel
  <2>3. QED
    BY <2>2
<1>3. QED
  BY <1>2 DEF Min

\* Seven rules and four more.
LEMMA Joined ==
    ASSUME NEW S, NEW T, NEW u \in Seq(S), NEW v \in Seq(T), Len(u) = 7, Len(v) = 4
    PROVE  /\ DOMAIN (u \o v) = 1..11
           /\ \A i \in 1..7 : (u \o v)[i] \in S
<1>1. u \in Seq(S \cup T) /\ v \in Seq(S \cup T)
  OBVIOUS
<1>2. /\ u \o v \in Seq(S \cup T)
      /\ Len(u \o v) = Len(u) + Len(v)
      /\ \A i \in 1 .. Len(u) + Len(v) : (u \o v)[i] = IF i <= Len(u) THEN u[i] ELSE v[i - Len(u)]
  BY <1>1, ConcatProperties, Zenon
<1>3. \A i \in 1..7 : (u \o v)[i] \in S
  <2> SUFFICES ASSUME NEW i \in 1..7 PROVE (u \o v)[i] \in S
    OBVIOUS
  <2>1. i \in 1..Len(u) + Len(v) /\ i <= Len(u) /\ i \in 1..Len(u)
    OBVIOUS
  <2>2. u[i] \in S
    BY <2>1, ElementOfSeq
  <2>3. QED
    BY <1>2, <2>1, <2>2, Zenon
<1>4. DOMAIN (u \o v) = 1..11
  <2>1. Len(u \o v) = 11
    BY <1>2
  <2>2. DOMAIN (u \o v) = 1..Len(u \o v)
    BY <1>2, LenProperties, Zenon
  <2>3. QED
    BY <2>1, <2>2
<1>5. QED
  BY <1>3, <1>4

LEMMA PathRulesFollow ==
    ASSUME NEW S, CommandRules \in Seq(S), PathRules \in Seq(S)
    PROVE  /\ (CommandRules \o PathRules)[8] = PathRules[1]
           /\ (CommandRules \o PathRules)[9] = PathRules[2]
           /\ (CommandRules \o PathRules)[10] = PathRules[3]
           /\ (CommandRules \o PathRules)[11] = PathRules[4]
<1>1. Len(CommandRules) = 7 /\ Len(PathRules) = 4
  BY CommandsAreOther, PathRulesAre
<1>2. \A i \in 1 .. Len(CommandRules) + Len(PathRules) :
        (CommandRules \o PathRules)[i] =
          IF i <= Len(CommandRules) THEN CommandRules[i] ELSE PathRules[i - Len(CommandRules)]
  BY ConcatProperties, Zenon
<1>3. {8, 9, 10, 11} \subseteq 1..Len(CommandRules) + Len(PathRules)
  BY <1>1
<1>4. /\ ~(8 <= Len(CommandRules)) /\ 8 - Len(CommandRules) = 1
      /\ ~(9 <= Len(CommandRules)) /\ 9 - Len(CommandRules) = 2
      /\ ~(10 <= Len(CommandRules)) /\ 10 - Len(CommandRules) = 3
      /\ ~(11 <= Len(CommandRules)) /\ 11 - Len(CommandRules) = 4
  BY <1>1
<1>5. QED
  BY <1>2, <1>3, <1>4, Zenon

\* A path to which only the k-th rule about paths applies.
OnlyRule(k, words) ==
    \A j \in 1..4 : PathRules[j].words \cap words # {} <=> j = k

LEMMA RulesOneByOne ==
    ASSUME NEW k \in 1..4, NEW words,
           {"wp-login"} \cap words # {} <=> k = 1,
           {"phpmyadmin", "pma"} \cap words # {} <=> k = 2,
           {"jenkins", "git", "webmail", "owa", "mail"} \cap words # {} <=> k = 3,
           {"vpn"} \cap words # {} <=> k = 4
    PROVE  OnlyRule(k, words)
<1>1. /\ PathRules[1].words = {"wp-login"} /\ PathRules[2].words = {"phpmyadmin", "pma"}
      /\ PathRules[3].words = {"jenkins", "git", "webmail", "owa", "mail"} /\ PathRules[4].words = {"vpn"}
  BY PathRulesAre
<1>2. \A j \in 1..4 : j = 1 \/ j = 2 \/ j = 3 \/ j = 4
  OBVIOUS
<1>3. QED
  BY <1>1, <1>2 DEF OnlyRule

\* A web event is classified by the only rule that applies to its path.
LEMMA PathMatches ==
    ASSUME NEW type, IsWebEvent(type), NEW words \in SUBSET PageWords,
           NEW k \in 1..4, OnlyRule(k, words)
    PROVE  RuleBasedMatch(type, words) =
             [technique |-> PathRules[k].technique, tactic |-> PathRules[k].tactic]
<1> DEFINE rules == CommandRules \o PathRules
           hits  == { i \in DOMAIN rules : rules[i].words \cap words # {} }
<1>1. PICK S : /\ \A r \in S : r.words \cap PageWords = {}
               /\ CommandRules \in Seq(S) /\ Len(CommandRules) = 7
  BY CommandsAreOther
<1>2. PICK T : PathRules \in Seq(T)
  BY PathRulesAre
<1>3. /\ DOMAIN rules = 1..11
      /\ \A i \in 1..7 : rules[i] \in S
      /\ \A i \in 1..4 : rules[7 + i] = PathRules[i]
  <2>1. CommandRules \in Seq(S) /\ Len(CommandRules) = 7 /\ Len(PathRules) = 4
    BY <1>1, PathRulesAre
  <2>2. DOMAIN rules = 1..11 /\ \A i \in 1..7 : rules[i] \in S
    BY <1>2, <2>1, Joined, Zenon
  <2>3. /\ rules[8] = PathRules[1] /\ rules[9] = PathRules[2]
        /\ rules[10] = PathRules[3] /\ rules[11] = PathRules[4]
    <3>1. CommandRules \in Seq(S \cup T) /\ PathRules \in Seq(S \cup T)
      BY <1>2, <2>1
    <3>2. QED
      BY <3>1, PathRulesFollow
  <2> HIDE DEF rules
  <2>4. ASSUME NEW i \in 1..4 PROVE rules[7 + i] = PathRules[i]
    <3>1. i = 1 \/ i = 2 \/ i = 3 \/ i = 4
      OBVIOUS
    <3>2. QED
      BY <2>3, <3>1
  <2>5. QED
    BY <2>4, <2>2
<1>4. RuleBasedMatch(type, words) =
        IF hits = {} /\ { r \in EventTypeRules : type \in r.types } = {} THEN NoMatch
        ELSE LET rule == IF hits # {} THEN rules[Min(hits)]
                         ELSE CHOOSE r \in { r \in EventTypeRules : type \in r.types } : TRUE
             IN  [technique |-> rule.technique, tactic |-> rule.tactic]
  BY DEF RuleBasedMatch
<1> HIDE DEF rules
<1>5. ASSUME NEW i \in 1..7 PROVE rules[i].words \cap words = {}
  BY <1>1, <1>3
<1>6. ASSUME NEW j \in 1..4 PROVE rules[7 + j].words \cap words # {} <=> j = k
  BY <1>3 DEF OnlyRule
<1>7. hits = {7 + k}
  <2>1. ASSUME NEW i \in hits PROVE i = 7 + k
    <3>1. i \in 1..11 /\ rules[i].words \cap words # {}
      BY <1>3, <2>1
    <3>2. i \notin 1..7
      BY <1>5, <3>1
    <3>3. i - 7 \in 1..4 /\ 7 + (i - 7) = i
      BY <3>1, <3>2
    <3>4. i - 7 = k
      BY <1>6, <3>1, <3>3
    <3>5. QED
      BY <3>3, <3>4
  <2>2. 7 + k \in hits
    <3>1. 7 + k \in 1..11
      OBVIOUS
    <3>2. rules[7 + k].words \cap words # {}
      BY <1>6
    <3>3. QED
      BY <1>3, <3>1, <3>2
  <2>3. QED
    BY <2>1, <2>2
<1> HIDE DEF hits
<1>8. hits \in SUBSET Nat /\ hits # {}
  BY <1>7
<1>9. Min(hits) = 7 + k
  BY <1>7, <1>8, MinIsIn
<1>10. rules[Min(hits)] = PathRules[k]
  BY <1>3, <1>9
<1>11. QED
  BY <1>4, <1>8, <1>10

\* Row r of the table of event types is the one for a page of type t.
MeansAs(r, t, k) ==
    /\ r \in WebRules /\ t \in r.types
    /\ r.technique = PathRules[k].technique /\ r.tactic = PathRules[k].tactic

\* The keywords and the rule of each login page, and its row of the table.
LEMMA PagesAre ==
    ASSUME source = "portal", NEW r \in Reports("watched"), r.type \in LoginTypes
    PROVE  /\ r.words \in SUBSET PageWords
           /\ \E k \in 1..4 : OnlyRule(k, r.words) /\ \E row : MeansAs(row, r.type, k)
<1>1. \/ r = [type |-> <<"web", "wp_login">>, words |-> {"wp-login"}]
      \/ r = [type |-> <<"web", "phpmyadmin">>, words |-> {"phpmyadmin"}]
      \/ r = [type |-> <<"web", "jenkins_login">>, words |-> {"jenkins"}]
      \/ r = [type |-> <<"web", "gitlab_login">>, words |-> {"git"}]
      \/ r = [type |-> <<"web", "webmail_login">>, words |-> {"webmail", "mail"}]
      \/ r = [type |-> <<"web", "vpn_login">>, words |-> {"vpn"}]
      \/ r.type = <<"web", "contact_form">>
      \/ r.type = <<"web", "api_key_harvest">>
  BY DEF Reports
<1>2. r.type # <<"web", "contact_form">> /\ r.type # <<"web", "api_key_harvest">>
  BY DEF LoginTypes
<1> DEFINE signIn == TypeRule("web", {<<"wp_login">>, <<"jenkins_login">>, <<"gitlab_login">>,
                                      <<"webmail_login">>}, "T1078", "defense-evasion")
           php == TypeRule("web", {<<"phpmyadmin">>}, "T1190", "initial-access")
           vpn == TypeRule("web", {<<"vpn_login">>}, "T1133", "initial-access")
<1>3. signIn \in WebRules /\ php \in WebRules /\ vpn \in WebRules
  BY DEF WebRules
<1>4. \A x : <<"web">> \o <<x>> = <<"web", x>>
  BY TwoJoined
<1>5. /\ <<"web", "wp_login">> \in signIn.types /\ <<"web", "jenkins_login">> \in signIn.types
      /\ <<"web", "gitlab_login">> \in signIn.types /\ <<"web", "webmail_login">> \in signIn.types
      /\ <<"web", "phpmyadmin">> \in php.types /\ <<"web", "vpn_login">> \in vpn.types
  BY <1>4 DEF TypeRule
<1>6. /\ signIn.technique = "T1078" /\ signIn.tactic = "defense-evasion"
      /\ php.technique = "T1190" /\ php.tactic = "initial-access"
      /\ vpn.technique = "T1133" /\ vpn.tactic = "initial-access"
  BY DEF TypeRule
<1> HIDE DEF signIn, php, vpn
<1>7. CASE r = [type |-> <<"web", "wp_login">>, words |-> {"wp-login"}]
  <2>1. OnlyRule(1, r.words)
    BY <1>7, RulesOneByOne
  <2>2. MeansAs(signIn, r.type, 1)
    BY <1>3, <1>5, <1>6, <1>7, PathRulesAre DEF MeansAs
  <2>3. QED
    BY <1>7, <2>1, <2>2 DEF PageWords
<1>8. CASE r = [type |-> <<"web", "phpmyadmin">>, words |-> {"phpmyadmin"}]
  <2>1. OnlyRule(2, r.words)
    BY <1>8, RulesOneByOne
  <2>2. MeansAs(php, r.type, 2)
    BY <1>3, <1>5, <1>6, <1>8, PathRulesAre DEF MeansAs
  <2>3. QED
    BY <1>8, <2>1, <2>2 DEF PageWords
<1>9. CASE \/ r = [type |-> <<"web", "jenkins_login">>, words |-> {"jenkins"}]
           \/ r = [type |-> <<"web", "gitlab_login">>, words |-> {"git"}]
           \/ r = [type |-> <<"web", "webmail_login">>, words |-> {"webmail", "mail"}]
  <2>1. OnlyRule(3, r.words)
    <3>1. r.words = {"jenkins"} \/ r.words = {"git"} \/ r.words = {"webmail", "mail"}
      BY <1>9
    <3>2. QED
      BY <3>1, RulesOneByOne
  <2>2. MeansAs(signIn, r.type, 3)
    <3>1. r.type \in signIn.types
      BY <1>5, <1>9
    <3>2. PathRules[3].technique = "T1078" /\ PathRules[3].tactic = "defense-evasion"
      BY PathRulesAre
    <3>3. QED
      BY <1>3, <1>6, <3>1, <3>2 DEF MeansAs
  <2>3. QED
    BY <1>9, <2>1, <2>2 DEF PageWords
<1>10. CASE r = [type |-> <<"web", "vpn_login">>, words |-> {"vpn"}]
  <2>1. OnlyRule(4, r.words)
    BY <1>10, RulesOneByOne
  <2>2. MeansAs(vpn, r.type, 4)
    BY <1>3, <1>5, <1>6, <1>10, PathRulesAre DEF MeansAs
  <2>3. QED
    BY <1>10, <2>1, <2>2 DEF PageWords
<1>11. QED
  BY <1>1, <1>2, <1>7, <1>8, <1>9, <1>10

\* Every login on one of the portal's six decoy pages that a worker stores has
\* been given the technique and the tactic of its row in mitre_mapper's table of
\* event types, whichever page it was made on: one rule about paths applies,
\* none of the rules about commands before it does, and it agrees with the row.
THEOREM LoginsAreMappedAlways == Spec => []LoginsAreMapped
<1>1. IInv => LoginsAreMapped
  <2> SUFFICES ASSUME IInv, NEW r \in table, source = "portal", r.feed = "watched",
                      r.line.report.type \in LoginTypes
               PROVE  \E rule \in WebRules :
                        /\ r.line.report.type \in rule.types
                        /\ r.mitre = [technique |-> rule.technique, tactic |-> rule.tactic]
    BY DEF LoginsAreMapped
  <2> DEFINE report == r.line.report
             type == NormalType("watched", report.type)
  <2>1. r.line \in LineOf("watched") /\ r.mitre = RuleBasedMatch(type, report.words)
    BY DEF IInv, RowOk
  <2>2. report \in Reports("watched") /\ report.type \in LoginTypes
    BY <2>1 DEF LineOf
  <2>3. type = <<"web">> \o report.type
    BY DEF NormalType
  <2>4. \E x : report.type = <<"web", x>>
    BY <2>2 DEF LoginTypes
  <2>5. IsWebEvent(type)
    BY <2>3, <2>4 DEF IsWebEvent
  <2> HIDE DEF report, type
  <2>6. PICK k \in 1..4 : OnlyRule(k, report.words) /\ \E row : MeansAs(row, report.type, k)
    BY <2>2, PagesAre
  <2>7. r.mitre = [technique |-> PathRules[k].technique, tactic |-> PathRules[k].tactic]
    BY <2>1, <2>2, <2>5, <2>6, PagesAre, PathMatches
  <2>8. PICK row : MeansAs(row, report.type, k)
    BY <2>6
  <2>9. r.mitre = [technique |-> row.technique, tactic |-> row.tactic]
    BY <2>7, <2>8 DEF MeansAs
  <2>10. QED
    BY <2>8, <2>9 DEF MeansAs, report
<1>2. QED
  BY <1>1, Invariant, PTL
=============================================================================
