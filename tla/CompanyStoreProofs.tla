------------------------- MODULE CompanyStoreProofs -------------------------
(***************************************************************************)
(* That whoever finds a company sees all of it, for any companies, runs,   *)
(* readers and failures.  The transaction of a run holds, step by step,    *)
(* what of the company has been written (Progress), so that the table of   *)
(* committed rows has all of a company or nothing (AllOrNothing); a reader *)
(* can only find a company that stays as it is (Reading).                  *)
(***************************************************************************)
EXTENDS CompanyStore, FiniteSetTheorems, SequenceTheorems, WellFoundedInduction, TLAPS

RowsOf(r) == { row \in rows : row.of = r }

InSection(set, s) == { row \in set : row.section = s }

\* What AddSections adds.
Added(r) ==
    Mails(r) \cup Documents(r) \cup Servers(r, FALSE) \cup Infrastructure(r)
      \cup NetworkDepth(r) \cup DevOps(r) \cup Security(r)

\* The types that the proof needs.
Typed ==
    /\ DOMAIN step = Runs
    /\ DOMAIN tx = Runs
    /\ DOMAIN pending = Runs
    /\ DOMAIN reader = Readers
    /\ \A q \in Readers : DOMAIN reader[q] = {"of", "left", "seen", "result"}

\* How far the transaction of a run is.
ProgressOf(r) ==
    /\ step[r] = "people" => tx[r] = {} /\ pending[r] = {}
    /\ step[r] = "sections" => tx[r] = {CompanyRow(r)} \cup People(r) /\ pending[r] = {}
    /\ step[r] = "edr" => /\ Generated[r].edr = TRUE
                          /\ tx[r] = {CompanyRow(r)} \cup People(r)
                          /\ pending[r] = Added(r)
    /\ step[r] = "artifacts" => tx[r] \cup pending[r] \cup Artifacts(r) = Whole(r)
    /\ step[r] = "commit" => tx[r] \cup pending[r] = Whole(r)

Progress == \A r \in Runs : ProgressOf(r)

\* Only a run that has ended has rows, and then all of them.
AllOrNothing ==
    \A r \in Runs : RowsOf(r) = {} \/ (RowsOf(r) = Whole(r) /\ step[r] = "ended")

\* What a reader of company r ought to have seen of a section.
Right(q, r, seen, s) ==
    IF Role[q] = "portal" /\ s = "emails"
    THEN /\ InSection(seen, s) \subseteq InSection(Whole(r), s)
         /\ Cardinality(InSection(seen, s)) = Min({PortalMails, Cardinality(InSection(Whole(r), s))})
    ELSE InSection(seen, s) = InSection(Whole(r), s)

\* A reader q that has read n of the sections.
ReadSoFar(q, n) ==
    /\ reader[q].left = SubSeq(Order(q), n + 1, Len(Order(q)))
    /\ reader[q].of \in Runs
    /\ RowsOf(reader[q].of) = Whole(reader[q].of)
    /\ \A row \in reader[q].seen : \E i \in 1..n : row.section = Order(q)[i]
    /\ \A i \in 1..n : Right(q, reader[q].of, reader[q].seen, Order(q)[i])
    /\ n < Len(Order(q)) => reader[q].result # "found"

Reading ==
    \A q \in Readers :
        \/ reader[q].left = <<>> /\ reader[q].result # "found"
        \/ \E n \in 0..Len(Order(q)) : ReadSoFar(q, n)

IInv == Typed /\ Progress /\ AllOrNothing /\ Reading

-----------------------------------------------------------------------------
(* Rows and sections.                                                      *)

\* The rows of a company are its own, and it has one at least.
LEMMA WholeIsOwn ==
    ASSUME NEW r
    PROVE  /\ \A row \in Whole(r) : row.of = r
           /\ CompanyRow(r) \in Whole(r)
           /\ CompanyRow(r).of = r
  BY DEF Whole, CompanyRow, People, Mails, Documents, Servers, Infrastructure,
     NetworkDepth, DevOps, Security, Artifacts, Row

\* Of all the rows of a company, those of the section "emails" are its mails.
LEMMA MailsOfWhole ==
    ASSUME NEW r
    PROVE  InSection(Whole(r), "emails") = Mails(r)
  BY DEF InSection, Whole, CompanyRow, People, Mails, Documents, Servers, Infrastructure,
     NetworkDepth, DevOps, Security, Artifacts, Row

LEMMA MailsAreFinite ==
    ASSUME NEW r \in Runs
    PROVE  IsFiniteSet(Mails(r))
<1> DEFINE D == DOMAIN Generated[r].mails
           MailRow(i) == Row(r, "emails", i, Mail(Generated[r], Generated[r].mails[i]))
<1>1. IsFiniteSet(D)
  BY CompanyStoreAssumption
<1>2. PICK seq \in Seq(D) : \A d \in D : \E n \in 1..Len(seq) : seq[n] = d
  BY <1>1 DEF IsFiniteSet
<1>3. Mails(r) = { MailRow(i) : i \in D }
  BY DEF Mails
<1> HIDE DEF MailRow, D
<1> DEFINE rowSeq == [n \in 1..Len(seq) |-> MailRow(seq[n])]
<1>4. rowSeq \in Seq(Mails(r)) /\ Len(rowSeq) = Len(seq)
  BY <1>2, <1>3
<1>5. \A row \in Mails(r) : \E n \in 1..Len(rowSeq) : rowSeq[n] = row
  BY <1>2, <1>3, <1>4
<1>6. QED
  BY <1>4, <1>5 DEF IsFiniteSet

\* The UPDATE of the servers makes them what they ought to be.
LEMMA ServersUpdated ==
    ASSUME NEW r, Generated[r].edr = TRUE
    PROVE  ({CompanyRow(r)} \cup People(r))
             \cup { row \in Added(r) : row.section # "servers" }
             \cup { [row EXCEPT !.item = TRUE] : row \in { s \in Added(r) : s.section = "servers" } }
             \cup Artifacts(r) = Whole(r)
<1>1. { s \in Added(r) : s.section = "servers" } = Servers(r, FALSE)
  BY DEF Added, Mails, Documents, Servers, Infrastructure, NetworkDepth, DevOps, Security, Row
<1>2. { row \in Added(r) : row.section # "servers" } =
        Mails(r) \cup Documents(r) \cup Infrastructure(r) \cup NetworkDepth(r) \cup DevOps(r) \cup Security(r)
  BY DEF Added, Mails, Documents, Servers, Infrastructure, NetworkDepth, DevOps, Security, Row
<1>3. { [row EXCEPT !.item = TRUE] : row \in Servers(r, FALSE) } = Servers(r, TRUE)
  <2>1. ASSUME NEW i, NEW old, NEW new
        PROVE  [Row(r, "servers", i, old) EXCEPT !.item = new] = Row(r, "servers", i, new)
    BY DEF Row
  <2> DEFINE updated(row) == [row EXCEPT !.item = TRUE]
  <2>2. \A i : updated(Row(r, "servers", i, FALSE)) = Row(r, "servers", i, TRUE)
    BY <2>1
  <2> HIDE DEF updated
  <2>3. { updated(row) : row \in Servers(r, FALSE) } = Servers(r, TRUE)
    BY <2>2 DEF Servers
  <2>4. QED
    BY <2>3 DEF updated
<1>4. QED
  BY <1>1, <1>2, <1>3 DEF Whole

Names == { "employees", "emails", "documents", "servers", "network",
           "alerts", "devops", "security", "artifacts" }

\* The order of reading names each section once.
LEMMA OrderFacts ==
    ASSUME NEW q
    PROVE  /\ Order(q) \in Seq(Names)
           /\ Len(Order(q)) \in {3, 9}
           /\ \A i, j \in 1..Len(Order(q)) : Order(q)[i] = Order(q)[j] => i = j
<1>1. /\ Sections \in Seq(Names) /\ Len(Sections) = 9
      /\ \A i, j \in 1..9 : Sections[i] = Sections[j] => i = j
  <2>1. /\ Sections[1] = "employees" /\ Sections[2] = "emails" /\ Sections[3] = "documents"
        /\ Sections[4] = "servers" /\ Sections[5] = "network" /\ Sections[6] = "alerts"
        /\ Sections[7] = "devops" /\ Sections[8] = "security" /\ Sections[9] = "artifacts"
    BY DEF Sections
  <2>2. Len(Sections) = 9
    BY DEF Sections
  <2>3. Sections \in Seq(Names)
    BY DEF Sections, Names
  <2>4. \A i \in 1..9 : i = 1 \/ i = 2 \/ i = 3 \/ i = 4 \/ i = 5 \/ i = 6 \/ i = 7 \/ i = 8 \/ i = 9
    OBVIOUS
  <2>5. QED
    BY <2>1, <2>2, <2>3, <2>4
<1>2. CASE Role[q] = "portal"
  <2>1. Order(q) = SubSeq(Sections, 1, 3)
    BY <1>2 DEF Order
  <2> HIDE DEF Sections
  <2>2. \A i \in 1..3 : Sections[i] \in Names
    <3>1. SUFFICES ASSUME NEW i \in 1..3 PROVE Sections[i] \in Names
      OBVIOUS
    <3>2. i \in 1..Len(Sections)
      BY <1>1, SMT
    <3>3. QED
      BY <1>1, <3>2, ElementOfSeq, Zenon
  <2>3. /\ SubSeq(Sections, 1, 3) \in Seq(Names)
        /\ Len(SubSeq(Sections, 1, 3)) = 3
        /\ \A i \in 1..3 : SubSeq(Sections, 1, 3)[i] = Sections[i]
    <3> DEFINE m == 1
               n == 3
    <3>1. m \in Int /\ n \in Int /\ m <= n /\ \A i \in m..n : Sections[i] \in Names
      BY <2>2
    <3> HIDE DEF m, n
    <3>2. /\ SubSeq(Sections, m, n) \in Seq(Names)
          /\ Len(SubSeq(Sections, m, n)) = IF m <= n THEN n - m + 1 ELSE 0
          /\ \A i \in 1..n - m + 1 : SubSeq(Sections, m, n)[i] = Sections[m + i - 1]
      BY <3>1, SubSeqProperties, SMT
    <3>3. m = 1 /\ n = 3
      BY DEF m, n
    <3>4. n - m + 1 = 3 /\ \A i \in 1..3 : m + i - 1 = i
      BY <3>3
    <3>5. QED
      BY <3>1, <3>2, <3>3, <3>4
  <2>4. QED
    <3>1. /\ Order(q) \in Seq(Names)
          /\ Len(Order(q)) = 3
          /\ \A i \in 1..3 : Order(q)[i] = Sections[i]
      BY <2>1, <2>3, Zenon
    <3>2. \A i, j \in 1..3 : Sections[i] = Sections[j] => i = j
      BY <1>1
    <3>3. QED
      BY <3>1, <3>2
<1>3. CASE Role[q] # "portal"
  BY <1>1, <1>3 DEF Order
<1>4. QED
  BY <1>2, <1>3

-----------------------------------------------------------------------------
(* The steps of the runs.                                                  *)

\* A step of run r that leaves the committed rows of all other runs, and those
\* of r unless it ends.
LEMMA RunStep ==
    ASSUME IInv, NEW r \in Runs,
           \A x \in Runs \ {r} : RowsOf(x)' = RowsOf(x) /\ step'[x] = step[x]
                                 /\ tx'[x] = tx[x] /\ pending'[x] = pending[x],
           step[r] # "ended",
           RowsOf(r)' = {} \/ (RowsOf(r)' = Whole(r) /\ step'[r] = "ended"),
           ProgressOf(r)',
           DOMAIN step' = Runs, DOMAIN tx' = Runs, DOMAIN pending' = Runs,
           reader' = reader
    PROVE  IInv'
<1>1. Typed'
  BY DEF IInv, Typed
<1>2. Progress'
  <2>1. ASSUME NEW x \in Runs \ {r}
        PROVE  ProgressOf(x)'
    BY DEF IInv, Progress, ProgressOf
  <2>2. QED
    BY <2>1 DEF Progress
<1>3. AllOrNothing'
  BY DEF IInv, AllOrNothing
<1>4. RowsOf(r) = {}
  BY DEF IInv, AllOrNothing
<1>5. ASSUME NEW x \in Runs, RowsOf(x) = Whole(x)
      PROVE  RowsOf(x)' = Whole(x)
  <2>1. RowsOf(x) # {}
    BY <1>5, WholeIsOwn
  <2>2. x # r
    BY <1>4, <2>1
  <2>3. QED
    BY <1>5, <2>2
<1>6. Reading'
  <2>1. ASSUME NEW q \in Readers, NEW n, ReadSoFar(q, n)
        PROVE  ReadSoFar(q, n)'
    BY <1>5, <2>1 DEF ReadSoFar
  <2>2. QED
    BY <2>1 DEF IInv, Reading
<1>7. QED
  BY <1>1, <1>2, <1>3, <1>6 DEF IInv

\* The rows that a run holds are its own.
LEMMA RowsAdded ==
    ASSUME NEW r \in Runs, NEW new, \A row \in new : row.of = r, rows' = rows \cup new
    PROVE  /\ \A x \in Runs \ {r} : RowsOf(x)' = RowsOf(x)
           /\ RowsOf(r)' = RowsOf(r) \cup new
  BY DEF RowsOf

LEMMA RowsKept ==
    ASSUME rows' = rows
    PROVE  \A x : RowsOf(x)' = RowsOf(x)
  BY DEF RowsOf

LEMMA FlushPeopleIInv ==
    ASSUME IInv, NEW r \in Runs, FlushPeople(r)
    PROVE  IInv'
<1>1. /\ step[r] = "people" /\ step' = [step EXCEPT ![r] = "sections"]
      /\ tx' = [tx EXCEPT ![r] = {CompanyRow(r)} \cup People(r)]
      /\ rows' = rows /\ pending' = pending /\ reader' = reader
  BY DEF FlushPeople, Goto
<1>2. RowsOf(r) = {} /\ ProgressOf(r)
  BY <1>1 DEF IInv, AllOrNothing, Progress
<1>3. ProgressOf(r)'
  BY <1>1, <1>2 DEF ProgressOf, IInv, Typed
<1>4. QED
  BY <1>1, <1>2, <1>3, RowsKept, RunStep DEF IInv, Typed

LEMMA AddSectionsIInv ==
    ASSUME IInv, NEW r \in Runs, AddSections(r)
    PROVE  IInv'
<1>1. /\ step[r] = "sections"
      /\ step' = [step EXCEPT ![r] = IF Generated[r].edr THEN "edr" ELSE "artifacts"]
      /\ pending' = [pending EXCEPT ![r] = Added(r)]
      /\ rows' = rows /\ tx' = tx /\ reader' = reader
  BY DEF AddSections, Goto, Added
<1>2. RowsOf(r) = {} /\ ProgressOf(r)
  BY <1>1 DEF IInv, AllOrNothing, Progress
<1>3. /\ tx[r] = {CompanyRow(r)} \cup People(r)
      /\ tx'[r] = tx[r] /\ pending'[r] = Added(r)
  BY <1>1, <1>2 DEF ProgressOf, IInv, Typed
<1>4. ProgressOf(r)'
  <2>1. CASE Generated[r].edr = TRUE
    <3>1. step'[r] = "edr"
      BY <1>1, <2>1 DEF IInv, Typed
    <3>2. QED
      BY <1>3, <2>1, <3>1 DEF ProgressOf
  <2>2. CASE Generated[r].edr = FALSE
    <3>1. step'[r] = "artifacts"
      BY <1>1, <2>2 DEF IInv, Typed
    <3>2. tx'[r] \cup pending'[r] \cup Artifacts(r) = Whole(r)
      BY <1>3, <2>2 DEF Added, Whole
    <3>3. QED
      BY <3>1, <3>2 DEF ProgressOf
  <2>3. QED
    BY <2>1, <2>2, CompanyStoreAssumption
<1>5. QED
  BY <1>1, <1>2, <1>4, RowsKept, RunStep DEF IInv, Typed

LEMMA UpdateServersIInv ==
    ASSUME IInv, NEW r \in Runs, UpdateServers(r)
    PROVE  IInv'
<1> DEFINE sent == { row \in pending[r] : row.section # "servers" }
                     \cup { [row EXCEPT !.item = TRUE] : row \in { s \in pending[r] : s.section = "servers" } }
<1>1. /\ step[r] = "edr" /\ step' = [step EXCEPT ![r] = "artifacts"]
      /\ tx' = [tx EXCEPT ![r] = tx[r] \cup sent]
      /\ pending' = [pending EXCEPT ![r] = {}]
      /\ rows' = rows /\ reader' = reader
  BY DEF UpdateServers, Goto, IInv, Typed
<1>2. RowsOf(r) = {} /\ ProgressOf(r)
  BY <1>1 DEF IInv, AllOrNothing, Progress
<1>3. /\ Generated[r].edr = TRUE
      /\ tx[r] = {CompanyRow(r)} \cup People(r) /\ pending[r] = Added(r)
  BY <1>1, <1>2 DEF ProgressOf
<1>4. tx[r] \cup sent \cup Artifacts(r) = Whole(r)
  <2>1. sent = { row \in Added(r) : row.section # "servers" }
                 \cup { [row EXCEPT !.item = TRUE] : row \in { s \in Added(r) : s.section = "servers" } }
    BY <1>3
  <2> HIDE DEF sent
  <2>2. QED
    BY <1>3, <2>1, ServersUpdated
<1> HIDE DEF sent
<1>5. ProgressOf(r)'
  <2>1. step'[r] = "artifacts" /\ tx'[r] = tx[r] \cup sent /\ pending'[r] = {}
    BY <1>1 DEF IInv, Typed
  <2>2. QED
    BY <1>4, <2>1 DEF ProgressOf
<1>6. QED
  BY <1>1, <1>2, <1>5, RowsKept, RunStep DEF IInv, Typed

LEMMA AddArtifactsIInv ==
    ASSUME IInv, NEW r \in Runs, AddArtifacts(r)
    PROVE  IInv'
<1>1. /\ step[r] = "artifacts" /\ step' = [step EXCEPT ![r] = "commit"]
      /\ pending' = [pending EXCEPT ![r] = pending[r] \cup Artifacts(r)]
      /\ rows' = rows /\ tx' = tx /\ reader' = reader
  BY DEF AddArtifacts, Goto, IInv, Typed
<1>2. RowsOf(r) = {} /\ ProgressOf(r)
  BY <1>1 DEF IInv, AllOrNothing, Progress
<1>3. ProgressOf(r)'
  <2>1. step'[r] = "commit" /\ tx'[r] = tx[r] /\ pending'[r] = pending[r] \cup Artifacts(r)
    BY <1>1 DEF IInv, Typed
  <2>2. tx[r] \cup pending[r] \cup Artifacts(r) = Whole(r)
    BY <1>1, <1>2 DEF ProgressOf
  <2>3. QED
    BY <2>1, <2>2 DEF ProgressOf
<1>4. QED
  BY <1>1, <1>2, <1>3, RowsKept, RunStep DEF IInv, Typed

\* The end of a session: the rows of the run are committed, all of them, or
\* none is.
LEMMA CloseIInv ==
    ASSUME IInv, NEW r \in Runs, NEW outcome, Close(r, outcome), step[r] # "ended",
           \/ rows' = rows
           \/ step[r] = "commit" /\ rows' = rows \cup tx[r] \cup pending[r],
           reader' = reader
    PROVE  IInv'
<1>1. /\ step' = [step EXCEPT ![r] = "ended"]
      /\ tx' = [tx EXCEPT ![r] = {}] /\ pending' = [pending EXCEPT ![r] = {}]
  BY DEF Close, Goto
<1>2. RowsOf(r) = {} /\ ProgressOf(r)
  BY DEF IInv, AllOrNothing, Progress
<1>3. step'[r] = "ended"
  BY <1>1 DEF IInv, Typed
<1>4. ProgressOf(r)'
  BY <1>3 DEF ProgressOf
<1>5. CASE rows' = rows
  BY <1>1, <1>2, <1>3, <1>4, <1>5, RowsKept, RunStep DEF IInv, Typed
<1>6. CASE step[r] = "commit" /\ rows' = rows \cup tx[r] \cup pending[r]
  <2>1. tx[r] \cup pending[r] = Whole(r)
    BY <1>2, <1>6 DEF ProgressOf
  <2>2. rows' = rows \cup Whole(r)
    BY <1>6, <2>1
  <2>3. \A row \in Whole(r) : row.of = r
    BY WholeIsOwn
  <2>4. \A x \in Runs \ {r} : RowsOf(x)' = RowsOf(x)
    BY <2>2, <2>3, RowsAdded
  <2>5. RowsOf(r)' = RowsOf(r) \cup Whole(r)
    BY <2>2, <2>3, RowsAdded
  <2>6. RowsOf(r)' = Whole(r)
    BY <1>2, <2>5
  <2>7. QED
    BY <1>1, <1>3, <1>4, <2>4, <2>6, RunStep DEF IInv, Typed
<1>7. QED
  BY <1>5, <1>6

LEMMA CommitIInv ==
    ASSUME IInv, NEW r \in Runs, Commit(r)
    PROVE  IInv'
  BY CloseIInv DEF Commit

LEMMA PersistFailsIInv ==
    ASSUME IInv, NEW r \in Runs, PersistFails(r)
    PROVE  IInv'
<1>1. step[r] # "ended" /\ reader' = reader /\ Close(r, "error")
  BY DEF PersistFails
<1>2. \/ rows' = rows
      \/ step[r] = "commit" /\ rows' = rows \cup tx[r] \cup pending[r]
  BY DEF PersistFails
<1>3. QED
  BY <1>1, <1>2, CloseIInv

-----------------------------------------------------------------------------
(* The steps of the readers.                                               *)

\* A step of reader q.
LEMMA ReaderStep ==
    ASSUME IInv, NEW q \in Readers, NEW new,
           reader' = [reader EXCEPT ![q] = new],
           DOMAIN new = {"of", "left", "seen", "result"},
           rows' = rows, tx' = tx, pending' = pending, step' = step,
           \/ new.left = <<>> /\ new.result # "found"
           \/ \E n \in 0..Len(Order(q)) : ReadSoFar(q, n)'
    PROVE  IInv'
<1>1. /\ DOMAIN reader' = Readers /\ reader'[q] = new
      /\ \A p \in Readers \ {q} : reader'[p] = reader[p]
  BY DEF IInv, Typed
<1>2. Typed'
  BY <1>1 DEF IInv, Typed
<1>3. \A r : RowsOf(r)' = RowsOf(r)
  BY RowsKept
<1>4. Progress' /\ AllOrNothing'
  BY <1>3 DEF IInv, Progress, ProgressOf, AllOrNothing
<1>5. ASSUME NEW p \in Readers \ {q}, NEW n, ReadSoFar(p, n)
      PROVE  ReadSoFar(p, n)'
  BY <1>1, <1>3, <1>5 DEF ReadSoFar
<1>6. Reading'
  <2>1. ASSUME NEW p \in Readers \ {q}
        PROVE  \/ reader'[p].left = <<>> /\ reader'[p].result # "found"
               \/ \E n \in 0..Len(Order(p)) : ReadSoFar(p, n)'
    BY <1>1, <1>5 DEF IInv, Reading
  <2>2. \/ reader'[q].left = <<>> /\ reader'[q].result # "found"
        \/ \E n \in 0..Len(Order(q)) : ReadSoFar(q, n)'
    BY <1>1
  <2>3. QED
    BY <2>1, <2>2 DEF Reading
<1>7. QED
  BY <1>2, <1>4, <1>6 DEF IInv

\* A company that is found is there with all its rows.
LEMMA ReadCompanyIInv ==
    ASSUME IInv, NEW q \in Readers, ReadCompany(q)
    PROVE  IInv'
<1>1. PICK r \in Runs :
        reader' = [reader EXCEPT ![q] =
          IF CompanyRow(r) \notin rows THEN [NotReading EXCEPT !.result = "not found"]
          ELSE IF Role[q] = "user" THEN [NotReading EXCEPT !.result = "denied"]
          ELSE [of |-> r, left |-> Order(q), seen |-> {}, result |-> "none"]]
  BY DEF ReadCompany
<1>2. rows' = rows /\ tx' = tx /\ pending' = pending /\ step' = step
  BY DEF ReadCompany
<1>3. ASSUME NEW what \in {"not found", "denied"},
             reader' = [reader EXCEPT ![q] = [NotReading EXCEPT !.result = what]]
      PROVE  IInv'
  <2>1. /\ DOMAIN [NotReading EXCEPT !.result = what] = {"of", "left", "seen", "result"}
        /\ [NotReading EXCEPT !.result = what].left = <<>>
        /\ [NotReading EXCEPT !.result = what].result # "found"
    BY DEF NotReading
  <2>2. QED
    BY <1>2, <1>3, <2>1, ReaderStep
<1>4. ASSUME CompanyRow(r) \in rows,
             reader' = [reader EXCEPT ![q] = [of |-> r, left |-> Order(q), seen |-> {}, result |-> "none"]]
      PROVE  IInv'
  <2> DEFINE new == [of |-> r, left |-> Order(q), seen |-> {}, result |-> "none"]
  <2>1. RowsOf(r) = Whole(r)
    BY <1>4, WholeIsOwn DEF IInv, AllOrNothing, RowsOf
  <2>2. reader'[q] = new
    BY <1>4 DEF IInv, Typed
  <2>3. Order(q) = SubSeq(Order(q), 1, Len(Order(q))) /\ Len(Order(q)) \in Nat
    BY OrderFacts
  <2>4. ReadSoFar(q, 0)'
    BY <1>2, <2>1, <2>2, <2>3, RowsKept DEF ReadSoFar
  <2>5. 0 \in 0..Len(Order(q))
    BY <2>3
  <2>6. QED
    BY <1>2, <1>4, <2>4, <2>5, ReaderStep
<1>5. QED
  BY <1>1, <1>3, <1>4

\* The answer to a SELECT is what it ought to be.
LEMMA AnswerIsRight ==
    ASSUME NEW q \in Readers, NEW s, NEW answer \in Answers(q, s), reader[q].of \in Runs,
           RowsOf(reader[q].of) = Whole(reader[q].of)
    PROVE  /\ \A row \in answer : row.section = s
           /\ Right(q, reader[q].of, answer, s)
<1> DEFINE r == reader[q].of
           all == { row \in rows : row.of = r /\ row.section = s }
<1>1. all = InSection(Whole(r), s)
  BY DEF RowsOf, InSection
<1>2. answer \subseteq all
  BY DEF Answers, kSubset
<1>3. InSection(answer, s) = answer
  BY <1>2 DEF InSection
<1>4. CASE Role[q] = "portal" /\ s = "emails"
  <2>1. all = Mails(r)
    BY <1>1, <1>4, MailsOfWhole
  <2>2. Cardinality(all) \in Nat
    BY <2>1, MailsAreFinite, FS_CardinalityType
  <2>3. PortalMails \in Nat
    BY CompanyStoreAssumption
  <2>4. Cardinality(answer) = IF Cardinality(all) > PortalMails THEN PortalMails ELSE Cardinality(all)
    BY <1>4 DEF Answers, kSubset
  <2>5. ASSUME NEW a \in Nat, NEW b \in Nat
        PROVE  Min({a, b}) = IF b > a THEN a ELSE b
    <3>1. \E x \in {a, b} : \A y \in {a, b} : x =< y
      OBVIOUS
    <3>2. Min({a, b}) \in {a, b} /\ \A y \in {a, b} : Min({a, b}) =< y
      BY <3>1 DEF Min
    <3>3. QED
      BY <3>2
  <2>6. Cardinality(answer) = Min({PortalMails, Cardinality(all)})
    BY <2>2, <2>3, <2>4, <2>5
  <2>7. QED
    BY <1>1, <1>2, <1>3, <1>4, <2>6 DEF Right
<1>5. CASE ~(Role[q] = "portal" /\ s = "emails")
  <2>1. answer = all
    BY <1>5 DEF Answers
  <2>2. QED
    BY <1>1, <1>2, <1>3, <1>5, <2>1 DEF Right
<1>6. QED
  BY <1>2, <1>4, <1>5

\* One section more has been read.
LEMMA ReadSectionIInv ==
    ASSUME IInv, NEW q \in Readers, ReadSection(q)
    PROVE  IInv'
<1>1. reader[q].left # <<>>
  BY DEF ReadSection
<1> PICK L, r, seen : L = Len(Order(q)) /\ r = reader[q].of /\ seen = reader[q].seen
  OBVIOUS
<1>2. PICK n \in 0..L : ReadSoFar(q, n)
  BY <1>1 DEF IInv, Reading
<1>3. L \in {3, 9} /\ Order(q) \in Seq(Names)
  BY OrderFacts
<1>4. n < L
  BY <1>1, <1>2, <1>3 DEF ReadSoFar
<1>5. /\ Head(reader[q].left) = Order(q)[n + 1]
      /\ Tail(reader[q].left) = SubSeq(Order(q), n + 2, L)
      /\ Len(reader[q].left) = L - n
  BY <1>2, <1>3, <1>4 DEF ReadSoFar
<1> DEFINE s == Order(q)[n + 1]
<1>6. PICK answer \in Answers(q, s) :
        reader' = [reader EXCEPT ![q].seen = @ \cup answer,
                                 ![q].left = Tail(@),
                                 ![q].result = IF Len(reader[q].left) = 1 THEN "found" ELSE @]
  BY <1>5 DEF ReadSection
<1>7. rows' = rows /\ tx' = tx /\ pending' = pending /\ step' = step
  BY DEF ReadSection
<1> DEFINE new == [reader[q] EXCEPT !.seen = @ \cup answer, !.left = Tail(@),
                                    !.result = IF Len(reader[q].left) = 1 THEN "found" ELSE @]
<1>8. reader' = [reader EXCEPT ![q] = new] /\ reader'[q] = new
  BY <1>6 DEF IInv, Typed
<1>9. /\ DOMAIN new = {"of", "left", "seen", "result"}
      /\ new.of = r /\ new.seen = seen \cup answer /\ new.left = Tail(reader[q].left)
      /\ new.result = IF L - n = 1 THEN "found" ELSE reader[q].result
  BY <1>5 DEF IInv, Typed
<1> HIDE DEF new
<1>10. /\ \A row \in answer : row.section = s
       /\ Right(q, r, answer, s)
  BY <1>2, <1>6, AnswerIsRight DEF ReadSoFar
<1>11. \A i, j \in 1..L : Order(q)[i] = Order(q)[j] => i = j
  BY OrderFacts
<1>12. n + 1 \in 1..L /\ n \in Nat /\ L \in Nat
  BY <1>3, <1>4
<1>13. /\ \A row \in seen : \E i \in 1..n : row.section = Order(q)[i]
       /\ \A i \in 1..n : Right(q, r, seen, Order(q)[i])
       /\ r \in Runs /\ RowsOf(r) = Whole(r)
       /\ n < L => reader[q].result # "found"
  BY <1>2 DEF ReadSoFar
<1> HIDE DEF s
<1>14. \A i \in 1..(n + 1) : Right(q, r, seen \cup answer, Order(q)[i])
  <2>1. ASSUME NEW i \in 1..n
        PROVE  Right(q, r, seen \cup answer, Order(q)[i])
    <3>1. Order(q)[i] # s
      BY <1>11, <1>12 DEF s
    <3>2. InSection(seen \cup answer, Order(q)[i]) = InSection(seen, Order(q)[i])
      BY <1>10, <3>1 DEF InSection
    <3>3. Right(q, r, seen, Order(q)[i])
      BY <1>13
    <3>4. QED
      BY <3>2, <3>3 DEF Right
  <2>2. Right(q, r, seen \cup answer, s)
    <3>1. \A row \in seen : row.section # s
      <4>1. \A i \in 1..n : Order(q)[i] # s
        BY <1>11, <1>12 DEF s
      <4>2. QED
        BY <1>13, <4>1
    <3>2. InSection(seen \cup answer, s) = InSection(answer, s)
      BY <3>1 DEF InSection
    <3>3. QED
      BY <1>10, <3>2 DEF Right
  <2>3. \A i \in 1..(n + 1) : i \in 1..n \/ i = n + 1
    BY <1>12
  <2>4. Right(q, r, seen \cup answer, Order(q)[n + 1])
    BY <2>2 DEF s
  <2>5. QED
    BY <2>1, <2>3, <2>4
<1>15. \A row \in seen \cup answer : \E i \in 1..(n + 1) : row.section = Order(q)[i]
  BY <1>10, <1>12, <1>13 DEF s
<1>16. n + 1 < L => new.result # "found"
  BY <1>9, <1>12, <1>13
<1>17. ReadSoFar(q, n + 1)'
  <2>1. reader'[q].left = SubSeq(Order(q), (n + 1) + 1, Len(Order(q)))
    <3>1. n + 2 = (n + 1) + 1
      BY <1>12
    <3>2. QED
      BY <1>5, <1>8, <1>9, <3>1
  <2>2. RowsOf(r)' = Whole(r)
    BY <1>7, <1>13, RowsKept
  <2>3. reader'[q].of = r /\ reader'[q].seen = seen \cup answer
    BY <1>8, <1>9
  <2>4. RowsOf(reader[q].of)' = Whole(reader'[q].of)
    BY <2>2, <2>3 DEF RowsOf
  <2>5. \A i \in 1..(n + 1) : Right(q, reader'[q].of, reader'[q].seen, Order(q)[i])
    BY <1>14, <2>3
  <2>6. \A row \in reader'[q].seen : \E i \in 1..(n + 1) : row.section = Order(q)[i]
    BY <1>15, <2>3
  <2>7. n + 1 < Len(Order(q)) => reader'[q].result # "found"
    BY <1>8, <1>16
  <2>8. QED
    BY <1>13, <2>1, <2>3, <2>4, <2>5, <2>6, <2>7 DEF ReadSoFar
<1>18. n + 1 \in 0..Len(Order(q))
  BY <1>12
<1>19. QED
  BY <1>7, <1>8, <1>9, <1>17, <1>18, ReaderStep

-----------------------------------------------------------------------------
(* The theorem.                                                            *)

LEMMA InitIInv == Init => IInv
<1> SUFFICES ASSUME Init PROVE IInv
  OBVIOUS
<1>1. Typed
  BY DEF Init, Typed, NotReading
<1>2. Progress
  BY DEF Init, Progress, ProgressOf
<1>3. AllOrNothing
  BY DEF Init, AllOrNothing, RowsOf
<1>4. Reading
  BY DEF Init, Reading, NotReading
<1>5. QED
  BY <1>1, <1>2, <1>3, <1>4 DEF IInv

LEMMA NextIInv == IInv /\ [Next]_vars => IInv'
<1> SUFFICES ASSUME IInv, [Next]_vars PROVE IInv'
  OBVIOUS
<1>1. ASSUME NEW r \in Runs, Persist(r)
      PROVE  IInv'
  BY <1>1, FlushPeopleIInv, AddSectionsIInv, UpdateServersIInv, AddArtifactsIInv, CommitIInv,
     PersistFailsIInv DEF Persist
<1>2. ASSUME NEW q \in Readers, ReadCompany(q) \/ ReadSection(q)
      PROVE  IInv'
  BY <1>2, ReadCompanyIInv, ReadSectionIInv
<1>3. CASE UNCHANGED vars
  BY <1>3 DEF vars, IInv, Typed, Progress, ProgressOf, AllOrNothing, RowsOf, Reading, ReadSoFar
<1>4. QED
  BY <1>1, <1>2, <1>3 DEF Next

\* The inductive invariant.
THEOREM IInvHolds == Spec => []IInv
<1>1. QED
  BY InitIInv, NextIInv, PTL DEF Spec

\* Whoever finds a company sees all of it, for any number of companies, runs
\* that store them, failures of these, and readers.
THEOREM ReadsAreWholeAlways == Spec => []ReadsAreWhole
<1>1. IInv => ReadsAreWhole
  <2>1. ASSUME IInv, NEW q \in Readers, reader[q].result = "found", NEW i \in DOMAIN Order(q)
        PROVE  Right(q, reader[q].of, reader[q].seen, Order(q)[i])
    <3>1. PICK n \in 0..Len(Order(q)) : ReadSoFar(q, n)
      BY <2>1 DEF IInv, Reading
    <3>2. n = Len(Order(q)) /\ i \in 1..n
      BY <2>1, <3>1, OrderFacts DEF ReadSoFar
    <3>3. QED
      BY <3>1, <3>2 DEF ReadSoFar
  <2>2. ASSUME IInv, NEW q \in Readers, reader[q].result = "found",
               NEW s \in { Order(q)[i] : i \in DOMAIN Order(q) }
        PROVE  Right(q, reader[q].of, reader[q].seen, s)
    BY <2>1, <2>2
  <2>3. QED
    BY <2>2 DEF ReadsAreWhole, Right, InSection
<1>2. QED
  BY <1>1, IInvHolds, PTL

-----------------------------------------------------------------------------
(* The look-up of employees.                                               *)

\* A set of positions in a list has a last one.
LEMMA LastPosition ==
    ASSUME NEW n \in Nat, NEW K \in SUBSET (1..n), K # {}
    PROVE  Max(K) \in K
<1> DEFINE T == { n - k : k \in K }
<1>1. T \in SUBSET Nat /\ T # {}
  <2>1. \A k \in K : k \in 1..n
    OBVIOUS
  <2>2. \A k \in K : n - k \in Nat
    BY <2>1
  <2>3. QED
    BY <2>2
<1>2. PICK m \in T : \A x \in T : ~(<<x, m>> \in OpToRel(<, Nat))
  BY <1>1, WFMin, NatLessThanWellFounded
<1>3. \A x \in T : m <= x
  <2>1. ASSUME NEW x \in T PROVE m <= x
    <3>1. <<x, m>> \in Nat \X Nat /\ ~(<<x, m>> \in OpToRel(<, Nat))
      BY <1>1, <1>2
    <3>2. ~(x < m)
      BY <3>1 DEF OpToRel
    <3>3. QED
      BY <1>1, <3>2
  <2>2. QED
    BY <2>1
<1>4. PICK k \in K : m = n - k
  BY <1>2
<1>5. \A x \in K : k >= x
  <2>1. ASSUME NEW x \in K PROVE k >= x
    <3>1. n - x \in T
      OBVIOUS
    <3>2. n - k <= n - x
      BY <1>3, <1>4, <3>1
    <3>3. x \in 1..n /\ k \in 1..n
      OBVIOUS
    <3>4. QED
      BY <3>2, <3>3
  <2>2. QED
    BY <2>1
<1>6. QED
  BY <1>5 DEF Max

LEMMA FirstPosition ==
    ASSUME NEW n \in Nat, NEW K \in SUBSET (1..n), K # {}
    PROVE  Min(K) \in K
<1>1. K \in SUBSET Nat
  OBVIOUS
<1>2. PICK k \in K : \A x \in K : ~(<<x, k>> \in OpToRel(<, Nat))
  BY <1>1, WFMin, NatLessThanWellFounded
<1>3. ASSUME NEW x \in K PROVE k <= x
  <2>1. <<x, k>> \in Nat \X Nat /\ ~(<<x, k>> \in OpToRel(<, Nat))
    BY <1>1, <1>2
  <2>2. ~(x < k)
    BY <2>1 DEF OpToRel
  <2>3. QED
    BY <1>1, <2>2
<1>4. QED
  BY <1>3 DEF Min

\* An address that employees have leads to one who has it.
LEMMA LookupFindsOwner ==
    ASSUME NEW r \in Runs, NEW a, Named(Generated[r], a) # {}
    PROVE  LookupEmployee(Generated[r], a) \in Named(Generated[r], a)
<1> DEFINE people == Generated[r].people
<1>1. Len(people) \in Nat /\ DOMAIN people = 1..Len(people)
  BY CompanyStoreAssumption
<1>2. Named(Generated[r], a) \in SUBSET (1..Len(people))
  BY <1>1 DEF Named
<1>3. Max(Named(Generated[r], a)) \in Named(Generated[r], a)
  BY <1>1, <1>2, LastPosition
<1>4. QED
  BY <1>3 DEF LookupEmployee

\* Only runs store companies.
RowsOfRuns == \A row \in rows : row.of \in Runs

LEMMA StoredByRuns ==
    ASSUME IInv, RowsOfRuns, [Next]_vars
    PROVE  RowsOfRuns'
<1>1. ASSUME NEW r \in Runs, step[r] = "commit", rows' = rows \cup tx[r] \cup pending[r]
      PROVE  RowsOfRuns'
  <2>1. tx[r] \cup pending[r] = Whole(r)
    BY <1>1 DEF IInv, Progress, ProgressOf
  <2>2. QED
    BY <1>1, <2>1, WholeIsOwn DEF RowsOfRuns
<1>2. ASSUME rows' = rows
      PROVE  RowsOfRuns'
  BY <1>2 DEF RowsOfRuns
<1>3. ASSUME NEW r \in Runs, Persist(r)
      PROVE  rows' = rows \/ (step[r] = "commit" /\ rows' = rows \cup tx[r] \cup pending[r])
  BY <1>3 DEF Persist, FlushPeople, AddSections, UpdateServers, AddArtifacts, Commit, PersistFails
<1>4. ASSUME NEW q \in Readers, ReadCompany(q) \/ ReadSection(q)
      PROVE  rows' = rows
  BY <1>4 DEF ReadCompany, ReadSection
<1>5. QED
  BY <1>1, <1>2, <1>3, <1>4 DEF Next, vars

\* Every stored mail is a mail of its company, with the employees looked up.
LEMMA StoredMail ==
    ASSUME IInv, RowsOfRuns, NEW row \in rows, row.section = "emails"
    PROVE  /\ row.of \in Runs
           /\ row.item = Mail(Generated[row.of], Generated[row.of].mails[row.no])
<1>1. row.of \in Runs /\ row \in RowsOf(row.of)
  BY DEF RowsOfRuns, RowsOf
<1>2. row \in Mails(row.of)
  BY <1>1, MailsOfWhole DEF IInv, AllOrNothing, InSection
<1>3. QED
  BY <1>1, <1>2 DEF Mails, Row

\* k may get the mail with address a, if it is an employee's.
Delivered(g, k, a) == OfEmployee(g, a) => MayGet(g, k, a)

LEMMA LookupDelivers ==
    ASSUME NEW r \in Runs, NEW a
    PROVE  Delivered(Generated[r], LookupEmployee(Generated[r], a), a)
<1> DEFINE g == Generated[r]
<1> SUFFICES ASSUME OfEmployee(g, a)
             PROVE  MayGet(g, LookupEmployee(g, a), a)
  BY DEF Delivered
<1>1. /\ Len(g.people) \in Nat /\ DOMAIN g.people = 1..Len(g.people)
      /\ \A k \in DOMAIN g.people : k # Nobody /\ <<g.people[k], g.people[k]>> \in Starts
  <2>1. /\ Len(g.people) \in Nat /\ DOMAIN g.people = 1..Len(g.people)
        /\ \A k \in DOMAIN g.people : <<g.people[k], g.people[k]>> \in Starts
    BY ONLY CompanyStoreAssumption, r \in Runs
  <2>2. \A k \in 1..Len(g.people) : k # 0
    BY <2>1
  <2>3. QED
    BY <2>1, <2>2 DEF Nobody
<1>2. CASE Named(g, a) # {}
  <2>1. LookupEmployee(g, a) \in Named(g, a)
    BY <1>2, LookupFindsOwner
  <2>2. QED
    BY <1>1, <2>1 DEF Named, Is, MayGet
<1>3. CASE Named(g, a) = {}
  <2>1. PICK j \in DOMAIN g.people :
          /\ g.people[j] = a.local
          /\ a.domain = "by name" \/ Lower[a.domain] = Lower[Domain(g)]
    BY DEF OfEmployee
  <2>2. a.domain # "by name" /\ Lower[a.domain] # Domain(g)
    BY <1>3, <2>1 DEF Named, Is
  <2>3. Domain(g) # Lower[Domain(g)]
    BY <2>1, <2>2
  <2>4. Begun(g, a) # {} /\ Begun(g, a) \in SUBSET (1..Len(g.people))
    BY <1>1, <2>1, <2>2 DEF Begun
  <2> DEFINE first == Min(Begun(g, a))
             same == { k \in DOMAIN g.people : g.people[k] = g.people[first] }
  <2>5. first \in Begun(g, a)
    BY <1>1, <2>4, FirstPosition
  <2>6. same # {} /\ same \in SUBSET (1..Len(g.people))
    BY <1>1, <2>5 DEF Begun
  <2>7. Max(same) \in same
    BY <1>1, <2>6, LastPosition
  <2>8. LookupEmployee(g, a) = Max(same)
    BY <1>3, <2>4 DEF LookupEmployee
  <2>9. <<a.local, g.people[first]>> \in Starts
    BY <2>5 DEF Begun
  <2>10. QED
    BY <1>1, <2>3, <2>7, <2>8, <2>9 DEF MayGet
<1>4. QED
  BY <1>2, <1>3

\* Among namesakes and addresses that begin alike, a stored mail from or to an
\* employee is from, or to, one with this name or address, or, where the domain
\* has a capital, with one that begins like it: for any people, mails and domains,
\* and whichever names begin which.
THEOREM MailsKeepTheirPeopleAlways == Spec => []MailsKeepTheirPeople
<1>1. ASSUME IInv, RowsOfRuns, NEW row \in rows, row.section = "emails",
             NEW m, m = Generated[row.of].mails[row.no]
      PROVE  /\ Delivered(Generated[row.of], row.item.sender, m.from)
             /\ \A j \in DOMAIN m.to :
                  Delivered(Generated[row.of], row.item.recipients[j], m.to[j])
  <2>1. row.of \in Runs /\ row.item = Mail(Generated[row.of], m)
    BY <1>1, StoredMail
  <2>2. /\ row.item.sender = LookupEmployee(Generated[row.of], m.from)
        /\ \A j \in DOMAIN m.to :
             row.item.recipients[j] = LookupEmployee(Generated[row.of], m.to[j])
    BY <2>1 DEF Mail
  <2>3. QED
    BY <2>1, <2>2, LookupDelivers
<1>2. IInv /\ RowsOfRuns => MailsKeepTheirPeople
  <2> DEFINE Kept(row) ==
        LET m == Generated[row.of].mails[row.no]
        IN  /\ Delivered(Generated[row.of], row.item.sender, m.from)
            /\ \A j \in DOMAIN m.to :
                 Delivered(Generated[row.of], row.item.recipients[j], m.to[j])
  <2>1. ASSUME IInv, RowsOfRuns, NEW row \in { x \in rows : x.section = "emails" }
        PROVE  Kept(row)
    BY <1>1, <2>1
  <2>2. MailsKeepTheirPeople <=> \A row \in { x \in rows : x.section = "emails" } : Kept(row)
    BY DEF MailsKeepTheirPeople, Delivered
  <2>3. QED
    BY <2>1, <2>2
<1>3. Init => RowsOfRuns
  BY DEF Init, RowsOfRuns
<1>4. QED
  BY <1>2, <1>3, StoredByRuns, InitIInv, NextIInv, PTL DEF Spec
=============================================================================
