---------------------------- MODULE CompanyStore ----------------------------
(***************************************************************************)
(* The rows of a generated company: company_persister.py stores them in    *)
(* one transaction, statement by statement, while get_company() of         *)
(* api/company.py and the portal's query_company() read the tables of a    *)
(* company one after the other.  PostgreSQL runs at READ COMMITTED: each   *)
(* SELECT sees what is committed when it starts.                           *)
(*                                                                         *)
(* A mail names its sender and its recipients by address; the persister    *)
(* replaces the addresses of employees by their ids.                       *)
(***************************************************************************)
EXTENDS Naturals, Sequences, FiniteSets, FiniteSetsExt

CONSTANTS Runs,         \* the generation runs, each of which stores a company
          Generated,    \* per run, what was generated
          Starts,       \* the pairs of names of which the one begins the other
          Lower,        \* per domain, the domain in lower case
          Readers,      \* the readers
          Role,         \* per reader: "anonymous", "user", "admin" or "portal"
          PortalMails,  \* how many mails the portal shows
          MaxReads,     \* bound: how often a reader reads
          MaxFaults     \* bound: failed statements and cancelled runs

ASSUME CompanyStoreAssumption ==
    /\ {PortalMails, MaxReads, MaxFaults} \subseteq Nat
    /\ \A q \in Readers : Role[q] \in {"anonymous", "user", "admin", "portal"}
    /\ \A r \in Runs : IsFiniteSet(DOMAIN Generated[r].mails) /\ Generated[r].edr \in BOOLEAN
    /\ \A r \in Runs : LET people == Generated[r].people
                      IN  /\ Len(people) \in Nat /\ DOMAIN people = 1..Len(people)
                          /\ \A k \in DOMAIN people : <<people[k], people[k]>> \in Starts

VARIABLES
    rows,    \* the rows that are committed
    tx,      \* per run, the rows its transaction has written
    pending, \* per run, the rows its session has not yet sent
    step,    \* per run, its next step
    told,    \* per run, what its task's result says: none, persisted, error
    reader,  \* per reader: the company it reads, the tables left, what it saw
    reads,   \* per reader, how often it has read
    faults

vars == <<rows, tx, pending, step, told, reader, reads, faults>>

\* The tables after companies, those of one generated section together, in the
\* order in which get_company() reads them; the portal stops after three.
Sections == << "employees", "emails", "documents", "servers", "network",
               "alerts", "devops", "security", "artifacts" >>

-----------------------------------------------------------------------------
(* From addresses to employees.                                            *)

\* The domain of the company is the one its first mail is sent from, with its
\* capitals.  (Names are given in lower case, as they are wherever they matter.)
Domain(g) ==
    IF g.mails = <<>> \/ g.mails[1].from.domain = "by name" THEN g.domain
    ELSE g.mails[1].from.domain

\* An employee's address is derived from the name, and keeps the capitals of the
\* domain; a mail may give either.  What the mail gives is put in lower case.
Is(g, k, a) ==
    /\ g.people[k] = a.local
    /\ a.domain = "by name" \/ Lower[a.domain] = Domain(g)

Named(g, a) == { k \in DOMAIN g.people : Is(g, k, a) }

\* Whose address begins like a; a name in its place has a blank, and none does.
Begun(g, a) ==
    { k \in DOMAIN g.people : a.domain # "by name" /\ <<a.local, g.people[k]>> \in Starts }

Nobody == 0

\* Mutant of LookupEmployee: any address that begins like it will do.
LookupByBeginning(g, a) ==
    IF Begun(g, a) = {} THEN Nobody
    ELSE Max({ k \in DOMAIN g.people : g.people[k] = g.people[Min(Begun(g, a))] })

\* Who has the address; failing that, the first whose address begins like it.
\* Of two employees with the same address the last counts.
LookupEmployee(g, a) ==
    IF Named(g, a) # {} THEN Max(Named(g, a))
    ELSE IF Begun(g, a) = {} THEN Nobody
    ELSE Max({ k \in DOMAIN g.people : g.people[k] = g.people[Min(Begun(g, a))] })

Mail(g, m) ==
    [sender |-> LookupEmployee(g, m.from),
     recipients |-> [j \in DOMAIN m.to |-> LookupEmployee(g, m.to[j])]]

-----------------------------------------------------------------------------
(* The rows of a company.                                                  *)

Row(r, section, no, item) == [of |-> r, section |-> section, no |-> no, item |-> item]

CompanyRow(r) == Row(r, "company", 1, "company")

People(r) ==
    { Row(r, "employees", k, Generated[r].people[k]) : k \in DOMAIN Generated[r].people }

Mails(r) ==
    { Row(r, "emails", i, Mail(Generated[r], Generated[r].mails[i])) : i \in DOMAIN Generated[r].mails }

\* Every document is by the first employee, if there is one.
Documents(r) ==
    { Row(r, "documents", i, IF Generated[r].people = <<>> THEN Nobody ELSE 1) :
        i \in 1..Generated[r].size["documents"] }

Servers(r, edr) == { Row(r, "servers", i, edr) : i \in 1..Generated[r].size["servers"] }

\* The other sections, as they were generated.
Infrastructure(r) == { Row(r, "network", i, "row") : i \in 1..Generated[r].size["network"] }
NetworkDepth(r)   == { Row(r, "alerts", i, "row") : i \in 1..Generated[r].size["alerts"] }
DevOps(r)         == { Row(r, "devops", i, "row") : i \in 1..Generated[r].size["devops"] }
Security(r)       == { Row(r, "security", i, "row") : i \in 1..Generated[r].size["security"] }
Artifacts(r)      == { Row(r, "artifacts", i, "row") : i \in 1..Generated[r].size["artifacts"] }

-----------------------------------------------------------------------------
(* persist_company()                                                       *)

Goto(r, s) == step' = [step EXCEPT ![r] = s]

\* Mutant of FlushPeople: they are committed at once.
CommitPeople(r) ==
    /\ step[r] = "people"
    /\ rows' = rows \cup {CompanyRow(r)} \cup People(r)
    /\ Goto(r, "sections")
    /\ UNCHANGED <<tx, pending, told, reader, reads, faults>>

\* The company and its employees are sent (db.flush()).
FlushPeople(r) ==
    /\ step[r] = "people"
    /\ tx' = [tx EXCEPT ![r] = {CompanyRow(r)} \cup People(r)]
    /\ Goto(r, "sections")
    /\ UNCHANGED <<rows, pending, told, reader, reads, faults>>

\* The sections are added to the session, without a statement.
AddSections(r) ==
    /\ step[r] = "sections"
    /\ pending' = [pending EXCEPT ![r] =
         Mails(r) \cup Documents(r) \cup Servers(r, FALSE) \cup Infrastructure(r)
           \cup NetworkDepth(r) \cup DevOps(r) \cup Security(r)]
    /\ Goto(r, IF Generated[r].edr THEN "edr" ELSE "artifacts")
    /\ UNCHANGED <<rows, tx, told, reader, reads, faults>>

\* The EDR status is set by an UPDATE, for which the session first sends what
\* it holds: the servers of this company among it.
UpdateServers(r) ==
    /\ step[r] = "edr"
    /\ tx' = [tx EXCEPT ![r] =
         @ \cup { row \in pending[r] : row.section # "servers" }
           \cup { [row EXCEPT !.item = TRUE] : row \in { s \in pending[r] : s.section = "servers" } }]
    /\ pending' = [pending EXCEPT ![r] = {}]
    /\ Goto(r, "artifacts")
    /\ UNCHANGED <<rows, told, reader, reads, faults>>

AddArtifacts(r) ==
    /\ step[r] = "artifacts"
    /\ pending' = [pending EXCEPT ![r] = @ \cup Artifacts(r)]
    /\ Goto(r, "commit")
    /\ UNCHANGED <<rows, tx, told, reader, reads, faults>>

\* Done with the session: what it did not commit is rolled back.
Close(r, outcome) ==
    /\ tx' = [tx EXCEPT ![r] = {}]
    /\ pending' = [pending EXCEPT ![r] = {}]
    /\ told' = [told EXCEPT ![r] = outcome]
    /\ Goto(r, "ended")

Commit(r) ==
    /\ step[r] = "commit"
    /\ rows' = rows \cup tx[r] \cup pending[r]
    /\ Close(r, "persisted")
    /\ UNCHANGED <<reader, reads, faults>>

\* A statement fails, or the run is cancelled while one is under way.  The
\* answer to a COMMIT may be lost when it has been carried out.
PersistFails(r) ==
    /\ step[r] \in {"people", "edr", "commit"}
    /\ faults < MaxFaults
    /\ faults' = faults + 1
    /\ rows' \in {rows} \cup (IF step[r] = "commit" THEN {rows \cup tx[r] \cup pending[r]} ELSE {})
    /\ Close(r, "error")
    /\ UNCHANGED <<reader, reads>>

-----------------------------------------------------------------------------
(* get_company() and query_company()                                       *)

NotReading == [of |-> "none", left |-> <<>>, seen |-> {}, result |-> "none"]

Order(q) == IF Role[q] = "portal" THEN SubSeq(Sections, 1, 3) ELSE Sections

\* The company's own row: not found (404), or denied (403).  The owner's id is
\* a UUID and is compared with a string: whoever is no administrator is denied,
\* the owner included.  Without a login there is no check.
ReadCompany(q) ==
    /\ reader[q].left = <<>>
    /\ reads[q] < MaxReads
    /\ reads' = [reads EXCEPT ![q] = @ + 1]
    /\ \E r \in Runs :
         reader' = [reader EXCEPT ![q] =
           IF CompanyRow(r) \notin rows THEN [NotReading EXCEPT !.result = "not found"]
           ELSE IF Role[q] = "user" THEN [NotReading EXCEPT !.result = "denied"]
           ELSE [of |-> r, left |-> Order(q), seen |-> {}, result |-> "none"]]
    /\ UNCHANGED <<rows, tx, pending, step, told, faults>>

\* What a SELECT returns: of the mails, the portal wants the first only.
Answers(q, section) ==
    LET all == { row \in rows : row.of = reader[q].of /\ row.section = section }
    IN  IF Role[q] = "portal" /\ section = "emails" /\ Cardinality(all) > PortalMails
        THEN kSubset(PortalMails, all)
        ELSE {all}

ReadSection(q) ==
    /\ reader[q].left # <<>>
    /\ \E answer \in Answers(q, Head(reader[q].left)) :
         reader' = [reader EXCEPT ![q].seen = @ \cup answer,
                                  ![q].left = Tail(@),
                                  ![q].result = IF Len(reader[q].left) = 1 THEN "found" ELSE @]
    /\ UNCHANGED <<rows, tx, pending, step, told, reads, faults>>

Init ==
    /\ rows = {}
    /\ tx = [r \in Runs |-> {}]
    /\ pending = [r \in Runs |-> {}]
    /\ step = [r \in Runs |-> "people"]
    /\ told = [r \in Runs |-> "none"]
    /\ reader = [q \in Readers |-> NotReading]
    /\ reads = [q \in Readers |-> 0]
    /\ faults = 0

Persist(r) ==
    \/ FlushPeople(r) \/ AddSections(r) \/ UpdateServers(r) \/ AddArtifacts(r) \/ Commit(r) \/ PersistFails(r)

Next ==
    \/ \E r \in Runs : Persist(r)
    \/ \E q \in Readers : ReadCompany(q) \/ ReadSection(q)

Spec == Init /\ [][Next]_vars

-----------------------------------------------------------------------------
(* Properties.                                                             *)

\* All that was generated for a company, with the EDR status on every server.
Whole(r) ==
    {CompanyRow(r)} \cup People(r) \cup Mails(r) \cup Documents(r) \cup Servers(r, Generated[r].edr)
      \cup Infrastructure(r) \cup NetworkDepth(r) \cup DevOps(r) \cup Security(r) \cup Artifacts(r)

\* Whoever finds a company, however the storing of it and of others, with its
\* failures, falls between the statements of the reading, sees all of it: each
\* table that is read, as it was generated (of the mails, the portal as many as
\* it shows).
ReadsAreWhole ==
    \A q \in Readers : reader[q].result = "found" =>
        \A s \in { Order(q)[i] : i \in DOMAIN Order(q) } :
            LET seen == { row \in reader[q].seen : row.section = s }
                all  == { row \in Whole(reader[q].of) : row.section = s }
            IN  IF Role[q] = "portal" /\ s = "emails"
                THEN seen \subseteq all /\ Cardinality(seen) = Min({PortalMails, Cardinality(all)})
                ELSE seen = all

\* The name of an employee, or an employee's address up to capitals.
OfEmployee(g, a) ==
    \E j \in DOMAIN g.people :
        /\ g.people[j] = a.local
        /\ a.domain = "by name" \/ Lower[a.domain] = Lower[Domain(g)]

\* Employee k may get the mail of such an address: it is k's own, or it begins
\* k's in a company whose domain has a capital.
MayGet(g, k, a) ==
    /\ k # Nobody
    /\ \/ g.people[k] = a.local
       \/ Domain(g) # Lower[Domain(g)] /\ <<a.local, g.people[k]>> \in Starts

\* A stored mail from, or to, an employee of the company is from, or to, an
\* employee with this name or address, although the look-up also takes addresses
\* that only begin alike, and colleagues may have the same name.  It may be the
\* mail of somebody whose address begins like it only where the domain has a
\* capital: there no address in lower case is found as it is.
MailsKeepTheirPeople ==
    \A row \in { x \in rows : x.section = "emails" } :
        LET g == Generated[row.of]
            m == g.mails[row.no]
        IN  /\ OfEmployee(g, m.from) => MayGet(g, row.item.sender, m.from)
            /\ \A j \in DOMAIN m.to :
                 OfEmployee(g, m.to[j]) => MayGet(g, row.item.recipients[j], m.to[j])
=============================================================================
