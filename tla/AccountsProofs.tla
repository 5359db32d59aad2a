--------------------------- MODULE AccountsProofs ---------------------------
(***************************************************************************)
(* That the properties of Accounts hold for any number of requests,        *)
(* accounts and logins, and any lockout.  The lockout rests on Counted:    *)
(* as long as no commit of a login has met a counter or a lock that        *)
(* changed after it was read, the column counts the failures in a row.     *)
(***************************************************************************)
EXTENDS Accounts, TLAPS

Columns == {"email", "role", "active", "pw", "must", "attempts", "locked"}

IsRow(u) == DOMAIN u = Columns /\ u.attempts \in Nat

Kinds == {"change", "admin_reset", "update", "login", "reset"}

\* The types that the proof needs.
Typed ==
    /\ clock \in Nat
    /\ made \in Nat
    /\ DOMAIN users \subseteq 1..made
    /\ made <= MaxAccounts
    /\ \A i \in DOMAIN users : IsRow(users[i])
    /\ failures \in [Ids -> Nat]
    /\ failedAt \in [Ids -> Nat]
    /\ DOMAIN job = Requests

JobsTyped ==
    \A r \in Requests :
        /\ DOMAIN job[r] = {"step", "kind", "email", "id", "actor", "ok", "set", "read"}
        /\ \A u \in job[r].read : IsRow(u)

\* No login of an account fails before it is made.
NoneYet == \A i \in Ids : i > made => failures[i] = 0

\* The counter of a row counts, and the lock is that of the last failure.
Counted ==
    lost \cap {"attempts", "locked"} = {} =>
        \A i \in DOMAIN users :
            /\ users[i].attempts = failures[i]
            /\ failures[i] >= MaxAttempts => users[i].locked = failedAt[i] + LockTime

IInv ==
    /\ Typed /\ JobsTyped /\ NoneYet /\ Counted
    /\ OneAccountPerEmail /\ GivenMustBeChanged

-----------------------------------------------------------------------------
(* What a commit does to a row.                                            *)

\* The columns that a request sets.
LEMMA SetsOf ==
    ASSUME NEW q, q.kind \in Kinds
    PROVE  /\ "email" \notin Sets(q)
           /\ q.kind = "login" => Sets(q) = {"attempts", "locked"}
           /\ q.kind # "login" => Sets(q) \cap {"attempts", "locked"} = {}
           /\ q.kind \in {"change", "reset", "admin_reset"} => Sets(q) = {"pw", "must"}
           /\ q.kind \in {"login", "update"} => Sets(q) \cap {"pw", "must"} = {}
  BY DEF Sets, Kinds

\* The other columns stay, whatever else was written to the row meanwhile.
LEMMA SavedKeepsOthers ==
    ASSUME NEW row, NEW was, NEW q, IsRow(row), q.kind \in Kinds
    PROVE  /\ DOMAIN Saved(row, was, q) = Columns
           /\ \A c \in Columns \ Sets(q) : Saved(row, was, q)[c] = row[c]
  BY DEF Saved, IsRow

\* A login that meets the counter and the lock that it read sets them as it
\* means to; and the counter stays a number in any case.
LEMMA SavedLogin ==
    ASSUME NEW row, NEW was, NEW q, IsRow(row), IsRow(was), q.kind = "login"
    PROVE  /\ Saved(row, was, q).attempts \in Nat
           /\ row.attempts = was.attempts /\ row.locked = was.locked =>
                /\ Saved(row, was, q).attempts = IF q.ok THEN 0 ELSE was.attempts + 1
                /\ ~q.ok /\ was.attempts + 1 >= MaxAttempts => Saved(row, was, q).locked = clock + LockTime
<1>1. q.kind \in Kinds
  BY DEF Kinds
<1>2. Sets(q) = {"attempts", "locked"}
  BY <1>1, SetsOf
<1>3. /\ Saved(row, was, q).attempts \in {row.attempts, Wanted(q, was).attempts}
      /\ row.attempts = was.attempts => Saved(row, was, q).attempts = Wanted(q, was).attempts
      /\ row.locked = was.locked => Saved(row, was, q).locked = Wanted(q, was).locked
  BY <1>2 DEF Saved, IsRow, Columns
<1>4. Wanted(q, was) = IF q.ok THEN LoginSucceeded(was) ELSE LoginFailed(was)
  BY DEF Wanted
<1>5. CASE q.ok
  <2>1. Wanted(q, was).attempts = 0
    BY <1>4, <1>5 DEF LoginSucceeded, IsRow, Columns
  <2>2. QED
    BY <1>3, <1>5, <2>1 DEF IsRow
<1>6. CASE ~q.ok
  <2>1. /\ Wanted(q, was).attempts = was.attempts + 1
        /\ was.attempts + 1 >= MaxAttempts => Wanted(q, was).locked = clock + LockTime
    BY <1>4, <1>6 DEF LoginFailed, IsRow, Columns
  <2>2. QED
    BY <1>3, <1>6, <2>1 DEF IsRow
<1>7. QED
  BY <1>5, <1>6

\* A commit that met the password that was read leaves a given one to be
\* changed.
LEMMA SavedPassword ==
    ASSUME NEW row, NEW was, NEW q, IsRow(row), IsRow(was),
           q.kind \in {"change", "reset", "admin_reset"}, row.must = was.must,
           Saved(row, was, q).pw = "given"
    PROVE  Saved(row, was, q).must
<1>0. q.kind \in Kinds
  BY DEF Kinds
<1>1. Sets(q) = {"pw", "must"}
  BY <1>0, SetsOf
<1>2. /\ Saved(row, was, q).pw = Wanted(q, was).pw
      /\ Saved(row, was, q).must = Wanted(q, was).must
  BY <1>1 DEF Saved, IsRow, Columns
<1>3. CASE q.kind \in {"change", "reset"}
  <2>1. Wanted(q, was) = OwnPassword(was)
    BY <1>3 DEF Wanted
  <2>2. Wanted(q, was).pw = "own"
    BY <2>1 DEF OwnPassword, IsRow, Columns
  <2>3. QED
    BY <1>2, <2>2
<1>4. CASE q.kind = "admin_reset"
  <2>1. Wanted(q, was) = GivenPassword(was)
    BY <1>4 DEF Wanted
  <2>2. Wanted(q, was).must = TRUE
    BY <2>1 DEF GivenPassword, IsRow, Columns
  <2>3. QED
    BY <1>2, <2>2
<1>5. QED
  BY <1>3, <1>4

-----------------------------------------------------------------------------
(* The requests keep rows as they read them.                               *)

\* The next request starts with no row read.
LEMMA BeginJobs ==
    ASSUME NEW r \in Requests, Begin(r), Typed, JobsTyped
    PROVE  JobsTyped' /\ DOMAIN job' = Requests
<1>1. PICK q \in Asked : job' = [job EXCEPT ![r] = q]
  BY DEF Begin
<1>2. /\ DOMAIN q = {"step", "kind", "email", "id", "actor", "ok", "set", "read"}
      /\ q.read = {}
  BY <1>1, SMTT(60) DEF Asked, Ask
<1>3. QED
  BY <1>1, <1>2 DEF JobsTyped, Typed

LEMMA FinishJobs ==
    ASSUME NEW r \in Requests, Finish(r), Typed, JobsTyped
    PROVE  JobsTyped' /\ DOMAIN job' = Requests
  BY DEF Finish, Idle, JobsTyped, Typed

LEMMA GotoJobs ==
    ASSUME NEW r \in Requests, NEW s, Goto(r, s), Typed, JobsTyped
    PROVE  JobsTyped' /\ DOMAIN job' = Requests
<1>1. DOMAIN job' = Requests
  BY DEF Goto, Typed
<1>2. ASSUME NEW x \in Requests
      PROVE  DOMAIN job'[x] = DOMAIN job[x] /\ job'[x].read = job[x].read
  BY DEF Goto, JobsTyped, Typed
<1>3. QED
  BY <1>1, <1>2 DEF JobsTyped

\* A job whose step, account and row read are set, the row being IsRow.
LEMMA ReadJobs ==
    ASSUME NEW r \in Requests, NEW q, Typed, JobsTyped, job' = [job EXCEPT ![r] = q],
           DOMAIN q = {"step", "kind", "email", "id", "actor", "ok", "set", "read"},
           \A u \in q.read : IsRow(u)
    PROVE  JobsTyped' /\ DOMAIN job' = Requests
<1>1. DOMAIN job' = Requests
  BY DEF Typed
<1>2. ASSUME NEW x \in Requests
      PROVE  job'[x] = IF x = r THEN q ELSE job[x]
  BY DEF Typed
<1>3. QED
  BY <1>1, <1>2 DEF JobsTyped

LEMMA GotoCommitJobs ==
    ASSUME NEW r \in Requests, NEW i \in DOMAIN users, GotoCommit(r, i), Typed, JobsTyped
    PROVE  JobsTyped' /\ DOMAIN job' = Requests
<1> DEFINE q == [job[r] EXCEPT !.step = "commit", !.id = i, !.read = {users[i]}]
<1>1. job' = [job EXCEPT ![r] = q]
  BY DEF GotoCommit, Typed
<1>2. /\ DOMAIN q = {"step", "kind", "email", "id", "actor", "ok", "set", "read"}
      /\ q.read = {users[i]}
  BY DEF JobsTyped
<1>3. \A u \in q.read : IsRow(u)
  BY <1>2 DEF Typed
<1> HIDE DEF q
<1>4. QED
  BY <1>1, <1>2, <1>3, ReadJobs

\* A step that changes the jobs, and no table.
LEMMA OnlyJobs ==
    ASSUME IInv, UNCHANGED <<users, tokens, made, others>>, JobsTyped', DOMAIN job' = Requests
    PROVE  IInv'
<1>1. /\ users' = users /\ made' = made /\ clock' = clock
      /\ failures' = failures /\ failedAt' = failedAt /\ lost' = lost
  BY DEF others
<1>2. Typed'
  BY <1>1 DEF IInv, Typed
<1>3. NoneYet' /\ Counted'
  BY <1>1 DEF IInv, NoneYet, Counted
<1>4. OneAccountPerEmail' /\ GivenMustBeChanged'
  BY <1>1 DEF IInv, OneAccountPerEmail, GivenMustBeChanged
<1>5. QED
  BY <1>2, <1>3, <1>4 DEF IInv

LEMMA Finishing ==
    ASSUME NEW r \in Requests, IInv, Finish(r), UNCHANGED <<users, tokens, made, others>>
    PROVE  IInv'
<1>1. Typed /\ JobsTyped
  BY DEF IInv
<1>2. QED
  BY <1>1, FinishJobs, OnlyJobs

LEMMA Going ==
    ASSUME NEW r \in Requests, NEW s, IInv, Goto(r, s), UNCHANGED <<users, tokens, made, others>>
    PROVE  IInv'
<1>1. Typed /\ JobsTyped
  BY DEF IInv
<1>2. QED
  BY <1>1, GotoJobs, OnlyJobs

LEMMA Reading ==
    ASSUME NEW r \in Requests, NEW i \in DOMAIN users, IInv, GotoCommit(r, i),
           UNCHANGED <<users, tokens, made, others>>
    PROVE  IInv'
<1>1. Typed /\ JobsTyped
  BY DEF IInv
<1>2. QED
  BY <1>1, GotoCommitJobs, OnlyJobs

-----------------------------------------------------------------------------
(* The steps.                                                              *)

LEMMA BeginIInv ==
    ASSUME IInv, NEW r \in Requests, Begin(r)
    PROVE  IInv'
<1>1. Typed /\ JobsTyped
  BY DEF IInv
<1>2. JobsTyped' /\ DOMAIN job' = Requests
  BY <1>1, BeginJobs
<1>3. /\ users' = users /\ made' = made /\ clock' = clock
      /\ failures' = failures /\ failedAt' = failedAt /\ lost' = lost
  BY DEF Begin
<1>4. Typed'
  BY <1>1, <1>2, <1>3 DEF Typed
<1>5. NoneYet' /\ Counted'
  BY <1>3 DEF IInv, NoneYet, Counted
<1>6. OneAccountPerEmail' /\ GivenMustBeChanged'
  BY <1>3 DEF IInv, OneAccountPerEmail, GivenMustBeChanged
<1>7. QED
  BY <1>2, <1>4, <1>5, <1>6 DEF IInv

LEMMA AuthenticateIInv ==
    ASSUME IInv, NEW r \in Requests, Authenticate(r)
    PROVE  IInv'
<1>1. UNCHANGED <<users, tokens, made, others>>
  BY DEF Authenticate
<1>2. \/ Finish(r)
      \/ Goto(r, "look")
      \/ job[r].actor \in DOMAIN users /\ GotoCommit(r, job[r].actor)
  <2>1. MayAct(job[r]) => job[r].actor \in DOMAIN users
    BY DEF MayAct
  <2>2. QED
    BY <2>1 DEF Authenticate
<1>3. QED
  BY <1>1, <1>2, Finishing, Going, Reading

LEMMA LookForEmailIInv ==
    ASSUME IInv, NEW r \in Requests, LookForEmail(r)
    PROVE  IInv'
<1>1. UNCHANGED <<users, tokens, made, others>>
  BY DEF LookForEmail
<1>2. Finish(r) \/ Goto(r, "insert")
  BY DEF LookForEmail
<1>3. QED
  BY <1>1, <1>2, Finishing, Going

LEMMA LookForLoginIInv ==
    ASSUME IInv, NEW r \in Requests, LookForLogin(r)
    PROVE  IInv'
<1>1. UNCHANGED <<users, tokens, made, others>>
  BY DEF LookForLogin
<1>2. Finish(r) \/ \E i \in DOMAIN users : GotoCommit(r, i)
  BY DEF LookForLogin, WithEmail
<1>3. QED
  BY <1>1, <1>2, Finishing, Reading

LEMMA LookForForgottenIInv ==
    ASSUME IInv, NEW r \in Requests, LookForForgotten(r)
    PROVE  IInv'
<1>0. Typed /\ JobsTyped
  BY DEF IInv
<1>1. UNCHANGED <<users, tokens, made, others>>
  BY DEF LookForForgotten
<1>2. CASE Finish(r)
  BY <1>1, <1>2, Finishing
<1>3. ASSUME NEW i, job' = [job EXCEPT ![r].step = "issue", ![r].id = i]
      PROVE  IInv'
  <2> DEFINE q == [job[r] EXCEPT !.step = "issue", !.id = i]
  <2>1. job' = [job EXCEPT ![r] = q]
    BY <1>0, <1>3 DEF Typed
  <2>2. /\ DOMAIN q = {"step", "kind", "email", "id", "actor", "ok", "set", "read"}
        /\ q.read = job[r].read
    BY <1>0 DEF JobsTyped
  <2>3. \A u \in q.read : IsRow(u)
    BY <1>0, <2>2 DEF JobsTyped
  <2> HIDE DEF q
  <2>4. QED
    BY <1>0, <1>1, <2>1, <2>2, <2>3, ReadJobs, OnlyJobs
<1>4. QED
  BY <1>2, <1>3 DEF LookForForgotten

LEMMA LookForTokenIInv ==
    ASSUME IInv, NEW r \in Requests, LookForToken(r)
    PROVE  IInv'
<1>0. Typed /\ JobsTyped
  BY DEF IInv
<1>1. UNCHANGED <<users, tokens, made, others>>
  BY DEF LookForToken
<1>2. CASE Finish(r)
  BY <1>1, <1>2, Finishing
<1>3. ASSUME NEW i \in DOMAIN users,
             job' = [job EXCEPT ![r].step = "commit", ![r].read = {users[i]}]
      PROVE  IInv'
  <2> DEFINE q == [job[r] EXCEPT !.step = "commit", !.read = {users[i]}]
  <2>1. job' = [job EXCEPT ![r] = q]
    BY <1>0, <1>3 DEF Typed
  <2>2. /\ DOMAIN q = {"step", "kind", "email", "id", "actor", "ok", "set", "read"}
        /\ q.read = {users[i]}
    BY <1>0 DEF JobsTyped
  <2>3. \A u \in q.read : IsRow(u)
    BY <1>0, <1>3, <2>2 DEF Typed
  <2> HIDE DEF q
  <2>4. QED
    BY <1>0, <1>1, <2>1, <2>2, <2>3, ReadJobs, OnlyJobs
<1>4. QED
  BY <1>2, <1>3 DEF LookForToken

LEMMA LookForTargetIInv ==
    ASSUME IInv, NEW r \in Requests, LookForTarget(r)
    PROVE  IInv'
<1>1. UNCHANGED <<users, tokens, made, others>>
  BY DEF LookForTarget
<1>2. Finish(r) \/ (job[r].id \in DOMAIN users /\ GotoCommit(r, job[r].id))
  BY DEF LookForTarget
<1>3. QED
  BY <1>1, <1>2, Finishing, Reading

LEMMA IssueIInv ==
    ASSUME IInv, NEW r \in Requests, Issue(r)
    PROVE  IInv'
<1>1. Typed /\ JobsTyped
  BY DEF IInv
<1>2. JobsTyped' /\ DOMAIN job' = Requests
  BY <1>1, FinishJobs DEF Issue
<1>3. /\ users' = users /\ made' = made /\ clock' = clock
      /\ failures' = failures /\ failedAt' = failedAt /\ lost' = lost
  BY DEF Issue, others
<1>4. Typed'
  BY <1>1, <1>2, <1>3 DEF Typed
<1>5. NoneYet' /\ Counted'
  BY <1>3 DEF IInv, NoneYet, Counted
<1>6. OneAccountPerEmail' /\ GivenMustBeChanged'
  BY <1>3 DEF IInv, OneAccountPerEmail, GivenMustBeChanged
<1>7. QED
  BY <1>2, <1>4, <1>5, <1>6 DEF IInv

\* The account made has no failed login, a password to be changed, and an
\* address of its own.
LEMMA InsertIInv ==
    ASSUME IInv, NEW r \in Requests, Insert(r)
    PROVE  IInv'
<1>1. Typed /\ JobsTyped
  BY DEF IInv
<1>2. JobsTyped' /\ DOMAIN job' = Requests
  BY <1>1, FinishJobs DEF Insert
<1>3. CASE users' = users /\ made' = made
  BY <1>2, <1>3, OnlyJobs DEF Insert
<1>4. CASE /\ WithEmail(job[r].email) = {}
           /\ made < MaxAccounts
           /\ made' = made + 1
           /\ users' = [i \in DOMAIN users \cup {made'} |-> IF i = made' THEN NewAccount(job[r]) ELSE users[i]]
  <2> DEFINE new == NewAccount(job[r])
  <2>1. /\ DOMAIN new = Columns /\ new.email = job[r].email
        /\ new.must = TRUE /\ new.attempts = 0
    BY DEF NewAccount, Account, Columns
  <2>2. /\ clock' = clock /\ failures' = failures /\ failedAt' = failedAt /\ lost' = lost
    BY DEF Insert, others
  <2>3. /\ DOMAIN users' = DOMAIN users \cup {made + 1}
        /\ made + 1 \notin DOMAIN users
        /\ users'[made + 1] = new
        /\ \A i \in DOMAIN users : users'[i] = users[i]
    BY <1>1, <1>4 DEF Typed
  <2> HIDE DEF new
  <2>4. made + 1 \in Ids /\ failures[made + 1] = 0
    BY <1>1, <1>4, AccountsAssumption DEF IInv, Typed, NoneYet, Ids
  <2>5. Typed'
    <3>1. IsRow(new)
      BY <2>1 DEF IsRow
    <3>2. \A i \in DOMAIN users' : IsRow(users'[i])
      BY <1>1, <2>3, <3>1 DEF Typed
    <3>3. made' \in Nat /\ made' <= MaxAccounts /\ DOMAIN users' \subseteq 1..made'
      BY <1>1, <1>4, <2>3, AccountsAssumption DEF Typed
    <3>4. QED
      BY <1>1, <1>2, <2>2, <3>2, <3>3 DEF Typed
  <2>6. NoneYet'
    BY <1>1, <1>4, <2>2 DEF IInv, NoneYet, Typed, Ids
  <2>7. Counted'
    <3>1. SUFFICES ASSUME lost \cap {"attempts", "locked"} = {}, NEW i \in DOMAIN users'
                   PROVE  /\ users'[i].attempts = failures[i]
                          /\ failures[i] >= MaxAttempts => users'[i].locked = failedAt[i] + LockTime
      BY <2>2 DEF Counted
    <3>2. CASE i \in DOMAIN users
      BY <2>3, <3>1, <3>2 DEF IInv, Counted
    <3>3. CASE i = made + 1
      BY <2>1, <2>3, <2>4, <3>3, AccountsAssumption
    <3>4. QED
      BY <2>3, <3>2, <3>3
  <2>8. OneAccountPerEmail'
    BY <1>4, <2>1, <2>3 DEF IInv, OneAccountPerEmail, WithEmail
  <2>9. GivenMustBeChanged'
    BY <2>1, <2>2, <2>3 DEF IInv, GivenMustBeChanged
  <2>10. QED
    BY <1>2, <2>5, <2>6, <2>7, <2>8, <2>9 DEF IInv
<1>5. QED
  BY <1>3, <1>4 DEF Insert

LEMMA DeleteIInv ==
    ASSUME IInv, NEW r \in Requests, Delete(r)
    PROVE  IInv'
<1>1. Typed /\ JobsTyped
  BY DEF IInv
<1>2. JobsTyped' /\ DOMAIN job' = Requests
  BY <1>1, FinishJobs DEF Delete
<1>3. /\ made' = made /\ clock' = clock
      /\ failures' = failures /\ failedAt' = failedAt /\ lost' = lost
  BY DEF Delete, others
<1>4. /\ DOMAIN users' \subseteq DOMAIN users
      /\ \A i \in DOMAIN users' : users'[i] = users[i]
  BY DEF Delete
<1>5. Typed'
  BY <1>1, <1>2, <1>3, <1>4 DEF Typed
<1>6. NoneYet' /\ Counted'
  BY <1>3, <1>4 DEF IInv, NoneYet, Counted
<1>7. OneAccountPerEmail' /\ GivenMustBeChanged'
  BY <1>3, <1>4 DEF IInv, OneAccountPerEmail, GivenMustBeChanged
<1>8. QED
  BY <1>2, <1>5, <1>6, <1>7 DEF IInv

LEMMA TickIInv ==
    ASSUME IInv, Tick
    PROVE  IInv'
<1>1. clock' = clock + 1
  BY DEF Tick
<1>2. /\ users' = users /\ made' = made /\ job' = job
      /\ failures' = failures /\ failedAt' = failedAt /\ lost' = lost
  BY DEF Tick
<1>3. Typed'
  BY <1>1, <1>2 DEF IInv, Typed
<1>4. JobsTyped'
  BY <1>2 DEF IInv, JobsTyped
<1>5. NoneYet' /\ Counted'
  BY <1>2 DEF IInv, NoneYet, Counted
<1>6. OneAccountPerEmail' /\ GivenMustBeChanged'
  BY <1>2 DEF IInv, OneAccountPerEmail, GivenMustBeChanged
<1>7. QED
  BY <1>3, <1>4, <1>5, <1>6 DEF IInv

\* A commit.  In the account that it writes, a login sets the counter and the
\* lock, which it finds as it read them unless they are lost; the others leave
\* both alone.
LEMMA CommitIInv ==
    ASSUME IInv, NEW r \in Requests, Commit(r)
    PROVE  IInv'
<1> DEFINE q == job[r]
           i == Target(q)
<1>1. Typed /\ JobsTyped
  BY DEF IInv
<1>2. JobsTyped' /\ DOMAIN job' = Requests
  BY <1>1, FinishJobs DEF Commit
<1>3. /\ clock' = clock /\ made' = made
      /\ q.kind \in Kinds
  BY DEF Commit, At, Kinds
<1>4. CASE i \notin DOMAIN users
  <2>1. /\ users' = users /\ failures' = failures /\ failedAt' = failedAt /\ lost' = lost
    BY <1>4 DEF Commit
  <2>2. Typed'
    BY <1>1, <1>2, <1>3, <2>1 DEF Typed
  <2>3. NoneYet' /\ Counted'
    BY <1>3, <2>1 DEF IInv, NoneYet, Counted
  <2>4. OneAccountPerEmail' /\ GivenMustBeChanged'
    BY <1>3, <2>1 DEF IInv, OneAccountPerEmail, GivenMustBeChanged
  <2>5. QED
    BY <1>2, <2>2, <2>3, <2>4 DEF IInv
<1>5. CASE i \in DOMAIN users
  <2>1. PICK was \in q.read :
          /\ users' = [users EXCEPT ![i] = Saved(@, was, q)]
          /\ lost' = lost \cup { c \in Sets(q) : users[i][c] # was[c] }
          /\ IF q.kind = "login"
             THEN /\ failures' = [failures EXCEPT ![i] = IF q.ok THEN 0 ELSE @ + 1]
                  /\ failedAt' = [failedAt EXCEPT ![i] = IF q.ok THEN 0 ELSE clock]
             ELSE failures' = failures /\ failedAt' = failedAt
    BY <1>5 DEF Commit
  <2> DEFINE row == users[i]
             new == Saved(row, was, q)
  <2>2. IsRow(row) /\ IsRow(was)
    BY <1>1, <1>5 DEF Typed, JobsTyped
  <2>3. /\ DOMAIN users' = DOMAIN users
        /\ users'[i] = new
        /\ \A j \in DOMAIN users : j # i => users'[j] = users[j]
    BY <1>5, <2>1
  <2>4. i \in Ids /\ i <= made
    BY <1>1, <1>5, AccountsAssumption DEF Typed, Ids
  <2>5. /\ \A j \in Ids : j # i => failures'[j] = failures[j] /\ failedAt'[j] = failedAt[j]
        /\ failures' \in [Ids -> Nat] /\ failedAt' \in [Ids -> Nat]
        /\ q.kind = "login" =>
             /\ failures'[i] = IF q.ok THEN 0 ELSE failures[i] + 1
             /\ failedAt'[i] = IF q.ok THEN 0 ELSE clock
        /\ q.kind # "login" => failures'[i] = failures[i] /\ failedAt'[i] = failedAt[i]
    BY <1>1, <2>1, <2>4 DEF Typed
  <2>6. /\ DOMAIN new = Columns
        /\ \A c \in Columns \ Sets(q) : new[c] = row[c]
        /\ "email" \notin Sets(q)
        /\ q.kind = "login" => Sets(q) = {"attempts", "locked"}
        /\ q.kind # "login" => Sets(q) \cap {"attempts", "locked"} = {}
        /\ q.kind \in {"change", "reset", "admin_reset"} => Sets(q) = {"pw", "must"}
        /\ q.kind \in {"login", "update"} => Sets(q) \cap {"pw", "must"} = {}
    <3>1. /\ DOMAIN new = Columns
          /\ \A c \in Columns \ Sets(q) : new[c] = row[c]
      BY <1>3, <2>2, SavedKeepsOthers
    <3> HIDE DEF new, row, q
    <3>2. QED
      BY <1>3, <3>1, SetsOf
  <2>7. q.kind = "login" =>
          /\ new.attempts \in Nat
          /\ row.attempts = was.attempts /\ row.locked = was.locked =>
               /\ new.attempts = IF q.ok THEN 0 ELSE was.attempts + 1
               /\ ~q.ok /\ was.attempts + 1 >= MaxAttempts => new.locked = clock + LockTime
    BY <2>2, SavedLogin
  <2>8. q.kind \in {"change", "reset", "admin_reset"} /\ row.must = was.must /\ new.pw = "given" => new.must
    BY <2>2, SavedPassword
  <2>9. \A c \in Sets(q) : c \notin lost' => row[c] = was[c]
    BY <2>1
  <2>10. lost \subseteq lost'
    BY <2>1
  <2> HIDE DEF new, row, i, q
  <2>11. new.email = row.email
    BY <2>6 DEF Columns
  <2>12. IsRow(new)
    <3>1. CASE q.kind = "login"
      BY <2>6, <2>7, <3>1 DEF IsRow
    <3>2. CASE q.kind # "login"
      BY <2>2, <2>6, <3>2 DEF IsRow, Columns
    <3>3. QED
      BY <3>1, <3>2
  <2>13. Typed'
    <3>1. \A j \in DOMAIN users' : IsRow(users'[j])
      BY <1>1, <2>3, <2>12 DEF Typed
    <3>2. QED
      BY <1>1, <1>2, <1>3, <2>3, <2>5, <3>1 DEF Typed
  <2>14. NoneYet'
    <3>1. ASSUME NEW j \in Ids, j > made
          PROVE  failures'[j] = 0
      <4>1. j # i
        BY <1>1, <2>4, <3>1 DEF Typed, Ids
      <4>2. QED
        BY <2>5, <3>1, <4>1 DEF IInv, NoneYet
    <3>2. QED
      BY <1>3, <3>1 DEF NoneYet
  <2>15. Counted'
    <3>1. SUFFICES ASSUME lost' \cap {"attempts", "locked"} = {}, NEW j \in DOMAIN users
                   PROVE  /\ users'[j].attempts = failures'[j]
                          /\ failures'[j] >= MaxAttempts => users'[j].locked = failedAt'[j] + LockTime
      BY <2>3 DEF Counted
    <3>2. /\ users[j].attempts = failures[j]
          /\ failures[j] >= MaxAttempts => users[j].locked = failedAt[j] + LockTime
      BY <2>10, <3>1 DEF IInv, Counted
    <3>3. j \in Ids
      BY <1>1, AccountsAssumption DEF Typed, Ids
    <3>4. CASE j # i
      BY <2>3, <2>5, <3>2, <3>3, <3>4
    <3>5. CASE j = i /\ q.kind # "login"
      <4>1. new.attempts = row.attempts /\ new.locked = row.locked
        BY <2>6, <3>5 DEF Columns
      <4>2. QED
        BY <2>3, <2>5, <3>2, <3>5, <4>1 DEF row
    <3>6. CASE j = i /\ q.kind = "login"
      <4>1. row.attempts = was.attempts /\ row.locked = was.locked
        BY <2>6, <2>9, <3>1, <3>6
      <4>2. was.attempts = failures[i]
        BY <3>2, <3>6, <4>1 DEF row
      <4>3. CASE q.ok
        BY <2>3, <2>5, <2>7, <3>6, <4>1, <4>3, AccountsAssumption
      <4>4. CASE ~q.ok
        BY <2>3, <2>5, <2>7, <3>6, <4>1, <4>2, <4>4
      <4>5. QED
        BY <4>3, <4>4
    <3>7. QED
      BY <3>4, <3>5, <3>6
  <2>16. OneAccountPerEmail'
    <3>1. \A j \in DOMAIN users : users'[j].email = users[j].email
      BY <2>3, <2>11 DEF row
    <3>2. QED
      BY <2>3, <3>1 DEF IInv, OneAccountPerEmail
  <2>17. GivenMustBeChanged'
    <3>1. SUFFICES ASSUME lost' \cap {"pw", "must"} = {}, NEW j \in DOMAIN users, users'[j].pw = "given"
                   PROVE  users'[j].must
      BY <2>3 DEF GivenMustBeChanged
    <3>2. users[j].pw = "given" => users[j].must
      BY <2>10, <3>1 DEF IInv, GivenMustBeChanged
    <3>3. CASE j # i
      BY <2>3, <3>1, <3>2, <3>3
    <3>4. CASE j = i /\ q.kind \in {"login", "update"}
      <4>1. new.pw = row.pw /\ new.must = row.must
        BY <2>6, <3>4 DEF Columns
      <4>2. QED
        BY <2>3, <3>1, <3>2, <3>4, <4>1 DEF row
    <3>5. CASE j = i /\ q.kind \in {"change", "reset", "admin_reset"}
      <4>1. row.must = was.must
        BY <2>6, <2>9, <3>1, <3>5
      <4>2. QED
        BY <2>3, <2>8, <3>1, <3>5, <4>1
    <3>6. QED
      BY <1>3, <3>3, <3>4, <3>5 DEF Kinds, q
  <2>18. QED
    BY <1>2, <2>13, <2>14, <2>15, <2>16, <2>17 DEF IInv
<1>6. QED
  BY <1>4, <1>5

-----------------------------------------------------------------------------
(* The theorems.                                                           *)

LEMMA InitIInv == Init => IInv
<1> SUFFICES ASSUME Init PROVE IInv
  OBVIOUS
<1>1. /\ made \in {1, 2} /\ DOMAIN users = 1..made
      /\ \A i \in DOMAIN users : \E e, role, pw : users[i] = Account(e, role, pw)
      /\ \A i, j \in DOMAIN users : users[i].email = users[j].email => i = j
  <2>1. CASE users = << Account("admin", "admin", "given") >>
    BY <2>1 DEF Init
  <2>2. ASSUME NEW e \in Emails,
               users = << Account("admin", "admin", "given"), Account(e, "user", "own") >>
        PROVE  <1>1!:
    <3>1. made = 2 /\ DOMAIN users = 1..2
      BY <2>2 DEF Init
    <3>2. /\ users[1] = Account("admin", "admin", "given")
          /\ users[2] = Account(e, "user", "own")
      BY <2>2
    <3>3. users[1].email = "admin" /\ users[2].email = e
      BY <3>2 DEF Account
    <3>4. e # "admin"
      BY AccountsAssumption
    <3>5. QED
      BY <3>1, <3>2, <3>3, <3>4
  <2>3. QED
    BY <2>1, <2>2 DEF Init
<1>2. \A i \in DOMAIN users :
        /\ DOMAIN users[i] = Columns
        /\ users[i].attempts = 0 /\ users[i].must = TRUE
  BY <1>1 DEF Account, Columns
<1>3. Typed
  BY <1>1, <1>2, AccountsAssumption DEF Init, Typed, IsRow
<1>4. JobsTyped
  BY DEF Init, Idle, JobsTyped
<1>5. NoneYet
  BY DEF Init, NoneYet
<1>6. Counted
  BY <1>2, <1>3, AccountsAssumption DEF Init, Counted, Typed, Ids
<1>7. OneAccountPerEmail /\ GivenMustBeChanged
  BY <1>1, <1>2 DEF OneAccountPerEmail, GivenMustBeChanged
<1>8. QED
  BY <1>3, <1>4, <1>5, <1>6, <1>7 DEF IInv

LEMMA NextIInv == IInv /\ [Next]_vars => IInv'
<1> SUFFICES ASSUME IInv, [Next]_vars PROVE IInv'
  OBVIOUS
<1>1. ASSUME NEW r \in Requests,
             Begin(r) \/ Authenticate(r) \/ Look(r) \/ Insert(r) \/ Issue(r) \/ Commit(r) \/ Delete(r)
      PROVE  IInv'
  BY <1>1, BeginIInv, AuthenticateIInv, LookForEmailIInv, LookForLoginIInv, LookForForgottenIInv,
     LookForTokenIInv, LookForTargetIInv, InsertIInv, IssueIInv, CommitIInv, DeleteIInv DEF Look
<1>2. CASE Tick
  BY <1>2, TickIInv
<1>3. CASE UNCHANGED vars
  <2>1. UNCHANGED <<users, tokens, made, others>> /\ job' = job
    BY <1>3 DEF vars, others
  <2>2. JobsTyped' /\ DOMAIN job' = Requests
    BY <2>1 DEF IInv, Typed, JobsTyped
  <2>3. QED
    BY <2>1, <2>2, OnlyJobs
<1>4. QED
  BY <1>1, <1>2, <1>3 DEF Next

\* The inductive invariant.
THEOREM IInvHolds == Spec => []IInv
<1>1. QED
  BY InitIInv, NextIInv, PTL DEF Spec

\* However many requests register an address, one account has it.
THEOREM OneAccountPerEmailAlways == Spec => []OneAccountPerEmail
<1>1. IInv => OneAccountPerEmail
  BY DEF IInv
<1>2. QED
  BY <1>1, IInvHolds, PTL

\* Failed logins lock the account, for any number of requests at a time.
THEOREM FailuresLockAlways == Spec => []FailuresLock
<1>1. IInv => FailuresLock
  BY DEF IInv, Counted, FailuresLock
<1>2. QED
  BY <1>1, IInvHolds, PTL

\* A password set by an administrator has to be changed.
THEOREM GivenMustBeChangedAlways == Spec => []GivenMustBeChanged
<1>1. IInv => GivenMustBeChanged
  BY DEF IInv
<1>2. QED
  BY <1>1, IInvHolds, PTL

\* A step makes no account but a new one.
LEMMA GoneStep ==
    IInv /\ [Next]_vars => [\A i \in 1..made : i \notin DOMAIN users => i \notin DOMAIN users']_vars
<1> SUFFICES ASSUME IInv, Next
             PROVE  \A i \in 1..made : i \notin DOMAIN users => i \notin DOMAIN users'
  OBVIOUS
<1>1. Typed
  BY DEF IInv
<1>2. ASSUME NEW r \in Requests, Insert(r)
      PROVE  DOMAIN users' \subseteq DOMAIN users \cup {made + 1}
  BY <1>2 DEF Insert
<1>3. ASSUME NEW r \in Requests, Commit(r)
      PROVE  DOMAIN users' = DOMAIN users
  BY <1>3 DEF Commit
<1>4. ASSUME NEW r \in Requests, Delete(r)
      PROVE  DOMAIN users' \subseteq DOMAIN users
  BY <1>4 DEF Delete
<1>5. ASSUME NEW r \in Requests, Begin(r) \/ Authenticate(r) \/ Look(r) \/ Issue(r)
      PROVE  users' = users
  BY <1>5 DEF Begin, Authenticate, Look, LookForEmail, LookForLogin, LookForForgotten,
     LookForToken, LookForTarget, Issue
<1>6. Tick => users' = users
  BY DEF Tick
<1>7. DOMAIN users' \subseteq DOMAIN users \cup {made + 1}
  BY <1>2, <1>3, <1>4, <1>5, <1>6 DEF Next
<1>8. QED
  BY <1>1, <1>7 DEF Typed

\* What is deleted stays deleted.
THEOREM GoneStaysGoneAlways == Spec => GoneStaysGone
<1>1. QED
  BY IInvHolds, GoneStep, PTL DEF Spec, GoneStaysGone
=============================================================================
