------------------------------ MODULE Accounts ------------------------------
(***************************************************************************)
(* User accounts: registration, login with its lockout, password changes   *)
(* and resets (api/auth.py, auth.py), and their administration             *)
(* (api/admin.py), by requests that run concurrently.                      *)
(*                                                                         *)
(* A request reads the rows it needs, decides, and commits; other requests *)
(* run in between.  A commit writes, of the columns the request has set,   *)
(* those whose value differs from the one it read, in the row as it is by  *)
(* then (Saved): SQLAlchemy's unit of work.  A request that the rate       *)
(* limiter or a validation refuses changes nothing, and is not modelled.   *)
(***************************************************************************)
EXTENDS Naturals, Sequences, FiniteSets, TLC

CONSTANTS Requests,     \* the requests that may be under way at a time
          Emails,       \* the addresses users register
          MaxAttempts,  \* auth.lockout.max_attempts
          LockTime,     \* auth.lockout.lockout_minutes
          TokenTime,    \* the life of a reset token
          MaxAccounts,  \* bound: accounts ever made
          MaxRequests,  \* bound: requests ever begun
          MaxTime       \* bound: the clock

ASSUME AccountsAssumption ==
    /\ {MaxAttempts, LockTime, TokenTime} \subseteq Nat \ {0}
    /\ {MaxAccounts, MaxRequests, MaxTime} \subseteq Nat
    /\ MaxAccounts >= 2
    /\ "admin" \notin Emails

VARIABLES
    clock,
    users,    \* the users table: a function from the ids of its rows
    tokens,   \* the reset_tokens table: its rows, in the order of their making
    job,      \* per request, what it asks for, its next step and the row it read
    begun,    \* how many requests have been begun
    made,     \* how many accounts have been made
    failures, \* history, per account: failed logins since the last success
    failedAt, \* history, per account: the time of the last one
    lost      \* history: the columns that a commit set though they had changed
              \* since it read them

vars == <<clock, users, tokens, job, begun, made, failures, failedAt, lost>>

\* What no step but Begin, Commit and Tick changes.
others == <<clock, begun, failures, failedAt, lost>>

Ids == 1..MaxAccounts

\* The columns of a row.  The password is known by who chose it: its owner, or
\* an administrator for the owner.
Account(email, role, pw) ==
    [email |-> email, role |-> role, active |-> TRUE, pw |-> pw, must |-> TRUE,
     attempts |-> 0, locked |-> 0]

WithEmail(e) == { i \in DOMAIN users : users[i].email = e }

-----------------------------------------------------------------------------
(* Requests.                                                               *)

Idle == [step |-> "idle", kind |-> "none", email |-> "none", id |-> 0, actor |-> 0,
         ok |-> FALSE, set |-> "none", read |-> {}]

\* A request of an account's token is authenticated, any other just begins.
Ask(kind, email, id, actor, ok, set) ==
    [step |-> IF actor = 0 THEN "look" ELSE "authenticate", kind |-> kind, email |-> email,
     id |-> id, actor |-> actor, ok |-> ok, set |-> set, read |-> {}]

Goto(r, s) == job' = [job EXCEPT ![r].step = s]
GotoCommit(r, i) == job' = [job EXCEPT ![r].step = "commit", ![r].id = i, ![r].read = {users[i]}]
Finish(r) == job' = [job EXCEPT ![r] = Idle]
At(r, s, kinds) == job[r].step = s /\ job[r].kind \in kinds

\* What may be asked for.  Whoever has had an account has a token of it, which
\* is not revoked when the account changes; ok: the password given is the one
\* of the row that is read.
Asked ==
    { Ask(k, e, 0, 0, FALSE, "none") : k \in {"register", "forgot"}, e \in Emails }
      \cup { Ask("login", e, 0, 0, ok, "none") : e \in Emails, ok \in BOOLEAN }
      \cup { Ask("reset", "none", t, 0, FALSE, "none") : t \in DOMAIN tokens }
      \cup { Ask("change", "none", 0, i, ok, "none") : i \in 1..made, ok \in BOOLEAN }
      \cup { Ask("create", e, 0, i, FALSE, role) : e \in Emails, i \in 1..made, role \in {"admin", "user"} }
      \cup { Ask(k, "none", j, i, FALSE, "none") : k \in {"delete", "admin_reset"}, i \in 1..made, j \in 1..made }
      \cup { Ask("update", "none", j, i, FALSE, set) :
               set \in {"admin", "user", "active", "inactive"}, i \in 1..made, j \in 1..made }

Begin(r) ==
    /\ job[r] = Idle
    /\ begun < MaxRequests
    /\ begun' = begun + 1
    /\ \E q \in Asked : job' = [job EXCEPT ![r] = q]
    /\ UNCHANGED <<clock, users, tokens, made, failures, failedAt, lost>>

\* get_current_user and require_admin: the account of the token must exist and
\* be active; the administration needs the role it has now.
MayAct(q) ==
    /\ q.actor \in DOMAIN users
    /\ users[q.actor].active
    /\ q.kind = "change" \/ users[q.actor].role = "admin"

Authenticate(r) ==
    /\ job[r].step = "authenticate"
    /\ \/ MayAct(job[r]) /\ job[r].kind # "change" /\ Goto(r, "look")
       \/ MayAct(job[r]) /\ job[r].kind = "change" /\ job[r].ok /\ GotoCommit(r, job[r].actor)
       \/ (MayAct(job[r]) => job[r].kind = "change" /\ ~job[r].ok) /\ Finish(r)
    /\ UNCHANGED <<users, tokens, made, others>>

\* register and create_user: is the address taken (409)?
LookForEmail(r) ==
    /\ At(r, "look", {"register", "create"})
    /\ IF WithEmail(job[r].email) # {} THEN Finish(r) ELSE Goto(r, "insert")
    /\ UNCHANGED <<users, tokens, made, others>>

NewAccount(q) ==
    IF q.kind = "create" THEN Account(q.email, q.set, "given") ELSE Account(q.email, "user", "own")

\* Mutant of Insert: the column is not unique.
InsertAnyway(r) ==
    /\ job[r].step = "insert"
    /\ made < MaxAccounts
    /\ made' = made + 1
    /\ users' = [i \in DOMAIN users \cup {made'} |-> IF i = made' THEN NewAccount(job[r]) ELSE users[i]]
    /\ Finish(r)
    /\ UNCHANGED <<tokens, others>>

\* The insert fails if another request has taken the address since.
Insert(r) ==
    /\ job[r].step = "insert"
    /\ \/ /\ WithEmail(job[r].email) # {}
          /\ UNCHANGED <<users, made>>
       \/ /\ WithEmail(job[r].email) = {}
          /\ made < MaxAccounts
          /\ made' = made + 1
          /\ users' = [i \in DOMAIN users \cup {made'} |-> IF i = made' THEN NewAccount(job[r]) ELSE users[i]]
    /\ Finish(r)
    /\ UNCHANGED <<tokens, others>>

\* login: no such account, a disabled one and a locked one are refused.
IsLocked(u) == u.locked # 0 /\ clock < u.locked

LookForLogin(r) ==
    /\ At(r, "look", {"login"})
    /\ \/ \E i \in WithEmail(job[r].email) : users[i].active /\ ~IsLocked(users[i]) /\ GotoCommit(r, i)
       \/ /\ \A i \in WithEmail(job[r].email) : ~users[i].active \/ IsLocked(users[i])
          /\ Finish(r)
    /\ UNCHANGED <<users, tokens, made, others>>

\* forgot_password: is there an account to issue a token for?
LookForForgotten(r) ==
    /\ At(r, "look", {"forgot"})
    /\ \/ WithEmail(job[r].email) = {} /\ Finish(r)
       \/ \E i \in WithEmail(job[r].email) : job' = [job EXCEPT ![r].step = "issue", ![r].id = i]
    /\ UNCHANGED <<users, tokens, made, others>>

Issue(r) ==
    /\ job[r].step = "issue"
    /\ tokens' = Append(tokens, [user |-> job[r].id, expires |-> clock + TokenTime, used |-> FALSE])
    /\ Finish(r)
    /\ UNCHANGED <<users, made, others>>

\* reset_password: the token, unused and unexpired, and its account.
Valid(t) == ~t.used /\ t.expires > clock

LookForToken(r) ==
    LET t == tokens[job[r].id] IN
    /\ At(r, "look", {"reset"})
    /\ IF Valid(t) /\ t.user \in DOMAIN users
       THEN job' = [job EXCEPT ![r].step = "commit", ![r].read = {users[t.user]}]
       ELSE Finish(r)
    /\ UNCHANGED <<users, tokens, made, others>>

\* The administration: the account must exist; one's own can neither be
\* deleted nor deactivated.
LookForTarget(r) ==
    LET q == job[r] IN
    /\ At(r, "look", {"update", "delete", "admin_reset"})
    /\ IF /\ q.id \in DOMAIN users
          /\ q.id = q.actor => (q.kind # "delete" /\ q.set # "inactive")
       THEN GotoCommit(r, q.id)
       ELSE Finish(r)
    /\ UNCHANGED <<users, tokens, made, others>>

-----------------------------------------------------------------------------
(* Commits.                                                                *)

\* Mutant of LoginFailed: the lock needs one failure more.
LoginFailedLate(u) ==
    [u EXCEPT !.attempts = @ + 1,
              !.locked = IF u.attempts + 1 > MaxAttempts THEN clock + LockTime ELSE @]

\* record_failed_login.
LoginFailed(u) ==
    [u EXCEPT !.attempts = @ + 1,
              !.locked = IF u.attempts + 1 >= MaxAttempts THEN clock + LockTime ELSE @]

\* reset_login_attempts.
LoginSucceeded(u) == [u EXCEPT !.attempts = 0, !.locked = 0]

OwnPassword(u) == [u EXCEPT !.pw = "own", !.must = FALSE]

\* Mutant of GivenPassword: the owner may keep the temporary password.
GivenPasswordToKeep(u) == [u EXCEPT !.pw = "given"]

\* admin_reset_password.
GivenPassword(u) == [u EXCEPT !.pw = "given", !.must = TRUE]

Updated(u, what) ==
    IF what \in {"active", "inactive"} THEN [u EXCEPT !.active = (what = "active")]
    ELSE [u EXCEPT !.role = what]

\* The row as the request means to leave it.
Wanted(q, u) ==
    CASE q.kind = "login" -> IF q.ok THEN LoginSucceeded(u) ELSE LoginFailed(u)
      [] q.kind \in {"change", "reset"} -> OwnPassword(u)
      [] q.kind = "admin_reset" -> GivenPassword(u)
      [] q.kind = "update" -> Updated(u, q.set)

\* The columns that the request sets.
Sets(q) ==
    CASE q.kind = "login" -> {"attempts", "locked"}
      [] q.kind \in {"change", "reset", "admin_reset"} -> {"pw", "must"}
      [] q.kind = "update" -> IF q.set \in {"active", "inactive"} THEN {"active"} ELSE {"role"}

\* Mutant of Saved: the whole row is written.
SavedWhole(row, was, q) == Wanted(q, was)

\* The row after the UPDATE: a new password is always a new hash, any other
\* column is written when it differs from what was read.
Saved(row, was, q) ==
    LET wanted == Wanted(q, was) IN
    [c \in DOMAIN row |->
        IF c \in Sets(q) /\ (c = "pw" \/ wanted[c] # was[c]) THEN wanted[c] ELSE row[c]]

Target(q) == IF q.kind = "reset" THEN tokens[q.id].user ELSE q.id

\* Mutant of Commit: a row that is gone is written anew (a merge).
CommitAnew(r) ==
    LET q == job[r] IN
    /\ At(r, "commit", {"change", "admin_reset", "update", "login", "reset"})
    /\ \E was \in q.read :
         LET row == IF Target(q) \in DOMAIN users THEN users[Target(q)] ELSE was
         IN  users' = (Target(q) :> Saved(row, was, q)) @@ users
    /\ Finish(r)
    /\ UNCHANGED <<tokens, made, others>>

\* The changes of a request are committed; the UPDATE of a row that is gone
\* fails, and with it the whole transaction.
Commit(r) ==
    LET q == job[r]
        i == Target(q)
    IN  /\ At(r, "commit", {"change", "admin_reset", "update", "login", "reset"})
        /\ IF i \in DOMAIN users
           THEN \E was \in q.read :
                  /\ users' = [users EXCEPT ![i] = Saved(@, was, q)]
                  /\ tokens' = IF q.kind = "reset" THEN [tokens EXCEPT ![q.id].used = TRUE] ELSE tokens
                  /\ lost' = lost \cup { c \in Sets(q) : users[i][c] # was[c] }
                  /\ IF q.kind = "login"
                     THEN /\ failures' = [failures EXCEPT ![i] = IF q.ok THEN 0 ELSE @ + 1]
                          /\ failedAt' = [failedAt EXCEPT ![i] = IF q.ok THEN 0 ELSE clock]
                     ELSE UNCHANGED <<failures, failedAt>>
           ELSE UNCHANGED <<users, tokens, lost, failures, failedAt>>
        /\ Finish(r)
        /\ UNCHANGED <<clock, begun, made>>

\* delete_user; a row that another request has deleted is passed over.
Delete(r) ==
    /\ At(r, "commit", {"delete"})
    /\ users' = [i \in DOMAIN users \ {job[r].id} |-> users[i]]
    /\ Finish(r)
    /\ UNCHANGED <<tokens, made, others>>

Tick ==
    /\ clock < MaxTime
    /\ clock' = clock + 1
    /\ UNCHANGED <<users, tokens, job, begun, made, failures, failedAt, lost>>

\* The default administrator, who has been there from the first start, and
\* perhaps a user who has been registered before.
Init ==
    /\ clock = 1
    /\ users \in {<< Account("admin", "admin", "given") >>}
               \cup { << Account("admin", "admin", "given"), Account(e, "user", "own") >> : e \in Emails }
    /\ tokens = <<>>
    /\ job = [r \in Requests |-> Idle]
    /\ begun = 0
    /\ made = Len(users)
    /\ failures = [i \in Ids |-> 0]
    /\ failedAt = [i \in Ids |-> 0]
    /\ lost = {}

Look(r) ==
    \/ LookForEmail(r) \/ LookForLogin(r) \/ LookForForgotten(r) \/ LookForToken(r) \/ LookForTarget(r)

Next ==
    \/ \E r \in Requests : Begin(r) \/ Authenticate(r) \/ Look(r) \/ Insert(r) \/ Issue(r) \/ Commit(r) \/ Delete(r)
    \/ Tick

Spec == Init /\ [][Next]_vars

\* The requests are interchangeable.
Symmetry == Permutations(Requests)

-----------------------------------------------------------------------------
(* Properties.                                                             *)

\* Two requests that both find an address free make no two accounts of it.
OneAccountPerEmail ==
    \A i, j \in DOMAIN users : users[i].email = users[j].email => i = j

\* A deleted account stays deleted, whatever the requests commit that had read
\* it, and whatever tokens of it remain.
GoneStaysGone == [][\A i \in 1..made : i \notin DOMAIN users => i \notin DOMAIN users']_vars

\* The lockout of DEPLOYMENT.md: after MaxAttempts failed logins in a row the
\* account is locked for LockTime from the last one, whatever requests that set
\* other columns commit in between, unless two logins have read the same count.
FailuresLock ==
    lost \cap {"attempts", "locked"} = {} =>
        \A i \in DOMAIN users :
            failures[i] >= MaxAttempts => users[i].locked = failedAt[i] + LockTime

\* A password that an administrator has set must be changed by the owner,
\* whatever logins and updates commit in between, unless two requests have set
\* the same password.
GivenMustBeChanged ==
    lost \cap {"pw", "must"} = {} =>
        \A i \in DOMAIN users : users[i].pw = "given" => users[i].must
=============================================================================
