------------------------------ MODULE Sessions ------------------------------
(***************************************************************************)
(* Refresh-token sessions: SessionRepository over PostgreSQL.              *)
(*                                                                         *)
(* rotate() is a transaction of several statements at READ COMMITTED: each *)
(* statement sees the rows committed when it began, a row is locked by the *)
(* first statement that writes it or reads it FOR UPDATE, and whoever      *)
(* wants a locked row waits and then looks at its newest version.  login   *)
(* and logout are single statements.  Any number of refreshes, of the same *)
(* or of different tokens, run at once.                                    *)
(*                                                                         *)
(* The sessions are those of one user (every statement names a token or    *)
(* the user); a token stands for its hash and the row stored under it.     *)
(***************************************************************************)
EXTENDS Naturals, FiniteSets

CONSTANTS
  Tokens,    \* refresh tokens, each usable as the hash of one row
  Clients,   \* requests to /auth/refresh in progress
  None       \* no client, no token

ASSUME SessionAssumption == None \notin Tokens /\ None \notin Clients

VARIABLES
  row,       \* the committed row of each token: absent, live, or why it was revoked
  due,       \* tokens whose expires_at has passed
  holder,    \* which transaction holds the lock of each row
  pc,        \* where each refresh is
  token,     \* the token it was sent, while it is under way
  writes,    \* rows it has revoked and not committed, with the reason
  next,      \* the new token it was given, stored if its rotation commits
  targets,   \* rows its revokeAll has still to visit
  seen,      \* history: the rows its revokeAll found live
  parent     \* history: the token each committed row was rotated from

refreshVars == <<pc, token, next, writes, targets, seen>>
vars == <<row, due, holder, refreshVars, parent>>

Revoked == {"ROTATED", "TOKEN_REUSE_DETECTED", "EXPIRED", "LOGOUT"}
Row     == {"absent", "live"} \cup Revoked
Pc      == {"idle", "select", "revokeAll", "revoking", "expire", "rotate", "insert", "commit"}

Goto(c, label) == pc' = [pc EXCEPT ![c] = label]
NoWrites == [t \in Tokens |-> "live"]
Written(c) == {t \in Tokens : writes[c][t] # "live"}

\* An open transaction holds the lock of every row it has written, and a closed
\* one holds no lock and has written nothing.
TypeOK ==
  /\ row \in [Tokens -> Row]
  /\ due \subseteq Tokens
  /\ holder \in [Tokens -> Clients \cup {None}]
  /\ pc \in [Clients -> Pc]
  /\ token \in [Clients -> Tokens \cup {None}]
  /\ writes \in [Clients -> [Tokens -> {"live"} \cup Revoked]]
  /\ next \in [Clients -> Tokens \cup {None}]
  /\ targets \in [Clients -> SUBSET Tokens]
  /\ seen \in [Clients -> SUBSET Tokens]
  /\ parent \in [Tokens -> Tokens \cup {None}]
  /\ \A c \in Clients : \A t \in Written(c) : holder[t] = c
  /\ \A c \in Clients : pc[c] \in {"idle", "select"} => \A t \in Tokens : holder[t] # c

Init ==
  /\ row = [t \in Tokens |-> "absent"]
  /\ due = {}
  /\ holder = [t \in Tokens |-> None]
  /\ pc = [c \in Clients |-> "idle"]
  /\ token = [c \in Clients |-> None]
  /\ writes = [c \in Clients |-> NoWrites]
  /\ next = [c \in Clients |-> None]
  /\ targets = [c \in Clients |-> {}]
  /\ seen = [c \in Clients |-> {}]
  /\ parent = [t \in Tokens |-> None]

-----------------------------------------------------------------------------
(* Single statements *)

\* createRefreshToken never repeats a token
Fresh(t) == row[t] = "absent" /\ \A c \in Clients : next[c] # t

\* issueSession
Issued(t) == row' = [row EXCEPT ![t] = "live"]

\* register or login, up to the row of the session
Login(t) ==
  /\ Fresh(t)
  /\ Issued(t)
  /\ UNCHANGED <<due, holder, refreshVars, parent>>

\* Mutant: without COALESCE a second revocation replaces the first.
LogoutAgain(t) ==
  /\ row[t] # "absent"
  /\ holder[t] = None
  /\ row' = [row EXCEPT ![t] = "LOGOUT"]
  /\ UNCHANGED <<due, holder, refreshVars, parent>>

\* revoke: an UPDATE of one row, which keeps an earlier revocation
Logout(t) ==
  /\ row[t] # "absent"
  /\ holder[t] = None
  /\ row' = [row EXCEPT ![t] = IF @ = "live" THEN "LOGOUT" ELSE @]
  /\ UNCHANGED <<due, holder, refreshVars, parent>>

TimePasses(t) ==
  /\ row[t] = "live"
  /\ due' = due \cup {t}
  /\ UNCHANGED <<row, holder, refreshVars, parent>>

-----------------------------------------------------------------------------
(* rotate *)

\* AuthService.refresh makes a new token, n, and then presents t, which may be
\* unknown.  (Bound: it begins only while some token is still unused.  If t is
\* revoked already n will never be stored, and is left out.)
Begin(c, t, n) ==
  /\ pc[c] = "idle"
  /\ IF row[t] \in Revoked THEN n = None ELSE n \in Tokens /\ Fresh(n)
  /\ token' = [token EXCEPT ![c] = t]
  /\ next' = [next EXCEPT ![c] = n]
  /\ Goto(c, "select")
  /\ UNCHANGED <<row, due, holder, writes, targets, seen, parent>>

\* The branch rotate takes for the row it has read.
Branch(t) == IF row[t] # "live" THEN "revokeAll"
             ELSE IF t \in due THEN "expire" ELSE "rotate"

\* Mutant: the row is read without FOR UPDATE and locked when it is written.
SelectUnlocked(c) ==
  /\ pc[c] = "select"
  /\ row[token[c]] # "absent"
  /\ Goto(c, Branch(token[c]))
  /\ UNCHANGED <<row, due, holder, token, writes, next, targets, seen, parent>>

\* SELECT ... FOR UPDATE, once nobody else holds the row
Select(c) ==
  /\ pc[c] = "select"
  /\ row[token[c]] # "absent"
  /\ holder[token[c]] = None
  /\ holder' = [holder EXCEPT ![token[c]] = c]
  /\ Goto(c, Branch(token[c]))
  /\ UNCHANGED <<row, due, token, writes, next, targets, seen, parent>>

\* AuthService.refresh answers, with the new token or with 401.
Respond(c) ==
  /\ token' = [token EXCEPT ![c] = None]
  /\ next' = [next EXCEPT ![c] = None]
  /\ Goto(c, "idle")

\* The transaction of c is over, committed or not.
Close(c) ==
  /\ holder' = [t \in Tokens |-> IF holder[t] = c THEN None ELSE holder[t]]
  /\ writes' = [writes EXCEPT ![c] = NoWrites]
  /\ targets' = [targets EXCEPT ![c] = {}]
  /\ seen' = [seen EXCEPT ![c] = {}]
  /\ Respond(c)

\* no such row: ROLLBACK, null
SelectNothing(c) ==
  /\ pc[c] = "select"
  /\ row[token[c]] = "absent"
  /\ Close(c)
  /\ UNCHANGED <<row, due, parent>>

\* revokeAll finds the live rows that are committed as its UPDATE begins ...
RevokeAll(c) ==
  /\ pc[c] = "revokeAll"
  /\ targets' = [targets EXCEPT ![c] = {t \in Tokens : row[t] = "live"}]
  /\ seen' = [seen EXCEPT ![c] = {t \in Tokens : row[t] = "live"}]
  /\ Goto(c, "revoking")
  /\ UNCHANGED <<row, due, holder, token, writes, next, parent>>

\* Mutant: a row somebody else has locked is skipped.
RevokeOrSkip(c, t) ==
  /\ pc[c] = "revoking"
  /\ t \in targets[c]
  /\ targets' = [targets EXCEPT ![c] = @ \ {t}]
  /\ IF row[t] = "live" /\ holder[t] = None
     THEN /\ holder' = [holder EXCEPT ![t] = c]
          /\ writes' = [writes EXCEPT ![c][t] = "TOKEN_REUSE_DETECTED"]
     ELSE UNCHANGED <<holder, writes>>
  /\ UNCHANGED <<row, due, pc, token, next, seen, parent>>

\* ... and revokes each once it can lock it, if it is live even then
Revoke(c, t) ==
  /\ pc[c] = "revoking"
  /\ t \in targets[c]
  /\ holder[t] = None
  /\ targets' = [targets EXCEPT ![c] = @ \ {t}]
  /\ IF row[t] = "live"
     THEN /\ holder' = [holder EXCEPT ![t] = c]
          /\ writes' = [writes EXCEPT ![c][t] = "TOKEN_REUSE_DETECTED"]
     ELSE UNCHANGED <<holder, writes>>
  /\ UNCHANGED <<row, due, pc, token, next, seen, parent>>

RevokedAll(c) ==
  /\ pc[c] = "revoking"
  /\ targets[c] = {}
  /\ Goto(c, "commit")
  /\ UNCHANGED <<row, due, holder, token, writes, next, targets, seen, parent>>

\* UPDATE ... SET revoked_at, revoke_reason WHERE id
Update(c) ==
  /\ pc[c] \in {"expire", "rotate"}
  /\ holder[token[c]] \in {c, None}
  /\ holder' = [holder EXCEPT ![token[c]] = c]
  /\ writes' = [writes EXCEPT ![c][token[c]] = IF pc[c] = "expire" THEN "EXPIRED" ELSE "ROTATED"]
  /\ Goto(c, IF pc[c] = "expire" THEN "commit" ELSE "insert")
  /\ UNCHANGED <<row, due, token, next, targets, seen, parent>>

Insert(c) ==
  /\ pc[c] = "insert"
  /\ Goto(c, "commit")
  /\ UNCHANGED <<row, due, holder, token, next, writes, targets, seen, parent>>

Rotates(c) == writes[c][token[c]] = "ROTATED"

\* Mutant: the new session is inserted outside the transaction, and that fails.
CommittedWithoutInsert(c) == [t \in Tokens |-> IF t \in Written(c) THEN writes[c][t] ELSE row[t]]

\* What the commit of c makes of the rows.
Committed(c) == [t \in Tokens |-> IF t = next[c] /\ Rotates(c) THEN "live"
                                  ELSE IF t \in Written(c) THEN writes[c][t] ELSE row[t]]

\* Mutant: null is returned for a replayed token and the transaction stays open.
CommitUnlessReplay(c) ==
  /\ pc[c] = "commit"
  /\ row[token[c]] = "live"
  /\ row' = Committed(c)
  /\ parent' = IF Rotates(c) THEN [parent EXCEPT ![next[c]] = token[c]] ELSE parent
  /\ Close(c)
  /\ UNCHANGED due

\* COMMIT (its reply may be lost: the transaction stands all the same)
Commit(c) ==
  /\ pc[c] = "commit"
  /\ row' = Committed(c)
  /\ parent' = IF Rotates(c) THEN [parent EXCEPT ![next[c]] = token[c]] ELSE parent
  /\ Close(c)
  /\ UNCHANGED due

\* Mutant: the connection goes back to the pool without a ROLLBACK.
FailOpen(c) ==
  /\ pc[c] \notin {"idle", "select"}
  /\ Goto(c, "idle")
  /\ UNCHANGED <<row, due, holder, token, writes, next, targets, seen, parent>>

\* A statement fails or the process dies: ROLLBACK.
Fail(c) ==
  /\ pc[c] # "idle"
  /\ Close(c)
  /\ UNCHANGED <<row, due, parent>>

-----------------------------------------------------------------------------
\* c can lock none of the rows it still needs, and d holds one of them
WaitsFor(c, d) ==
  /\ pc[c] = "revoking"
  /\ targets[c] # {}
  /\ \A t \in targets[c] : holder[t] # None
  /\ \E t \in targets[c] : holder[t] = d

\* PostgreSQL ends one of the transactions that wait for each other
DeadlockAbort(c) ==
  /\ \E S \in SUBSET Clients :
       /\ c \in S
       /\ \A d \in S : (\E e \in S : WaitsFor(d, e)) /\ (\E e \in S : WaitsFor(e, d))
  /\ Close(c)
  /\ UNCHANGED <<row, due, parent>>

Progress(c) ==
  \/ SelectNothing(c) \/ RevokeAll(c) \/ RevokedAll(c)
  \/ Update(c) \/ Insert(c) \/ Commit(c) \/ DeadlockAbort(c)

Lock(c) == Select(c) \/ \E t \in Tokens : Revoke(c, t)

Next ==
  \/ \E t \in Tokens : Login(t) \/ Logout(t) \/ TimePasses(t)
  \/ \E c \in Clients : \/ \E t \in Tokens, n \in Tokens \cup {None} : Begin(c, t, n)
                        \/ Progress(c) \/ Lock(c) \/ Fail(c)

Spec == Init /\ [][Next]_vars

\* The database executes what it is sent, and grants a lock in the order in
\* which it was asked for: a row that is free again and again is got.
Fairness == \A c \in Clients : WF_vars(Progress(c)) /\ SF_vars(Lock(c))

FairSpec == Spec /\ Fairness

-----------------------------------------------------------------------------
(* Properties *)

\* However many refreshes carry the same token, it is exchanged at most once,
\* and exactly when its row says ROTATED.
OneSuccessor ==
  /\ \A s, t \in Tokens : parent[s] = parent[t] /\ parent[s] # None => s = t
  /\ \A t \in Tokens : row[t] = "ROTATED" <=> \E s \in Tokens : parent[s] = t

\* Once revoked a session is never live again, and its reason is not rewritten,
\* whatever transactions were waiting for its row.
RevocationIsFinal ==
  [][\A t \in Tokens : row[t] \in Revoked => row'[t] = row[t]]_vars

Replayed(c) == pc[c] = "commit" /\ Commit(c) /\ row[token[c]] \in Revoked

\* A replayed token ends every session that was live when its UPDATE began,
\* however many of them other transactions had locked meanwhile.
ReplayRevokesWhatItSaw ==
  [][\A c \in Clients : Replayed(c) => \A t \in seen[c] : row'[t] # "live"]_vars

Store == INSTANCE SessionStore

\* The transactions of rotate, their waits, rollbacks and deadlocks show nothing
\* between what a client can ask for: a token is issued, exchanged for one other or
\* revoked, each in one step, and a failure leaves no half of it.
ImplementsStore == Store!Spec

\* README: "replaying a revoked token invalidates the user's remaining active
\* sessions": neither those sessions nor what they were exchanged for go on.
ReplayEndsActiveSessions ==
  [][\A c \in Clients : Replayed(c) =>
       \A t \in Tokens : row'[t] = "live" => t \notin seen[c] /\ parent[t] \notin seen[c]]_vars

\* Every refresh is answered: no wait for a lock lasts for ever.
RefreshEnds == \A c \in Clients : []<>(pc[c] = "idle")

=============================================================================
