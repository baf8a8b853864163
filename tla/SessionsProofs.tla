--------------------------- MODULE SessionsProofs ---------------------------
(* What Sessions guarantees for any number of tokens and refreshes. *)
EXTENDS Sessions, TLAPS

USE DEF refreshVars, Goto, Respond, NoWrites, Written, Rotates

\* A transaction past its SELECT holds the row of the token it was sent.
HoldsToken ==
  \A c \in Clients :
    /\ pc[c] # "idle" => token[c] \in Tokens
    /\ pc[c] \notin {"idle", "select"} => holder[token[c]] = c

\* Nobody touches a row that another transaction is revoking, and a transaction
\* about to expire or exchange its token still finds the row as it read it.
ReadsStand ==
  \A c \in Clients :
    /\ \A t \in Tokens : writes[c][t] # "live" => row[t] = "live"
    /\ pc[c] \in {"expire", "rotate"} => row[token[c]] = "live"

\* Only the token that was sent is exchanged, and only by a rotation.
RotatesItsToken ==
  \A c \in Clients : \A t \in Tokens :
    writes[c][t] = "ROTATED" => t = token[c] /\ pc[c] \in {"insert", "commit"}

\* A token that was made for a refresh belongs to it alone, as long as it may be
\* stored.
NextReserved ==
  /\ \A c \in Clients : pc[c] = "select" /\ row[token[c]] \notin Revoked => next[c] # None
  /\ \A c \in Clients : pc[c] \in {"rotate", "insert"} => next[c] # None
  /\ \A c \in Clients : pc[c] = "commit" /\ Rotates(c) => next[c] # None
  /\ \A c \in Clients : next[c] # None => row[next[c]] = "absent"
  /\ \A c, d \in Clients : next[c] = next[d] /\ next[c] # None => c = d

\* What a revokeAll found it has still to visit, or has revoked, or somebody
\* else has revoked.
SeenAccounted ==
  \A c \in Clients :
    /\ pc[c] # "revoking" => targets[c] = {}
    /\ pc[c] \notin {"revoking", "commit"} => seen[c] = {}
    /\ \A t \in seen[c] : row[t] # "absent" /\ (t \in targets[c] \cup Written(c) \/ row[t] \in Revoked)

\* Nothing was rotated from a token, or into one, that has no row.
Parents ==
  \A s \in Tokens : parent[s] # None => row[s] # "absent"

IInv == /\ TypeOK /\ HoldsToken /\ ReadsStand /\ RotatesItsToken /\ NextReserved
        /\ SeenAccounted /\ Parents /\ OneSuccessor

-----------------------------------------------------------------------------
(* Every action preserves IInv *)

\* A login stores a token nobody has.
LEMMA LoginStep ==
  ASSUME SessionAssumption, IInv, NEW u \in Tokens, Login(u)
  PROVE  IInv'
<1> USE DEF Login, Issued, Fresh, IInv, TypeOK, Row, Revoked, Pc, SessionAssumption
<1>1. TypeOK'
  BY DEF HoldsToken
<1>2. HoldsToken'
  BY DEF HoldsToken
<1>3. ReadsStand'
  BY DEF ReadsStand, HoldsToken
<1>4. RotatesItsToken'
  BY DEF RotatesItsToken
<1>5. NextReserved'
  BY DEF NextReserved
<1>6. SeenAccounted'
  BY DEF SeenAccounted, HoldsToken
<1>7. Parents'
  BY DEF Parents
<1>8. OneSuccessor'
  BY DEF OneSuccessor, Parents
<1> QED BY <1>1, <1>2, <1>3, <1>4, <1>5, <1>6, <1>7, <1>8

\* A logout waits for the lock, so it revokes no row that a transaction relies on.
LEMMA LogoutStep ==
  ASSUME SessionAssumption, IInv, NEW u \in Tokens, Logout(u)
  PROVE  IInv'
<1> USE DEF Logout, IInv, TypeOK, Row, Revoked, Pc, SessionAssumption
<1>1. TypeOK'
  BY DEF HoldsToken
<1>2. HoldsToken'
  BY DEF HoldsToken
<1>3. ReadsStand'
  BY DEF ReadsStand, HoldsToken
<1>4. RotatesItsToken'
  BY DEF RotatesItsToken
<1>5. NextReserved'
  BY DEF NextReserved
<1>6. SeenAccounted'
  BY DEF SeenAccounted, HoldsToken
<1>7. Parents'
  BY DEF Parents
<1>8. OneSuccessor'
  BY DEF OneSuccessor, Parents
<1> QED BY <1>1, <1>2, <1>3, <1>4, <1>5, <1>6, <1>7, <1>8

\* Only the expiry of a row changes.
LEMMA TimeStep ==
  ASSUME SessionAssumption, IInv, NEW u \in Tokens, TimePasses(u)
  PROVE  IInv'
<1> USE DEF TimePasses, IInv, TypeOK, Row, Revoked, Pc, SessionAssumption
<1>1. TypeOK'
  BY DEF HoldsToken
<1>2. HoldsToken'
  BY DEF HoldsToken
<1>3. ReadsStand'
  BY DEF ReadsStand, HoldsToken
<1>4. RotatesItsToken'
  BY DEF RotatesItsToken
<1>5. NextReserved'
  BY DEF NextReserved
<1>6. SeenAccounted'
  BY DEF SeenAccounted, HoldsToken
<1>7. Parents'
  BY DEF Parents
<1>8. OneSuccessor'
  BY DEF OneSuccessor, Parents
<1> QED BY <1>1, <1>2, <1>3, <1>4, <1>5, <1>6, <1>7, <1>8

\* A refresh begins with a token nobody has.
LEMMA BeginStep ==
  ASSUME SessionAssumption, IInv, NEW a \in Clients, NEW u \in Tokens, NEW n \in Tokens \cup {None}, Begin(a, u, n)
  PROVE  IInv'
<1> USE DEF Begin, Fresh, IInv, TypeOK, Row, Revoked, Pc, SessionAssumption
<1>1. TypeOK'
  BY DEF HoldsToken
<1>2. HoldsToken'
  BY DEF HoldsToken
<1>3. ReadsStand'
  BY DEF ReadsStand, HoldsToken
<1>4. RotatesItsToken'
  BY DEF RotatesItsToken
<1>5. NextReserved'
  BY DEF NextReserved
<1>6. SeenAccounted'
  BY DEF SeenAccounted, HoldsToken
<1>7. Parents'
  BY DEF Parents
<1>8. OneSuccessor'
  BY DEF OneSuccessor, Parents
<1> QED BY <1>1, <1>2, <1>3, <1>4, <1>5, <1>6, <1>7, <1>8

\* A transaction that is rolled back leaves the rows as they were.
LEMMA AbortStep ==
  ASSUME SessionAssumption, IInv, NEW a \in Clients, Close(a), UNCHANGED <<row, due, parent>>
  PROVE  IInv'
<1> USE DEF Close, IInv, TypeOK, Row, Revoked, Pc, SessionAssumption
<1>1. TypeOK'
  BY DEF HoldsToken
<1>2. HoldsToken'
  BY DEF HoldsToken
<1>3. ReadsStand'
  BY DEF ReadsStand, HoldsToken
<1>4. RotatesItsToken'
  BY DEF RotatesItsToken
<1>5. NextReserved'
  BY DEF NextReserved
<1>6. SeenAccounted'
  BY DEF SeenAccounted, HoldsToken
<1>7. Parents'
  BY DEF Parents
<1>8. OneSuccessor'
  BY DEF OneSuccessor, Parents
<1> QED BY <1>1, <1>2, <1>3, <1>4, <1>5, <1>6, <1>7, <1>8

\* SELECT FOR UPDATE takes the lock that the rest of the transaction relies on.
LEMMA SelectStep ==
  ASSUME SessionAssumption, IInv, NEW a \in Clients, Select(a)
  PROVE  IInv'
<1> USE DEF Select, Branch, IInv, TypeOK, Row, Revoked, Pc, SessionAssumption
<1>1. TypeOK'
  BY DEF HoldsToken
<1>2. HoldsToken'
  BY DEF HoldsToken
<1>3. ReadsStand'
  BY DEF ReadsStand, HoldsToken
<1>4. RotatesItsToken'
  BY DEF RotatesItsToken
<1>5. NextReserved'
  BY DEF NextReserved
<1>6. SeenAccounted'
  BY DEF SeenAccounted, HoldsToken
<1>7. Parents'
  BY DEF Parents
<1>8. OneSuccessor'
  BY DEF OneSuccessor, Parents
<1> QED BY <1>1, <1>2, <1>3, <1>4, <1>5, <1>6, <1>7, <1>8

\* What revokeAll finds live it has still to visit.
LEMMA RevokeAllStep ==
  ASSUME SessionAssumption, IInv, NEW a \in Clients, RevokeAll(a)
  PROVE  IInv'
<1> USE DEF RevokeAll, IInv, TypeOK, Row, Revoked, Pc, SessionAssumption
<1>1. TypeOK'
  BY DEF HoldsToken
<1>2. HoldsToken'
  BY DEF HoldsToken
<1>3. ReadsStand'
  BY DEF ReadsStand, HoldsToken
<1>4. RotatesItsToken'
  BY DEF RotatesItsToken
<1>5. NextReserved'
  BY DEF NextReserved
<1>6. SeenAccounted'
  BY DEF SeenAccounted, HoldsToken
<1>7. Parents'
  BY DEF Parents
<1>8. OneSuccessor'
  BY DEF OneSuccessor, Parents
<1> QED BY <1>1, <1>2, <1>3, <1>4, <1>5, <1>6, <1>7, <1>8

\* A row that is visited is revoked, by this transaction or by another.
LEMMA RevokeStep ==
  ASSUME SessionAssumption, IInv, NEW a \in Clients, NEW u \in Tokens, Revoke(a, u)
  PROVE  IInv'
<1> USE DEF Revoke, IInv, TypeOK, Row, Revoked, Pc, SessionAssumption
<1>a. \A c \in Clients, t \in Tokens :
         writes'[c][t] = IF c = a /\ t = u /\ row[u] = "live" THEN "TOKEN_REUSE_DETECTED" ELSE writes[c][t]
  OBVIOUS
<1>b. \A t \in Tokens : holder'[t] = IF t = u /\ row[u] = "live" THEN a ELSE holder[t]
  OBVIOUS
<1>c. writes' \in [Clients -> [Tokens -> {"live"} \cup Revoked]]
  <2>1. [writes[a] EXCEPT ![u] = "TOKEN_REUSE_DETECTED"] \in [Tokens -> {"live"} \cup Revoked]
    OBVIOUS
  <2>2. writes' = writes \/ writes' = [writes EXCEPT ![a][u] = "TOKEN_REUSE_DETECTED"]
    BY DEF Revoke
  <2>3. [writes EXCEPT ![a][u] = "TOKEN_REUSE_DETECTED"] \in [Clients -> [Tokens -> {"live"} \cup Revoked]]
    BY <2>1
  <2> QED BY <2>2, <2>3
<1>d. holder' \in [Tokens -> Clients \cup {None}]
  <2>1. holder' = holder \/ holder' = [holder EXCEPT ![u] = a]
    OBVIOUS
  <2>2. holder \in [Tokens -> Clients \cup {None}]
    OBVIOUS
  <2> HIDE DEF Revoke, IInv, TypeOK
  <2> QED BY <2>1, <2>2
<1>e. targets' \in [Clients -> SUBSET Tokens] /\ UNCHANGED <<row, due, pc, token, next, seen, parent>>
  OBVIOUS
<1>f. \A c \in Clients : \A t \in Tokens : writes'[c][t] # "live" => holder'[t] = c
  BY <1>a, <1>b
<1>g. \A c \in Clients : pc'[c] \in {"idle", "select"} => \A t \in Tokens : holder'[t] # c
  BY <1>b, <1>e
<1>1. TypeOK'
  BY <1>c, <1>d, <1>e, <1>f, <1>g
<1>2. HoldsToken'
  BY DEF HoldsToken
<1>3. ReadsStand'
  BY <1>a DEF ReadsStand, HoldsToken
<1>4. RotatesItsToken'
  BY DEF RotatesItsToken
<1>5. NextReserved'
  <2>1. UNCHANGED <<row, pc, token, next>>
    OBVIOUS
  <2>3. ASSUME NEW c \in Clients, pc[c] = "commit", Rotates(c)' PROVE Rotates(c)
    <3>1. c # a
      BY <2>3
    <3>2. writes'[c] = writes[c] /\ token'[c] = token[c]
      BY <3>1
    <3> HIDE DEF Revoke, IInv, TypeOK
    <3> QED BY <2>3, <3>2 DEF Rotates
  <2>2. NextReserved
    OBVIOUS
  <2> HIDE DEF Revoke, IInv, TypeOK
  <2> QED BY <2>1, <2>2, <2>3 DEF NextReserved
<1>6. SeenAccounted'
  BY DEF SeenAccounted, HoldsToken
<1>7. Parents'
  BY DEF Parents
<1>8. OneSuccessor'
  BY DEF OneSuccessor, Parents
<1> QED BY <1>1, <1>2, <1>3, <1>4, <1>5, <1>6, <1>7, <1>8

\* Steps that only move on.
LEMMA PcStep ==
  ASSUME SessionAssumption, IInv, NEW a \in Clients, RevokedAll(a) \/ Insert(a)
  PROVE  IInv'
<1> USE DEF RevokedAll, Insert, IInv, TypeOK, Row, Revoked, Pc, SessionAssumption
<1>a. /\ UNCHANGED <<row, due, holder, token, next, writes, targets, seen, parent>>
      /\ pc' = [pc EXCEPT ![a] = "commit"]
      /\ pc[a] \in {"revoking", "insert"}
  OBVIOUS
<1>b. \A c \in Clients : pc'[c] \in {"idle", "select"} => \A t \in Tokens : holder'[t] # c
  BY <1>a
<1> HIDE DEF RevokedAll, Insert
<1>1. TypeOK'
  BY <1>a, <1>b
<1>2. HoldsToken'
  BY <1>a DEF HoldsToken
<1>3. ReadsStand'
  BY <1>a DEF ReadsStand, HoldsToken
<1>4. RotatesItsToken'
  BY <1>a DEF RotatesItsToken
<1>5. NextReserved'
  BY <1>a DEF NextReserved, RotatesItsToken, RevokedAll, Insert, HoldsToken
<1>6. SeenAccounted'
  BY <1>a DEF SeenAccounted, RevokedAll, Insert
<1>7. Parents'
  BY <1>a DEF Parents
<1>8. OneSuccessor'
  BY <1>a DEF OneSuccessor, Parents
<1> QED BY <1>1, <1>2, <1>3, <1>4, <1>5, <1>6, <1>7, <1>8

\* The row is written under the lock that was taken when it was read.
LEMMA UpdateStep ==
  ASSUME SessionAssumption, IInv, NEW a \in Clients, Update(a)
  PROVE  IInv'
<1> USE DEF Update, IInv, TypeOK, Row, Revoked, Pc, SessionAssumption
<1>0. token[a] \in Tokens /\ holder[token[a]] = a
  BY DEF HoldsToken
<1>a. \A c \in Clients, t \in Tokens :
         writes'[c][t] = IF c = a /\ t = token[a]
                         THEN IF pc[a] = "expire" THEN "EXPIRED" ELSE "ROTATED"
                         ELSE writes[c][t]
  BY <1>0
<1>c. writes' \in [Clients -> [Tokens -> {"live"} \cup Revoked]]
  BY <1>0
<1>1. TypeOK'
  BY <1>0, <1>a, <1>c
<1>2. HoldsToken'
  BY DEF HoldsToken
<1>3. ReadsStand'
  BY DEF ReadsStand, HoldsToken
<1>4. RotatesItsToken'
  BY DEF RotatesItsToken
<1>5. NextReserved'
  BY <1>0, <1>a DEF NextReserved, RotatesItsToken
<1>6. SeenAccounted'
  BY DEF SeenAccounted, HoldsToken
<1>7. Parents'
  BY DEF Parents
<1>8. OneSuccessor'
  BY DEF OneSuccessor, Parents
<1> QED BY <1>1, <1>2, <1>3, <1>4, <1>5, <1>6, <1>7, <1>8

\* A commit revokes live rows and stores the token reserved for it.
LEMMA CommitStep ==
  ASSUME SessionAssumption, IInv, NEW a \in Clients, Commit(a)
  PROVE  IInv'
<1> USE DEF Commit, Close, Committed, IInv, TypeOK, Row, Revoked, Pc, SessionAssumption
<1>a. /\ token[a] \in Tokens /\ holder[token[a]] = a
      /\ (Rotates(a) => next[a] \in Tokens /\ row[next[a]] = "absent")
  BY DEF HoldsToken, NextReserved
<1>b. /\ row' \in [Tokens -> Row]
      /\ \A t \in Tokens : row'[t] = IF t = next[a] /\ Rotates(a) THEN "live"
                                     ELSE IF writes[a][t] # "live" THEN writes[a][t] ELSE row[t]
  OBVIOUS
<1>c. /\ writes' \in [Clients -> [Tokens -> {"live"} \cup Revoked]]
      /\ \A c \in Clients, t \in Tokens : writes'[c][t] = IF c = a THEN "live" ELSE writes[c][t]
  OBVIOUS
<1>d. /\ holder' \in [Tokens -> Clients \cup {None}]
      /\ \A t \in Tokens : holder'[t] = IF holder[t] = a THEN None ELSE holder[t]
  OBVIOUS
<1>e. /\ parent' \in [Tokens -> Tokens \cup {None}]
      /\ \A t \in Tokens : parent'[t] = IF t = next[a] /\ Rotates(a) THEN token[a] ELSE parent[t]
  BY <1>a
<1>f. /\ pc' = [pc EXCEPT ![a] = "idle"] /\ token' = [token EXCEPT ![a] = None]
      /\ next' = [next EXCEPT ![a] = None] /\ targets' = [targets EXCEPT ![a] = {}]
      /\ seen' = [seen EXCEPT ![a] = {}] /\ UNCHANGED due
  OBVIOUS
<1> HIDE DEF Commit, Close, Committed
<1>g. \A c \in Clients : \A t \in Tokens : writes'[c][t] # "live" => holder'[t] = c
  BY <1>c, <1>d
<1>h. \A c \in Clients : pc'[c] \in {"idle", "select"} => \A t \in Tokens : holder'[t] # c
  BY <1>d, <1>f
<1>i. \A t \in Tokens : writes[a][t] # "live" => row[t] = "live" /\ writes[a][t] \in Revoked
  BY DEF ReadsStand
<1>j. \A t \in Tokens : writes[a][t] = "ROTATED" => t = token[a] /\ Rotates(a)
  BY DEF RotatesItsToken
<1>1. TypeOK'
  BY <1>b, <1>c, <1>d, <1>e, <1>f, <1>g, <1>h
<1>2. HoldsToken'
  BY <1>a, <1>b, <1>c, <1>d, <1>e, <1>f DEF HoldsToken
<1>3. ReadsStand'
  BY <1>a, <1>b, <1>c, <1>d, <1>e, <1>f DEF ReadsStand, HoldsToken
<1>4. RotatesItsToken'
  BY <1>a, <1>b, <1>c, <1>d, <1>e, <1>f DEF RotatesItsToken
<1>5. NextReserved'
  <2>1. \A t \in Tokens : row[t] \in Revoked => row'[t] \in Revoked
    BY <1>a, <1>b, <1>i
  <2>2. ASSUME NEW c \in Clients
        PROVE /\ pc'[c] = "select" /\ row'[token'[c]] \notin Revoked => next'[c] # None
              /\ pc'[c] \in {"rotate", "insert"} => next'[c] # None
              /\ pc'[c] = "commit" /\ Rotates(c)' => next'[c] # None
    BY <2>1, <1>c, <1>f DEF NextReserved, HoldsToken
  <2>3. ASSUME NEW c \in Clients, next'[c] # None PROVE row'[next'[c]] = "absent"
    <3>1. c # a /\ next[c] # None /\ next[c] # next[a] /\ next'[c] = next[c] /\ next[c] \in Tokens
      BY <2>3, <1>f DEF NextReserved
    <3>2. row[next[c]] = "absent"
      BY <3>1 DEF NextReserved
    <3> QED BY <3>1, <3>2, <1>b, <1>i
  <2>4. \A c, d \in Clients : next'[c] = next'[d] /\ next'[c] # None => c = d
    BY <1>f DEF NextReserved
  <2> QED BY <2>2, <2>3, <2>4 DEF NextReserved
<1>6. SeenAccounted'
  <2>2. ASSUME NEW c \in Clients, NEW t \in seen'[c]
        PROVE row'[t] # "absent" /\ (t \in targets'[c] \cup Written(c)' \/ row'[t] \in Revoked)
    <3>1. c # a /\ t \in Tokens /\ t \in seen[c]
      BY <2>2, <1>f
    <3>2. row[t] # "absent" /\ (t \in targets[c] \cup Written(c) \/ row[t] \in Revoked)
      BY <3>1 DEF SeenAccounted
    <3>3. targets'[c] = targets[c] /\ Written(c)' = Written(c)
      BY <3>1, <1>c, <1>f
    <3>4. row'[t] = row[t] \/ row'[t] \in Revoked
      BY <3>1, <3>2, <1>a, <1>b, <1>i
    <3> QED BY <3>1, <3>2, <3>3, <3>4
  <2>3. ASSUME NEW c \in Clients
        PROVE /\ pc'[c] # "revoking" => targets'[c] = {}
              /\ pc'[c] \notin {"revoking", "commit"} => seen'[c] = {}
    BY <1>f DEF SeenAccounted
  <2> QED BY <2>2, <2>3 DEF SeenAccounted
<1>7. Parents'
  BY <1>a, <1>b, <1>e, <1>f, <1>i DEF Parents
<1>8. OneSuccessor'
  <2>1. CASE Rotates(a)
    <3>1. row[token[a]] = "live" /\ \A s \in Tokens : parent[s] # token[a]
      BY <2>1, <1>a, <1>i DEF OneSuccessor
    <3>2. \A s, t \in Tokens : parent'[s] = parent'[t] /\ parent'[s] # None => s = t
      BY <2>1, <3>1, <1>e DEF OneSuccessor
    <3>3. \A t \in Tokens : row'[t] = "ROTATED" <=> t = token[a] \/ row[t] = "ROTATED"
      BY <2>1, <3>1, <1>a, <1>b, <1>i, <1>j
    <3>4. \A t \in Tokens : (\E s \in Tokens : parent'[s] = t) <=> t = token[a] \/ \E s \in Tokens : parent[s] = t
      BY <2>1, <1>a, <1>e DEF Parents
    <3> QED BY <3>2, <3>3, <3>4 DEF OneSuccessor
  <2>2. CASE ~Rotates(a)
    <3>1. parent' = parent
      BY <2>2, <1>e
    <3>2. \A t \in Tokens : row'[t] = "ROTATED" <=> row[t] = "ROTATED"
      BY <2>2, <1>b, <1>i, <1>j
    <3> QED BY <3>1, <3>2 DEF OneSuccessor
  <2> QED BY <2>1, <2>2
<1> QED BY <1>1, <1>2, <1>3, <1>4, <1>5, <1>6, <1>7, <1>8

LEMMA Inductive == ASSUME SessionAssumption, IInv, [Next]_vars PROVE IInv'
<1>1. ASSUME NEW u \in Tokens, Login(u) \/ Logout(u) \/ TimePasses(u) PROVE IInv'
  BY <1>1, LoginStep, LogoutStep, TimeStep
<1>2. ASSUME NEW a \in Clients, NEW u \in Tokens, NEW n \in Tokens \cup {None}, Begin(a, u, n) PROVE IInv'
  BY <1>2, BeginStep
<1>3. ASSUME NEW a \in Clients, SelectNothing(a) \/ DeadlockAbort(a) \/ Fail(a) PROVE IInv'
  <2>1. Close(a) /\ UNCHANGED <<row, due, parent>>
    BY <1>3 DEF SelectNothing, DeadlockAbort, Fail
  <2> QED BY <2>1, AbortStep
<1>4. ASSUME NEW a \in Clients, Select(a) PROVE IInv'
  BY <1>4, SelectStep
<1>5. ASSUME NEW a \in Clients, RevokeAll(a) \/ RevokedAll(a) \/ Update(a) \/ Insert(a) \/ Commit(a) PROVE IInv'
  BY <1>5, RevokeAllStep, PcStep, UpdateStep, CommitStep
<1>6. ASSUME NEW a \in Clients, NEW u \in Tokens, Revoke(a, u) PROVE IInv'
  BY <1>6, RevokeStep
<1>7. CASE UNCHANGED vars
  BY <1>7 DEF vars, IInv, TypeOK, HoldsToken, ReadsStand, RotatesItsToken, NextReserved, SeenAccounted, Parents, OneSuccessor
<1> QED BY <1>1, <1>2, <1>3, <1>4, <1>5, <1>6, <1>7 DEF Next, Progress, Lock

LEMMA Initially == ASSUME SessionAssumption, Init PROVE IInv
BY DEF SessionAssumption, Init, IInv, TypeOK, Row, Revoked, Pc, HoldsToken, ReadsStand, RotatesItsToken, NextReserved, SeenAccounted, Parents, OneSuccessor

LEMMA Invariance == Spec => []IInv
<1>1. Init => IInv
  BY SessionAssumption, Initially
<1>2. IInv /\ [Next]_vars => IInv'
  BY SessionAssumption, Inductive
<1> QED BY <1>1, <1>2, PTL DEF Spec

-----------------------------------------------------------------------------
(* Theorems *)

\* Rows, locks and transactions keep their types; a transaction that has written
\* a row holds its lock.
THEOREM SessionsTypeCorrect == Spec => []TypeOK
BY Invariance, PTL DEF IInv

\* A refresh token is exchanged at most once, however many refreshes, logouts,
\* failures and replays run beside one another (SessionRepository.rotate).
THEOREM Exchange == Spec => []OneSuccessor
BY Invariance, PTL DEF IInv

\* The rows that a commit of rotate may change.
LEMMA CommitRevokesLive ==
  ASSUME SessionAssumption, IInv, NEW a \in Clients, Commit(a), NEW t \in Tokens
  PROVE  /\ row[t] \in Revoked => row'[t] = row[t]
         /\ t \in Written(a) => row'[t] \in Revoked
<1> USE DEF IInv
<1>1. /\ writes[a][t] # "live" => row[t] = "live" /\ writes[a][t] \in Revoked
      /\ (Rotates(a) => row[next[a]] = "absent") /\ row[t] \in Row
  BY DEF TypeOK, ReadsStand, NextReserved, Commit
<1>2. row'[t] = IF t = next[a] /\ Rotates(a) THEN "live"
                ELSE IF writes[a][t] # "live" THEN writes[a][t] ELSE row[t]
  BY DEF Commit, Committed
<1> QED BY <1>1, <1>2 DEF Row, Revoked

LEMMA RevokedStays ==
  ASSUME SessionAssumption, IInv, Next, NEW t \in Tokens, row[t] \in Revoked
  PROVE  row'[t] = row[t]
<1> USE DEF IInv, TypeOK, Revoked
<1>1. ASSUME NEW u \in Tokens, Login(u) \/ Logout(u) \/ TimePasses(u) PROVE row'[t] = row[t]
  BY <1>1 DEF Login, Issued, Logout, TimePasses, Fresh
<1>2. ASSUME NEW a \in Clients, Commit(a) PROVE row'[t] = row[t]
  BY <1>2, CommitRevokesLive
<1>3. ASSUME NEW a \in Clients,
             \/ \E u \in Tokens, n \in Tokens \cup {None} : Begin(a, u, n)
             \/ \E u \in Tokens : Revoke(a, u)
             \/ SelectNothing(a) \/ RevokeAll(a) \/ RevokedAll(a) \/ Update(a) \/ Insert(a)
             \/ DeadlockAbort(a) \/ Select(a) \/ Fail(a)
      PROVE row'[t] = row[t]
  BY <1>3 DEF Begin, Revoke, SelectNothing, RevokeAll, RevokedAll, Update, Insert, DeadlockAbort, Select, Fail
<1> QED BY <1>1, <1>2, <1>3 DEF Next, Progress, Lock

\* A revoked session is never live again and keeps its reason.
THEOREM Finality == Spec => RevocationIsFinal
<1>1. IInv /\ [Next]_vars => [\A t \in Tokens : row[t] \in Revoked => row'[t] = row[t]]_vars
  BY SessionAssumption, RevokedStays
<1> QED BY <1>1, Invariance, PTL DEF Spec, RevocationIsFinal

LEMMA ReplayStep ==
  ASSUME SessionAssumption, IInv, NEW a \in Clients, Replayed(a), NEW t \in seen[a]
  PROVE  row'[t] # "live"
<1> USE DEF IInv, Replayed
<1>1. t \in Tokens /\ t \notin targets[a]
  BY DEF TypeOK, SeenAccounted
<1>2. t \in Written(a) \/ row[t] \in Revoked
  BY <1>1 DEF SeenAccounted
<1> QED BY <1>1, <1>2, CommitRevokesLive DEF Revoked

\* The commit that answers a replayed token leaves none of the sessions its
\* revokeAll found live.
THEOREM ReplayRevocation == Spec => ReplayRevokesWhatItSaw
<1>1. IInv /\ [Next]_vars =>
        [\A c \in Clients : Replayed(c) => \A t \in seen[c] : row'[t] # "live"]_vars
  BY SessionAssumption, ReplayStep
<1> QED BY <1>1, Invariance, PTL DEF Spec, ReplayRevokesWhatItSaw

-----------------------------------------------------------------------------
(* The refinement *)

\* What a transaction has written is of one kind: its own token expired or
\* exchanged, or any rows revoked.
OneKind ==
  \A c \in Clients :
    /\ pc[c] \in {"idle", "select", "revokeAll", "expire", "rotate"} => \A t \in Tokens : writes[c][t] = "live"
    /\ pc[c] = "expire" => token[c] \in due
    /\ \A t \in Tokens : writes[c][t] \in {"ROTATED", "EXPIRED"} =>
         /\ t = token[c]
         /\ \A u \in Tokens : u # t => writes[c][u] = "live"
    /\ \A t \in Tokens : writes[c][t] = "EXPIRED" => t \in due
    /\ \A t \in Tokens : writes[c][t] # "LOGOUT"
    /\ pc[c] = "revoking" => \A t \in Tokens : writes[c][t] \in {"live", "TOKEN_REUSE_DETECTED"}

\* The transaction of a is over, and no other changes.
LEMMA OneKindClose ==
  ASSUME IInv, OneKind, NEW a \in Clients, Close(a), UNCHANGED due
  PROVE  OneKind'
BY DEF IInv, TypeOK, OneKind, Close

LEMMA OneKindStep == SessionAssumption /\ IInv /\ OneKind /\ [Next]_vars => OneKind'
<1> SUFFICES ASSUME SessionAssumption, IInv, OneKind, [Next]_vars PROVE OneKind' OBVIOUS
<1> USE DEF IInv, TypeOK, OneKind
<1>1. CASE UNCHANGED vars
  BY <1>1 DEF vars
<1>2. ASSUME NEW u \in Tokens, Login(u) \/ Logout(u) \/ TimePasses(u) PROVE OneKind'
  BY <1>2 DEF Login, Logout, TimePasses
<1>3. ASSUME NEW a \in Clients, NEW u \in Tokens, NEW n \in Tokens \cup {None}, Begin(a, u, n) PROVE OneKind'
  BY <1>3 DEF Begin
<1>4. ASSUME NEW a \in Clients, SelectNothing(a) \/ Commit(a) \/ DeadlockAbort(a) \/ Fail(a) PROVE OneKind'
  BY <1>4, OneKindClose DEF SelectNothing, Commit, DeadlockAbort, Fail
<1>5. ASSUME NEW a \in Clients, Select(a) PROVE OneKind'
  BY <1>5 DEF Select, Branch
<1>6. ASSUME NEW a \in Clients, RevokeAll(a) \/ RevokedAll(a) \/ Insert(a) PROVE OneKind'
  BY <1>6 DEF RevokeAll, RevokedAll, Insert
<1>7. ASSUME NEW a \in Clients, Update(a) PROVE OneKind'
  BY <1>7 DEF Update, HoldsToken
<1>8. ASSUME NEW a \in Clients, NEW u \in Tokens, Revoke(a, u) PROVE OneKind'
  BY <1>8 DEF Revoke
<1> QED BY <1>1, <1>2, <1>3, <1>4, <1>5, <1>6, <1>7, <1>8 DEF Next, Progress, Lock

\* The commit of a rotation exchanges its token, any other revokes what it wrote.
LEMMA CommitSimulates ==
  ASSUME SessionAssumption, IInv, OneKind, NEW a \in Clients, Commit(a)
  PROVE  Store!Next
<1> DEFINE old == token[a]
           new == next[a]
<1>1. /\ old \in Tokens /\ row' = Committed(a) /\ UNCHANGED due
      /\ row \in [Tokens -> Row] /\ parent \in [Tokens -> Tokens \cup {None}]
  BY DEF Commit, IInv, HoldsToken, TypeOK
<1>2. \A t \in Written(a) : row[t] = "live"
  BY DEF IInv, ReadsStand
<1>3. CASE Rotates(a)
  <2>1. new \in Tokens /\ row[new] = "absent" /\ row[old] = "live"
    BY <1>1, <1>2, <1>3 DEF IInv, TypeOK, NextReserved, Commit
  <2>2. \A t \in Tokens : writes[a][t] # "live" <=> t = old
    BY <1>1, <1>3 DEF OneKind
  <2>3. row' = [row EXCEPT ![old] = "ROTATED", ![new] = "live"]
    <3>1. \A t \in Tokens : Committed(a)[t] =
            IF t = new THEN "live" ELSE IF t = old THEN "ROTATED" ELSE row[t]
      BY <1>3, <2>2 DEF Committed
    <3> QED BY <1>1, <2>1, <3>1 DEF Committed
  <2>4. parent' = [parent EXCEPT ![new] = old]
    BY <1>3 DEF Commit
  <2>5. Store!Exchange(old, new)
    BY <1>1, <2>1, <2>3, <2>4 DEF Store!Exchange, Store!Live
  <2> QED BY <1>1, <2>1, <2>5 DEF Store!Next
<1>4. CASE ~Rotates(a)
  <2>1. /\ UNCHANGED parent
        /\ row' = [t \in Tokens |-> IF t \in Written(a) THEN writes[a][t] ELSE row[t]]
    BY <1>1, <1>4 DEF Commit, Committed
  <2>2. Written(a) \subseteq Store!Live
    BY <1>2 DEF Store!Live
  <2>3. CASE writes[a][old] = "EXPIRED"
    <3>1. Written(a) = {old} /\ old \in due
      BY <1>1, <2>3 DEF OneKind
    <3>2. Store!Revoke({old}, "EXPIRED")
      BY <1>1, <2>1, <2>2, <2>3, <3>1 DEF Store!Revoke
    <3> QED BY <3>1, <3>2 DEF Store!Next
  <2>4. CASE writes[a][old] # "EXPIRED"
    <3>1. \A t \in Written(a) : writes[a][t] = "TOKEN_REUSE_DETECTED"
      <4>1. \A t \in Tokens : writes[a][t] \in {"live"} \cup Revoked
        BY DEF IInv, TypeOK
      <4> QED BY <1>4, <2>4, <4>1 DEF OneKind, Revoked
    <3>2. Store!Revoke(Written(a), "TOKEN_REUSE_DETECTED")
      BY <1>1, <2>1, <2>2, <3>1 DEF Store!Revoke
    <3> QED BY <3>2 DEF Store!Next
  <2> QED BY <2>3, <2>4
<1> QED BY <1>3, <1>4

LEMMA StoreStep == SessionAssumption /\ IInv /\ OneKind /\ [Next]_vars => [Store!Next]_(Store!vars)
<1> SUFFICES ASSUME SessionAssumption, IInv, OneKind, [Next]_vars PROVE [Store!Next]_(Store!vars) OBVIOUS
<1>1. CASE UNCHANGED vars
  BY <1>1 DEF vars, Store!vars
<1>2. ASSUME NEW u \in Tokens, Login(u) PROVE Store!Next
  BY <1>2 DEF Login, Issued, Fresh, Store!Issue, Store!Next
<1>3. ASSUME NEW u \in Tokens, Logout(u) PROVE [Store!Next]_(Store!vars)
  <2>0. row \in [Tokens -> Row]
    BY DEF IInv, TypeOK
  <2>1. CASE row[u] = "live"
    <3>1. row' = [row EXCEPT ![u] = "LOGOUT"] /\ UNCHANGED <<due, parent>>
      BY <1>3, <2>1 DEF Logout
    <3>2. Store!Revoke({u}, "LOGOUT")
      BY <2>0, <2>1, <3>1 DEF Store!Revoke, Store!Live
    <3> QED BY <3>2 DEF Store!Next
  <2>2. CASE row[u] # "live"
    BY <1>3, <2>0, <2>2 DEF Logout, Store!vars
  <2> QED BY <2>1, <2>2
<1>4. ASSUME NEW u \in Tokens, TimePasses(u) PROVE Store!Next
  BY <1>4 DEF TimePasses, Store!TimePasses, Store!Live, Store!Next
<1>5. ASSUME NEW a \in Clients, Commit(a) PROVE Store!Next
  BY <1>5, CommitSimulates
<1>6. ASSUME NEW a \in Clients,
             \/ \E u \in Tokens, n \in Tokens \cup {None} : Begin(a, u, n)
             \/ \E u \in Tokens : Revoke(a, u)
             \/ SelectNothing(a) \/ RevokeAll(a) \/ RevokedAll(a) \/ Update(a) \/ Insert(a)
             \/ DeadlockAbort(a) \/ Select(a) \/ Fail(a)
      PROVE  UNCHANGED Store!vars
  BY <1>6 DEF Begin, Revoke, SelectNothing, RevokeAll, RevokedAll, Update, Insert, DeadlockAbort, Select, Fail,
              Store!vars
<1> QED BY <1>1, <1>2, <1>3, <1>4, <1>5, <1>6 DEF Next, Progress, Lock

\* The statements of rotate, revoke and revokeAll, however they interleave, wait, fail
\* or deadlock, are seen as tokens issued, exchanged and revoked in one step each
\* (SessionRepository).
THEOREM Implements == Spec => ImplementsStore
<1>1. Init => Store!Init /\ OneKind
  BY DEF Init, Store!Init, OneKind
<1>2. IInv /\ OneKind /\ [Next]_vars => OneKind' /\ [Store!Next]_(Store!vars)
  BY SessionAssumption, OneKindStep, StoreStep
<1> QED BY <1>1, <1>2, Invariance, PTL DEF Spec, ImplementsStore, Store!Spec
=============================================================================
