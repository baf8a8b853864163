-------------------------- MODULE RouteCacheProofs --------------------------
(* What RouteCache guarantees for any number of requests, queries and workers. *)
EXTENDS RouteCache, TLAPS

USE DEF requestVars, UnchangedShared, Goto

-----------------------------------------------------------------------------
(* Type correctness *)

LEMMA EntryType ==
  ASSUME NEW q \in Requests, key[q] \in Nat, input[q] \in Inputs, routes[q] \in Result
  PROVE  LET e == [version |-> key[q], input |-> input[q], result |-> routes[q]]
         IN  /\ e \in Entry /\ e.version = key[q] /\ e.result = routes[q]
BY DEF Entry

LEMMA ResultType ==
  ASSUME NEW n \in Nat, NEW v \in Nat
  PROVE  LET x == [weights |-> n, loadedAt |-> v]
         IN  x \in Result /\ x.weights = n /\ x.loadedAt = v
BY DEF Result

LEMMA EntryFields ==
  ASSUME NEW q \in Requests
  PROVE  LET e == [version |-> key[q], input |-> input[q], result |-> routes[q]]
         IN  e.version = key[q] /\ e.input = input[q]
OBVIOUS

LEMMA EntryResult ==
  ASSUME NEW e \in Entry
  PROVE  e.version \in Nat /\ e.result \in Result
BY DEF Entry

LEMMA ResultFields ==
  ASSUME NEW x \in Result
  PROVE  x.weights \in Nat /\ x.loadedAt \in Nat
BY DEF Result

LEMMA CacheTypeInit == ASSUME CacheAssumption, Init PROVE TypeOK
BY ResultType DEF CacheAssumption, Init, TypeOK, NoResult, Pc

LEMMA CacheTypeStep == ASSUME CacheAssumption, TypeOK, [Next]_vars PROVE TypeOK'
<1> USE DEF TypeOK, Pc, CacheAssumption
<1>1. ASSUME NEW w \in Workers, Worker(w) PROVE TypeOK'
  <2>1. CASE CommitWeights(w)
    BY <2>1 DEF CommitWeights
  <2>2. CASE InvalidateGraph(w)
    BY <2>2 DEF InvalidateGraph
  <2>3. CASE GiveUp(w)
    BY <2>3 DEF GiveUp
  <2> QED BY <1>1, <2>1, <2>2, <2>3 DEF Worker
<1>2. ASSUME NEW q \in Requests, Request(q) PROVE TypeOK'
  <2>1. ASSUME NEW i \in Inputs, Arrive(q, i) PROVE TypeOK'
    BY <2>1 DEF Arrive
  <2>2. CASE ReadKey(q)
    BY <2>2 DEF ReadKey
  <2>3. CASE Hit(q)
    <3>1. PICK e \in entries : /\ routes' = [routes EXCEPT ![q] = e.result]
                               /\ key' = [key EXCEPT ![q] = e.version]
      BY <2>3 DEF Hit
    <3>2. e.result \in Result /\ e.version \in Nat
      BY <3>1, EntryResult
    <3> QED BY <2>3, <3>1, <3>2 DEF Hit
  <2>4. CASE Miss(q) \/ RedisFails(q) \/ Refuse(q) \/ Respond(q)
    BY <2>4 DEF Miss, RedisFails, Refuse, Respond
  <2>5. CASE Load(q)
    <3>1. [weights |-> weights, loadedAt |-> version] \in Result
      BY ResultType
    <3> QED BY <2>5, <3>1 DEF Load
  <2>6. CASE Store(q)
    <3> DEFINE new == [version |-> key[q], input |-> input[q], result |-> routes[q]]
    <3>1. new \in Entry /\ new.version = key[q] /\ new.input = input[q]
      BY EntryType, EntryFields
    <3>2. entries' = {e \in entries : ~Matches(e, q)} \cup {new}
      BY <2>6 DEF Store
    <3> HIDE DEF new
    <3>3. /\ entries' \subseteq Entry
          /\ \A e, f \in entries' : e.version = f.version /\ e.input = f.input => e = f
      BY <3>1, <3>2 DEF Matches
    <3> QED BY <2>6, <3>3 DEF Store
  <2> QED BY <1>2, <2>1, <2>2, <2>3, <2>4, <2>5, <2>6 DEF Request
<1>3. ASSUME NEW e \in entries, Expire(e) PROVE TypeOK'
  BY <1>3 DEF Expire
<1>4. CASE UNCHANGED vars
  BY <1>4 DEF vars
<1> QED BY <1>1, <1>2, <1>3, <1>4 DEF Next

\* Every variable of the cache model keeps its type.
THEOREM CacheTypeCorrect == Spec => []TypeOK
<1>1. Init => TypeOK
  BY CacheTypeInit, CacheAssumption
<1>2. TypeOK /\ [Next]_vars => TypeOK'
  BY CacheTypeStep, CacheAssumption
<1> QED BY <1>1, <1>2, PTL DEF Spec

-----------------------------------------------------------------------------
(* Freshness *)

\* Later versions announce weights at least as new, and none newer than today's.
FloorInv ==
  /\ \A v \in 0 .. version : floor[v] <= weights
  /\ \A u, v \in 0 .. version : u <= v => floor[u] <= floor[v]

\* A result is at least as new as the version it was loaded at.
Sound(x) == x.loadedAt <= version /\ x.weights >= floor[x.loadedAt]

EntryInv ==
  \A e \in entries : /\ Sound(e.result)
                     /\ e.result.loadedAt <= e.version
                     /\ e.version <= version

\* What a request has read is no older than its arrival.
RequestInv ==
  \A q \in Requests :
    /\ since[q] <= version
    /\ pc[q] \in {"get", "hit", "set"} => since[q] <= key[q] /\ key[q] <= version
    /\ pc[q] \in {"setkey", "set", "calculated"} => Sound(routes[q]) /\ since[q] <= routes[q].loadedAt
    /\ pc[q] = "set" => routes[q].loadedAt <= key[q]
    /\ pc[q] = "hit" => Sound(routes[q])

CacheInv == TypeOK /\ FloorInv /\ EntryInv /\ RequestInv

\* Neither a commit nor an increment makes a sound result unsound.
LEMMA SoundStays ==
  ASSUME TypeOK, NEW x \in Result, Sound(x), NEW w \in Workers, Worker(w)
  PROVE  Sound(x)'
BY ResultFields DEF TypeOK, Sound, Worker, CommitWeights, InvalidateGraph, GiveUp

LEMMA CacheStep == ASSUME CacheAssumption, CacheInv, [Next]_vars PROVE CacheInv'
<1>0. TypeOK' /\ TypeOK
  BY CacheTypeStep DEF CacheInv
<1>t. /\ weights \in Nat /\ version \in Nat
      /\ \A e \in entries : e \in Entry /\ e.result \in Result /\ e.version \in Nat
      /\ \A q \in Requests : /\ routes[q] \in Result /\ key[q] \in Nat /\ since[q] \in Nat
                             /\ input[q] \in Inputs
      /\ \A v \in 0 .. version : floor[v] \in Nat
  BY <1>0, EntryResult DEF TypeOK
<1>1. ASSUME NEW w \in Workers, Worker(w) PROVE CacheInv'
  <2>1. FloorInv'
    BY <1>1, <1>t DEF Worker, CommitWeights, InvalidateGraph, GiveUp, CacheInv, FloorInv
  <2>2. entries' = entries /\ version <= version' /\ version' \in Nat
    BY <1>1, <1>t DEF Worker, CommitWeights, InvalidateGraph, GiveUp
  <2>3. UNCHANGED <<pc, key, routes, since>>
    BY <1>1 DEF Worker, CommitWeights, InvalidateGraph, GiveUp
  <2>4. EntryInv'
    BY <1>0, <1>1, <1>t, <2>2, SoundStays DEF CacheInv, EntryInv
  <2>5. RequestInv'
    <3> SUFFICES ASSUME NEW q \in Requests PROVE RequestInv!(q)'
      BY DEF RequestInv
    <3>1. Sound(routes[q]) => Sound(routes[q])'
      BY <1>0, <1>1, <1>t, <2>3, SoundStays
    <3> QED BY <1>t, <2>2, <2>3, <3>1 DEF CacheInv, RequestInv
  <2> QED BY <1>0, <2>1, <2>4, <2>5 DEF CacheInv
<1>2. ASSUME NEW q \in Requests, Request(q) PROVE CacheInv'
  <2>1. UNCHANGED <<weights, version, floor>>
    BY <1>2 DEF Request, Arrive, ReadKey, Hit, Miss, Load, Store, RedisFails, Refuse, Respond
  <2>2. FloorInv' /\ (\A x : Sound(x)' <=> Sound(x))
    BY <2>1 DEF CacheInv, FloorInv, Sound
  <2>3. \A p \in Requests \ {q} : /\ pc'[p] = pc[p] /\ key'[p] = key[p]
                                 /\ routes'[p] = routes[p] /\ since'[p] = since[p]
    BY <1>0, <1>2 DEF TypeOK, Request, Arrive, ReadKey, Hit, Miss, Load, Store, RedisFails, Refuse, Respond
  <2>4. EntryInv'
    <3>1. CASE Store(q)
      <4> SUFFICES ASSUME NEW e \in entries' PROVE EntryInv!(e)'
        BY DEF EntryInv
      <4>1. CASE e \in entries
        BY <2>1, <2>2, <4>1 DEF CacheInv, EntryInv
      <4>2. CASE e = [version |-> key[q], input |-> input[q], result |-> routes[q]]
        <5>1. e.version = key[q] /\ e.result = routes[q]
          BY <4>2
        <5>2. Sound(routes[q]) /\ routes[q].loadedAt <= key[q] /\ key[q] <= version
          BY <3>1 DEF CacheInv, RequestInv, Store
        <5> QED BY <2>1, <2>2, <5>1, <5>2
      <4> QED BY <3>1, <4>1, <4>2 DEF Store
    <3>2. CASE ~Store(q)
      <4>1. entries' = entries
        BY <1>2, <3>2 DEF Request, Arrive, ReadKey, Hit, Miss, Load, RedisFails, Refuse, Respond
      <4> QED BY <2>1, <2>2, <4>1 DEF CacheInv, EntryInv
    <3> QED BY <3>1, <3>2
  <2>5. RequestInv!(q)'
    <3>0. version' = version /\ RequestInv!(q)
      BY <2>1 DEF CacheInv, RequestInv
    <3>1. ASSUME NEW i \in Inputs, Arrive(q, i) PROVE RequestInv!(q)'
      BY <1>0, <1>t, <3>1 DEF TypeOK, Arrive
    <3>2. CASE ReadKey(q)
      BY <1>0, <1>t, <2>2, <3>0, <3>2, ResultFields DEF TypeOK, ReadKey, Sound
    <3>3. CASE Hit(q)
      <4>1. PICK e \in entries : /\ e.version = key[q]
                                 /\ routes' = [routes EXCEPT ![q] = e.result]
                                 /\ key' = [key EXCEPT ![q] = e.version]
        BY <3>3 DEF Hit, Matches
      <4>2. Sound(e.result)
        BY DEF CacheInv, EntryInv
      <4> QED BY <1>0, <2>2, <3>0, <3>3, <4>1, <4>2 DEF TypeOK, Hit
    <3>4. CASE Miss(q) \/ Refuse(q) \/ Respond(q)
      BY <1>0, <2>2, <3>0, <3>4 DEF TypeOK, Miss, Refuse, Respond
    <3>5. CASE RedisFails(q)
      BY <1>0, <2>2, <3>0, <3>5 DEF TypeOK, RedisFails
    <3>6. CASE Load(q)
      <4>1. routes'[q] = [weights |-> weights, loadedAt |-> version] /\ pc'[q] = "setkey"
        BY <1>0, <3>6 DEF TypeOK, Load
      <4>2. routes'[q].weights = weights /\ routes'[q].loadedAt = version
        BY <4>1
      <4>3. Sound(routes'[q])
        BY <1>t, <4>2 DEF CacheInv, FloorInv, Sound
      <4> QED BY <2>2, <3>0, <3>6, <4>1, <4>2, <4>3 DEF Load
    <3>7. CASE Store(q)
      BY <1>0, <2>2, <3>0, <3>7 DEF TypeOK, Store
    <3> QED BY <1>2, <3>1, <3>2, <3>3, <3>4, <3>5, <3>6, <3>7 DEF Request
  <2>6. RequestInv'
    BY <2>1, <2>2, <2>3, <2>5 DEF CacheInv, RequestInv
  <2> QED BY <1>0, <2>2, <2>4, <2>6 DEF CacheInv
<1>3. ASSUME NEW e \in entries, Expire(e) PROVE CacheInv'
  BY <1>0, <1>3 DEF Expire, CacheInv, FloorInv, EntryInv, RequestInv, Sound
<1>4. CASE UNCHANGED vars
  BY <1>0, <1>4 DEF vars, CacheInv, FloorInv, EntryInv, RequestInv, Sound
<1> QED BY <1>1, <1>2, <1>3, <1>4 DEF Next

\* A request that arrives after an increment is answered from weights at least
\* as new as that increment announced, unless it hits an entry whose own
\* calculation was overtaken by an increment.
THEOREM Freshness == Spec => []FreshUnlessOvertaken
<1>1. Init => CacheInv
  <2> SUFFICES ASSUME Init PROVE CacheInv
    OBVIOUS
  <2>1. TypeOK
    BY CacheTypeInit, CacheAssumption
  <2> QED BY <2>1 DEF Init, CacheInv, FloorInv, EntryInv, RequestInv
<1>2. CacheInv /\ [Next]_vars => CacheInv'
  BY CacheStep, CacheAssumption
<1>3. CacheInv => FreshUnlessOvertaken
  <2> SUFFICES ASSUME CacheInv, NEW q \in Requests, Answered(q), ~Overtaken(q)
               PROVE  routes[q].weights >= floor[since[q]]
    BY DEF FreshUnlessOvertaken
  <2>1. /\ routes[q].loadedAt \in Nat /\ routes[q].weights \in Nat
        /\ since[q] \in Nat /\ key[q] \in Nat /\ version \in Nat
        /\ \A v \in 0 .. version : floor[v] \in Nat
    BY ResultFields DEF CacheInv, TypeOK
  <2>2. since[q] <= routes[q].loadedAt /\ Sound(routes[q])
    BY <2>1 DEF CacheInv, RequestInv, Answered, Overtaken
  <2>3. floor[since[q]] <= floor[routes[q].loadedAt]
    BY <2>1, <2>2 DEF CacheInv, FloorInv, Sound
  <2> QED BY <2>1, <2>2, <2>3 DEF Sound
<1> QED BY <1>1, <1>2, <1>3, PTL DEF Spec

=============================================================================
