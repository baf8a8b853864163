----------------------------- MODULE RouteCache -----------------------------
(***************************************************************************)
(* The Redis cache of calculated routes.                                   *)
(*                                                                         *)
(* A cached result is stored under the graph version and a fingerprint of  *)
(* the request.  The worker commits road weights to PostgreSQL and, in a   *)
(* later step, increments the version; results under older versions then   *)
(* wait for their TTL.  A route request reads the version and then the     *)
(* entry; on a miss it loads the road graph, calculates, reads the version *)
(* AGAIN and stores the result under what it finds.  Any commit, increment *)
(* or other request may fall between two of these steps.                   *)
(*                                                                         *)
(* A result is represented by the weights it was calculated from, and road *)
(* weights by how many commits made them.                                  *)
(***************************************************************************)
EXTENDS Naturals

CONSTANTS
  Requests,   \* route requests being served at once
  Inputs,     \* distinct route queries
  Workers,    \* refreshes that change road weights
  MaxCommits, \* bound: commits of road weights
  MaxVersion  \* bound: increments of the graph version

ASSUME CacheAssumption == MaxCommits \in Nat /\ MaxVersion \in Nat

VARIABLES
  weights,    \* number of commits of road weights so far
  version,    \* saferoute:routing:graph-version
  entries,    \* stored results; at most one per version and input
  owes,       \* workers that have committed and not yet incremented
  pc,         \* where each request is
  input,      \* what it asks for
  key,        \* the version it read last, on a hit that of the entry
  routes,     \* what it calculated, or found
  floor,      \* history: floor[v] is weights when v became the version
  since       \* history: the version when the request arrived

requestVars == <<pc, input, key, routes>>
vars == <<weights, version, entries, owes, requestVars, floor, since>>

\* A result: the weights behind it, and (history) the version they were loaded at.
Result == [weights : Nat, loadedAt : Nat]
Entry  == [version : Nat, input : Inputs, result : Result]
Pc     == {"idle", "key", "get", "load", "setkey", "set", "hit", "calculated"}

TypeOK ==
  /\ weights \in 0 .. MaxCommits
  /\ version \in 0 .. MaxVersion
  /\ entries \subseteq Entry
  /\ \A e, f \in entries : e.version = f.version /\ e.input = f.input => e = f
  /\ owes \subseteq Workers
  /\ pc \in [Requests -> Pc]
  /\ input \in [Requests -> Inputs]
  /\ key \in [Requests -> Nat]
  /\ routes \in [Requests -> Result]
  /\ floor \in [0 .. version -> Nat]
  /\ since \in [Requests -> Nat]

NoResult == [weights |-> 0, loadedAt |-> 0]

Init ==
  /\ weights = 0 /\ version = 0 /\ entries = {} /\ owes = {}
  /\ pc = [q \in Requests |-> "idle"]
  /\ input \in [Requests -> Inputs]
  /\ key = [q \in Requests |-> 0]
  /\ routes = [q \in Requests |-> NoResult]
  /\ floor = [v \in 0 .. 0 |-> 0]
  /\ since = [q \in Requests |-> 0]

-----------------------------------------------------------------------------
(* The worker *)

\* replaceSegmentRisk commits
CommitWeights(w) ==
  /\ weights < MaxCommits
  /\ weights' = weights + 1
  /\ owes' = owes \cup {w}
  /\ UNCHANGED <<version, entries, requestVars, floor, since>>

\* invalidateGraph, after a refresh that changed weights or affected no segment
InvalidateGraph(w) ==
  /\ version < MaxVersion
  /\ version' = version + 1
  /\ owes' = owes \ {w}
  /\ floor' = [v \in 0 .. version + 1 |-> IF v = version + 1 THEN weights ELSE floor[v]]
  /\ UNCHANGED <<weights, entries, requestVars, since>>

\* the last attempt of the refresh fails before its increment
GiveUp(w) ==
  /\ w \in owes
  /\ owes' = owes \ {w}
  /\ UNCHANGED <<weights, version, entries, requestVars, floor, since>>

-----------------------------------------------------------------------------
(* RouteService.calculate *)

Goto(q, next) == pc' = [pc EXCEPT ![q] = next]
UnchangedShared == UNCHANGED <<weights, version, owes, floor>>

Arrive(q, i) ==
  /\ pc[q] = "idle"
  /\ Goto(q, "key")
  /\ input' = [input EXCEPT ![q] = i]
  /\ since' = [since EXCEPT ![q] = version]
  /\ UNCHANGED <<key, routes, entries>> /\ UnchangedShared

\* GET of the graph version, before the lookup and again before the store
ReadKey(q) ==
  /\ pc[q] \in {"key", "setkey"}
  /\ key' = [key EXCEPT ![q] = version]
  /\ Goto(q, IF pc[q] = "key" THEN "get" ELSE "set")
  /\ UNCHANGED <<input, routes, entries, since>> /\ UnchangedShared

\* Mutant: the version is not part of the cache key.
MatchesAnyVersion(e, q) == e.input = input[q]

Matches(e, q) == e.version = key[q] /\ e.input = input[q]

Hit(q) ==
  /\ pc[q] = "get"
  /\ \E e \in entries :
       /\ Matches(e, q)
       /\ routes' = [routes EXCEPT ![q] = e.result]
       /\ key' = [key EXCEPT ![q] = e.version]
  /\ Goto(q, "hit")
  /\ UNCHANGED <<input, entries, since>> /\ UnchangedShared

Miss(q) ==
  /\ pc[q] = "get"
  /\ ~ \E e \in entries : Matches(e, q)
  /\ Goto(q, "load")
  /\ UNCHANGED <<input, key, routes, entries, since>> /\ UnchangedShared

\* graphSource.load, one SELECT of the weights; the calculation follows
Load(q) ==
  /\ pc[q] = "load"
  /\ routes' = [routes EXCEPT ![q] = [weights |-> weights, loadedAt |-> version]]
  /\ Goto(q, "setkey")
  /\ UNCHANGED <<input, key, entries, since>> /\ UnchangedShared

\* Mutant: the result is added beside the one that is there.
StoreBeside(q) ==
  /\ pc[q] = "set"
  /\ entries' = entries \cup {[version |-> key[q], input |-> input[q], result |-> routes[q]]}
  /\ Goto(q, "calculated")
  /\ UNCHANGED <<input, key, routes, since>> /\ UnchangedShared

\* SET ... EX ttl
Store(q) ==
  /\ pc[q] = "set"
  /\ entries' = {e \in entries : ~Matches(e, q)} \cup
       {[version |-> key[q], input |-> input[q], result |-> routes[q]]}
  /\ Goto(q, "calculated")
  /\ UNCHANGED <<input, key, routes, since>> /\ UnchangedShared

\* Redis does not answer: get falls back to a calculation, set is skipped
RedisFails(q) ==
  /\ pc[q] \in {"key", "get", "setkey", "set"}
  /\ Goto(q, IF pc[q] \in {"key", "get"} THEN "load" ELSE "calculated")
  /\ UNCHANGED <<input, key, routes, entries, since>> /\ UnchangedShared

\* unknown node, no route, or a database error: nothing is stored
Refuse(q) ==
  /\ pc[q] = "load"
  /\ Goto(q, "idle")
  /\ UNCHANGED <<input, key, routes, entries, since>> /\ UnchangedShared

Respond(q) ==
  /\ pc[q] \in {"hit", "calculated"}
  /\ Goto(q, "idle")
  /\ UNCHANGED <<input, key, routes, entries, since>> /\ UnchangedShared

-----------------------------------------------------------------------------
\* Mutant: only results of older versions are dropped.
ExpireOld(e) ==
  /\ e \in entries
  /\ e.version < version
  /\ entries' = entries \ {e}
  /\ UNCHANGED <<requestVars, since>> /\ UnchangedShared

\* Redis drops an entry whose TTL has passed
Expire(e) ==
  /\ e \in entries
  /\ entries' = entries \ {e}
  /\ UNCHANGED <<requestVars, since>> /\ UnchangedShared

Worker(w) == CommitWeights(w) \/ InvalidateGraph(w) \/ GiveUp(w)

Request(q) ==
  \/ \E i \in Inputs : Arrive(q, i)
  \/ ReadKey(q) \/ Hit(q) \/ Miss(q) \/ Load(q) \/ Store(q)
  \/ RedisFails(q) \/ Refuse(q) \/ Respond(q)

Next ==
  \/ \E w \in Workers : Worker(w)
  \/ \E q \in Requests : Request(q)
  \/ \E e \in entries : Expire(e)

Spec == Init /\ [][Next]_vars

\* The only certainty is the TTL: a result that is not stored again does not
\* stay for ever.
Fairness ==
  \A v \in 0 .. MaxVersion, i \in Inputs, n \in 0 .. MaxCommits :
    WF_vars(\E e \in entries : /\ e.version = v /\ e.input = i /\ e.result.weights = n
                              /\ Expire(e))

FairSpec == Spec /\ Fairness

-----------------------------------------------------------------------------
(* Safety *)

Answered(q) == pc[q] \in {"hit", "calculated"}

\* The entry was loaded under an older version than it is stored under: its own
\* calculation was overtaken by an increment.
Overtaken(q) == pc[q] = "hit" /\ routes[q].loadedAt < key[q]

\* A request that arrives after an increment (and so after the event that tells
\* browsers to ask again) is answered from weights at least as new as that
\* increment announced, except when it hits an entry whose calculation was
\* overtaken by an increment between its load and its store.
FreshUnlessOvertaken ==
  \A q \in Requests :
    Answered(q) => routes[q].weights >= floor[since[q]] \/ Overtaken(q)

\* README: "Old values expire naturally and can no longer be returned."
OldValuesNotReturned ==
  \A q \in Requests : Answered(q) => routes[q].weights >= floor[since[q]]

-----------------------------------------------------------------------------
(* Liveness *)

\* Whatever was overtaken, lost or given up: once the weights stop changing, the
\* TTL removes every stale result, and no request brings one back.
StaleResultsEnd == <>[](\A e \in entries : e.version = version => e.result.weights = weights)

=============================================================================
