-------------------------- MODULE RouteSearchProofs --------------------------
(***************************************************************************)
(* Theorems of RouteSearch, for any finite road network.                   *)
(*                                                                         *)
(* With a consistent heuristic, what was expanded costs, with the          *)
(* heuristic added, no more than anything in the queue, so that no edge    *)
(* makes it cheaper and what the queue still holds of it is stale.  Hence  *)
(* no node is expanded twice.                                              *)
(***************************************************************************)
EXTENDS RouteSearch, FiniteSetTheorems, SequenceTheorems, TLAPS

LEMMA Assumed == SearchAssumption /\ NoneAssumption
BY SearchAssumption, NoneAssumption DEF SearchAssumption, NoneAssumption

LEMMA EdgeEnds == \A e \in Edges : e[1] \in Segments /\ source(e) \in Nodes /\ destination(e) \in Nodes
BY Assumed DEF Edges, source, destination, SearchAssumption

\* With the priority of a node in the queue, if it is queued at its cost.
Estimate(n) == costFromOrigin[n] + heuristic(Head(todo), n)

Searching == {"search", "relax", "trace"}

SearchInv ==
  /\ TypeOK
  /\ pc \in Searching => todo # <<>>
  /\ \A x \in open : costFromOrigin[x.node] # Infinity /\ x.priority >= Estimate(x.node)
  /\ pc = "relax" => costFromOrigin[current] # Infinity

LEMMA Weights ==
  \A p \in Profiles : distanceWeight[p] \in {2, 5, 9} /\ safetyWeight[p] \in {1, 5, 8}
BY DEF Profiles, distanceWeight, safetyWeight

LEMMA RoadType ==
  ASSUME TypeOK, NEW s \in Segments
  PROVE  distance[s] \in Nat /\ risk[s] \in Nat
<1> DEFINE road == [distance |-> distance[s], risk |-> risk[s]]
<1>1. road \in [distance : Nat \ {0}, risk : 0..10]
  BY Assumed DEF TypeOK, SearchAssumption
<1>2. road.distance \in Nat /\ road.risk \in Nat
  BY <1>1
<1> QED BY <1>2

LEMMA Costs ==
  ASSUME TypeOK, NEW p \in Profiles
  PROVE  /\ \A n \in Nodes : heuristic(p, n) \in Nat
         /\ \A e \in Edges : edgeCost(p, e) \in Nat
<1>1. distanceWeight[p] \in Nat /\ safetyWeight[p] \in Nat
  BY Weights
<1>2. \A s \in Segments : distance[s] \in Nat /\ risk[s] \in Nat
  BY RoadType
<1>3. ASSUME NEW n \in Nodes PROVE heuristic(p, n) \in Nat
  <2>1. crow[n] \in Nat /\ 10 * distanceWeight[p] \in Nat
    BY <1>1 DEF TypeOK
  <2>2. \A j, k \in Nat : j * k \in Nat
    OBVIOUS
  <2> QED BY <2>1, <2>2 DEF heuristic, haversineDistance
<1>4. ASSUME NEW e \in Edges PROVE edgeCost(p, e) \in Nat
  <2>1. distance[e[1]] \in Nat /\ risk[e[1]] \in Nat
    BY <1>2, EdgeEnds
  <2>2. \A j, k \in Nat : j * k \in Nat /\ j + k \in Nat
    OBVIOUS
  <2>3. 10 * distanceWeight[p] * distance[e[1]] \in Nat
    BY <1>1, <2>1, <2>2
  <2>4. 2 * safetyWeight[p] * risk[e[1]] * distance[e[1]] \in Nat
    BY <1>1, <2>1, <2>2
  <2> QED BY <2>2, <2>3, <2>4 DEF edgeCost, weightedRisk
<1> QED BY <1>3, <1>4

LEMMA HeadType == SearchInv /\ pc \in Searching => Head(todo) \in Profiles /\ Tail(todo) \in Seq(Profiles)
BY HeadTailProperties DEF SearchInv, TypeOK

LEMMA EstimateType ==
  ASSUME SearchInv, pc \in Searching, NEW n \in Reached
  PROVE  costFromOrigin[n] \in Nat /\ heuristic(Head(todo), n) \in Nat /\ Estimate(n) \in Nat
<1>1. costFromOrigin[n] \in Nat /\ n \in Nodes
  BY DEF Reached, SearchInv, TypeOK
<1>2. heuristic(Head(todo), n) \in Nat
  BY <1>1, HeadType, Costs DEF SearchInv
<1> QED BY <1>1, <1>2 DEF Estimate

\* The heuristic is consistent: along an edge it falls by no more than the edge costs.
LEMMA Consistent ==
  ASSUME TypeOK, Straight, NEW p \in Profiles, NEW e \in Edges
  PROVE  heuristic(p, source(e)) <= edgeCost(p, e) + heuristic(p, destination(e))
<1> DEFINE d == distance[e[1]]
           w == distanceWeight[p]
           a == crow[source(e)]
           b == crow[destination(e)]
           x == 2 * safetyWeight[p] * risk[e[1]] * d
<1>1. e[1] \in Segments /\ source(e) \in Nodes /\ destination(e) \in Nodes
  BY EdgeEnds
<1>2. d \in Nat /\ a \in Nat /\ b \in Nat /\ w \in {2, 5, 9}
  BY <1>1, Weights, RoadType DEF TypeOK
<1>3. a <= d + b
  BY <1>1 DEF Straight, source, destination
<1>4. x \in Nat
  <2>1. safetyWeight[p] \in Nat /\ risk[e[1]] \in Nat
    BY <1>1, Weights, RoadType
  <2>2. \A j, k \in Nat : j * k \in Nat
    OBVIOUS
  <2> QED BY <1>2, <2>1, <2>2
<1>5. 10 * w * a <= 10 * w * d + x + 10 * w * b
  <2> HIDE DEF d, w, a, b, x
  <2>1. CASE w = 2
    BY <1>2, <1>3, <1>4, <2>1
  <2>2. CASE w = 5
    BY <1>2, <1>3, <1>4, <2>2
  <2>3. CASE w = 9
    BY <1>2, <1>3, <1>4, <2>3
  <2> QED BY <1>2, <2>1, <2>2, <2>3
<1> QED BY <1>5 DEF heuristic, haversineDistance, edgeCost, weightedRisk

-----------------------------------------------------------------------------
LEMMA EntryType ==
  ASSUME TypeOK, NEW p \in Profiles, NEW n \in Nodes, NEW c \in Nat
  PROVE  /\ Entry(p, n, c) \in [node : Nodes, priority : Nat]
         /\ Entry(p, n, c).node = n /\ Entry(p, n, c).priority = c + heuristic(p, n)
BY Costs DEF Entry

\* Costs and heuristics depend on the graph only.
LEMMA GraphStays ==
  ASSUME UNCHANGED graph
  PROVE  /\ \A p, n : heuristic(p, n)' = heuristic(p, n)
         /\ \A p, e : edgeCost(p, e)' = edgeCost(p, e)
         /\ Straight' = Straight
BY DEF graph, heuristic, haversineDistance, edgeCost, weightedRisk, Straight

LEMMA InitSearchInv == Init => SearchInv
<1> SUFFICES ASSUME Init PROVE SearchInv
  OBVIOUS
<1>1. \A s \in Segments : [distance |-> distance[s], risk |-> risk[s]] \in Roads
  <2>1. PICK road \in [Segments -> Roads] : /\ distance = [s \in Segments |-> road[s].distance]
                                           /\ risk = [s \in Segments |-> road[s].risk]
    BY DEF Init
  <2> TAKE s \in Segments
  <2>2. road[s] \in [distance : Nat \ {0}, risk : 0..10] /\ road[s] \in Roads
    BY Assumed DEF SearchAssumption
  <2>3. road[s] = [distance |-> distance[s], risk |-> risk[s]]
    BY <2>1, <2>2
  <2> QED BY <2>2, <2>3
<1>2. crow \in [Nodes -> Nat]
  <2>1. \A n \in Nodes : crow[n] \in Nat
    BY Assumed DEF Init, SearchAssumption
  <2>2. crow \in [Nodes -> UNION {Crow[n] : n \in Nodes}]
    BY DEF Init
  <2> QED BY <2>1, <2>2
<1>3. traced \in [length : Nat, exposure : Nat]
  BY DEF Init, NoTrace
<1>4. todo \in Seq(Profiles) /\ origin \in Origins
  BY Assumed DEF Init, SearchAssumption
<1>5. DOMAIN routes \subseteq Profiles
  BY DEF Init
<1>6. TypeOK
  BY <1>1, <1>2, <1>3, <1>4, <1>5 DEF Init, TypeOK
<1> QED BY <1>6 DEF Init, SearchInv, Searching

LEMMA FinishTyped ==
  ASSUME SearchInv, pc \in Searching, NEW route, Finish(route), pending = {}
  PROVE  SearchInv'
<1>1. Head(todo) \in Profiles /\ Tail(todo) \in Seq(Profiles)
  BY HeadType
<1>2. DOMAIN routes' \subseteq Profiles
  BY <1>1 DEF Finish, SearchInv, TypeOK
<1>3. traced' \in [length : Nat, exposure : Nat]
  BY DEF Finish, NoTrace
<1>4. TypeOK'
  BY <1>1, <1>2, <1>3 DEF Finish, Idle, graph, SearchInv, TypeOK
<1> QED BY <1>4 DEF Finish, Idle, SearchInv, Searching

LEMMA BeginTyped == SearchInv /\ Begin => SearchInv'
<1> SUFFICES ASSUME SearchInv, Begin PROVE SearchInv'
  OBVIOUS
<1> DEFINE p == Head(todo)
           x == Entry(p, origin, 0)
<1>1. p \in Profiles /\ origin \in Nodes
  BY HeadTailProperties, Assumed DEF Begin, SearchInv, TypeOK, SearchAssumption
<1>2. x \in [node : Nodes, priority : Nat] /\ x.node = origin /\ x.priority = 0 + heuristic(p, origin)
  BY <1>1, EntryType DEF SearchInv
<1>3. heuristic(p, origin) \in Nat
  BY <1>1, Costs DEF SearchInv
<1>4. open' = {x} /\ costFromOrigin'[origin] = 0 /\ todo' = todo /\ pc' = "search"
  BY <1>1 DEF Begin, Begun
<1>5. TypeOK'
  BY <1>1, <1>2 DEF Begin, Begun, graph, SearchInv, TypeOK
<1>6. Estimate(origin)' = 0 + heuristic(p, origin)
  <2>1. UNCHANGED graph /\ origin' = origin
    BY DEF Begin, graph
  <2>2. Estimate(origin)' = costFromOrigin'[origin] + heuristic(Head(todo), origin)'
    BY <2>1 DEF Estimate
  <2>3. heuristic(Head(todo), origin)' = heuristic(p, origin)
    BY <2>1, <1>4 DEF heuristic, haversineDistance, graph
  <2> QED BY <2>2, <2>3, <1>4
<1>7. 0 # Infinity
  BY Assumed DEF SearchAssumption
<1> QED
  <2>1. todo' # <<>>
    BY DEF Begin
  <2>2. \A y \in open' : (costFromOrigin'[y.node] # Infinity) /\ (y.priority >= Estimate(y.node)')
    <3> TAKE y \in open'
    <3>1. y = x /\ y.node = origin
      BY <1>2, <1>4
    <3>2. origin' = origin
      BY DEF Begin, graph
    <3>3. Estimate(y.node)' = 0 + heuristic(p, origin)
      BY <3>1, <3>2, <1>6
    <3> QED BY <3>1, <3>3, <1>2, <1>3, <1>4, <1>7
  <2> QED BY <1>4, <1>5, <2>1, <2>2 DEF SearchInv

LEMMA ExpandTyped ==
  ASSUME SearchInv, NEW x \in open, SkipStale(x) \/ Expand(x)
  PROVE  SearchInv'
<1>1. open' \subseteq open /\ costFromOrigin' = costFromOrigin /\ todo' = todo /\ UNCHANGED graph
  BY DEF SkipStale, Discard, Expand, Visit, graph
<1>2. \A n : Estimate(n)' = Estimate(n)
  BY <1>1, GraphStays DEF Estimate
<1>3. x.node \in Nodes /\ costFromOrigin[x.node] # Infinity
  BY DEF SearchInv, TypeOK
<1>4. x.node # None
  BY <1>3, Assumed DEF SearchAssumption
<1>5. TypeOK'
  <2>1. CASE SkipStale(x)
    BY <2>1 DEF SkipStale, Discard, graph, SearchInv, TypeOK
  <2>2. CASE Expand(x)
    <3>1. exploredNodes' \in Nat
      BY <2>2 DEF Expand, Visit, SearchInv, TypeOK
    <3>2. CASE x.node = Destination
      BY <2>2, <3>1, <3>2, <1>3, <1>4 DEF Expand, Visit, graph, SearchInv, TypeOK
    <3>3. CASE x.node # Destination
      BY <2>2, <3>1, <3>3, <1>3, <1>4 DEF Expand, Visit, graph, SearchInv, TypeOK
    <3> QED BY <3>2, <3>3
  <2> QED BY <2>1, <2>2
<1>6. todo # <<>>
  BY DEF SkipStale, Discard, Expand, Visit, SearchInv, Searching
<1>7. pc' = "relax" => costFromOrigin'[current'] # Infinity
  BY <1>1, <1>3 DEF SkipStale, Discard, Expand, Visit
<1> QED BY <1>1, <1>2, <1>5, <1>6, <1>7 DEF SearchInv

\* What a round of the loop over the neighbours has to do with the costs.
LEMMA Candidate ==
  ASSUME SearchInv, pc = "relax", NEW e \in pending
  PROVE  /\ e \in Edges /\ source(e) = current /\ current \in Nodes /\ destination(e) \in Nodes
         /\ costFromOrigin[current] \in Nat /\ candidateCost(e) \in Nat
         /\ candidateCost(e) = costFromOrigin[current] + edgeCost(Head(todo), e)
<1>1. e \in Edges /\ source(e) = current
  BY DEF SearchInv, TypeOK
<1>2. current \in Nodes /\ destination(e) \in Nodes
  BY <1>1, EdgeEnds
<1>3. costFromOrigin[current] \in Nat
  BY <1>2 DEF SearchInv, TypeOK
<1>4. edgeCost(Head(todo), e) \in Nat
  BY <1>1, HeadType, Costs DEF SearchInv, Searching
<1> QED BY <1>1, <1>2, <1>3, <1>4 DEF candidateCost

\* Costs only fall.
LEMMA RelaxEstimates ==
  ASSUME SearchInv, NEW e \in pending, Relax(e)
  PROVE  /\ \A n \in Reached : Estimate(n)' \in Nat /\ Estimate(n)' <= Estimate(n)
         /\ \A n \in Nodes : n # destination(e) => Estimate(n)' = Estimate(n)
         /\ Reached \subseteq Reached'
         /\ Improves(e) => /\ destination(e) \in Reached'
                          /\ Estimate(destination(e))' = candidateCost(e) + heuristic(Head(todo), destination(e))
<1> DEFINE d == destination(e)
           c == candidateCost(e)
<1>1. pc = "relax" /\ pc' = "relax" /\ todo' = todo /\ UNCHANGED graph
  BY DEF Relax
<1>2. d \in Nodes /\ c \in Nat /\ c # Infinity
  BY <1>1, Candidate, Assumed DEF SearchAssumption
<1>3. \A n : heuristic(Head(todo), n)' = heuristic(Head(todo), n)
  BY <1>1, GraphStays
<1>4. \A n : Estimate(n)' = costFromOrigin'[n] + heuristic(Head(todo), n)
  BY <1>1, <1>3 DEF Estimate
<1>5. \A n \in Nodes : heuristic(Head(todo), n) \in Nat
  BY <1>1, HeadType, Costs DEF SearchInv, Searching
<1>6. costFromOrigin \in [Nodes -> Nat \cup {Infinity}]
  BY DEF SearchInv, TypeOK
<1>7. CASE Improves(e)
  <2>1. costFromOrigin' = [costFromOrigin EXCEPT ![d] = c]
    BY <1>7 DEF Relax
  <2>2. costFromOrigin'[d] = c /\ \A n \in Nodes : n # d => costFromOrigin'[n] = costFromOrigin[n]
    BY <2>1, <1>2, <1>6
  <2>3. d \in Reached => c < costFromOrigin[d]
    BY <1>7 DEF Improves, Reached
  <2>4. ASSUME NEW n \in Reached PROVE Estimate(n)' \in Nat /\ Estimate(n)' <= Estimate(n)
    <3>1. n \in Nodes /\ costFromOrigin[n] \in Nat
      BY <1>6 DEF Reached
    <3>2. costFromOrigin'[n] \in Nat /\ costFromOrigin'[n] <= costFromOrigin[n]
      BY <2>2, <2>3, <3>1, <1>2
    <3> HIDE DEF d, c
    <3> QED BY <3>1, <3>2, <1>4, <1>5 DEF Estimate
  <2>5. Reached \subseteq Reached' /\ d \in Reached'
    BY <2>2, <1>2 DEF Reached
  <2> QED BY <2>2, <2>4, <2>5, <1>4 DEF Estimate
<1>8. CASE ~Improves(e)
  <2>1. costFromOrigin' = costFromOrigin
    BY <1>8 DEF Relax
  <2>2. \A n : Estimate(n)' = Estimate(n)
    BY <2>1, <1>4 DEF Estimate
  <2>3. \A n \in Reached : Estimate(n) \in Nat
    BY <1>1, EstimateType DEF Searching
  <2> QED BY <1>8, <2>1, <2>2, <2>3 DEF Reached
<1> QED BY <1>7, <1>8

LEMMA RelaxTyped ==
  ASSUME SearchInv, NEW e \in pending, Relax(e)
  PROVE  SearchInv'
<1> DEFINE d == destination(e)
           c == candidateCost(e)
           x == Entry(Head(todo), d, c)
<1>1. pc = "relax" /\ pc' = "relax" /\ todo' = todo /\ todo # <<>> /\ current' = current
  BY DEF Relax, SearchInv, Searching
<1>2. e \in Edges /\ d \in Nodes /\ c \in Nat
  BY <1>1, Candidate
<1>3. /\ x \in [node : Nodes, priority : Nat] /\ x.node = d
      /\ x.priority = c + heuristic(Head(todo), d)
  BY <1>1, <1>2, HeadType, EntryType DEF SearchInv, Searching
<1>4. open' = IF Improves(e) THEN open \cup {x} ELSE open
  BY DEF Relax
<1>5. TypeOK'
  <2>1. open' \subseteq [node : Nodes, priority : Nat]
    BY <1>3, <1>4 DEF SearchInv, TypeOK
  <2>2. costFromOrigin' \in [Nodes -> Nat \cup {Infinity}]
    BY <1>2 DEF Relax, SearchInv, TypeOK
  <2>3. previousEdge' \in [Nodes -> Edges \cup {None}]
    BY <1>2 DEF Relax, SearchInv, TypeOK
  <2>4. \A f \in pending' : f \in Edges /\ source(f) = current'
    BY DEF Relax, SearchInv, TypeOK
  <2> QED BY <1>1, <2>1, <2>2, <2>3, <2>4 DEF Relax, graph, SearchInv, TypeOK
<1>6. current \in Reached
  BY <1>1, <1>2, Candidate DEF Reached, SearchInv
<1>7. costFromOrigin'[current'] # Infinity
  BY <1>1, <1>6, RelaxEstimates DEF Reached
<1>8. ASSUME NEW y \in open' PROVE costFromOrigin'[y.node] # Infinity /\ y.priority >= Estimate(y.node)'
  <2>1. CASE y \in open
    <3>1. y.node \in Reached /\ y.priority \in Nat /\ y.priority >= Estimate(y.node)
      BY <2>1 DEF Reached, SearchInv, TypeOK
    <3>2. Estimate(y.node) \in Nat
      BY <3>1, <1>1, EstimateType DEF Searching
    <3>3. Estimate(y.node)' \in Nat /\ Estimate(y.node)' <= Estimate(y.node) /\ y.node \in Reached'
      BY <3>1, RelaxEstimates
    <3>4. costFromOrigin'[y.node] # Infinity
      BY <3>3 DEF Reached
    <3>5. \A i, j, k \in Nat : i >= j /\ k <= j => i >= k
      OBVIOUS
    <3> QED BY <3>1, <3>2, <3>3, <3>4, <3>5
  <2>2. CASE y \notin open
    <3>1. Improves(e) /\ y = x
      BY <2>2, <1>4
    <3>2. Estimate(d)' = x.priority /\ costFromOrigin'[d] # Infinity
      BY <3>1, <1>3, RelaxEstimates DEF Reached
    <3>3. x.priority \in Nat
      BY <1>3
    <3> QED BY <3>1, <3>2, <3>3, <1>3
  <2> QED BY <2>1, <2>2
<1> QED BY <1>1, <1>5, <1>7, <1>8 DEF SearchInv

LEMMA TraceTyped == SearchInv /\ Trace => SearchInv'
<1> SUFFICES ASSUME SearchInv, Trace PROVE SearchInv'
  OBVIOUS
<1> DEFINE e == previousEdge[current]
<1>1. e \in Edges
  BY DEF Trace, SearchInv, TypeOK
<1>2. e[1] \in Segments /\ source(e) \in Nodes /\ source(e) # None
  BY <1>1, EdgeEnds, Assumed DEF SearchAssumption
<1>3. distance[e[1]] \in Nat /\ risk[e[1]] \in Nat
  BY <1>2, RoadType DEF SearchInv
<1>4. distanceWeightedRisk(e) \in Nat
  <2>1. \A j, k \in Nat : j * k \in Nat
    OBVIOUS
  <2> QED BY <2>1, <1>3 DEF distanceWeightedRisk, weightedRisk
<1>5. traced' \in [length : Nat, exposure : Nat]
  BY <1>3, <1>4 DEF Trace, SearchInv, TypeOK
<1>6. TypeOK'
  BY <1>2, <1>5 DEF Trace, graph, search, SearchInv, TypeOK
<1>7. \A n : Estimate(n)' = Estimate(n)
  BY GraphStays DEF Estimate, Trace, search
<1> QED BY <1>6, <1>7 DEF Trace, search, SearchInv

LEMMA NextSearchInv == SearchInv /\ [Next]_vars => SearchInv'
<1> SUFFICES ASSUME SearchInv, [Next]_vars PROVE SearchInv'
  OBVIOUS
<1>1. CASE Begin
  BY <1>1, BeginTyped
<1>2. CASE \E x \in open : SkipStale(x) \/ Expand(x)
  BY <1>2, ExpandTyped
<1>3. CASE \E e \in pending : Relax(e)
  BY <1>3, RelaxTyped
<1>4. CASE Relaxed \/ Return \/ UNCHANGED vars
  <2>1. UNCHANGED <<graph, todo, search, pending, traced, routes>>
    BY <1>4 DEF Relaxed, Return, vars
  <2>2. TypeOK'
    <3>1. CASE Relaxed
      BY <2>1, <3>1 DEF Relaxed, graph, search, SearchInv, TypeOK
    <3>2. CASE Return
      BY <2>1, <3>2 DEF Return, graph, search, SearchInv, TypeOK
    <3>3. CASE UNCHANGED vars
      BY <2>1, <3>3 DEF vars, graph, search, SearchInv, TypeOK
    <3> QED BY <1>4, <3>1, <3>2, <3>3
  <2>3. \A n : Estimate(n)' = Estimate(n)
    BY <2>1, GraphStays DEF Estimate, search
  <2>4. pc' \in Searching => todo' # <<>>
    BY <1>4 DEF Relaxed, Return, vars, SearchInv, Searching
  <2>5. pc' = "relax" => costFromOrigin'[current'] # Infinity
    BY <1>4, <2>1 DEF Relaxed, Return, vars, search, SearchInv
  <2> QED BY <2>1, <2>2, <2>3, <2>4, <2>5 DEF search, SearchInv
<1>5. CASE Exhausted \/ Traced
  <2>1. pc \in Searching /\ pc # "relax"
    BY <1>5 DEF Exhausted, Traced, Searching
  <2>2. pending = {}
    BY <2>1 DEF SearchInv, TypeOK
  <2> QED BY <1>5, <2>1, <2>2, FinishTyped DEF Exhausted, Traced
<1>6. CASE Trace
  BY <1>6, TraceTyped
<1> QED BY <1>1, <1>2, <1>3, <1>4, <1>5, <1>6 DEF Next, Step, Ended

\* The variables of the search hold together at every step: the costs of queued
\* and expanded nodes are known, and the queue holds them at no less.
THEOREM SearchTypeCorrect == Spec => []TypeOK
<1>1. SearchInv => TypeOK
  BY DEF SearchInv
<1> QED BY <1>1, InitSearchInv, NextSearchInv, PTL DEF Spec

-----------------------------------------------------------------------------
\* E, the nodes expanded by this search: what the queue holds of them is stale,
\* and the last of them was expanded at the greatest estimate.
Expanded(E) ==
  /\ E \subseteq Reached
  /\ Cardinality(E) = exploredNodes
  /\ \A n \in E : \A x \in open : /\ Estimate(n) <= x.priority
                                  /\ x.node = n => x.priority # Estimate(n)
  /\ pc = "relax" => current \in E /\ \A n \in E : Estimate(n) <= Estimate(current)

LEMMA ReachedFinite == IsFiniteSet(Reached)
BY Assumed, FS_Subset DEF Reached, SearchAssumption

\* Before a search and after it, there is nothing in the queue.
LEMMA NoneExpanded == (exploredNodes = 0 /\ open = {} /\ pc # "relax") => Expanded({})
BY FS_EmptySet DEF Expanded

LEMMA ExpandOnce ==
  ASSUME SearchInv, NEW x \in open, Expand(x), NEW E, Expanded(E)
  PROVE  Expanded(E \cup {x.node})'
<1> DEFINE n0 == x.node
           F == E \cup {n0}
<1>0. \A n \in E : \A y \in open : /\ Estimate(n) <= y.priority
                                   /\ y.node = n => y.priority # Estimate(n)
  BY DEF Expanded
<1>1. /\ pc = "search" /\ open' = open \ {x} /\ costFromOrigin' = costFromOrigin /\ todo' = todo
      /\ UNCHANGED graph /\ current' = n0 /\ exploredNodes' = exploredNodes + 1
  BY DEF Expand, Visit, graph
<1>2. \A n : Estimate(n)' = Estimate(n)
  BY <1>1, GraphStays DEF Estimate
<1>3. Reached' = Reached /\ n0 \in Reached
  BY <1>1 DEF Reached, SearchInv, TypeOK
<1>4. \A n \in Reached : Estimate(n) \in Nat
  BY <1>1, EstimateType DEF Searching
<1>5. \A y \in open : y \in [node : Nodes, priority : Nat]
  BY DEF SearchInv, TypeOK
<1>6. x.priority = Estimate(n0)
  <2>1. ~(x.priority > Estimate(n0))
    BY DEF Expand, Visit, Stale, Estimate
  <2>2. x.priority >= Estimate(n0) /\ x.priority \in Nat
    BY <1>5 DEF SearchInv
  <2> QED BY <2>1, <2>2, <1>3, <1>4
<1>7. n0 \notin E
  BY <1>0, <1>6
<1>8. \A y \in open : Estimate(n0) <= y.priority
  BY <1>6 DEF Expand, Visit, Least
<1>9. Cardinality(F) = exploredNodes'
  <2>1. IsFiniteSet(E)
    BY ReachedFinite, FS_Subset DEF Expanded
  <2> QED BY <2>1, <1>1, <1>7, FS_AddElement DEF Expanded
<1>10. ASSUME NEW n \in F, NEW y \in open'
       PROVE  Estimate(n) <= y.priority /\ (y.node = n => y.priority # Estimate(n))
  <2>1. y \in open /\ y # x
    BY <1>1
  <2>2. CASE n \in E
    BY <2>1, <2>2, <1>0
  <2>3. CASE n = n0
    <3>1. y.node = n0 => y.priority # x.priority
      BY <2>1, <1>5
    <3> QED BY <2>1, <2>3, <3>1, <1>6, <1>8
  <2> QED BY <2>2, <2>3
<1>11. \A n \in F : Estimate(n) <= Estimate(n0)
  <2>1. \A n \in E : Estimate(n) <= Estimate(n0)
    BY <1>0, <1>6
  <2>2. Estimate(n0) <= Estimate(n0)
    BY <1>3, <1>4
  <2> QED BY <2>1, <2>2
<1>12. F \subseteq Reached'
  BY <1>3 DEF Expanded
<1>13. Estimate(current)' = Estimate(n0)
  BY <1>1, GraphStays DEF Estimate
<1>14. \A n \in F : \A y \in open' : /\ Estimate(n)' <= y.priority
                                     /\ y.node = n => y.priority # Estimate(n)'
  BY <1>2, <1>10
<1>15. n0 \in F /\ \A n \in F : Estimate(n)' <= Estimate(current)'
  BY <1>2, <1>11, <1>13
<1> HIDE DEF F, n0
<1>16. Expanded(F)'
  BY <1>1, <1>9, <1>12, <1>14, <1>15 DEF Expanded
<1> QED BY <1>16 DEF F, n0

\* An edge from the node expanded last improves none that was expanded.
LEMMA NotImproved ==
  ASSUME SearchInv, Straight, NEW e \in pending, Relax(e), NEW E, Expanded(E)
  PROVE  /\ \A n \in E : Estimate(n) <= candidateCost(e) + heuristic(Head(todo), destination(e))
         /\ Improves(e) => destination(e) \notin E
<1> DEFINE d == destination(e)
           c == candidateCost(e)
           h == heuristic(Head(todo), d)
<1>1. pc = "relax"
  BY DEF Relax
<1>2. /\ e \in Edges /\ source(e) = current /\ current \in Nodes /\ d \in Nodes /\ c \in Nat
      /\ costFromOrigin[current] \in Nat /\ c = costFromOrigin[current] + edgeCost(Head(todo), e)
  BY <1>1, Candidate
<1>3. /\ h \in Nat /\ heuristic(Head(todo), current) \in Nat /\ edgeCost(Head(todo), e) \in Nat
      /\ heuristic(Head(todo), current) <= edgeCost(Head(todo), e) + h
  BY <1>1, <1>2, HeadType, Costs, Consistent DEF SearchInv, Searching
<1>4. Estimate(current) <= c + h
  BY <1>2, <1>3 DEF Estimate
<1>5. \A n \in Reached : Estimate(n) \in Nat
  BY <1>1, EstimateType DEF Searching
<1>6. current \in E /\ E \subseteq Reached /\ \A n \in E : Estimate(n) <= Estimate(current)
  BY <1>1 DEF Expanded
<1>7. ASSUME NEW n \in E PROVE Estimate(n) <= c + h
  <2>1. \A i, j, k \in Nat : i <= j /\ j <= k => i <= k
    OBVIOUS
  <2>2. Estimate(n) \in Nat /\ Estimate(current) \in Nat /\ c + h \in Nat
    BY <1>2, <1>3, <1>5, <1>6
  <2> QED BY <2>1, <2>2, <1>4, <1>6
<1>8. Improves(e) => d \notin E
  <2>1. SUFFICES ASSUME Improves(e), d \in E PROVE FALSE
    OBVIOUS
  <2>2. costFromOrigin[d] \in Nat /\ c < costFromOrigin[d]
    BY <2>1, <1>2, <1>6 DEF Improves, Reached, SearchInv, TypeOK
  <2>3. Estimate(d) = costFromOrigin[d] + h
    BY DEF Estimate
  <2>4. Estimate(d) <= c + h
    BY <2>1, <1>7
  <2> HIDE DEF d, c, h
  <2> QED BY <2>2, <2>3, <2>4, <1>2, <1>3
<1> QED BY <1>7, <1>8

LEMMA RelaxOnce ==
  ASSUME SearchInv, Straight, NEW e \in pending, Relax(e), NEW E, Expanded(E)
  PROVE  Expanded(E)'
<1> DEFINE d == destination(e)
           c == candidateCost(e)
           h == heuristic(Head(todo), d)
<1>0. \A n \in E : \A y \in open : /\ Estimate(n) <= y.priority
                                   /\ y.node = n => y.priority # Estimate(n)
  BY DEF Expanded
<1>1. /\ pc = "relax" /\ pc' = "relax" /\ current' = current /\ exploredNodes' = exploredNodes
      /\ todo' = todo
  BY DEF Relax
<1>6. current \in E /\ E \subseteq Reached /\ \A n \in E : Estimate(n) <= Estimate(current)
  BY <1>1 DEF Expanded
<1>7. \A n \in E : Estimate(n) <= c + h
  BY NotImproved
<1>8. Improves(e) => d \notin E
  BY NotImproved
<1>9. Improves(e) => \A n \in E : Estimate(n)' = Estimate(n)
  BY <1>6, <1>8, RelaxEstimates DEF Reached
<1>10. ~Improves(e) => \A n \in E : Estimate(n)' = Estimate(n)
  <2>1. ~Improves(e) => costFromOrigin' = costFromOrigin
    BY DEF Relax
  <2>2. UNCHANGED graph
    BY DEF Relax
  <2> QED BY <1>1, <2>1, <2>2, GraphStays DEF Estimate
<1>11. \A n \in E : Estimate(n)' = Estimate(n)
  BY <1>9, <1>10
<1>12. E \subseteq Reached'
  BY <1>6, RelaxEstimates
<1>13. ASSUME NEW n \in E, NEW y \in open'
       PROVE  Estimate(n) <= y.priority /\ (y.node = n => y.priority # Estimate(n))
  <2>1. CASE y \in open
    BY <2>1, <1>0
  <2>2. CASE y \notin open
    <3>1. Improves(e) /\ y = Entry(Head(todo), d, c)
      BY <2>2 DEF Relax
    <3>2. y.node = d /\ y.priority = c + h
      BY <3>1 DEF Entry
    <3> QED BY <3>1, <3>2, <1>7, <1>8
  <2> QED BY <2>1, <2>2
<1>14. \A n \in E : \A y \in open' : /\ Estimate(n)' <= y.priority
                                     /\ y.node = n => y.priority # Estimate(n)'
  BY <1>11, <1>13
<1>15. Estimate(current)' = Estimate(current)
  <2>1. Estimate(current)' = costFromOrigin'[current] + heuristic(Head(todo), current)'
    BY <1>1, GraphStays DEF Estimate, Relax
  <2>2. (\A n \in E : Estimate(n)' = Estimate(n)) => costFromOrigin'[current] + heuristic(Head(todo), current)' = Estimate(current)
    BY <1>1, <1>6, GraphStays DEF Estimate, Relax
  <2> QED BY <2>1, <2>2, <1>11
<1>16. \A n \in E : Estimate(n)' <= Estimate(current)'
  BY <1>6, <1>11, <1>15
<1> QED BY <1>1, <1>6, <1>12, <1>14, <1>16 DEF Expanded

OnceInv == Straight => \E E : Expanded(E)

LEMMA NextOnceInv == SearchInv /\ OnceInv /\ [Next]_vars => OnceInv'
<1> SUFFICES ASSUME SearchInv, OnceInv, [Next]_vars, Straight'
             PROVE  \E E : Expanded(E)'
  BY DEF OnceInv
<1>1. UNCHANGED graph
  BY DEF Next, Step, Begin, SkipStale, Discard, Expand, Visit, Relax, Relaxed, Exhausted, Trace, Traced, Finish,
         Return, Ended, vars, graph
<1>2. Straight
  BY <1>1, GraphStays
<1>3. PICK E : Expanded(E)
  BY <1>2 DEF OnceInv
<1>4. CASE Begin \/ Exhausted \/ Traced
  <2>1. exploredNodes' = 0 /\ pc' \in {"search", "begin"}
    BY <1>4 DEF Begin, Begun, Exhausted, Traced, Finish, Idle
  <2>2. Expanded({})'
    BY <2>1, FS_EmptySet DEF Expanded
  <2> QED BY <2>2
<1>5. CASE \E x \in open : Expand(x)
  BY <1>3, <1>5, ExpandOnce
<1>6. CASE \E e \in pending : Relax(e)
  BY <1>2, <1>3, <1>6, RelaxOnce
<1>7. CASE Trace \/ Relaxed \/ Return \/ UNCHANGED vars \/ \E x \in open : SkipStale(x)
  <2>1. /\ UNCHANGED <<costFromOrigin, exploredNodes, todo>> /\ open' \subseteq open
        /\ pc' = "relax" => pc' = pc /\ current' = current
    <3>1. CASE Trace
      BY <3>1 DEF Trace, search
    <3>2. CASE Relaxed
      BY <3>2 DEF Relaxed, search
    <3>3. CASE Return
      BY <3>3 DEF Return, search
    <3>4. CASE UNCHANGED vars
      BY <3>4 DEF vars, search
    <3>5. CASE \E x \in open : SkipStale(x)
      BY <3>5 DEF SkipStale, Discard
    <3> QED BY <1>7, <3>1, <3>2, <3>3, <3>4, <3>5
  <2>2. \A n : Estimate(n)' = Estimate(n)
    BY <1>1, <2>1, GraphStays DEF Estimate
  <2>3. pc' = "relax" => Estimate(current)' = Estimate(current)
    BY <1>1, <2>1, GraphStays DEF Estimate
  <2>4. Expanded(E)'
    BY <1>3, <2>1, <2>2, <2>3 DEF Expanded, Reached
  <2> QED BY <2>4
<1> QED BY <1>4, <1>5, <1>6, <1>7 DEF Next, Step, Ended

\* However often a node is queued, it is expanded once in a search if no road is
\* shorter than the straight line between its ends.
THEOREM NoNodeTwice == Spec => []ExploredOnce
<1>1. Init => OnceInv
  <2>1. Init => Expanded({})
    BY NoneExpanded DEF Init
  <2> QED BY <2>1 DEF OnceInv
<1>2. OnceInv => ExploredOnce
  BY ReachedFinite, FS_Subset DEF OnceInv, Expanded, ExploredOnce
<1> QED BY <1>1, <1>2, InitSearchInv, NextSearchInv, NextOnceInv, PTL DEF Spec

=============================================================================
