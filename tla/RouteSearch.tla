---------------------------- MODULE RouteSearch ----------------------------
(***************************************************************************)
(* RouteService.calculate after its lookup in the cache: a road graph is   *)
(* loaded and A* runs on it once for each preference that was asked for.   *)
(*                                                                         *)
(* Every iteration of a loop of aStar is a step, so that the properties    *)
(* can speak of the open queue, the costs and the edges found so far.  The *)
(* queue yields some entry of least priority; which one the heap yields    *)
(* when several have it, and the order of a node's edges (that of the rows *)
(* of an unordered query), are left open.                                  *)
(*                                                                         *)
(* Risks are in tenths, and every cost is a hundred times the program's.   *)
(***************************************************************************)
EXTENDS Integers, Sequences, FiniteSets

CONSTANTS
  Nodes,          \* road nodes
  Segments,       \* active road segments
  Ends,           \* the source and the destination of each segment
  OneWay,         \* the segments that are not bidirectional
  Roads,          \* what the length and the weighted risk of a segment can be
  Crow,           \* what the straight-line distance of each node from the destination can be
  Origins, Destination,
  Preferences,    \* the preferences asked for, in order
  Infinity,       \* the cost of a node not reached
  None            \* no node, no edge

Profiles == {"FASTEST", "BALANCED", "SAFEST"}

\* What RoadGraph.addEdge and the schema of the request accept.
ASSUME SearchAssumption ==
  /\ IsFiniteSet(Nodes) /\ None \notin Nodes /\ Infinity \notin Nat
  /\ Ends \in [Segments -> Nodes \X Nodes]
  /\ OneWay \subseteq Segments
  /\ Roads \subseteq [distance : Nat \ {0}, risk : 0..10]
  /\ Crow \in [Nodes -> SUBSET Nat]
  /\ Origins \subseteq Nodes \ {Destination} /\ Destination \in Nodes
  /\ Preferences \in Seq(Profiles)

\* mapEdge, and its reverse if the segment is bidirectional
Edges == (Segments \X {"forward"}) \cup ((Segments \ OneWay) \X {"reverse"})

ASSUME NoneAssumption == None \notin Edges

\* A graph is the rows of one query.
ASSUME GraphAssumption == IsFiniteSet(Segments)

source(e) == IF e[2] = "forward" THEN Ends[e[1]][1] ELSE Ends[e[1]][2]
destination(e) == IF e[2] = "forward" THEN Ends[e[1]][2] ELSE Ends[e[1]][1]

VARIABLES
  distance,        \* the graph: the length of each segment,
  risk,            \*   its risk,
  crow,            \*   the distance of each node from the destination by haversine
  origin,          \* the node the routes are to start from
  todo,            \* preferences not calculated yet; the first is being calculated
  pc,              \* where the calculation is
  open,            \* entries of the queue
  costFromOrigin,  \* least cost found
  previousEdge,    \* the edge by which it was found
  current,         \* the node that is expanded, or visited on the way back
  pending,         \* its edges that are still to be looked at
  exploredNodes,   \* nodes expanded by this search
  traced,          \* length and exposure of the edges reconstructed so far
  routes           \* the routes found, by preference

graph == <<distance, risk, crow, origin>>
search == <<open, costFromOrigin, previousEdge, exploredNodes>>
vars == <<graph, todo, pc, search, current, pending, traced, routes>>

-----------------------------------------------------------------------------
(* Scoring *)

distanceWeight == [FASTEST |-> 9, BALANCED |-> 5, SAFEST |-> 2]

\* Mutant: the weights of two profiles are exchanged.
safetyWeightExchanged == [FASTEST |-> 8, BALANCED |-> 5, SAFEST |-> 1]

safetyWeight == [FASTEST |-> 1, BALANCED |-> 5, SAFEST |-> 8]

\* RiskCalculator.calculate: the five factors of a segment, weighted
weightedRisk(e) == risk[e[1]]

\* EdgeCostCalculator.calculate
edgeCost(p, e) ==
  10 * distanceWeight[p] * distance[e[1]] + 2 * safetyWeight[p] * weightedRisk(e) * distance[e[1]]

\* From a node to the destination in a straight line
haversineDistance(n) == crow[n]

\* RouteEngine.heuristic
heuristic(p, n) == 10 * distanceWeight[p] * haversineDistance(n)

\* What an edge adds to the sum of RouteEngine.distanceWeightedRisk
distanceWeightedRisk(e) == weightedRisk(e) * distance[e[1]]

-----------------------------------------------------------------------------
Reached == {n \in Nodes : costFromOrigin[n] # Infinity}

Entry(p, n, cost) == [node |-> n, priority |-> cost + heuristic(p, n)]

NoRoute == [found |-> FALSE]
NoTrace == [length |-> 0, exposure |-> 0]

\* aStar up to its loop
Begun(p) ==
  /\ open' = {Entry(p, origin, 0)}
  /\ costFromOrigin' = [n \in Nodes |-> IF n = origin THEN 0 ELSE Infinity]
  /\ previousEdge' = [n \in Nodes |-> None]
  /\ exploredNodes' = 0

\* Nothing is being searched.
Idle ==
  /\ open' = {}
  /\ costFromOrigin' = [n \in Nodes |-> Infinity]
  /\ previousEdge' = [n \in Nodes |-> None]
  /\ exploredNodes' = 0

\* RoadGraphRepository.load returns some graph.
Init ==
  /\ \E road \in [Segments -> Roads] :
       /\ distance = [s \in Segments |-> road[s].distance]
       /\ risk = [s \in Segments |-> road[s].risk]
  /\ crow \in [Nodes -> UNION {Crow[n] : n \in Nodes}]
  /\ \A n \in Nodes : crow[n] \in Crow[n]
  /\ crow[Destination] = 0
  /\ origin \in Origins
  /\ todo = Preferences
  /\ pc = "begin"
  /\ open = {}
  /\ costFromOrigin = [n \in Nodes |-> Infinity]
  /\ previousEdge = [n \in Nodes |-> None]
  /\ exploredNodes = 0
  /\ current = None
  /\ pending = {}
  /\ traced = NoTrace
  /\ routes = [p \in {} |-> NoRoute]

-----------------------------------------------------------------------------
(* aStar *)

Begin ==
  /\ pc = "begin"
  /\ todo # <<>>
  /\ Begun(Head(todo))
  /\ pc' = "search"
  /\ UNCHANGED <<graph, todo, current, pending, traced, routes>>

\* dequeue
Least(x) == x \in open /\ \A y \in open : x.priority <= y.priority

Stale(x) == x.priority > costFromOrigin[x.node] + heuristic(Head(todo), x.node)

\* the entry that was taken off the queue is stale: continue
Discard(x) ==
  /\ Stale(x)
  /\ open' = open \ {x}
  /\ UNCHANGED <<graph, todo, pc, costFromOrigin, previousEdge, exploredNodes, current, pending, traced, routes>>

\* Mutant: stale entries are expanded like others.
VisitAny(x) ==
  /\ open' = open \ {x}
  /\ exploredNodes' = exploredNodes + 1
  /\ current' = x.node
  /\ IF x.node = Destination
     THEN pc' = "trace" /\ pending' = {}
     ELSE pc' = "relax" /\ pending' = {e \in Edges : source(e) = x.node}
  /\ UNCHANGED <<graph, todo, costFromOrigin, previousEdge, traced, routes>>

\* or its node is expanded, or is the destination
Visit(x) ==
  /\ ~Stale(x)
  /\ open' = open \ {x}
  /\ exploredNodes' = exploredNodes + 1
  /\ current' = x.node
  /\ IF x.node = Destination
     THEN pc' = "trace" /\ pending' = {}
     ELSE pc' = "relax" /\ pending' = {e \in Edges : source(e) = x.node}
  /\ UNCHANGED <<graph, todo, costFromOrigin, previousEdge, traced, routes>>

SkipStale(x) == pc = "search" /\ Least(x) /\ Discard(x)
Expand(x)    == pc = "search" /\ Least(x) /\ Visit(x)

candidateCost(e) == costFromOrigin[current] + edgeCost(Head(todo), e)

\* Mutant: a node that was reached is not looked at again.
ImprovesUnreached(e) == costFromOrigin[destination(e)] = Infinity

\* Mutant: the last way found counts, not the cheapest.
ImprovesByAny(e) == candidateCost(e) # costFromOrigin[destination(e)]

Improves(e) ==
  costFromOrigin[destination(e)] = Infinity \/ candidateCost(e) < costFromOrigin[destination(e)]

\* Mutant: the edge by which a node was first found is kept.
RelaxFirstEdge(e) ==
  /\ pc = "relax"
  /\ e \in pending
  /\ pending' = pending \ {e}
  /\ IF Improves(e)
     THEN /\ costFromOrigin' = [costFromOrigin EXCEPT ![destination(e)] = candidateCost(e)]
          /\ previousEdge' = [previousEdge EXCEPT ![destination(e)] = IF @ = None THEN e ELSE @]
          /\ open' = open \cup {Entry(Head(todo), destination(e), candidateCost(e))}
     ELSE UNCHANGED <<costFromOrigin, previousEdge, open>>
  /\ UNCHANGED <<graph, todo, pc, exploredNodes, current, traced, routes>>

\* One round of the loop over the neighbours.  (No edge lowers the cost of the
\* node that is being expanded, so currentCost is its cost throughout.)
Relax(e) ==
  /\ pc = "relax"
  /\ e \in pending
  /\ pending' = pending \ {e}
  /\ IF Improves(e)
     THEN /\ costFromOrigin' = [costFromOrigin EXCEPT ![destination(e)] = candidateCost(e)]
          /\ previousEdge' = [previousEdge EXCEPT ![destination(e)] = e]
          /\ open' = open \cup {Entry(Head(todo), destination(e), candidateCost(e))}
     ELSE UNCHANGED <<costFromOrigin, previousEdge, open>>
  /\ UNCHANGED <<graph, todo, pc, exploredNodes, current, traced, routes>>

\* Mutant: the loop over the neighbours ends with the first of them.
RelaxedEarly ==
  /\ pc = "relax"
  /\ pc' = "search"
  /\ current' = None
  /\ UNCHANGED <<graph, todo, search, pending, traced, routes>>

Relaxed ==
  /\ pc = "relax"
  /\ pending = {}
  /\ pc' = "search"
  /\ current' = None
  /\ UNCHANGED <<graph, todo, search, pending, traced, routes>>

\* The result of the current search is known, and the next may begin.
Finish(route) ==
  /\ routes' = [p \in DOMAIN routes \cup {Head(todo)} |-> IF p = Head(todo) THEN route ELSE routes[p]]
  /\ todo' = Tail(todo)
  /\ pc' = "begin"
  /\ current' = None
  /\ traced' = NoTrace
  /\ Idle
  /\ UNCHANGED <<graph, pending>>

\* The queue is empty: null.
Exhausted ==
  /\ pc = "search"
  /\ open = {}
  /\ Finish(NoRoute)

-----------------------------------------------------------------------------
(* reconstructPath, and what RouteEngine.calculate sums up over its edges *)

Trace ==
  /\ pc = "trace"
  /\ previousEdge[current] # None
  /\ LET e == previousEdge[current]
     IN  /\ traced' = [length |-> traced.length + distance[e[1]],
                       exposure |-> traced.exposure + distanceWeightedRisk(e)]
         /\ current' = source(e)
  /\ UNCHANGED <<graph, todo, pc, search, pending, routes>>

Traced ==
  /\ pc = "trace"
  /\ previousEdge[current] = None
  /\ Finish([found |-> TRUE, from |-> current, totalCost |-> costFromOrigin[Destination],
             length |-> traced.length, exposure |-> traced.exposure, exploredNodes |-> exploredNodes])

Step ==
  \/ Begin
  \/ \E x \in open : SkipStale(x) \/ Expand(x)
  \/ \E e \in pending : Relax(e)
  \/ Relaxed \/ Exhausted \/ Trace \/ Traced

\* The routes are returned, or there are none and the request is refused.
Return ==
  /\ pc = "begin"
  /\ todo = <<>>
  /\ pc' = IF \E p \in DOMAIN routes : routes[p].found THEN "returned" ELSE "refused"
  /\ UNCHANGED <<graph, todo, search, current, pending, traced, routes>>

Ended == pc \in {"returned", "refused"} /\ UNCHANGED vars

Next == Step \/ Return \/ Ended

Spec == Init /\ [][Next]_vars

\* The loops run on: nothing blocks in them.
FairSpec == Spec /\ WF_vars(Step \/ Return)

-----------------------------------------------------------------------------
(* Properties *)

TypeOK ==
  /\ \A s \in Segments : [distance |-> distance[s], risk |-> risk[s]] \in Roads
  /\ crow \in [Nodes -> Nat]
  /\ origin \in Origins
  /\ todo \in Seq(Profiles)
  /\ pc \in {"begin", "search", "relax", "trace", "returned", "refused"}
  /\ open \subseteq [node : Nodes, priority : Nat]
  /\ costFromOrigin \in [Nodes -> Nat \cup {Infinity}]
  /\ previousEdge \in [Nodes -> Edges \cup {None}]
  /\ current \in Nodes \cup {None}
  /\ current # None <=> pc \in {"relax", "trace"}
  /\ pending \subseteq Edges
  /\ pc # "relax" => pending = {}
  /\ \A e \in pending : source(e) = current
  /\ exploredNodes \in Nat
  /\ traced \in [length : Nat, exposure : Nat]
  /\ DOMAIN routes \subseteq Profiles

\* No road is shorter than the line between its ends, and lines obey the
\* triangle inequality.  Nothing in the program or its schema requires the first,
\* so the properties that need it name it.
Straight ==
  \A s \in Segments : /\ crow[Ends[s][1]] <= distance[s] + crow[Ends[s][2]]
                      /\ crow[Ends[s][2]] <= distance[s] + crow[Ends[s][1]]

Found(p) == p \in DOMAIN routes /\ routes[p].found

\* What the edges of a way cost together, by its length and its exposure.
costOf(p, way) == 10 * distanceWeight[p] * way.length + 2 * safetyWeight[p] * way.exposure

\* Reference: the ways from each node to the destination that keep off the nodes
\* visited before and visit none twice, by their length and their exposure, over
\* edges of the lengths and exposures given.
Onward(visited, n) == {e \in Edges : source(e) = n /\ destination(e) \notin visited \cup {n}}
Longer(way, edge)  == [length |-> way.length + edge.length, exposure |-> way.exposure + edge.exposure]

WaysBeyond(edges, ways, visited) ==
  [n \in Nodes \ visited |->
     IF n = Destination THEN {NoTrace}
     ELSE UNION {{Longer(way, edges[e]) : way \in ways[visited \cup {n}][destination(e)]} : e \in Onward(visited, n)}]

WaysOver(edges) ==
  LET ways[visited \in SUBSET Nodes] == WaysBeyond(edges, ways, visited)
  IN  ways

edgesNow == [e \in Edges |-> [length |-> distance[e[1]], exposure |-> distanceWeightedRisk(e)]]

\* From the origin to the destination
Ways == WaysOver(edgesNow)[{}][origin]

\* What the cheapest of them costs
Best(p) ==
  LET costs == {costOf(p, way) : way \in Ways}
  IN  IF costs = {} THEN Infinity ELSE CHOOSE c \in costs : \A d \in costs : c <= d

\* There is a route for a preference whenever the destination can be reached;
\* and it costs as little as any if no road is shorter than a straight line.
Optimal ==
  pc \in {"returned", "refused"} =>
    \A p \in DOMAIN routes :
      LET best == Best(p)
      IN  /\ routes[p].found <=> best # Infinity
          /\ routes[p].found /\ Straight => routes[p].totalCost = best

\* The edges of a route are read from previousEdge when the costs they were
\* entered for may have been lowered since.  They lead from the origin all the
\* same, and what they cost is what the route is said to cost (optimizationCost),
\* even where the heuristic overestimates.
AddsUp ==
  \A p \in DOMAIN routes : Found(p) =>
    /\ routes[p].from = origin
    /\ routes[p].totalCost = costOf(p, routes[p])

\* Of the routes returned together, the one for the profile that weighs safety
\* more has no more exposure and no more risk on average (a safetyScore that is
\* no lower), and the other is no longer.
Tradeoff ==
  Straight =>
    \A p, q \in DOMAIN routes :
      Found(p) /\ Found(q) /\ distanceWeight[p] > distanceWeight[q] =>
        /\ routes[p].length <= routes[q].length
        /\ routes[q].exposure <= routes[p].exposure
        /\ routes[q].exposure * routes[p].length <= routes[p].exposure * routes[q].length

\* A node may be queued many times, but if no road is shorter than a straight
\* line no more nodes are expanded than were reached.
ExploredOnce == Straight => exploredNodes <= Cardinality(Reached)

\* What is left to do, most significant first: preferences and phases of their
\* searches, costs to be lowered, entries of the queue (or the cost of what is left
\* to trace), edges of the node that is expanded.
Phase == [begin |-> 3, search |-> 2, relax |-> 2, trace |-> 1, returned |-> 0, refused |-> 0]

Remaining ==
  [phases |-> 4 * Len(todo) + Phase[pc],
   costs  |-> costFromOrigin,
   queued |-> IF pc = "trace" THEN costFromOrigin[current] ELSE Cardinality(open),
   edges  |-> IF pc = "relax" THEN Cardinality(pending) + 1 ELSE 0]

Cheaper(f, g) ==
  /\ f # g
  /\ \A n \in Nodes : g[n] = Infinity \/ (f[n] # Infinity /\ f[n] <= g[n])

LessRemains(m, n) ==
  \/ m.phases < n.phases
  \/ m.phases = n.phases /\ Cheaper(m.costs, n.costs)
  \/ m.phases = n.phases /\ m.costs = n.costs /\ m.queued < n.queued
  \/ m.phases = n.phases /\ m.costs = n.costs /\ m.queued = n.queued /\ m.edges < n.edges

\* Stale entries, nodes that are found again and expanded again, ties and cycles:
\* whatever the order in which the queue yields them and wherever the heuristic is
\* wrong, no round of a loop is in vain, so that the loops end.
GetsOn == [][LessRemains(Remaining', Remaining)]_vars

\* Every request is answered.
Answered == <>(pc \in {"returned", "refused"})

=============================================================================
