--------------------------- MODULE RouteWaysProofs ---------------------------
(***************************************************************************)
(* What the routes of RouteSearch are, for any finite road network.        *)
(*                                                                         *)
(* The nodes reached make a tree by the edges they were found by.  Without *)
(* a consistent heuristic a node may be found again at a lower cost when   *)
(* others were already found from it, so that its tree is cheaper than     *)
(* what is stored of it.  But it then waits in the queue before all of     *)
(* these: while its tree is at work, what waits outside has no lower       *)
(* estimate, and from when something outside is expanded, nothing that     *)
(* waits inside has.  So no way back from the destination passes a node    *)
(* that waits, and costs add up along it.                                  *)
(*                                                                         *)
(* That the route is the cheapest is shown by an induction over the ways   *)
(* to the destination, from their ends.                                    *)
(*                                                                         *)
(* That the loops end is shown by what remains to be done, which every     *)
(* step lessens: costs fall, or else entries or edges are used up.  The    *)
(* order in which it does is well-founded.                                 *)
(***************************************************************************)
EXTENDS RouteSearchProofs, WellFoundedInduction

-----------------------------------------------------------------------------
(* Induction over numbers, by sets *)

LEMMA Minimum ==
  ASSUME NEW T, T \subseteq Nat, T # {}
  PROVE  \E x \in T : \A y \in T : x <= y
<1> DEFINE R == OpToRel(<, Nat)
<1>1. IsWellFoundedOn(R, Nat)
  BY NatLessThanWellFounded, Zenon
<1>2. \A x, y \in Nat : y < x => <<y, x>> \in R
  BY DEF OpToRel
<1> HIDE DEF R
<1>3. PICK x \in T : \A y \in T : ~(<<y, x>> \in R)
  BY <1>1, WFMin, Zenon
<1>4. \A y \in T : ~(y < x)
  BY <1>2, <1>3
<1> QED BY <1>4

LEMMA Induction ==
  ASSUME NEW S, 0 \in S, \A n \in Nat : n \in S => n + 1 \in S
  PROVE  Nat \subseteq S
<1> SUFFICES ASSUME Nat \ S # {} PROVE FALSE
  OBVIOUS
<1>1. PICK x \in Nat \ S : \A y \in Nat \ S : x <= y
  BY Minimum
<1>2. x # 0 /\ x - 1 \in Nat
  BY <1>1
<1>3. x - 1 \in S
  BY <1>1, <1>2
<1> QED BY <1>1, <1>2, <1>3

-----------------------------------------------------------------------------
(* The ways to the destination *)

\* How many nodes a way can still visit.
LeftTo(visited) == Cardinality(Nodes \ visited)

LEMMA LeftFalls ==
  /\ \A visited \in SUBSET Nodes : LeftTo(visited) \in Nat
  /\ \A visited \in SUBSET Nodes : \A n \in Nodes \ visited : LeftTo(visited \cup {n}) + 1 = LeftTo(visited)
<1>1. ASSUME NEW visited \in SUBSET Nodes PROVE IsFiniteSet(Nodes \ visited) /\ LeftTo(visited) \in Nat
  BY Assumed, FS_Subset, FS_CardinalityType DEF LeftTo, SearchAssumption
<1>2. ASSUME NEW visited \in SUBSET Nodes, NEW n \in Nodes \ visited
      PROVE  LeftTo(visited \cup {n}) + 1 = LeftTo(visited)
  <2>1. Nodes \ (visited \cup {n}) = (Nodes \ visited) \ {n}
    OBVIOUS
  <2>2. Cardinality((Nodes \ visited) \ {n}) = Cardinality(Nodes \ visited) - 1
    BY <1>1, FS_RemoveElement
  <2>3. LeftTo(visited \cup {n}) = LeftTo(visited) - 1
    BY <2>1, <2>2 DEF LeftTo
  <2>4. \A i \in Nat : (i - 1) + 1 = i
    OBVIOUS
  <2>5. LeftTo(visited) \in Nat
    BY <1>1
  <2> QED BY <2>3, <2>4, <2>5
<1> QED BY <1>1, <1>2

\* The ways beyond the nodes visited depend on those beyond one node more only.
LEMMA SameWaysBeyond ==
  ASSUME NEW edges, NEW f, NEW g, NEW visited \in SUBSET Nodes,
         \A n \in Nodes \ visited : f[visited \cup {n}] = g[visited \cup {n}]
  PROVE  WaysBeyond(edges, f, visited) = WaysBeyond(edges, g, visited)
<1> DEFINE Via(rests, n) == UNION {{Longer(way, edges[e]) : way \in rests[destination(e)]} : e \in Onward(visited, n)}
<1>1. \A h : WaysBeyond(edges, h, visited) =
             [n \in Nodes \ visited |-> IF n = Destination THEN {NoTrace} ELSE Via(h[visited \cup {n}], n)]
  BY DEF WaysBeyond
<1> HIDE DEF Via
<1> QED BY <1>1

\* The recursion is one: it visits more nodes each time, and they are finite in number.
LEMMA WaysDefined ==
  ASSUME NEW edges
  PROVE  WaysOver(edges) = [visited \in SUBSET Nodes |-> WaysBeyond(edges, WaysOver(edges), visited)]
<1> DEFINE Upto(f, k) == \A visited \in SUBSET Nodes :
                           LeftTo(visited) <= k => f[visited] = WaysBeyond(edges, f, visited)
           S == {k \in Nat : \E f : Upto(f, k)}
<1>1. SUFFICES \E f : f = [visited \in SUBSET Nodes |-> WaysBeyond(edges, f, visited)]
  BY DEF WaysOver
<1>2. 0 \in S
  <2> DEFINE f == [visited \in SUBSET Nodes |-> WaysBeyond(edges, {}, visited)]
  <2>1. ASSUME NEW visited \in SUBSET Nodes, LeftTo(visited) <= 0
        PROVE  f[visited] = WaysBeyond(edges, f, visited)
    <3>1. \A n \in Nodes \ visited : FALSE
      <4> SUFFICES ASSUME NEW n \in Nodes \ visited PROVE FALSE
        OBVIOUS
      <4>1. LeftTo(visited \cup {n}) \in Nat /\ LeftTo(visited \cup {n}) + 1 = LeftTo(visited)
        BY LeftFalls
      <4> QED BY <4>1, <2>1
    <3>2. WaysBeyond(edges, {}, visited) = WaysBeyond(edges, f, visited)
      BY <3>1, SameWaysBeyond
    <3> QED BY <3>2
  <2>2. Upto(f, 0)
    BY <2>1
  <2> QED BY <2>2
<1>3. ASSUME NEW k \in Nat, k \in S PROVE k + 1 \in S
  <2>1. PICK f : Upto(f, k)
    BY <1>3
  <2> DEFINE g == [visited \in SUBSET Nodes |-> WaysBeyond(edges, f, visited)]
  <2>2. \A visited \in SUBSET Nodes : LeftTo(visited) <= k => g[visited] = f[visited]
    BY <2>1
  <2>3. ASSUME NEW visited \in SUBSET Nodes, LeftTo(visited) <= k + 1
        PROVE  g[visited] = WaysBeyond(edges, g, visited)
    <3>1. \A n \in Nodes \ visited : g[visited \cup {n}] = f[visited \cup {n}]
      <4> TAKE n \in Nodes \ visited
      <4>1. /\ LeftTo(visited \cup {n}) \in Nat /\ LeftTo(visited) \in Nat
            /\ LeftTo(visited \cup {n}) + 1 = LeftTo(visited)
        BY LeftFalls
      <4>2. LeftTo(visited \cup {n}) <= k
        BY <4>1, <2>3
      <4> QED BY <4>2, <2>2
    <3>2. g[visited] = WaysBeyond(edges, f, visited)
      OBVIOUS
    <3>3. WaysBeyond(edges, f, visited) = WaysBeyond(edges, g, visited)
      <4> HIDE DEF g
      <4> QED BY <3>1, SameWaysBeyond
    <3> QED BY <3>2, <3>3
  <2> HIDE DEF g
  <2>4. Upto(g, k + 1)
    BY <2>3
  <2> QED BY <2>4
<1>4. LeftTo({}) \in S /\ LeftTo({}) \in Nat
  BY <1>2, <1>3, LeftFalls, Induction
<1>5. PICK f : Upto(f, LeftTo({}))
  BY <1>4
<1>6. \A visited \in SUBSET Nodes : LeftTo(visited) <= LeftTo({})
  BY Assumed, FS_Subset DEF LeftTo, SearchAssumption
<1>7. [visited \in SUBSET Nodes |-> WaysBeyond(edges, f, visited)] = [visited \in SUBSET Nodes |-> f[visited]]
  BY <1>5, <1>6
<1> DEFINE h == [visited \in SUBSET Nodes |-> f[visited]]
<1>8. \A visited \in SUBSET Nodes : h[visited] = WaysBeyond(edges, h, visited)
  <2> TAKE visited \in SUBSET Nodes
  <2>1. WaysBeyond(edges, f, visited) = WaysBeyond(edges, h, visited)
    BY SameWaysBeyond
  <2> QED BY <2>1, <1>5, <1>6
<1> HIDE DEF h
<1>9. h = [visited \in SUBSET Nodes |-> WaysBeyond(edges, h, visited)]
  BY <1>8 DEF h
<1> QED BY <1>9

LEMMA WayEnds ==
  ASSUME NEW edges, NEW visited \in SUBSET Nodes, Destination \in Nodes \ visited
  PROVE  WaysOver(edges)[visited][Destination] = {NoTrace}
<1> DEFINE ways == WaysOver(edges)
<1>1. ways = [v \in SUBSET Nodes |-> WaysBeyond(edges, ways, v)]
  BY WaysDefined
<1> HIDE DEF ways
<1> QED BY <1>1 DEF WaysBeyond, ways

LEMMA WayBeyond ==
  \A edges : \A visited \in SUBSET Nodes : \A n \in Nodes \ visited : n # Destination =>
    \A way : way \in WaysOver(edges)[visited][n] <=>
      \E e \in Onward(visited, n) : \E rest \in WaysOver(edges)[visited \cup {n}][destination(e)] :
        way = Longer(rest, edges[e])
<1> SUFFICES
      ASSUME NEW edges, NEW visited \in SUBSET Nodes, NEW n \in Nodes \ visited, n # Destination, NEW way
      PROVE  way \in WaysOver(edges)[visited][n] <=>
               \E e \in Onward(visited, n) : \E rest \in WaysOver(edges)[visited \cup {n}][destination(e)] :
                 way = Longer(rest, edges[e])
  OBVIOUS
<1> DEFINE ways == WaysOver(edges)
           Then(e) == {Longer(rest, edges[e]) : rest \in ways[visited \cup {n}][destination(e)]}
<1>1. ways = [v \in SUBSET Nodes |-> WaysBeyond(edges, ways, v)]
  BY WaysDefined
<1> HIDE DEF ways
<1>2. ways[visited] = WaysBeyond(edges, ways, visited)
  BY <1>1
<1>3. ways[visited][n] = UNION {Then(e) : e \in Onward(visited, n)}
  BY <1>2 DEF WaysBeyond
<1>4. \A e : way \in Then(e) <=> \E rest \in ways[visited \cup {n}][destination(e)] : way = Longer(rest, edges[e])
  OBVIOUS
<1> HIDE DEF Then
<1>5. way \in ways[visited][n] <=> \E e \in Onward(visited, n) : way \in Then(e)
  BY <1>3
<1>6. way \in ways[visited][n] <=>
        \E e \in Onward(visited, n) : \E rest \in ways[visited \cup {n}][destination(e)] : way = Longer(rest, edges[e])
  BY <1>4, <1>5
<1> QED BY <1>6 DEF ways

\* What holds of the end of the way and, with each edge put before it, goes on to
\* hold, holds of every way.
LEMMA WaysInduction ==
  ASSUME NEW edges, NEW G,
         <<Destination, NoTrace>> \in G,
         \A e \in Edges : \A way :
           <<destination(e), way>> \in G => <<source(e), Longer(way, edges[e])>> \in G
  PROVE  \A visited \in SUBSET Nodes : \A n \in Nodes \ visited :
           \A way \in WaysOver(edges)[visited][n] : <<n, way>> \in G
<1> DEFINE ways == WaysOver(edges)
           Good(visited) == \A n \in Nodes \ visited : \A way \in ways[visited][n] : <<n, way>> \in G
           S == {k \in Nat : \A visited \in SUBSET Nodes : LeftTo(visited) <= k => Good(visited)}
<1>1. ASSUME NEW visited \in SUBSET Nodes,
             \A n \in Nodes \ visited : Good(visited \cup {n})
      PROVE  Good(visited)
  <2> SUFFICES ASSUME NEW n \in Nodes \ visited, NEW way \in ways[visited][n]
               PROVE  <<n, way>> \in G
    OBVIOUS
  <2>1. CASE n = Destination
    BY <2>1, WayEnds
  <2>2. CASE n # Destination
    <3>1. PICK e \in Onward(visited, n) : \E rest \in ways[visited \cup {n}][destination(e)] :
                                             way = Longer(rest, edges[e])
      <4>1. way \in WaysOver(edges)[visited][n]
        OBVIOUS
      <4>2. \A w : w \in WaysOver(edges)[visited][n] <=>
              \E e \in Onward(visited, n) : \E rest \in WaysOver(edges)[visited \cup {n}][destination(e)] :
                w = Longer(rest, edges[e])
        BY <2>2, WayBeyond
      <4> QED BY <4>1, <4>2
    <3>2. PICK rest \in ways[visited \cup {n}][destination(e)] : way = Longer(rest, edges[e])
      BY <3>1
    <3>3. e \in Edges /\ source(e) = n /\ destination(e) \in Nodes \ (visited \cup {n})
      BY EdgeEnds DEF Onward
    <3>4. <<destination(e), rest>> \in G
      BY <1>1, <3>2, <3>3
    <3> QED BY <3>2, <3>3, <3>4
  <2> QED BY <2>1, <2>2
<1> HIDE DEF Good
<1>2. 0 \in S
  <2> SUFFICES ASSUME NEW visited \in SUBSET Nodes, LeftTo(visited) <= 0 PROVE Good(visited)
    OBVIOUS
  <2>1. ASSUME NEW n \in Nodes \ visited PROVE FALSE
    <3>1. LeftTo(visited \cup {n}) \in Nat /\ LeftTo(visited \cup {n}) + 1 = LeftTo(visited)
      BY LeftFalls
    <3> QED BY <3>1
  <2> QED BY <1>1, <2>1
<1>3. ASSUME NEW k \in Nat, k \in S PROVE k + 1 \in S
  <2> SUFFICES ASSUME NEW visited \in SUBSET Nodes, LeftTo(visited) <= k + 1 PROVE Good(visited)
    OBVIOUS
  <2>1. ASSUME NEW n \in Nodes \ visited PROVE Good(visited \cup {n})
    <3>1. LeftTo(visited \cup {n}) \in Nat /\ LeftTo(visited \cup {n}) + 1 = LeftTo(visited)
      BY LeftFalls
    <3>2. LeftTo(visited \cup {n}) <= k
      BY <3>1
    <3> QED BY <1>3, <3>2
  <2> QED BY <1>1, <2>1
<1>4. \A visited \in SUBSET Nodes : Good(visited)
  <2> TAKE visited \in SUBSET Nodes
  <2>1. LeftTo(visited) \in S /\ LeftTo(visited) \in Nat
    BY <1>2, <1>3, LeftFalls, Induction
  <2> QED BY <2>1
<1> QED BY <1>4 DEF Good

-----------------------------------------------------------------------------
(* Trees: below[u] are the nodes below u in the forest that parents makes. *)

Forest(parents, below) ==
  /\ \A u \in Nodes : below[u] \subseteq Nodes /\ u \notin below[u]
  /\ \A u, n \in Nodes : n \in below[u] <=> parents[n] \in below[u] \cup {u}
  /\ \A u, n \in Nodes : n \in below[u] => below[n] \subseteq below[u]

\* With the tree of n put below v, and taken off from where it was.
Regrafted(below, v, n) ==
  [u \in Nodes |-> IF v \in below[u] \cup {u} THEN below[u] \cup below[n] \cup {n}
                   ELSE IF u \in below[n] \cup {n} THEN below[u]
                   ELSE below[u] \ (below[n] \cup {n})]

LEMMA RegraftedBelow ==
  ASSUME NEW below, NEW v \in Nodes, NEW n \in Nodes, NEW u \in Nodes,
         NEW parents, Forest(parents, below), v \notin below[n] \cup {n}
  PROVE  /\ v \in below[u] \cup {u} => /\ Regrafted(below, v, n)[u] = below[u] \cup below[n] \cup {n}
                                       /\ u \notin below[n] \cup {n}
         /\ v \notin below[u] \cup {u} => /\ Regrafted(below, v, n)[u] \subseteq below[u]
                                          /\ n \notin Regrafted(below, v, n)[u]
                                          /\ u \in below[n] \cup {n} => Regrafted(below, v, n)[u] = below[u]
                                          /\ u \notin below[n] \cup {n} =>
                                               Regrafted(below, v, n)[u] = below[u] \ (below[n] \cup {n})
<1> DEFINE D == Regrafted(below, v, n)[u]
<1>1. D = IF v \in below[u] \cup {u} THEN below[u] \cup below[n] \cup {n}
          ELSE IF u \in below[n] \cup {n} THEN below[u]
          ELSE below[u] \ (below[n] \cup {n})
  BY DEF Regrafted
<1>2. u \in below[n] => below[u] \subseteq below[n] /\ n \notin below[u]
  BY DEF Forest
<1>3. n \notin below[n]
  BY DEF Forest
<1> HIDE DEF D
<1>4. CASE v \in below[u] \cup {u}
  <2>1. u \notin below[n] \cup {n}
    BY <1>2, <1>4
  <2> QED BY <1>1, <1>4, <2>1 DEF D
<1>5. CASE v \notin below[u] \cup {u}
  <2>1. CASE u \in below[n] \cup {n}
    <3>1. n \notin below[u]
      BY <1>2, <1>3, <2>1
    <3> QED BY <1>1, <1>5, <2>1, <3>1 DEF D
  <2>2. CASE u \notin below[n] \cup {n}
    BY <1>1, <1>5, <2>2 DEF D
  <2> QED BY <2>1, <2>2
<1> QED BY <1>4, <1>5

LEMMA Regraft ==
  ASSUME NEW parents, NEW below, Forest(parents, below),
         NEW v \in Nodes, NEW n \in Nodes, v \notin below[n] \cup {n},
         NEW grafted, grafted[n] = v, \A m \in Nodes : m # n => grafted[m] = parents[m]
  PROVE  Forest(grafted, Regrafted(below, v, n))
<1> DEFINE D == Regrafted(below, v, n)
           N == below[n] \cup {n}
<1>1. ASSUME NEW u \in Nodes, v \in below[u] \cup {u} PROVE D[u] = below[u] \cup N /\ u \notin N
  BY <1>1, RegraftedBelow
<1>2. ASSUME NEW u \in Nodes, v \notin below[u] \cup {u}
      PROVE  /\ u \in N => D[u] = below[u]
             /\ u \notin N => D[u] = below[u] \ N
             /\ D[u] \subseteq below[u] /\ n \notin D[u]
  BY <1>2, RegraftedBelow
<1> HIDE DEF D
<1>3. \A u \in Nodes : below[u] \subseteq Nodes /\ u \notin below[u]
  BY DEF Forest
<1>4. \A u, m \in Nodes : m \in below[u] <=> parents[m] \in below[u] \cup {u}
  BY DEF Forest
<1>5. \A u, m \in Nodes : m \in below[u] => below[m] \subseteq below[u]
  BY DEF Forest
<1>6. \A u \in Nodes : D[u] \subseteq Nodes /\ u \notin D[u]
  BY <1>1, <1>2, <1>3
<1>7. ASSUME NEW u \in Nodes, NEW m \in Nodes
      PROVE  m \in D[u] <=> grafted[m] \in D[u] \cup {u}
  <2>1. CASE v \in below[u] \cup {u}
    <3>1. CASE m = n
      BY <1>1, <2>1, <3>1
    <3>2. CASE m # n
      BY <1>1, <1>4, <2>1, <3>2
    <3> QED BY <3>1, <3>2
  <2>2. CASE v \notin below[u] \cup {u}
    <3>1. CASE m = n
      BY <1>2, <2>2, <3>1
    <3>2. CASE m # n /\ u \in N
      BY <1>2, <1>4, <2>2, <3>2
    <3>3. CASE m # n /\ u \notin N
      BY <1>2, <1>4, <2>2, <3>3
    <3> QED BY <3>1, <3>2, <3>3
  <2> QED BY <2>1, <2>2
<1>8. ASSUME NEW u \in Nodes, NEW m \in Nodes, m \in D[u]
      PROVE  D[m] \subseteq D[u]
  <2>1. CASE v \in below[u] \cup {u}
    <3>1. D[u] = below[u] \cup N
      BY <1>1, <2>1
    <3>2. CASE v \in below[m] \cup {m}
      <4>1. m \notin N /\ D[m] = below[m] \cup N
        BY <1>1, <3>2
      <4> QED BY <4>1, <3>1, <1>5, <1>8
    <3>3. CASE v \notin below[m] \cup {m}
      <4>1. D[m] \subseteq below[m]
        BY <1>2, <3>3
      <4> QED BY <4>1, <3>1, <1>5, <1>8
    <3> QED BY <3>2, <3>3
  <2>2. CASE v \notin below[u] \cup {u}
    <3>1. m \in below[u] /\ below[m] \subseteq below[u]
      BY <1>2, <1>5, <1>8, <2>2
    <3>2. v \notin below[m] \cup {m}
      BY <2>2, <3>1
    <3>3. CASE u \in N
      BY <1>2, <2>2, <3>1, <3>2, <3>3
    <3>4. CASE u \notin N
      <4>1. m \notin N
        BY <1>2, <1>8, <2>2, <3>4
      <4> QED BY <1>2, <2>2, <3>1, <3>2, <3>4, <4>1
    <3> QED BY <3>3, <3>4
  <2> QED BY <2>1, <2>2
<1>9. Forest(grafted, D)
  BY <1>6, <1>7, <1>8 DEF Forest
<1> QED BY <1>9 DEF D

-----------------------------------------------------------------------------
(* The tree of the edges by which nodes were found *)

\* Nodes the queue holds at their cost, and the others that were reached.
Waiting == {n \in Reached : \E x \in open : x.node = n /\ x.priority = Estimate(n)}
Closed  == Reached \ Waiting

Parents == [n \in Nodes |-> IF previousEdge[n] = None THEN None ELSE source(previousEdge[n])]

\* The cost of a node by way of an edge
CostBy(e) == costFromOrigin[source(e)] + edgeCost(Head(todo), e)

FoundBy(n, e) == e \in Edges /\ destination(e) = n /\ source(e) \in Reached /\ CostBy(e) <= costFromOrigin[n]

Rooted ==
  /\ costFromOrigin[origin] = 0 /\ previousEdge[origin] = None
  /\ \A n \in Nodes \ Reached : previousEdge[n] = None
  /\ \A n \in Reached \ {origin} : FoundBy(n, previousEdge[n])

\* What is below a node costs no less.
Descending(below) ==
  \A u, n \in Nodes : n \in below[u] => u \in Reached /\ n \in Reached /\ costFromOrigin[u] <= costFromOrigin[n]

\* The edges from a closed node have been looked at.
LookedAt ==
  \A e \in Edges \ pending : source(e) \in Closed \ {Destination} =>
    destination(e) \in Reached /\ costFromOrigin[destination(e)] <= CostBy(e)

\* What waits below a node that waits is expanded later.
Before(below) == \A u \in Waiting, w \in Nodes : w \in Waiting \cap below[u] => Estimate(u) < Estimate(w)

Outside(below, u) == \A w \in Nodes : w \in Waiting \ (below[u] \cup {u}) => Estimate(u) <= Estimate(w)
Inside(below, u)  == \A w \in Nodes : w \in Waiting \cap below[u] => Estimate(u) <= Estimate(w)

AtWork(below) ==
  /\ pc = "search" => /\ Destination \notin Closed
                      /\ \A u \in Closed : Outside(below, u) \/ Inside(below, u)
  /\ pc = "relax" => /\ Destination \notin Closed
                     /\ current \in Closed
                     /\ \A u \in Waiting : current \notin below[u]
                     /\ \A u \in Closed : IF current \in below[u] \cup {u} THEN Outside(below, u) ELSE Inside(below, u)
  /\ pc = "trace" => /\ Destination \in Closed
                     /\ \A u \in Waiting : Destination \notin below[u] /\ costFromOrigin[Destination] <= Estimate(u)

\* On the way back, what has been traced leads on to the destination from the node
\* that is visited, over nodes below it.
OnTheWay(below) ==
  pc = "trace" =>
    /\ current = Destination \/ Destination \in below[current]
    /\ costFromOrigin[Destination] = costFromOrigin[current] + costOf(Head(todo), traced)
    /\ \A visited \in SUBSET Nodes :
         (\A n \in visited : n \notin below[current] \cup {current}) => traced \in WaysOver(edgesNow)[visited][current]

Tree(below) ==
  /\ Forest(Parents, below) /\ Rooted /\ Descending(below)
  /\ LookedAt /\ Before(below) /\ AtWork(below) /\ OnTheWay(below)

LEMMA WaitingReached == Waiting \subseteq Reached /\ Closed \subseteq Reached /\ Reached \subseteq Nodes
BY DEF Waiting, Closed, Reached

\* What an edge that improves its destination does.
LEMMA Improved ==
  ASSUME SearchInv, NEW e \in pending, Relax(e), Improves(e), NEW below, Descending(below)
  PROVE  /\ destination(e) # current /\ current \notin below[destination(e)]
         /\ costFromOrigin'[destination(e)] = CostBy(e) /\ CostBy(e) \in Nat
         /\ costFromOrigin[current] <= CostBy(e)
         /\ destination(e) \in Reached => /\ CostBy(e) < costFromOrigin[destination(e)]
                                         /\ Estimate(destination(e))' < Estimate(destination(e))
         /\ previousEdge'[destination(e)] = e
         /\ \A m \in Nodes : m # destination(e) => /\ costFromOrigin'[m] = costFromOrigin[m]
                                                  /\ previousEdge'[m] = previousEdge[m]
                                                  /\ Estimate(m)' = Estimate(m)
         /\ Reached' = Reached \cup {destination(e)}
         /\ destination(e) \in Waiting'
         /\ \A m \in Nodes : m # destination(e) => (m \in Waiting' <=> m \in Waiting)
<1> DEFINE d == destination(e)
           c == candidateCost(e)
           h == heuristic(Head(todo), d)
           x == Entry(Head(todo), d, c)
<1>1. pc = "relax" /\ current \in Reached
  BY Candidate DEF Relax, SearchInv, Reached
<1>2. /\ e \in Edges /\ source(e) = current /\ current \in Nodes /\ d \in Nodes
      /\ costFromOrigin[current] \in Nat /\ c \in Nat /\ c = costFromOrigin[current] + edgeCost(Head(todo), e)
  BY <1>1, Candidate
<1>3. edgeCost(Head(todo), e) \in Nat /\ h \in Nat
  BY <1>1, <1>2, HeadType, Costs DEF SearchInv, Searching
<1>4. c = CostBy(e) /\ costFromOrigin[current] <= c
  <2>1. costFromOrigin[current] <= c
    <3> HIDE DEF c
    <3> QED BY <1>2, <1>3
  <2> QED BY <1>2, <2>1 DEF CostBy
<1>5. /\ costFromOrigin \in [Nodes -> Nat \cup {Infinity}] /\ previousEdge \in [Nodes -> Edges \cup {None}]
      /\ \A y \in open : y \in [node : Nodes, priority : Nat]
      /\ Infinity \notin Nat
  BY Assumed DEF SearchInv, TypeOK, SearchAssumption
<1>6. /\ costFromOrigin' = [costFromOrigin EXCEPT ![d] = c]
      /\ previousEdge' = [previousEdge EXCEPT ![d] = e]
      /\ open' = open \cup {x}
  BY DEF Relax
<1>7. /\ costFromOrigin'[d] = c /\ previousEdge'[d] = e
      /\ \A m \in Nodes : m # d => costFromOrigin'[m] = costFromOrigin[m] /\ previousEdge'[m] = previousEdge[m]
  BY <1>2, <1>5, <1>6
<1>8. d \in Reached => costFromOrigin[d] \in Nat /\ c < costFromOrigin[d]
  BY <1>5 DEF Reached, Improves
<1>9. d # current
  <2> SUFFICES ASSUME d = current PROVE FALSE
    OBVIOUS
  <2>1. c < costFromOrigin[current]
    BY <1>1, <1>8
  <2> HIDE DEF c, d
  <2> QED BY <2>1, <1>2, <1>4
<1>10. current \notin below[d]
  <2> SUFFICES ASSUME current \in below[d] PROVE FALSE
    OBVIOUS
  <2>1. d \in Reached /\ costFromOrigin[d] <= costFromOrigin[current]
    BY <1>2 DEF Descending
  <2>2. c < costFromOrigin[d] /\ costFromOrigin[d] \in Nat
    BY <1>8, <2>1
  <2> HIDE DEF c, d
  <2> QED BY <2>1, <2>2, <1>2, <1>4
<1>11. /\ \A m \in Nodes : m # d => Estimate(m)' = Estimate(m)
       /\ Estimate(d)' = c + h
  BY RelaxEstimates
<1>12. Estimate(d) = costFromOrigin[d] + h
  BY DEF Estimate
<1>13. d \in Reached => Estimate(d)' < Estimate(d)
  <2>1. \A i, j, k \in Nat : i < j => i + k < j + k
    OBVIOUS
  <2> HIDE DEF c, d, h
  <2> QED BY <2>1, <1>2, <1>3, <1>8, <1>11, <1>12
<1>14. Reached' = Reached \cup {d}
  BY <1>2, <1>5, <1>7 DEF Reached
<1>15. x.node = d /\ x.priority = c + h /\ x \in open'
  BY <1>6 DEF Entry
<1>16. d \in Waiting'
  BY <1>11, <1>14, <1>15 DEF Waiting
<1>17. ASSUME NEW m \in Nodes, m # d PROVE m \in Waiting' <=> m \in Waiting
  <2>1. Estimate(m)' = Estimate(m) /\ (m \in Reached' <=> m \in Reached)
    BY <1>11, <1>14, <1>17
  <2>2. (\E y \in open' : y.node = m /\ y.priority = Estimate(m)) <=> \E y \in open : y.node = m /\ y.priority = Estimate(m)
    BY <1>6, <1>15, <1>17
  <2> QED BY <2>1, <2>2 DEF Waiting
<1> QED BY <1>4, <1>2, <1>7, <1>8, <1>9, <1>10, <1>11, <1>13, <1>14, <1>16, <1>17

\* No edge or cost of the graph changes after the graph was loaded.
LEMMA SameCostBy ==
  ASSUME UNCHANGED <<graph, costFromOrigin, todo>>
  PROVE  /\ \A n : Estimate(n)' = Estimate(n)
         /\ \A e : CostBy(e)' = CostBy(e)
BY GraphStays DEF Estimate, CostBy

LEMMA RelaxForest ==
  ASSUME SearchInv, NEW e \in pending, Relax(e), Improves(e), NEW below, Tree(below),
         NEW new, new = Regrafted(below, current, destination(e))
  PROVE  Forest(Parents, new)' /\ Rooted' /\ Descending(new)'
<1> DEFINE n == destination(e)
<1>1. pc = "relax" /\ UNCHANGED <<todo, origin>> /\ UNCHANGED graph
  BY DEF Relax, graph
<1>2. /\ e \in Edges /\ source(e) = current /\ current \in Nodes /\ n \in Nodes
      /\ current \in Reached
  BY <1>1, Candidate DEF SearchInv, Reached
<1>3. Forest(Parents, below) /\ Rooted /\ Descending(below)
  BY DEF Tree
<1>4. /\ n # current /\ current \notin below[n]
      /\ costFromOrigin'[n] = CostBy(e) /\ CostBy(e) \in Nat /\ costFromOrigin[current] <= CostBy(e)
      /\ n \in Reached => CostBy(e) < costFromOrigin[n]
      /\ previousEdge'[n] = e
      /\ Reached' = Reached \cup {n}
  BY <1>3, Improved
<1>5. \A m \in Nodes : m # n => costFromOrigin'[m] = costFromOrigin[m] /\ previousEdge'[m] = previousEdge[m]
  BY <1>3, Improved
<1>6. Forest(Parents', new)
  <2>1. Parents'[n] = current
    BY <1>2, <1>4, Assumed DEF Parents, NoneAssumption
  <2>2. \A m \in Nodes : m # n => Parents'[m] = Parents[m]
    BY <1>5 DEF Parents
  <2>3. Forest(Parents', Regrafted(below, current, n))
    <3> HIDE DEF n
    <3> QED BY <1>2, <1>3, <1>4, <2>1, <2>2, Regraft
  <2> QED BY <2>3
<1>7. \A m \in Reached : costFromOrigin[m] \in Nat /\ m \in Nodes
  BY DEF Reached, SearchInv, TypeOK
<1>8. \A m \in Reached : costFromOrigin'[m] <= costFromOrigin[m]
  <2> TAKE m \in Reached
  <2>1. CASE m = n
    BY <1>4, <1>7, <2>1
  <2>2. CASE m # n
    <3>1. costFromOrigin'[m] = costFromOrigin[m] /\ costFromOrigin[m] \in Nat
      BY <1>5, <1>7, <2>2
    <3> QED BY <3>1
  <2> QED BY <2>1, <2>2
<1>9. Rooted'
  <2>1. \A f : CostBy(f)' = costFromOrigin'[source(f)] + edgeCost(Head(todo), f)
    BY <1>1, GraphStays DEF CostBy
  <2>2. n # origin
    <3> SUFFICES ASSUME n = origin PROVE FALSE
      OBVIOUS
    <3>1. n \in Reached /\ costFromOrigin[n] = 0
      BY <1>2, <1>3, Assumed DEF Rooted, Reached, SearchAssumption
    <3> HIDE DEF n
    <3> QED BY <3>1, <1>4
  <2>3. origin \in Nodes
    BY Assumed DEF SearchInv, TypeOK, SearchAssumption
  <2>4. costFromOrigin'[origin] = 0 /\ previousEdge'[origin] = None
    BY <1>3, <1>5, <2>2, <2>3 DEF Rooted
  <2>5. \A m \in Nodes \ Reached' : previousEdge'[m] = None
    BY <1>3, <1>4, <1>5 DEF Rooted
  <2>6. FoundBy(n, e)'
    <3>1. CostBy(e)' = CostBy(e)
      BY <1>2, <1>4, <1>5, <2>1 DEF CostBy
    <3> QED BY <1>2, <1>4, <3>1 DEF FoundBy
  <2>7. ASSUME NEW m \in Reached, m # n, m # origin PROVE FoundBy(m, previousEdge[m])'
    <3>0. PICK f : f = previousEdge[m]
      OBVIOUS
    <3>1. f \in Edges /\ destination(f) = m /\ source(f) \in Reached /\ CostBy(f) <= costFromOrigin[m]
      BY <1>3, <2>7, <3>0 DEF Rooted, FoundBy
    <3>2. previousEdge'[m] = f /\ costFromOrigin'[m] = costFromOrigin[m]
      BY <1>5, <1>7, <2>7, <3>0
    <3>3. edgeCost(Head(todo), f) \in Nat
      BY <1>1, <3>1, HeadType, Costs DEF SearchInv, Searching
    <3>4. costFromOrigin'[source(f)] \in Nat
      BY <3>1, <1>4, <1>5, <1>7
    <3>5. CostBy(f)' <= CostBy(f) /\ CostBy(f)' \in Nat /\ CostBy(f) \in Nat
      <4>1. \A i, j, k \in Nat : i <= j => i + k <= j + k /\ i + k \in Nat /\ j + k \in Nat
        OBVIOUS
      <4> QED BY <4>1, <1>7, <1>8, <2>1, <3>1, <3>3, <3>4 DEF CostBy
    <3>6. CostBy(f)' <= costFromOrigin'[m]
      <4>1. \A i, j, k \in Nat : i <= j /\ j <= k => i <= k
        OBVIOUS
      <4> QED BY <4>1, <1>7, <2>7, <3>1, <3>2, <3>5
    <3>7. FoundBy(m, f)'
      BY <1>4, <3>1, <3>6 DEF FoundBy
    <3> QED BY <1>1, <3>2, <3>7 DEF FoundBy, CostBy
  <2>8. ASSUME NEW m \in Reached' \ {origin} PROVE FoundBy(m, previousEdge[m])'
    <3>1. CASE m = n
      BY <1>4, <2>6, <3>1 DEF FoundBy, CostBy
    <3>2. CASE m # n
      BY <1>4, <2>7, <2>8, <3>2
    <3> QED BY <3>1, <3>2
  <2> HIDE DEF n
  <2> QED BY <1>1, <2>4, <2>5, <2>8 DEF Rooted
<1>10. Descending(new)'
  <2> SUFFICES ASSUME NEW u \in Nodes, NEW m \in Nodes, m \in new[u]
               PROVE  u \in Reached' /\ m \in Reached' /\ costFromOrigin'[u] <= costFromOrigin'[m]
    BY DEF Descending
  <2>1. \A w, k \in Nodes : k \in below[w] => w \in Reached /\ k \in Reached /\ costFromOrigin[w] <= costFromOrigin[k]
    BY <1>3 DEF Descending
  <2>2. CASE current \in below[u] \cup {u}
    <3>1. new[u] = below[u] \cup below[n] \cup {n} /\ u # n
      BY <1>2, <1>3, <1>4, <2>2, RegraftedBelow
    <3>2. u \in Reached /\ costFromOrigin[u] <= costFromOrigin[current] /\ costFromOrigin'[u] = costFromOrigin[u]
      <4>1. u \in Reached /\ costFromOrigin[u] <= costFromOrigin[current]
        <5>1. CASE u = current
          BY <1>2, <1>7, <5>1
        <5>2. CASE current \in below[u]
          BY <1>2, <2>1, <5>2
        <5> QED BY <2>2, <5>1, <5>2
      <4> QED BY <4>1, <1>5, <3>1
    <3>3. costFromOrigin[u] <= CostBy(e)
      <4>1. \A i, j, k \in Nat : i <= j /\ j <= k => i <= k
        OBVIOUS
      <4> QED BY <4>1, <3>2, <1>2, <1>4, <1>7
    <3>4. CASE m = n
      BY <1>4, <3>2, <3>3, <3>4
    <3>5. CASE m \in below[n] /\ m # n
      <4>1. n \in Reached /\ m \in Reached /\ costFromOrigin[n] <= costFromOrigin[m]
        BY <1>2, <2>1, <3>5
      <4>2. costFromOrigin'[m] = costFromOrigin[m]
        BY <1>5, <3>5
      <4>3. \A i, j, k, l \in Nat : i <= j /\ j < k /\ k <= l => i <= l
        OBVIOUS
      <4> QED BY <4>1, <4>2, <4>3, <3>2, <3>3, <1>4, <1>7
    <3>6. CASE m \in below[u] /\ m # n
      BY <1>4, <1>5, <2>1, <3>2, <3>6
    <3> QED BY <3>1, <3>4, <3>5, <3>6
  <2>3. CASE current \notin below[u] \cup {u}
    <3>1. m \in below[u] /\ m # n
      BY <1>2, <1>3, <1>4, <2>3, RegraftedBelow
    <3>2. u \in Reached /\ m \in Reached /\ costFromOrigin[u] <= costFromOrigin[m]
      BY <2>1, <3>1
    <3>3. costFromOrigin'[m] = costFromOrigin[m] /\ costFromOrigin'[u] <= costFromOrigin[u] /\ costFromOrigin'[u] \in Nat
      BY <1>4, <1>5, <1>7, <1>8, <3>1, <3>2
    <3>4. \A i, j, k \in Nat : i <= j /\ j <= k => i <= k
      OBVIOUS
    <3> QED BY <3>2, <3>3, <3>4, <1>4, <1>7
  <2> QED BY <2>2, <2>3
<1>11. Forest(Parents, new)'
  BY <1>6 DEF Forest
<1> QED BY <1>9, <1>10, <1>11

LEMMA CostByFalls ==
  ASSUME SearchInv, NEW e \in pending, Relax(e), Improves(e), NEW below, Tree(below), NEW f \in Edges,
         source(f) # destination(e)
  PROVE  CostBy(f)' = CostBy(f)
<1>1. source(f) \in Nodes /\ UNCHANGED graph /\ todo' = todo
  BY EdgeEnds DEF Relax
<1>2. costFromOrigin'[source(f)] = costFromOrigin[source(f)]
  BY <1>1, Improved DEF Tree
<1> QED BY <1>1, <1>2, GraphStays DEF CostBy

LEMMA RelaxLookedAt ==
  ASSUME SearchInv, NEW e \in pending, Relax(e), NEW below, Tree(below)
  PROVE  LookedAt'
<1>1. pc = "relax" /\ UNCHANGED graph /\ todo' = todo /\ pending' = pending \ {e}
  BY DEF Relax
<1>2. e \in Edges /\ source(e) = current /\ current \in Nodes /\ destination(e) \in Nodes
  BY <1>1, Candidate
<1>3. CASE Improves(e)
  <2> SUFFICES ASSUME NEW f \in Edges \ pending', source(f) \in Closed' \ {Destination}
               PROVE  destination(f) \in Reached' /\ costFromOrigin'[destination(f)] <= CostBy(f)'
    BY DEF LookedAt
  <2>1. /\ costFromOrigin'[destination(e)] = CostBy(e) /\ CostBy(e) \in Nat
        /\ destination(e) \in Reached => CostBy(e) < costFromOrigin[destination(e)]
        /\ Reached' = Reached \cup {destination(e)}
        /\ destination(e) \in Waiting'
        /\ current # destination(e)
    BY <1>3, Improved DEF Tree
  <2>2. \A m \in Nodes : m # destination(e) => costFromOrigin'[m] = costFromOrigin[m] /\ (m \in Waiting' <=> m \in Waiting)
    BY <1>3, Improved DEF Tree
  <2>3. source(f) \in Nodes /\ destination(f) \in Nodes
    BY EdgeEnds
  <2>4. source(f) # destination(e) /\ source(f) \in Closed
    BY <2>1, <2>2, <2>3 DEF Closed
  <2>5. CostBy(f)' = CostBy(f)
    BY <1>3, <2>4, CostByFalls
  <2>6. CASE f = e
    BY <2>1, <2>5, <2>6
  <2>7. CASE f # e
    <3>1. destination(f) \in Reached /\ costFromOrigin[destination(f)] <= CostBy(f)
      BY <1>1, <2>4, <2>7 DEF Tree, LookedAt
    <3>2. CASE destination(f) # destination(e)
      BY <2>1, <2>2, <2>3, <2>5, <3>1, <3>2
    <3>3. CASE destination(f) = destination(e)
      <4>1. CostBy(f) \in Nat /\ costFromOrigin[destination(f)] \in Nat
        <5>1. costFromOrigin[source(f)] \in Nat /\ costFromOrigin[destination(f)] \in Nat
          BY <2>4, <3>1, WaitingReached DEF Reached, SearchInv, TypeOK
        <5>2. edgeCost(Head(todo), f) \in Nat
          BY <1>1, HeadType, Costs DEF SearchInv, Searching
        <5> QED BY <5>1, <5>2 DEF CostBy
      <4>2. \A i, j, k \in Nat : i < j /\ j <= k => i <= k
        OBVIOUS
      <4> QED BY <4>1, <4>2, <2>1, <2>5, <3>1, <3>3
    <3> QED BY <3>2, <3>3
  <2> QED BY <2>6, <2>7
<1>4. CASE ~Improves(e)
  <2>1. costFromOrigin' = costFromOrigin /\ open' = open
    BY <1>4 DEF Relax
  <2>2. (\A f : CostBy(f)' = CostBy(f)) /\ (\A n : Estimate(n)' = Estimate(n))
    BY <1>1, <2>1, SameCostBy
  <2>3. Closed' = Closed /\ Reached' = Reached
    BY <2>1, <2>2 DEF Closed, Waiting, Reached
  <2>4. destination(e) \in Reached /\ costFromOrigin[destination(e)] <= CostBy(e)
    <3>1. costFromOrigin[destination(e)] # Infinity /\ ~(CostBy(e) < costFromOrigin[destination(e)])
      BY <1>2, <1>4 DEF Improves, candidateCost, CostBy
    <3>2. destination(e) \in Reached /\ costFromOrigin[destination(e)] \in Nat
      BY <1>2, <3>1 DEF Reached, SearchInv, TypeOK
    <3>3. CostBy(e) \in Nat
      BY <1>1, <1>2, Candidate DEF candidateCost, CostBy
    <3> QED BY <3>1, <3>2, <3>3
  <2>5. ASSUME NEW f \in Edges \ pending', source(f) \in Closed \ {Destination}
        PROVE  destination(f) \in Reached /\ costFromOrigin[destination(f)] <= CostBy(f)
    BY <1>1, <2>4, <2>5 DEF Tree, LookedAt
  <2> QED BY <2>1, <2>2, <2>3, <2>5 DEF LookedAt
<1> QED BY <1>3, <1>4

LEMMA RelaxAtWork ==
  ASSUME SearchInv, NEW e \in pending, Relax(e), Improves(e), NEW below, Tree(below),
         NEW new, new = Regrafted(below, current, destination(e))
  PROVE  Before(new)' /\ AtWork(new)'
<1> DEFINE n == destination(e)
<1>1. pc = "relax" /\ pc' = "relax" /\ current' = current /\ n \in Nodes /\ current \in Nodes
  BY Candidate DEF Relax
<1>2. Forest(Parents, below) /\ Descending(below) /\ Before(below)
  BY DEF Tree
<1>3. /\ Destination \notin Closed /\ current \in Closed
      /\ \A u \in Waiting : current \notin below[u]
      /\ \A u \in Closed : IF current \in below[u] \cup {u} THEN Outside(below, u) ELSE Inside(below, u)
  BY <1>1 DEF Tree, AtWork
<1>4. /\ n # current /\ current \notin below[n]
      /\ n \in Reached => Estimate(n)' < Estimate(n)
      /\ Reached' = Reached \cup {n} /\ n \in Waiting'
  BY <1>2, Improved
<1>5. \A m \in Nodes : m # n => Estimate(m)' = Estimate(m) /\ (m \in Waiting' <=> m \in Waiting)
  BY <1>2, Improved
<1>6. Closed' = Closed \ {n}
  BY <1>4, <1>5 DEF Closed, Reached
<1>7. \A u \in Nodes : current \in below[u] \cup {u} => new[u] = below[u] \cup below[n] \cup {n} /\ u # n
  BY <1>1, <1>2, <1>4, RegraftedBelow
<1>8. \A u \in Nodes : current \notin below[u] \cup {u} => new[u] \subseteq below[u] /\ n \notin new[u]
  BY <1>1, <1>2, <1>4, RegraftedBelow
<1>9. \A u : u \in Waiting \/ u \in Closed => u \in Nodes
  BY WaitingReached
<1> HIDE DEF n
<1>10. Before(new)'
  <2> SUFFICES ASSUME NEW u \in Waiting', NEW w \in Nodes, w \in Waiting' \cap new[u]
               PROVE  Estimate(u)' < Estimate(w)'
    BY DEF Before
  <2>0. u \in Nodes
    BY DEF Waiting, Reached
  <2>1. CASE u = n
    <3>1. w \in below[n] /\ w # n
      BY <1>1, <1>4, <1>8, <2>1
    <3>2. w \in Waiting /\ n \in Reached
      BY <1>1, <1>2, <1>5, <3>1 DEF Descending
    <3>3. Estimate(n) <= Estimate(w)
      <4>1. CASE n \in Waiting
        <5>1. Estimate(n) < Estimate(w)
          BY <4>1, <3>1, <3>2, <1>2 DEF Before
        <5>2. Estimate(n) \in Nat /\ Estimate(w) \in Nat
          BY <1>1, <3>2, WaitingReached, EstimateType DEF Searching
        <5> QED BY <5>1, <5>2
      <4>2. CASE n \notin Waiting
        <5>1. n \in Closed /\ Inside(below, n)
          BY <4>2, <3>2, <1>3, <1>4 DEF Closed
        <5> QED BY <5>1, <3>1, <3>2 DEF Inside
      <4> QED BY <4>1, <4>2
    <3>4. Estimate(n) \in Nat /\ Estimate(w) \in Nat /\ Estimate(n)' \in Nat
      BY <1>1, <3>2, WaitingReached, EstimateType, RelaxEstimates DEF Searching
    <3>5. Estimate(u)' = Estimate(n)' /\ Estimate(w)' = Estimate(w)
      BY <1>5, <2>1, <3>1 DEF Estimate
    <3>6. \A i, j, k \in Nat : i < j /\ j <= k => i < k
      OBVIOUS
    <3> QED BY <3>2, <3>3, <3>4, <3>5, <3>6, <1>4
  <2>2. CASE u # n
    <3>1. u \in Waiting /\ current \notin below[u] \cup {u}
      BY <2>0, <2>2, <1>3, <1>5 DEF Closed
    <3>2. w \in below[u] /\ w # n /\ w \in Waiting
      BY <2>0, <3>1, <1>5, <1>8
    <3> QED BY <2>0, <2>2, <3>1, <3>2, <1>2, <1>5 DEF Before
  <2> QED BY <2>1, <2>2
<1>11. \A u \in Waiting' : current \notin new[u]
  <2> SUFFICES ASSUME NEW u \in Waiting' PROVE current \notin new[u]
    OBVIOUS
  <2>0. u \in Nodes
    BY DEF Waiting, Reached
  <2>1. current \notin below[u] \cup {u}
    BY <2>0, <1>3, <1>4, <1>5 DEF Closed
  <2> QED BY <2>0, <2>1, <1>8
<1>12. ASSUME NEW u \in Closed'
       PROVE  (IF current \in new[u] \cup {u} THEN Outside(new, u) ELSE Inside(new, u))'
  <2>1. u \in Closed /\ u # n /\ u \in Nodes
    BY <1>6, <1>9
  <2>2. CASE current \in below[u] \cup {u}
    <3>1. new[u] = below[u] \cup below[n] \cup {n}
      BY <1>7, <2>1, <2>2
    <3>2. ASSUME NEW w \in Nodes, w \in Waiting' \ (new[u] \cup {u}) PROVE Estimate(u)' <= Estimate(w)'
      <4>1. w # n /\ w \in Waiting \ (below[u] \cup {u})
        BY <3>1, <3>2, <1>5
      <4>2. Estimate(u) <= Estimate(w)
        BY <4>1, <1>3, <2>1, <2>2 DEF Outside
      <4> QED BY <4>1, <4>2, <1>5, <2>1
    <3>3. Outside(new, u)'
      BY <3>2 DEF Outside
    <3> QED BY <1>1, <2>2, <3>1, <3>3
  <2>3. CASE current \notin below[u] \cup {u}
    <3>1. new[u] \subseteq below[u] /\ n \notin new[u]
      BY <1>8, <2>1, <2>3
    <3>2. ASSUME NEW w \in Nodes, w \in Waiting' \cap new[u] PROVE Estimate(u)' <= Estimate(w)'
      <4>1. w # n /\ w \in Waiting \cap below[u]
        BY <3>1, <3>2, <1>5
      <4>2. Estimate(u) <= Estimate(w)
        BY <4>1, <1>3, <2>1, <2>3 DEF Inside
      <4> QED BY <4>1, <4>2, <1>5, <2>1
    <3>3. Inside(new, u)'
      BY <3>2 DEF Inside
    <3> QED BY <1>1, <2>3, <3>1, <3>3
  <2> QED BY <2>2, <2>3
<1>13. AtWork(new)'
  BY <1>1, <1>3, <1>4, <1>6, <1>11, <1>12 DEF AtWork
<1> QED BY <1>10, <1>13

LEMMA RelaxTree ==
  ASSUME SearchInv, NEW e \in pending, Relax(e), NEW below, Tree(below)
  PROVE  \E new : Tree(new)'
<1>1. pc = "relax" /\ pc' = "relax" /\ current' = current /\ traced' = traced /\ UNCHANGED <<todo, origin>> /\ UNCHANGED graph
  BY DEF Relax, graph
<1>2. LookedAt'
  BY RelaxLookedAt
<1>3. ASSUME NEW new PROVE OnTheWay(new)'
  BY <1>1 DEF Tree, OnTheWay
<1>4. CASE Improves(e)
  <2>1. PICK new : new = Regrafted(below, current, destination(e))
    OBVIOUS
  <2>2. Forest(Parents, new)' /\ Rooted' /\ Descending(new)'
    BY <1>4, <2>1, RelaxForest
  <2>3. Before(new)' /\ AtWork(new)'
    BY <1>4, <2>1, RelaxAtWork
  <2> QED BY <1>2, <1>3, <2>2, <2>3 DEF Tree
<1>5. CASE ~Improves(e)
  <2>1. costFromOrigin' = costFromOrigin /\ open' = open /\ previousEdge' = previousEdge
    BY <1>5 DEF Relax
  <2>2. (\A f : CostBy(f)' = CostBy(f)) /\ (\A n : Estimate(n)' = Estimate(n))
    BY <1>1, <2>1, SameCostBy
  <2>3. Closed' = Closed /\ Reached' = Reached /\ Waiting' = Waiting /\ Parents' = Parents
    BY <2>1, <2>2 DEF Closed, Waiting, Reached, Parents
  <2>4. Forest(Parents, below)' /\ Rooted' /\ Descending(below)'
    BY <1>1, <2>1, <2>2, <2>3 DEF Tree, Forest, Rooted, Descending, FoundBy, CostBy
  <2>5. Before(below)' /\ AtWork(below)'
    BY <1>1, <2>1, <2>2, <2>3 DEF Tree, Before, AtWork, Outside, Inside
  <2> QED BY <1>2, <1>3, <2>4, <2>5 DEF Tree
<1> QED BY <1>4, <1>5

LEMMA EdgesNow ==
  /\ UNCHANGED graph => edgesNow' = edgesNow
  /\ UNCHANGED graph => Ways' = Ways
<1>1. UNCHANGED graph => edgesNow' = edgesNow
  BY DEF graph, edgesNow, distanceWeightedRisk, weightedRisk
<1> QED BY <1>1 DEF Ways, graph

LEMMA NoTraceCosts == \A p \in Profiles : costOf(p, NoTrace) = 0
<1> TAKE p \in Profiles
<1>1. NoTrace.length = 0 /\ NoTrace.exposure = 0
  BY DEF NoTrace
<1>2. 10 * distanceWeight[p] * 0 = 0 /\ 2 * safetyWeight[p] * 0 = 0
  BY Weights
<1> QED BY <1>1, <1>2 DEF costOf

\* A step of the search that finds no cost and takes off no entry that is not stale.
LEMMA SameTree ==
  ASSUME SearchInv, NEW below, Tree(below), UNCHANGED <<costFromOrigin, previousEdge, todo>>, UNCHANGED graph,
         open' \subseteq open, \A x \in open \ open' : Stale(x), pending' = pending,
         pc = "search" \/ (pc = "relax" /\ pending = {}), pc' = "search"
  PROVE  Tree(below)'
<1>1. /\ \A n : Estimate(n)' = Estimate(n)
      /\ \A e : CostBy(e)' = CostBy(e)
  BY SameCostBy
<1>2. Reached' = Reached /\ Parents' = Parents /\ origin' = origin
  BY DEF Reached, Parents, graph
<1>3. Waiting' = Waiting
  <2>1. Waiting' \subseteq Waiting
    BY <1>1, <1>2 DEF Waiting
  <2>2. ASSUME NEW n \in Waiting PROVE n \in Waiting'
    <3>1. PICK x \in open : x.node = n /\ x.priority = Estimate(n)
      BY DEF Waiting
    <3>2. x \in open'
      <4> SUFFICES ASSUME Stale(x) PROVE FALSE
        OBVIOUS
      <4>1. Estimate(n) > Estimate(n)
        BY <3>1 DEF Stale, Estimate
      <4>2. Estimate(n) \in Nat
        BY WaitingReached, EstimateType DEF Searching
      <4> QED BY <4>1, <4>2
    <3> QED BY <1>1, <1>2, <3>1, <3>2 DEF Waiting
  <2> QED BY <2>1, <2>2
<1>4. Closed' = Closed
  BY <1>2, <1>3 DEF Closed
<1>5. Forest(Parents, below)' /\ Rooted' /\ Descending(below)'
  BY <1>1, <1>2 DEF Tree, Forest, Rooted, Descending, FoundBy, CostBy
<1>6. LookedAt' /\ Before(below)'
  BY <1>1, <1>2, <1>3, <1>4 DEF Tree, LookedAt, Before
<1>7. \A u : (Outside(below, u)' <=> Outside(below, u)) /\ (Inside(below, u)' <=> Inside(below, u))
  BY <1>1, <1>3 DEF Outside, Inside
<1>8. /\ Destination \notin Closed
      /\ \A u \in Closed : Outside(below, u) \/ Inside(below, u)
  BY DEF Tree, AtWork
<1>9. AtWork(below)' /\ OnTheWay(below)'
  <2>1. \A u \in Closed' : Outside(below, u)' \/ Inside(below, u)'
    BY <1>4, <1>7, <1>8
  <2> QED BY <1>4, <1>8, <2>1 DEF AtWork, OnTheWay
<1> QED BY <1>5, <1>6, <1>9 DEF Tree

\* The entry that is expanded is the one its node was waiting for.
LEMMA ExpandWaiting ==
  ASSUME SearchInv, NEW x \in open, Expand(x)
  PROVE  /\ x.node \in Waiting /\ Waiting' = Waiting \ {x.node} /\ Closed' = Closed \cup {x.node}
         /\ \A w \in Waiting : Estimate(x.node) <= Estimate(w)
<1> DEFINE v == x.node
<1>1. /\ pc = "search" /\ open' = open \ {x} /\ UNCHANGED <<costFromOrigin, todo>> /\ UNCHANGED graph
      /\ ~Stale(x) /\ Least(x)
  BY DEF Expand, Visit, graph
<1>2. \A y \in open : y \in [node : Nodes, priority : Nat] /\ y.node \in Reached /\ y.priority >= Estimate(y.node)
  BY DEF SearchInv, TypeOK, Reached
<1>3. \A n \in Reached : Estimate(n) \in Nat
  BY <1>1, EstimateType DEF Searching
<1>4. x.priority = Estimate(v)
  <2>1. ~(x.priority > Estimate(v))
    BY <1>1 DEF Stale, Estimate
  <2>2. x.priority >= Estimate(v) /\ x.priority \in Nat /\ Estimate(v) \in Nat
    BY <1>2, <1>3
  <2> QED BY <2>1, <2>2
<1>5. v \in Waiting
  BY <1>2, <1>4 DEF Waiting
<1>6. \A n : Estimate(n)' = Estimate(n)
  BY <1>1, SameCostBy
<1>7. Reached' = Reached
  BY <1>1 DEF Reached
<1>8. v \notin Waiting'
  <2> SUFFICES ASSUME NEW y \in open', y.node = v, y.priority = Estimate(v) PROVE FALSE
    BY <1>6 DEF Waiting
  <2>1. y = x
    BY <1>1, <1>2, <1>4
  <2> QED BY <2>1, <1>1
<1>9. \A n : n # v => (n \in Waiting' <=> n \in Waiting)
  BY <1>1, <1>6, <1>7 DEF Waiting
<1>10. ASSUME NEW w \in Waiting PROVE Estimate(v) <= Estimate(w)
  <2>1. PICK y \in open : y.node = w /\ y.priority = Estimate(w)
    BY DEF Waiting
  <2> QED BY <2>1, <1>1, <1>4 DEF Least
<1> HIDE DEF v
<1>11. Waiting' = Waiting \ {v}
  BY <1>5, <1>8, <1>9
<1>12. Closed' = Closed \cup {v}
  BY <1>5, <1>7, <1>11, WaitingReached DEF Closed
<1> QED BY <1>5, <1>10, <1>11, <1>12 DEF v

LEMMA ExpandTree ==
  ASSUME SearchInv, crow[Destination] = 0, traced = NoTrace,
         NEW x \in open, Expand(x), NEW below, Tree(below)
  PROVE  Tree(below)'
<1>0. PICK v : v = x.node
  OBVIOUS
<1>1. /\ pc = "search" /\ UNCHANGED <<costFromOrigin, previousEdge, todo, traced, origin>> /\ UNCHANGED graph
      /\ current' = v
      /\ v # Destination => pc' = "relax" /\ pending' = {e \in Edges : source(e) = v}
      /\ v = Destination => pc' = "trace" /\ pending' = {}
  BY <1>0 DEF Expand, Visit, graph
<1>2. /\ \A n : Estimate(n)' = Estimate(n)
      /\ \A e : CostBy(e)' = CostBy(e)
  BY <1>1, SameCostBy
<1>3. Reached' = Reached /\ Parents' = Parents
  BY <1>1 DEF Reached, Parents
<1>4. /\ v \in Waiting /\ Waiting' = Waiting \ {v} /\ Closed' = Closed \cup {v} /\ v \in Nodes
      /\ \A w \in Waiting : Estimate(v) <= Estimate(w)
  BY <1>0, ExpandWaiting, WaitingReached
<1>5. Forest(Parents, below)' /\ Rooted' /\ Descending(below)'
  BY <1>1, <1>2, <1>3 DEF Tree, Forest, Rooted, Descending, FoundBy, CostBy
<1>6. pending = {}
  BY <1>1 DEF SearchInv, TypeOK
<1>7. LookedAt'
  <2>1. ASSUME NEW e \in Edges \ pending', source(e) \in Closed' \ {Destination}
        PROVE  source(e) \in Closed
    BY <2>1, <1>1, <1>4
  <2> QED BY <2>1, <1>1, <1>2, <1>3, <1>6 DEF Tree, LookedAt
<1>8. Before(below)'
  BY <1>2, <1>4 DEF Tree, Before
<1>9. \A u \in Waiting : v \notin below[u]
  <2> SUFFICES ASSUME NEW u \in Waiting, v \in below[u] PROVE FALSE
    OBVIOUS
  <2>1. Estimate(u) < Estimate(v)
    BY <1>4 DEF Tree, Before
  <2>2. Estimate(v) <= Estimate(u)
    BY <1>4
  <2>3. Estimate(u) \in Nat /\ Estimate(v) \in Nat
    BY <1>1, <1>4, WaitingReached, EstimateType DEF Searching
  <2> QED BY <2>1, <2>2, <2>3
<1>10. Destination \notin Closed /\ \A u \in Closed : Outside(below, u) \/ Inside(below, u)
  BY <1>1 DEF Tree, AtWork
<1>11. CASE v # Destination
  <2>1. ASSUME NEW u \in Closed'
        PROVE  (IF v \in below[u] \cup {u} THEN Outside(below, u) ELSE Inside(below, u))'
    <3>1. u \in Reached /\ \A w \in Waiting : w \in Reached
      BY <1>4, WaitingReached
    <3>2. \A n \in Reached : Estimate(n) \in Nat
      BY <1>1, EstimateType DEF Searching
    <3>3. CASE u = v
      <4>1. \A w \in Waiting' : Estimate(u)' <= Estimate(w)'
        BY <1>2, <1>4, <3>3
      <4>2. Outside(below, u)'
        BY <4>1 DEF Outside
      <4> QED BY <3>3, <4>2
    <3>4. CASE u # v /\ Estimate(u) <= Estimate(v)
      <4>1. \A i, j, k \in Nat : i <= j /\ j <= k => i <= k
        OBVIOUS
      <4>2. \A w \in Waiting : Estimate(u) <= Estimate(w)
        BY <4>1, <3>1, <3>2, <3>4, <1>4
      <4>3. \A w \in Waiting' : Estimate(u)' <= Estimate(w)'
        BY <4>2, <1>2, <1>4
      <4> QED BY <4>3 DEF Outside, Inside
    <3>5. CASE u # v /\ ~(Estimate(u) <= Estimate(v))
      <4>1. u \in Closed
        BY <1>4, <3>5
      <4>2. v \in below[u] => Outside(below, u)
        BY <4>1, <1>4, <1>10, <3>5 DEF Inside
      <4>3. v \notin below[u] => Inside(below, u)
        BY <4>1, <1>4, <1>10, <3>5 DEF Outside
      <4>4. Outside(below, u) => Outside(below, u)'
        BY <1>2, <1>4 DEF Outside
      <4>5. Inside(below, u) => Inside(below, u)'
        BY <1>2, <1>4 DEF Inside
      <4> QED BY <4>2, <4>3, <4>4, <4>5, <3>5
    <3> QED BY <3>3, <3>4, <3>5
  <2>2. AtWork(below)' /\ OnTheWay(below)'
    BY <1>1, <1>4, <1>9, <1>10, <1>11, <2>1 DEF AtWork, OnTheWay
  <2> QED BY <1>5, <1>7, <1>8, <2>2 DEF Tree
<1>12. CASE v = Destination
  <2>1. v \in Reached /\ costFromOrigin[v] \in Nat /\ Head(todo) \in Profiles
    BY <1>1, <1>4, WaitingReached, HeadType DEF Searching, Reached, SearchInv, TypeOK
  <2>2. Estimate(v) = costFromOrigin[v]
    <3>1. 10 * distanceWeight[Head(todo)] * 0 = 0
      BY <2>1, Weights
    <3>2. heuristic(Head(todo), v) = 0
      BY <3>1, <1>12 DEF heuristic, haversineDistance
    <3> QED BY <2>1, <3>2 DEF Estimate
  <2>3. AtWork(below)'
    BY <1>1, <1>2, <1>4, <1>9, <1>12, <2>2 DEF AtWork
  <2>4. costFromOrigin[Destination] = costFromOrigin[v] + costOf(Head(todo), NoTrace)
    BY <1>12, <2>1, NoTraceCosts
  <2>5. \A visited \in SUBSET Nodes : (\A n \in visited : n # v) => NoTrace \in WaysOver(edgesNow)[visited][v]
    BY <1>4, <1>12, WayEnds
  <2>6. edgesNow' = edgesNow
    BY <1>1, EdgesNow
  <2>7. \A visited \in SUBSET Nodes :
          (\A n \in visited : n \notin below[v] \cup {v}) => NoTrace \in WaysOver(edgesNow')[visited][v]
    BY <2>5, <2>6
  <2>8. costOf(Head(todo), traced)' = costOf(Head(todo), NoTrace)
    BY <1>1 DEF costOf
  <2>9. OnTheWay(below)'
    BY <1>1, <1>12, <2>4, <2>7, <2>8 DEF OnTheWay
  <2> QED BY <1>5, <1>7, <1>8, <2>3, <2>9 DEF Tree
<1> QED BY <1>11, <1>12

Lengths == [length : Nat, exposure : Nat]

LEMMA EdgeType ==
  ASSUME TypeOK, NEW e \in Edges
  PROVE  /\ edgesNow[e] \in Lengths
         /\ edgesNow[e].length = distance[e[1]] /\ edgesNow[e].exposure = distanceWeightedRisk(e)
<1>1. distance[e[1]] \in Nat /\ risk[e[1]] \in Nat
  BY EdgeEnds, RoadType
<1>2. distanceWeightedRisk(e) \in Nat
  <2>1. \A j, k \in Nat : j * k \in Nat
    OBVIOUS
  <2> QED BY <2>1, <1>1 DEF distanceWeightedRisk, weightedRisk
<1>3. edgesNow[e] = [length |-> distance[e[1]], exposure |-> distanceWeightedRisk(e)]
  BY DEF edgesNow
<1> QED BY <1>1, <1>2, <1>3 DEF Lengths

LEMMA LongerCosts ==
  ASSUME TypeOK, NEW p \in Profiles, NEW e \in Edges, NEW way \in Lengths
  PROVE  /\ Longer(way, edgesNow[e]) \in Lengths
         /\ costOf(p, way) \in Nat
         /\ costOf(p, Longer(way, edgesNow[e])) = costOf(p, way) + edgeCost(p, e)
<1> DEFINE d == distance[e[1]]
           r == risk[e[1]]
           w == distanceWeight[p]
           v == safetyWeight[p]
           l == way.length
           x == way.exposure
<1>0. l \in Nat /\ x \in Nat
  BY DEF Lengths
<1>1. d \in Nat /\ r \in Nat
  BY EdgeEnds, RoadType
<1>2. w \in {2, 5, 9} /\ v \in {1, 5, 8}
  BY Weights
<1>3. \A i, j \in Nat : i * j \in Nat /\ i + j \in Nat
  OBVIOUS
<1>4. r * d \in Nat
  BY <1>1, <1>3
<1>5. 2 * v * r * d = 2 * v * (r * d)
  <2> HIDE DEF d, r, v
  <2>1. \A k, i, j \in Nat : k * i * j = k * (i * j)
    OBVIOUS
  <2>2. 2 * v \in Nat
    BY <1>2
  <2> QED BY <1>1, <2>1, <2>2
<1>6. \A m \in Nat : 10 * w * l + 2 * v * x \in Nat /\
        10 * w * (l + d) + 2 * v * (x + m) = 10 * w * l + 2 * v * x + (10 * w * d + 2 * v * m)
  <2> HIDE DEF d, r, w, v, l, x
  <2> TAKE m \in Nat
  <2>1. \A i, j \in Nat : 10 * w * (i + j) = 10 * w * i + 10 * w * j /\ 10 * w * i \in Nat
    BY <1>2
  <2>2. \A i, j \in Nat : 2 * v * (i + j) = 2 * v * i + 2 * v * j /\ 2 * v * i \in Nat
    BY <1>2
  <2>3. \A a, b, i, j \in Nat : (a + b) + (i + j) = a + i + (b + j) /\ a + b \in Nat
    OBVIOUS
  <2>4. 10 * w * (l + d) = 10 * w * l + 10 * w * d /\ 10 * w * l \in Nat /\ 10 * w * d \in Nat
    BY <1>0, <1>1, <2>1
  <2>5. 2 * v * (x + m) = 2 * v * x + 2 * v * m /\ 2 * v * x \in Nat /\ 2 * v * m \in Nat
    BY <1>0, <2>2
  <2> QED BY <2>3, <2>4, <2>5
<1>7. Longer(way, edgesNow[e]) = [length |-> l + d, exposure |-> x + r * d]
  <2>1. edgesNow[e].length = d /\ edgesNow[e].exposure = r * d
    BY EdgeType DEF distanceWeightedRisk, weightedRisk
  <2> QED BY <2>1 DEF Longer
<1>8. Longer(way, edgesNow[e]) \in Lengths
  <2> HIDE DEF d, r, l, x
  <2> QED BY <1>0, <1>1, <1>3, <1>4, <1>7 DEF Lengths
<1>9. costOf(p, Longer(way, edgesNow[e])) = 10 * w * (l + d) + 2 * v * (x + r * d)
  <2>1. Longer(way, edgesNow[e]).length = l + d /\ Longer(way, edgesNow[e]).exposure = x + r * d
    BY <1>7
  <2> QED BY <2>1 DEF costOf
<1>10. costOf(p, way) = 10 * w * l + 2 * v * x
  BY DEF costOf
<1>11. edgeCost(p, e) = 10 * w * d + 2 * v * (r * d)
  BY <1>5 DEF edgeCost, weightedRisk
<1> HIDE DEF d, r, w, v, l, x
<1> QED BY <1>4, <1>6, <1>8, <1>9, <1>10, <1>11

LEMMA WaysType ==
  ASSUME TypeOK, NEW visited \in SUBSET Nodes, NEW n \in Nodes \ visited
  PROVE  WaysOver(edgesNow)[visited][n] \subseteq Lengths
<1> DEFINE G == Nodes \X Lengths
<1>1. <<Destination, NoTrace>> \in G
  BY Assumed DEF NoTrace, Lengths, SearchAssumption
<1>2. \A e \in Edges : \A way : <<destination(e), way>> \in G => <<source(e), Longer(way, edgesNow[e])>> \in G
  <2> TAKE e \in Edges
  <2> TAKE way
  <2> HAVE <<destination(e), way>> \in G
  <2>1. way \in Lengths
    OBVIOUS
  <2>2. edgesNow[e].length \in Nat /\ edgesNow[e].exposure \in Nat
    BY EdgeType DEF Lengths
  <2>3. Longer(way, edgesNow[e]) \in Lengths
    BY <2>1, <2>2 DEF Longer, Lengths
  <2> QED BY <2>3, EdgeEnds
<1> HIDE DEF G
<1>3. \A way \in WaysOver(edgesNow)[visited][n] : <<n, way>> \in G
  BY <1>1, <1>2, WaysInduction
<1> QED BY <1>3 DEF G

LEMMA BeginTree ==
  ASSUME SearchInv, Begin
  PROVE  \E below : Tree(below)'
<1>1. PICK below : below = [n \in Nodes |-> {}]
  OBVIOUS
<1>2. origin \in Nodes /\ origin # Destination /\ origin' = origin
  BY Assumed DEF Begin, graph, SearchInv, TypeOK, SearchAssumption
<1>3. /\ costFromOrigin'[origin] = 0 /\ Reached' = {origin} /\ \A n \in Nodes : previousEdge'[n] = None
      /\ pc' = "search" /\ todo' = todo /\ UNCHANGED graph /\ open' = {Entry(Head(todo), origin, 0)}
  <2>1. 0 # Infinity
    BY Assumed DEF SearchAssumption
  <2>2. costFromOrigin' = [n \in Nodes |-> IF n = origin THEN 0 ELSE Infinity] /\ previousEdge' = [n \in Nodes |-> None]
    BY DEF Begin, Begun
  <2>3. Reached' = {origin}
    BY <1>2, <2>1, <2>2 DEF Reached
  <2> QED BY <1>2, <2>2, <2>3 DEF Begin, Begun, graph
<1>4. Waiting' = {origin}
  <2>1. Estimate(origin)' = 0 + heuristic(Head(todo), origin)
    <3>1. Estimate(origin)' = costFromOrigin'[origin] + heuristic(Head(todo), origin)'
      BY <1>2, <1>3 DEF Estimate
    <3>2. heuristic(Head(todo), origin)' = heuristic(Head(todo), origin)
      BY <1>2, <1>3 DEF heuristic, haversineDistance, graph
    <3> QED BY <3>1, <3>2, <1>3
  <2> QED BY <1>2, <1>3, <2>1 DEF Waiting, Entry, Estimate
<1>5. Closed' = {}
  BY <1>3, <1>4 DEF Closed
<1>6. Forest(Parents, below)'
  <2>1. \A n \in Nodes : Parents'[n] = None
    BY <1>3 DEF Parents
  <2> QED BY <1>1, <2>1, Assumed DEF Forest, SearchAssumption
<1>7. Rooted' /\ Descending(below)'
  BY <1>1, <1>2, <1>3 DEF Rooted, Descending
<1>8. LookedAt' /\ Before(below)' /\ AtWork(below)' /\ OnTheWay(below)'
  BY <1>1, <1>3, <1>4, <1>5 DEF LookedAt, Before, AtWork, OnTheWay
<1> QED BY <1>6, <1>7, <1>8 DEF Tree

\* One edge back: what it costs moves from the node to the sum, and the way gets
\* longer by it.
LEMMA TraceTree ==
  ASSUME SearchInv, Trace, NEW below, Tree(below)
  PROVE  Tree(below)'
<1>0. PICK e, p, c, s : e = previousEdge[current] /\ p = Head(todo) /\ c = current /\ s = source(e)
  OBVIOUS
<1>1. /\ pc = "trace" /\ pc' = "trace" /\ e # None /\ current' = s /\ UNCHANGED search
      /\ UNCHANGED graph /\ todo' = todo /\ origin' = origin /\ pending' = pending
      /\ traced' = [length |-> traced.length + distance[e[1]],
                    exposure |-> traced.exposure + distanceWeightedRisk(e)]
  BY <1>0 DEF Trace, graph
<1>2. Forest(Parents, below) /\ Rooted /\ Descending(below) /\ LookedAt
  BY DEF Tree
<1>3. /\ Destination \in Closed
      /\ \A u \in Waiting : Destination \notin below[u]
  BY <1>1 DEF Tree, AtWork
<1>4. /\ c = Destination \/ Destination \in below[c]
      /\ costFromOrigin[Destination] = costFromOrigin[c] + costOf(p, traced)
      /\ \A visited \in SUBSET Nodes :
           (\A n \in visited : n \notin below[c] \cup {c}) => traced \in WaysOver(edgesNow)[visited][c]
  BY <1>0, <1>1 DEF Tree, OnTheWay
<1>5. c \in Nodes /\ Destination \in Nodes
  BY <1>0, <1>1, Assumed DEF SearchInv, TypeOK, SearchAssumption
<1>6. c \in Reached \ {origin}
  BY <1>0, <1>1, <1>2, <1>3, <1>4, <1>5, WaitingReached DEF Descending, Rooted
<1>7. e \in Edges /\ destination(e) = c /\ s \in Reached /\ CostBy(e) <= costFromOrigin[c]
  BY <1>0, <1>2, <1>6 DEF Rooted, FoundBy
<1>8. s \in Nodes /\ c \in below[s] /\ s \notin below[s] /\ below[c] \subseteq below[s]
  <2>1. s \in Nodes /\ Parents[c] = s
    BY <1>0, <1>1, <1>5, <1>7, WaitingReached DEF Parents
  <2> QED BY <2>1, <1>2, <1>5 DEF Forest
<1>9. Destination \in below[s] /\ s # Destination /\ s # c /\ s \notin below[c]
  BY <1>4, <1>8
<1>10. s \in Closed
  BY <1>3, <1>7, <1>9 DEF Closed
<1>11. costFromOrigin[c] = costFromOrigin[s] + edgeCost(p, e) /\ edgeCost(p, e) \in Nat /\ costFromOrigin[s] \in Nat
  <2>1. p \in Profiles
    BY <1>0, <1>1, HeadType DEF Searching
  <2>2. edgeCost(p, e) \in Nat /\ costFromOrigin[s] \in Nat /\ costFromOrigin[c] \in Nat
    BY <1>6, <1>7, <2>1, Costs DEF Reached, SearchInv, TypeOK
  <2>3. costFromOrigin[c] <= CostBy(e)
    BY <1>0, <1>1, <1>2, <1>7, <1>9, <1>10 DEF LookedAt, SearchInv, TypeOK
  <2>4. CostBy(e) = costFromOrigin[s] + edgeCost(p, e)
    BY <1>0 DEF CostBy
  <2> QED BY <2>2, <2>3, <2>4, <1>7
<1>12. traced \in Lengths /\ p \in Profiles
  BY <1>0, <1>1, HeadType DEF Searching, SearchInv, TypeOK, Lengths
<1>13. traced' = Longer(traced, edgesNow[e])
  <2>1. edgesNow[e].length = distance[e[1]] /\ edgesNow[e].exposure = distanceWeightedRisk(e)
    BY <1>7, EdgeType DEF SearchInv
  <2> QED BY <1>1, <2>1 DEF Longer
<1>14. costOf(p, traced') = costOf(p, traced) + edgeCost(p, e) /\ costOf(p, traced) \in Nat
  BY <1>7, <1>12, <1>13, LongerCosts DEF SearchInv
<1>15. costFromOrigin[Destination] = costFromOrigin[s] + costOf(p, traced')
  <2>1. \A i, j, k \in Nat : (i + j) + k = i + (k + j)
    OBVIOUS
  <2> QED BY <2>1, <1>4, <1>11, <1>14
<1>16. ASSUME NEW visited \in SUBSET Nodes, \A n \in visited : n \notin below[s] \cup {s}
       PROVE  traced' \in WaysOver(edgesNow)[visited][s]
  <2>1. traced \in WaysOver(edgesNow)[visited \cup {s}][destination(e)]
    <3>1. \A n \in visited \cup {s} : n \notin below[c] \cup {c}
      BY <1>8, <1>9, <1>16
    <3> QED BY <3>1, <1>4, <1>7, <1>8
  <2>2. e \in Onward(visited, s) /\ s \in Nodes \ visited
    BY <1>0, <1>7, <1>8, <1>9, <1>16 DEF Onward
  <2>3. \A way : way \in WaysOver(edgesNow)[visited][s] <=>
          \E f \in Onward(visited, s) : \E rest \in WaysOver(edgesNow)[visited \cup {s}][destination(f)] :
            way = Longer(rest, edgesNow[f])
    BY <1>9, <2>2, WayBeyond
  <2> QED BY <2>1, <2>2, <2>3, <1>13
<1>17. OnTheWay(below)'
  <2>1. edgesNow' = edgesNow
    BY <1>1, EdgesNow
  <2>2. \A visited \in SUBSET Nodes :
          (\A n \in visited : n \notin below[s] \cup {s}) => traced' \in WaysOver(edgesNow')[visited][s]
    BY <1>16, <2>1
  <2>3. costOf(Head(todo), traced)' = costOf(p, traced')
    BY <1>0, <1>1 DEF costOf
  <2> QED BY <1>1, <1>9, <1>15, <2>2, <2>3 DEF OnTheWay, search
<1>18. UNCHANGED <<costFromOrigin, previousEdge, open>>
  BY <1>1 DEF search
<1>19. (\A n : Estimate(n)' = Estimate(n)) /\ (\A f : CostBy(f)' = CostBy(f))
  BY <1>1, <1>18, SameCostBy
<1>20. Reached' = Reached /\ Parents' = Parents /\ Waiting' = Waiting /\ Closed' = Closed
  BY <1>18, <1>19 DEF Reached, Parents, Waiting, Closed
<1>21. Forest(Parents, below)' /\ Rooted' /\ Descending(below)'
  BY <1>1, <1>2, <1>18, <1>19, <1>20 DEF Forest, Rooted, Descending, FoundBy, CostBy
<1>22. LookedAt' /\ Before(below)' /\ AtWork(below)'
  BY <1>1, <1>18, <1>19, <1>20 DEF Tree, LookedAt, Before, AtWork
<1> QED BY <1>17, <1>21, <1>22 DEF Tree

\* On the way back, what waits can lead to the destination at no lower cost if no
\* road is shorter than a straight line.
LEMMA LowerBound ==
  ASSUME SearchInv, Straight, crow[Destination] = 0, pc = "trace", NEW below, Tree(below)
  PROVE  \A way \in Ways : costFromOrigin[Destination] <= costOf(Head(todo), way)
<1>0. PICK p, least : p = Head(todo) /\ least = costFromOrigin[Destination]
  OBVIOUS
<1> DEFINE h(n) == heuristic(p, n)
           Bounded(n, way) == /\ n \in Nodes /\ way \in Lengths /\ h(n) <= costOf(p, way)
                              /\ n \in Reached => least <= costFromOrigin[n] + costOf(p, way)
           G == {nw \in Nodes \X Lengths : Bounded(nw[1], nw[2])}
<1>1. p \in Profiles
  BY <1>0, HeadType DEF Searching
<1>2. /\ Destination \in Closed /\ LookedAt /\ Rooted
      /\ \A u \in Waiting : least <= Estimate(u)
  BY <1>0 DEF Tree, AtWork
<1>3. (\A n \in Nodes : h(n) \in Nat) /\ (\A e \in Edges : edgeCost(p, e) \in Nat)
  BY <1>1, Costs DEF SearchInv
<1>4. (\A n \in Reached : n \in Nodes /\ costFromOrigin[n] \in Nat) /\ least \in Nat
  BY <1>0, <1>2, WaitingReached DEF Reached, SearchInv, TypeOK
<1>5. <<Destination, NoTrace>> \in G
  <2>1. h(Destination) = 0
    <3>1. 10 * distanceWeight[p] * 0 = 0
      BY <1>1, Weights
    <3> QED BY <3>1 DEF heuristic, haversineDistance
  <2>2. costOf(p, NoTrace) = 0 /\ NoTrace \in Lengths /\ Destination \in Nodes
    BY <1>1, NoTraceCosts, Assumed DEF NoTrace, Lengths, SearchAssumption
  <2>3. Bounded(Destination, NoTrace)
    <3> HIDE DEF h
    <3> QED BY <2>1, <2>2, <1>0, <1>4
  <2> QED BY <2>2, <2>3
<1>6. ASSUME NEW e \in Edges, NEW way, <<destination(e), way>> \in G
      PROVE  <<source(e), Longer(way, edgesNow[e])>> \in G
  <2>0. PICK s, t, longer, c, b : s = source(e) /\ t = destination(e) /\ longer = Longer(way, edgesNow[e])
                                   /\ c = costOf(p, way) /\ b = edgeCost(p, e)
    OBVIOUS
  <2>1. Bounded(t, way)
    BY <1>6, <2>0
  <2>2. s \in Nodes /\ t \in Nodes /\ longer \in Lengths /\ c \in Nat /\ b \in Nat /\ costOf(p, longer) = c + b
    BY <2>0, <2>1, <1>1, <1>3, EdgeEnds, LongerCosts DEF SearchInv
  <2>3. h(s) <= b + h(t) /\ h(t) <= c
    BY <2>0, <2>1, <1>1, Consistent DEF SearchInv
  <2>4. h(s) <= c + b
    <3> HIDE DEF h
    <3> QED BY <2>2, <2>3, <1>3
  <2>5. ASSUME s \in Reached PROVE least <= costFromOrigin[s] + (c + b)
    <3>1. costFromOrigin[s] \in Nat /\ h(s) \in Nat
      BY <1>3, <1>4, <2>5
    <3>2. CASE s \in Waiting
      <4>1. least <= costFromOrigin[s] + h(s)
        BY <1>0, <1>2, <3>2 DEF Estimate
      <4>2. \A i, j, k, m \in Nat : i <= j + k /\ k <= m => i <= j + m
        OBVIOUS
      <4> HIDE DEF h
      <4> QED BY <4>1, <4>2, <3>1, <1>4, <2>2, <2>4
    <3>3. CASE s = Destination
      <4>1. \A i, j \in Nat : i <= i + j
        OBVIOUS
      <4> QED BY <4>1, <3>3, <1>0, <1>4, <2>2
    <3>4. CASE s \in Closed \ {Destination}
      <4>1. t \in Reached /\ costFromOrigin[t] <= costFromOrigin[s] + b
        BY <1>0, <1>2, <2>0, <3>4 DEF LookedAt, CostBy, SearchInv, TypeOK
      <4>2. least <= costFromOrigin[t] + c /\ costFromOrigin[t] \in Nat
        BY <4>1, <1>4, <2>0, <2>1
      <4>3. \A i, j, k, m, n \in Nat : i <= j + k /\ j <= m + n => i <= m + (k + n)
        OBVIOUS
      <4> QED BY <4>1, <4>2, <4>3, <3>1, <1>4, <2>2
    <3> QED BY <3>2, <3>3, <3>4, <2>5 DEF Closed
  <2>6. Bounded(s, longer)
    <3> HIDE DEF h
    <3> QED BY <2>2, <2>4, <2>5
  <2> HIDE DEF Bounded
  <2> QED BY <2>0, <2>2, <2>6
<1> HIDE DEF G
<1>7. \A e \in Edges : \A way : <<destination(e), way>> \in G => <<source(e), Longer(way, edgesNow[e])>> \in G
  BY <1>6
<1>8. origin \in Nodes \ {} /\ {} \in SUBSET Nodes
  BY Assumed DEF SearchInv, TypeOK, SearchAssumption
<1>9. ASSUME NEW way \in Ways PROVE least <= costOf(p, way)
  <2>1. \A visited \in SUBSET Nodes : \A n \in Nodes \ visited : \A w \in WaysOver(edgesNow)[visited][n] : <<n, w>> \in G
    BY <1>5, <1>7, WaysInduction
  <2>2. <<origin, way>> \in G
    BY <2>1, <1>8 DEF Ways
  <2>3. Bounded(origin, way)
    <3> HIDE DEF Bounded
    <3> QED BY <2>2 DEF G
  <2>4. costFromOrigin[origin] = 0 /\ origin \in Reached
    BY <1>2, <1>8, Assumed DEF Rooted, Reached, SearchAssumption
  <2>5. costOf(p, way) \in Nat
    <3>1. \A i, j \in Nat : 10 * distanceWeight[p] * i + 2 * safetyWeight[p] * j \in Nat
      BY <1>1, Weights
    <3>2. way.length \in Nat /\ way.exposure \in Nat
      BY <2>3 DEF Lengths
    <3> QED BY <3>1, <3>2 DEF costOf
  <2> QED BY <2>3, <2>4, <2>5
<1> QED BY <1>0, <1>9

\* When the queue is empty, no edge leads on from what was reached.
LEMMA NoWay ==
  ASSUME SearchInv, pc = "search", open = {}, NEW below, Tree(below)
  PROVE  Ways = {}
<1> DEFINE Out == (Nodes \ Reached) \X Lengths
<1>1. Closed = Reached /\ Destination \notin Reached
  BY DEF Closed, Waiting, Tree, AtWork
<1>2. pending = {} /\ LookedAt /\ Rooted
  BY DEF Tree, SearchInv, TypeOK
<1>3. <<Destination, NoTrace>> \in Out
  BY <1>1, Assumed DEF NoTrace, Lengths, SearchAssumption
<1>4. \A e \in Edges : \A way : <<destination(e), way>> \in Out => <<source(e), Longer(way, edgesNow[e])>> \in Out
  <2> TAKE e \in Edges
  <2> TAKE way
  <2> HAVE <<destination(e), way>> \in Out
  <2>1. destination(e) \notin Reached /\ way \in Lengths
    OBVIOUS
  <2>2. source(e) \in Nodes /\ source(e) \notin Reached
    BY <1>1, <1>2, <2>1, EdgeEnds DEF LookedAt
  <2>3. edgesNow[e].length \in Nat /\ edgesNow[e].exposure \in Nat
    BY EdgeType DEF Lengths, SearchInv
  <2>4. Longer(way, edgesNow[e]) \in Lengths
    BY <2>1, <2>3 DEF Longer, Lengths
  <2> QED BY <2>2, <2>4
<1>5. origin \in Nodes \ {} /\ {} \in SUBSET Nodes /\ origin \in Reached
  BY <1>2, Assumed DEF Rooted, Reached, SearchInv, TypeOK, SearchAssumption
<1> HIDE DEF Out
<1>6. \A visited \in SUBSET Nodes : \A n \in Nodes \ visited : \A w \in WaysOver(edgesNow)[visited][n] : <<n, w>> \in Out
  BY <1>3, <1>4, WaysInduction
<1>7. \A way \in Ways : <<origin, way>> \in Out
  BY <1>5, <1>6 DEF Ways
<1> QED BY <1>5, <1>7 DEF Out

-----------------------------------------------------------------------------
\* What is returned for a preference.
WayOf(route) == [length |-> route.length, exposure |-> route.exposure]

Answer(p) ==
  IF routes[p].found
  THEN /\ routes[p].from = origin
       /\ WayOf(routes[p]) \in Ways
       /\ routes[p].totalCost = costOf(p, WayOf(routes[p]))
       /\ Straight => \A way \in Ways : routes[p].totalCost <= costOf(p, way)
  ELSE Ways = {}

WayInv ==
  /\ crow[Destination] = 0
  /\ pc # "trace" => traced = NoTrace
  /\ pc \in Searching => \E below : Tree(below)
  /\ \A p \in DOMAIN routes : Answer(p)

\* The edges traced are a way from the origin, and cost what is returned.
LEMMA TracedWay ==
  ASSUME SearchInv, WayInv, Traced
  PROVE  /\ current = origin /\ traced \in Ways
         /\ costFromOrigin[Destination] = costOf(Head(todo), traced)
<1>1. pc = "trace" /\ previousEdge[current] = None /\ current \in Nodes /\ Destination \in Nodes /\ origin \in Nodes
  BY Assumed DEF Traced, SearchInv, TypeOK, SearchAssumption
<1>2. PICK below : Tree(below)
  BY <1>1 DEF WayInv, Searching
<1>3. Rooted /\ Descending(below) /\ Destination \in Reached
  BY <1>1, <1>2, WaitingReached DEF Tree, AtWork
<1>4. /\ current = Destination \/ Destination \in below[current]
      /\ costFromOrigin[Destination] = costFromOrigin[current] + costOf(Head(todo), traced)
      /\ \A visited \in SUBSET Nodes :
           (\A n \in visited : n \notin below[current] \cup {current}) => traced \in WaysOver(edgesNow)[visited][current]
  BY <1>1, <1>2 DEF Tree, OnTheWay
<1>5. current = origin
  <2>1. current \in Reached
    BY <1>1, <1>3, <1>4 DEF Descending
  <2> QED BY <2>1, <1>1, <1>3, Assumed DEF Rooted, FoundBy, NoneAssumption
<1>6. traced \in Ways
  <2>1. {} \in SUBSET Nodes /\ \A n \in {} : n \notin below[current] \cup {current}
    OBVIOUS
  <2> QED BY <2>1, <1>4, <1>5 DEF Ways
<1>7. costOf(Head(todo), traced) \in Nat
  <2>1. traced.length \in Nat /\ traced.exposure \in Nat /\ Head(todo) \in Profiles
    BY <1>1, HeadType DEF Searching, SearchInv, TypeOK
  <2>2. \A i, j \in Nat : 10 * distanceWeight[Head(todo)] * i + 2 * safetyWeight[Head(todo)] * j \in Nat
    BY <2>1, Weights
  <2> QED BY <2>1, <2>2 DEF costOf
<1> QED BY <1>3, <1>4, <1>5, <1>6, <1>7 DEF Rooted

LEMMA SameAnswers ==
  ASSUME \A p \in DOMAIN routes : Answer(p), UNCHANGED graph, UNCHANGED routes
  PROVE  \A p \in DOMAIN routes' : Answer(p)'
BY EdgesNow, GraphStays DEF Answer, graph

LEMMA FinishAnswers ==
  ASSUME SearchInv, WayInv, Exhausted \/ Traced
  PROVE  WayInv'
<1>0. PICK p : p = Head(todo)
  OBVIOUS
<1>1. UNCHANGED graph /\ origin' = origin /\ crow' = crow /\ traced' = NoTrace /\ pc' = "begin"
  BY DEF Exhausted, Traced, Finish, graph
<1>2. Ways' = Ways /\ Straight' = Straight
  BY <1>1, EdgesNow, GraphStays
<1>3. ASSUME NEW q \in DOMAIN routes', q # p PROVE Answer(q)'
  <2>1. q \in DOMAIN routes /\ routes'[q] = routes[q]
    BY <1>0, <1>3 DEF Exhausted, Traced, Finish
  <2> QED BY <2>1, <1>1, <1>2 DEF WayInv, Answer
<1>4. Answer(p)'
  <2>1. CASE Exhausted
    <3>1. routes'[p] = NoRoute
      BY <1>0, <2>1 DEF Exhausted, Finish
    <3>2. routes'[p].found = FALSE
      BY <3>1 DEF NoRoute
    <3>3. Ways = {}
      BY <2>1, NoWay DEF Exhausted, WayInv, Searching
    <3> QED BY <3>2, <3>3, <1>2 DEF Answer
  <2>2. CASE Traced
    <3> DEFINE route == [found |-> TRUE, from |-> current, totalCost |-> costFromOrigin[Destination],
                         length |-> traced.length, exposure |-> traced.exposure, exploredNodes |-> exploredNodes]
    <3>1. routes'[p] = route
      BY <1>0, <2>2 DEF Traced, Finish
    <3>2. /\ routes'[p].found = TRUE /\ routes'[p].from = current /\ routes'[p].totalCost = costFromOrigin[Destination]
          /\ routes'[p].length = traced.length /\ routes'[p].exposure = traced.exposure
      BY <3>1
    <3> HIDE DEF route
    <3>3. traced \in [length : Nat, exposure : Nat]
      BY DEF SearchInv, TypeOK
    <3>4. WayOf(routes'[p]) = traced
      BY <3>2, <3>3 DEF WayOf
    <3>5. current = origin /\ traced \in Ways /\ costFromOrigin[Destination] = costOf(p, traced)
      BY <1>0, <2>2, TracedWay
    <3>6. Straight => \A way \in Ways : costFromOrigin[Destination] <= costOf(p, way)
      <4>1. pc = "trace"
        BY <2>2 DEF Traced
      <4> QED BY <4>1, <1>0, LowerBound DEF WayInv, Searching
    <3>7. /\ WayOf(routes[p])' = WayOf(routes'[p])
          /\ costOf(p, WayOf(routes[p]))' = costOf(p, WayOf(routes'[p]))
          /\ \A way : costOf(p, way)' = costOf(p, way)
      BY DEF WayOf, costOf
    <3> QED BY <1>1, <1>2, <3>2, <3>4, <3>5, <3>6, <3>7 DEF Answer
  <2> QED BY <2>1, <2>2
<1>5. \A q \in DOMAIN routes' : Answer(q)'
  BY <1>3, <1>4
<1> QED BY <1>1, <1>5 DEF WayInv, Searching

LEMMA NextWayInv == SearchInv /\ WayInv /\ [Next]_vars => WayInv'
<1> SUFFICES ASSUME SearchInv, WayInv, [Next]_vars PROVE WayInv'
  OBVIOUS
<1>1. UNCHANGED graph /\ crow' = crow
  BY DEF Next, Step, Begin, SkipStale, Discard, Expand, Visit, Relax, Relaxed, Exhausted, Trace, Traced, Finish,
         Return, Ended, vars, graph
<1>2. UNCHANGED routes => \A p \in DOMAIN routes' : Answer(p)'
  <2> HAVE UNCHANGED routes
  <2> QED BY <1>1, SameAnswers DEF WayInv
<1>3. CASE Begin
  BY <1>1, <1>2, <1>3, BeginTree DEF Begin, WayInv
<1>4. CASE \E x \in open : SkipStale(x)
  <2>1. PICK x \in open : SkipStale(x)
    BY <1>4
  <2>2. /\ pc = "search" /\ pc' = "search" /\ open' = open \ {x} /\ Stale(x)
        /\ UNCHANGED <<costFromOrigin, previousEdge, todo, pending, traced, routes>>
    BY <2>1 DEF SkipStale, Discard
  <2>3. PICK below : Tree(below)
    BY <2>2 DEF WayInv, Searching
  <2>4. Tree(below)'
    BY <1>1, <2>2, <2>3, SameTree
  <2> QED BY <1>1, <1>2, <2>2, <2>4 DEF WayInv
<1>5. CASE \E x \in open : Expand(x)
  <2>1. PICK x \in open : Expand(x)
    BY <1>5
  <2>2. pc = "search" /\ pc' \in {"relax", "trace"} /\ UNCHANGED <<traced, routes>>
    BY <2>1 DEF Expand, Visit
  <2>3. traced = NoTrace
    BY <2>2 DEF WayInv
  <2>4. \E below : Tree(below)'
    BY <2>1, <2>2, <2>3, ExpandTree DEF WayInv, Searching
  <2> QED BY <1>1, <1>2, <2>2, <2>3, <2>4 DEF WayInv
<1>6. CASE \E e \in pending : Relax(e)
  <2>1. PICK e \in pending : Relax(e)
    BY <1>6
  <2>2. pc = "relax" /\ pc' = "relax" /\ UNCHANGED <<traced, routes>>
    BY <2>1 DEF Relax
  <2>3. \E below : Tree(below)'
    BY <2>1, <2>2, RelaxTree DEF WayInv, Searching
  <2> QED BY <1>1, <1>2, <2>2, <2>3 DEF WayInv
<1>7. CASE Relaxed
  <2>1. /\ pc = "relax" /\ pending = {} /\ pc' = "search"
        /\ UNCHANGED <<open, costFromOrigin, previousEdge, todo, pending, traced, routes>>
    BY <1>7 DEF Relaxed, search
  <2>2. PICK below : Tree(below)
    BY <2>1 DEF WayInv, Searching
  <2>3. Tree(below)'
    BY <1>1, <2>1, <2>2, SameTree
  <2> QED BY <1>1, <1>2, <2>1, <2>3 DEF WayInv
<1>8. CASE Exhausted \/ Traced
  BY <1>8, FinishAnswers
<1>9. CASE Trace
  <2>1. pc = "trace" /\ pc' = "trace" /\ UNCHANGED routes
    BY <1>9 DEF Trace
  <2>2. \E below : Tree(below)'
    BY <1>9, <2>1, TraceTree DEF WayInv, Searching
  <2> QED BY <1>1, <1>2, <2>1, <2>2 DEF WayInv
<1>10. CASE Return
  BY <1>1, <1>2, <1>10 DEF Return, WayInv, Searching
<1>11. CASE UNCHANGED vars
  <2>1. UNCHANGED <<open, costFromOrigin, previousEdge, todo, pc, current, pending, traced, routes, origin>>
    BY <1>11 DEF vars, search, graph
  <2>2. ASSUME pc \in Searching PROVE \E below : Tree(below)'
    <3>1. PICK below : Tree(below)
      BY <2>2 DEF WayInv
    <3>2. (\A n : Estimate(n)' = Estimate(n)) /\ (\A f : CostBy(f)' = CostBy(f))
      BY <1>1, <2>1, SameCostBy
    <3>3. Reached' = Reached /\ Parents' = Parents /\ Waiting' = Waiting /\ Closed' = Closed
      BY <2>1, <3>2 DEF Reached, Parents, Waiting, Closed
    <3>4. Forest(Parents, below)' /\ Rooted' /\ Descending(below)'
      BY <2>1, <3>1, <3>2, <3>3 DEF Tree, Forest, Rooted, Descending, FoundBy, CostBy
    <3>5. LookedAt' /\ Before(below)'
      BY <2>1, <3>1, <3>2, <3>3 DEF Tree, LookedAt, Before
    <3>6. AtWork(below)'
      BY <2>1, <3>1, <3>2, <3>3 DEF Tree, AtWork, Outside, Inside
    <3>7. OnTheWay(below)'
      <4>1. edgesNow' = edgesNow /\ costOf(Head(todo), traced)' = costOf(Head(todo), traced)
        BY <1>1, <2>1, EdgesNow DEF costOf
      <4> QED BY <2>1, <3>1, <4>1 DEF Tree, OnTheWay
    <3> QED BY <3>4, <3>5, <3>6, <3>7 DEF Tree
  <2> QED BY <1>1, <1>2, <2>1, <2>2 DEF WayInv
<1> QED BY <1>3, <1>4, <1>5, <1>6, <1>7, <1>8, <1>9, <1>10, <1>11 DEF Next, Step, Ended

LEMMA WayHolds == Spec => [](SearchInv /\ WayInv)
<1>1. Init => WayInv
  BY DEF Init, WayInv, Searching
<1> QED BY <1>1, InitSearchInv, NextSearchInv, NextWayInv, PTL DEF Spec

\* Whatever the lines and the roads, the edges that are read back for a route lead
\* from the origin, and what they cost is what the route is said to cost.
THEOREM RoutesAddUp == Spec => []AddsUp
<1>1. WayInv => AddsUp
  <2> SUFFICES ASSUME WayInv, NEW p \in DOMAIN routes, Found(p)
               PROVE  routes[p].from = origin /\ routes[p].totalCost = costOf(p, routes[p])
    BY DEF AddsUp
  <2>1. routes[p].from = origin /\ routes[p].totalCost = costOf(p, WayOf(routes[p]))
    BY DEF WayInv, Answer, Found
  <2>2. WayOf(routes[p]).length = routes[p].length /\ WayOf(routes[p]).exposure = routes[p].exposure
    BY DEF WayOf
  <2>3. costOf(p, WayOf(routes[p])) = costOf(p, routes[p])
    BY <2>2 DEF costOf
  <2> QED BY <2>1, <2>3
<1> QED BY <1>1, WayHolds, PTL

LEMMA WayCosts ==
  ASSUME SearchInv, NEW p \in Profiles, NEW way \in Ways
  PROVE  way \in Lengths /\ costOf(p, way) \in Nat
<1>1. origin \in Nodes \ {} /\ {} \in SUBSET Nodes
  BY Assumed DEF SearchInv, TypeOK, SearchAssumption
<1>2. way \in Lengths
  BY <1>1, WaysType DEF SearchInv, Ways
<1>3. way.length \in Nat /\ way.exposure \in Nat
  BY <1>2 DEF Lengths
<1>4. \A i, j \in Nat : 10 * distanceWeight[p] * i + 2 * safetyWeight[p] * j \in Nat
  BY Weights
<1> QED BY <1>2, <1>3, <1>4 DEF costOf

\* There is a route for a preference whenever there is a way, and it is the cheapest
\* if no road is shorter than a straight line.
THEOREM RoutesOptimal == Spec => []Optimal
<1>1. SearchInv /\ WayInv => Optimal
  <2> SUFFICES ASSUME SearchInv, WayInv, NEW p \in DOMAIN routes
               PROVE  /\ routes[p].found <=> Best(p) # Infinity
                      /\ routes[p].found /\ Straight => routes[p].totalCost = Best(p)
    BY DEF Optimal
  <2>1. PICK costs, best : costs = {costOf(p, way) : way \in Ways} /\ best = Best(p)
    OBVIOUS
  <2>2. Answer(p) /\ p \in Profiles
    BY DEF WayInv, SearchInv, TypeOK
  <2>3. costs \subseteq Nat
    BY <2>1, <2>2, WayCosts
  <2>4. CASE routes[p].found
    <3>1. /\ WayOf(routes[p]) \in Ways /\ routes[p].totalCost = costOf(p, WayOf(routes[p]))
          /\ Straight => \A way \in Ways : routes[p].totalCost <= costOf(p, way)
      BY <2>2, <2>4 DEF Answer
    <3>2. routes[p].totalCost \in costs /\ (Straight => \A d \in costs : routes[p].totalCost <= d)
      BY <2>1, <3>1
    <3>3. \E c \in costs : \A d \in costs : c <= d
      BY <2>3, <3>2, Minimum
    <3>4. best = CHOOSE c \in costs : \A d \in costs : c <= d
      BY <2>1, <3>2 DEF Best
    <3>5. best \in costs /\ \A d \in costs : best <= d
      BY <3>3, <3>4
    <3>6. best # Infinity
      BY <2>3, <3>5, Assumed DEF SearchAssumption
    <3>7. Straight => routes[p].totalCost = best
      <4> HAVE Straight
      <4>1. routes[p].totalCost <= best /\ best <= routes[p].totalCost
        BY <3>2, <3>5
      <4>2. routes[p].totalCost \in Nat /\ best \in Nat
        BY <2>3, <3>2, <3>5
      <4> QED BY <4>1, <4>2
    <3> QED BY <2>1, <2>4, <3>6, <3>7
  <2>5. CASE ~routes[p].found
    <3>1. costs = {}
      BY <2>1, <2>2, <2>5 DEF Answer
    <3> QED BY <2>1, <2>5, <3>1 DEF Best
  <2> QED BY <2>4, <2>5
<1> QED BY <1>1, WayHolds, PTL

\* Two ways, each as cheap as the other by its own weights.
LEMMA WeighedAgainst ==
  ASSUME NEW p \in Profiles, NEW q \in Profiles, distanceWeight[p] > distanceWeight[q],
         NEW a \in Lengths, NEW b \in Lengths, costOf(p, a) <= costOf(p, b), costOf(q, b) <= costOf(q, a)
  PROVE  a.length <= b.length /\ b.exposure <= a.exposure
<1>0. PICK l, x, m, y : l = a.length /\ x = a.exposure /\ m = b.length /\ y = b.exposure
  OBVIOUS
<1>1. l \in Nat /\ x \in Nat /\ m \in Nat /\ y \in Nat
  BY <1>0 DEF Lengths
<1>2. /\ distanceWeight["FASTEST"] = 9 /\ safetyWeight["FASTEST"] = 1
      /\ distanceWeight["BALANCED"] = 5 /\ safetyWeight["BALANCED"] = 5
      /\ distanceWeight["SAFEST"] = 2 /\ safetyWeight["SAFEST"] = 8
  BY DEF distanceWeight, safetyWeight
<1>3. PICK dp, sp, dq, sq : dp = distanceWeight[p] /\ sp = safetyWeight[p] /\ dq = distanceWeight[q] /\ sq = safetyWeight[q]
  OBVIOUS
<1>4. /\ 10 * dp * l + 2 * sp * x <= 10 * dp * m + 2 * sp * y
      /\ 10 * dq * m + 2 * sq * y <= 10 * dq * l + 2 * sq * x
      /\ dp > dq
  BY <1>0, <1>3 DEF costOf
<1>5. \/ dp = 9 /\ sp = 1 /\ dq = 5 /\ sq = 5
      \/ dp = 9 /\ sp = 1 /\ dq = 2 /\ sq = 8
      \/ dp = 5 /\ sp = 5 /\ dq = 2 /\ sq = 8
  BY <1>2, <1>3, <1>4 DEF Profiles
<1>6. l <= m /\ y <= x
  <2>1. CASE dp = 9 /\ sp = 1 /\ dq = 5 /\ sq = 5
    BY <1>1, <1>4, <2>1
  <2>2. CASE dp = 9 /\ sp = 1 /\ dq = 2 /\ sq = 8
    BY <1>1, <1>4, <2>2
  <2>3. CASE dp = 5 /\ sp = 5 /\ dq = 2 /\ sq = 8
    BY <1>1, <1>4, <2>3
  <2> QED BY <1>5, <2>1, <2>2, <2>3
<1> QED BY <1>0, <1>6

\* Of two routes returned together in a network without roads shorter than a
\* straight line, the one of the profile that weighs safety more is no more exposed,
\* in all and by length, and the other is no longer.
THEOREM RoutesTradeOff == Spec => []Tradeoff
<1>1. SearchInv /\ WayInv => Tradeoff
  <2> SUFFICES ASSUME SearchInv, WayInv, Straight, NEW p \in DOMAIN routes, NEW q \in DOMAIN routes,
                      Found(p), Found(q), distanceWeight[p] > distanceWeight[q]
               PROVE  /\ routes[p].length <= routes[q].length
                      /\ routes[q].exposure <= routes[p].exposure
                      /\ routes[q].exposure * routes[p].length <= routes[p].exposure * routes[q].length
    BY DEF Tradeoff
  <2>1. PICK a, b : a = WayOf(routes[p]) /\ b = WayOf(routes[q])
    OBVIOUS
  <2>2. p \in Profiles /\ q \in Profiles /\ Answer(p) /\ Answer(q)
    BY DEF WayInv, SearchInv, TypeOK
  <2>3. a \in Ways /\ b \in Ways /\ costOf(p, a) <= costOf(p, b) /\ costOf(q, b) <= costOf(q, a)
    BY <2>1, <2>2 DEF Answer, Found
  <2>4. a \in Lengths /\ b \in Lengths
    BY <2>2, <2>3, WayCosts
  <2>5. a.length <= b.length /\ b.exposure <= a.exposure
    BY <2>2, <2>3, <2>4, WeighedAgainst
  <2>6. a.length \in Nat /\ a.exposure \in Nat /\ b.length \in Nat /\ b.exposure \in Nat
    BY <2>4 DEF Lengths
  <2>7. b.exposure * a.length <= a.exposure * b.length
    <3>1. \A i, j, k \in Nat : i <= j => i * k <= j * k /\ k * i <= k * j /\ i * k \in Nat /\ j * k \in Nat /\ k * i \in Nat /\ k * j \in Nat
      OBVIOUS
    <3>2. b.exposure * a.length <= a.exposure * a.length /\ a.exposure * a.length <= a.exposure * b.length
      BY <2>5, <2>6, <3>1
    <3>3. b.exposure * a.length \in Nat /\ a.exposure * a.length \in Nat /\ a.exposure * b.length \in Nat
      BY <2>5, <2>6, <3>1
    <3>4. \A i, j, k \in Nat : i <= j /\ j <= k => i <= k
      OBVIOUS
    <3> QED BY <3>2, <3>3, <3>4
  <2>8. /\ a.length = routes[p].length /\ a.exposure = routes[p].exposure
        /\ b.length = routes[q].length /\ b.exposure = routes[q].exposure
    BY <2>1 DEF WayOf
  <2> QED BY <2>5, <2>7, <2>8
<1> QED BY <1>1, WayHolds, PTL

-----------------------------------------------------------------------------
(* The loops end *)

LEMMA EdgesFinite == IsFiniteSet(Edges) /\ IsFiniteSet(pending \cap Edges)
<1>1. IsFiniteSet({"forward", "reverse"})
  <2>1. IsFiniteSet({"forward"})
    BY FS_Singleton
  <2>2. IsFiniteSet({"forward"} \cup {"reverse"})
    BY <2>1, FS_AddElement
  <2>3. {"forward", "reverse"} = {"forward"} \cup {"reverse"}
    OBVIOUS
  <2> QED BY <2>2, <2>3
<1>2. IsFiniteSet(Segments \X {"forward", "reverse"})
  BY <1>1, GraphAssumption, FS_Product DEF GraphAssumption
<1>3. Edges \subseteq Segments \X {"forward", "reverse"}
  BY DEF Edges
<1>4. IsFiniteSet(Edges)
  BY <1>2, <1>3, FS_Subset
<1> QED BY <1>4, FS_Subset

LEMMA EdgesCost ==
  ASSUME TypeOK, NEW p \in Profiles, NEW e \in Edges
  PROVE  edgeCost(p, e) \in Nat /\ edgeCost(p, e) > 0
<1>0. PICK s, d, w, v, r : s = e[1] /\ d = distance[s] /\ w = distanceWeight[p] /\ v = safetyWeight[p] /\ r = risk[s]
  OBVIOUS
<1>1. s \in Segments
  BY <1>0, EdgeEnds
<1>2. d \in Nat /\ d > 0 /\ r \in Nat
  <2>1. PICK road : road = [distance |-> distance[s], risk |-> risk[s]]
    OBVIOUS
  <2>2. road \in [distance : Nat \ {0}, risk : 0..10]
    BY <1>1, <2>1, Assumed DEF TypeOK, SearchAssumption
  <2>3. road.distance \in Nat \ {0} /\ road.risk \in 0 .. 10
    BY <2>2
  <2> QED BY <1>0, <2>1, <2>3
<1>3. w \in {2, 5, 9} /\ v \in {1, 5, 8}
  BY <1>0, Weights
<1>4. 10 * w * d \in Nat /\ 10 * w * d > 0
  BY <1>2, <1>3
<1>5. 2 * v * r * d \in Nat
  <2>1. \A i, j \in Nat : i * j \in Nat
    OBVIOUS
  <2>2. 2 * v * r \in Nat
    BY <1>2, <1>3
  <2> QED BY <1>2, <2>1, <2>2
<1>6. edgeCost(p, e) = 10 * w * d + 2 * v * r * d
  BY <1>0 DEF edgeCost, weightedRisk
<1>7. \A i, j \in Nat : i > 0 => i + j \in Nat /\ i + j > 0
  OBVIOUS
<1> QED BY <1>4, <1>5, <1>6, <1>7

\* The node an edge leads back to costs less.
LEMMA TraceFalls ==
  ASSUME SearchInv, Trace, NEW below, Tree(below)
  PROVE  /\ costFromOrigin[current] \in Nat /\ costFromOrigin[current'] \in Nat
         /\ costFromOrigin[current'] < costFromOrigin[current]
<1>0. PICK e, p, c, s : e = previousEdge[current] /\ p = Head(todo) /\ c = current /\ s = source(e)
  OBVIOUS
<1>1. pc = "trace" /\ e # None /\ current' = s /\ c \in Nodes /\ p \in Profiles
  BY <1>0, HeadType DEF Trace, SearchInv, TypeOK, Searching
<1>2. c \in Reached \ {origin} /\ FoundBy(c, e)
  BY <1>0, <1>1 DEF Tree, Rooted
<1>3. e \in Edges /\ s \in Reached /\ costFromOrigin[s] + edgeCost(p, e) <= costFromOrigin[c]
  BY <1>0, <1>2 DEF FoundBy, CostBy
<1>4. costFromOrigin[s] \in Nat /\ costFromOrigin[c] \in Nat
  BY <1>2, <1>3 DEF Reached, SearchInv, TypeOK
<1>5. edgeCost(p, e) \in Nat /\ edgeCost(p, e) > 0
  BY <1>1, <1>3, EdgesCost DEF SearchInv
<1>6. \A i, j, k \in Nat : j > 0 /\ i + j <= k => i < k
  OBVIOUS
<1> QED BY <1>0, <1>1, <1>3, <1>4, <1>5, <1>6

Remainders == [phases : Nat, costs : [Nodes -> Nat \cup {Infinity}], queued : Nat, edges : Nat]

LEMMA RemainingIs ==
  /\ Remaining.phases = 4 * Len(todo) + Phase[pc]
  /\ Remaining.costs = costFromOrigin
  /\ Remaining.queued = IF pc = "trace" THEN costFromOrigin[current] ELSE Cardinality(open)
  /\ Remaining.edges = IF pc = "relax" THEN Cardinality(pending) + 1 ELSE 0
BY DEF Remaining

LEMMA RemainingAfter ==
  /\ Remaining'.phases = 4 * Len(todo') + Phase[pc']
  /\ Remaining'.costs = costFromOrigin'
  /\ Remaining'.queued = IF pc' = "trace" THEN costFromOrigin'[current'] ELSE Cardinality(open')
  /\ Remaining'.edges = IF pc' = "relax" THEN Cardinality(pending') + 1 ELSE 0
BY DEF Remaining, Phase

FiniteInv == IsFiniteSet(open)

LEMMA NextFinite == FiniteInv /\ [Next]_vars => FiniteInv'
<1> SUFFICES ASSUME FiniteInv, [Next]_vars PROVE FiniteInv'
  OBVIOUS
<1>1. ASSUME NEW x, NEW S, IsFiniteSet(S) PROVE IsFiniteSet({x}) /\ IsFiniteSet(S \cup {x}) /\ IsFiniteSet(S \ {x})
  BY <1>1, FS_Singleton, FS_AddElement, FS_RemoveElement
<1>2. CASE Begin
  BY <1>2, FS_Singleton DEF Begin, Begun, FiniteInv
<1>3. ASSUME NEW x \in open, SkipStale(x) \/ Expand(x) PROVE FiniteInv'
  BY <1>1, <1>3 DEF SkipStale, Discard, Expand, Visit, FiniteInv
<1>4. ASSUME NEW e \in pending, Relax(e) PROVE FiniteInv'
  BY <1>1, <1>4 DEF Relax, FiniteInv
<1>5. CASE Exhausted \/ Traced
  BY <1>5, FS_EmptySet DEF Exhausted, Traced, Finish, Idle, FiniteInv
<1>6. CASE Relaxed \/ Trace \/ Return \/ UNCHANGED vars
  BY <1>6 DEF Relaxed, Trace, Return, vars, search, FiniteInv
<1> QED BY <1>2, <1>3, <1>4, <1>5, <1>6 DEF Next, Step, Ended

LEMMA RemainingType == SearchInv /\ WayInv /\ FiniteInv => Remaining \in Remainders
<1> SUFFICES ASSUME SearchInv, WayInv, FiniteInv PROVE Remaining \in Remainders
  OBVIOUS
<1>1. Len(todo) \in Nat /\ Phase[pc] \in 0 .. 3
  BY LenProperties DEF SearchInv, TypeOK, Phase
<1>2. IsFiniteSet(pending)
  BY EdgesFinite, FS_Subset DEF SearchInv, TypeOK
<1>3. 4 * Len(todo) + Phase[pc] \in Nat
  BY <1>1
<1>4. costFromOrigin \in [Nodes -> Nat \cup {Infinity}]
  BY DEF SearchInv, TypeOK
<1>5. pc = "trace" => costFromOrigin[current] \in Nat
  <2> HAVE pc = "trace"
  <2>1. PICK below : Tree(below)
    BY DEF WayInv, Searching
  <2>2. current \in Nodes /\ Destination \in Nodes
    BY Assumed DEF SearchInv, TypeOK, SearchAssumption
  <2>3. current \in Reached
    BY <2>1, <2>2, WaitingReached DEF Tree, AtWork, OnTheWay, Descending
  <2> QED BY <1>4, <2>3 DEF Reached
<1>6. Cardinality(open) \in Nat /\ Cardinality(pending) + 1 \in Nat
  BY <1>2, FS_CardinalityType DEF FiniteInv
<1> QED BY <1>3, <1>4, <1>5, <1>6 DEF Remaining, Remainders

LEMMA CardinalityFalls ==
  ASSUME NEW S, IsFiniteSet(S), NEW x \in S
  PROVE  Cardinality(S \ {x}) < Cardinality(S)
<1>1. Cardinality(S) \in Nat /\ Cardinality(S \ {x}) = Cardinality(S) - 1
  BY FS_RemoveElement, FS_CardinalityType
<1> QED BY <1>1

\* One round of the loop over the neighbours: a cost falls, or one edge less is left.
LEMMA RelaxGetsOn ==
  ASSUME SearchInv, NEW e \in pending, Relax(e)
  PROVE  LessRemains(Remaining', Remaining)
<1>0. PICK d, c : d = destination(e) /\ c = candidateCost(e)
  OBVIOUS
<1>1. pc = "relax" /\ pc' = "relax" /\ todo' = todo /\ pending' = pending \ {e}
  BY DEF Relax
<1>2. d \in Nodes /\ c \in Nat /\ costFromOrigin \in [Nodes -> Nat \cup {Infinity}] /\ Infinity \notin Nat
  BY <1>0, <1>1, Candidate, Assumed DEF SearchInv, TypeOK, SearchAssumption
<1>3. Remaining'.phases = Remaining.phases
  BY <1>1, RemainingIs, RemainingAfter
<1>4. CASE Improves(e)
  <2>1. costFromOrigin' = [costFromOrigin EXCEPT ![d] = c]
    BY <1>0, <1>4 DEF Relax
  <2>2. costFromOrigin[d] = Infinity \/ c < costFromOrigin[d]
    BY <1>0, <1>4 DEF Improves
  <2>3. \A i, j \in Nat : (i < j => i # j /\ i <= j) /\ j <= j
    OBVIOUS
  <2>4. costFromOrigin'[d] = c /\ \A n \in Nodes : n # d => costFromOrigin'[n] = costFromOrigin[n]
    BY <1>2, <2>1
  <2>5. costFromOrigin'[d] # costFromOrigin[d]
    BY <1>2, <2>2, <2>3, <2>4
  <2>6. \A n \in Nodes :
          costFromOrigin[n] = Infinity \/ (costFromOrigin'[n] # Infinity /\ costFromOrigin'[n] <= costFromOrigin[n])
    BY <1>2, <2>2, <2>3, <2>4
  <2>7. Cheaper(costFromOrigin', costFromOrigin)
    BY <2>5, <2>6 DEF Cheaper
  <2> QED BY <1>3, <2>7, RemainingIs, RemainingAfter DEF LessRemains
<1>5. CASE ~Improves(e)
  <2>1. costFromOrigin' = costFromOrigin /\ open' = open
    BY <1>5 DEF Relax
  <2>2. IsFiniteSet(pending)
    BY EdgesFinite, FS_Subset DEF SearchInv, TypeOK
  <2>3. Cardinality(pending') + 1 < Cardinality(pending) + 1
    <3>1. Cardinality(pending') < Cardinality(pending) /\ Cardinality(pending') \in Nat /\ Cardinality(pending) \in Nat
      BY <1>1, <2>2, CardinalityFalls, FS_RemoveElement, FS_CardinalityType
    <3> QED BY <3>1
  <2> QED BY <1>1, <1>3, <2>1, <2>3, RemainingIs, RemainingAfter DEF LessRemains
<1> QED BY <1>4, <1>5

LEMMA StepGetsOn ==
  ASSUME SearchInv, WayInv, FiniteInv, [Next]_vars
  PROVE  [LessRemains(Remaining', Remaining)]_vars
<1> USE RemainingIs, RemainingAfter
<1>1. Len(todo) \in Nat /\ (todo # <<>> => Len(Tail(todo)) = Len(todo) - 1)
  BY LenProperties, HeadTailProperties DEF SearchInv, TypeOK
<1>2. /\ Phase["begin"] = 3 /\ Phase["search"] = 2 /\ Phase["relax"] = 2 /\ Phase["trace"] = 1
      /\ Phase["returned"] = 0 /\ Phase["refused"] = 0
  BY DEF Phase
<1>3. \A i \in Nat : /\ 4 * i < 4 * i + 1 /\ 4 * i + 0 < 4 * i + 3 /\ 4 * i + 2 < 4 * i + 3 /\ 4 * i + 1 < 4 * i + 2
                     /\ 4 * (i - 1) + 3 < 4 * i + 2 /\ 4 * (i - 1) + 3 < 4 * i + 1
  OBVIOUS
<1>4. CASE Begin
  <2>1. todo' = todo /\ pc = "begin" /\ pc' = "search"
    BY <1>4 DEF Begin
  <2> QED BY <1>1, <1>2, <1>3, <2>1 DEF LessRemains
<1>5. ASSUME NEW x \in open, SkipStale(x) \/ Expand(x) PROVE LessRemains(Remaining', Remaining)
  <2>1. /\ todo' = todo /\ costFromOrigin' = costFromOrigin /\ open' = open \ {x} /\ pc = "search"
        /\ pc' \in {"search", "relax", "trace"}
    BY <1>5 DEF SkipStale, Discard, Expand, Visit
  <2>2. Cardinality(open') < Cardinality(open)
    BY <2>1, CardinalityFalls DEF FiniteInv
  <2>3. CASE pc' = "trace"
    BY <1>1, <1>2, <1>3, <2>1, <2>3 DEF LessRemains
  <2>4. CASE pc' # "trace"
    <3>1. Remaining'.phases = Remaining.phases
      BY <1>2, <2>1, <2>4
    <3> QED BY <2>1, <2>2, <2>4, <3>1 DEF LessRemains
  <2> QED BY <2>3, <2>4
<1>6. ASSUME NEW e \in pending, Relax(e) PROVE LessRemains(Remaining', Remaining)
  BY <1>6, RelaxGetsOn
<1>7. CASE Relaxed
  <2>1. /\ todo' = todo /\ costFromOrigin' = costFromOrigin /\ open' = open /\ pc = "relax" /\ pc' = "search"
        /\ pending = {}
    BY <1>7 DEF Relaxed, search
  <2>2. Remaining.edges = 1 /\ Remaining'.edges = 0
    BY <2>1, FS_EmptySet
  <2>3. Remaining'.phases = Remaining.phases /\ Remaining'.queued = Remaining.queued
    BY <1>2, <2>1
  <2> QED BY <2>1, <2>2, <2>3 DEF LessRemains
<1>8. CASE Exhausted \/ Traced
  <2>1. todo' = Tail(todo) /\ pc' = "begin" /\ pc \in {"search", "trace"} /\ todo # <<>>
    BY <1>8 DEF Exhausted, Traced, Finish, SearchInv, Searching
  <2> QED BY <1>1, <1>2, <1>3, <2>1 DEF LessRemains
<1>9. CASE Trace
  <2>1. /\ todo' = todo /\ costFromOrigin' = costFromOrigin /\ pc = "trace" /\ pc' = "trace"
    BY <1>9 DEF Trace, search
  <2>2. PICK below : Tree(below)
    BY <2>1 DEF WayInv, Searching
  <2>3. costFromOrigin[current'] < costFromOrigin[current]
    BY <1>9, <2>2, TraceFalls
  <2> QED BY <2>1, <2>3 DEF LessRemains
<1>10. CASE Return
  <2>1. todo' = todo /\ pc = "begin" /\ pc' \in {"returned", "refused"}
    BY <1>10 DEF Return
  <2> QED BY <1>1, <1>2, <1>3, <2>1 DEF LessRemains
<1> QED BY <1>4, <1>5, <1>6, <1>7, <1>8, <1>9, <1>10 DEF Next, Step, Ended

\* Every step of a calculation leaves less to do, in the order of LessRemains: for
\* any network, with roads shorter than a straight line or without.
THEOREM SearchGetsOn == Spec => [](Remaining \in Remainders) /\ GetsOn
<1>1. Init => FiniteInv
  BY FS_EmptySet DEF Init, FiniteInv
<1> QED BY <1>1, NextFinite, WayHolds, RemainingType, StepGetsOn, PTL DEF Spec, GetsOn

\* Costs cannot be lowered for ever.
LEMMA CostsEnd ==
  ASSUME NEW F, F # {}, F \subseteq [Nodes -> Nat \cup {Infinity}]
  PROVE  \E f \in F : \A g \in F : ~Cheaper(g, f)
<1> DEFINE C == [Nodes -> Nat \cup {Infinity}]
           NoMore(g, f, K) == \A n \in K : f[n] = Infinity \/ (g[n] # Infinity /\ g[n] <= f[n])
           HasLowest(G, K) == \E f \in G : \A g \in G : NoMore(g, f, K) => \A n \in K : g[n] = f[n]
           S == {k \in Nat : \A K \in SUBSET Nodes : Cardinality(K) <= k => \A G \in SUBSET C : G # {} => HasLowest(G, K)}
<1>1. \A K \in SUBSET Nodes : IsFiniteSet(K) /\ Cardinality(K) \in Nat
  BY Assumed, FS_Subset, FS_CardinalityType DEF SearchAssumption
<1>2. \A G : G # {} => HasLowest(G, {})
  OBVIOUS
<1>3. 0 \in S
  <2> SUFFICES ASSUME NEW K \in SUBSET Nodes, Cardinality(K) <= 0, NEW G \in SUBSET C, G # {} PROVE HasLowest(G, K)
    OBVIOUS
  <2>1. K = {}
    <3>1. Cardinality(K) = 0
      BY <1>1
    <3> QED BY <1>1, <3>1, FS_EmptySet
  <2> QED BY <1>2, <2>1
<1>4. ASSUME NEW k \in Nat, k \in S PROVE k + 1 \in S
  <2> SUFFICES ASSUME NEW K \in SUBSET Nodes, Cardinality(K) <= k + 1, NEW G \in SUBSET C, G # {} PROVE HasLowest(G, K)
    OBVIOUS
  <2>1. CASE K = {}
    BY <1>2, <2>1
  <2>2. CASE K # {}
    <3>1. PICK m \in K : TRUE
      BY <2>2
    <3>2. Cardinality(K \ {m}) <= k /\ K \ {m} \in SUBSET Nodes
      <4>1. Cardinality(K \ {m}) = Cardinality(K) - 1
        BY <1>1, <3>1, FS_RemoveElement
      <4> QED BY <1>1, <4>1
    <3>3. \A f \in G : f[m] \in Nat \cup {Infinity}
      BY <3>1
    <3>4. PICK v : /\ \E f \in G : f[m] = v
                   /\ v = Infinity => \A g \in G : g[m] = Infinity
                   /\ v # Infinity => v \in Nat /\ \A g \in G : g[m] # Infinity => v <= g[m]
      <4>1. CASE \A g \in G : g[m] = Infinity
        BY <4>1
      <4>2. CASE \E g \in G : g[m] # Infinity
        <5>1. PICK V : V = {g[m] : g \in G} \ {Infinity}
          OBVIOUS
        <5>2. V \subseteq Nat /\ V # {}
          BY <3>3, <4>2, <5>1
        <5>3. PICK v \in V : \A y \in V : v <= y
          BY <5>2, Minimum
        <5>4. (\E f \in G : f[m] = v) /\ v # Infinity /\ v \in Nat
          BY <5>1, <5>2, <5>3
        <5>5. \A g \in G : g[m] # Infinity => v <= g[m]
          BY <5>1, <5>3
        <5> QED BY <5>4, <5>5
      <4> QED BY <4>1, <4>2
    <3>5. PICK H : H = {f \in G : f[m] = v}
      OBVIOUS
    <3>6. H \in SUBSET C /\ H # {} /\ H \subseteq G
      BY <3>4, <3>5
    <3>7. HasLowest(H, K \ {m})
      BY <1>4, <3>2, <3>6
    <3>8. PICK f \in H : \A g \in H : NoMore(g, f, K \ {m}) => \A n \in K \ {m} : g[n] = f[n]
      BY <3>7
    <3>9. ASSUME NEW g \in G, NoMore(g, f, K) PROVE \A n \in K : g[n] = f[n]
      <4>1. f[m] = v /\ (v = Infinity \/ (g[m] # Infinity /\ g[m] <= v))
        BY <3>1, <3>5, <3>8, <3>9
      <4>2. g[m] = v
        <5>1. CASE v = Infinity
          BY <3>4, <5>1
        <5>2. CASE v # Infinity
          <6>1. g[m] # Infinity /\ g[m] \in Nat /\ v \in Nat /\ v <= g[m] /\ g[m] <= v
            BY <3>3, <3>4, <4>1, <5>2
          <6> QED BY <6>1
        <5> QED BY <5>1, <5>2
      <4>3. g \in H
        BY <3>5, <4>2
      <4>4. NoMore(g, f, K \ {m})
        BY <3>9
      <4>5. \A n \in K \ {m} : g[n] = f[n]
        BY <3>8, <4>3, <4>4
      <4> QED BY <4>1, <4>2, <4>5
    <3> QED BY <3>6, <3>8, <3>9
  <2> QED BY <2>1, <2>2
<1>5. Cardinality(Nodes) \in S
  <2> HIDE DEF S
  <2> QED BY <1>1, <1>3, <1>4, Induction
<1>6. HasLowest(F, Nodes)
  <2>1. Cardinality(Nodes) <= Cardinality(Nodes)
    BY <1>1
  <2> QED BY <1>5, <2>1
<1>7. PICK f \in F : \A g \in F : NoMore(g, f, Nodes) => \A n \in Nodes : g[n] = f[n]
  BY <1>6
<1>8. ASSUME NEW g \in F, Cheaper(g, f) PROVE FALSE
  <2>1. \A n \in Nodes : g[n] = f[n]
    BY <1>7, <1>8 DEF Cheaper
  <2>2. g = f
    BY <2>1
  <2> QED BY <1>8, <2>2 DEF Cheaper
<1> QED BY <1>7, <1>8

\* The order by which less remains is well-founded: of any set of remainders one has
\* none below it.  With SearchGetsOn, no calculation takes steps for ever.
THEOREM NothingRemainsForEver ==
  ASSUME NEW T, T # {}, T \subseteq Remainders
  PROVE  \E m \in T : \A n \in T : ~LessRemains(n, m)
<1>1. \A m \in T : /\ m.phases \in Nat /\ m.costs \in [Nodes -> Nat \cup {Infinity}]
                   /\ m.queued \in Nat /\ m.edges \in Nat
  BY DEF Remainders
<1>2. \A i, j \in Nat : i <= j => ~(j < i)
  OBVIOUS
<1>3. PICK a \in T : \A n \in T : a.phases <= n.phases
  <2>1. PICK V : V = {m.phases : m \in T}
    OBVIOUS
  <2>2. V \subseteq Nat /\ V # {}
    BY <1>1, <2>1
  <2>3. PICK x \in V : \A y \in V : x <= y
    BY <2>2, Minimum
  <2> QED BY <2>1, <2>3
<1>4. PICK A : A = {m \in T : m.phases = a.phases}
  OBVIOUS
<1>5. PICK b \in A : \A n \in A : ~Cheaper(n.costs, b.costs)
  <2>1. PICK V : V = {m.costs : m \in A}
    OBVIOUS
  <2>2. V # {} /\ V \subseteq [Nodes -> Nat \cup {Infinity}]
    BY <1>1, <1>4, <2>1
  <2>3. PICK f \in V : \A g \in V : ~Cheaper(g, f)
    BY <2>2, CostsEnd
  <2> QED BY <2>1, <2>3
<1>6. PICK B : B = {m \in A : m.costs = b.costs}
  OBVIOUS
<1>7. PICK c \in B : \A n \in B : c.queued <= n.queued
  <2>1. PICK V : V = {m.queued : m \in B}
    OBVIOUS
  <2>2. V \subseteq Nat /\ V # {}
    BY <1>1, <1>4, <1>6, <2>1
  <2>3. PICK x \in V : \A y \in V : x <= y
    BY <2>2, Minimum
  <2> QED BY <2>1, <2>3
<1>8. PICK D : D = {m \in B : m.queued = c.queued}
  OBVIOUS
<1>9. PICK d \in D : \A n \in D : d.edges <= n.edges
  <2>1. PICK V : V = {m.edges : m \in D}
    OBVIOUS
  <2>2. V \subseteq Nat /\ V # {}
    BY <1>1, <1>4, <1>6, <1>8, <2>1
  <2>3. PICK x \in V : \A y \in V : x <= y
    BY <2>2, Minimum
  <2> QED BY <2>1, <2>3
<1>10. d \in T /\ d.phases = a.phases /\ d.costs = b.costs /\ d.queued = c.queued
  BY <1>4, <1>6, <1>8
<1>11. ASSUME NEW n \in T, LessRemains(n, d) PROVE FALSE
  <2>1. ~(n.phases < d.phases)
    BY <1>1, <1>2, <1>3, <1>10
  <2>2. n \in A
    BY <1>4, <1>10, <1>11, <2>1 DEF LessRemains
  <2>3. ~Cheaper(n.costs, d.costs)
    BY <1>5, <1>10, <2>2
  <2>4. n \in B
    BY <1>6, <1>10, <1>11, <2>1, <2>2, <2>3 DEF LessRemains
  <2>5. ~(n.queued < d.queued)
    BY <1>1, <1>2, <1>7, <1>10, <1>4, <1>6, <2>4
  <2>6. n \in D
    BY <1>8, <1>10, <1>11, <2>1, <2>3, <2>4, <2>5 DEF LessRemains
  <2>7. ~(n.edges < d.edges)
    BY <1>1, <1>2, <1>9, <1>10, <2>6
  <2> QED BY <1>11, <2>1, <2>3, <2>5, <2>7 DEF LessRemains
<1> QED BY <1>10, <1>11

=============================================================================
