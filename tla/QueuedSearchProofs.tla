------------------------- MODULE QueuedSearchProofs -------------------------
(***************************************************************************)
(* Theorems of the binary heap and of the search that uses it.             *)
(*                                                                         *)
(* The heap is right for arrays of any length: bubbleUp and sinkDown are   *)
(* followed by the index they have come to, with the entry there the only  *)
(* one that may be out of order.  With the heap in order its first entry   *)
(* is a least one, so that each step of the search with the heap is a step *)
(* of RouteSearch, and all that is proved of RouteSearch holds of it.      *)
(***************************************************************************)
EXTENDS QueuedSearch, RouteWaysProofs

-----------------------------------------------------------------------------
(* The heap *)

LEMMA Halves ==
  /\ \A i \in Nat : i > 1 => i \div 2 \in Nat /\ 1 <= i \div 2 /\ i \div 2 < i
  /\ \A i, j \in Nat : j \div 2 = i <=> j = 2 * i \/ j = 2 * i + 1
OBVIOUS

\* The order of the heap, and its order but for an entry that is to rise or to sink.
Ordered(h) == \A j \in DOMAIN h : j > 1 => h[j \div 2].priority <= h[j].priority

Bridged(h, i) == \A j \in DOMAIN h : j \div 2 = i /\ i > 1 => h[i \div 2].priority <= h[j].priority

Rising(h, i)  == Bridged(h, i) /\ \A j \in DOMAIN h : j > 1 /\ j # i => h[j \div 2].priority <= h[j].priority
Sinking(h, i) == Bridged(h, i) /\ \A j \in DOMAIN h : j > 1 /\ j \div 2 # i => h[j \div 2].priority <= h[j].priority

Distinct(h) == \A i, j \in DOMAIN h : h[i] = h[j] => i = j
EntriesOf(h) == {h[i] : i \in DOMAIN h}

\* g is h in another order.
Reorders(h, g) ==
  /\ DOMAIN g = DOMAIN h /\ EntriesOf(g) = EntriesOf(h)
  /\ Distinct(h) => Distinct(g)

Queue(h) == h \in Seq([node : Nodes, priority : Nat])

LEMMA QueueType ==
  ASSUME NEW h, Queue(h), NEW g \in Arrays(h)
  PROVE  /\ DOMAIN h = 1 .. Len(h) /\ Len(h) \in Nat
         /\ Queue(g) /\ Len(g) = Len(h) /\ DOMAIN g = DOMAIN h
         /\ \A i \in DOMAIN h : g[i].priority \in Nat
         /\ \A i, j, k \in DOMAIN h :
              g[i].priority <= g[j].priority /\ g[j].priority <= g[k].priority => g[i].priority <= g[k].priority
         /\ Arrays(g) \subseteq Arrays(h)
<1>1. DOMAIN h = 1 .. Len(h) /\ Len(h) \in Nat /\ \A i \in DOMAIN h : h[i] \in [node : Nodes, priority : Nat]
  <2>1. h \in [1 .. Len(h) -> [node : Nodes, priority : Nat]] /\ Len(h) \in Nat
    BY LenProperties DEF Queue
  <2> QED BY <2>1
<1>2. g \in [1 .. Len(h) -> [node : Nodes, priority : Nat]]
  BY <1>1 DEF Arrays
<1>3. Queue(g) /\ DOMAIN g = DOMAIN h
  <2>1. g \in UNION {[1 .. n -> [node : Nodes, priority : Nat]] : n \in Nat}
    BY <1>1, <1>2
  <2>2. g \in Seq([node : Nodes, priority : Nat])
    BY <2>1, SeqDef, Zenon
  <2> QED BY <1>1, <1>2, <2>2 DEF Queue
<1>4. Len(g) = Len(h)
  BY <1>1, <1>3, LenProperties DEF Queue
<1>5. \A i \in DOMAIN h : g[i].priority \in Nat
  BY <1>1, <1>2
<1>6. Arrays(g) \subseteq Arrays(h)
  BY <1>1, <1>3 DEF Arrays
<1>7. \A i, j, k \in Nat : i <= j /\ j <= k => i <= k
  OBVIOUS
<1> QED BY <1>1, <1>3, <1>4, <1>5, <1>6, <1>7

LEMMA Swaps ==
  ASSUME NEW h, Queue(h), NEW g \in Arrays(h), NEW i \in DOMAIN h, NEW j \in DOMAIN h
  PROVE  /\ Swap(g, i, j) \in Arrays(h)
         /\ Swap(g, i, j)[i] = g[j] /\ Swap(g, i, j)[j] = g[i]
         /\ \A k \in DOMAIN h : k # i /\ k # j => Swap(g, i, j)[k] = g[k]
         /\ Reorders(g, Swap(g, i, j))
<1>1. /\ Swap(g, i, j) \in Arrays(h)
      /\ Swap(g, i, j)[i] = g[j] /\ Swap(g, i, j)[j] = g[i]
      /\ \A k \in DOMAIN h : k # i /\ k # j => Swap(g, i, j)[k] = g[k]
  BY DEF Swap, Arrays
<1>2. DOMAIN Swap(g, i, j) = DOMAIN g /\ DOMAIN g = DOMAIN h
  BY <1>1, QueueType
<1>3. PICK s : s = Swap(g, i, j)
  OBVIOUS
<1>4. EntriesOf(s) = EntriesOf(g)
  <2>1. ASSUME NEW k \in DOMAIN h PROVE s[k] \in EntriesOf(g)
    BY <1>1, <1>2, <1>3 DEF EntriesOf
  <2>2. ASSUME NEW k \in DOMAIN h PROVE g[k] \in EntriesOf(s)
    <3>1. g[k] = s[IF k = i THEN j ELSE IF k = j THEN i ELSE k]
      BY <1>1, <1>3
    <3> QED BY <1>2, <1>3, <3>1 DEF EntriesOf
  <2> QED BY <1>2, <1>3, <2>1, <2>2 DEF EntriesOf
<1>5. ASSUME Distinct(g) PROVE Distinct(s)
  BY <1>1, <1>2, <1>3, <1>5 DEF Distinct
<1> QED BY <1>1, <1>2, <1>3, <1>4, <1>5 DEF Reorders

UpFunction(h, up) == up = [i \in DOMAIN h |-> [g \in Arrays(h) |-> UpFrom(up, i, g)]]

LEMMA SameUpFrom ==
  ASSUME NEW h, Queue(h), NEW i \in DOMAIN h, NEW f, NEW g, i > 1 => f[i \div 2] = g[i \div 2]
  PROVE  \A a : UpFrom(f, i, a) = UpFrom(g, i, a)
<1>1. i \in Nat /\ 1 <= i
  BY DEF Queue
<1> QED BY <1>1 DEF UpFrom

\* bubbleUp comes to an end: the index gets less.
LEMMA UpDefined ==
  ASSUME NEW h, Queue(h)
  PROVE  \E up : UpFunction(h, up)
<1> DEFINE Row(f, i) == [a \in Arrays(h) |-> UpFrom(f, i, a)]
           Upto(f, k) == \A i \in DOMAIN h : i <= k => f[i] = Row(f, i)
           S == {k \in Nat : \E f : Upto(f, k)}
<1>1. DOMAIN h = 1 .. Len(h) /\ Len(h) \in Nat
  BY DEF Queue
<1>2. \A f, g : \A i \in DOMAIN h : (i > 1 => f[i \div 2] = g[i \div 2]) => Row(f, i) = Row(g, i)
  <2> SUFFICES ASSUME NEW f, NEW g, NEW i \in DOMAIN h, i > 1 => f[i \div 2] = g[i \div 2]
               PROVE  Row(f, i) = Row(g, i)
    OBVIOUS
  <2>1. \A a : UpFrom(f, i, a) = UpFrom(g, i, a)
    BY SameUpFrom
  <2> QED BY <2>1
<1> HIDE DEF Row
<1>3. 0 \in S
  BY <1>1
<1>4. ASSUME NEW k \in Nat, k \in S PROVE k + 1 \in S
  <2>1. PICK f : Upto(f, k)
    BY <1>4
  <2> DEFINE g == [i \in DOMAIN h |-> Row(f, i)]
  <2>2. \A i \in DOMAIN h : i <= k => g[i] = f[i]
    BY <2>1
  <2>3. ASSUME NEW i \in DOMAIN h, i <= k + 1 PROVE g[i] = Row(g, i)
    <3>1. i > 1 => g[i \div 2] = f[i \div 2]
      <4> HAVE i > 1
      <4>1. i \in Nat /\ i \div 2 \in Nat /\ 1 <= i \div 2 /\ i \div 2 < i
        BY <1>1, Halves
      <4>2. i \div 2 \in DOMAIN h /\ i \div 2 <= k
        BY <1>1, <2>3, <4>1
      <4> QED BY <2>2, <4>2
    <3>2. g[i] = Row(f, i)
      OBVIOUS
    <3> HIDE DEF g
    <3> QED BY <1>2, <3>1, <3>2
  <2> HIDE DEF g
  <2>4. Upto(g, k + 1)
    BY <2>3
  <2> QED BY <2>4
<1>5. PICK f : Upto(f, Len(h))
  <2>1. Len(h) \in S
    BY <1>1, <1>3, <1>4, Induction
  <2> QED BY <2>1
<1> DEFINE up == [i \in DOMAIN h |-> f[i]]
<1>6. \A i \in DOMAIN h : up[i] = Row(up, i)
  <2> TAKE i \in DOMAIN h
  <2>1. i > 1 => up[i \div 2] = f[i \div 2]
    <3> HAVE i > 1
    <3>1. i \in Nat /\ i \div 2 \in Nat /\ 1 <= i \div 2 /\ i \div 2 < i
      BY <1>1, Halves
    <3>2. i \div 2 \in DOMAIN h
      BY <1>1, <3>1
    <3> QED BY <3>2
  <2>2. f[i] = Row(f, i)
    BY <1>1, <1>5
  <2>3. up[i] = f[i]
    OBVIOUS
  <2> HIDE DEF up
  <2> QED BY <1>2, <2>1, <2>2, <2>3
<1>7. up = [i \in DOMAIN h |-> up[i]]
  OBVIOUS
<1> HIDE DEF up
<1>8. up = [i \in DOMAIN h |-> Row(up, i)]
  BY <1>6, <1>7
<1> QED BY <1>8 DEF UpFunction, Row

LEMMA Reordering ==
  ASSUME NEW f, NEW g, NEW h, Reorders(f, g), Reorders(g, h)
  PROVE  Reorders(f, h)
BY DEF Reorders

\* An entry that is less than its parent changes places with it, and is then the
\* only one that may be less than its parent.
LEMMA RisesUp ==
  ASSUME NEW h, Queue(h), NEW g \in Arrays(h), NEW i \in DOMAIN h, i > 1, Rising(g, i),
         ~(g[i \div 2].priority <= g[i].priority)
  PROVE  /\ i \div 2 \in DOMAIN h /\ i \div 2 < i
         /\ Rising(Swap(g, i \div 2, i), i \div 2)
<1>0. PICK q : q = i \div 2
  OBVIOUS
<1>1. /\ DOMAIN h = 1 .. Len(h) /\ Len(h) \in Nat /\ DOMAIN g = DOMAIN h /\ \A j \in DOMAIN h : g[j].priority \in Nat
      /\ \A j, k, l \in DOMAIN h :
           g[j].priority <= g[k].priority /\ g[k].priority <= g[l].priority => g[j].priority <= g[l].priority
  BY QueueType
<1>2. q \in DOMAIN h /\ q < i /\ i \in Nat /\ q \in Nat
  BY <1>0, <1>1, Halves
<1>3. PICK s : s = Swap(g, q, i)
  OBVIOUS
<1>4. /\ s \in Arrays(h) /\ DOMAIN s = DOMAIN h /\ s[q] = g[i] /\ s[i] = g[q]
      /\ \A k \in DOMAIN h : k # i /\ k # q => s[k] = g[k]
  <2>1. /\ s \in Arrays(h) /\ s[q] = g[i] /\ s[i] = g[q]
        /\ \A k \in DOMAIN h : k # i /\ k # q => s[k] = g[k]
    BY <1>2, <1>3, Swaps
  <2>2. DOMAIN s = DOMAIN h
    BY <2>1, QueueType
  <2> QED BY <2>1, <2>2
<1>5. g[i].priority <= g[q].priority
  BY <1>0, <1>1, <1>2
<1>6. \A j \in DOMAIN h : j > 1 => j \div 2 \in DOMAIN h /\ j \div 2 < j
  BY <1>1, Halves
<1>7. ASSUME NEW j \in DOMAIN h, j > 1, j # q PROVE s[j \div 2].priority <= s[j].priority
  <2>1. CASE j = i
    BY <1>0, <1>1, <1>2, <1>4, <1>5, <2>1
  <2>2. CASE j # i
    <3>1. s[j] = g[j] /\ g[j \div 2].priority <= g[j].priority /\ j \div 2 \in DOMAIN h
      BY <1>1, <1>4, <1>6, <1>7, <2>2 DEF Rising
    <3>2. CASE j \div 2 = q
      <4>1. j # q /\ s[j \div 2] = g[i] /\ g[q].priority <= g[j].priority
        BY <1>4, <1>7, <3>1, <3>2
      <4> QED BY <1>1, <1>2, <1>5, <3>1, <4>1
    <3>3. CASE j \div 2 = i
      <4>1. g[q].priority <= g[j].priority
        BY <1>0, <1>1, <3>3 DEF Rising, Bridged
      <4> QED BY <1>4, <3>1, <3>3, <4>1
    <3>4. CASE j \div 2 # q /\ j \div 2 # i
      BY <1>4, <3>1, <3>4
    <3> QED BY <3>2, <3>3, <3>4
  <2> QED BY <2>1, <2>2
<1>8. ASSUME NEW j \in DOMAIN h, j \div 2 = q, q > 1 PROVE s[q \div 2].priority <= s[j].priority
  <2>1. /\ q \div 2 \in DOMAIN h /\ q \div 2 < q /\ j > 1 /\ j # q
        /\ g[q \div 2].priority <= g[q].priority
    <3>1. q \div 2 \in DOMAIN h /\ q \div 2 < q
      BY <1>2, <1>6, <1>8
    <3>2. g[q \div 2].priority <= g[q].priority
      BY <1>1, <1>2, <1>8 DEF Rising
    <3>3. j > 1 /\ j # q
      BY <1>1, <1>2, <1>8, Halves
    <3> QED BY <3>1, <3>2, <3>3
  <2>2. s[q \div 2] = g[q \div 2]
    <3>1. q \div 2 # q /\ q \div 2 # i
      BY <1>1, <1>2, <2>1
    <3> QED BY <1>4, <2>1, <3>1
  <2>3. CASE j = i
    BY <1>4, <2>1, <2>2, <2>3
  <2>4. CASE j # i
    <3>1. g[q].priority <= g[j].priority /\ s[j] = g[j]
      BY <1>1, <1>4, <1>8, <2>1, <2>4 DEF Rising
    <3> QED BY <1>1, <1>2, <2>1, <2>2, <3>1
  <2> QED BY <2>3, <2>4
<1>9. Rising(s, q)
  BY <1>4, <1>7, <1>8 DEF Rising, Bridged
<1> QED BY <1>0, <1>2, <1>3, <1>9

Sorted(h, g) == g \in Arrays(h) /\ Ordered(g) /\ Reorders(h, g)

LEMMA BubblesUp ==
  ASSUME NEW h, Queue(h), NEW i \in DOMAIN h, Rising(h, i)
  PROVE  Sorted(h, bubbleUp(h, i))
<1>1. PICK up : up = CHOOSE f : UpFunction(h, f)
  OBVIOUS
<1>2. UpFunction(h, up)
  BY <1>1, UpDefined
<1>3. bubbleUp(h, i) = up[i][h]
  BY <1>1 DEF bubbleUp, UpFunction
<1>4. DOMAIN h = 1 .. Len(h) /\ Len(h) \in Nat /\ h \in Arrays(h)
  BY LenProperties DEF Queue, Arrays
<1> DEFINE S == {k \in Nat : \A j \in DOMAIN h : j <= k =>
                   \A g \in Arrays(h) : Rising(g, j) /\ Reorders(h, g) => Sorted(h, up[j][g])}
<1>5. 0 \in S
  BY <1>4
<1>6. ASSUME NEW k \in Nat, k \in S PROVE k + 1 \in S
  <2> SUFFICES ASSUME NEW j \in DOMAIN h, j <= k + 1, NEW g \in Arrays(h), Rising(g, j), Reorders(h, g)
               PROVE  Sorted(h, up[j][g])
    OBVIOUS
  <2>1. up[j][g] = UpFrom(up, j, g)
    BY <1>2 DEF UpFunction
  <2>2. DOMAIN g = DOMAIN h /\ j \in Nat /\ j >= 1
    BY <1>4, QueueType
  <2>3. CASE j = 1
    <3>1. Ordered(g)
      BY <2>2, <2>3 DEF Rising, Ordered
    <3> QED BY <2>1, <2>3, <3>1 DEF UpFrom, Sorted
  <2>4. CASE j > 1 /\ g[j \div 2].priority <= g[j].priority
    <3>1. Ordered(g)
      BY <2>2, <2>4 DEF Rising, Ordered
    <3> QED BY <2>1, <2>4, <3>1 DEF UpFrom, Sorted
  <2>5. CASE j > 1 /\ ~(g[j \div 2].priority <= g[j].priority)
    <3>1. j \div 2 \in DOMAIN h /\ j \div 2 < j /\ Rising(Swap(g, j \div 2, j), j \div 2)
      BY <2>5, RisesUp
    <3>2. Swap(g, j \div 2, j) \in Arrays(h) /\ Reorders(g, Swap(g, j \div 2, j))
      BY <3>1, Swaps
    <3>3. Reorders(h, Swap(g, j \div 2, j))
      BY <3>2, Reordering
    <3>4. j \div 2 <= k
      BY <1>4, <2>2, <3>1
    <3>5. Sorted(h, up[j \div 2][Swap(g, j \div 2, j)])
      BY <1>6, <3>1, <3>2, <3>3, <3>4
    <3> QED BY <2>1, <2>2, <2>5, <3>5 DEF UpFrom
  <2> QED BY <2>2, <2>3, <2>4, <2>5
<1>7. i \in S
  <2> HIDE DEF S
  <2>1. Nat \subseteq S
    BY <1>5, <1>6, Induction
  <2> QED BY <1>4, <2>1
<1>8. Reorders(h, h) /\ i <= i
  BY <1>4 DEF Reorders
<1> QED BY <1>3, <1>4, <1>7, <1>8

LEMMA SmallestIs ==
  ASSUME NEW h, Queue(h), NEW g \in Arrays(h), NEW i \in DOMAIN h, NEW m, m = Smallest(g, i)
  PROVE  /\ m \in DOMAIN h /\ g[m].priority <= g[i].priority
         /\ m # i => m > i /\ m \div 2 = i
         /\ \A j \in DOMAIN h : j \div 2 = i => g[m].priority <= g[j].priority
<1>1. /\ DOMAIN h = 1 .. Len(h) /\ Len(h) \in Nat /\ Len(g) = Len(h)
      /\ \A j \in DOMAIN h : g[j].priority \in Nat
      /\ \A j, k, l \in DOMAIN h :
           g[j].priority <= g[k].priority /\ g[k].priority <= g[l].priority => g[j].priority <= g[l].priority
      /\ \A j, k \in DOMAIN h : g[j].priority <= g[k].priority \/ g[k].priority < g[j].priority
      /\ \A j, k \in DOMAIN h : g[j].priority < g[k].priority => g[j].priority <= g[k].priority
      /\ \A j \in DOMAIN h : g[j].priority <= g[j].priority
  <2>1. \A j, k \in Nat : (j <= k \/ k < j) /\ (j < k => j <= k) /\ j <= j
    OBVIOUS
  <2> QED BY <2>1, QueueType
<1>2. i \in Nat /\ i >= 1 /\ 2 * i > i /\ 2 * i \in Nat
  BY <1>1
<1> DEFINE less(j, k) == j <= Len(g) /\ g[j].priority < g[k].priority
<1>3. PICK left : left = IF less(2 * i, i) THEN 2 * i ELSE i
  OBVIOUS
<1>4. m = IF less(2 * i + 1, left) THEN 2 * i + 1 ELSE left
  BY <1>3 DEF Smallest
<1>5. \A j \in DOMAIN h : j \div 2 = i <=> j = 2 * i \/ j = 2 * i + 1
  <2>1. i \in Nat /\ DOMAIN h \subseteq Nat
    BY <1>1
  <2> QED BY <2>1, Halves, Zenon
<1>6. \A k : less(2 * i, k) => 2 * i \in DOMAIN h
  BY <1>1, <1>2
<1>7. \A k : less(2 * i + 1, k) => 2 * i + 1 \in DOMAIN h
  BY <1>1, <1>2
<1>8. \A j, k \in DOMAIN h : less(j, k) \/ g[k].priority <= g[j].priority
  BY <1>1
<1>9. /\ left \in DOMAIN h /\ left \in {i, 2 * i} /\ g[left].priority <= g[i].priority
      /\ 2 * i \in DOMAIN h => g[left].priority <= g[2 * i].priority
  <2>1. CASE less(2 * i, i)
    BY <1>1, <1>3, <1>6, <2>1
  <2>2. CASE ~less(2 * i, i)
    BY <1>1, <1>3, <1>8, <2>2
  <2> QED BY <2>1, <2>2
<1>10. /\ m \in DOMAIN h /\ m \in {left, 2 * i + 1} /\ g[m].priority <= g[left].priority
       /\ 2 * i + 1 \in DOMAIN h => g[m].priority <= g[2 * i + 1].priority
  <2>1. CASE less(2 * i + 1, left)
    BY <1>1, <1>4, <1>7, <1>9, <2>1
  <2>2. CASE ~less(2 * i + 1, left)
    BY <1>1, <1>4, <1>8, <1>9, <2>2
  <2> QED BY <2>1, <2>2
<1> HIDE DEF less
<1>11. g[m].priority <= g[i].priority
  BY <1>1, <1>9, <1>10
<1>12. m # i => m > i /\ m \div 2 = i
  <2>1. m \in {i, 2 * i, 2 * i + 1}
    BY <1>9, <1>10
  <2> QED BY <1>2, <1>5, <1>10, <2>1
<1>13. ASSUME NEW j \in DOMAIN h, j \div 2 = i PROVE g[m].priority <= g[j].priority
  <2>1. CASE j = 2 * i
    <3>1. g[left].priority <= g[j].priority
      BY <1>9, <2>1
    <3> QED BY <1>1, <1>9, <1>10, <3>1
  <2>2. CASE j = 2 * i + 1
    BY <1>10, <2>2
  <2> QED BY <1>5, <1>13, <2>1, <2>2
<1> QED BY <1>10, <1>11, <1>12, <1>13

LEMMA SinksDown ==
  ASSUME NEW h, Queue(h), NEW g \in Arrays(h), NEW i \in DOMAIN h, Sinking(g, i),
         NEW m, m = Smallest(g, i)
  PROVE  /\ m = i => Ordered(g)
         /\ m # i => /\ m \in DOMAIN h /\ m > i
                     /\ Sinking(Swap(g, i, m), m)
<1>1. DOMAIN h = 1 .. Len(h) /\ Len(h) \in Nat /\ DOMAIN g = DOMAIN h /\ \A j \in DOMAIN h : g[j].priority \in Nat
  BY QueueType
<1>2. /\ m \in DOMAIN h /\ g[m].priority <= g[i].priority
      /\ m # i => m > i /\ m \div 2 = i
      /\ \A j \in DOMAIN h : j \div 2 = i => g[m].priority <= g[j].priority
  BY SmallestIs
<1>3. ASSUME m = i PROVE Ordered(g)
  BY <1>1, <1>2, <1>3 DEF Sinking, Ordered
<1>4. ASSUME m # i PROVE Sinking(Swap(g, i, m), m)
  <2>1. PICK s : s = Swap(g, i, m)
    OBVIOUS
  <2>2. /\ s \in Arrays(h) /\ s[i] = g[m] /\ s[m] = g[i]
        /\ \A k \in DOMAIN h : k # i /\ k # m => s[k] = g[k]
    BY <1>2, <2>1, Swaps
  <2>3. DOMAIN s = DOMAIN h
    BY <2>2, QueueType
  <2>4. \A j \in DOMAIN h : j > 1 => j \div 2 \in DOMAIN h /\ j \div 2 < j
    BY <1>1, Halves
  <2>5. i \in Nat /\ i >= 1 /\ m > 1 /\ m > i /\ m \div 2 = i /\ m \in Nat
    BY <1>1, <1>2, <1>4
  <2>6. ASSUME NEW j \in DOMAIN h, j \div 2 = m, m > 1 PROVE s[m \div 2].priority <= s[j].priority
    <3>1. j > 1 /\ j # m /\ j # i /\ j \div 2 # i
      BY <1>1, <2>5, <2>6, Halves
    <3>2. g[m].priority <= g[j].priority
      BY <1>1, <2>6, <3>1 DEF Sinking
    <3> QED BY <2>2, <2>5, <3>1, <3>2
  <2>7. ASSUME NEW j \in DOMAIN h, j > 1, j \div 2 # m PROVE s[j \div 2].priority <= s[j].priority
    <3>1. CASE j = m
      BY <1>2, <2>2, <2>5, <3>1
    <3>2. CASE j = i
      <4>1. g[i \div 2].priority <= g[m].priority /\ i \div 2 \in DOMAIN h /\ i \div 2 < i
        BY <1>1, <1>2, <2>4, <2>5, <2>7, <3>2 DEF Sinking, Bridged
      <4>2. s[i \div 2] = g[i \div 2]
        BY <1>1, <2>2, <2>5, <4>1
      <4> QED BY <2>2, <3>2, <4>1, <4>2
    <3>3. CASE j # m /\ j # i /\ j \div 2 = i
      BY <1>2, <2>2, <3>3
    <3>4. CASE j # m /\ j # i /\ j \div 2 # i
      <4>1. g[j \div 2].priority <= g[j].priority /\ j \div 2 \in DOMAIN h
        BY <1>1, <2>4, <2>7, <3>4 DEF Sinking
      <4> QED BY <2>2, <2>7, <3>4, <4>1
    <3> QED BY <3>1, <3>2, <3>3, <3>4
  <2> QED BY <2>1, <2>3, <2>6, <2>7 DEF Sinking, Bridged
<1> QED BY <1>2, <1>3, <1>4

DownFunction(h, down) == down = [i \in DOMAIN h |-> [g \in Arrays(h) |-> DownFrom(down, i, g)]]

LEMMA SameDownFrom ==
  ASSUME NEW h, Queue(h), NEW i \in DOMAIN h, NEW f, NEW g, \A m \in DOMAIN h : m > i => f[m] = g[m]
  PROVE  \A a \in Arrays(h) : DownFrom(f, i, a) = DownFrom(g, i, a)
<1> TAKE a \in Arrays(h)
<1>1. PICK m : m = Smallest(a, i)
  OBVIOUS
<1>2. m # i => f[m] = g[m]
  BY <1>1, SmallestIs
<1> QED BY <1>1, <1>2 DEF DownFrom

\* sinkDown comes to an end: the index grows.
LEMMA DownDefined ==
  ASSUME NEW h, Queue(h)
  PROVE  \E down : DownFunction(h, down)
<1> DEFINE Row(f, i) == [a \in Arrays(h) |-> DownFrom(f, i, a)]
           Since(f, k) == \A i \in DOMAIN h : i + k > Len(h) => f[i] = Row(f, i)
           S == {k \in Nat : \E f : Since(f, k)}
<1>1. DOMAIN h = 1 .. Len(h) /\ Len(h) \in Nat
  BY DEF Queue
<1>2. \A f, g : \A i \in DOMAIN h : (\A m \in DOMAIN h : m > i => f[m] = g[m]) => Row(f, i) = Row(g, i)
  <2> SUFFICES ASSUME NEW f, NEW g, NEW i \in DOMAIN h, \A m \in DOMAIN h : m > i => f[m] = g[m]
               PROVE  Row(f, i) = Row(g, i)
    OBVIOUS
  <2>1. \A a \in Arrays(h) : DownFrom(f, i, a) = DownFrom(g, i, a)
    BY SameDownFrom
  <2> QED BY <2>1
<1> HIDE DEF Row
<1>3. 0 \in S
  BY <1>1
<1>4. ASSUME NEW k \in Nat, k \in S PROVE k + 1 \in S
  <2>1. PICK f : Since(f, k)
    BY <1>4
  <2> DEFINE g == [i \in DOMAIN h |-> Row(f, i)]
  <2>2. \A i \in DOMAIN h : i + k > Len(h) => g[i] = f[i]
    BY <2>1
  <2>3. ASSUME NEW i \in DOMAIN h, i + (k + 1) > Len(h) PROVE g[i] = Row(g, i)
    <3>1. \A m \in DOMAIN h : m > i => f[m] = g[m]
      BY <1>1, <2>2, <2>3
    <3>2. g[i] = Row(f, i)
      OBVIOUS
    <3> HIDE DEF g
    <3> QED BY <1>2, <3>1, <3>2
  <2> HIDE DEF g
  <2>4. Since(g, k + 1)
    BY <2>3
  <2> QED BY <2>4
<1>5. PICK f : Since(f, Len(h))
  <2>1. Len(h) \in S
    BY <1>1, <1>3, <1>4, Induction
  <2> QED BY <2>1
<1> DEFINE down == [i \in DOMAIN h |-> f[i]]
<1>6. \A i \in DOMAIN h : down[i] = Row(down, i)
  <2> TAKE i \in DOMAIN h
  <2>1. \A m \in DOMAIN h : f[m] = down[m]
    OBVIOUS
  <2>2. f[i] = Row(f, i)
    BY <1>1, <1>5
  <2> HIDE DEF down
  <2> QED BY <1>2, <2>1, <2>2
<1>7. down = [i \in DOMAIN h |-> down[i]]
  OBVIOUS
<1> HIDE DEF down
<1>8. down = [i \in DOMAIN h |-> Row(down, i)]
  BY <1>6, <1>7
<1> QED BY <1>8 DEF DownFunction, Row

LEMMA SinksInto ==
  ASSUME NEW h, Queue(h), NEW i \in DOMAIN h, Sinking(h, i)
  PROVE  Sorted(h, sinkDown(h, i))
<1>1. PICK down : down = CHOOSE f : DownFunction(h, f)
  OBVIOUS
<1>2. DownFunction(h, down)
  BY <1>1, DownDefined
<1>3. sinkDown(h, i) = down[i][h]
  BY <1>1 DEF sinkDown, DownFunction
<1>4. DOMAIN h = 1 .. Len(h) /\ Len(h) \in Nat /\ h \in Arrays(h)
  BY LenProperties DEF Queue, Arrays
<1> DEFINE S == {k \in Nat : \A j \in DOMAIN h : j + k > Len(h) =>
                   \A g \in Arrays(h) : Sinking(g, j) /\ Reorders(h, g) => Sorted(h, down[j][g])}
<1>5. 0 \in S
  BY <1>4
<1>6. ASSUME NEW k \in Nat, k \in S PROVE k + 1 \in S
  <2> SUFFICES ASSUME NEW j \in DOMAIN h, j + (k + 1) > Len(h), NEW g \in Arrays(h), Sinking(g, j), Reorders(h, g)
               PROVE  Sorted(h, down[j][g])
    OBVIOUS
  <2>1. down[j][g] = DownFrom(down, j, g)
    BY <1>2 DEF DownFunction
  <2>2. PICK m : m = Smallest(g, j)
    OBVIOUS
  <2>3. /\ m = j => Ordered(g)
        /\ m # j => /\ m \in DOMAIN h /\ m > j
                    /\ Sinking(Swap(g, j, m), m)
    BY <2>2, SinksDown
  <2>4. CASE m = j
    BY <2>1, <2>2, <2>3, <2>4 DEF DownFrom, Sorted
  <2>5. CASE m # j
    <3>1. Swap(g, j, m) \in Arrays(h) /\ Reorders(g, Swap(g, j, m))
      BY <2>3, <2>5, Swaps
    <3>2. Reorders(h, Swap(g, j, m))
      BY <3>1, Reordering
    <3>3. m + k > Len(h)
      BY <1>4, <2>3, <2>5
    <3>4. Sorted(h, down[m][Swap(g, j, m)])
      BY <1>6, <2>3, <2>5, <3>1, <3>2, <3>3
    <3> QED BY <2>1, <2>2, <2>5, <3>4 DEF DownFrom
  <2> QED BY <2>4, <2>5
<1>7. Len(h) \in S
  <2> HIDE DEF S
  <2>1. Nat \subseteq S
    BY <1>5, <1>6, Induction
  <2> QED BY <1>4, <2>1
<1>8. Reorders(h, h) /\ i + Len(h) > Len(h)
  BY <1>4 DEF Reorders
<1> QED BY <1>3, <1>4, <1>7, <1>8

-----------------------------------------------------------------------------
(* The operations of the queue *)

\* The first entry of a heap in order is a least one.
LEMMA FirstIsLeast ==
  ASSUME NEW h, Queue(h), Ordered(h), NEW i \in DOMAIN h
  PROVE  1 \in DOMAIN h /\ h[1].priority <= h[i].priority
<1>1. DOMAIN h = 1 .. Len(h) /\ Len(h) \in Nat /\ \A j \in DOMAIN h : h[j].priority \in Nat
  <2>1. h \in Arrays(h)
    BY LenProperties DEF Queue, Arrays
  <2> QED BY <2>1, QueueType
<1> DEFINE S == {k \in Nat : \A j \in DOMAIN h : j <= k => h[1].priority <= h[j].priority}
<1>2. 0 \in S
  BY <1>1
<1>3. ASSUME NEW k \in Nat, k \in S PROVE k + 1 \in S
  <2> SUFFICES ASSUME NEW j \in DOMAIN h, j <= k + 1 PROVE h[1].priority <= h[j].priority
    OBVIOUS
  <2>1. CASE j = 1
    BY <1>1, <2>1
  <2>2. CASE j > 1
    <3>1. j \div 2 \in DOMAIN h /\ j \div 2 <= k
      BY <1>1, <2>2, Halves
    <3>2. h[1].priority <= h[j \div 2].priority /\ h[j \div 2].priority <= h[j].priority
      BY <1>3, <2>2, <3>1 DEF Ordered
    <3>3. 1 \in DOMAIN h
      BY <1>1
    <3>4. \A a, b, c \in Nat : a <= b /\ b <= c => a <= c
      OBVIOUS
    <3> QED BY <1>1, <3>1, <3>2, <3>3, <3>4
  <2> QED BY <1>1, <2>1, <2>2
<1>4. i \in S
  <2> HIDE DEF S
  <2>1. Nat \subseteq S
    BY <1>2, <1>3, Induction
  <2> QED BY <1>1, <2>1
<1> QED BY <1>1, <1>4

LEMMA SortedQueue ==
  ASSUME NEW h, Queue(h), NEW g, Sorted(h, g)
  PROVE  /\ Queue(g) /\ Ordered(g) /\ Len(g) = Len(h) /\ EntriesOf(g) = EntriesOf(h)
         /\ Distinct(h) => Distinct(g)
BY QueueType DEF Sorted, Reorders

LEMMA Enqueues ==
  ASSUME NEW h, Queue(h), Ordered(h), Distinct(h), NEW x \in [node : Nodes, priority : Nat], x \notin EntriesOf(h),
         NEW r, r = enqueue(h, x)
  PROVE  /\ Queue(r) /\ Ordered(r) /\ Distinct(r) /\ Len(r) = Len(h) + 1
         /\ EntriesOf(r) = EntriesOf(h) \cup {x}
<1>1. PICK g, n : g = Append(h, x) /\ n = Len(h) + 1
  OBVIOUS
<1>2. /\ Queue(g) /\ Len(g) = n /\ n \in Nat /\ n >= 1 /\ Len(h) \in Nat
      /\ \A i \in 1 .. Len(h) : g[i] = h[i]
      /\ g[n] = x
  BY <1>1, AppendProperties, LenProperties DEF Queue
<1>3. DOMAIN h = 1 .. Len(h) /\ DOMAIN g = 1 .. n
  BY <1>2, LenProperties DEF Queue
<1>4. DOMAIN g = DOMAIN h \cup {n} /\ n \notin DOMAIN h /\ \A i \in DOMAIN h : g[i] = h[i]
  BY <1>1, <1>2, <1>3
<1>5. EntriesOf(g) = EntriesOf(h) \cup {x}
  BY <1>2, <1>4 DEF EntriesOf
<1>6. Distinct(g)
  BY <1>2, <1>4 DEF Distinct, EntriesOf
<1>7. Rising(g, n)
  <2>1. ASSUME NEW j \in DOMAIN g, j \div 2 = n PROVE FALSE
    BY <1>2, <1>3, <2>1, Halves
  <2>2. ASSUME NEW j \in DOMAIN g, j > 1, j # n PROVE g[j \div 2].priority <= g[j].priority
    <3>1. j \in DOMAIN h /\ j \div 2 \in DOMAIN h
      BY <1>1, <1>2, <1>3, <2>2, Halves
    <3> QED BY <1>4, <2>2, <3>1 DEF Ordered
  <2> QED BY <2>1, <2>2 DEF Rising, Bridged
<1>8. Sorted(g, r)
  BY <1>1, <1>2, <1>4, <1>7, BubblesUp DEF enqueue
<1> QED BY <1>1, <1>2, <1>5, <1>6, <1>8, SortedQueue

LEMMA Dequeues ==
  ASSUME NEW h, Queue(h), Ordered(h), Distinct(h), h # <<>>, NEW r, r = dequeue(h)
  PROVE  /\ Queue(r) /\ Ordered(r) /\ Distinct(r)
         /\ EntriesOf(r) = EntriesOf(h) \ {h[1]}
<1>1. PICK n : n = Len(h)
  OBVIOUS
<1>2. n \in Nat /\ n >= 1 /\ DOMAIN h = 1 .. n /\ \A i \in 1 .. n : h[i] \in [node : Nodes, priority : Nat]
  <2>1. n \in Nat /\ h \in [1 .. n -> [node : Nodes, priority : Nat]] /\ DOMAIN h = 1 .. n
    BY <1>1, LenProperties DEF Queue
  <2>2. n # 0
    BY <1>1, EmptySeq DEF Queue
  <2> QED BY <2>1, <2>2
<1>3. CASE n = 1
  <2>1. r = <<>> /\ Queue(r) /\ DOMAIN r = {}
    BY <1>1, <1>3 DEF dequeue, Queue
  <2> QED BY <1>2, <1>3, <2>1 DEF Ordered, Distinct, EntriesOf
<1>4. CASE n # 1
  <2>1. PICK f, g : f = SubSeq(h, 1, n - 1) /\ g = [f EXCEPT ![1] = h[n]]
    OBVIOUS
  <2>2. /\ Queue(f) /\ Len(f) = n - 1
        /\ \A i \in 1 .. n - 1 : f[i] = h[i]
    <3>1. 1 \in Int /\ n - 1 \in Int /\ \A i \in 1 .. n - 1 : h[i] \in [node : Nodes, priority : Nat]
      BY <1>2
    <3>2. /\ f \in Seq([node : Nodes, priority : Nat])
          /\ Len(f) = IF 1 <= n - 1 THEN (n - 1) - 1 + 1 ELSE 0
          /\ \A i \in 1 .. (n - 1) - 1 + 1 : f[i] = h[1 + i - 1]
      BY <2>1, <3>1, SubSeqProperties
    <3>3. (n - 1) - 1 + 1 = n - 1 /\ \A i \in 1 .. n - 1 : 1 + i - 1 = i
      BY <1>2
    <3> QED BY <1>2, <1>4, <3>2, <3>3 DEF Queue
  <2>3. DOMAIN f = 1 .. n - 1 /\ 1 \in 1 .. n - 1 /\ n \notin 1 .. n - 1 /\ n \in DOMAIN h
    BY <1>2, <1>4, <2>2, LenProperties DEF Queue
  <2>4. /\ DOMAIN g = 1 .. n - 1 /\ g[1] = h[n]
        /\ \A i \in 1 .. n - 1 : i # 1 => g[i] = h[i]
    BY <2>1, <2>2, <2>3
  <2>5. Queue(g) /\ Len(g) = n - 1
    <3>1. g \in [1 .. n - 1 -> [node : Nodes, priority : Nat]]
      <4>1. f \in [1 .. n - 1 -> [node : Nodes, priority : Nat]]
        BY <2>2, LenProperties DEF Queue
      <4>2. h[n] \in [node : Nodes, priority : Nat]
        BY <1>2
      <4> QED BY <2>1, <4>1, <4>2
    <3>2. Queue(g)
      BY <1>2, <1>4, <3>1, SeqDef DEF Queue
    <3> QED BY <1>2, <1>4, <2>4, <3>2, LenProperties DEF Queue
  <2>6. EntriesOf(g) = EntriesOf(h) \ {h[1]}
    <3>1. DOMAIN h = DOMAIN g \cup {n} /\ 1 \in DOMAIN g
      BY <1>2, <1>4, <2>4
    <3>2. ASSUME NEW i \in DOMAIN g PROVE g[i] \in EntriesOf(h) \ {h[1]}
      BY <1>4, <2>4, <3>1, <3>2 DEF EntriesOf, Distinct
    <3>3. ASSUME NEW i \in DOMAIN h, h[i] # h[1] PROVE h[i] \in EntriesOf(g)
      <4>1. CASE i = n
        BY <2>4, <3>1, <4>1 DEF EntriesOf
      <4>2. CASE i # n
        <5>1. i \in DOMAIN g /\ i # 1
          BY <3>1, <3>3, <4>2
        <5> QED BY <2>4, <5>1 DEF EntriesOf
      <4> QED BY <4>1, <4>2
    <3> QED BY <3>2, <3>3 DEF EntriesOf
  <2>7. Distinct(g)
    <3>1. \A i \in DOMAIN g : g[i] = h[IF i = 1 THEN n ELSE i] /\ i \in DOMAIN h /\ i # n
      BY <1>2, <2>3, <2>4
    <3> QED BY <2>3, <3>1 DEF Distinct
  <2>8. Sinking(g, 1)
    <3>1. ASSUME NEW j \in DOMAIN g, j > 1, j \div 2 # 1 PROVE g[j \div 2].priority <= g[j].priority
      <4>1. j \in DOMAIN h /\ j \div 2 \in 1 .. n - 1 /\ j \in 1 .. n - 1 /\ j # 1
        BY <1>2, <2>4, <3>1, Halves
      <4> QED BY <2>4, <3>1, <4>1 DEF Ordered
    <3> QED BY <3>1 DEF Sinking, Bridged
  <2>9. Sorted(g, r)
    BY <1>1, <1>4, <2>1, <2>3, <2>4, <2>5, <2>8, SinksInto DEF dequeue
  <2> QED BY <2>5, <2>6, <2>7, <2>9, SortedQueue
<1> QED BY <1>3, <1>4

\* In a heap without duplicates, there are as many entries as its array is long.
LEMMA CountsEntries ==
  ASSUME NEW h, Queue(h), Distinct(h)
  PROVE  Len(h) = Cardinality(EntriesOf(h)) /\ EntriesOf(h) = {h[i] : i \in 1 .. Len(h)}
<1>1. DOMAIN h = 1 .. Len(h) /\ Len(h) \in Nat
  BY LenProperties DEF Queue
<1>2. PICK f : f = [i \in 1 .. Len(h) |-> h[i]]
  OBVIOUS
<1>3. f \in Bijection(1 .. Len(h), EntriesOf(h))
  <2>1. f \in [1 .. Len(h) -> EntriesOf(h)]
    BY <1>1, <1>2 DEF EntriesOf
  <2>2. \A i, j \in 1 .. Len(h) : f[i] = f[j] => i = j
    BY <1>1, <1>2 DEF Distinct
  <2>3. \A x \in EntriesOf(h) : \E i \in 1 .. Len(h) : f[i] = x
    BY <1>1, <1>2 DEF EntriesOf
  <2> QED BY <2>1, <2>2, <2>3 DEF Bijection, Injection, IsInjective, Surjection
<1>4. ExistsBijection(1 .. Len(h), EntriesOf(h))
  BY <1>3 DEF ExistsBijection
<1> QED BY <1>1, <1>4, FS_CountingElements DEF EntriesOf

-----------------------------------------------------------------------------
(* The search with the heap *)

HeapInv ==
  /\ Queue(heap) /\ Ordered(heap) /\ Distinct(heap)
  /\ EntriesOf(heap) = open

LEMMA EmptyHeap ==
  /\ Queue(<<>>) /\ Ordered(<<>>) /\ Distinct(<<>>) /\ EntriesOf(<<>>) = {} /\ Len(<<>>) = 0
  /\ HeapInv => (heap = <<>> <=> open = {})
<1>1. Queue(<<>>) /\ Len(<<>>) = 0 /\ DOMAIN <<>> = {}
  BY EmptySeq DEF Queue
<1>2. ASSUME HeapInv, heap # <<>> PROVE open # {}
  <2>1. DOMAIN heap = 1 .. Len(heap) /\ Len(heap) \in Nat \ {0}
    BY <1>2, EmptySeq, LenProperties DEF HeapInv, Queue
  <2>2. 1 \in DOMAIN heap
    BY <2>1
  <2>3. heap[1] \in EntriesOf(heap)
    BY <2>2 DEF EntriesOf
  <2> QED BY <1>2, <2>3 DEF HeapInv
<1> QED BY <1>1, <1>2 DEF Ordered, Distinct, EntriesOf, HeapInv

\* The first entry of the heap is one that RouteSearch may take off the queue.
LEMMA TakesLeast ==
  ASSUME HeapInv, heap # <<>>
  PROVE  heap[1] \in open /\ Least(heap[1])
<1>1. DOMAIN heap = 1 .. Len(heap) /\ Len(heap) \in Nat \ {0}
  BY EmptySeq, LenProperties DEF HeapInv, Queue
<1>2. heap[1] \in open
  BY <1>1 DEF HeapInv, EntriesOf
<1>3. ASSUME NEW y \in open PROVE heap[1].priority <= y.priority
  <2>1. PICK i \in DOMAIN heap : y = heap[i]
    BY DEF HeapInv, EntriesOf
  <2> QED BY <2>1, FirstIsLeast DEF HeapInv
<1> QED BY <1>2, <1>3 DEF Least

\* What is queued for a node that was reached before has a higher priority.
LEMMA QueuesNew ==
  ASSUME SearchInv, pc = "relax", NEW e \in pending, Improves(e),
         NEW x, x = Entry(Head(todo), destination(e), candidateCost(e))
  PROVE  x \in [node : Nodes, priority : Nat] /\ x \notin open
<1> DEFINE d == destination(e)
           p == Head(todo)
<1>1. d \in Nodes /\ candidateCost(e) \in Nat
  BY Candidate
<1>2. /\ x \in [node : Nodes, priority : Nat] /\ x.node = d /\ x.priority = candidateCost(e) + heuristic(p, d)
      /\ heuristic(p, d) \in Nat
  BY <1>1, HeadType, EntryType, Costs DEF SearchInv, Searching
<1>3. ASSUME x \in open PROVE FALSE
  <2>1. costFromOrigin[d] # Infinity /\ x.priority >= Estimate(d)
    BY <1>2, <1>3 DEF SearchInv
  <2>2. costFromOrigin[d] \in Nat /\ candidateCost(e) < costFromOrigin[d]
    BY <1>1, <2>1 DEF Improves, SearchInv, TypeOK
  <2>3. candidateCost(e) + heuristic(p, d) >= costFromOrigin[d] + heuristic(p, d)
    BY <1>2, <2>1 DEF Estimate
  <2>4. \A i, j, k \in Nat : i + k >= j + k => ~(i < j)
    OBVIOUS
  <2> HIDE DEF d, p
  <2> QED BY <1>1, <1>2, <2>2, <2>3, <2>4
<1> QED BY <1>2, <1>3

LEMMA BeginQueued ==
  ASSUME SearchInv, Begin, heap' = enqueue(<<>>, Entry(Head(todo), origin, 0))
  PROVE  HeapInv'
<1>1. PICK x : x = Entry(Head(todo), origin, 0)
  OBVIOUS
<1>2. Head(todo) \in Profiles /\ origin \in Nodes
  BY HeadTailProperties, Assumed DEF Begin, SearchInv, TypeOK, SearchAssumption
<1>3. x \in [node : Nodes, priority : Nat]
  BY <1>1, <1>2, EntryType DEF SearchInv
<1>4. open' = {x} /\ heap' = enqueue(<<>>, x)
  BY <1>1 DEF Begin, Begun
<1>5. Queue(heap') /\ Ordered(heap') /\ Distinct(heap') /\ EntriesOf(heap') = {} \cup {x}
  <2>1. PICK r : r = heap'
    OBVIOUS
  <2> QED BY <1>3, <1>4, <2>1, EmptyHeap, Enqueues
<1> QED BY <1>4, <1>5 DEF HeapInv, Queue, Ordered, Distinct, EntriesOf

LEMMA DequeueQueued ==
  ASSUME SearchInv, HeapInv, Dequeue
  PROVE  /\ heap[1] \in open
         /\ SkipStale(heap[1]) \/ Expand(heap[1])
         /\ HeapInv'
<1>1. heap[1] \in open /\ Least(heap[1])
  BY TakesLeast DEF Dequeue
<1>2. SkipStale(heap[1]) \/ Expand(heap[1])
  BY <1>1 DEF Dequeue, SkipStale, Expand
<1>3. open' = open \ {heap[1]} /\ heap' = dequeue(heap)
  BY DEF Dequeue, Discard, Visit
<1>4. Queue(heap') /\ Ordered(heap') /\ Distinct(heap') /\ EntriesOf(heap') = EntriesOf(heap) \ {heap[1]}
  <2>1. PICK r : r = heap'
    OBVIOUS
  <2> QED BY <1>3, <2>1, Dequeues DEF HeapInv, Dequeue
<1> QED BY <1>1, <1>2, <1>3, <1>4 DEF HeapInv, Queue, Ordered, Distinct, EntriesOf

LEMMA EnqueueQueued ==
  ASSUME SearchInv, HeapInv, NEW e \in pending, Enqueue(e)
  PROVE  HeapInv'
<1>1. Relax(e) /\ pc = "relax"
  BY DEF Enqueue, Relax
<1>2. CASE Improves(e)
  <2>1. PICK x : x = Entry(Head(todo), destination(e), candidateCost(e))
    OBVIOUS
  <2>2. x \in [node : Nodes, priority : Nat] /\ x \notin open
    BY <1>1, <1>2, <2>1, QueuesNew
  <2>3. open' = open \cup {x} /\ heap' = enqueue(heap, x)
    BY <1>1, <1>2, <2>1 DEF Enqueue, Relax
  <2>4. Queue(heap') /\ Ordered(heap') /\ Distinct(heap') /\ EntriesOf(heap') = EntriesOf(heap) \cup {x}
    <3>1. PICK r : r = heap'
      OBVIOUS
    <3> QED BY <2>2, <2>3, <3>1, Enqueues DEF HeapInv
  <2> QED BY <2>3, <2>4 DEF HeapInv, Queue, Ordered, Distinct, EntriesOf
<1>3. CASE ~Improves(e)
  <2>1. open' = open /\ heap' = heap
    BY <1>1, <1>3 DEF Enqueue, Relax
  <2> QED BY <2>1 DEF HeapInv, Queue, Ordered, Distinct, EntriesOf
<1> QED BY <1>2, <1>3

\* What a step of the search with the heap does to the heap, and that it is a step
\* of RouteSearch.
LEMMA NextHeapInv == SearchInv /\ HeapInv /\ [QueuedNext]_queuedVars => [Next]_vars /\ HeapInv'
<1> SUFFICES ASSUME SearchInv, HeapInv, [QueuedNext]_queuedVars PROVE [Next]_vars /\ HeapInv'
  OBVIOUS
<1>1. CASE Begin /\ heap' = enqueue(<<>>, Entry(Head(todo), origin, 0))
  BY <1>1, BeginQueued DEF Next, Step
<1>2. CASE Dequeue
  BY <1>2, DequeueQueued DEF Next, Step
<1>3. CASE \E e \in pending : Enqueue(e)
  BY <1>3, EnqueueQueued DEF Next, Step, Enqueue
<1>4. CASE open' = open /\ heap' = heap
  <2>1. HeapInv'
    BY <1>4 DEF HeapInv, Queue, Ordered, Distinct, EntriesOf
  <2>2. [Next]_vars
    <3>1. CASE QueuedNext
      <4>1. CASE Begin \/ Relaxed \/ Trace \/ Return \/ Ended
        BY <4>1 DEF Next, Step
      <4>2. CASE Dequeue
        BY <4>2, DequeueQueued DEF Next, Step
      <4>3. CASE \E e \in pending : Enqueue(e)
        BY <4>3 DEF Enqueue, Next, Step
      <4>4. CASE EmptyQueue
        BY <4>4, EmptyHeap DEF EmptyQueue, Exhausted, Next, Step
      <4>5. CASE Traced
        BY <4>5 DEF Next, Step
      <4> QED BY <3>1, <4>1, <4>2, <4>3, <4>4, <4>5 DEF QueuedNext, QueuedStep
    <3>2. CASE UNCHANGED queuedVars
      BY <3>2 DEF queuedVars
    <3> QED BY <3>1, <3>2
  <2> QED BY <2>1, <2>2
<1>5. CASE EmptyQueue
  <2>1. Exhausted /\ open' = open /\ heap' = heap
    BY <1>5, EmptyHeap DEF EmptyQueue, Exhausted, Finish, Idle
  <2> QED BY <1>4, <2>1
<1>6. CASE Traced /\ heap' = <<>>
  <2>1. open' = {}
    BY <1>6 DEF Traced, Finish, Idle
  <2>2. HeapInv'
    BY <1>6, <2>1, EmptyHeap DEF HeapInv, Queue, Ordered, Distinct, EntriesOf
  <2> QED BY <1>6, <2>2 DEF Next, Step
<1>7. CASE (Relaxed \/ Trace \/ Return \/ Ended) /\ UNCHANGED heap
  <2>1. open' = open
    BY <1>7 DEF Relaxed, Trace, Return, Ended, vars, search
  <2> QED BY <1>4, <1>7, <2>1
<1>8. CASE UNCHANGED queuedVars
  BY <1>4, <1>8 DEF queuedVars, vars, search
<1> QED BY <1>1, <1>2, <1>3, <1>5, <1>6, <1>7, <1>8 DEF QueuedNext, QueuedStep

LEMMA HeapHolds == QueuedSpec => Spec /\ [](SearchInv /\ HeapInv)
<1>1. QueuedInit => SearchInv /\ HeapInv /\ Init
  <2> SUFFICES ASSUME QueuedInit PROVE HeapInv
    BY InitSearchInv DEF QueuedInit
  <2>1. heap = <<>> /\ open = {}
    BY DEF QueuedInit, Init
  <2> QED BY <2>1, EmptyHeap DEF HeapInv
<1> QED BY <1>1, NextSearchInv, NextHeapInv, PTL DEF QueuedSpec, Spec

\* The heap holds what was queued and not taken off, without duplicates, and its
\* first entry is a least one: for a queue of any length.
THEOREM HeapYieldsLeast == QueuedSpec => []YieldsLeast
<1>1. HeapInv => YieldsLeast
  <2> SUFFICES ASSUME HeapInv PROVE YieldsLeast
    OBVIOUS
  <2>1. Len(heap) = Cardinality(open) /\ open = {heap[i] : i \in 1 .. Len(heap)}
    BY CountsEntries DEF HeapInv
  <2>2. heap # <<>> => Least(heap[1])
    BY TakesLeast
  <2> QED BY <2>1, <2>2, Zenon DEF YieldsLeast, Queued
<1> QED BY <1>1, HeapHolds, PTL

\* So the program's search, with its heap, has the properties of any that takes
\* some least entry each time: its routes add up, and are the cheapest and the
\* trade-off that was asked for where no road is shorter than a straight line, and
\* none of its steps is in vain.
THEOREM QueuedRoutes == QueuedSpec => [](TypeOK /\ AddsUp /\ Optimal /\ Tradeoff /\ ExploredOnce) /\ GetsOn
<1>1. SearchInv => TypeOK
  BY DEF SearchInv
<1> QED BY <1>1, HeapHolds, RoutesAddUp, RoutesOptimal, RoutesTradeOff, NoNodeTwice, SearchGetsOn, PTL

-----------------------------------------------------------------------------
(* The refinement: RouteSearch with what is in the heap for its queue *)

\* The queue is the only variable that the two have apart.
LEMMA SameOperators ==
  /\ Search!Edges = Edges /\ Search!graph = graph /\ Search!NoRoute = NoRoute /\ Search!NoTrace = NoTrace
  /\ \A e : Search!source(e) = source(e) /\ Search!destination(e) = destination(e)
  /\ \A p, e : Search!edgeCost(p, e) = edgeCost(p, e)
  /\ \A p, n : Search!heuristic(p, n) = heuristic(p, n)
  /\ \A p, n, c : Search!Entry(p, n, c) = Entry(p, n, c)
  /\ \A e : Search!candidateCost(e) = candidateCost(e)
  /\ \A e : Search!Improves(e) <=> Improves(e)
  /\ \A e : Search!distanceWeightedRisk(e) = distanceWeightedRisk(e)
  /\ \A x : Search!Stale(x) <=> Stale(x)
<1>1. \A e : Search!source(e) = source(e) /\ Search!destination(e) = destination(e)
  BY DEF Search!source, source, Search!destination, destination
<1>2. \A e : Search!weightedRisk(e) = weightedRisk(e)
  BY DEF Search!weightedRisk, weightedRisk
<1>3. \A p, e : Search!edgeCost(p, e) = edgeCost(p, e)
  BY <1>2 DEF Search!edgeCost, edgeCost, Search!distanceWeight, distanceWeight, Search!safetyWeight, safetyWeight
<1>4. \A p, n : Search!heuristic(p, n) = heuristic(p, n)
  BY DEF Search!heuristic, heuristic, Search!distanceWeight, distanceWeight, Search!haversineDistance, haversineDistance
<1>5. \A p, n, c : Search!Entry(p, n, c) = Entry(p, n, c)
  BY <1>4 DEF Search!Entry, Entry
<1>6. \A e : Search!candidateCost(e) = candidateCost(e)
  BY <1>3 DEF Search!candidateCost, candidateCost
<1>7. \A e : Search!Improves(e) <=> Improves(e)
  BY <1>1, <1>6 DEF Search!Improves, Improves
<1>8. \A e : Search!distanceWeightedRisk(e) = distanceWeightedRisk(e)
  BY <1>2 DEF Search!distanceWeightedRisk, distanceWeightedRisk
<1>9. \A x : Search!Stale(x) <=> Stale(x)
  BY <1>4 DEF Search!Stale, Stale
<1>10. Search!Edges = Edges /\ Search!graph = graph /\ Search!NoRoute = NoRoute /\ Search!NoTrace = NoTrace
  BY DEF Search!Edges, Edges, Search!graph, graph, Search!NoRoute, NoRoute, Search!NoTrace, NoTrace
<1> QED BY <1>1, <1>3, <1>4, <1>5, <1>6, <1>7, <1>8, <1>9, <1>10

LEMMA InitSearches == QueuedInit => Search!Init
<1> SUFFICES ASSUME QueuedInit PROVE Search!Init
  OBVIOUS
<1>1. Queued = {}
  BY EmptyHeap DEF QueuedInit, Queued
<1> QED BY <1>1, SameOperators DEF QueuedInit, Init, Search!Init

LEMMA FinishSearches ==
  ASSUME NEW route, Finish(route), Queued' = {}
  PROVE  Search!Finish(route)
BY SameOperators DEF Finish, Idle, graph, Search!graph, Search!Finish, Search!Idle

\* A step of RouteSearch is one of Search if what is in the heap is the queue
\* before and after.
LEMMA StepSearches ==
  ASSUME Queued = open, Queued' = open', [Next]_vars
  PROVE  [Search!Next]_(Search!vars)
<1>1. CASE Begin
  BY <1>1, SameOperators DEF Begin, Begun, graph, Search!graph, Search!Begin, Search!Begun, Search!Next, Search!Step
<1>2. ASSUME NEW x \in open, SkipStale(x) \/ Expand(x) PROVE Search!Next
  <2>1. Least(x) => Search!Least(x)
    BY DEF Least, Search!Least
  <2>2. Discard(x) => Search!Discard(x)
    BY SameOperators DEF Discard, graph, Search!graph, Search!Discard
  <2>3. Visit(x) => Search!Visit(x)
    BY SameOperators DEF Visit, graph, Search!graph, Search!Visit
  <2> QED BY <1>2, <2>1, <2>2, <2>3
          DEF SkipStale, Expand, Search!SkipStale, Search!Expand, Search!Next, Search!Step
<1>3. ASSUME NEW e \in pending, Relax(e) PROVE Search!Next
  <2>1. Search!Relax(e)
    BY <1>3, SameOperators DEF Relax, graph, Search!graph, Search!Relax
  <2> QED BY <2>1 DEF Search!Next, Search!Step
<1>4. CASE Relaxed
  BY <1>4, SameOperators
     DEF Relaxed, search, graph, Search!graph, Search!Relaxed, Search!search, Search!Next, Search!Step
<1>5. CASE Exhausted
  <2>1. Finish(NoRoute) /\ open' = {} /\ open = {} /\ pc = "search"
    BY <1>5 DEF Exhausted, Finish, Idle
  <2>2. Search!Finish(Search!NoRoute)
    BY <2>1, FinishSearches, SameOperators
  <2> QED BY <2>1, <2>2 DEF Search!Exhausted, Search!Next, Search!Step
<1>6. CASE Trace
  BY <1>6, SameOperators DEF Trace, search, graph, Search!graph, Search!Trace, Search!search, Search!Next, Search!Step
<1>7. CASE Traced
  <2>1. PICK route :
          route = [found |-> TRUE, from |-> current, totalCost |-> costFromOrigin[Destination],
                   length |-> traced.length, exposure |-> traced.exposure, exploredNodes |-> exploredNodes]
    OBVIOUS
  <2>2. Finish(route) /\ open' = {} /\ pc = "trace" /\ previousEdge[current] = None
    BY <1>7, <2>1 DEF Traced, Finish, Idle
  <2>3. Search!Finish(route)
    BY <2>2, FinishSearches
  <2> QED BY <2>1, <2>2, <2>3 DEF Search!Traced, Search!Next, Search!Step
<1>8. CASE Return
  BY <1>8, SameOperators DEF Return, search, graph, Search!graph, Search!Return, Search!search, Search!Next
<1>9. CASE UNCHANGED vars
  BY <1>9, SameOperators DEF vars, search, graph, Search!graph, Search!vars, Search!search
<1> QED BY <1>1, <1>2, <1>3, <1>4, <1>5, <1>6, <1>7, <1>8, <1>9 DEF Next, Step, Ended

\* The search with the heap implements one that takes some least entry each time.
THEOREM HeapIsAQueue == QueuedSpec => ImplementsSearch
<1>1. HeapInv => Queued = open
  BY CountsEntries DEF HeapInv, Queued
<1>2. HeapInv' => Queued' = open'
  <2>1. PICK h : h = heap'
    OBVIOUS
  <2> QED BY <2>1, CountsEntries DEF HeapInv, Queued, Queue, Distinct, EntriesOf
<1>3. SearchInv /\ HeapInv /\ [QueuedNext]_queuedVars => [Search!Next]_(Search!vars)
  BY <1>1, <1>2, NextHeapInv, StepSearches
<1> QED BY <1>3, InitSearches, HeapHolds, PTL DEF QueuedSpec, ImplementsSearch, Search!Spec
=============================================================================
