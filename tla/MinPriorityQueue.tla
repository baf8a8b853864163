-------------------------- MODULE MinPriorityQueue --------------------------
(***************************************************************************)
(* The binary heap of MinPriorityQueue.  The entry at index i of the array *)
(* is heap[i + 1] here, so that its parent is heap[i \div 2].  The private *)
(* loops are written as functions of the index they have come to, and of   *)
(* the array as it is then.                                                *)
(***************************************************************************)
EXTENDS Integers, Sequences

Swap(heap, i, j) == [heap EXCEPT ![i] = heap[j], ![j] = heap[i]]

\* The arrays that swaps make of this one are among these.
Arrays(heap) == [DOMAIN heap -> {heap[i] : i \in DOMAIN heap}]

UpFrom(up, i, h) ==
  LET parent == i \div 2
  IN  IF i = 1 \/ h[parent].priority <= h[i].priority THEN h
      ELSE up[parent][Swap(h, parent, i)]

bubbleUp(heap, current) ==
  LET up[i \in DOMAIN heap] == [h \in Arrays(heap) |-> UpFrom(up, i, h)]
  IN  up[current][heap]

\* Mutant: the right child is compared with its parent, not with its sibling.
LeastOfParent(h, i) ==
  LET IsLess(j, k) == j <= Len(h) /\ h[j].priority < h[k].priority
      left == IF IsLess(2 * i, i) THEN 2 * i ELSE i
  IN  IF IsLess(2 * i + 1, i) THEN 2 * i + 1 ELSE left

\* The least of an entry and its children.
Smallest(h, i) ==
  LET IsLess(j, k) == j <= Len(h) /\ h[j].priority < h[k].priority
      left == IF IsLess(2 * i, i) THEN 2 * i ELSE i
  IN  IF IsLess(2 * i + 1, left) THEN 2 * i + 1 ELSE left

DownFrom(down, i, h) ==
  LET smallest == Smallest(h, i)
  IN  IF smallest = i THEN h ELSE down[smallest][Swap(h, i, smallest)]

sinkDown(heap, current) ==
  LET down[i \in DOMAIN heap] == [h \in Arrays(heap) |-> DownFrom(down, i, h)]
  IN  down[current][heap]

enqueue(heap, entry) == bubbleUp(Append(heap, entry), Len(heap) + 1)

\* Mutant: the entry that takes the place of the first stays there.
DequeueWithoutSinking(heap) ==
  IF Len(heap) = 1 THEN <<>>
  ELSE [SubSeq(heap, 1, Len(heap) - 1) EXCEPT ![1] = heap[Len(heap)]]

\* The array after dequeue has taken its first entry off.
dequeue(heap) ==
  IF Len(heap) = 1 THEN <<>>
  ELSE sinkDown([SubSeq(heap, 1, Len(heap) - 1) EXCEPT ![1] = heap[Len(heap)]], 1)
=============================================================================
