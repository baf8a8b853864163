---------------------------- MODULE QueuedSearch ----------------------------
(***************************************************************************)
(* RouteSearch with the queue the program uses: a binary heap, of which    *)
(* dequeue takes the first entry whatever it is.  open goes on to say what *)
(* was queued and not taken off, and takes no part in the choice.          *)
(***************************************************************************)
EXTENDS RouteSearch, MinPriorityQueue

VARIABLE heap

queuedVars == <<vars, heap>>

QueuedInit == Init /\ heap = <<>>

\* open.dequeue()
Dequeue ==
  /\ pc = "search"
  /\ heap # <<>>
  /\ Discard(heap[1]) \/ Visit(heap[1])
  /\ heap' = dequeue(heap)

\* open.enqueue(...), if the edge improves its destination
Enqueue(e) ==
  /\ Relax(e)
  /\ heap' = IF Improves(e) THEN enqueue(heap, Entry(Head(todo), destination(e), candidateCost(e))) ELSE heap

\* Mutant: the loop does not end with the queue.
EmptyQueueSpins ==
  /\ pc = "search"
  /\ heap = <<>>
  /\ UNCHANGED queuedVars

\* open.size is 0
EmptyQueue ==
  /\ pc = "search"
  /\ heap = <<>>
  /\ Finish(NoRoute)
  /\ UNCHANGED heap

QueuedStep ==
  \/ Begin /\ heap' = enqueue(<<>>, Entry(Head(todo), origin, 0))
  \/ Dequeue
  \/ \E e \in pending : Enqueue(e)
  \/ (Relaxed \/ Trace) /\ UNCHANGED heap
  \/ EmptyQueue
  \/ Traced /\ heap' = <<>>

QueuedNext == QueuedStep \/ ((Return \/ Ended) /\ UNCHANGED heap)

QueuedSpec == QueuedInit /\ [][QueuedNext]_queuedVars /\ WF_queuedVars(QueuedStep \/ (Return /\ UNCHANGED heap))

-----------------------------------------------------------------------------
Queued == {heap[i] : i \in 1 .. Len(heap)}

\* The heap holds the entries that were queued and not taken off, each once, and
\* the first has the least priority of them.
YieldsLeast ==
  /\ open = Queued
  /\ Len(heap) = Cardinality(open)
  /\ heap # <<>> => Least(heap[1])

\* So the search with the heap is one that takes some least entry each time, as
\* RouteSearch has it: what is in the heap is its queue.
Search == INSTANCE RouteSearch WITH open <- Queued

ImplementsSearch == Search!Spec
=============================================================================
