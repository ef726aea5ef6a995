---------------------------- MODULE BoundedFifo ----------------------------
(***************************************************************************)
(* What TA_ActivityQueue promises of the order of its elements: a FIFO of  *)
(* at most Bound elements.  An element enters when its push claims a slot  *)
(* and leaves when a pop claims that slot.                                 *)
(***************************************************************************)
EXTENDS Naturals, Sequences

CONSTANTS Bound, Elements

VARIABLE fifo

Init == fifo = << >>

Enqueue(e) ==
  /\ Len(fifo) < Bound
  /\ fifo' = Append(fifo, e)

Dequeue ==
  /\ fifo # << >>
  /\ fifo' = Tail(fifo)

Next == Dequeue \/ \E e \in Elements : Enqueue(e)

Spec == Init /\ [][Next]_fifo
=============================================================================
