------------------------------ MODULE BoundedFifo ------------------------------
(***************************************************************************)
(* A queue of at most Capacity items: what libwsnet/pktlist.c promises.    *)
(***************************************************************************)
EXTENDS Naturals, Sequences

CONSTANTS Capacity, Item

VARIABLE queue

Init == queue = <<>>

Put ==
  /\ Len(queue) < Capacity
  /\ Len(queue') = Len(queue) + 1
  /\ queue'[Len(queue')] \in Item
  /\ \A i \in 1..Len(queue) : queue'[i] = queue[i]

Get ==
  /\ Len(queue) > 0
  /\ Len(queue') = Len(queue) - 1
  /\ \A i \in 1..Len(queue') : queue'[i] = queue[i + 1]

Next == Put \/ Get

Spec == Init /\ [][Next]_queue
=============================================================================
