-------------------------------- MODULE Fifo --------------------------------
(* What an interrupt queue promises: a queue of at most CAPACITY bytes,      *)
(* first in, first out.                                                      *)
EXTENDS Naturals, Sequences

CONSTANTS Byte, Capacity

VARIABLE queue

Init == queue = <<>>

Enqueue(b) == Len(queue) < Capacity /\ queue' = Append(queue, b)

Dequeue == queue # <<>> /\ queue' = Tail(queue)

Next == Dequeue \/ \E b \in Byte : Enqueue(b)

Spec == Init /\ [][Next]_queue
==============================================================================
