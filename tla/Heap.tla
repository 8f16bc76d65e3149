-------------------------------- MODULE Heap --------------------------------
(* What the allocators promise their callers: what is handed out overlaps  *)
(* nothing that is still held, and only its holder gives it back.          *)
EXTENDS Integers

CONSTANT Thread

VARIABLE owned   \* what each thread holds: where it starts, the bytes asked for

Disjoint(x, y) == x.addr + x.size <= y.addr \/ y.addr + y.size <= x.addr

Init == owned = [t \in Thread |-> {}]

Fresh(x) == \A s \in Thread : \A y \in owned[s] : Disjoint(x, y)

(* A new block; realloc gives up an old one for it.                         *)
Alloc(t) ==
  \E x \in owned'[t] \ owned[t] :
    /\ Fresh(x)
    /\ \/ owned' = [owned EXCEPT ![t] = @ \cup {x}]
       \/ \E y \in owned[t] : owned' = [owned EXCEPT ![t] = (@ \cup {x}) \ {y}]

Release(t) ==
  \E y \in owned[t] : owned' = [owned EXCEPT ![t] = @ \ {y}]

Next == \E t \in Thread : Alloc(t) \/ Release(t)

Spec == Init /\ [][Next]_owned
==============================================================================
