-------------------------------- MODULE Mutex --------------------------------
(* What a lock promises (the comment of lock_init): at any time it is owned *)
(* by at most one thread, and the thread that acquired it releases it.      *)
CONSTANTS Thread, Lock, NULL

VARIABLE owner

Init == owner = [l \in Lock |-> NULL]

Acquire(t, l) == owner[l] = NULL /\ owner' = [owner EXCEPT ![l] = t]

Release(t, l) == owner[l] = t /\ owner' = [owner EXCEPT ![l] = NULL]

Next == \E t \in Thread, l \in Lock : Acquire(t, l) \/ Release(t, l)

Spec == Init /\ [][Next]_owner
==============================================================================
