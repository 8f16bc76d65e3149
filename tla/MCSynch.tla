------------------------------- MODULE MCSynch -------------------------------
(* Two or three threads that share two locks, a semaphore or a condition    *)
(* variable.                                                                *)
EXTENDS Synch

CONSTANTS t1, t2, A, B, s1, c1

MCThread == {Main, t1, t2}
MCTwoThreads == {Main, t1}
MCRank == [l \in Lock |-> IF l = A THEN 1 ELSE 2]
MCCondLock == [c \in Cond |-> A]
MCNaps == {1}
==============================================================================
