------------------------------ MODULE MCThreads ------------------------------
(* Three threads, three priorities and naps that include 0 and a negative   *)
(* number of ticks.                                                         *)
EXTENDS Threads

CONSTANTS t1, t2

MCThread == {Main, t1, t2}
MCNaps == {-1, 0, 1, 2}
==============================================================================
