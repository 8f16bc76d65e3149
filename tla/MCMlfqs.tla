------------------------------- MODULE MCMlfqs -------------------------------
(* Two threads, seconds of two ticks and fixed point numbers of one bit.    *)
EXTENDS Mlfqs

CONSTANT t1

MCTwoThreads == {Main, t1}
==============================================================================
