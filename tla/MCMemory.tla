------------------------------ MODULE MCMemory ------------------------------
(* Two threads, pools of three and one pages, arenas of three small blocks  *)
(* or one larger one, and big blocks of one and two pages.                  *)
EXTENDS Memory, TLC

CONSTANTS t1, t2

Symmetry == Permutations(Thread)
==============================================================================
