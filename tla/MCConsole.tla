------------------------------ MODULE MCConsole ------------------------------
(* Two threads; the timer and a disk on the slave have handlers, line 5 has *)
(* none, and lines 7 and 15 are only spurious.                              *)
EXTENDS Console
=============================================================================
