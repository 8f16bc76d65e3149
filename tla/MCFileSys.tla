------------------------------ MODULE MCFileSys ------------------------------
(* FileSys on a small disk, for TLC.                                         *)
EXTENDS FileSys, TLC

CONSTANTS n1, n2, h1, h2, zero, bytes

(* Names and open files are interchangeable.                                 *)
FsSymmetry == Permutations({n1, n2}) \cup Permutations({h1, h2})
==============================================================================
