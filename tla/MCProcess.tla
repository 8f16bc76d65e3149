------------------------------ MODULE MCProcess ------------------------------
(* Two processes at a time, too few pages for both, and programs whose      *)
(* segments cross a page boundary, overlap, wrap around or are refused.     *)
EXTENDS Process, TLC

CONSTANTS p1, p2

Load(vaddr, filesz, memsz) ==
  [type |-> "load", vaddr |-> vaddr, filesz |-> filesz, memsz |-> memsz, aligned |-> TRUE]

Programs == {
  <<[Load(4, 1, 1) EXCEPT !.type = "ignored"], Load(7, 1, 3)>>,
  <<Load(4, 4, 4), Load(6, 1, 1)>>,
  <<Load(10, 2, 30)>> }

Symmetry == Permutations(Proc)
==============================================================================
