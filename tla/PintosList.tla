------------------------------ MODULE PintosList ------------------------------
(***************************************************************************)
(* The operations of lib/kernel/list.c that the kernel's queues use.  A    *)
(* doubly linked list is the sequence of its elements from list_begin to   *)
(* list_end; a list_elem is the object it is embedded in.                  *)
(***************************************************************************)
EXTENDS Integers, Sequences, FiniteSetsExt, Functions

(* list_insert of E in front of the element at position I.                  *)
InsertedBefore(l, i, e) == SubSeq(l, 1, i - 1) \o <<e>> \o SubSeq(l, i, Len(l))

(* list_remove of the element at position I.                                *)
Without(l, i) == SubSeq(l, 1, i - 1) \o SubSeq(l, i + 1, Len(l))

(* list_insert_ordered: E goes before the first element that it is less     *)
(* than, or at the back when there is none.  BEFORE is the set of the       *)
(* positions whose elements E is less than.                                 *)
list_insert_ordered(l, e, before) ==
  IF before = {} THEN Append(l, e) ELSE InsertedBefore(l, Min(before), e)

(* list_min: the position of the earliest element that no other is less     *)
(* than.  SMALLER[i] is the set of the positions whose elements are less    *)
(* than the one at I.                                                       *)
list_min(smaller) == Min({i \in DOMAIN smaller : smaller[i] = {}})

(* The elements of L have non-increasing keys.                              *)
Sorted(l, key) == \A i, j \in DOMAIN l : i < j => key[l[i]] >= key[l[j]]
==============================================================================
