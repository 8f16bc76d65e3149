------------------------------ MODULE LinkedList ------------------------------
(***************************************************************************)
(* lib/kernel/list.c on its cells.  HEAP holds the prev and next pointers  *)
(* of the heads and tails of the lists and of the elements; an element     *)
(* that was removed keeps its old pointers.  An operation takes a heap and *)
(* yields the heap it leaves behind, or the cell it returns.  LESS is the  *)
(* order of KEY.  PintosList describes the same operations on sequences.   *)
(***************************************************************************)
EXTENDS Integers, PintosList, SequencesExt

CONSTANTS
  List,              \* lists
  Elem,              \* elements that may be linked into one list at a time
  NULL,
  key                \* what the elements are ordered by

VARIABLE heap

Head_(l) == <<l, "head">>
Tail_(l) == <<l, "tail">>
Cell == {Head_(l) : l \in List} \cup {Tail_(l) : l \in List} \cup {<<e, "elem">> : e \in Elem}
At(e) == <<e, "elem">>
less(a, b) == key[a[1]] < key[b[1]]

is_interior(h, c) == h.prev[c] # NULL /\ h.next[c] # NULL
is_tail(h, c) == h.prev[c] # NULL /\ h.next[c] = NULL

list_init(h, l) ==
  [prev |-> [h.prev EXCEPT ![Head_(l)] = NULL, ![Tail_(l)] = Head_(l)],
   next |-> [h.next EXCEPT ![Head_(l)] = Tail_(l), ![Tail_(l)] = NULL]]

list_begin(h, l) == h.next[Head_(l)]
list_rbegin(h, l) == h.prev[Tail_(l)]
list_end(l) == Tail_(l)
list_rend(l) == Head_(l)
list_next(h, c) == h.next[c]
list_prev(h, c) == h.prev[c]
list_empty(h, l) == list_begin(h, l) = list_end(l)

RECURSIVE Forward(_, _, _), Backward(_, _, _)
Forward(h, c, end) == IF c = end THEN <<>> ELSE <<c>> \o Forward(h, list_next(h, c), end)
Backward(h, c, end) == IF c = end THEN <<>> ELSE <<c>> \o Backward(h, list_prev(h, c), end)

(* The cells from list_begin to list_end, and their elements.               *)
Cells(h, l) == Forward(h, list_begin(h, l), list_end(l))
Elems(h, l) == [i \in 1..Len(Cells(h, l)) |-> Cells(h, l)[i][1]]
list_size(h, l) == Len(Cells(h, l))

list_insert(h, before, c) ==
  LET p == h.prev[before]
  IN  [prev |-> [h.prev EXCEPT ![c] = p, ![before] = c],
       next |-> [h.next EXCEPT ![c] = before, ![p] = c]]

list_remove(h, c) ==
  [prev |-> [h.prev EXCEPT ![h.next[c]] = h.prev[c]],
   next |-> [h.next EXCEPT ![h.prev[c]] = h.next[c]]]

list_push_front(h, l, c) == list_insert(h, list_begin(h, l), c)
list_push_back(h, l, c) == list_insert(h, list_end(l), c)
list_front(h, l) == list_begin(h, l)
list_back(h, l) == list_rbegin(h, l)
list_pop_front(h, l) == list_remove(h, list_front(h, l))
list_pop_back(h, l) == list_remove(h, list_back(h, l))

(* FIRST up to LAST leave their list and go before BEFORE.                  *)
list_splice(h, before, first, last) ==
  LET z == list_prev(h, last)
      out == [prev |-> [h.prev EXCEPT ![h.next[z]] = h.prev[first]],
              next |-> [h.next EXCEPT ![h.prev[first]] = h.next[z]]]
      p == out.prev[before]
  IN  IF first = last THEN h
      ELSE [prev |-> [out.prev EXCEPT ![first] = p, ![before] = z],
            next |-> [out.next EXCEPT ![z] = before, ![p] = first]]

-----------------------------------------------------------------------------
(* Algorithms.                                                             *)

RECURSIVE SwapLinks(_, _, _)
SwapLinks(h, c, end) ==
  IF c = end THEN h
  ELSE SwapLinks([prev |-> [h.prev EXCEPT ![c] = h.next[c]],
                  next |-> [h.next EXCEPT ![c] = h.prev[c]]], h.next[c], end)

(* The links of every element are swapped, then the ends of the list, then  *)
(* the links of the new first and last elements to those ends.              *)
list_reverse(h, l) ==
  LET s == SwapLinks(h, list_begin(h, l), list_end(l))
      first == s.prev[Tail_(l)]
      last == s.next[Head_(l)]
  IN  IF list_empty(h, l) THEN h
      ELSE [prev |-> [s.prev EXCEPT ![Tail_(l)] = last, ![first] = s.next[last]],
            next |-> [s.next EXCEPT ![Head_(l)] = first, ![last] = s.prev[first]]]

RECURSIVE find_end_of_run(_, _, _), inplace_merge(_, _, _, _), SortPass(_, _, _, _), list_sort(_, _)
find_end_of_run(h, a, b) ==
  LET n == list_next(h, a)
  IN  IF n = b \/ less(n, a) THEN n ELSE find_end_of_run(h, n, b)

MovesBack_Equal(a1b0, a0) == ~less(a0, a1b0)
MovesBack(a1b0, a0) == less(a1b0, a0)

(* An element of the second run that is less than A0 is moved before it.    *)
inplace_merge(h, a0, a1b0, b1) ==
  IF a0 = a1b0 \/ a1b0 = b1 THEN h
  ELSE IF ~MovesBack(a1b0, a0) THEN inplace_merge(h, list_next(h, a0), a1b0, b1)
  ELSE LET n == list_next(h, a1b0)
       IN  inplace_merge(list_splice(h, a0, a1b0, n), a0, n, b1)

(* Merges runs pairwise from A0 on; yields the heap and the number of runs. *)
SortPass(h, l, a0, runs) ==
  LET end == list_end(l)
      a1b0 == find_end_of_run(h, a0, end)
      b1 == find_end_of_run(h, a1b0, end)
  IN  IF a0 = end THEN <<h, runs>>
      ELSE IF a1b0 = end THEN <<h, runs + 1>>
      ELSE SortPass(inplace_merge(h, a0, a1b0, b1), l, b1, runs + 1)

list_sort(h, l) ==
  LET pass == SortPass(h, l, list_begin(h, l), 0)
  IN  IF pass[2] > 1 THEN list_sort(pass[1], l) ELSE pass[1]

RECURSIVE FirstAfter(_, _, _, _), Unique(_, _, _, _, _), Best(_, _, _, _, _)
FirstAfter(h, e, end, c) ==
  IF e = end \/ less(c, e) THEN e ELSE FirstAfter(h, list_next(h, e), end, c)

InsertOrdered(h, l, c) == list_insert(h, FirstAfter(h, list_begin(h, l), list_end(l), c), c)

(* Adjacent equal elements after E are removed and, if DUP is a list,       *)
(* appended to it.                                                          *)
Unique(h, l, dup, e, next) ==
  IF next = list_end(l) THEN h
  ELSE IF less(e, next) \/ less(next, e) THEN Unique(h, l, dup, next, list_next(h, next))
  ELSE LET out == list_remove(h, next)
           moved == IF dup = NULL THEN out ELSE list_push_back(out, dup, next)
       IN  Unique(moved, l, dup, e, list_next(moved, e))

list_unique(h, l, dup) ==
  IF list_empty(h, l) THEN h
  ELSE Unique(h, l, dup, list_begin(h, l), list_next(h, list_begin(h, l)))

Best(h, best, e, end, sign) ==
  IF e = end THEN best
  ELSE Best(h, IF (IF sign THEN less(best, e) ELSE less(e, best)) THEN e ELSE best,
            list_next(h, e), end, sign)

Extreme(h, l, sign) ==
  IF list_empty(h, l) THEN list_end(l)
  ELSE Best(h, list_begin(h, l), list_next(h, list_begin(h, l)), list_end(l), sign)
list_max(h, l) == Extreme(h, l, TRUE)
MinCell(h, l) == Extreme(h, l, FALSE)

-----------------------------------------------------------------------------
Linked == UNION {Range(Elems(heap, l)) : l \in List}
Free == Elem \ Linked

ListInit ==
  LET blank == [prev |-> [c \in Cell |-> NULL], next |-> [c \in Cell |-> NULL]]
      RECURSIVE All(_, _)
      All(h, ls) == IF ls = {} THEN h
                    ELSE LET l == CHOOSE x \in ls : TRUE IN All(list_init(h, l), ls \ {l})
  IN  heap = All(blank, List)

ListNext ==
  \E l \in List :
    \/ \E e \in Free :
         heap' \in {list_push_front(heap, l, At(e)), list_push_back(heap, l, At(e)),
                    InsertOrdered(heap, l, At(e))}
    \/ ~list_empty(heap, l) /\ heap' \in {list_pop_front(heap, l), list_pop_back(heap, l)}
    \/ \E e \in Range(Elems(heap, l)) : heap' = list_remove(heap, At(e))
    \/ heap' \in {list_reverse(heap, l), list_sort(heap, l)}
    \/ \E dup \in (List \ {l}) \cup {NULL} : heap' = list_unique(heap, l, dup)
    \/ \E m \in List \ {l} : ~list_empty(heap, m) /\
         heap' = list_splice(heap, list_begin(heap, l), list_begin(heap, m), list_back(heap, m))

-----------------------------------------------------------------------------
(* What the operations do to the sequence S of the elements of a list.     *)

Ordered(s) == \A i, j \in DOMAIN s : i < j => key[s[i]] <= key[s[j]]
(* A stable sort: the elements of each key in the order they had.          *)
StableSort(s) ==
  CHOOSE t \in [DOMAIN s -> Range(s)] :
    /\ Range(t) = Range(s) /\ Ordered(t)
    /\ \A k \in {key[e] : e \in Elem} :
         SelectSeq(t, LAMBDA e : key[e] = k) = SelectSeq(s, LAMBDA e : key[e] = k)
Leaders(s) == {i \in DOMAIN s : i = 1 \/ key[s[i]] # key[s[i - 1]]}
Keep(s, on) == FoldLeft(LAMBDA t, i : IF i \in on THEN Append(t, s[i]) ELSE t, <<>>, [i \in DOMAIN s |-> i])

(* However a list came about, and whatever the pointers in the elements    *)
(* that were removed: forwards and backwards it links the same cells, no   *)
(* cell is in two lists, and sorting, reversing, ordered insertion,        *)
(* unique and the extremes do to the cells what is said of sequences.      *)
ListsAreSequences ==
  /\ \A l, m \in List : l # m => Range(Elems(heap, l)) \cap Range(Elems(heap, m)) = {}
  /\ \A l \in List :
       LET s == Elems(heap, l)
           kept == list_unique(heap, l, NULL)
           smaller == [i \in DOMAIN s |-> {j \in DOMAIN s : key[s[j]] < key[s[i]]}]
       IN  /\ Cells(heap, l) = Reverse(Backward(heap, list_rbegin(heap, l), list_rend(l)))
           /\ \A e \in Range(s) : is_interior(heap, At(e))
           /\ is_tail(heap, list_end(l)) /\ list_size(heap, l) = Cardinality(Range(s))
           /\ Elems(list_reverse(heap, l), l) = Reverse(s)
           /\ Elems(list_sort(heap, l), l) = StableSort(s)
           /\ Elems(kept, l) = Keep(s, Leaders(s))
           /\ \A m \in List \ {l} : Elems(list_unique(heap, l, m), m) =
                Elems(heap, m) \o Keep(s, DOMAIN s \ Leaders(s))
           /\ \A e \in Free : Elems(InsertOrdered(heap, l, At(e)), l) =
                list_insert_ordered(s, e, {i \in DOMAIN s : key[e] < key[s[i]]})
           /\ s # <<>> => /\ MinCell(heap, l) = At(s[list_min(smaller)])
                          /\ key[list_max(heap, l)[1]] = Max({key[e] : e \in Range(s)})
==============================================================================
