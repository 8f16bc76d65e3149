--------------------------------- MODULE Hash ---------------------------------
(***************************************************************************)
(* lib/kernel/hash.c.  A bucket is the sequence of its elements.  The      *)
(* number of buckets follows the number of elements; the allocation of new *)
(* buckets may fail, and the table goes on with the old ones.  The code    *)
(* has MinBuckets = 4 and BEST_ELEMS_PER_BUCKET = 2.                       *)
(***************************************************************************)
EXTENDS Integers, SequencesExt, Bitwise

CONSTANTS Entry, NONE, entry_key, hash, MinBuckets, BEST_ELEMS_PER_BUCKET

VARIABLES
  table,       \* elem_cnt and the buckets
  returned     \* what the last operation returned

hashVars == <<table, returned>>

bucket_cnt(t) == Len(t.buckets)
find_bucket(t, e) == (hash[entry_key[e]] & (bucket_cnt(t) - 1)) + 1

find_elem(t, e) ==
  LET b == t.buckets[find_bucket(t, e)]
      equal == {i \in DOMAIN b : entry_key[b[i]] = entry_key[e]}
  IN  IF equal = {} THEN NONE ELSE b[Min(equal)]

insert_elem(t, e) ==
  [elem_cnt |-> t.elem_cnt + 1,
   buckets |-> [t.buckets EXCEPT ![find_bucket(t, e)] = <<e>> \o @]]

Unchained(t, e) == [i \in DOMAIN t.buckets |-> SelectSeq(t.buckets[i], LAMBDA x : x # e)]

(* list_remove unlinks E from whatever bucket it is in.                     *)
remove_elem(t, e) == [elem_cnt |-> t.elem_cnt - 1, buckets |-> Unchained(t, e)]

turn_off_least_1bit(x) == x & (x - 1)
is_power_of_2(x) == x # 0 /\ turn_off_least_1bit(x) = 0

RECURSIVE RoundDown(_), MoveAll(_, _)
RoundDown(n) == IF is_power_of_2(n) THEN n ELSE RoundDown(turn_off_least_1bit(n))

new_bucket_cnt(t) ==
  LET best == t.elem_cnt \div BEST_ELEMS_PER_BUCKET
  IN  RoundDown(IF best < MinBuckets THEN MinBuckets ELSE best)

EmptyBuckets(n) == [i \in 1..n |-> <<>>]

MoveAll_First(t, elems) == [t EXCEPT !.buckets[1] = elems]
(* Each element goes to the front of its new bucket.                        *)
MoveAll(t, elems) ==
  IF elems = <<>> THEN t
  ELSE MoveAll([t EXCEPT !.buckets[find_bucket(t, Head(elems))] = <<Head(elems)>> \o @], Tail(elems))

(* With MALLOC false no memory is left for new buckets.                     *)
rehash(t, malloc) ==
  LET n == new_bucket_cnt(t)
  IN  IF n = bucket_cnt(t) \/ ~malloc THEN t
      ELSE MoveAll([t EXCEPT !.buckets = EmptyBuckets(n)], FlattenSeq(t.buckets))

-----------------------------------------------------------------------------
hash_insert(e, malloc) ==
  LET old == find_elem(table, e)
  IN  /\ table' = rehash(IF old = NONE THEN insert_elem(table, e) ELSE table, malloc)
      /\ returned' = old

hash_replace(e, malloc) ==
  LET old == find_elem(table, e)
      rest == IF old = NONE THEN table ELSE remove_elem(table, old)
  IN  /\ table' = rehash(insert_elem(rest, e), malloc)
      /\ returned' = old

hash_delete(e, malloc) ==
  LET found == find_elem(table, e)
  IN  /\ table' = IF found = NONE THEN table ELSE rehash(remove_elem(table, found), malloc)
      /\ returned' = found

hash_find(e) == returned' = find_elem(table, e) /\ UNCHANGED table

(* hash_clear keeps the buckets.                                            *)
hash_clear ==
  /\ table' = [elem_cnt |-> 0, buckets |-> EmptyBuckets(bucket_cnt(table))]
  /\ returned' = NONE

(* An iterator is a bucket and a place in it, 0 being its list head.        *)
hash_first == <<1, 0>>

(* The first place of a bucket from B on, NONE after the last one.          *)
NextBucket(b) ==
  LET later == {c \in b..bucket_cnt(table) : table.buckets[c] # <<>>}
  IN  IF later = {} THEN NONE ELSE <<Min(later), 1>>
hash_next(i) ==
  IF i[2] < Len(table.buckets[i[1]]) THEN <<i[1], i[2] + 1>> ELSE NextBucket(i[1] + 1)
RECURSIVE Iterate(_)
Iterate(i) ==
  LET n == hash_next(i)
  IN  IF n = NONE THEN <<>> ELSE <<table.buckets[n[1]][n[2]]>> \o Iterate(n)

(* hash_apply visits the buckets one after the other.                       *)
hash_apply == FlattenSeq(table.buckets)

hash_size == table.elem_cnt

Content == UNION {Range(table.buckets[i]) : i \in DOMAIN table.buckets}

HashInit == table = [elem_cnt |-> 0, buckets |-> EmptyBuckets(MinBuckets)] /\ returned = NONE

HashNext ==
  \/ \E malloc \in BOOLEAN :
       \/ \E e \in Entry \ Content : hash_insert(e, malloc) \/ hash_replace(e, malloc)
       \/ \E e \in Entry : hash_delete(e, malloc)
  \/ \E e \in Entry : hash_find(e)
  \/ hash_clear

-----------------------------------------------------------------------------
IterationComplete ==
  /\ Iterate(hash_first) = hash_apply
  /\ Range(hash_apply) = Content /\ Len(hash_apply) = Cardinality(Content)
  /\ hash_size = Cardinality(Content)

(* The table finds, inserts, replaces and deletes like a set with one      *)
(* element per key, also while rehash moves elements or finds no memory;   *)
(* an iterator and hash_apply visit every element once, and hash_size      *)
(* counts them.                                                            *)
D == INSTANCE Dict WITH content <- Content, Elem <- Entry, NULL <- NONE, key <- entry_key
HashIsDict == D!DictSpec /\ []IterationComplete
==============================================================================
