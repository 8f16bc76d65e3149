---------------------------- MODULE ThreadsFacts -----------------------------
(* Facts about the operations of list.c, and the inductive invariant of     *)
(* the scheduler, for any number of threads and any priority range, slice   *)
(* and naps.                                                                *)
EXTENDS Threads, Counting, TLAPS

-----------------------------------------------------------------------------
(* Lists that are kept sorted.                                             *)

(* R is L with E inserted at position I.                                    *)
Inserted(r, l, i, e) ==
  /\ i \in 1..Len(l) + 1
  /\ Len(r) = Len(l) + 1
  /\ \A j \in 1..i - 1 : r[j] = l[j]
  /\ r[i] = e
  /\ \A j \in i + 1..Len(l) + 1 : r[j] = l[j - 1]

(* The two insertions list_insert_ordered makes.                            *)
LEMMA AppendInserts ==
  ASSUME NEW S, NEW l \in Seq(S), NEW e \in S
  PROVE  Append(l, e) \in Seq(S) /\ Inserted(Append(l, e), l, Len(l) + 1, e)
BY DEF Inserted

(* The same for an insertion in front of position I.                        *)
LEMMA BeforeInserts ==
  ASSUME NEW S, NEW l \in Seq(S), NEW e \in S, NEW i \in 1..Len(l)
  PROVE  InsertedBefore(l, i, e) \in Seq(S) /\ Inserted(InsertedBefore(l, i, e), l, i, e)
<1> DEFINE a == SubSeq(l, 1, i - 1) \o <<e>>
           b == SubSeq(l, i, Len(l))
<1>1. SubSeq(l, 1, i - 1) \in Seq(S) /\ Len(SubSeq(l, 1, i - 1)) = i - 1
  OBVIOUS
<1>2. a \in Seq(S) /\ Len(a) = i /\ a[i] = e /\ \A j \in 1..i - 1 : a[j] = l[j]
  BY <1>1
<1>3. /\ b \in Seq(S) /\ Len(b) = Len(l) - i + 1
      /\ \A j \in 1..Len(b) : b[j] = l[i + j - 1]
  OBVIOUS
<1>4. InsertedBefore(l, i, e) = a \o b
  BY Zenon DEF InsertedBefore
<1> HIDE DEF a, b
<1>5. /\ a \o b \in Seq(S) /\ Len(a \o b) = Len(l) + 1
      /\ \A j \in 1..i : (a \o b)[j] = a[j]
      /\ \A j \in i + 1..Len(l) + 1 : (a \o b)[j] = b[j - i]
  BY <1>2, <1>3
<1>6. \A j \in i + 1..Len(l) + 1 : b[j - i] = l[j - 1]
  BY <1>3
<1> QED BY <1>2, <1>4, <1>5, <1>6 DEF Inserted

(* An insertion adds its element, once.                                     *)
LEMMA InsertedRange ==
  ASSUME NEW S, NEW l \in Seq(S), NEW r \in Seq(S), NEW e, NEW i, Inserted(r, l, i, e)
  PROVE  /\ Range(r) = Range(l) \cup {e}
         /\ IsInjective(l) /\ e \notin Range(l) => IsInjective(r)
<1>1. /\ i \in Int /\ 1 <= i /\ i <= Len(l) + 1
      /\ Len(l) \in Nat
      /\ DOMAIN l = 1..Len(l) /\ DOMAIN r = 1..Len(l) + 1
      /\ r[i] = e /\ i \in DOMAIN r
  BY DEF Inserted
<1>2. \A k \in DOMAIN l : k < i => r[k] = l[k] /\ k \in DOMAIN r
  BY <1>1 DEF Inserted
<1>3. \A k \in DOMAIN l : k >= i => r[k + 1] = l[k] /\ k + 1 \in DOMAIN r
  <2> SUFFICES ASSUME NEW k \in DOMAIN l, k >= i
               PROVE  r[k + 1] = l[k] /\ k + 1 \in DOMAIN r
    BY Zenon
  <2>1. k + 1 \in i + 1..Len(l) + 1 /\ (k + 1) - 1 = k
    BY <1>1
  <2> QED BY <1>1, <2>1 DEF Inserted
<1>4. \A k \in DOMAIN r : k > i => r[k] = l[k - 1] /\ k - 1 \in DOMAIN l
  BY <1>1 DEF Inserted
<1>5. \A k \in DOMAIN r : k < i => r[k] = l[k] /\ k \in DOMAIN l
  BY <1>1 DEF Inserted
<1>6. \A k \in DOMAIN r \cup DOMAIN l : k < i \/ k = i \/ k > i
  BY <1>1
<1>7. ASSUME NEW k \in DOMAIN l PROVE l[k] \in Range(r)
  BY <1>1, <1>2, <1>3, <1>6 DEF Range
<1>8. ASSUME NEW k \in DOMAIN r PROVE r[k] \in Range(l) \cup {e}
  BY <1>1, <1>4, <1>5, <1>6, Zenon DEF Range
<1>9. Range(r) = Range(l) \cup {e}
  <2>1. e \in Range(r)
    BY <1>1, Zenon DEF Range
  <2> QED BY <1>7, <1>8, <2>1, Zenon DEF Range
<1>10. ASSUME IsInjective(l), e \notin Range(l),
              NEW a \in DOMAIN r, NEW b \in DOMAIN r, r[a] = r[b]
       PROVE  a = b
  <2>1. CASE a < i
    <3>1. a \in DOMAIN l /\ r[a] = l[a] /\ r[a] # e
      BY <1>5, <1>10, <2>1, Zenon DEF Range
    <3>2. CASE b < i
      BY <1>5, <1>10, <3>1, <3>2, ZenonT(30) DEF IsInjective
    <3>3. CASE b = i
      BY <1>1, <1>10, <3>1, <3>3, ZenonT(30)
    <3>4. CASE b > i
      <4>1. a = b - 1
        BY <1>4, <1>10, <3>1, <3>4, ZenonT(30) DEF IsInjective
      <4> QED BY <1>1, <2>1, <3>4, <4>1
    <3> QED BY <1>6, <3>2, <3>3, <3>4, Zenon
  <2>2. CASE a = i
    <3>1. b = i \/ r[b] \in Range(l)
      BY <1>4, <1>5, <1>6, Zenon DEF Range
    <3> QED BY <1>1, <1>10, <2>2, <3>1, Zenon
  <2>3. CASE a > i
    <3>1. a - 1 \in DOMAIN l /\ r[a] = l[a - 1] /\ r[a] # e
      BY <1>4, <1>10, <2>3, Zenon DEF Range
    <3>2. CASE b < i
      <4>1. b = a - 1
        BY <1>5, <1>10, <3>1, <3>2, ZenonT(30) DEF IsInjective
      <4> QED BY <1>1, <2>3, <3>2, <4>1
    <3>3. CASE b = i
      BY <1>1, <1>10, <3>1, <3>3, ZenonT(30)
    <3>4. CASE b > i
      <4>1. a - 1 = b - 1
        BY <1>4, <1>10, <3>1, <3>4, ZenonT(30) DEF IsInjective
      <4> QED BY <1>1, <4>1
    <3> QED BY <1>6, <3>2, <3>3, <3>4, Zenon
  <2> QED BY <1>6, <2>1, <2>2, <2>3, Zenon
<1> QED BY <1>9, <1>10, Zenon DEF IsInjective

(* An insertion after the elements with larger keys and before those with   *)
(* smaller ones keeps a sequence sorted.                                    *)
LEMMA InsertedSorted ==
  ASSUME NEW S, NEW l \in Seq(S), NEW r \in Seq(S), NEW e \in S, NEW i,
         NEW key, \A x \in S : key[x] \in Int,
         Inserted(r, l, i, e), Sorted(l, key),
         \A j \in 1..i - 1 : key[l[j]] >= key[e],
         i <= Len(l) => key[e] >= key[l[i]]
  PROVE  Sorted(r, key)
<1>1. /\ \A j \in 1..Len(l) : key[l[j]] \in Int
      /\ key[e] \in Int
      /\ Len(l) \in Nat /\ i \in Int /\ i \in 1..Len(l) + 1
  BY DEF Inserted
<1>2. \A j \in 1..Len(l) : j >= i => key[e] >= key[l[j]]
  <2> SUFFICES ASSUME NEW j \in 1..Len(l), j >= i PROVE key[e] >= key[l[j]]
    BY Zenon
  <2>1. i \in 1..Len(l) /\ key[e] >= key[l[i]]
    BY <1>1
  <2>2. i = j \/ key[l[i]] >= key[l[j]]
    BY <1>1, <2>1 DEF Sorted
  <2> QED BY <1>1, <2>1, <2>2
<1>3. \A j \in 1..Len(l) + 1 :
        \/ j < i /\ j \in 1..Len(l) /\ r[j] = l[j]
        \/ j = i /\ r[j] = e
        \/ j > i /\ j - 1 \in 1..Len(l) /\ r[j] = l[j - 1]
  BY <1>1 DEF Inserted
<1>4. ASSUME NEW a \in 1..Len(l), NEW b \in 1..Len(l), a <= b
      PROVE  key[l[a]] >= key[l[b]]
  <2>1. CASE a = b
    BY <1>1, <2>1
  <2>2. CASE a < b
    BY <2>2 DEF Sorted
  <2> QED BY <1>4, <2>1, <2>2
<1> SUFFICES ASSUME NEW a \in 1..Len(l) + 1, NEW b \in 1..Len(l) + 1, a < b
             PROVE  key[r[a]] >= key[r[b]]
  BY DEF Sorted, Inserted
<1>5. CASE b < i
  BY <1>1, <1>3, <1>4, <1>5, SMTT(40)
<1>6. CASE b = i
  <2>1. a \in 1..i - 1 /\ r[a] = l[a] /\ r[b] = e
    BY <1>1, <1>3, <1>6
  <2> QED BY <2>1, Zenon
<1>7. CASE b > i
  <2>1. b - 1 \in 1..Len(l) /\ r[b] = l[b - 1] /\ b - 1 >= i /\ a <= b - 1
    BY <1>1, <1>3, <1>7
  <2>2. CASE a < i
    <3>1. a \in 1..Len(l) /\ r[a] = l[a]
      BY <1>1, <1>3, <2>2
    <3> QED BY <1>4, <2>1, <3>1, Zenon
  <2>3. CASE a = i
    BY <1>2, <1>3, <2>1, <2>3
  <2>4. CASE a > i
    <3>1. a - 1 \in 1..Len(l) /\ r[a] = l[a - 1] /\ a - 1 <= b - 1
      BY <1>1, <1>3, <2>1, <2>4
    <3> QED BY <1>4, <2>1, <3>1, Zenon
  <2> QED BY <1>1, <2>2, <2>3, <2>4
<1> QED BY <1>1, <1>5, <1>6, <1>7

(* The position that list_insert_ordered finds is the first one whose       *)
(* element's key is less than E's.                                          *)
LEMMA FirstLess ==
  ASSUME Laws, NEW S, NEW l \in Seq(S), NEW e \in S, NEW key, \A x \in S : key[x] \in Int,
         NEW I \in SUBSET (1..Len(l)),
         \A k \in 1..Len(l) : k \in I <=> key[e] > key[l[k]],
         NEW r, I = {} => r = Append(l, e), I # {} => r = InsertedBefore(l, Min(I), e)
  PROVE  /\ r \in Seq(S)
         /\ \E i \in 1..Len(l) + 1 : Inserted(r, l, i, e)
         /\ Sorted(l, key) => Sorted(r, key)
<1>1. CASE I = {}
  <2>1. r = Append(l, e)
    BY <1>1, Zenon
  <2>2. \A j \in 1..Len(l) : key[l[j]] \in Int /\ key[e] \in Int
    OBVIOUS
  <2>3. PICK i : i = Len(l) + 1
    BY Zenon
  <2>4. r \in Seq(S) /\ Inserted(r, l, i, e)
    BY <2>1, <2>3, AppendInserts, Zenon
  <2>5. i \in 1..Len(l) + 1 /\ i - 1 = Len(l)
    BY <2>3
  <2>8. i <= Len(l) => key[e] >= key[l[i]]
    BY <2>3
  <2>6. \A j \in 1..i - 1 : key[l[j]] >= key[e]
    BY <1>1, <2>2, <2>5
  <2>7. ASSUME Sorted(l, key) PROVE Sorted(r, key)
    <3>1. \A x \in S : key[x] \in Int
      BY Zenon
    <3>2. r \in Seq(S) /\ Inserted(r, l, i, e)
      BY <2>4, Zenon
    <3> QED BY <2>6, <2>7, <2>8, <3>1, <3>2, InsertedSorted, Zenon
  <2> QED BY <2>4, <2>5, <2>7, Zenon
<1>2. CASE I # {}
  <2> DEFINE m == Min(I)
  <2>1. m \in I /\ \A y \in I : m <= y
    <3>1. I \in SUBSET Nat
      OBVIOUS
    <3> QED BY <1>2, <3>1, Zenon DEF Laws, LeastNat
  <2>2. r = InsertedBefore(l, m, e)
    BY <1>2, Zenon
  <2> HIDE DEF m
  <2>3. m \in 1..Len(l) /\ key[e] >= key[l[m]]
    <3>1. m \in 1..Len(l) /\ key[e] > key[l[m]]
      BY <2>1, Zenon
    <3>2. l[m] \in S
      BY <3>1
    <3> QED BY <3>1, <3>2
  <2>4. ASSUME NEW j \in 1..m - 1 PROVE key[l[j]] >= key[e]
    <3>1. j \in 1..Len(l) /\ ~ (m <= j)
      BY <2>3
    <3>2. j \notin I /\ key[l[j]] \in Int /\ key[e] \in Int
      BY <2>1, <3>1
    <3> QED BY <3>1, <3>2
  <2>5. r \in Seq(S) /\ Inserted(r, l, m, e) /\ m \in 1..Len(l) + 1
    <3>1. InsertedBefore(l, m, e) \in Seq(S) /\ Inserted(InsertedBefore(l, m, e), l, m, e)
      BY <2>3, BeforeInserts, Zenon
    <3>2. r \in Seq(S) /\ Inserted(r, l, m, e)
      BY <2>2, <3>1, Zenon
    <3>3. m \in 1..Len(l) + 1
      BY <2>3
    <3> QED BY <3>2, <3>3, Zenon
  <2>6. ASSUME Sorted(l, key) PROVE Sorted(r, key)
    <3>1. \A j \in 1..m - 1 : key[l[j]] >= key[e]
      BY <2>4, Zenon
    <3>2. m <= Len(l) => key[e] >= key[l[m]]
      BY <2>3, Zenon
    <3>3. \A x \in S : key[x] \in Int
      BY Zenon
    <3> QED BY <2>5, <2>6, <3>1, <3>2, <3>3, InsertedSorted, Zenon
  <2> QED BY <2>5, <2>6, Zenon
<1> QED BY <1>1, <1>2, Zenon

(* What is left of a run queue when its head is taken off.                  *)
LEMMA TailFacts ==
  ASSUME NEW S, NEW l \in Seq(S), l # <<>>
  PROVE  /\ Head(l) \in S /\ Tail(l) \in Seq(S)
         /\ Range(l) = Range(Tail(l)) \cup {Head(l)}
         /\ IsInjective(l) => IsInjective(Tail(l)) /\ Head(l) \notin Range(Tail(l))
<1>1. /\ Head(l) = l[1] /\ Head(l) \in S /\ Tail(l) \in Seq(S)
      /\ DOMAIN l = 1..Len(l) /\ DOMAIN Tail(l) = 1..Len(l) - 1
      /\ 1 \in DOMAIN l /\ Len(l) \in Nat
  OBVIOUS
<1>2. \A k \in DOMAIN Tail(l) : k + 1 \in DOMAIN l /\ Tail(l)[k] = l[k + 1]
  OBVIOUS
<1>3. \A k \in DOMAIN l : k = 1 \/ (k - 1 \in DOMAIN Tail(l) /\ Tail(l)[k - 1] = l[k])
  BY <1>1
<1>4. Range(l) = Range(Tail(l)) \cup {Head(l)}
  <2>1. \A k \in DOMAIN l : l[k] \in Range(Tail(l)) \cup {Head(l)}
    BY <1>1, <1>3, ZenonT(30) DEF Range
  <2>2. \A k \in DOMAIN Tail(l) : Tail(l)[k] \in Range(l)
    BY <1>2, Zenon DEF Range
  <2>3. Head(l) \in Range(l)
    BY <1>1, Zenon DEF Range
  <2> QED BY <2>1, <2>2, <2>3, Zenon DEF Range
<1>5. ASSUME IsInjective(l)
      PROVE  IsInjective(Tail(l)) /\ Head(l) \notin Range(Tail(l))
  <2>1. \A a, b \in DOMAIN Tail(l) : Tail(l)[a] = Tail(l)[b] => a = b
    <3> SUFFICES ASSUME NEW a \in DOMAIN Tail(l), NEW b \in DOMAIN Tail(l),
                        Tail(l)[a] = Tail(l)[b]
                 PROVE  a = b
      BY Zenon
    <3>1. a + 1 = b + 1
      BY <1>2, <1>5, Zenon DEF IsInjective
    <3> QED BY <1>1, <3>1
  <2>2. \A a \in DOMAIN Tail(l) : Tail(l)[a] # l[1]
    <3> SUFFICES ASSUME NEW a \in DOMAIN Tail(l), Tail(l)[a] = l[1] PROVE FALSE
      BY Zenon
    <3>1. a + 1 = 1
      BY <1>1, <1>2, <1>5, Zenon DEF IsInjective
    <3> QED BY <1>1, <3>1
  <2> QED BY <1>1, <2>1, <2>2, Zenon DEF IsInjective, Range
<1> QED BY <1>1, <1>4, <1>5, Zenon

(* A list that grows at the back.                                           *)
LEMMA AppendFacts ==
  ASSUME NEW S, NEW l \in Seq(S), NEW e \in S
  PROVE  /\ Append(l, e) \in Seq(S)
         /\ Range(Append(l, e)) = Range(l) \cup {e}
         /\ IsInjective(l) /\ e \notin Range(l) => IsInjective(Append(l, e))
<1>1. Append(l, e) \in Seq(S) /\ Inserted(Append(l, e), l, Len(l) + 1, e)
  BY AppendInserts, Zenon
<1>2. /\ Range(Append(l, e)) = Range(l) \cup {e}
      /\ IsInjective(l) /\ e \notin Range(l) => IsInjective(Append(l, e))
  <2>1. PICK r, i : r = Append(l, e) /\ i = Len(l) + 1
    BY Zenon
  <2>2. r \in Seq(S) /\ Inserted(r, l, i, e)
    BY <1>1, <2>1, Zenon
  <2>3. Range(r) = Range(l) \cup {e} /\ (IsInjective(l) /\ e \notin Range(l) => IsInjective(r))
    BY <2>2, InsertedRange, Zenon
  <2> QED BY <2>1, <2>3, Zenon
<1> QED BY <1>1, <1>2, Zenon

(* What is left of a list when list_remove takes one element off.           *)
LEMMA WithoutFacts ==
  ASSUME NEW S, NEW l \in Seq(S), NEW i \in 1..Len(l), IsInjective(l)
  PROVE  /\ l[i] \in Range(l) /\ l[i] \in S
         /\ Without(l, i) \in Seq(S)
         /\ Range(Without(l, i)) = Range(l) \ {l[i]}
         /\ IsInjective(Without(l, i))
<1> DEFINE a == SubSeq(l, 1, i - 1)
           b == SubSeq(l, i + 1, Len(l))
           r == a \o b
           from(k) == IF k < i THEN k ELSE k + 1
<1>1. /\ a \in Seq(S) /\ Len(a) = i - 1 /\ \A j \in 1..i - 1 : a[j] = l[j]
      /\ Len(l) \in Nat /\ DOMAIN l = 1..Len(l)
  OBVIOUS
<1>2. /\ b \in Seq(S) /\ Len(b) = Len(l) - i
      /\ \A j \in 1..Len(b) : b[j] = l[i + j]
  OBVIOUS
<1> HIDE DEF a, b
<1>3. r \in Seq(S) /\ DOMAIN r = 1..Len(l) - 1
  <2>1. r \in Seq(S) /\ Len(r) = Len(a) + Len(b)
    <3>1. a \in Seq(S) /\ b \in Seq(S)
      BY <1>1, <1>2, Zenon
    <3> QED BY <3>1
  <2>2. Len(a) + Len(b) = Len(l) - 1
    BY <1>1, <1>2
  <2> QED BY <2>1, <2>2
<1>4. \A k \in DOMAIN r : from(k) \in DOMAIN l /\ from(k) # i /\ r[k] = l[from(k)]
  <2> SUFFICES ASSUME NEW k \in 1..Len(l) - 1
               PROVE  from(k) \in DOMAIN l /\ from(k) # i /\ r[k] = l[from(k)]
    BY <1>3, Zenon
  <2>1. CASE k < i
    BY <1>1, <1>2, <2>1
  <2>2. CASE ~ (k < i)
    <3>1. k - (i - 1) \in 1..Len(b) /\ i + (k - (i - 1)) = k + 1 /\ k > Len(a)
      BY <1>1, <1>2, <2>2
    <3>2. r[k] = b[k - (i - 1)]
      BY <1>1, <1>2, <3>1
    <3>3. b[k - (i - 1)] = l[k + 1]
      BY <1>2, <3>1
    <3> QED BY <1>1, <2>2, <3>2, <3>3
  <2> QED BY <2>1, <2>2, Zenon
<1>5. \A j \in DOMAIN l : j # i => \E k \in DOMAIN r : from(k) = j
  <2> SUFFICES ASSUME NEW j \in 1..Len(l), j # i PROVE \E k \in 1..Len(l) - 1 : from(k) = j
    BY <1>1, <1>3, Zenon
  <2>1. CASE j < i
    <3>1. j \in 1..Len(l) - 1 /\ from(j) = j
      BY <1>1, <2>1
    <3> QED BY <3>1, Zenon
  <2>2. CASE j > i
    <3>1. j - 1 \in 1..Len(l) - 1 /\ from(j - 1) = j
      BY <1>1, <2>2
    <3> QED BY <3>1, Zenon
  <2> QED BY <1>1, <2>1, <2>2
<1>6. \A j, k \in DOMAIN r : from(j) = from(k) => j = k
  BY <1>3
<1>7. Without(l, i) = r
  BY Zenon DEF Without, a, b
<1> HIDE DEF from, r
<1>8. IsInjective(r)
  BY <1>4, <1>6, Zenon DEF IsInjective
<1>9. i \in DOMAIN l /\ l[i] \in S
  BY <1>1
<1>10. \A j \in DOMAIN l : j # i => l[j] # l[i]
  BY <1>9, Zenon DEF IsInjective
<1>11. \A x : x \in Range(r) <=> x \in Range(l) /\ x # l[i]
  <2>1. \A k \in DOMAIN r : r[k] \in Range(l) /\ r[k] # l[i]
    BY <1>4, <1>10, Zenon DEF Range
  <2>2. \A j \in DOMAIN l : j # i => l[j] \in Range(r)
    BY <1>4, <1>5, Zenon DEF Range
  <2> QED BY <2>1, <2>2, Zenon DEF Range
<1> QED BY <1>3, <1>7, <1>8, <1>9, <1>11, Zenon DEF Range

(* list_min over a list of keys up to N finds a position of the list.       *)
LEMMA ListMinFound ==
  ASSUME Laws, NEW N \in Nat, NEW D, D \in SUBSET Nat, D # {}, NEW key,
         \A j \in D : key[j] \in 0..N
  PROVE  list_min([j \in D |-> {k \in D : key[k] > key[j]}]) \in D
<1> DEFINE K == {key[j] : j \in D}
           f == [j \in D |-> {k \in D : key[k] > key[j]}]
           M == {i \in D : f[i] = {}}
<1>1. K \in SUBSET (0..N) /\ K # {}
  BY Zenon
<1>2. PICK x \in D : \A y \in D : key[x] >= key[y]
  BY <1>1, Zenon DEF Laws, GreatestNat
<1>3. f[x] = {}
  <2>1. ~ \E k \in D : key[k] > key[x]
    BY <1>2
  <2> QED BY <2>1, Zenon
<1>4. M \in SUBSET Nat /\ M # {}
  BY <1>3, Zenon
<1>5. Min(M) \in M
  BY <1>4, Zenon DEF Laws, LeastNat
<1>6. list_min(f) = Min(M)
  BY Zenon DEF list_min
<1> QED BY <1>5, <1>6, Zenon

(* ReadyInsert keeps a run queue free of duplicates and sorted.             *)
LEMMA ReadyInsertFacts ==
  ASSUME Laws, NEW l \in Seq(Thread), NEW t \in Thread, NEW pri \in [AllThread -> Int]
  PROVE  /\ ReadyInsert(l, t, pri) \in Seq(Thread)
         /\ Range(ReadyInsert(l, t, pri)) = Range(l) \cup {t}
         /\ IsInjective(l) /\ t \notin Range(l) => IsInjective(ReadyInsert(l, t, pri))
         /\ Sorted(l, pri) => Sorted(ReadyInsert(l, t, pri), pri)
<1> DEFINE r == ReadyInsert(l, t, pri)
           I == {k \in 1..Len(l) : pri[t] > pri[l[k]]}
<1>1. r = IF I = {} THEN Append(l, t) ELSE InsertedBefore(l, Min(I), t)
  <2>1. I = {k \in DOMAIN l : pri[t] > pri[l[k]]}
    OBVIOUS
  <2>2. r = list_insert_ordered(l, t, {k \in DOMAIN l : pri[t] > pri[l[k]]})
    BY Zenon DEF ReadyInsert
  <2> HIDE DEF r, I
  <2> QED BY <2>1, <2>2, Zenon DEF list_insert_ordered
<1>2. \A x \in Thread : pri[x] \in Int
  BY Zenon DEF AllThread
<1> HIDE DEF r
<1>5. I \in SUBSET (1..Len(l)) /\ \A k \in 1..Len(l) : k \in I <=> pri[t] > pri[l[k]]
  BY Zenon
<1> HIDE DEF I
<1>6. (I = {} => r = Append(l, t)) /\ (I # {} => r = InsertedBefore(l, Min(I), t))
  BY <1>1, Zenon
<1>3. /\ r \in Seq(Thread)
      /\ \E i \in 1..Len(l) + 1 : Inserted(r, l, i, t)
      /\ Sorted(l, pri) => Sorted(r, pri)
  BY <1>2, <1>5, <1>6, FirstLess, ZenonT(30)
<1>4. Range(r) = Range(l) \cup {t} /\ (IsInjective(l) /\ t \notin Range(l) => IsInjective(r))
  BY <1>3, InsertedRange, Zenon
<1> QED BY <1>3, <1>4, Zenon DEF r

(* timer_sleep's insertion adds the sleeper, once, and keeps sleep_list      *)
(* sorted.                                                                  *)
LEMMA SleepInsertFacts ==
  ASSUME Laws, NEW l \in Seq(Sleeper), NEW e \in Sleeper
  PROVE  /\ SleepInsert(l, e) \in Seq(Sleeper)
         /\ \E i \in 1..Len(l) + 1 : Inserted(SleepInsert(l, e), l, i, e)
         /\ EarliestFirst(l) => EarliestFirst(SleepInsert(l, e))
<1> DEFINE r == SleepInsert(l, e)
           I == {k \in 1..Len(l) : e.left < l[k].left}
           key == [s \in Sleeper |-> - s.left]
<1>1. (I = {} => r = Append(l, e)) /\ (I # {} => r = InsertedBefore(l, Min(I), e))
  <2>1. I = {k \in DOMAIN l : time_less(e, l[k])}
    BY DEF time_less
  <2>2. r = list_insert_ordered(l, e, {k \in DOMAIN l : time_less(e, l[k])})
    BY Zenon DEF SleepInsert
  <2> HIDE DEF r, I
  <2> QED BY <2>1, <2>2, Zenon DEF list_insert_ordered
<1>2. \A x \in Sleeper : key[x] \in Int /\ key[x] = - x.left /\ x.left \in Int
  BY DEF Sleeper
<1> HIDE DEF r, key
<1>3. I \in SUBSET (1..Len(l)) /\ \A k \in 1..Len(l) : k \in I <=> key[e] > key[l[k]]
  <2>1. \A k \in 1..Len(l) : l[k] \in Sleeper
    OBVIOUS
  <2> QED BY <1>2, <2>1
<1> HIDE DEF I
<1>4. \A x \in Sleeper : key[x] \in Int
  BY <1>2, Zenon
<1>5. /\ r \in Seq(Sleeper)
      /\ \E i \in 1..Len(l) + 1 : Inserted(r, l, i, e)
      /\ Sorted(l, key) => Sorted(r, key)
  BY <1>1, <1>3, <1>4, FirstLess, ZenonT(30)
<1>6. ASSUME NEW s \in Seq(Sleeper) PROVE Sorted(s, key) <=> EarliestFirst(s)
  <2>1. \A k \in DOMAIN s : s[k] \in Sleeper
    OBVIOUS
  <2>2. \A i, j \in DOMAIN s : key[s[i]] >= key[s[j]] <=> s[i].left <= s[j].left
    BY <1>2, <2>1
  <2> QED BY <2>2, Zenon DEF Sorted, EarliestFirst
<1>7. EarliestFirst(l) => EarliestFirst(r)
  BY <1>5, <1>6, Zenon
<1> QED BY <1>5, <1>7, Zenon DEF r

(* The fields of an entry of sleep_list.                                    *)
LEMMA SleeperType ==
  ASSUME NEW l \in Seq(Sleeper), NEW i \in DOMAIN l
  PROVE  l[i] \in Sleeper /\ l[i].t \in Thread /\ l[i].left \in Int
<1>1. l[i] \in Sleeper
  OBVIOUS
<1> QED BY <1>1, Zenon DEF Sleeper

(* Inserting a sleeper that is not there yet keeps the sleepers distinct.   *)
LEMMA InsertedSleepers ==
  ASSUME NEW l \in Seq(Sleeper), NEW r \in Seq(Sleeper), NEW e \in Sleeper, NEW i,
         Inserted(r, l, i, e),
         \A a, b \in DOMAIN l : l[a].t = l[b].t => a = b,
         \A a \in DOMAIN l : l[a].t # e.t
  PROVE  /\ \A a, b \in DOMAIN r : r[a].t = r[b].t => a = b
         /\ \A a \in DOMAIN r : r[a] = e \/ \E k \in DOMAIN l : r[a] = l[k]
<1>1. /\ DOMAIN l = 1..Len(l) /\ DOMAIN r = 1..Len(l) + 1
      /\ Len(l) \in Nat /\ i \in 1..Len(l) + 1
  BY DEF Inserted
<1> DEFINE from(k) == IF k < i THEN k ELSE k - 1
<1>2. \A k \in DOMAIN r : k = i \/ (from(k) \in DOMAIN l /\ r[k] = l[from(k)])
  BY <1>1 DEF Inserted
<1>3. \A a, b \in DOMAIN r : a # i /\ b # i /\ from(a) = from(b) => a = b
  BY <1>1
<1>4. r[i] = e
  BY Zenon DEF Inserted
<1> HIDE DEF from
<1>5. ASSUME NEW a \in DOMAIN r, NEW b \in DOMAIN r, r[a].t = r[b].t PROVE a = b
  <2>1. CASE a = i
    BY <1>2, <1>4, <1>5, <2>1, Zenon
  <2>2. CASE b = i
    BY <1>2, <1>4, <1>5, <2>2, Zenon
  <2>3. CASE a # i /\ b # i
    <3>1. from(a) = from(b)
      BY <1>2, <1>5, <2>3
    <3> QED BY <1>3, <2>3, <3>1, Zenon
  <2> QED BY <2>1, <2>2, <2>3, Zenon
<1> QED BY <1>2, <1>4, <1>5, Zenon

(* The head of a sorted run queue has the highest priority.                 *)
LEMMA TailSorted ==
  ASSUME NEW l \in Seq(Thread), NEW pri \in [AllThread -> Int], l # <<>>, Sorted(l, pri)
  PROVE  Sorted(Tail(l), pri) /\ \A t \in Range(Tail(l)) : pri[t] <= pri[Head(l)]
<1>1. /\ Head(l) = l[1] /\ DOMAIN l = 1..Len(l) /\ DOMAIN Tail(l) = 1..Len(l) - 1
      /\ 1 \in DOMAIN l /\ Len(l) \in Nat
  OBVIOUS
<1>2. \A k \in DOMAIN Tail(l) : k + 1 \in DOMAIN l /\ Tail(l)[k] = l[k + 1]
  OBVIOUS
<1>3. Sorted(Tail(l), pri)
  BY <1>1, <1>2 DEF Sorted
<1>4. ASSUME NEW k \in DOMAIN Tail(l) PROVE pri[Tail(l)[k]] <= pri[l[1]]
  <2>1. k + 1 \in DOMAIN l /\ 1 < k + 1
    BY <1>1, <1>2
  <2>2. pri[l[1]] >= pri[l[k + 1]]
    BY <1>1, <2>1, Zenon DEF Sorted
  <2>3. pri[l[1]] \in Int /\ pri[l[k + 1]] \in Int
    BY <1>1, <2>1 DEF AllThread
  <2> QED BY <1>2, <2>2, <2>3, Zenon
<1> QED BY <1>1, <1>3, <1>4, Zenon DEF Range
-----------------------------------------------------------------------------
(* Context switches.                                                       *)

(* A switch from a run queue that holds the ready threads, sorted, leaves   *)
(* one that does, and puts a thread of the highest priority on the CPU.     *)
LEMMA ScheduleFacts ==
  ASSUME NEW rl \in Seq(Thread), NEW st \in [AllThread -> Status],
         IsInjective(rl), Range(rl) = {t \in Thread : st[t] = "READY"},
         \A t \in AllThread : st[t] # "RUNNING",
         schedule(rl, st)
  PROVE  /\ running' \in AllThread /\ status' \in [AllThread -> Status]
         /\ ready_list' \in Seq(Thread) /\ thread_ticks' = 0
         /\ RunQueueConsistent'
         /\ \A t \in AllThread : t # running' => status'[t] = st[t]
         /\ running' = Idle \/ st[running'] = "READY"
         /\ \A pri \in [AllThread -> Int] : Sorted(rl, pri) =>
               /\ Sorted(ready_list', pri)
               /\ \A t \in Range(ready_list') : pri[t] <= pri[running']
<1>1. CASE rl = <<>>
  <2>1. /\ running' = Idle /\ ready_list' = <<>> /\ thread_ticks' = 0
        /\ status' = [st EXCEPT ![Idle] = "RUNNING"]
    BY <1>1, Zenon DEF schedule, next_thread_to_run, RestOfQueue
  <2>2. DOMAIN rl = {} /\ Range(rl) = {}
    BY <1>1 DEF Range
  <2>3. \A t \in Thread : st[t] # "READY" /\ status'[t] = st[t] /\ t # Idle
    BY <2>1, <2>2, ThreadsAssumption, Zenon DEF AllThread
  <2>4. status' \in [AllThread -> Status] /\ status'[Idle] = "RUNNING"
    BY <2>1, Zenon DEF AllThread, Status
  <2>5. RunQueueConsistent'
    BY <1>1, <2>1, <2>2, <2>3, <2>4, Zenon DEF RunQueueConsistent, AllThread
  <2>6. \A pri : Sorted(ready_list', pri) /\ \A t \in Range(ready_list') : FALSE
    BY <1>1, <2>1, <2>2, Zenon DEF Sorted
  <2>7. Idle \in AllThread
    BY Zenon DEF AllThread
  <2> QED BY <1>1, <2>1, <2>4, <2>5, <2>6, <2>7, Zenon
<1>2. CASE rl # <<>>
  <2>1. /\ running' = Head(rl) /\ ready_list' = Tail(rl) /\ thread_ticks' = 0
        /\ status' = [st EXCEPT ![Head(rl)] = "RUNNING"]
    BY <1>2, Zenon DEF schedule, next_thread_to_run, RestOfQueue
  <2>2. /\ Head(rl) \in Thread /\ Tail(rl) \in Seq(Thread)
        /\ Range(rl) = Range(Tail(rl)) \cup {Head(rl)}
        /\ IsInjective(Tail(rl)) /\ Head(rl) \notin Range(Tail(rl))
    BY <1>2, TailFacts, Zenon
  <2>3. /\ status' \in [AllThread -> Status] /\ Head(rl) \in AllThread
        /\ status'[Head(rl)] = "RUNNING"
        /\ \A t \in AllThread : t # Head(rl) => status'[t] = st[t]
    BY <2>1, <2>2, Zenon DEF AllThread, Status
  <2>4. Range(Tail(rl)) = {t \in Thread : status'[t] = "READY"}
    BY <2>2, <2>3, Zenon DEF AllThread
  <2>5. RunQueueConsistent'
    BY <2>1, <2>2, <2>3, <2>4, Zenon DEF RunQueueConsistent
  <2>6. ASSUME NEW pri \in [AllThread -> Int], Sorted(rl, pri)
        PROVE  /\ Sorted(ready_list', pri)
               /\ \A t \in Range(ready_list') : pri[t] <= pri[running']
    BY <1>2, <2>1, <2>6, TailSorted, Zenon
  <2>7. st[Head(rl)] = "READY"
    BY <2>2, Zenon
  <2> QED BY <2>1, <2>2, <2>3, <2>5, <2>6, <2>7, Zenon
<1> QED BY <1>1, <1>2, Zenon

(* The same for thread_yield, which queues the running thread first.        *)
LEMMA YieldFacts ==
  ASSUME Laws, NEW rl \in Seq(Thread), NEW st \in [AllThread -> Status],
         NEW pri \in [AllThread -> Int], running \in AllThread,
         IsInjective(rl), Range(rl) = {t \in Thread : st[t] = "READY"},
         \A t \in AllThread : st[t] = "RUNNING" <=> t = running,
         thread_yield(rl, st, pri)
  PROVE  /\ running' \in AllThread /\ status' \in [AllThread -> Status]
         /\ ready_list' \in Seq(Thread) /\ thread_ticks' = 0
         /\ RunQueueConsistent'
         /\ \A t \in Thread : st[t] \notin {"RUNNING", "READY"} => status'[t] = st[t]
         /\ Sorted(rl, pri) =>
               /\ Sorted(ready_list', pri)
               /\ \A t \in Range(ready_list') : pri[t] <= pri[running']
<1> DEFINE ql == IF running = Idle THEN rl ELSE ReadyInsert(rl, running, pri)
           qs == [st EXCEPT ![running] = "READY"]
<1>1. schedule(ql, qs)
  BY Zenon DEF thread_yield
<1>2. /\ qs \in [AllThread -> Status] /\ qs[running] = "READY"
      /\ \A t \in AllThread : t # running => qs[t] = st[t]
  BY Zenon DEF Status
<1>3. /\ ql \in Seq(Thread) /\ IsInjective(ql)
      /\ Range(ql) = {t \in Thread : qs[t] = "READY"}
      /\ Sorted(rl, pri) => Sorted(ql, pri)
  <2>1. CASE running = Idle
    <3>1. ql = rl /\ \A t \in Thread : qs[t] = st[t]
      BY <1>2, <2>1, ThreadsAssumption, Zenon DEF AllThread
    <3> QED BY <3>1, Zenon
  <2>2. CASE running # Idle
    <3>1. ql = ReadyInsert(rl, running, pri) /\ running \in Thread
      BY <2>2, Zenon DEF AllThread
    <3>2. running \notin Range(rl)
      BY Zenon
    <3>3. Range(rl) \cup {running} = {t \in Thread : qs[t] = "READY"}
      BY <1>2, <3>1, Zenon DEF AllThread
    <3> QED BY <3>1, <3>2, <3>3, ReadyInsertFacts
  <2> QED BY <2>1, <2>2, Zenon
<1>4. \A t \in AllThread : qs[t] # "RUNNING"
  BY <1>2, Zenon
<1> HIDE DEF ql, qs
<1>5. /\ running' \in AllThread /\ status' \in [AllThread -> Status]
      /\ ready_list' \in Seq(Thread) /\ thread_ticks' = 0
      /\ RunQueueConsistent'
      /\ \A t \in AllThread : t # running' => status'[t] = qs[t]
      /\ running' = Idle \/ qs[running'] = "READY"
      /\ Sorted(ql, pri) =>
               /\ Sorted(ready_list', pri)
               /\ \A t \in Range(ready_list') : pri[t] <= pri[running']
  BY <1>1, <1>2, <1>3, <1>4, ScheduleFacts, Zenon
<1>6. ASSUME NEW t \in Thread, st[t] \notin {"RUNNING", "READY"} PROVE status'[t] = st[t]
  <2>1. t \in AllThread /\ t # running /\ t # Idle /\ qs[t] = st[t]
    BY <1>2, <1>6, ThreadsAssumption, Zenon DEF AllThread
  <2> QED BY <1>5, <1>6, <2>1, Zenon
<1> QED BY <1>3, <1>5, <1>6, Zenon
(* The same for thread_block and thread_exit, which set the running         *)
(* thread's status to S and do not queue it.                                *)
LEMMA BlockFacts ==
  ASSUME ThreadsTypeOK, RunQueueConsistent, NEW s \in Status \ {"RUNNING", "READY"},
         schedule(ready_list, [status EXCEPT ![running] = s])
  PROVE  /\ running' \in AllThread /\ status' \in [AllThread -> Status]
         /\ ready_list' \in Seq(Thread) /\ thread_ticks' = 0
         /\ RunQueueConsistent'
         /\ running # Idle => status'[running] = s
         /\ \A t \in Thread : status[t] \notin {"RUNNING", "READY"} => status'[t] = status[t]
         /\ \A pri \in [AllThread -> Int] : Sorted(ready_list, pri) =>
               /\ Sorted(ready_list', pri)
               /\ \A t \in Range(ready_list') : pri[t] <= pri[running']
<1> DEFINE qs == [status EXCEPT ![running] = s]
<1>1. /\ qs \in [AllThread -> Status] /\ qs[running] = s /\ s # "RUNNING" /\ s # "READY"
      /\ \A t \in AllThread : t # running => qs[t] = status[t]
  BY Zenon DEF ThreadsTypeOK
<1>2. \A t \in AllThread : qs[t] # "RUNNING" /\ (qs[t] = "READY" <=> status[t] = "READY")
  BY <1>1, Zenon DEF RunQueueConsistent
<1>3. Range(ready_list) = {t \in Thread : qs[t] = "READY"}
  BY <1>2, Zenon DEF RunQueueConsistent, AllThread
<1>4. schedule(ready_list, qs)
  BY Zenon
<1> HIDE DEF qs
<1>5. /\ running' \in AllThread /\ status' \in [AllThread -> Status]
      /\ ready_list' \in Seq(Thread) /\ thread_ticks' = 0
      /\ RunQueueConsistent'
      /\ \A t \in AllThread : t # running' => status'[t] = qs[t]
      /\ running' = Idle \/ qs[running'] = "READY"
      /\ \A pri \in [AllThread -> Int] : Sorted(ready_list, pri) =>
               /\ Sorted(ready_list', pri)
               /\ \A t \in Range(ready_list') : pri[t] <= pri[running']
  BY <1>1, <1>2, <1>3, <1>4, ScheduleFacts, ZenonT(30) DEF ThreadsTypeOK, RunQueueConsistent
<1>6. \A t \in AllThread : t # Idle /\ qs[t] # "READY" => status'[t] = qs[t]
  BY <1>5, Zenon
<1>7. running \in AllThread /\ (running # Idle => status'[running] = s)
  BY <1>1, <1>6, Zenon DEF ThreadsTypeOK
<1>8. ASSUME NEW t \in Thread, status[t] \notin {"RUNNING", "READY"}
      PROVE  status'[t] = status[t]
  <2>1. t \in AllThread /\ t # Idle /\ t # running /\ qs[t] = status[t]
    BY <1>1, <1>8, ThreadsAssumption, Zenon DEF AllThread, RunQueueConsistent
  <2> QED BY <1>6, <1>8, <2>1, Zenon
<1> QED BY <1>5, <1>7, <1>8, Zenon

-----------------------------------------------------------------------------
(* The invariant.                                                          *)

(* donate_priority_update without donations: the base priority.             *)
LEMMA NoDonation ==
  ASSUME NEW b \in Int, NEW pri PROVE EffectivePriority(b, {}, pri) = b
<1>1. {b} \cup {pri[d.donor] : d \in {}} = {b}
  BY Zenon
<1> QED BY <1>1 DEF EffectivePriority, Max

(* The state that boot leaves behind satisfies the invariant.               *)
LEMMA InitInv ==
  ASSUME Laws PROVE ThreadsInit => ThreadsInv
<1> SUFFICES ASSUME ThreadsInit PROVE ThreadsInv
  BY Zenon
<1> USE ThreadsAssumption
<1>1. ready_list \in Seq(Thread)
  <2>1. Cardinality(Thread \ {Main}) \in Nat
    BY Zenon DEF Laws, CountSubset, CountType
  <2>2. PICK n \in Nat : ready_list \in [1..n -> Thread]
    BY <2>1, ZenonT(30) DEF ThreadsInit
  <2> QED BY <2>2
<1>2. ThreadsTypeOK
  <2>1. 0 \in 0..TIME_SLICE - 1
    OBVIOUS
  <2>2. sleep_list \in Seq(Sleeper)
    BY DEF ThreadsInit
  <2>3. pc \in [AllThread -> Label] /\ status \in [AllThread -> Status]
    BY Zenon DEF ThreadsInit, Status, Label
  <2> QED BY <1>1, <2>1, <2>2, <2>3, ZenonT(30) DEF ThreadsInit, ThreadsTypeOK, AllThread
<1>3. RunQueueConsistent
  BY Zenon DEF ThreadsInit, RunQueueConsistent, AllThread
<1>4. \A t \in Range(ready_list) : priority[t] <= priority[running]
  BY Zenon DEF ThreadsInit
<1> QED BY <1>2, <1>3, <1>4
        DEF ThreadsInit, ThreadsInv, SleepersBlocked, EarliestFirst

(* thread_yield keeps the invariant when it is called outside the handler,  *)
(* or as its last step, with the priorities it queues by.                   *)
LEMMA YieldInv ==
  ASSUME Laws, ThreadsInv, thread_yield(ready_list, status, priority'),
         priority' \in [AllThread -> Priority], base_priority' \in [AllThread -> Priority],
         \A t \in Range(ready_list) : priority'[t] = priority[t],
         pc' \in [AllThread -> Label],
         in_external_intr' = FALSE, yield_on_return' \in BOOLEAN,
         UNCHANGED <<sleep_list, donate_priority, waiting_lock>>
  PROVE  ThreadsInv'
<1> USE ThreadsAssumption DEF ThreadsInv
<1>1. priority' \in [AllThread -> Int] /\ \A t \in AllThread : priority[t] \in Int
  BY DEF ThreadsTypeOK, Priority, PRI_MIN
<1>2. Sorted(ready_list, priority')
  BY Zenon DEF Sorted, Range
<1>3. /\ running' \in AllThread /\ status' \in [AllThread -> Status]
      /\ ready_list' \in Seq(Thread) /\ thread_ticks' = 0
      /\ RunQueueConsistent'
      /\ \A t \in Thread : status[t] \notin {"RUNNING", "READY"} => status'[t] = status[t]
      /\ Sorted(ready_list', priority')
      /\ \A t \in Range(ready_list') : priority'[t] <= priority'[running']
  <2>1. /\ ready_list \in Seq(Thread) /\ status \in [AllThread -> Status]
        /\ running \in AllThread
        /\ IsInjective(ready_list) /\ Range(ready_list) = {t \in Thread : status[t] = "READY"}
        /\ \A t \in AllThread : status[t] = "RUNNING" <=> t = running
    BY Zenon DEF ThreadsTypeOK, RunQueueConsistent
  <2> HIDE DEF ThreadsInv
  <2> QED BY <1>1, <1>2, <2>1, YieldFacts, ZenonT(30)
<1>4. ThreadsTypeOK'
  <2>1. thread_ticks' \in 0..TIME_SLICE - 1
    BY <1>3
  <2> QED BY <1>3, <2>1, ZenonT(30) DEF ThreadsTypeOK
<1>5. SleepersBlocked'
  <2>1. \A i \in DOMAIN sleep_list : sleep_list[i].t \in Thread
    BY SleeperType, Zenon DEF ThreadsTypeOK
  <2> QED BY <1>3, <2>1, Zenon DEF SleepersBlocked
<1> QED BY <1>3, <1>4, <1>5, Zenon

(* The invariant is inductive.                                              *)
LEMMA NextInv ==
  ASSUME Laws PROVE ThreadsInv /\ [ThreadsNext]_threadVars => ThreadsInv'
<1> SUFFICES ASSUME ThreadsInv, [ThreadsNext]_threadVars PROVE ThreadsInv'
  BY Zenon
<1> USE ThreadsAssumption
<1>0. /\ ThreadsTypeOK /\ RunQueueConsistent /\ SleepersBlocked
      /\ Sorted(ready_list, priority) /\ EarliestFirst(sleep_list)
      /\ donate_priority = [t \in AllThread |-> {}]
      /\ \A t \in AllThread : priority[t] \in Int
  BY DEF ThreadsInv, ThreadsTypeOK, Priority, PRI_MIN
<1>1. CASE Yield
  <2>1. /\ ~ in_external_intr /\ thread_yield(ready_list, status, priority)
        /\ UNCHANGED <<pc, sleep_list, priorityVars, intrVars>>
    BY <1>1, Zenon DEF Yield, AtRun
  <2> QED BY <1>0, <2>1, YieldInv, ZenonT(30) DEF ThreadsTypeOK, priorityVars, intrVars
<1>2. ASSUME NEW p \in Priority, thread_set_priority(p) PROVE ThreadsInv'
  <2>1. /\ ~ in_external_intr /\ running # Idle /\ running \in AllThread
        /\ UNCHANGED <<pc, sleep_list, donate_priority, waiting_lock, intrVars>>
        /\ base_priority' = [base_priority EXCEPT ![running] = p]
    BY <1>0, <1>2, Zenon DEF thread_set_priority, AtRun, ThreadsTypeOK
  <2>2. p \in Int
    BY DEF Priority, PRI_MIN
  <2>3. priority' = [priority EXCEPT ![running] = p]
    BY <1>0, <1>2, <2>1, <2>2, NoDonation, ZenonT(30) DEF thread_set_priority
  <2>4. /\ priority' \in [AllThread -> Priority]
        /\ base_priority' \in [AllThread -> Priority]
        /\ \A t \in Range(ready_list) : priority'[t] = priority[t]
    BY <1>0, <2>1, <2>3 DEF ThreadsTypeOK, RunQueueConsistent
  <2>5. CASE thread_yield(ready_list, status, priority')
    BY <1>0, <2>1, <2>4, <2>5, YieldInv, ZenonT(30) DEF ThreadsTypeOK, intrVars
  <2>6. CASE /\ ~ (ready_list # <<>> /\ priority[Head(ready_list)] > priority'[running])
             /\ UNCHANGED schedVars
    <3>1. Sorted(ready_list', priority')
      BY <1>0, <2>4, <2>6 DEF Sorted, Range, schedVars
    <3>2. \A t \in Range(ready_list) : priority[t] <= priority[Head(ready_list)]
      <4>1. \A i \in DOMAIN ready_list : /\ i \in 1..Len(ready_list) /\ ready_list # <<>>
                                        /\ Head(ready_list) = ready_list[1]
                                        /\ 1 \in DOMAIN ready_list
                                        /\ ready_list[i] \in AllThread
        BY <1>0 DEF ThreadsTypeOK, AllThread
      <4>2. \A i \in DOMAIN ready_list : i = 1 \/ 1 < i
        BY <4>1
      <4> QED BY <1>0, <4>1, <4>2 DEF Sorted, Range
    <3>3. ASSUME NEW t \in Range(ready_list) PROVE priority'[t] <= priority'[running]
      <4>1. /\ ready_list # <<>> /\ t \in AllThread
            /\ Head(ready_list) \in AllThread /\ priority'[running] \in Int
        BY <1>0, <2>1, <2>2, <2>3 DEF ThreadsTypeOK, Range, AllThread
      <4>2. /\ priority[t] <= priority[Head(ready_list)]
            /\ priority[Head(ready_list)] <= priority'[running]
            /\ priority'[t] = priority[t]
        BY <1>0, <2>4, <2>6, <3>2, <4>1
      <4> QED BY <1>0, <4>1, <4>2
    <3>4. ThreadsTypeOK'
      BY <1>0, <2>1, <2>4, <2>6, SMTT(40) DEF ThreadsTypeOK, schedVars, intrVars
    <3>5. RunQueueConsistent' /\ SleepersBlocked' /\ EarliestFirst(sleep_list')
      BY <1>0, <2>1, <2>6, Zenon DEF RunQueueConsistent, SleepersBlocked, schedVars
    <3> QED BY <1>0, <2>1, <2>6, <3>1, <3>3, <3>4, <3>5, Zenon DEF ThreadsInv, schedVars
  <2> QED BY <1>2, <2>5, <2>6, Zenon DEF thread_set_priority
<1>3. ASSUME NEW n \in Naps, timer_sleep(n) PROVE ThreadsInv'
  <2> DEFINE e == [t |-> running, left |-> n]
  <2>1. /\ ~ in_external_intr /\ running # Idle /\ running \in Thread
        /\ UNCHANGED <<pc, priorityVars, intrVars>>
        /\ sleep_list' = SleepInsert(sleep_list, e)
        /\ schedule(ready_list, [status EXCEPT ![running] = "BLOCKED"])
    BY <1>0, <1>3, Zenon DEF timer_sleep, AtRun, ThreadsTypeOK, AllThread, thread_block
  <2>2. e \in Sleeper /\ e.t = running
    BY <2>1, SMTT(40) DEF Sleeper
  <2> HIDE DEF e
  <2>3. /\ sleep_list' \in Seq(Sleeper) /\ EarliestFirst(sleep_list')
        /\ \E i \in 1..Len(sleep_list) + 1 : Inserted(sleep_list', sleep_list, i, e)
    BY <1>0, <2>1, <2>2, SleepInsertFacts, ZenonT(30) DEF ThreadsTypeOK
  <2>4. /\ running' \in AllThread /\ status' \in [AllThread -> Status]
        /\ ready_list' \in Seq(Thread) /\ thread_ticks' = 0
        /\ RunQueueConsistent'
        /\ status'[running] = "BLOCKED"
        /\ \A t \in Thread : status[t] \notin {"RUNNING", "READY"} => status'[t] = status[t]
        /\ Sorted(ready_list', priority')
        /\ \A t \in Range(ready_list') : priority'[t] <= priority'[running']
    <3>1. "BLOCKED" \in Status \ {"RUNNING", "READY"}
      BY Zenon DEF Status
    <3>2. priority' = priority /\ priority \in [AllThread -> Int]
      BY <1>0, <2>1, Zenon DEF priorityVars, ThreadsTypeOK
    <3> QED BY <1>0, <2>1, <3>1, <3>2, BlockFacts, Zenon
  <2>5. SleepersBlocked'
    <3>1. \A k \in DOMAIN sleep_list : /\ sleep_list[k].t \in Thread
                                      /\ sleep_list[k].t # running
                                      /\ status'[sleep_list[k].t] = "BLOCKED"
      <4>1. \A k \in DOMAIN sleep_list : sleep_list[k].t \in Thread
        BY <1>0, SleeperType, Zenon DEF ThreadsTypeOK
      <4> QED BY <1>0, <2>4, <4>1, SMTT(40) DEF SleepersBlocked, RunQueueConsistent, AllThread
    <3>2. PICK i \in 1..Len(sleep_list) + 1 : Inserted(sleep_list', sleep_list, i, e)
      BY <2>3, Zenon
    <3>3. \A a, b \in DOMAIN sleep_list : sleep_list[a].t = sleep_list[b].t => a = b
      BY <1>0, Zenon DEF SleepersBlocked
    <3>4. /\ \A a, b \in DOMAIN sleep_list' : sleep_list'[a].t = sleep_list'[b].t => a = b
          /\ \A a \in DOMAIN sleep_list' :
                sleep_list'[a] = e \/ \E k \in DOMAIN sleep_list : sleep_list'[a] = sleep_list[k]
      <4>1. \A a \in DOMAIN sleep_list : sleep_list[a].t # e.t
        BY <2>2, <3>1, SMTT(40)
      <4>2. sleep_list \in Seq(Sleeper) /\ sleep_list' \in Seq(Sleeper) /\ e \in Sleeper
        BY <1>0, <2>2, <2>3, SMTT(40) DEF ThreadsTypeOK
      <4> QED BY <3>2, <3>3, <4>1, <4>2, InsertedSleepers
    <3> QED BY <2>2, <2>4, <3>1, <3>4, SMTT(40) DEF SleepersBlocked
  <2>6. ThreadsTypeOK'
    BY <1>0, <2>1, <2>3, <2>4, SMTT(40) DEF ThreadsTypeOK, priorityVars, intrVars
  <2> QED BY <1>0, <2>1, <2>3, <2>4, <2>5, <2>6, Zenon DEF ThreadsInv, priorityVars
<1>4. ASSUME NEW s \in Status \ {"RUNNING", "READY"},
             ~ in_external_intr, schedule(ready_list, [status EXCEPT ![running] = s]),
             UNCHANGED <<sleep_list, priorityVars, intrVars>>,
             pc' \in [AllThread -> Label]
      PROVE  ThreadsInv'
  <2>1. priority' = priority /\ priority \in [AllThread -> Int]
    BY <1>0, <1>4, Zenon DEF priorityVars, ThreadsTypeOK
  <2>2. /\ running' \in AllThread /\ status' \in [AllThread -> Status]
        /\ ready_list' \in Seq(Thread) /\ thread_ticks' = 0
        /\ RunQueueConsistent'
        /\ \A t \in Thread : status[t] \notin {"RUNNING", "READY"} => status'[t] = status[t]
        /\ Sorted(ready_list', priority')
        /\ \A t \in Range(ready_list') : priority'[t] <= priority'[running']
    BY <1>0, <1>4, <2>1, BlockFacts, SMTT(40)
  <2>3. SleepersBlocked'
    <3>1. \A i \in DOMAIN sleep_list : sleep_list[i].t \in Thread
      BY <1>0, SleeperType, Zenon DEF ThreadsTypeOK
    <3> QED BY <1>0, <1>4, <2>2, <3>1, ZenonT(30) DEF SleepersBlocked
  <2>4. ThreadsTypeOK'
    BY <1>0, <1>4, <2>2 DEF ThreadsTypeOK, priorityVars, intrVars
  <2> QED BY <1>0, <1>4, <2>2, <2>3, <2>4, SMTT(40) DEF ThreadsInv, priorityVars
<1>5. CASE thread_exit
  <2>1. PICK s \in Status \ {"RUNNING", "READY"} :
             schedule(ready_list, [status EXCEPT ![running] = s])
    BY <1>5, Zenon DEF thread_exit, Status
  <2> QED BY <1>0, <1>4, <1>5, <2>1, ZenonT(30) DEF thread_exit, AtRun, ThreadsTypeOK
<1>6. CASE IdleBlock
  <2>1. "BLOCKED" \in Status \ {"RUNNING", "READY"}
    BY Zenon DEF Status
  <2>2. pc' \in [AllThread -> Label]
    <3>1. pc' = [pc EXCEPT ![Idle] = "hlt"] /\ pc \in [AllThread -> Label]
      BY <1>0, <1>6, Zenon DEF IdleBlock, ThreadsTypeOK
    <3> QED BY <3>1, ZenonT(30) DEF Label
  <2> QED BY <1>4, <1>6, <2>1, <2>2, Zenon DEF IdleBlock, thread_block
<1>7. CASE TimerInterrupt
  <2>1. /\ in_external_intr' = TRUE /\ yield_on_return' = FALSE /\ ~ in_external_intr
        /\ UNCHANGED <<running, status, ready_list, thread_ticks, pc>>
        /\ UNCHANGED <<base_priority, priority, donate_priority, waiting_lock>>
        /\ sleep_list' = [i \in DOMAIN sleep_list |->
                            [sleep_list[i] EXCEPT !.left = @ - 1]]
    BY <1>7, Zenon DEF TimerInterrupt, schedVars, priorityVars
  <2>2. /\ DOMAIN sleep_list = 1..Len(sleep_list) /\ Len(sleep_list) \in Nat
        /\ \A i \in DOMAIN sleep_list : sleep_list[i] \in Sleeper
    BY <1>0 DEF ThreadsTypeOK
  <2>3. /\ DOMAIN sleep_list' = DOMAIN sleep_list
        /\ \A i \in DOMAIN sleep_list : /\ sleep_list'[i] \in Sleeper
                                        /\ sleep_list'[i].t = sleep_list[i].t
                                        /\ sleep_list'[i].left = sleep_list[i].left - 1
                                        /\ sleep_list[i].left \in Int
    BY <2>1, <2>2 DEF Sleeper
  <2>4. sleep_list' \in Seq(Sleeper)
    <3>1. sleep_list' \in [1..Len(sleep_list) -> Sleeper]
      BY <2>1, <2>2, <2>3, ZenonT(30)
    <3> QED BY <2>2, <3>1
  <2>5. EarliestFirst(sleep_list') /\ SleepersBlocked'
    <3>1. EarliestFirst(sleep_list')
      BY <1>0, <2>3 DEF EarliestFirst
    <3>2. \A i, j \in DOMAIN sleep_list' : sleep_list'[i].t = sleep_list'[j].t => i = j
      BY <1>0, <2>3, Zenon DEF SleepersBlocked
    <3>3. \A i \in DOMAIN sleep_list' : status'[sleep_list'[i].t] = "BLOCKED"
      BY <1>0, <2>1, <2>3, ZenonT(30) DEF SleepersBlocked
    <3> QED BY <3>1, <3>2, <3>3, Zenon DEF SleepersBlocked
  <2>6. ThreadsTypeOK' /\ RunQueueConsistent' /\ Sorted(ready_list', priority')
    BY <1>0, <2>1, <2>4, ZenonT(30) DEF ThreadsTypeOK, RunQueueConsistent
  <2> QED BY <2>1, <2>5, <2>6, Zenon DEF ThreadsInv
<1>8. CASE WakeSleeper
  <2> DEFINE t == Head(sleep_list).t
  <2>1. /\ in_external_intr /\ sleep_list # <<>>
        /\ ready_list' = ReadyInsert(ready_list, t, priority)
        /\ status' = [status EXCEPT ![t] = "READY"]
        /\ yield_on_return' = (yield_on_return \/ priority[t] > priority[running])
        /\ sleep_list' = Tail(sleep_list)
        /\ UNCHANGED <<running, thread_ticks, pc, in_external_intr>>
        /\ UNCHANGED <<base_priority, priority, donate_priority, waiting_lock>>
    BY <1>8, ZenonT(30) DEF WakeSleeper, SleeperDue, SleepersLeft, priorityVars
  <2>2. /\ DOMAIN sleep_list = 1..Len(sleep_list) /\ Len(sleep_list) \in Nat
        /\ 1 \in DOMAIN sleep_list /\ Head(sleep_list) = sleep_list[1]
        /\ Tail(sleep_list) \in Seq(Sleeper)
        /\ DOMAIN Tail(sleep_list) = 1..Len(sleep_list) - 1
        /\ \A i \in DOMAIN Tail(sleep_list) : /\ i + 1 \in DOMAIN sleep_list
                                              /\ Tail(sleep_list)[i] = sleep_list[i + 1]
    BY <1>0, <2>1 DEF ThreadsTypeOK
  <2>3. t \in Thread /\ t \in AllThread /\ status[t] = "BLOCKED" /\ t # running
    <3>1. t \in Thread
      BY <1>0, <2>2, SleeperType, Zenon DEF ThreadsTypeOK
    <3> QED BY <1>0, <2>2, <3>1 DEF SleepersBlocked, RunQueueConsistent, AllThread
  <2> HIDE DEF t
  <2>4. /\ status' \in [AllThread -> Status] /\ status'[t] = "READY"
        /\ \A u \in AllThread : u # t => status'[u] = status[u]
    BY <1>0, <2>1, <2>3, Zenon DEF ThreadsTypeOK, Status
  <2>5. t \notin Range(ready_list) /\ priority \in [AllThread -> Int]
    BY <1>0, <2>3, Zenon DEF RunQueueConsistent, ThreadsTypeOK
  <2>6. /\ ready_list' \in Seq(Thread) /\ IsInjective(ready_list')
        /\ Range(ready_list') = Range(ready_list) \cup {t}
        /\ Sorted(ready_list', priority)
    BY <1>0, <2>1, <2>3, <2>5, ReadyInsertFacts, Zenon DEF ThreadsTypeOK,
       RunQueueConsistent
  <2>7. RunQueueConsistent'
    <3>1. Range(ready_list') = {u \in Thread : status'[u] = "READY"}
      BY <1>0, <2>3, <2>4, <2>6, Zenon DEF RunQueueConsistent, AllThread
    <3> QED BY <1>0, <2>1, <2>3, <2>4, <2>6, <3>1, Zenon DEF RunQueueConsistent
  <2>8. SleepersBlocked' /\ EarliestFirst(sleep_list')
    <3>1. EarliestFirst(sleep_list')
      <4>1. \A i, j \in DOMAIN sleep_list' :
               i < j => i + 1 < j + 1 /\ i + 1 \in DOMAIN sleep_list /\ j + 1 \in DOMAIN sleep_list
        BY <2>1, <2>2
      <4>2. \A i \in DOMAIN sleep_list' : sleep_list'[i] = sleep_list[i + 1]
        BY <2>1, <2>2, Zenon
      <4> QED BY <1>0, <4>1, <4>2, Zenon DEF EarliestFirst
    <3>2. ASSUME NEW i \in DOMAIN sleep_list', NEW j \in DOMAIN sleep_list',
                 sleep_list'[i].t = sleep_list'[j].t
          PROVE  i = j
      <4>1. i + 1 = j + 1
        BY <1>0, <2>1, <2>2, <3>2, SMTT(40) DEF SleepersBlocked
      <4> QED BY <2>1, <2>2, <4>1
    <3>3. ASSUME NEW i \in DOMAIN sleep_list' PROVE status'[sleep_list'[i].t] = "BLOCKED"
      <4>1. i + 1 \in DOMAIN sleep_list /\ sleep_list'[i] = sleep_list[i + 1] /\ i + 1 # 1
        BY <2>1, <2>2
      <4>2. sleep_list[i + 1].t # t
        BY <1>0, <2>2, <4>1, SMTT(40) DEF SleepersBlocked, t
      <4>3. sleep_list[i + 1].t \in AllThread
        BY <1>0, <4>1, SleeperType, Zenon DEF ThreadsTypeOK, AllThread
      <4> QED BY <1>0, <2>4, <4>1, <4>2, <4>3, Zenon DEF SleepersBlocked
    <3> QED BY <3>1, <3>2, <3>3, Zenon DEF SleepersBlocked
  <2>9. \/ in_external_intr' /\ yield_on_return'
        \/ \A u \in Range(ready_list') : priority'[u] <= priority'[running']
    <3>1. CASE yield_on_return'
      BY <2>1, <3>1, Zenon
    <3>2. CASE ~ yield_on_return'
      <4>1. ~ yield_on_return /\ ~ (priority[t] > priority[running])
        BY <2>1, <3>2, ZenonT(30)
      <4>2. \A u \in Range(ready_list) : priority[u] <= priority[running]
        BY <4>1, Zenon DEF ThreadsInv
      <4>3. running \in AllThread /\ priority[t] <= priority[running]
        BY <1>0, <2>3, <4>1 DEF ThreadsTypeOK
      <4> QED BY <2>1, <2>6, <4>2, <4>3, Zenon
    <3> QED BY <3>1, <3>2, Zenon
  <2>10. ThreadsTypeOK'
    <3>1. yield_on_return' \in BOOLEAN
      BY <2>1, Zenon
    <3> QED BY <1>0, <2>1, <2>2, <2>4, <2>6, <3>1, ZenonT(30) DEF ThreadsTypeOK
  <2> QED BY <1>0, <2>1, <2>6, <2>7, <2>8, <2>9, <2>10, Zenon DEF ThreadsInv
<1>9. CASE InterruptReturn
  <2>1. /\ in_external_intr' = FALSE /\ yield_on_return' = FALSE
        /\ UNCHANGED <<sleep_list, base_priority, priority, donate_priority, waiting_lock>>
        /\ pc' = IF running = Idle THEN [pc EXCEPT ![Idle] = "loop"] ELSE pc
        /\ pc \in [AllThread -> Label]
    BY <1>0, <1>9, Zenon DEF InterruptReturn, priorityVars, ThreadsTypeOK
  <2>2. pc' \in [AllThread -> Label]
    BY <2>1, ZenonT(30) DEF Label
  <2>3. CASE thread_yield(ready_list, status, priority)
    <3>1. /\ priority' = priority /\ yield_on_return' \in BOOLEAN
          /\ priority' \in [AllThread -> Priority] /\ base_priority' \in [AllThread -> Priority]
      BY <1>0, <2>1, ZenonT(30) DEF ThreadsTypeOK
    <3> QED BY <2>1, <2>2, <2>3, <3>1, YieldInv, ZenonT(30)
  <2>4. CASE /\ ~ (yield_on_return \/ SliceEnds) /\ thread_ticks' = thread_ticks + 1
             /\ UNCHANGED <<running, status, ready_list>>
    <3>1. thread_ticks' \in 0..TIME_SLICE - 1
      BY <1>0, <2>4, SMTT(40) DEF SliceEnds, ThreadsTypeOK
    <3>2. ThreadsTypeOK'
      BY <1>0, <2>1, <2>2, <2>4, <3>1, ZenonT(30) DEF ThreadsTypeOK
    <3>3. RunQueueConsistent' /\ SleepersBlocked'
      BY <1>0, <2>1, <2>4, Zenon DEF RunQueueConsistent, SleepersBlocked
    <3>4. \A u \in Range(ready_list) : priority[u] <= priority[running]
      BY <2>4, SMTT(40) DEF ThreadsInv
    <3> QED BY <1>0, <2>1, <2>4, <3>2, <3>3, <3>4, Zenon DEF ThreadsInv
  <2> QED BY <1>9, <2>3, <2>4, Zenon DEF InterruptReturn
<1>10. CASE UNCHANGED threadVars
  BY <1>10, ZenonT(30) DEF threadVars, schedVars, priorityVars, intrVars, ThreadsInv, ThreadsTypeOK,
     RunQueueConsistent, SleepersBlocked
<1> QED
  BY <1>1, <1>2, <1>3, <1>5, <1>6, <1>7, <1>8, <1>9, <1>10, Zenon DEF ThreadsNext,
     Interrupt
==============================================================================
