-------------------------------- MODULE Stdlib --------------------------------
(***************************************************************************)
(* The algorithms of lib/stdlib.c (heap sort, binary search, atoi) and the *)
(* double-word division of lib/arithmetic.c, for a word of WordBits bits   *)
(* instead of 32.  RC4 of lib/random.c with a state of RandomSize bytes    *)
(* instead of 256.                                                         *)
(***************************************************************************)
EXTENDS Integers, SequencesExt

CONSTANTS WordBits, RandomSize

-----------------------------------------------------------------------------
(* sort and binary_search.  An element is a number.                        *)

do_swap(a, i, j) == [a EXCEPT ![i] = a[j], ![j] = a[i]]
do_compare(a, i, j) == a[i] - a[j]

RECURSIVE heapify(_, _, _), BuildHeap(_, _), SortHeap(_, _), Search(_, _, _, _)

InHeap(i, cnt) == i <= cnt

heapify(a, i, cnt) ==
  LET left == 2 * i
      right == 2 * i + 1
      larger == IF InHeap(left, cnt) /\ do_compare(a, left, i) > 0 THEN left ELSE i
      max == IF InHeap(right, cnt) /\ do_compare(a, right, larger) > 0 THEN right ELSE larger
  IN  IF max = i THEN a ELSE heapify(do_swap(a, i, max), max, cnt)

BuildHeap(a, i) == IF i = 0 THEN a ELSE BuildHeap(heapify(a, i, Len(a)), i - 1)
SortHeap(a, i) == IF i <= 1 THEN a ELSE SortHeap(heapify(do_swap(a, 1, i), 1, i - 1), i - 1)
sort(a) == SortHeap(BuildHeap(a, Len(a) \div 2), Len(a))

(* The part FIRST up to LAST of the array, LAST excluded; 0 is null.        *)
Search(key_, a, first, last) ==
  LET middle == first + (last - first) \div 2
  IN  IF first >= last THEN 0
      ELSE IF key_ < a[middle] THEN Search(key_, a, first, middle)
      ELSE IF key_ > a[middle] THEN Search(key_, a, middle + 1, last)
      ELSE middle
binary_search(key_, a) == Search(key_, a, 1, Len(a) + 1)

-----------------------------------------------------------------------------
(* Machine words.                                                          *)

Word == 2^WordBits
Double == Word * Word
IntMin == -(Word \div 2)
IntMax == Word \div 2 - 1

(* atoi on the characters after the white space: an optional sign, digits,  *)
(* and something else.  The value is kept negative until the end.  The      *)
(* result is paired with whether no step left the range of an int.          *)
atoi(sign, digits) ==
  LET Step(v, d) == v * 10 - d
      values == [n \in 0..Len(digits) |-> FoldLeft(Step, 0, SubSeq(digits, 1, n))]
      value == values[Len(digits)]
      result == IF sign = "-" THEN value ELSE -value
  IN  <<result, \A v \in Range(values) \cup {result} : v \in IntMin..IntMax>>

(* DIVL: the quotient has to fit in a word.                                 *)
Trap == -1
divl(n, d) == IF n \div d < Word THEN n \div d ELSE Trap

RECURSIVE LeadingZeros(_, _)
LeadingZeros(x, step) ==
  IF step = 0 THEN 0
  ELSE IF x < 2^(WordBits - step) THEN step + LeadingZeros(x * 2^step, step \div 2)
  ELSE LeadingZeros(x, step \div 2)
nlz(x) == LeadingZeros(x, WordBits \div 2)

(* Quotient of a large divisor from the quotient of the upper words, which  *)
(* is right or one too large.                                               *)
Corrected_Not(n, d, q) == q
Corrected(n, d, q) == IF (n - (q - 1) * d) % Double < d THEN q - 1 ELSE q

udiv64(n, d) ==
  IF d < Word
  THEN divl(Word * ((n \div Word) % d) + (n % Word), d) + Word * ((n \div Word) \div d)
  ELSE IF n < d THEN 0
  ELSE LET s == nlz(d \div Word)
           q == divl(n \div 2, ((d * 2^s) % Double) \div Word) \div 2^(WordBits - 1 - s)
       IN  Corrected(n, d, q)

(* The remainders are returned in one word.                                 *)
umod64(n, d) == ((n - d * udiv64(n, d)) % Double) % Word

Abs(x) == IF x >= 0 THEN x ELSE -x
sdiv64(n, d) ==
  LET q == udiv64(Abs(n), Abs(d)) IN IF (n < 0) = (d < 0) THEN q ELSE -q
ToInt(x) == ((x + Word \div 2) % Word) - Word \div 2
smod64(n, d) == ToInt(n - d * sdiv64(n, d))

-----------------------------------------------------------------------------
(* RC4: the permutation S and the indexes into it.                         *)

swap_byte(s, i, j) == [s EXCEPT ![i] = s[j], ![j] = s[i]]

RECURSIVE Shuffle(_, _, _, _)
Shuffle(s, i, j, seedp) ==
  LET k == (j + s[i] + seedp[(i % Len(seedp)) + 1]) % RandomSize
  IN  IF i = RandomSize THEN s ELSE Shuffle(swap_byte(s, i, k), i + 1, k, seedp)
random_init(seedp) ==
  [s |-> Shuffle([k \in 0..RandomSize - 1 |-> k], 0, 0, seedp), i |-> 0, j |-> 0]

(* The next byte, and the state after it.                                   *)
random_byte(r) ==
  LET i == (r.i + 1) % RandomSize
      j == (r.j + r.s[i]) % RandomSize
      s == swap_byte(r.s, i, j)
  IN  [byte |-> s[(s[i] + s[j]) % RandomSize], next |-> [s |-> s, i |-> i, j |-> j]]

-----------------------------------------------------------------------------
(* What they are for.                                                      *)

Increasing(a) == \A i, j \in DOMAIN a : i < j => a[i] <= a[j]
Count(a, x) == Cardinality({i \in DOMAIN a : a[i] = x})

(* sort orders the array and keeps its elements, and binary_search finds   *)
(* a key in the result exactly when it is there, at the ends too.          *)
SortsRight(a, keys) ==
  LET b == sort(a)
  IN  /\ Increasing(b) /\ Len(b) = Len(a)
      /\ \A x \in Range(a) : Count(a, x) = Count(b, x)
      /\ \A k \in keys : LET i == binary_search(k, b)
                         IN  IF k \in Range(a) THEN b[i] = k ELSE i = 0

(* The division by words never traps and is exact for every dividend and   *)
(* divisor, signed or not.                                                 *)
DividesRight(n, d) ==
  /\ udiv64(n, d) = n \div d
  /\ d < Word => umod64(n, d) = n % d
  /\ \A p \in {-1, 1}, q \in {-1, 1} :
       n < Double \div 2 /\ d < Double \div 2 =>
         /\ sdiv64(p * n, q * d) = p * q * (n \div d)
         /\ d <= IntMax => smod64(p * n, q * d) = p * (n % d)

Value(digits) == FoldLeft(LAMBDA v, d : v * 10 + d, 0, digits)

(* atoi is exact, without overflow on the way, for every number an int can *)
(* hold, the least one included.                                           *)
AtoiRight(sign, digits) ==
  LET v == IF sign = "-" THEN -Value(digits) ELSE Value(digits)
  IN  v \in IntMin..IntMax => atoi(sign, digits) = <<v, TRUE>>

(* Whatever the seed and however many bytes were drawn, the generator's    *)
(* state stays a permutation.                                              *)
RandomRight(r) == Range(r.s) = 0..RandomSize - 1
==============================================================================
