------------------------------- MODULE Strings -------------------------------
(***************************************************************************)
(* lib/string.c on a small memory M of bytes.  A pointer is an address, a  *)
(* string the bytes up to the first 0.  An address outside the memory      *)
(* cannot be read or written.  Each operator is the loop of the function   *)
(* it is named for.                                                        *)
(***************************************************************************)
EXTENDS Integers, SequencesExt

NIL == -1            \* the null pointer

RECURSIVE memcpy(_, _, _, _), CopyDown(_, _, _, _), memset(_, _, _, _), memcmp(_, _, _, _),
          strcmp(_, _, _), memchr(_, _, _, _), strchr(_, _, _), strcspn(_, _, _), strspn(_, _, _),
          LastAt(_, _, _, _), strlen(_, _), strnlen(_, _, _), FindFrom(_, _, _, _, _)

memcpy(m, dst, src, size) ==
  IF size = 0 THEN m ELSE memcpy([m EXCEPT ![dst] = m[src]], dst + 1, src + 1, size - 1)
CopyDown(m, dst, src, size) ==
  IF size = 0 THEN m
  ELSE CopyDown([m EXCEPT ![dst + size - 1] = m[src + size - 1]], dst, src, size - 1)

(* The memory and the pointer returned.                                     *)
memmove(m, dst, src, size) ==
  IF dst < src THEN <<memcpy(m, dst, src, size), dst + size>>
  ELSE <<CopyDown(m, dst, src, size), dst>>

memset(m, dst, value, size) ==
  IF size = 0 THEN m ELSE memset([m EXCEPT ![dst] = value], dst + 1, value, size - 1)

memcmp(m, a, b, size) ==
  IF size = 0 THEN 0
  ELSE IF m[a] # m[b] THEN (IF m[a] > m[b] THEN 1 ELSE -1)
  ELSE memcmp(m, a + 1, b + 1, size - 1)

strcmp(m, a, b) ==
  IF m[a] # 0 /\ m[a] = m[b] THEN strcmp(m, a + 1, b + 1)
  ELSE IF m[a] < m[b] THEN -1 ELSE IF m[a] > m[b] THEN 1 ELSE 0

memchr(m, block, ch, size) ==
  IF size = 0 THEN NIL ELSE IF m[block] = ch THEN block ELSE memchr(m, block + 1, ch, size - 1)

strchr(m, s, c) == IF m[s] = c THEN s ELSE IF m[s] = 0 THEN NIL ELSE strchr(m, s + 1, c)

strcspn(m, s, stop) ==
  IF m[s] = 0 \/ strchr(m, stop, m[s]) # NIL THEN 0 ELSE 1 + strcspn(m, s + 1, stop)
strspn(m, s, skip) ==
  IF m[s] = 0 \/ strchr(m, skip, m[s]) = NIL THEN 0 ELSE 1 + strspn(m, s + 1, skip)

strpbrk(m, s, stop) == LET p == s + strcspn(m, s, stop) IN IF m[p] = 0 THEN NIL ELSE p

LastAt(m, s, c, p) == IF m[s] = 0 THEN p ELSE LastAt(m, s + 1, c, IF m[s] = c THEN s ELSE p)
strrchr(m, s, c) == LastAt(m, s, c, NIL)

strlen(m, s) == IF m[s] = 0 THEN 0 ELSE 1 + strlen(m, s + 1)
strnlen(m, s, maxlen) == IF m[s] = 0 \/ maxlen = 0 THEN 0 ELSE 1 + strnlen(m, s + 1, maxlen - 1)

FindFrom(m, s, needle, n, i) ==
  IF i > strlen(m, s) - n THEN NIL
  ELSE IF memcmp(m, s + i, needle, n) = 0 THEN s + i ELSE FindFrom(m, s, needle, n, i + 1)
strstr(m, haystack, needle) ==
  LET n == strlen(m, needle)
  IN  IF strlen(m, haystack) >= n THEN FindFrom(m, haystack, needle, n, 0) ELSE NIL

(* The memory, the token and the saved position.                            *)
strtok_r(m, s, delimiters) ==
  LET token == s + strspn(m, s, delimiters)
      end == token + strcspn(m, token, delimiters)
  IN  IF m[token] = 0 THEN <<m, NIL, token>>
      ELSE IF m[end] # 0 THEN <<[m EXCEPT ![end] = 0], token, end + 1>>
      ELSE <<m, token, end>>

(* The memory and the length of SRC.                                        *)
strlcpy(m, dst, src, size) ==
  LET len == strlen(m, src)
      n == IF len < size - 1 THEN len ELSE size - 1
  IN  <<IF size > 0 THEN [memcpy(m, dst, src, n) EXCEPT ![dst + n] = 0] ELSE m, len>>

strlcat(m, dst, src, size) ==
  LET src_len == strlen(m, src)
      dst_len == strlen(m, dst)
      n == IF src_len < size - dst_len - 1 THEN src_len ELSE size - dst_len - 1
  IN  <<IF size > 0 /\ dst_len < size
        THEN [memcpy(m, dst + dst_len, src, n) EXCEPT ![dst + dst_len + n] = 0] ELSE m,
        src_len + dst_len>>

-----------------------------------------------------------------------------
(* What the functions are for, on the sequences of bytes of the strings.   *)

(* The string at address S, which ends before some 0.                      *)
Str(m, s) == LET end == Min({a \in DOMAIN m : a >= s /\ m[a] = 0})
             IN  [i \in 1..end - s |-> m[s + i - 1]]
MinOr(S) == IF S = {} THEN NIL ELSE Min(S)
MaxOr(S) == IF S = {} THEN NIL ELSE Max(S)
Compare(s, t) ==
  LET a == Append(s, 0)  b == Append(t, 0)
      differ == {i \in DOMAIN a \cap DOMAIN b : a[i] # b[i]}
  IN  IF differ = {} THEN 0 ELSE IF a[Min(differ)] < b[Min(differ)] THEN -1 ELSE 1

RECURSIVE Tokens(_, _, _)
Tokens(m, s, delimiters) ==
  LET r == strtok_r(m, s, delimiters)
  IN  IF r[2] = NIL THEN <<>>
      ELSE <<Str(r[1], r[2])>> \o Tokens(r[1], r[3], delimiters)

(* Pieces of S between delimiters: every one begins after a delimiter.     *)
Starts(s, D) == {i \in DOMAIN s : s[i] \notin D /\ (i = 1 \/ s[i - 1] \in D)}

(* Searching, comparing and splitting agree with what the strings are, and *)
(* no byte outside the two strings is needed.                              *)
SearchesRight(m, a, b) ==
  LET s == Str(m, a)  t == Str(m, b)  D == Range(t)
      tokens == Tokens(m, a, b)
  IN  /\ strlen(m, a) = Len(s)
      /\ strcmp(m, a, b) = Compare(s, t)
      /\ \A n \in 0..Len(t) + 1 : strnlen(m, a, n) = Min({n, Len(s)})
      /\ \A n \in 0..Min({Len(s), Len(t)}) :
           memcmp(m, a, b, n) = Compare(SubSeq(s, 1, n), SubSeq(t, 1, n))
      /\ \A c \in Range(m) :
           LET at == {a + i - 1 : i \in {j \in DOMAIN s : s[j] = c}}
           IN  /\ strchr(m, a, c) = IF c = 0 THEN a + Len(s) ELSE MinOr(at)
               /\ memchr(m, a, c, Len(s)) = MinOr(at)
               /\ strrchr(m, a, c) = MaxOr(at)
      /\ strspn(m, a, b) = Max({n \in 0..Len(s) : \A i \in 1..n : s[i] \in D})
      /\ strpbrk(m, a, b) = MinOr({a + i - 1 : i \in {j \in DOMAIN s : s[j] \in D}})
      /\ strstr(m, a, b) = MinOr({a + i : i \in
           {j \in 0..Len(s) - Len(t) : SubSeq(s, j + 1, j + Len(t)) = t}})
      /\ FlattenSeq(tokens) = SelectSeq(s, LAMBDA c : c \notin D)
      /\ Len(tokens) = Cardinality(Starts(s, D))
      /\ <<>> \notin Range(tokens)

(* Copies are exact also when source and destination overlap; the bounded  *)
(* ones stay within SIZE bytes, end the string and return the length they  *)
(* would have needed.                                                      *)
CopiesRight(m, a, b, size) ==
  LET s == Str(m, a)  t == Str(m, b)
      Fits(x) == SubSeq(x, 1, Min({Len(x), size - 1}))
      copy == strlcpy(m, b, a, size)
      cat == strlcat(m, b, a, size)
  IN  /\ \A d, f \in DOMAIN m : d + size - 1 \in DOMAIN m /\ f + size - 1 \in DOMAIN m =>
           \A x \in DOMAIN m : memmove(m, d, f, size)[1][x] =
             IF x \in d..d + size - 1 THEN m[f + x - d] ELSE m[x]
      /\ memset(m, a, 1, size) = [x \in DOMAIN m |-> IF x \in a..a + size - 1 THEN 1 ELSE m[x]]
      /\ copy[2] = Len(s) /\ cat[2] = Len(s) + Len(t)
      /\ size > 0 => Str(copy[1], b) = Fits(s)
      /\ size > Len(t) => Str(cat[1], b) = Fits(t \o s)
      /\ \A x \in DOMAIN m \ (b..b + size - 1) : copy[1][x] = m[x] /\ cat[1][x] = m[x]
==============================================================================
