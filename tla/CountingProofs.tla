---------------------------- MODULE CountingProofs ----------------------------
(* The laws of Counting hold.                                               *)
EXTENDS Counting, TLAPS, FiniteSetTheorems, WellFoundedInduction

(* "<" has no infinite descent on Nat, so that a least element exists.      *)
LEMMA LeastExists == LeastNat
<1> SUFFICES ASSUME NEW S \in SUBSET Nat, S # {}
             PROVE  Min(S) \in S /\ \A y \in S : Min(S) <= y
  BY DEF LeastNat
<1>1. PICK x \in S : \A y \in S : <<y, x>> \notin OpToRel(<, Nat)
  BY WFMin, NatLessThanWellFounded, ZenonT(30)
<1>2. ASSUME NEW y \in S, y < x PROVE FALSE
  <2>1. <<y, x>> \in {p \in Nat \X Nat : p[1] < p[2]}
    BY <1>2
  <2> QED BY <1>1, <2>1 DEF OpToRel
<1>3. \A y \in S : x <= y
  BY <1>2
<1> QED BY <1>3, ZenonT(30) DEF Min

(* The greatest of some numbers up to N is at the least distance from N.    *)
LEMMA GreatestExists == GreatestNat
<1> SUFFICES ASSUME NEW N \in Nat, NEW S \in SUBSET (0..N), S # {}
             PROVE  Max(S) \in S /\ \A y \in S : Max(S) >= y
  BY DEF GreatestNat
<1> DEFINE T == {N - x : x \in S}
<1>1. T \in SUBSET Nat /\ T # {}
  <2>1. \A x \in S : N - x \in Nat
    OBVIOUS
  <2>2. PICK x \in S : TRUE
    OBVIOUS
  <2>3. N - x \in T
    BY <2>2
  <2> QED BY <2>1, <2>3
<1>2. Min(T) \in T /\ \A y \in T : Min(T) <= y
  BY <1>1, LeastExists DEF LeastNat
<1>3. PICK x \in S : Min(T) = N - x
  BY <1>2
<1>4. \A y \in S : x >= y
  <2> SUFFICES ASSUME NEW y \in S PROVE x >= y
    OBVIOUS
  <2>1. N - x <= N - y
    BY <1>2, <1>3
  <2> QED BY <2>1
<1> QED BY <1>4, ZenonT(30) DEF Max

(* All the laws that the lemmas about the kernel assume.                    *)
THEOREM Counted == Laws
<1>1. CountEmpty
  BY FS_EmptySet DEF CountEmpty
<1>2. CountOne
  BY FS_Singleton DEF CountOne
<1>3. CountType
  BY FS_CardinalityType DEF CountType
<1>4. CountSubset
  BY FS_Subset DEF CountSubset
<1>5. CountAdd
  BY FS_AddElement DEF CountAdd
<1>6. CountRemove
  BY FS_RemoveElement DEF CountRemove
<1> QED BY LeastExists, GreatestExists, <1>1, <1>2, <1>3, <1>4, <1>5, <1>6 DEF Laws
==============================================================================
