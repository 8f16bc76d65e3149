------------------------------- MODULE Counting -------------------------------
(***************************************************************************)
(* The facts about natural numbers and about finite sets that the proofs   *)
(* need and that only induction gives.  They are stated here, assumed by   *)
(* name (Laws) in the lemmas about the kernel, and proved once, in *)
(* CountingProofs, from the library of theorems: the theorems about the    *)
(* kernel hold without them, and the lemmas stay out of the scope of that  *)
(* library.                                                                *)
(***************************************************************************)
EXTENDS Integers, FiniteSetsExt

(* A non-empty set of natural numbers has a least element.                  *)
LeastNat ==
  \A S \in SUBSET Nat : S # {} => Min(S) \in S /\ \A y \in S : Min(S) <= y

(* A non-empty set of numbers up to N has a greatest element.               *)
GreatestNat ==
  \A N \in Nat : \A S \in SUBSET (0..N) :
    S # {} => Max(S) \in S /\ \A y \in S : Max(S) >= y

(* What the empty set, a singleton and any finite set count.                *)
CountEmpty ==
  /\ IsFiniteSet({}) /\ Cardinality({}) = 0
  /\ \A S : IsFiniteSet(S) /\ Cardinality(S) = 0 => S = {}

CountOne == \A x : Cardinality({x}) = 1

CountType == \A S : IsFiniteSet(S) => Cardinality(S) \in Nat

(* A part of a finite set is finite and no larger.                          *)
CountSubset ==
  \A S : IsFiniteSet(S) => \A T \in SUBSET S :
    IsFiniteSet(T) /\ Cardinality(T) <= Cardinality(S)

(* One element more, one element less.                                      *)
CountAdd ==
  \A S, x : IsFiniteSet(S) =>
    /\ IsFiniteSet(S \cup {x})
    /\ Cardinality(S \cup {x}) = IF x \in S THEN Cardinality(S) ELSE Cardinality(S) + 1

CountRemove ==
  \A S, x : IsFiniteSet(S) =>
    /\ IsFiniteSet(S \ {x})
    /\ Cardinality(S \ {x}) = IF x \in S THEN Cardinality(S) - 1 ELSE Cardinality(S)

Laws ==
  /\ LeastNat /\ GreatestNat
  /\ CountEmpty /\ CountOne /\ CountType
  /\ CountSubset /\ CountAdd /\ CountRemove
==============================================================================
