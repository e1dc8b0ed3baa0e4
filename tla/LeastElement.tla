---------------------------- MODULE LeastElement ----------------------------
(* What Min of FiniteSetsExt returns on a set of naturals: the first free    *)
(* page, the first slot and the first READY process are all chosen by it.    *)
EXTENDS Integers, FiniteSetsExt, WellFoundedInduction, TLAPS

LessThan == {ss \in Nat \X Nat : ss[1] < ss[2]}

(* The order of the naturals, which every table scan follows, is well        *)
(* founded.                                                                  *)
LEMMA LessThanWellFounded == IsWellFoundedOn(LessThan, Nat)
BY NatLessThanWellFounded DEF OpToRel, LessThan

(* A scan from index 0 that finds something finds the least such index.      *)
LEMMA MinIsLeast ==
    ASSUME NEW S \in SUBSET Nat, S # {}
    PROVE  Min(S) \in S /\ \A y \in S : Min(S) <= y
<1>1. PICK x \in S : \A y \in S : <<y, x>> \notin LessThan
  BY LessThanWellFounded, WFMin
<1>2. ASSUME NEW y \in S
      PROVE  x <= y
  <2>1. <<y, x>> \in LessThan <=> y < x
    BY SMT DEF LessThan
  <2> QED
    BY <2>1, <1>1
<1> QED
  BY <1>2 DEF Min
=============================================================================
