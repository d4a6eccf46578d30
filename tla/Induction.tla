----------------------------- MODULE Induction ------------------------------
(***************************************************************************)
(* Induction over the naturals, for a set instead of a formula: what an    *)
(* algorithm that counts computes, for every number.                       *)
(***************************************************************************)
EXTENDS Integers, WellFoundedInduction, TLAPS

(* Induction over a set: the numbers that have a property.                 *)
LEMMA InductionOnSet ==
  ASSUME NEW T, 0 \in T, \A n \in Nat : n \in T => n + 1 \in T
  PROVE  \A n \in Nat : n \in T
<1> SUFFICES ASSUME NEW n \in Nat, n \notin T
             PROVE  FALSE
  OBVIOUS
<1> DEFINE rest   == Nat \ T
           before == OpToRel(<, Nat)
<1>1. rest \subseteq Nat /\ rest # {}
  OBVIOUS
<1>2. IsWellFoundedOn(before, Nat)
  BY NatLessThanWellFounded DEF OpToRel
<1>3. \A m, k \in Nat : m < k => <<m, k>> \in before
  BY DEF OpToRel
<1> HIDE DEF rest, before
<1>4. \E least \in rest : \A m \in rest : ~(<<m, least>> \in before)
  BY <1>1, <1>2, WFMin, Zenon
<1>5. PICK least \in rest : \A m \in rest : ~(<<m, least>> \in before)
  BY <1>4
<1>6. least \in Nat /\ least \notin T /\ least # 0
  BY <1>5 DEF rest
<1>7. \A m \in Nat : m < least => m \in T
  BY <1>3, <1>5, <1>6 DEF rest
<1>8. least - 1 \in Nat /\ least - 1 < least /\ (least - 1) + 1 = least
  BY <1>6
<1> QED BY <1>6, <1>7, <1>8
=============================================================================
