----------------------------- MODULE RowLemmas -----------------------------
(***************************************************************************)
(* Lemmas about row numbers, shared by the proof modules: the models find  *)
(* the latest row of a table as the largest of a set of row numbers.       *)
(***************************************************************************)
EXTENDS Naturals, Sequences, FiniteSetsExt, TLAPS, WellFoundedInduction

\* The largest of a non-empty set of row numbers is one of them.
LEMMA MaxInSet ==
  ASSUME NEW n \in Nat, NEW S, S \subseteq 1..n, S # {}
  PROVE  Max(S) \in S /\ \A y \in S : Max(S) >= y
<1> DEFINE Above == {k \in Nat : \A y \in S : y <= k}
<1>1. PICK m \in Above : \A k \in Above : ~(<<k, m>> \in OpToRel(<, Nat))
  <2>1. n \in Above
    OBVIOUS
  <2>2. Above \subseteq Nat /\ Above # {}
    BY <2>1
  <2> HIDE DEF Above
  <2>3. QED
    BY <2>2, NatLessThanWellFounded, WFMin
<1>2. m \in S
  <2>1. SUFFICES ASSUME m \notin S PROVE FALSE
    OBVIOUS
  <2>2. m - 1 \in Above
    <3>1. PICK y \in S : y <= m
      OBVIOUS
    <3>2. m \in Nat /\ m >= 1
      BY <3>1
    <3>3. \A z \in S : z <= m - 1
      BY <2>1, <3>2
    <3>4. QED
      BY <3>2, <3>3
  <2>3. <<m - 1, m>> \in OpToRel(<, Nat)
    BY <2>2 DEF OpToRel
  <2>4. QED
    BY <1>1, <2>2, <2>3
<1>3. \A y \in S : m >= y
  BY <1>1
<1>4. QED
  BY <1>2, <1>3 DEF Max

\* The latest of some rows of a table is a row of it.
LEMMA MaxRow ==
  ASSUME NEW Q, NEW r \in Seq(Q), NEW S, S \subseteq DOMAIN r, S # {}
  PROVE  Max(S) \in S /\ r[Max(S)] \in Q
<1>1. DOMAIN r = 1..Len(r) /\ Len(r) \in Nat
  OBVIOUS
<1>2. Max(S) \in S
  BY <1>1, MaxInSet
<1>3. QED
  BY <1>2
=============================================================================
