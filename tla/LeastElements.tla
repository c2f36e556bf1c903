---------------------------- MODULE LeastElements ----------------------------
(***************************************************************************)
(* The least-number principle, as a fact about sets: the form in which the *)
(* proofs about lists and tables use it.                                   *)
(***************************************************************************)
EXTENDS Integers, TLAPS, FiniteSetTheorems, WellFoundedInduction

\* A non-empty set of naturals has a least element.
LEMMA LeastElement ==
  ASSUME NEW T, T \subseteq Nat, T # {}
  PROVE  \E m \in T : \A n \in T : m <= n
<1>. DEFINE R == StrictSubsetOrdering(Nat)
            I == {0 .. n : n \in T}
<1>1. I \subseteq FiniteSubsetsOf(Nat)
  <2>1. \A n \in T : IsFiniteSet(0 .. n)
    BY FS_Interval
  <2>. QED BY <2>1 DEF FiniteSubsetsOf
<1>2. I # {}
  OBVIOUS
<1>3. IsWellFoundedOn(R, FiniteSubsetsOf(Nat))
  BY FS_StrictSubsetOrderingWellFounded
<1>. HIDE DEF R
<1>4. PICK x \in I : \A y \in I : ~ (<<y, x>> \in R)
  BY <1>1, <1>2, <1>3, WFMin
<1>5. PICK m \in T : x = 0 .. m
  OBVIOUS
<1>6. ASSUME NEW n \in T, ~ (m <= n)
      PROVE  FALSE
  <2>1. 0 .. n \in SUBSET Nat /\ 0 .. m \in SUBSET Nat
    OBVIOUS
  <2>2. 0 .. n \subseteq 0 .. m /\ m \in 0 .. m /\ m \notin 0 .. n
    BY <1>6
  <2>3. <<0 .. n, x>> \in R
    BY <2>1, <2>2, <1>5 DEF R, StrictSubsetOrdering
  <2>. QED BY <2>3, <1>4
<1>. QED BY <1>6

\* Induction up to a bound, with the property as a set of numbers.
LEMMA UpTo ==
  ASSUME NEW C, NEW top \in Nat, 0 \in C,
         \A n \in 0 .. top - 1 : n \in C => n + 1 \in C
  PROVE  \A n \in 0 .. top : n \in C
<1>. DEFINE T == (0 .. top) \ C
<1>1. ASSUME T # {}
      PROVE  FALSE
  <2>1. T \subseteq Nat
    OBVIOUS
  <2>2. PICK m \in T : \A n \in T : m <= n
    BY <1>1, <2>1, LeastElement
  <2>3. m # 0 /\ m - 1 \in 0 .. top - 1 /\ m - 1 \in 0 .. top /\ (m - 1) + 1 = m
    OBVIOUS
  <2>4. ~ (m <= m - 1)
    BY <2>3
  <2>5. m - 1 \in C
    BY <2>2, <2>3, <2>4
  <2>. QED BY <2>3, <2>5
<1>. QED BY <1>1
=============================================================================
