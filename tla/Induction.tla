------------------------------ MODULE Induction ------------------------------
(***************************************************************************)
(* Induction over the natural numbers, and the last of finitely many       *)
(* positions: the proofs about replayed logs and linked lists rest on it.  *)
(***************************************************************************)
EXTENDS Integers, WellFoundedInduction, TLAPS

\* Induction over the natural numbers, for a set: the library's theorem of the
\* least element of a well-founded set needs no operator parameter.
LEMMA SetInduction ==
    ASSUME NEW S, 0 \in S, \A n \in Nat : n \in S => n + 1 \in S
    PROVE  Nat \subseteq S
<1> DEFINE R == OpToRel(<, Nat)
           T == Nat \ S
<1>1. IsWellFoundedOn(R, Nat)
  BY NatLessThanWellFounded
<1>2. \A x, y \in Nat : x < y => <<x, y>> \in R
  BY DEF OpToRel
<1>3. SUFFICES ASSUME T # {} PROVE FALSE
  OBVIOUS
<1>4. T \subseteq Nat
  OBVIOUS
<1> HIDE DEF R, T
<1>5. PICK x \in T : \A y \in T : ~ (<<y, x>> \in R)
  BY <1>1, <1>3, <1>4, WFMin
<1>6. x \in Nat /\ x # 0 /\ x - 1 \in Nat
  BY <1>4 DEF T
<1>7. x - 1 \in T
  BY <1>6 DEF T
<1>8. x - 1 < x
  BY <1>6
<1>9. <<x - 1, x>> \in R
  BY <1>2, <1>6, <1>8, Zenon
<1> QED BY <1>5, <1>7, <1>9, Zenon

\* A set of positions has a last one.
LEMMA LastPosition ==
    ASSUME NEW n \in Nat, NEW S \in SUBSET (1..n), S # {}
    PROVE  \E i \in S : \A j \in S : j <= i
<1> DEFINE T == {m \in Nat : \A U \in SUBSET (1..m) : U # {} => \E i \in U : \A j \in U : j <= i}
<1>1. 0 \in T
  <2>1. 1..0 = {}
    OBVIOUS
  <2> QED BY <2>1
<1>2. ASSUME NEW m \in Nat, m \in T PROVE m + 1 \in T
  <2>1. SUFFICES ASSUME NEW U \in SUBSET (1..(m + 1)), U # {}
                 PROVE  \E i \in U : \A j \in U : j <= i
    OBVIOUS
  <2>2. CASE m + 1 \in U
    BY <2>2
  <2>3. CASE m + 1 \notin U
    <3>1. U \in SUBSET (1..m)
      BY <2>3
    <3> QED BY <1>2, <2>1, <3>1
  <2> QED BY <2>2, <2>3
<1>3. Nat \subseteq T
  <2> HIDE DEF T
  <2> QED BY <1>1, <1>2, SetInduction
<1> QED BY <1>3

\* A log, of whatever events, has one of key k; the i-th is the last one.
TellsOf(k, s) == \E i \in DOMAIN s : s[i].key = k
IsLast(i, k, s) == i \in DOMAIN s /\ s[i].key = k /\ \A j \in DOMAIN s : s[j].key = k => j <= i
=============================================================================
