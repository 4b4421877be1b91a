---------------------------- MODULE InductionLemmas ----------------------------
(* Induction over the natural numbers, stated with sets.                       *)
EXTENDS Integers, WellFoundedInduction, TLAPS

(* A non-empty set of natural numbers has a least element.                     *)
LEMMA LeastElement ==
  ASSUME NEW S \in SUBSET Nat, S # {}
  PROVE  \E m \in S : \A k \in S : m <= k
<1> DEFINE Less == OpToRel(<, Nat)
<1>1. IsWellFoundedOn(Less, Nat)
  BY NatLessThanWellFounded
<1> HIDE DEF Less
<1>2. PICK m \in S : \A k \in S : <<k, m>> \notin Less
  BY <1>1, WFMin
<1>3. ASSUME NEW k \in S PROVE m <= k
  <2>1. <<k, m>> \in Nat \X Nat /\ (k < m => <<k, m>> \in Less)
    BY DEF Less, OpToRel
  <2> QED
    BY <1>2, <2>1
<1> QED
  BY <1>3

(* A set that holds 0 and with a number the next one holds them all.           *)
LEMMA SetInduction ==
  ASSUME NEW S, 0 \in S, \A n \in Nat : n \in S => n + 1 \in S
  PROVE  \A n \in Nat : n \in S
<1> DEFINE Others == Nat \ S
<1> SUFFICES ASSUME Others # {} PROVE FALSE
  OBVIOUS
<1>1. PICK m \in Others : \A k \in Others : m <= k
  BY LeastElement
<1>2. m # 0 /\ m - 1 \in Nat
  BY <1>1
<1>3. m - 1 \in S
  BY <1>1, <1>2
<1> QED
  BY <1>1, <1>2, <1>3

(* A sequence given by its first member and the step from each to the next.    *)
Unfolds(f, base, step) == f[0] = base /\ \A n \in Nat : f[n + 1] = step[n][f[n]]

(* There is such a sequence for every first member and every step.             *)
LEMMA RecursionExists ==
  ASSUME NEW S, NEW base \in S, NEW step \in [Nat -> [S -> S]]
  PROVE  \E f \in [Nat -> S] : Unfolds(f, base, step)
<1> DEFINE UpTo(n) == {g \in [0 .. n -> S] :
                         g[0] = base /\ \A i \in 0 .. n - 1 : g[i + 1] = step[i][g[i]]}
<1>1. \A n \in Nat : UpTo(n) # {}
  <2> DEFINE T == {n \in Nat : UpTo(n) # {}}
  <2>1. 0 \in T
    <3>1. [i \in 0 .. 0 |-> base] \in UpTo(0)
      OBVIOUS
    <3> QED
      BY <3>1
  <2>2. ASSUME NEW n \in Nat, n \in T PROVE n + 1 \in T
    <3>1. PICK g \in UpTo(n) : TRUE
      BY <2>2
    <3> DEFINE h == [i \in 0 .. n + 1 |-> IF i = n + 1 THEN step[n][g[n]] ELSE g[i]]
    <3>2. g \in [0 .. n -> S] /\ g[n] \in S
      BY <3>1
    <3>3. h \in [0 .. n + 1 -> S]
      BY <3>2
    <3>4. h[0] = base /\ \A i \in 0 .. (n + 1) - 1 : h[i + 1] = step[i][h[i]]
      BY <3>1
    <3> HIDE DEF h
    <3>5. h \in UpTo(n + 1)
      BY <3>3, <3>4
    <3> HIDE DEF UpTo
    <3> QED
      BY <3>5
  <2> HIDE DEF T
  <2>3. \A n \in Nat : n \in T
    BY <2>1, <2>2, SetInduction
  <2> QED
    BY <2>3 DEF T
<1> DEFINE Agree == {n \in Nat : \A k, m \in Nat : k >= n /\ m >= n =>
                       \A g \in UpTo(k), h \in UpTo(m) : g[n] = h[n]}
<1>2. \A n \in Nat : n \in Agree
  <2>1. 0 \in Agree
    OBVIOUS
  <2>2. ASSUME NEW n \in Nat, n \in Agree PROVE n + 1 \in Agree
    <3> HIDE DEF UpTo
    <3> SUFFICES ASSUME NEW k \in Nat, NEW m \in Nat, k >= n + 1, m >= n + 1,
                        NEW g \in UpTo(k), NEW h \in UpTo(m)
                 PROVE  g[n + 1] = h[n + 1]
      OBVIOUS
    <3>1. g[n] = h[n]
      <4>1. k >= n /\ m >= n
        OBVIOUS
      <4> QED
        BY <2>2, <4>1
    <3> USE DEF UpTo
    <3>2. n \in 0 .. k - 1 /\ n \in 0 .. m - 1
      OBVIOUS
    <3>3. g[n + 1] = step[n][g[n]] /\ h[n + 1] = step[n][h[n]]
      BY <3>2
    <3> QED
      BY <3>1, <3>3
  <2> HIDE DEF Agree
  <2> QED
    BY <2>1, <2>2, SetInduction
<1> DEFINE part(n) == CHOOSE g \in UpTo(n) : TRUE
           f == [n \in Nat |-> part(n)[n]]
<1>3. \A n \in Nat : part(n) \in UpTo(n)
  BY <1>1
<1> HIDE DEF part
<1>4. f \in [Nat -> S]
  <2>1. \A n \in Nat : part(n)[n] \in S
    BY <1>3
  <2> QED
    BY <2>1
<1>5. f[0] = base
  BY <1>3
<1>6. ASSUME NEW n \in Nat PROVE f[n + 1] = step[n][f[n]]
  <2>1. part(n + 1)[n + 1] = step[n][part(n + 1)[n]]
    BY <1>3
  <2>2. part(n + 1)[n] = part(n)[n]
    <3>1. n \in Agree /\ part(n + 1) \in UpTo(n + 1) /\ part(n) \in UpTo(n)
      <4> HIDE DEF Agree, UpTo
      <4> QED
        BY <1>2, <1>3
    <3>2. n + 1 >= n /\ n >= n /\ n + 1 \in Nat
      OBVIOUS
    <3> HIDE DEF UpTo
    <3> QED
      BY <3>1, <3>2
  <2> QED
    BY <2>1, <2>2
<1> QED
  BY <1>4, <1>5, <1>6 DEF Unfolds
================================================================================
