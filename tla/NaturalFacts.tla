----------------------------- MODULE NaturalFacts -----------------------------
(***************************************************************************)
(* Facts about natural numbers that the proofs of the other modules use:   *)
(* a set of naturals has a least element, and what follows from that for   *)
(* Min and Max, for proofs that go along a sequence or a list place by     *)
(* place, and for functions that are defined by recursion.                 *)
(*                                                                         *)
(* The first lemma is where the naturals come in: of the intervals 0..x    *)
(* within a finite set one has no other below it.                          *)
(***************************************************************************)
EXTENDS Integers, FiniteSetTheorems, FiniteSetsExt, TLAPS

\* A set with a bound has a least element ...
LEMMA LeastUpTo ==
  ASSUME NEW n \in Nat, NEW T, T \subseteq 0..n, T # {}
  PROVE  \E x \in T : \A y \in T : x <= y
<1> DEFINE B == {0..x : x \in T}
<1>1. IsFiniteSet(0..n)
  BY FS_Interval
<1>2. IsWellFoundedOn(StrictSubsetOrdering(0..n), SUBSET (0..n))
  BY <1>1, FS_StrictSubsetOrderingWellFounded, FS_FiniteSubsetsOfFinite
<1>3. B \subseteq SUBSET (0..n) /\ B # {}
  <2>1. \A x \in T : 0..x \subseteq 0..n
    OBVIOUS
  <2> QED
    BY <2>1
<1>4. PICK b \in B : \A c \in B : ~(<<c, b>> \in StrictSubsetOrdering(0..n))
  BY <1>2, <1>3, WFMin
<1>5. PICK x \in T : b = 0..x
  BY <1>4
<1>6. ASSUME NEW y \in T, y < x PROVE FALSE
  <2>1. 0..y \in B /\ 0..y \subseteq 0..x /\ 0..y # 0..x
    BY <1>6
  <2>2. <<0..y, b>> \in StrictSubsetOrdering(0..n)
    BY <1>3, <1>5, <2>1 DEF StrictSubsetOrdering
  <2> QED
    BY <1>4, <2>1, <2>2
<1> QED
  BY <1>6

\* ... and so has any set of naturals.
LEMMA Least ==
  ASSUME NEW T, T \subseteq Nat, T # {}
  PROVE  \E x \in T : \A y \in T : x <= y
<1>1. PICK n \in T : TRUE
  OBVIOUS
<1>2. PICK x \in T \cap 0..n : \A y \in T \cap 0..n : x <= y
  <2>1. T \cap 0..n \subseteq 0..n /\ T \cap 0..n # {}
    BY <1>1
  <2> QED
    BY <1>1, <2>1, LeastUpTo
<1> QED
  BY <1>2

\* What Min and Max choose.
LEMMA MinIs ==
  ASSUME NEW T, T \subseteq Nat, NEW x \in T, \A y \in T : x <= y
  PROVE  Min(T) = x
<1>1. Min(T) \in T /\ \A y \in T : Min(T) <= y
  BY DEF Min
<1>2. Min(T) \in Nat /\ x \in Nat /\ x <= Min(T) /\ Min(T) <= x
  BY <1>1
<1> HIDE DEF Min
<1> QED
  BY <1>2

LEMMA MinIn ==
  ASSUME NEW T, T \subseteq Nat, T # {}
  PROVE  Min(T) \in T /\ \A y \in T : Min(T) <= y
BY Least DEF Min

LEMMA MaxIn ==
  ASSUME NEW n \in Nat, NEW T, T \subseteq 0..n, T # {}
  PROVE  Max(T) \in T /\ \A y \in T : y <= Max(T)
<1> DEFINE below == {n - y : y \in T}
<1>1. \A y \in T : n - y \in Nat /\ n - (n - y) = y /\ n - y \in below
  OBVIOUS
<1>2. below \subseteq Nat /\ below # {}
  BY <1>1
<1>3. PICK x \in below : \A z \in below : x <= z
  <2> HIDE DEF below
  <2> QED
    BY <1>2, Least
<1>4. PICK m \in T : x = n - m
  BY <1>3
<1>5. ASSUME NEW y \in T PROVE y <= m
  <2>1. x <= n - y /\ y \in Nat /\ m \in Nat
    BY <1>1, <1>3
  <2> QED
    BY <1>4, <2>1
<1> QED
  BY <1>5 DEF Max

LEMMA MaxIs ==
  ASSUME NEW n \in Nat, NEW T, T \subseteq 0..n, NEW x \in T, \A y \in T : y <= x
  PROVE  Max(T) = x
<1>1. Max(T) \in T /\ \A y \in T : y <= Max(T)
  BY MaxIn
<1>2. PICK m \in T : m = Max(T) /\ \A y \in T : y <= m
  BY <1>1
<1>3. m \in Nat /\ x \in Nat /\ x <= m /\ m <= x
  BY <1>2
<1> QED
  BY <1>2, <1>3

\* What holds at 0 and goes on from each place to the next holds up to n.
LEMMA PlaceByPlace ==
  ASSUME NEW n \in Nat, NEW T, 0 \in T, \A k \in 0..(n - 1) : k \in T => k + 1 \in T
  PROVE  0..n \subseteq T
<1> SUFFICES ASSUME (0..n) \ T # {}
             PROVE  FALSE
  OBVIOUS
<1>1. PICK x \in (0..n) \ T : \A y \in (0..n) \ T : x <= y
  <2>1. (0..n) \ T \subseteq Nat
    OBVIOUS
  <2> QED
    BY <2>1, Least
<1>2. x - 1 \in 0..(n - 1) /\ x - 1 \in T
  BY <1>1
<1> QED
  BY <1>1, <1>2

\* f is defined by recursion along 0..n: b is where it starts, next what follows.
Recurses(f, n, X, b, next) ==
  /\ f \in [0..n -> X]
  /\ f[0] = b
  /\ \A k \in 1..n : f[k] = next[k][f[k - 1]]

\* Every recursion has a function.
LEMMA RecursionExists ==
  ASSUME NEW n \in Nat, NEW X, NEW b \in X, NEW next \in [1..n -> [X -> X]]
  PROVE  \E f : Recurses(f, n, X, b, next)
<1> DEFINE T == {m \in 0..n : \E f : Recurses(f, m, X, b, next)}
<1>1. 0 \in T
  <2> DEFINE f == [k \in 0..0 |-> b]
  <2>1. f \in [0..0 -> X] /\ f[0] = b
    OBVIOUS
  <2>2. 1..0 = {}
    OBVIOUS
  <2> HIDE DEF f
  <2> QED
    BY <2>1, <2>2 DEF Recurses
<1>2. ASSUME NEW m \in 0..(n - 1), m \in T PROVE m + 1 \in T
  <2>1. PICK f : Recurses(f, m, X, b, next)
    BY <1>2
  <2> DEFINE g == [k \in 0..(m + 1) |-> IF k = m + 1 THEN next[k][f[m]] ELSE f[k]]
  <2>2. f \in [0..m -> X] /\ f[m] \in X /\ m + 1 \in 1..n
    BY <2>1 DEF Recurses
  <2>3. next[m + 1][f[m]] \in X
    BY <2>2
  <2>4. g \in [0..(m + 1) -> X]
    BY <2>2, <2>3
  <2>5. g[0] = b
    BY <2>1 DEF Recurses
  <2>6. ASSUME NEW k \in 1..(m + 1) PROVE g[k] = next[k][g[k - 1]]
    <3>1. g[k - 1] = f[k - 1]
      OBVIOUS
    <3>2. CASE k = m + 1
      BY <3>1, <3>2
    <3>3. CASE k \in 1..m
      BY <2>1, <3>1, <3>3 DEF Recurses
    <3> QED
      BY <3>2, <3>3
  <2>7. m + 1 \in 0..n
    OBVIOUS
  <2> HIDE DEF g
  <2> QED
    BY <2>4, <2>5, <2>6, <2>7 DEF Recurses
<1>3. n \in T
  <2> HIDE DEF T
  <2>1. 0..n \subseteq T
    BY <1>1, <1>2, PlaceByPlace
  <2> QED
    BY <2>1
<1> QED
  BY <1>3
=============================================================================
