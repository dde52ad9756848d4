---------------------------- MODULE NatRecursion ----------------------------
(***************************************************************************)
(* Induction over the naturals, with a set in the place of a predicate,    *)
(* the existence of functions defined by recursion over 0 .. n, which is   *)
(* how the model writes the loops of the code, and the powers of two,      *)
(* which are how it writes the shifts.                                     *)
(***************************************************************************)
EXTENDS Integers, FiniteSetTheorems, WellFoundedInduction, TLAPS

(* Every set of naturals that is not empty has a least element. *)
LEMMA LeastNatural ==
  ASSUME NEW T, T \subseteq Nat, T # {}
  PROVE  \E x \in T : \A y \in T : x <= y
  <1> DEFINE R == {ss \in Nat \X Nat : ss[1] < ss[2]}
  <1>1. IsWellFoundedOn(R, Nat)
    BY NatLessThanWellFounded DEF OpToRel
  <1>2. PICK x \in T : \A y \in T : ~(<<y, x>> \in R)
    <2> HIDE DEF R
    <2> QED BY <1>1, WFMin, Zenon
  <1>3. \A y \in T : x <= y
    <2> SUFFICES ASSUME NEW y \in T, y < x PROVE FALSE
      BY <1>2
    <2> QED BY <1>2
  <1>4. QED BY <1>2, <1>3

(* Induction up to a bound. *)
LEMMA InductionUpTo ==
  ASSUME NEW n \in Nat, NEW P, 0 \in P, \A i \in 1 .. n : i - 1 \in P => i \in P
  PROVE  \A i \in 0 .. n : i \in P
  <1> SUFFICES ASSUME NEW m \in 0 .. n, m \notin P PROVE FALSE
    OBVIOUS
  <1> DEFINE T == (0 .. n) \ P
  <1>1. PICK x \in T : \A y \in T : x <= y
    <2>1. T \subseteq Nat /\ T # {} OBVIOUS
    <2> HIDE DEF T
    <2>2. QED BY <2>1, LeastNatural
  <1>2. x \in 1 .. n /\ x - 1 \in P BY <1>1
  <1>3. QED BY <1>1, <1>2

(* g starts with a and takes each step with F. *)
Recursion(g, n, a, F) == \A i \in 0 .. n : g[i] = IF i = 0 THEN a ELSE F[<<g[i - 1], i>>]

(* A recursion over 0 .. n whose steps stay in S defines a function. *)
LEMMA RecursionExists ==
  ASSUME NEW n \in Nat, NEW S, NEW a \in S, NEW F \in [S \X (1 .. n) -> S]
  PROVE  \E g \in [0 .. n -> S] : Recursion(g, n, a, F)
  <1> DEFINE Upto(m, g) == \A i \in 0 .. m : g[i] = IF i = 0 THEN a ELSE F[<<g[i - 1], i>>]
             P == {m \in 0 .. n : \E g \in [0 .. m -> S] : Upto(m, g)}
  <1>1. 0 \in P
    <2> DEFINE g == [i \in 0 .. 0 |-> a]
    <2>1. g \in [0 .. 0 -> S] /\ Upto(0, g) OBVIOUS
    <2> HIDE DEF g
    <2>2. \E f \in [0 .. 0 -> S] : Upto(0, f) BY <2>1
    <2>3. QED BY <2>2
  <1>2. ASSUME NEW m \in 1 .. n, m - 1 \in P PROVE m \in P
    <2>1. PICK g \in [0 .. m - 1 -> S] : Upto(m - 1, g) BY <1>2
    <2> DEFINE h == [i \in 0 .. m |-> IF i = m THEN F[<<g[m - 1], m>>] ELSE g[i]]
    <2>2. F[<<g[m - 1], m>>] \in S OBVIOUS
    <2>3. h \in [0 .. m -> S] BY <2>2
    <2>4. ASSUME NEW i \in 0 .. m PROVE h[i] = IF i = 0 THEN a ELSE F[<<h[i - 1], i>>]
      <3>1. CASE i = m
        <4>1. i # 0 /\ h[i - 1] = g[m - 1] /\ h[i] = F[<<g[m - 1], m>>] BY <3>1
        <4> HIDE DEF h
        <4>2. QED BY <3>1, <4>1
      <3>2. CASE i # m
        <4>1. i \in 0 .. m - 1 /\ h[i] = g[i] /\ (i # 0 => h[i - 1] = g[i - 1]) BY <3>2
        <4>2. g[i] = IF i = 0 THEN a ELSE F[<<g[i - 1], i>>] BY <2>1, <4>1
        <4> HIDE DEF h
        <4>3. QED BY <4>1, <4>2
      <3>3. QED BY <3>1, <3>2
    <2> HIDE DEF h
    <2>5. Upto(m, h) BY <2>4
    <2>6. QED BY <2>3, <2>5
  <1>3. n \in P
    <2> HIDE DEF P
    <2>1. \A i \in 1 .. n : i - 1 \in P => i \in P BY <1>2
    <2>2. \A i \in 0 .. n : i \in P BY <1>1, <2>1, InductionUpTo
    <2>3. QED BY <2>2
  <1>4. QED BY <1>3 DEF Recursion

(* The same, without the case distinction. *)
Stepwise(g, n, a, F) == g[0] = a /\ \A i \in 1 .. n : g[i] = F[<<g[i - 1], i>>]

LEMMA StepwiseExists ==
  ASSUME NEW n \in Nat, NEW S, NEW a \in S, NEW F \in [S \X (1 .. n) -> S]
  PROVE  \E g \in [0 .. n -> S] : Stepwise(g, n, a, F)
  <1>1. PICK g \in [0 .. n -> S] : Recursion(g, n, a, F)
    BY RecursionExists
  <1>2. g[0] = a
    <2>1. 0 \in 0 .. n OBVIOUS
    <2>2. QED BY <1>1, <2>1 DEF Recursion
  <1>3. ASSUME NEW i \in 1 .. n PROVE g[i] = F[<<g[i - 1], i>>]
    <2>1. i \in 0 .. n /\ i # 0 OBVIOUS
    <2>2. QED BY <1>1, <2>1 DEF Recursion
  <1>4. QED BY <1>2, <1>3 DEF Stepwise

(* What every step keeps holds all along. *)
LEMMA StaysIn ==
  ASSUME NEW n \in Nat, NEW S, NEW r, r[0] \in S, \A i \in 1 .. n : r[i - 1] \in S => r[i] \in S
  PROVE  \A i \in 0 .. n : r[i] \in S
  <1> DEFINE P == {i \in 0 .. n : r[i] \in S}
  <1>1. 0 \in P OBVIOUS
  <1>2. \A i \in 1 .. n : i - 1 \in P => i \in P OBVIOUS
  <1> HIDE DEF P
  <1>3. \A i \in 0 .. n : i \in P BY <1>1, <1>2, InductionUpTo
  <1>4. QED BY <1>3 DEF P

(* A sequence whose elements each follow from the one d places before.     *)
BackBy(g, m, d, first, f) == \A i \in 1 .. m : g[i] = IF i > d THEN f[g[i - d]] ELSE first[i]

LEMMA LookingBack ==
  ASSUME NEW n \in Nat, NEW S, NEW d \in Nat \ {0}, NEW first \in [1 .. n -> S], NEW f \in [S -> S]
  PROVE  \E g \in [1 .. n -> S] : BackBy(g, n, d, first, f)
  <1> DEFINE P == {m \in 0 .. n : \E g \in [1 .. n -> S] : BackBy(g, m, d, first, f)}
  <1>1. 0 \in P BY DEF BackBy
  <1>2. ASSUME NEW m \in 1 .. n, m - 1 \in P PROVE m \in P
    <2>1. PICK g \in [1 .. n -> S] : BackBy(g, m - 1, d, first, f) BY <1>2
    <2> DEFINE v == IF m > d THEN f[g[m - d]] ELSE first[m]
               h == [g EXCEPT ![m] = v]
    <2>2. v \in S
      <3>1. m > d => m - d \in 1 .. n OBVIOUS
      <3>2. QED BY <3>1
    <2> HIDE DEF v
    <2>3. h \in [1 .. n -> S] /\ h[m] = v /\ \A i \in 1 .. n : i # m => h[i] = g[i] BY <2>2
    <2> HIDE DEF h
    <2>4. ASSUME NEW i \in 1 .. m PROVE h[i] = IF i > d THEN f[h[i - d]] ELSE first[i]
      <3>1. i > d => i - d \in 1 .. n /\ i - d # m OBVIOUS
      <3>2. i > d => h[i - d] = g[i - d] BY <2>3, <3>1
      <3>3. CASE i = m BY <2>3, <3>2, <3>3 DEF v
      <3>4. CASE i # m
        <4>1. i \in 1 .. m - 1 /\ i \in 1 .. n BY <3>4
        <4>2. g[i] = IF i > d THEN f[g[i - d]] ELSE first[i] BY <2>1, <4>1 DEF BackBy
        <4>3. h[i] = g[i] BY <2>3, <3>4, <4>1
        <4>4. QED BY <3>2, <4>2, <4>3
      <3>5. QED BY <3>3, <3>4
    <2>5. BackBy(h, m, d, first, f) BY <2>4 DEF BackBy
    <2>6. QED BY <2>3, <2>5
  <1>3. n \in P
    <2> HIDE DEF P
    <2>1. \A i \in 1 .. n : i - 1 \in P => i \in P BY <1>2
    <2>2. \A i \in 0 .. n : i \in P BY <1>1, <2>1, InductionUpTo
    <2>3. QED BY <2>2
  <1>4. QED BY <1>3
-----------------------------------------------------------------------------
(* A set of n elements has 2^n subsets, so the powers of two are positive  *)
(* and each is twice the one before.                                       *)
LEMMA SubsetsOfInterval ==
  ASSUME NEW k \in Nat
  PROVE  IsFiniteSet(SUBSET (1 .. k)) /\ Cardinality(SUBSET (1 .. k)) = 2^k
  <1>1. IsFiniteSet(1 .. k) /\ Cardinality(1 .. k) = k
    <2>1. 1 \in Int /\ k \in Int OBVIOUS
    <2>2. QED BY <2>1, FS_Interval
  <1>2. QED BY <1>1, FS_SUBSET, Zenon

LEMMA Powers == \A k \in Nat : 2^k \in Nat \ {0}
  <1> SUFFICES ASSUME NEW k \in Nat PROVE 2^k \in Nat \ {0}
    OBVIOUS
  <1> DEFINE S == SUBSET (1 .. k)
  <1>1. IsFiniteSet(S) /\ Cardinality(S) = 2^k BY SubsetsOfInterval
  <1>2. S # {} OBVIOUS
  <1> HIDE DEF S
  <1>3. Cardinality(S) \in Nat BY <1>1, FS_CardinalityType
  <1>4. Cardinality(S) # 0 BY <1>1, <1>2, FS_EmptySet
  <1>5. QED BY <1>1, <1>3, <1>4

LEMMA PowerStep == \A k \in Nat : 2^(k + 1) = 2 * 2^k
  <1> SUFFICES ASSUME NEW k \in Nat PROVE 2^(k + 1) = 2 * 2^k
    OBVIOUS
  <1> DEFINE S == SUBSET (1 .. k)
             T == SUBSET (1 .. k + 1)
             f == [U \in S |-> U \cup {k + 1}]
             X == {U \cup {k + 1} : U \in S}
  <1>1. IsFiniteSet(S) /\ Cardinality(S) = 2^k BY SubsetsOfInterval
  <1>2. IsFiniteSet(T) /\ Cardinality(T) = 2^(k + 1)
    <2>1. k + 1 \in Nat OBVIOUS
    <2>2. QED BY <2>1, SubsetsOfInterval
  <1>3. T = S \cup X
    <2>1. ASSUME NEW U \in T PROVE U \in S \cup X
      <3>1. CASE k + 1 \in U
        <4>1. U \ {k + 1} \in S BY <3>1
        <4>2. U = (U \ {k + 1}) \cup {k + 1} BY <3>1
        <4>3. QED BY <4>1, <4>2
      <3>2. CASE k + 1 \notin U
        <4>1. \A u \in U : u \in 1 .. k + 1 /\ u # k + 1 BY <3>2
        <4>2. \A u \in U : u \in 1 .. k BY <4>1
        <4>3. QED BY <4>2
      <3>3. QED BY <3>1, <3>2
    <2>2. ASSUME NEW U \in S PROVE U \in T /\ U \cup {k + 1} \in T
      <3>1. \A u \in U : u \in 1 .. k + 1 OBVIOUS
      <3>2. k + 1 \in 1 .. k + 1 OBVIOUS
      <3>3. QED BY <3>1, <3>2
    <2> HIDE DEF S, T
    <2>3. QED BY <2>1, <2>2
  <1>4. S \cap X = {}
    <2>1. \A U \in S : k + 1 \notin U OBVIOUS
    <2>2. QED BY <2>1, Zenon
  <1>5. IsFiniteSet(X) /\ Cardinality(X) = Cardinality(S)
    <2>1. f \in [S -> X] OBVIOUS
    <2>2. \A U, V \in S : f[U] = f[V] => U = V
      <3> SUFFICES ASSUME NEW U \in S, NEW V \in S, f[U] = f[V] PROVE U = V
        OBVIOUS
      <3>1. U \cup {k + 1} = V \cup {k + 1} OBVIOUS
      <3>2. k + 1 \notin U /\ k + 1 \notin V OBVIOUS
      <3>3. \A u : u \in U <=> u \in V BY <3>1, <3>2
      <3>4. QED BY <3>3
    <2>3. \A x \in X : \E U \in S : f[U] = x OBVIOUS
    <2> HIDE DEF f, S, X
    <2>4. f \in Bijection(S, X) BY <2>1, <2>2, <2>3 DEF Bijection, Injection, Surjection, IsInjective
    <2>5. ExistsBijection(S, X) BY <2>4 DEF ExistsBijection
    <2>6. QED BY <1>1, <2>5, FS_Bijection
  <1> HIDE DEF S, T, X, f
  <1>6. Cardinality(S \cup X) = Cardinality(S) + Cardinality(X) - Cardinality(S \cap X)
    BY <1>1, <1>5, FS_Union
  <1>7. Cardinality(S \cap X) = 0 BY <1>4, FS_EmptySet
  <1>8. Cardinality(S) \in Nat BY <1>1, FS_CardinalityType
  <1>9. Cardinality(T) = 2 * Cardinality(S) BY <1>3, <1>5, <1>6, <1>7, <1>8
  <1>10. QED BY <1>1, <1>2, <1>9

(* Shifting twice is shifting by the sum.                                  *)
LEMMA PowerSum ==
  ASSUME NEW a \in Nat, NEW b \in Nat
  PROVE  2^(a + b) = 2^a * 2^b
  <1> DEFINE P == {k \in 0 .. b : 2^(a + k) = 2^a * 2^k}
  <1>1. 0 \in P
    <2>1. 2^0 = 1 /\ a + 0 = a OBVIOUS
    <2>2. 2^a \in Nat BY Powers
    <2>3. 2^(a + 0) = 2^a * 2^0 BY <2>1, <2>2
    <2>4. QED BY <2>3
  <1>2. ASSUME NEW k \in 1 .. b, k - 1 \in P PROVE k \in P
    <2>1. 2^(a + (k - 1)) = 2^a * 2^(k - 1) BY <1>2
    <2> DEFINE j == k - 1
               m == a + j
    <2>2. j \in Nat /\ m \in Nat /\ j + 1 = k /\ m + 1 = a + k OBVIOUS
    <2> HIDE DEF j, m
    <2>3. 2^(j + 1) = 2 * 2^j /\ 2^(m + 1) = 2 * 2^m BY <2>2, PowerStep
    <2>4. 2^k = 2 * 2^j /\ 2^(a + k) = 2 * 2^m BY <2>2, <2>3
    <2>5. 2^m = 2^a * 2^j BY <2>1 DEF m, j
    <2>6. 2^j \in Nat /\ 2^a \in Nat BY <2>2, Powers
    <2>7. 2^(a + k) = 2^a * 2^k
      <3> DEFINE x == 2^a
                 y == 2^j
      <3>1. 2 * (x * y) = x * (2 * y)
        <4> HIDE DEF x, y
        <4>1. x \in Nat /\ y \in Nat BY <2>6 DEF x, y
        <4>2. QED BY <4>1
      <3>2. QED BY <2>4, <2>5, <3>1, Zenon
    <2>8. QED BY <2>7
  <1>3. b \in P
    <2> HIDE DEF P
    <2>1. \A i \in 0 .. b : i \in P BY <1>1, <1>2, InductionUpTo
    <2>2. QED BY <2>1
  <1>4. QED BY <1>3

(* A longer shift is not the smaller one.                                  *)
LEMMA PowerOrder ==
  ASSUME NEW a \in Nat, NEW b \in Nat, a <= b
  PROVE  2^a <= 2^b
  <1> DEFINE c == b - a
  <1>1. c \in Nat /\ a + c = b OBVIOUS
  <1> HIDE DEF c
  <1>2. 2^b = 2^a * 2^c
    <2>1. 2^(a + c) = 2^a * 2^c BY <1>1, PowerSum
    <2>2. QED BY <1>1, <2>1
  <1>3. 2^a \in Nat \ {0} /\ 2^c \in Nat \ {0} BY <1>1, Powers
  <1> DEFINE x == 2^a
             y == 2^c
  <1>4. x <= x * y
    <2> HIDE DEF x, y
    <2>1. x \in Nat /\ y \in Nat /\ y >= 1 BY <1>3 DEF x, y
    <2>2. QED BY <2>1
  <1>5. QED BY <1>2, <1>4

(* Division by a power, as two inequalities.                               *)
LEMMA QuotientIs ==
  ASSUME NEW x \in Int, NEW d \in Nat \ {0}, NEW q \in Int, q * d <= x, x < (q + 1) * d
  PROVE  x \div d = q
  OBVIOUS

LEMMA QuotientGrows ==
  ASSUME NEW x \in Int, NEW y \in Int, NEW d \in Nat \ {0}, x <= y
  PROVE  x \div d <= y \div d
  <1> DEFINE q == x \div d
             r == y \div d
  <1>1. q \in Int /\ q * d <= x /\ r \in Int /\ y < (r + 1) * d OBVIOUS
  <1> HIDE DEF q, r
  <1>2. CASE q > r
    <2>1. (r + 1) * d <= q * d BY <1>1, <1>2
    <2>2. (r + 1) * d \in Int /\ q * d \in Int BY <1>1
    <2>3. QED BY <1>1, <2>1, <2>2
  <1>3. QED BY <1>1, <1>2 DEF q, r
=============================================================================
