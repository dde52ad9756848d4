--------------------------- MODULE SpikeInsnProofs ---------------------------
(***************************************************************************)
(* Proofs about the launcher, for every width of an address, every size of *)
(* a page, and every command line.                                         *)
(***************************************************************************)
EXTENDS SpikeInsn, NatRecursion

-----------------------------------------------------------------------------
(* Sorting.  L is the set of the pairs in order. *)

Ordering(L, S) ==
    /\ \A a, b \in S : <<a, b>> \in L \/ <<b, a>> \in L
    /\ \A a, b, c \in S : <<a, b>> \in L /\ <<b, c>> \in L => <<a, c>> \in L

InOrder(s, p, n, L) == \A i, j \in 1 .. n : i < j => <<s[p[i]], s[p[j]]>> \in L

(* A finite sequence has an element that may come last. *)
LEMMA LastInOrder ==
  ASSUME NEW S, NEW L, Ordering(L, S), NEW n \in Nat \ {0}, NEW s \in [1 .. n -> S]
  PROVE  \E k \in 1 .. n : \A i \in 1 .. n : <<s[i], s[k]>> \in L
  <1> DEFINE P == {m \in 0 .. n : m = 0 \/ \E k \in 1 .. m : \A i \in 1 .. m : <<s[i], s[k]>> \in L}
  <1>1. 0 \in P OBVIOUS
  <1>2. ASSUME NEW m \in 1 .. n, m - 1 \in P PROVE m \in P
    <2>1. <<s[m], s[m]>> \in L BY DEF Ordering
    <2>2. CASE m - 1 = 0 BY <2>1, <2>2
    <2>3. CASE m - 1 # 0
      <3>1. PICK k \in 1 .. m - 1 : \A i \in 1 .. m - 1 : <<s[i], s[k]>> \in L BY <1>2, <2>3
      <3>2. s[k] \in S /\ s[m] \in S /\ \A i \in 1 .. m - 1 : s[i] \in S OBVIOUS
      <3>3. CASE <<s[m], s[k]>> \in L
        <4>1. \A i \in 1 .. m : i \in 1 .. m - 1 \/ i = m OBVIOUS
        <4>2. \A i \in 1 .. m : <<s[i], s[k]>> \in L BY <3>1, <3>3, <4>1
        <4>3. k \in 1 .. m OBVIOUS
        <4>4. QED BY <4>2, <4>3
      <3>4. CASE <<s[k], s[m]>> \in L
        <4>1. \A i \in 1 .. m - 1 : <<s[i], s[m]>> \in L BY <3>1, <3>2, <3>4 DEF Ordering
        <4>2. \A i \in 1 .. m : <<s[i], s[m]>> \in L BY <2>1, <4>1
        <4>3. m \in 1 .. m /\ m \in 0 .. n OBVIOUS
        <4>4. \E x \in 1 .. m : \A i \in 1 .. m : <<s[i], s[x]>> \in L BY <4>2, <4>3, Zenon
        <4>5. QED BY <4>3, <4>4
      <3>5. QED BY <3>2, <3>3, <3>4 DEF Ordering
    <2>4. QED BY <2>2, <2>3
  <1>3. n \in P
    <2> HIDE DEF P
    <2>1. \A i \in 1 .. n : i - 1 \in P => i \in P BY <1>2
    <2>2. \A i \in 0 .. n : i \in P BY <1>1, <2>1, InductionUpTo
    <2>3. QED BY <2>2
  <1>4. QED BY <1>3

LEMMA BijectionMeans ==
  ASSUME NEW T, NEW p
  PROVE  p \in Bijection(T, T) <=> /\ p \in [T -> T]
                                   /\ \A i, j \in T : p[i] = p[j] => i = j
                                   /\ \A j \in T : \E i \in T : p[i] = j
  BY DEF Bijection, Injection, Surjection, IsInjective

(* A finite sequence can be put into order. *)
LEMMA SortExists ==
  ASSUME NEW S, NEW L, Ordering(L, S), NEW n \in Nat, NEW s \in [1 .. n -> S]
  PROVE  \E p \in Bijection(1 .. n, 1 .. n) : InOrder(s, p, n, L)
  <1> USE DEF InOrder
  <1> DEFINE P == {m \in 0 .. n : \A t \in [1 .. m -> S] :
                       \E p \in Bijection(1 .. m, 1 .. m) : InOrder(t, p, m, L)}
  <1>1. 0 \in P
    <2> SUFFICES ASSUME NEW t \in [1 .. 0 -> S]
                 PROVE  \E p \in Bijection(1 .. 0, 1 .. 0) : InOrder(t, p, 0, L)
      OBVIOUS
    <2> DEFINE p == [i \in 1 .. 0 |-> i]
    <2>1. /\ p \in [1 .. 0 -> 1 .. 0] /\ \A i, j \in 1 .. 0 : p[i] = p[j] => i = j
          /\ \A j \in 1 .. 0 : \E i \in 1 .. 0 : p[i] = j
      OBVIOUS
    <2> HIDE DEF p
    <2>2. p \in Bijection(1 .. 0, 1 .. 0) BY <2>1, BijectionMeans
    <2>3. InOrder(t, p, 0, L) OBVIOUS
    <2>4. QED BY <2>2, <2>3
  <1>2. ASSUME NEW m \in 1 .. n, m - 1 \in P PROVE m \in P
    <2> SUFFICES ASSUME NEW t \in [1 .. m -> S]
                 PROVE  \E p \in Bijection(1 .. m, 1 .. m) : InOrder(t, p, m, L)
      OBVIOUS
    <2>0. m \in Nat \ {0} OBVIOUS
    <2>1. PICK k \in 1 .. m : \A i \in 1 .. m : <<t[i], t[k]>> \in L BY <2>0, LastInOrder, Zenon
    <2> DEFINE at == [i \in 1 .. m |-> IF i = k THEN m ELSE i]
               u == [i \in 1 .. m - 1 |-> t[at[i]]]
    <2>2. u \in [1 .. m - 1 -> S] OBVIOUS
    <2>3. PICK q \in Bijection(1 .. m - 1, 1 .. m - 1) : InOrder(u, q, m - 1, L) BY <1>2, <2>2
    <2>a. q \in [1 .. m - 1 -> 1 .. m - 1] BY BijectionMeans
    <2>b. \A i, j \in 1 .. m - 1 : q[i] = q[j] => i = j BY BijectionMeans
    <2>c. \A j \in 1 .. m - 1 : \E i \in 1 .. m - 1 : q[i] = j BY BijectionMeans
    <2> DEFINE p == [i \in 1 .. m |-> IF i = m THEN k ELSE at[q[i]]]
    <2>4. p \in [1 .. m -> 1 .. m] /\ \A i \in 1 .. m - 1 : u[i] = t[at[i]]
      <3>1. \A i \in 1 .. m - 1 : at[i] \in 1 .. m OBVIOUS
      <3>2. \A i \in 1 .. m : i # m => i \in 1 .. m - 1 OBVIOUS
      <3> HIDE DEF at
      <3>3. \A i \in 1 .. m : i # m => at[q[i]] \in 1 .. m BY <2>a, <3>1, <3>2
      <3>4. p \in [1 .. m -> 1 .. m] BY <3>3
      <3>5. \A i \in 1 .. m - 1 : u[i] = t[at[i]] OBVIOUS
      <3>6. QED BY <3>4, <3>5
    <2>5. /\ p[m] = k /\ \A i \in 1 .. m - 1 : p[i] = at[q[i]]
          /\ \A i \in 1 .. m - 1 : at[i] # k
          /\ \A i, j \in 1 .. m - 1 : at[i] = at[j] => i = j
      <3>1. p[m] = k OBVIOUS
      <3>2. \A i \in 1 .. m - 1 : p[i] = at[q[i]] OBVIOUS
      <3> HIDE DEF p
      <3>3. \A i \in 1 .. m - 1 : at[i] # k OBVIOUS
      <3>4. \A i, j \in 1 .. m - 1 : at[i] = at[j] => i = j OBVIOUS
      <3>5. QED BY <3>1, <3>2, <3>3, <3>4
    <2>6. /\ \A j \in 1 .. m - 1 : j # k => at[j] = j
          /\ k # m => at[k] = m
      OBVIOUS
    <2> HIDE DEF at, p, u
    <2>7. \A i, j \in 1 .. m : p[i] = p[j] => i = j
      <3> SUFFICES ASSUME NEW i \in 1 .. m, NEW j \in 1 .. m, p[i] = p[j] PROVE i = j
        OBVIOUS
      <3>1. CASE i = m \/ j = m
        <4>1. \A x \in 1 .. m - 1 : p[x] # k
          <5> SUFFICES ASSUME NEW x \in 1 .. m - 1 PROVE p[x] # k
            OBVIOUS
          <5>1. q[x] \in 1 .. m - 1 BY <2>a
          <5>2. p[x] = at[q[x]] BY <2>5
          <5>3. at[q[x]] # k BY <2>5, <5>1
          <5>4. QED BY <5>2, <5>3
        <4>2. i # m => i \in 1 .. m - 1 OBVIOUS
        <4>3. j # m => j \in 1 .. m - 1 OBVIOUS
        <4>4. QED BY <2>5, <3>1, <4>1, <4>2, <4>3, Zenon
      <3>2. CASE i # m /\ j # m
        <4>1. i \in 1 .. m - 1 /\ j \in 1 .. m - 1 BY <3>2
        <4>2. at[q[i]] = at[q[j]] BY <2>5, <4>1
        <4>3. q[i] = q[j] BY <2>a, <2>5, <4>1, <4>2
        <4>4. QED BY <2>b, <4>1, <4>3
      <3>3. QED BY <3>1, <3>2
    <2>8. \A j \in 1 .. m : \E i \in 1 .. m : p[i] = j
      <3> SUFFICES ASSUME NEW j \in 1 .. m PROVE \E i \in 1 .. m : p[i] = j
        OBVIOUS
      <3>1. CASE j = k BY <2>5, <3>1
      <3>2. CASE j # k /\ j # m
        <4>1. j \in 1 .. m - 1 BY <3>2
        <4>2. PICK i \in 1 .. m - 1 : q[i] = j BY <2>c, <4>1
        <4>3. i \in 1 .. m /\ p[i] = j BY <2>5, <2>6, <3>2, <4>1, <4>2
        <4>4. QED BY <4>3
      <3>3. CASE j # k /\ j = m
        <4>1. k \in 1 .. m - 1 BY <3>3
        <4>2. PICK i \in 1 .. m - 1 : q[i] = k BY <2>c, <4>1
        <4>3. i \in 1 .. m /\ p[i] = j BY <2>5, <2>6, <3>3, <4>2
        <4>4. QED BY <4>3
      <3>4. QED BY <3>1, <3>2, <3>3
    <2>9. InOrder(t, p, m, L)
      <3> SUFFICES ASSUME NEW i \in 1 .. m, NEW j \in 1 .. m, i < j
                   PROVE  <<t[p[i]], t[p[j]]>> \in L
        OBVIOUS
      <3>1. CASE j = m BY <2>1, <2>4, <2>5, <3>1
      <3>2. CASE j # m
        <4>1. i \in 1 .. m - 1 /\ j \in 1 .. m - 1 BY <3>2
        <4>2. q[i] \in 1 .. m - 1 /\ q[j] \in 1 .. m - 1 BY <2>a, <4>1
        <4>3. t[p[i]] = u[q[i]] /\ t[p[j]] = u[q[j]] BY <2>4, <2>5, <4>1, <4>2, Zenon
        <4>4. QED BY <2>3, <4>1, <4>3
      <3>3. QED BY <3>1, <3>2
    <2>10. p \in Bijection(1 .. m, 1 .. m) BY <2>4, <2>7, <2>8, BijectionMeans
    <2>11. QED BY <2>9, <2>10
  <1>3. n \in P
    <2> HIDE DEF P
    <2>1. \A i \in 1 .. n : i - 1 \in P => i \in P BY <1>2
    <2>2. \A i \in 0 .. n : i \in P BY <1>1, <2>1, InductionUpTo
    <2>3. QED BY <2>2
  <1>4. QED BY <1>3

Span == [base : Nat, size : Nat]

(* Rearranged(t, s): t has the elements of s. *)
Rearranged(t, s) ==
    /\ DOMAIN t = DOMAIN s
    /\ \A i \in DOMAIN s : \E j \in DOMAIN s : t[i] = s[j]
    /\ \A j \in DOMAIN s : \E i \in DOMAIN s : t[i] = s[j]

(* std::sort of regions and of hart ids. *)
LEMMA SortedRegions ==
  ASSUME NEW s \in Seq(Span)
  PROVE  LET t == Sort(s, sort_mem_region)
         IN  /\ t \in Seq(Span) /\ Len(t) = Len(s) /\ Rearranged(t, s)
             /\ \A i, j \in DOMAIN s : i < j => t[i].base <= t[j].base
  <1> DEFINE L == {x \in Span \X Span : ~sort_mem_region(x[2], x[1])}
             n == Len(s)
             q == CHOOSE p \in Bijection(DOMAIN s, DOMAIN s) :
                     \A i, j \in DOMAIN s : i < j => ~sort_mem_region(s[p[j]], s[p[i]])
             t == [i \in DOMAIN s |-> s[q[i]]]
  <1>1. n \in Nat /\ DOMAIN s = 1 .. n /\ s \in [1 .. n -> Span] OBVIOUS
  <1>2. Ordering(L, Span)
    <2>1. \A a \in Span : a.base \in Nat /\ a.size \in Nat BY DEF Span
    <2>2. \A a, b \in Span : <<a, b>> \in L <=> ~sort_mem_region(b, a) OBVIOUS
    <2> HIDE DEF L
    <2>3. \A a, b \in Span : <<a, b>> \in L <=> a.base < b.base \/ (a.base = b.base /\ a.size <= b.size)
      <3> SUFFICES ASSUME NEW a \in Span, NEW b \in Span
                   PROVE  ~sort_mem_region(b, a) <=> a.base < b.base \/ (a.base = b.base /\ a.size <= b.size)
        BY <2>2
      <3>1. QED BY <2>1 DEF sort_mem_region
    <2>4. ASSUME NEW a \in Span, NEW b \in Span PROVE <<a, b>> \in L \/ <<b, a>> \in L
      BY <2>1, <2>3
    <2>5. ASSUME NEW a \in Span, NEW b \in Span, NEW c \in Span, <<a, b>> \in L, <<b, c>> \in L
          PROVE  <<a, c>> \in L
      <3>1. /\ a.base < b.base \/ (a.base = b.base /\ a.size <= b.size)
            /\ b.base < c.base \/ (b.base = c.base /\ b.size <= c.size)
        BY <2>3, <2>5
      <3>2. a.base < c.base \/ (a.base = c.base /\ a.size <= c.size) BY <2>1, <3>1
      <3>3. QED BY <2>3, <3>2
    <2>6. QED BY <2>4, <2>5 DEF Ordering
  <1>3. \A a, b \in Span : <<a, b>> \in L => ~sort_mem_region(b, a) OBVIOUS
  <1> HIDE DEF L, n
  <1>4. PICK p \in Bijection(1 .. n, 1 .. n) : InOrder(s, p, n, L)
    BY <1>1, <1>2, SortExists
  <1>5. p \in [1 .. n -> 1 .. n] BY BijectionMeans
  <1>6. \A i, j \in DOMAIN s : i < j => ~sort_mem_region(s[p[j]], s[p[i]])
    BY <1>1, <1>3, <1>4, <1>5 DEF InOrder
  <1>7. /\ q \in Bijection(DOMAIN s, DOMAIN s)
        /\ \A i, j \in DOMAIN s : i < j => ~sort_mem_region(s[q[j]], s[q[i]])
    BY <1>1, <1>4, <1>6
  <1>8. Sort(s, sort_mem_region) = t BY DEF Sort
  <1> HIDE DEF q
  <1>9. q \in [DOMAIN s -> DOMAIN s] /\ \A j \in DOMAIN s : \E i \in DOMAIN s : q[i] = j
    BY <1>7, BijectionMeans
  <1>10. t \in [1 .. n -> Span] BY <1>1, <1>9
  <1>11. t \in Seq(Span) /\ Len(t) = n BY <1>1, <1>10
  <1>12. Rearranged(t, s)
    <2>1. \A i \in DOMAIN s : t[i] = s[q[i]] /\ q[i] \in DOMAIN s BY <1>9
    <2>2. DOMAIN t = DOMAIN s OBVIOUS
    <2> HIDE DEF t
    <2>3. ASSUME NEW j \in DOMAIN s PROVE \E i \in DOMAIN s : t[i] = s[j]
      <3>1. PICK i \in DOMAIN s : q[i] = j BY <1>9
      <3>2. t[i] = s[j] BY <2>1, <3>1
      <3>3. QED BY <3>2
    <2>4. QED BY <2>1, <2>2, <2>3 DEF Rearranged
  <1>13. \A i, j \in DOMAIN s : i < j => t[i].base <= t[j].base
    <2> SUFFICES ASSUME NEW i \in DOMAIN s, NEW j \in DOMAIN s, i < j PROVE t[i].base <= t[j].base
      OBVIOUS
    <2> DEFINE a == t[i]
               b == t[j]
    <2>1. a = s[q[i]] /\ b = s[q[j]] /\ a \in Span /\ b \in Span BY <1>1, <1>10
    <2>2. ~sort_mem_region(b, a) BY <1>7, <2>1
    <2> HIDE DEF a, b
    <2>3. a.base \in Nat /\ b.base \in Nat BY <2>1 DEF Span
    <2>4. ~(b.base < a.base) BY <2>2 DEF sort_mem_region
    <2>5. a.base <= b.base BY <2>3, <2>4
    <2>6. QED BY <2>5 DEF a, b
  <1>14. QED BY <1>8, <1>11, <1>12, <1>13 DEF n

LEMMA SortedIds ==
  ASSUME NEW s \in Seq(Int)
  PROVE  LET t == Sort(s, <)
         IN  /\ t \in Seq(Int) /\ Len(t) = Len(s)
             /\ \A i, j \in DOMAIN s : i < j => t[i] <= t[j]
  <1> DEFINE L == {x \in Int \X Int : ~(x[2] < x[1])}
             n == Len(s)
             q == CHOOSE p \in Bijection(DOMAIN s, DOMAIN s) :
                     \A i, j \in DOMAIN s : i < j => ~(s[p[j]] < s[p[i]])
             t == [i \in DOMAIN s |-> s[q[i]]]
  <1>1. n \in Nat /\ DOMAIN s = 1 .. n /\ s \in [1 .. n -> Int] OBVIOUS
  <1>2. Ordering(L, Int)
    <2>1. \A a, b \in Int : <<a, b>> \in L <=> a <= b OBVIOUS
    <2> HIDE DEF L
    <2>2. QED BY <2>1 DEF Ordering
  <1>3. \A a, b \in Int : <<a, b>> \in L => ~(b < a) OBVIOUS
  <1> HIDE DEF L, n
  <1>4. PICK p \in Bijection(1 .. n, 1 .. n) : InOrder(s, p, n, L)
    BY <1>1, <1>2, SortExists
  <1>5. p \in [1 .. n -> 1 .. n] BY BijectionMeans
  <1>6. \A i, j \in DOMAIN s : i < j => ~(s[p[j]] < s[p[i]])
    BY <1>1, <1>3, <1>4, <1>5 DEF InOrder
  <1>7. /\ q \in Bijection(DOMAIN s, DOMAIN s)
        /\ \A i, j \in DOMAIN s : i < j => ~(s[q[j]] < s[q[i]])
    BY <1>1, <1>4, <1>6
  <1>8. Sort(s, <) = t BY DEF Sort
  <1> HIDE DEF q
  <1>9. q \in [DOMAIN s -> DOMAIN s] BY <1>7, BijectionMeans
  <1>10. t \in [1 .. n -> Int] BY <1>1, <1>9
  <1>11. t \in Seq(Int) /\ Len(t) = n BY <1>1, <1>10
  <1>12. \A i, j \in DOMAIN s : i < j => t[i] <= t[j]
    BY <1>1, <1>7, <1>9, <1>10
  <1>13. QED BY <1>8, <1>11, <1>12 DEF n

-----------------------------------------------------------------------------
(* Pages.  A multiple of the page size is where a page begins. *)

Multiple(x) == \E k \in Nat : x = PGSIZE * k
PageOf(x) == x - (x % PGSIZE)

LEMMA MultiplesGrow ==
  ASSUME NEW k \in Nat, NEW m \in Nat
  PROVE  /\ PGSIZE * k \in Nat
         /\ k < m => PGSIZE * k + PGSIZE <= PGSIZE * m
         /\ PGSIZE * k + PGSIZE * m = PGSIZE * (k + m)
         /\ k <= m => PGSIZE * m - PGSIZE * k = PGSIZE * (m - k)
  BY LauncherAssumption

LEMMA MultipleSums ==
  ASSUME NEW x, NEW y, Multiple(x), Multiple(y)
  PROVE  /\ x \in Nat /\ y \in Nat /\ Multiple(x + y)
         /\ x < y => x + PGSIZE <= y
         /\ x <= y => Multiple(y - x)
  <1>1. PICK k \in Nat : x = PGSIZE * k BY DEF Multiple
  <1>2. PICK m \in Nat : y = PGSIZE * m BY DEF Multiple
  <1>3. PGSIZE \in Nat \ {0} BY LauncherAssumption
  <1> DEFINE X == PGSIZE * k
             Y == PGSIZE * m
  <1>4. /\ X \in Nat /\ Y \in Nat /\ X + Y = PGSIZE * (k + m)
        /\ k < m => X + PGSIZE <= Y
        /\ m < k => Y + PGSIZE <= X
        /\ k <= m => Y - X = PGSIZE * (m - k)
    BY MultiplesGrow
  <1>5. k = m => X = Y OBVIOUS
  <1>6. Multiple(x + y)
    <2>1. k + m \in Nat OBVIOUS
    <2>2. QED BY <1>1, <1>2, <1>4, <2>1 DEF Multiple
  <1>7. x < y => x + PGSIZE <= y
    <2> HIDE DEF X, Y
    <2>1. X < Y => X + PGSIZE <= Y BY <1>3, <1>4, <1>5
    <2>2. QED BY <1>1, <1>2, <2>1 DEF X, Y
  <1>8. x <= y => k <= m
    <2> HIDE DEF X, Y
    <2>1. X <= Y => k <= m BY <1>3, <1>4
    <2>2. QED BY <1>1, <1>2, <2>1 DEF X, Y
  <1>9. x <= y => Multiple(y - x)
    <2> SUFFICES ASSUME x <= y PROVE Multiple(y - x)
      OBVIOUS
    <2>1. m - k \in Nat BY <1>8
    <2>2. y - x = PGSIZE * (m - k) BY <1>1, <1>2, <1>4, <1>8
    <2>3. QED BY <2>1, <2>2 DEF Multiple
  <1>10. QED BY <1>1, <1>2, <1>4, <1>6, <1>7, <1>9

LEMMA PageBegins ==
  ASSUME NEW x \in Nat
  PROVE  /\ Multiple(PageOf(x)) /\ PageOf(x) <= x /\ x < PageOf(x) + PGSIZE
         /\ x % PGSIZE \in 0 .. PGSIZE - 1 /\ x = PageOf(x) + (x % PGSIZE)
         /\ x % PGSIZE = 0 <=> Multiple(x)
         /\ PageOf(x) = PGSIZE * (x \div PGSIZE) /\ x \div PGSIZE \in Nat
  <1>1. PGSIZE \in Nat \ {0} BY LauncherAssumption
  <1> DEFINE k == x \div PGSIZE
             r == x % PGSIZE
             B == PGSIZE * k
  <1>2. k \in Nat /\ r \in 0 .. PGSIZE - 1 /\ x = B + r BY <1>1
  <1>3. B \in Nat /\ Multiple(B) BY <1>2, MultiplesGrow DEF Multiple
  <1> HIDE DEF k, r, B
  <1>4. PageOf(x) = B BY <1>2, <1>3 DEF PageOf, r
  <1>5. r = 0 => Multiple(x) BY <1>2, <1>3
  <1>6. ASSUME Multiple(x) PROVE r = 0
    <2>1. B < x => B + PGSIZE <= x BY <1>3, <1>6, MultipleSums
    <2>2. QED BY <1>1, <1>2, <1>3, <2>1
  <1>7. QED BY <1>1, <1>2, <1>3, <1>4, <1>5, <1>6 DEF k, r, B

LEMMA SamePage ==
  ASSUME NEW x \in Nat, NEW y \in Nat
  PROVE  x \div PGSIZE = y \div PGSIZE <=> PageOf(x) = PageOf(y)
  <1> DEFINE k == x \div PGSIZE
             m == y \div PGSIZE
  <1>1. k \in Nat /\ m \in Nat /\ PageOf(x) = PGSIZE * k /\ PageOf(y) = PGSIZE * m
    BY PageBegins
  <1>2. k < m => PGSIZE * k + PGSIZE <= PGSIZE * m BY <1>1, MultiplesGrow
  <1>3. m < k => PGSIZE * m + PGSIZE <= PGSIZE * k BY <1>1, MultiplesGrow
  <1> DEFINE X == PGSIZE * k
             Y == PGSIZE * m
  <1>4. X \in Nat /\ Y \in Nat /\ PGSIZE \in Nat \ {0} BY <1>1, MultiplesGrow, LauncherAssumption
  <1>5. k = m => X = Y OBVIOUS
  <1>6. k = m <=> X = Y
    <2>1. (k < m => X + PGSIZE <= Y) /\ (m < k => Y + PGSIZE <= X) BY <1>2, <1>3
    <2> HIDE DEF k, m, X, Y
    <2>2. QED BY <1>1, <1>4, <1>5, <2>1
  <1>7. QED BY <1>1, <1>6

(* Sums below twice the number of addresses. *)
LEMMA Wrapped ==
  ASSUME NEW x \in 0 .. 2 * Space - 1
  PROVE  (x < Space => x % Space = x) /\ (x >= Space => x % Space = x - Space)
  <1>1. Space \in Nat \ {0} BY LauncherAssumption
  <1>2. CASE x < Space BY <1>1, <1>2
  <1>3. CASE x >= Space
    <2>1. x - Space \in 0 .. Space - 1 /\ x = Space * 1 + (x - Space) BY <1>1, <1>3
    <2>2. QED BY <1>1, <1>3, <2>1
  <1>4. QED BY <1>1, <1>2, <1>3

-----------------------------------------------------------------------------
(* Regions *)

Supported ==
    {r \in Span : /\ r.size > 0 /\ r.size < Space /\ r.base + r.size <= Space
                  /\ Multiple(r.base) /\ Multiple(r.size)}

LEMMA SpaceMultiple == Multiple(Space) /\ Space \in Nat \ {0} /\ PGSIZE \in Nat \ {0} /\ PGSIZE < Space
  <1>1. Space \in Nat /\ Space % PGSIZE = 0 /\ PGSIZE \in Nat \ {0} /\ Space > PGSIZE BY LauncherAssumption
  <1>2. Multiple(Space) BY <1>1, PageBegins
  <1>3. QED BY <1>1, <1>2

LEMMA RegionMeans ==
  ASSUME NEW base \in Nat, NEW size \in Nat
  PROVE  LET r == Region(base, size)
         IN  r.base = base /\ r.size = size /\ r \in Span
  BY DEF Region, Span

LEMMA SupportedRegion ==
  ASSUME NEW r \in Supported
  PROVE  /\ r \in Span /\ r.base \in Nat /\ r.size \in Nat /\ r.size > 0 /\ r.size < Space /\ r.base + r.size <= Space
         /\ Multiple(r.base) /\ Multiple(r.size) /\ Multiple(r.base + r.size)
         /\ InclusiveEnd(r) = r.base + r.size - 1
         /\ check_if_supported(r.base, r.size)
         /\ Addresses(r) = r.base .. r.base + r.size - 1
  <1>1. /\ r \in Span /\ r.base \in Nat /\ r.size \in Nat /\ r.size > 0 /\ r.size < Space
        /\ r.base + r.size <= Space /\ Multiple(r.base) /\ Multiple(r.size)
    BY DEF Supported, Span
  <1> DEFINE b == r.base
             z == r.size
  <1> HIDE DEF b, z
  <1>2. b \in Nat /\ z \in Nat /\ z > 0 /\ z < Space /\ b + z <= Space /\ Multiple(b) /\ Multiple(z)
    BY <1>1 DEF b, z
  <1>3. Multiple(b + z) BY <1>2, MultipleSums
  <1>4. (b + z - 1) % Space = b + z - 1 BY <1>2, Wrapped, SpaceMultiple
  <1>5. (b + z) % Space > b \/ (b + z) % Space = 0
    <2>1. b + z \in 0 .. 2 * Space - 1 BY <1>2, SpaceMultiple
    <2> DEFINE w == b + z
    <2>2. (w < Space => w % Space = w) /\ (w >= Space => w % Space = w - Space)
      BY <2>1, Wrapped
    <2>3. QED BY <1>2, <2>2, SpaceMultiple
  <1>6. b % PGSIZE = 0 /\ z % PGSIZE = 0 BY <1>2, PageBegins
  <1>7. check_if_supported(b, z) BY <1>2, <1>5, <1>6 DEF check_if_supported
  <1>8. QED BY <1>1, <1>3, <1>4, <1>7 DEF b, z, InclusiveEnd, Addresses

(* What check_if_supported accepts. *)
LEMMA SupportedIf ==
  ASSUME NEW base \in 0 .. Space - 1, NEW size \in 0 .. Space - 1, check_if_supported(base, size)
  PROVE  Region(base, size) \in Supported
  <1>1. size > 0 /\ ((base + size) % Space > base \/ (base + size) % Space = 0)
    BY DEF check_if_supported
  <1>2. base \in Nat /\ size \in Nat /\ Space \in Nat \ {0} /\ base + size \in 0 .. 2 * Space - 1
    BY SpaceMultiple
  <1> DEFINE w == base + size
  <1>3. (w < Space => w % Space = w) /\ (w >= Space => w % Space = w - Space)
    BY <1>2, Wrapped
  <1>4. base + size <= Space BY <1>1, <1>2, <1>3
  <1>5. Multiple(base) /\ Multiple(size) BY <1>2, PageBegins DEF check_if_supported
  <1> DEFINE r == Region(base, size)
  <1>6. r.base = base /\ r.size = size /\ r \in Span BY <1>2, RegionMeans
  <1> HIDE DEF r
  <1>7. r \in Supported BY <1>1, <1>2, <1>4, <1>5, <1>6 DEF Supported
  <1>8. QED BY <1>7 DEF r

RoundedUp(x) == IF x % PGSIZE = 0 THEN x ELSE x + PGSIZE - (x % PGSIZE)

LEMMA RoundUp ==
  ASSUME NEW x \in Nat
  PROVE  Multiple(RoundedUp(x)) /\ x <= RoundedUp(x) /\ RoundedUp(x) < x + PGSIZE /\ RoundedUp(x) \in Nat
  <1> DEFINE p == PageOf(x)
             r == x % PGSIZE
  <1>1. Multiple(p) /\ r \in 0 .. PGSIZE - 1 /\ x = p + r /\ (r = 0 <=> Multiple(x))
    BY PageBegins
  <1>2. Multiple(PGSIZE)
    <2>1. PGSIZE = PGSIZE * 1 BY SpaceMultiple
    <2>2. QED BY <2>1 DEF Multiple
  <1>3. p \in Nat /\ Multiple(p + PGSIZE) BY <1>1, <1>2, MultipleSums
  <1>4. RoundedUp(x) = IF r = 0 THEN x ELSE x + PGSIZE - r BY DEF RoundedUp
  <1> HIDE DEF p, r
  <1>5. r # 0 => x + PGSIZE - r = p + PGSIZE BY <1>1, <1>3, SpaceMultiple
  <1>6. QED BY <1>1, <1>3, <1>4, <1>5, SpaceMultiple

(* create_mem_region: the region it makes is supported, and consists of    *)
(* the pages that were asked for when the request does not wrap around.    *)
LEMMA CreatedRegion ==
  ASSUME NEW base \in 0 .. Space - 1, NEW size \in 0 .. Space - 1,
         create_mem_region(base, size) # Unsupported
  PROVE  LET r == create_mem_region(base, size)
         IN  /\ r \in Supported
             /\ Fit(<<base, size>>) => Addresses(r) = Requested(<<base, size>>)
  <1> DEFINE grown == (size + (base % PGSIZE)) % Space
             up == RoundedUp(grown)
             aligned == up % Space
             down == base - (base % PGSIZE)
             last == base + size - 1
  <1>1. /\ check_if_supported(down, aligned)
        /\ create_mem_region(base, size) = Region(down, aligned)
    BY DEF create_mem_region, RoundedUp
  <1>2. /\ base \in Nat /\ size \in Nat /\ Space \in Nat \ {0} /\ PGSIZE \in Nat \ {0}
        /\ PGSIZE < Space /\ Multiple(Space)
    BY SpaceMultiple
  <1>3. /\ down = PageOf(base) /\ Multiple(down) /\ down \in Nat /\ down <= base /\ base < down + PGSIZE
        /\ base % PGSIZE = base - down /\ base % PGSIZE \in 0 .. PGSIZE - 1
    <2>1. Multiple(PageOf(base)) /\ PageOf(base) <= base /\ base < PageOf(base) + PGSIZE
          /\ base % PGSIZE \in 0 .. PGSIZE - 1
      BY <1>2, PageBegins
    <2>2. PageOf(base) = down BY DEF PageOf
    <2>3. down \in Nat BY <2>1, <2>2, MultipleSums
    <2>4. QED BY <1>2, <2>1, <2>2, <2>3
  <1> DEFINE w == size + (base - down)
  <1>4. /\ w \in 0 .. 2 * Space - 1 /\ grown = w % Space BY <1>2, <1>3
  <1> HIDE DEF w, grown
  <1>5. /\ (w < Space => grown = w) /\ (w >= Space => grown = w - Space)
        /\ grown \in 0 .. Space - 1
    BY <1>2, <1>4, Wrapped
  <1> HIDE DEF down
  <1>6. Multiple(up) /\ grown <= up /\ up < grown + PGSIZE /\ up \in Nat
    BY <1>2, <1>5, RoundUp
  <1> HIDE DEF up
  <1>7. up <= Space
    <2>1. Space < up => Space + PGSIZE <= up BY <1>2, <1>6, MultipleSums
    <2>2. QED BY <1>2, <1>5, <1>6, <2>1
  <1>8. (up < Space => aligned = up) /\ (up >= Space => aligned = up - Space)
    BY <1>2, <1>6, <1>7, Wrapped
  <1>9. aligned \in 0 .. Space - 1
    <2> HIDE DEF aligned
    <2> QED BY <1>2, <1>6, <1>7, <1>8
  <1>10. down \in 0 .. Space - 1 BY <1>2, <1>3
  <1> HIDE DEF aligned
  <1>11. Region(down, aligned) \in Supported BY <1>1, <1>9, <1>10, SupportedIf
  <1>12. aligned > 0 BY <1>1 DEF check_if_supported
  <1>13. up = aligned BY <1>2, <1>6, <1>7, <1>8, <1>12
  <1>14. Addresses(Region(down, aligned)) = down .. down + aligned - 1
    BY <1>9, <1>10, RegionMeans DEF Addresses
  <1>15. ASSUME Fit(<<base, size>>)
         PROVE  down .. down + aligned - 1 = Requested(<<base, size>>)
    <2>1. size > 0 /\ base + size <= Space BY <1>15 DEF Fit
    <2>2. grown = size + (base - down)
      <3>1. grown # 0
        <4>1. grown = 0 => up = 0
          <5>1. (0 < up => 0 + PGSIZE <= up)
            <6>1. Multiple(0)
              <7>1. PGSIZE * 0 = 0 BY <1>2
              <7>2. QED BY <7>1 DEF Multiple
            <6>2. QED BY <1>6, <6>1, MultipleSums
          <5>2. QED BY <1>2, <1>6, <5>1
        <4>2. QED BY <1>12, <1>13, <4>1
      <3>2. QED BY <1>2, <1>3, <1>5, <2>1, <3>1 DEF w
    <2>3. last \in base .. Space - 1 /\ last < down + aligned /\ Multiple(down + aligned)
          /\ down + aligned <= last + PGSIZE
      <3>1. Multiple(down + aligned) BY <1>3, <1>6, <1>13, MultipleSums
      <3>2. QED BY <1>2, <1>3, <1>6, <1>9, <1>13, <2>1, <2>2, <3>1
    <2>4. Requested(<<base, size>>)
            = {x \in 0 .. Space - 1 : \E y \in base .. last : x \div PGSIZE = y \div PGSIZE}
      BY DEF Requested
    <2> DEFINE end == down + aligned
    <2>5. /\ Multiple(end) /\ end \in Nat /\ end <= Space /\ last < end /\ end <= last + PGSIZE
          /\ last \in base .. Space - 1 /\ down <= base /\ base < down + PGSIZE
      <3>1. end <= Space
        <4>1. Space < end => Space + PGSIZE <= end BY <1>2, <2>3, MultipleSums
        <4>2. QED BY <1>2, <1>3, <1>9, <2>3, <4>1
      <3>2. QED BY <1>3, <1>9, <2>3, <3>1
    <2> HIDE DEF end, last
    <2>6. ASSUME NEW x \in down .. end - 1
          PROVE  x \in 0 .. Space - 1 /\ \E y \in base .. last : x \div PGSIZE = y \div PGSIZE
      <3>1. x \in Nat /\ x \in 0 .. Space - 1 BY <1>2, <1>3, <2>5
      <3>2. /\ Multiple(PageOf(x)) /\ PageOf(x) <= x /\ x < PageOf(x) + PGSIZE /\ PageOf(x) \in Nat
        BY <3>1, PageBegins, MultipleSums
      <3>3. CASE x \in base .. last BY <3>1, <3>3
      <3>4. CASE x < base
        <4>1. PageOf(x) < down => PageOf(x) + PGSIZE <= down BY <1>3, <3>2, MultipleSums
        <4>2. down < PageOf(x) => down + PGSIZE <= PageOf(x) BY <1>3, <3>2, MultipleSums
        <4>3. PageOf(x) = down BY <1>2, <1>3, <2>5, <3>1, <3>2, <3>4, <4>1, <4>2
        <4>4. x \div PGSIZE = base \div PGSIZE BY <1>2, <1>3, <3>1, <4>3, SamePage
        <4>5. base \in base .. last BY <1>2, <2>5
        <4>6. QED BY <3>1, <4>4, <4>5
      <3>5. CASE x > last
        <4>1. last \in Nat BY <1>2, <2>5
        <4>2. Multiple(PageOf(last)) /\ PageOf(last) <= last /\ last < PageOf(last) + PGSIZE
              /\ PageOf(last) \in Nat
          BY <4>1, PageBegins, MultipleSums
        <4>3. /\ PageOf(x) < PageOf(last) => PageOf(x) + PGSIZE <= PageOf(last)
              /\ PageOf(last) < end => PageOf(last) + PGSIZE <= end
              /\ PageOf(last) < PageOf(x) => PageOf(last) + PGSIZE <= PageOf(x)
              /\ PageOf(x) < end => PageOf(x) + PGSIZE <= end
          BY <2>5, <3>2, <4>2, MultipleSums
        <4>4. PageOf(x) = PageOf(last) BY <1>2, <2>5, <3>1, <3>2, <3>5, <4>1, <4>2, <4>3
        <4>5. x \div PGSIZE = last \div PGSIZE BY <3>1, <4>1, <4>4, SamePage
        <4>6. last \in base .. last BY <1>2, <2>5
        <4>7. QED BY <3>1, <4>5, <4>6
      <3>6. QED BY <1>2, <1>3, <2>5, <3>1, <3>3, <3>4, <3>5
    <2>7. ASSUME NEW x \in 0 .. Space - 1, NEW y \in base .. last, x \div PGSIZE = y \div PGSIZE
          PROVE  x \in down .. end - 1
      <3>1. x \in Nat /\ y \in Nat BY <1>2, <2>5
      <3>2. PageOf(x) = PageOf(y) BY <2>7, <3>1, SamePage
      <3>3. /\ PageOf(x) <= x /\ x < PageOf(x) + PGSIZE
            /\ Multiple(PageOf(y)) /\ PageOf(y) <= y /\ y < PageOf(y) + PGSIZE /\ PageOf(y) \in Nat
        BY <3>1, PageBegins, MultipleSums
      <3>4. PageOf(y) < end => PageOf(y) + PGSIZE <= end BY <2>5, <3>3, MultipleSums
      <3>5. PageOf(y) < down => PageOf(y) + PGSIZE <= down BY <1>3, <3>3, MultipleSums
      <3>6. QED BY <1>2, <1>3, <2>5, <3>1, <3>2, <3>3, <3>4, <3>5
    <2>8. \A x : x \in down .. end - 1 <=> x \in Requested(<<base, size>>) BY <2>4, <2>6, <2>7
    <2>9. down .. end - 1 = Requested(<<base, size>>) BY <2>8, Zenon
    <2>10. end - 1 = down + aligned - 1 BY <1>3, <1>9 DEF end
    <2>11. QED BY <2>9, <2>10
  <1>16. QED BY <1>1, <1>11, <1>14, <1>15

-----------------------------------------------------------------------------
(* merge_overlapping_memory_regions() *)

LEMMA MergedRegion ==
  ASSUME NEW L \in Supported, NEW R \in Supported, L.base <= R.base
  PROVE  /\ check_mem_overlap(L, R) <=> R.base < L.base + L.size
         /\ check_mem_overlap(L, R) /\ check_if_merge_covers_64bit_space(L, R) =>
               \A x \in 0 .. Space - 1 : x \in Addresses(L) \/ x \in Addresses(R)
         /\ check_mem_overlap(L, R) /\ ~check_if_merge_covers_64bit_space(L, R) =>
               LET m == merge_mem_regions(L, R)
               IN  /\ m \in Supported /\ m.base = L.base
                   /\ \A x : x \in Addresses(m) <=> x \in Addresses(L) \/ x \in Addresses(R)
  <1> DEFINE b == L.base
             e == L.base + L.size
             c == R.base
             d == R.base + R.size
             l == InclusiveEnd(L)
             r == InclusiveEnd(R)
             overlap == check_mem_overlap(L, R)
             covers == check_if_merge_covers_64bit_space(L, R)
             m == merge_mem_regions(L, R)
  <1>1. /\ b \in Nat /\ e \in Nat /\ b < e /\ e <= Space /\ Multiple(b) /\ Multiple(e) /\ l = e - 1
        /\ c \in Nat /\ d \in Nat /\ c < d /\ d <= Space /\ Multiple(c) /\ Multiple(d) /\ r = d - 1
        /\ b <= c
        /\ Addresses(L) = b .. e - 1 /\ Addresses(R) = c .. d - 1
    <2> HIDE DEF l, r
    <2>1. /\ b \in Nat /\ L.size \in Nat /\ L.size > 0 /\ e <= Space /\ Multiple(b) /\ Multiple(e)
          /\ l = e - 1 /\ Addresses(L) = b .. e - 1
      BY SupportedRegion DEF l
    <2>2. /\ c \in Nat /\ R.size \in Nat /\ R.size > 0 /\ d <= Space /\ Multiple(c) /\ Multiple(d)
          /\ r = d - 1 /\ Addresses(R) = c .. d - 1
      BY SupportedRegion DEF r
    <2> DEFINE y == L.size
               z == R.size
    <2> HIDE DEF b, c, y, z
    <2>3. b + y \in Nat /\ b < b + y /\ c + z \in Nat /\ c < c + z BY <2>1, <2>2 DEF y, z
    <2>4. b <= c BY DEF b, c
    <2>5. QED BY <2>1, <2>2, <2>3, <2>4 DEF b, c, y, z
  <1>2. /\ overlap <=> Greatest(b, c) <= Least(l, r)
        /\ covers <=> overlap /\ Least(b, c) = 0 /\ Greatest(l, r) = Space - 1
        /\ m = Region(Least(b, c), (Greatest(l, r) - Least(b, c) + 1) % Space)
    BY DEF check_mem_overlap, check_if_merge_covers_64bit_space, merge_mem_regions
  <1> HIDE DEF b, e, c, d, l, r, overlap, covers, m
  <1> DEFINE end == IF e < d THEN d ELSE e
  <1>3. end \in Nat /\ (e < d => end = d) /\ (~(e < d) => end = e) /\ Multiple(end) /\ b < end /\ end <= Space
    BY <1>1
  <1> HIDE DEF end
  <1>4. Least(b, c) = b /\ Greatest(b, c) = c /\ Greatest(l, r) = end - 1
        /\ (c <= Least(l, r) <=> c < e)
    BY <1>1, <1>3, SpaceMultiple DEF Least, Greatest
  <1>5. overlap <=> c < e BY <1>2, <1>4
  <1>6. covers <=> overlap /\ b = 0 /\ end = Space BY <1>1, <1>2, <1>3, <1>4, SpaceMultiple
  <1>7. ASSUME overlap, covers, NEW x \in 0 .. Space - 1 PROVE x \in Addresses(L) \/ x \in Addresses(R)
    BY <1>1, <1>3, <1>5, <1>6, <1>7, SpaceMultiple
  <1>8. ASSUME overlap, ~covers
        PROVE  /\ m \in Supported /\ m.base = b
               /\ \A x : x \in Addresses(m) <=> x \in Addresses(L) \/ x \in Addresses(R)
    <2> DEFINE size == end - b
    <2>1. size \in Nat /\ size > 0 /\ size < Space /\ Multiple(size)
      <3>1. b <= end => Multiple(end - b) BY <1>1, <1>3, MultipleSums, Zenon
      <3>2. QED BY <1>1, <1>3, <1>6, <1>8, <3>1, SpaceMultiple
    <2>2. Greatest(l, r) - Least(b, c) + 1 = size BY <1>1, <1>3, <1>4
    <2> HIDE DEF size
    <2>3. size % Space = size BY <2>1, SpaceMultiple, Wrapped
    <2>4. m = Region(b, size) BY <1>2, <1>4, <2>2, <2>3
    <2>5. m.base = b /\ m.size = size /\ m \in Span BY <1>1, <2>1, <2>4, RegionMeans
    <2>6. b + size <= Space BY <1>1, <1>3 DEF size
    <2>7. m \in Supported BY <1>1, <2>1, <2>5, <2>6 DEF Supported
    <2>8. Addresses(m) = b .. b + size - 1 BY <2>5 DEF Addresses
    <2>9. b + size - 1 = end - 1 BY <1>1, <1>3 DEF size
    <2>10. \A x : x \in b .. end - 1 <=> x \in b .. e - 1 \/ x \in c .. d - 1
      BY <1>1, <1>3, <1>5, <1>8
    <2>11. QED BY <1>1, <2>5, <2>7, <2>8, <2>9, <2>10
  <1>9. QED BY <1>5, <1>7, <1>8 DEF b, c, e, overlap, covers, m

(* The two regions that stand for the whole address space. *)
LEMMA WholeSpace ==
  LET f == Region(0, Space - PGSIZE)
      g == Region(Space - PGSIZE, PGSIZE)
  IN  /\ f \in Supported /\ g \in Supported /\ f.base = 0 /\ f.base + f.size = g.base
      /\ \A x : x \in Addresses(f) \/ x \in Addresses(g) <=> x \in 0 .. Space - 1
  <1> DEFINE f == Region(0, Space - PGSIZE)
             g == Region(Space - PGSIZE, PGSIZE)
             s == Space - PGSIZE
  <1>1. Space \in Nat /\ PGSIZE \in Nat \ {0} /\ PGSIZE < Space /\ Multiple(Space) BY SpaceMultiple
  <1>2. Multiple(0) /\ Multiple(PGSIZE)
    <2>1. PGSIZE * 0 = 0 /\ PGSIZE * 1 = PGSIZE BY <1>1
    <2>2. QED BY <2>1 DEF Multiple
  <1>3. s \in Nat /\ s > 0 /\ s < Space /\ s + PGSIZE = Space /\ Multiple(s)
    <2>1. PGSIZE <= Space => Multiple(Space - PGSIZE) BY <1>1, <1>2, MultipleSums, Zenon
    <2>2. QED BY <1>1, <2>1
  <1>4. /\ f.base = 0 /\ f.size = s /\ f \in Span
        /\ g.base = s /\ g.size = PGSIZE /\ g \in Span
    BY <1>1, <1>3, RegionMeans
  <1> HIDE DEF f, g, s
  <1>5. f \in Supported BY <1>2, <1>3, <1>4, <1>1 DEF Supported
  <1>6. g \in Supported BY <1>2, <1>3, <1>4, <1>1 DEF Supported
  <1>7. Addresses(f) = 0 .. 0 + s - 1 /\ Addresses(g) = s .. s + PGSIZE - 1 BY <1>4 DEF Addresses
  <1>8. \A x : x \in Addresses(f) \/ x \in Addresses(g) <=> x \in 0 .. Space - 1
    BY <1>1, <1>3, <1>7
  <1>9. f.base + f.size = g.base BY <1>3, <1>4
  <1>10. QED BY <1>4, <1>5, <1>6, <1>8, <1>9 DEF f, g

(* The loop keeps a sequence of regions that is not empty ... *)
Merging == {s \in [merged : Seq(Span), stop : BOOLEAN] : s.merged # <<>>}

LEMMA MergeType ==
  ASSUME NEW s \in Merging, NEW r \in Span
  PROVE  MergeRound(s, r) \in Merging
  <1> DEFINE q == s.merged
             n == Len(q)
             back == Last(s.merged)
  <1>1. q \in Seq(Span) /\ q # <<>> /\ s.stop \in BOOLEAN /\ s \in [merged : Seq(Span), stop : BOOLEAN]
    BY DEF Merging
  <1>2. n \in Nat \ {0} /\ back = q[n] /\ back \in Span BY <1>1 DEF Last
  <1>3. CASE s.stop \/ ~check_mem_overlap(back, r)
    <2>1. Append(q, r) \in Seq(Span) /\ Append(q, r) # <<>> BY <1>1
    <2>2. [s EXCEPT !.merged = Append(q, r)] \in Merging BY <1>1, <2>1 DEF Merging
    <2>3. QED BY <1>3, <2>2 DEF MergeRound
  <1>4. CASE ~s.stop /\ check_mem_overlap(back, r) /\ check_if_merge_covers_64bit_space(back, r)
    <2> DEFINE f == Region(0, Space - PGSIZE)
               g == Region(Space - PGSIZE, PGSIZE)
    <2>1. f \in Span /\ g \in Span BY WholeSpace, SupportedRegion
    <2>2. MergeRound(s, r) = [merged |-> <<f, g>>, stop |-> TRUE] BY <1>4 DEF MergeRound
    <2> HIDE DEF f, g
    <2> DEFINE u == <<f, g>>
    <2>3. u \in Seq(Span) /\ u # <<>> BY <2>1
    <2> HIDE DEF u
    <2>4. [merged |-> u, stop |-> TRUE] \in Merging BY <2>3 DEF Merging
    <2>5. QED BY <2>2, <2>4 DEF u
  <1>5. CASE ~s.stop /\ check_mem_overlap(back, r) /\ ~check_if_merge_covers_64bit_space(back, r)
    <2> DEFINE m == merge_mem_regions(back, r)
    <2>1. m \in Span
      <3>1. back.base \in Nat /\ r.base \in Nat /\ InclusiveEnd(back) \in Int /\ InclusiveEnd(r) \in Int
        BY <1>2, SpaceMultiple DEF Span, InclusiveEnd
      <3> DEFINE base == Least(back.base, r.base)
                 x == Greatest(InclusiveEnd(back), InclusiveEnd(r)) - base + 1
      <3>2. base \in Nat /\ x \in Int BY <3>1 DEF Least, Greatest
      <3>3. m = Region(base, x % Space) BY DEF merge_mem_regions
      <3> HIDE DEF base, x
      <3>4. x % Space \in Nat BY <3>2, SpaceMultiple
      <3>5. QED BY <3>2, <3>3, <3>4, RegionMeans
    <2>2. MergeRound(s, r) = [s EXCEPT !.merged = [q EXCEPT ![n] = m]] BY <1>5 DEF MergeRound
    <2> HIDE DEF m, q, n
    <2>3. [q EXCEPT ![n] = m] \in Seq(Span) /\ [q EXCEPT ![n] = m] # <<>>
      <3>1. Len([q EXCEPT ![n] = m]) = Len(q) BY <1>1, <2>1
      <3>2. QED BY <1>1, <1>2, <2>1, <3>1 DEF n
    <2>4. QED BY <1>1, <2>2, <2>3 DEF Merging, q
  <1>6. QED BY <1>3, <1>4, <1>5

(* ... and, when the regions are sorted and supported, the merged ones are *)
(* supported, apart and in order, and have the addresses of those merged.  *)
In(x, q, i) == \E j \in 1 .. i : x \in Addresses(q[j])

Apart(q) ==
    /\ \A a \in 1 .. Len(q) : q[a] \in Supported
    /\ \A a, b \in 1 .. Len(q) : a < b => q[a].base + q[a].size <= q[b].base

Merged(s, t, i) ==
    /\ Apart(s.merged)
    /\ \A x : In(x, s.merged, Len(s.merged)) <=> In(x, t, i)
    /\ ~s.stop => s.merged[Len(s.merged)].base <= t[i].base
    /\ s.stop => \A x \in 0 .. Space - 1 : In(x, s.merged, Len(s.merged))

LEMMA OneMore ==
  ASSUME NEW q, NEW i \in Nat, NEW x
  PROVE  In(x, q, i + 1) <=> In(x, q, i) \/ x \in Addresses(q[i + 1])
  <1>1. \A j : j \in 1 .. i + 1 <=> j \in 1 .. i \/ j = i + 1 OBVIOUS
  <1>2. QED BY <1>1, Zenon DEF In

LEMMA MergeStep ==
  ASSUME NEW s \in Merging, NEW t \in Seq(Supported), NEW i \in Nat \ {0}, i + 1 <= Len(t),
         t[i].base <= t[i + 1].base, Merged(s, t, i)
  PROVE  Merged(MergeRound(s, t[i + 1]), t, i + 1)
  <1> DEFINE q == s.merged
             n == Len(q)
             back == q[n]
             r == t[i + 1]
             new == MergeRound(s, r)
  <1>1. q \in Seq(Span) /\ n \in Nat \ {0} /\ s.stop \in BOOLEAN /\ s \in [merged : Seq(Span), stop : BOOLEAN]
        /\ Last(s.merged) = back
    BY DEF Merging, Last
  <1>2. r \in Supported OBVIOUS
  <1>3. /\ \A a \in 1 .. n : q[a] \in Supported
        /\ \A a, b \in 1 .. n : a < b => q[a].base + q[a].size <= q[b].base
        /\ \A x : In(x, q, n) <=> In(x, t, i)
        /\ ~s.stop => back.base <= t[i].base
        /\ s.stop => \A x \in 0 .. Space - 1 : In(x, q, n)
    BY DEF Merged, Apart
  <1>4. back \in Supported BY <1>1, <1>3
  <1>5. ~s.stop => back.base <= r.base
    <2>1. t[i] \in Supported OBVIOUS
    <2>2. back.base \in Nat /\ r.base \in Nat /\ t[i].base \in Nat BY <1>2, <1>4, <2>1, SupportedRegion
    <2> HIDE DEF back, r
    <2>3. QED BY <1>3, <2>2 DEF r
  <1>6. \A x : In(x, t, i + 1) <=> In(x, t, i) \/ x \in Addresses(r) BY OneMore
  <1>7. \A u \in Supported : \A x : x \in Addresses(u) => x \in 0 .. Space - 1
    <2> SUFFICES ASSUME NEW u \in Supported, NEW x, x \in Addresses(u) PROVE x \in 0 .. Space - 1
      OBVIOUS
    <2> DEFINE c == u.base
               z == u.size
    <2>1. c \in Nat /\ z \in Nat /\ c + z <= Space /\ Space \in Nat /\ x \in c .. c + z - 1
      BY SupportedRegion, SpaceMultiple
    <2> HIDE DEF c, z
    <2>2. QED BY <2>1
  <1>8. \A x : In(x, t, i + 1) => x \in 0 .. Space - 1
    <2>1. \A j \in 1 .. i + 1 : t[j] \in Supported OBVIOUS
    <2>2. QED BY <1>7, <2>1, Zenon DEF In
  <1>9. \A x : In(x, q, n) <=> In(x, q, n - 1) \/ x \in Addresses(back)
    <2>1. n - 1 \in Nat /\ n - 1 + 1 = n BY <1>1
    <2> HIDE DEF n
    <2>2. \A x : In(x, q, n - 1 + 1) <=> In(x, q, n - 1) \/ x \in Addresses(q[n - 1 + 1]) BY <2>1, OneMore, Zenon
    <2>3. QED BY <2>1, <2>2
  <1> USE <1>1, <1>2, <1>4
  <1> HIDE DEF q, n, back, r, new
  <1>10. CASE s.stop
    <2>1. new = s BY <1>10 DEF MergeRound, new
    <2>2. \A x : In(x, q, n) <=> In(x, t, i + 1) BY <1>3, <1>6, <1>8, <1>10
    <2>3. QED BY <1>3, <1>10, <2>1, <2>2 DEF Merged, Apart, new, r, q, n
  <1>11. CASE ~s.stop /\ ~check_mem_overlap(back, r)
    <2> DEFINE p == Append(q, r)
    <2>1. new = [s EXCEPT !.merged = p] BY <1>11 DEF MergeRound, new, q
    <2>2. Len(p) = n + 1 /\ p[n + 1] = r /\ \A a \in 1 .. n : p[a] = q[a]
      BY SupportedRegion DEF n
    <2>3. ~(r.base < back.base + back.size) BY <1>5, <1>11, MergedRegion
    <2>4. Apart(p)
      <3>1. \A a \in 1 .. n + 1 : p[a] \in Supported BY <1>3, <2>2
      <3>2. ASSUME NEW a \in 1 .. n + 1, NEW b \in 1 .. n + 1, a < b
            PROVE  p[a].base + p[a].size <= p[b].base
        <4>1. CASE b \in 1 .. n BY <1>3, <2>2, <3>2, <4>1
        <4>2. CASE b = n + 1 /\ a = n
          <5>1. p[a] = back /\ p[b] = r BY <2>2, <4>2 DEF back
          <5>2. back.base \in Nat /\ back.size \in Nat /\ r.base \in Nat BY SupportedRegion
          <5>3. back.base + back.size <= r.base BY <2>3, <5>2
          <5>4. QED BY <5>1, <5>3
        <4>3. CASE b = n + 1 /\ a < n
          <5>1. p[a] = q[a] /\ p[b] = r /\ q[a] \in Supported /\ a \in 1 .. n BY <1>3, <2>2, <4>3
          <5>2. q[a].base + q[a].size <= back.base BY <1>3, <4>3, <5>1 DEF back
          <5>3. q[a].base \in Nat /\ q[a].size \in Nat /\ back.base \in Nat /\ r.base \in Nat
            BY <5>1, SupportedRegion
          <5>4. back.base <= r.base BY <1>5, <1>11
          <5> DEFINE x == q[a].base
                     y == q[a].size
                     z == back.base
                     v == r.base
          <5> HIDE DEF x, y, z, v
          <5>5. x + y <= v
            <6>1. x + y <= z /\ z <= v BY <5>2, <5>4, Zenon DEF x, y, z, v
            <6>2. x \in Nat /\ y \in Nat /\ z \in Nat /\ v \in Nat BY <5>3, Zenon DEF x, y, z, v
            <6>3. QED BY <6>1, <6>2
          <5>6. QED BY <5>1, <5>5 DEF x, y, v
        <4>4. b \in 1 .. n \/ (b = n + 1 /\ (a = n \/ a < n)) BY <3>2
        <4>5. QED BY <4>1, <4>2, <4>3, <4>4, Zenon
      <3>3. QED BY <2>2, <3>1, <3>2 DEF Apart
    <2>5. \A x : In(x, p, n + 1) <=> In(x, t, i + 1)
      <3>1. \A x : In(x, p, n + 1) <=> In(x, p, n) \/ x \in Addresses(r) BY <2>2, OneMore
      <3>2. \A x : In(x, p, n) <=> In(x, q, n) BY <2>2 DEF In
      <3>3. QED BY <1>3, <1>6, <3>1, <3>2
    <2>6. r.base <= r.base BY SupportedRegion
    <2> HIDE DEF p
    <2>7. new.merged = p /\ ~new.stop BY <1>11, <2>1
    <2>8. QED BY <2>2, <2>4, <2>5, <2>6, <2>7 DEF Merged, new, r
  <1>12. CASE ~s.stop /\ check_mem_overlap(back, r) /\ check_if_merge_covers_64bit_space(back, r)
    <2> DEFINE f == Region(0, Space - PGSIZE)
               g == Region(Space - PGSIZE, PGSIZE)
               p == <<f, g>>
    <2>1. new = [merged |-> p, stop |-> TRUE] BY <1>12 DEF MergeRound, new
    <2>2. /\ f \in Supported /\ g \in Supported /\ f.base = 0 /\ f.base + f.size = g.base
          /\ \A x : x \in Addresses(f) \/ x \in Addresses(g) <=> x \in 0 .. Space - 1
      BY WholeSpace
    <2> HIDE DEF f, g
    <2>3. Len(p) = 2 /\ p[1] = f /\ p[2] = g OBVIOUS
    <2> HIDE DEF p
    <2>4. f.base + f.size <= g.base
      <3>1. g.base \in Nat BY <2>2, SupportedRegion
      <3>2. QED BY <2>2, <3>1
    <2>5. Apart(p) BY <2>2, <2>3, <2>4 DEF Apart
    <2>6. \A x : In(x, p, 2) <=> x \in 0 .. Space - 1
      <3>1. \A j : j \in 1 .. 2 <=> j = 1 \/ j = 2 OBVIOUS
      <3>2. QED BY <2>2, <2>3, <3>1 DEF In
    <2>7. \A x \in 0 .. Space - 1 : In(x, t, i + 1)
      <3>1. \A x \in 0 .. Space - 1 : x \in Addresses(back) \/ x \in Addresses(r)
        BY <1>5, <1>12, MergedRegion
      <3>2. QED BY <1>3, <1>6, <1>9, <3>1
    <2>8. new.merged = p /\ new.stop BY <2>1
    <2>9. QED BY <1>8, <2>3, <2>5, <2>6, <2>7, <2>8 DEF Merged, new, r
  <1>13. CASE ~s.stop /\ check_mem_overlap(back, r) /\ ~check_if_merge_covers_64bit_space(back, r)
    <2> DEFINE m == merge_mem_regions(back, r)
               p == [q EXCEPT ![n] = m]
    <2>1. new = [s EXCEPT !.merged = p] BY <1>13 DEF MergeRound, new, q, n
    <2>2. /\ m \in Supported /\ m.base = back.base
          /\ \A x : x \in Addresses(m) <=> x \in Addresses(back) \/ x \in Addresses(r)
      BY <1>5, <1>13, MergedRegion
    <2> HIDE DEF m
    <2>3. Len(p) = n /\ p[n] = m /\ \A a \in 1 .. n - 1 : p[a] = q[a]
      BY <2>2, SupportedRegion DEF n
    <2>4. Apart(p)
      <3>1. \A a \in 1 .. n : p[a] \in Supported
        <4>1. \A a \in 1 .. n : a \in 1 .. n - 1 \/ a = n OBVIOUS
        <4>2. QED BY <1>3, <2>2, <2>3, <4>1
      <3>2. ASSUME NEW a \in 1 .. n, NEW b \in 1 .. n, a < b
            PROVE  p[a].base + p[a].size <= p[b].base
        <4>1. p[a] = q[a] BY <2>3, <3>2
        <4>2. p[b].base = q[b].base
          <5>1. CASE b = n BY <2>2, <2>3, <5>1 DEF back
          <5>2. CASE b # n BY <2>3, <5>2
          <5>3. QED BY <5>1, <5>2
        <4>3. QED BY <1>3, <3>2, <4>1, <4>2
      <3>3. QED BY <2>3, <3>1, <3>2 DEF Apart
    <2>5. \A x : In(x, p, n) <=> In(x, t, i + 1)
      <3>1. \A x : In(x, p, n) <=> In(x, p, n - 1) \/ x \in Addresses(m)
        <4>1. n - 1 \in Nat /\ n - 1 + 1 = n OBVIOUS
        <4> HIDE DEF p
        <4>2. \A x : In(x, p, n - 1 + 1) <=> In(x, p, n - 1) \/ x \in Addresses(p[n - 1 + 1])
          BY <4>1, OneMore, Zenon
        <4>3. QED BY <2>3, <4>1, <4>2
      <3>2. \A x : In(x, p, n - 1) <=> In(x, q, n - 1) BY <2>3 DEF In
      <3>3. QED BY <1>3, <1>6, <1>9, <2>2, <3>1, <3>2
    <2> HIDE DEF p
    <2>6. new.merged = p /\ ~new.stop BY <1>13, <2>1
    <2>7. p[n].base <= r.base BY <1>5, <1>13, <2>2, <2>3
    <2>8. QED BY <2>3, <2>4, <2>5, <2>6, <2>7 DEF Merged, new, r
  <1>14. QED BY <1>10, <1>11, <1>12, <1>13 DEF new, r

(* spike_insn.cc, merge_overlapping_memory_regions: the memories are       *)
(* supported, in order and apart, and have the addresses of the regions.   *)
THEOREM MergeEffect ==
  ASSUME NEW regions \in Seq(Supported), regions # <<>>
  PROVE  LET q == merge_overlapping_memory_regions(regions)
         IN  /\ q \in Seq(Span) /\ Apart(q)
             /\ \A x : In(x, q, Len(q)) <=> In(x, regions, Len(regions))
  <1> DEFINE n == Len(regions)
             k == n - 1
             t == Sort(regions, sort_mem_region)
             s0 == [merged |-> <<t[1]>>, stop |-> FALSE]
             Rec(g) == g = [i \in 0 .. k |-> IF i = 0 THEN s0 ELSE MergeRound(g[i - 1], t[i + 1])]
             round == CHOOSE g : Rec(g)
             F == [x \in Merging \X (1 .. k) |-> MergeRound(x[1], t[x[2] + 1])]
  <1>1. merge_overlapping_memory_regions(regions) = round[k].merged
    BY DEF merge_overlapping_memory_regions
  <1>2. n \in Nat \ {0} /\ k \in Nat /\ DOMAIN regions = 1 .. n OBVIOUS
  <1>3. regions \in Seq(Span) /\ \A i \in 1 .. n : regions[i] \in Supported
    BY SupportedRegion
  <1>4. /\ t \in Seq(Span) /\ Len(t) = n /\ Rearranged(t, regions)
        /\ \A i, j \in 1 .. n : i < j => t[i].base <= t[j].base
    <2>1. DOMAIN regions = 1 .. n OBVIOUS
    <2> HIDE DEF n, t
    <2>2. QED BY <1>3, <2>1, SortedRegions DEF n, t
  <1> HIDE DEF t
  <1>5. \A i \in 1 .. n : t[i] \in Supported
    <2>1. \A i \in 1 .. n : \E j \in 1 .. n : t[i] = regions[j] BY <1>2, <1>4 DEF Rearranged
    <2>2. QED BY <1>3, <2>1
  <1>6. t \in Seq(Supported) BY <1>4, <1>5
  <1>7. \A x : In(x, t, n) <=> In(x, regions, n)
    <2>1. /\ \A i \in 1 .. n : \E j \in 1 .. n : t[i] = regions[j]
          /\ \A j \in 1 .. n : \E i \in 1 .. n : t[i] = regions[j]
      BY <1>2, <1>4 DEF Rearranged
    <2>2. QED BY <2>1, Zenon DEF In
  <1> HIDE DEF n, k
  <1>8. k = n - 1 /\ 1 \in 1 .. n /\ \A i \in 1 .. k : i + 1 \in 1 .. n BY <1>2 DEF k
  <1>9. s0 \in Merging
    <2>1. t[1] \in Span BY <1>4, <1>8
    <2>2. <<t[1]>> \in Seq(Span) /\ <<t[1]>> # <<>> BY <2>1
    <2>3. QED BY <2>2 DEF Merging
  <1>10. Merged(s0, t, 1)
    <2> DEFINE p == <<t[1]>>
    <2>1. Len(p) = 1 /\ p[1] = t[1] OBVIOUS
    <2> HIDE DEF p
    <2>2. s0.merged = p /\ ~s0.stop BY DEF p
    <2>3. Apart(p) BY <1>5, <1>8, <2>1 DEF Apart
    <2>4. \A x : In(x, p, 1) <=> In(x, t, 1)
      <3>1. \A j : j \in 1 .. 1 <=> j = 1 OBVIOUS
      <3>2. QED BY <2>1, <3>1 DEF In
    <2>5. t[1].base <= t[1].base
      <3>1. t[1].base \in Nat BY <1>5, <1>8, SupportedRegion
      <3>2. QED BY <3>1
    <2>6. QED BY <2>1, <2>2, <2>3, <2>4, <2>5 DEF Merged
  <1> HIDE DEF s0
  <1>11. \A s \in Merging, i \in 1 .. k : MergeRound(s, t[i + 1]) \in Merging
    <2>1. \A i \in 1 .. k : t[i + 1] \in Span BY <1>4, <1>8
    <2>2. QED BY <2>1, MergeType
  <1>12. F \in [Merging \X (1 .. k) -> Merging] BY <1>11
  <1>13. \E g : Rec(g)
    <2>1. PICK g \in [0 .. k -> Merging] : Recursion(g, k, s0, F)
      <3> HIDE DEF F
      <3> QED BY <1>2, <1>9, <1>12, RecursionExists, Zenon
    <2>2. ASSUME NEW i \in 0 .. k
          PROVE  g[i] = IF i = 0 THEN s0 ELSE MergeRound(g[i - 1], t[i + 1])
      <3>1. CASE i = 0 BY <2>1, <3>1 DEF Recursion
      <3>2. CASE i # 0
        <4>1. i - 1 \in 0 .. k /\ i \in 1 .. k BY <1>2, <3>2
        <4>2. g[i - 1] \in Merging BY <2>1, <4>1
        <4>3. F[<<g[i - 1], i>>] = MergeRound(g[i - 1], t[i + 1]) BY <4>1, <4>2
        <4>4. g[i] = F[<<g[i - 1], i>>]
          <5> HIDE DEF F
          <5> QED BY <2>1, <3>2 DEF Recursion
        <4>5. QED BY <3>2, <4>3, <4>4
      <3>3. QED BY <3>1, <3>2
    <2>3. Rec(g) BY <2>1, <2>2
    <2>4. QED BY <2>3
  <1>14. Rec(round) BY <1>13
  <1> HIDE DEF round, F
  <1>15. round[0] = s0 /\ \A i \in 1 .. k : round[i] = MergeRound(round[i - 1], t[i + 1])
    BY <1>2, <1>14
  <1> DEFINE P == {i \in 0 .. k : round[i] \in Merging /\ Merged(round[i], t, i + 1)}
  <1>16. 0 \in P BY <1>2, <1>9, <1>10, <1>15
  <1>17. ASSUME NEW i \in 1 .. k, i - 1 \in P PROVE i \in P
    <2> DEFINE s == round[i - 1]
    <2>1. s \in Merging /\ Merged(s, t, i)
      <3>1. i - 1 + 1 = i BY <1>2
      <3>2. QED BY <1>17, <3>1
    <2>2. i \in Nat \ {0} /\ i + 1 <= Len(t) /\ i \in 0 .. k /\ i \in 1 .. n /\ i + 1 \in 1 .. n /\ i < i + 1
      BY <1>2, <1>4, <1>8
    <2>3. t[i].base <= t[i + 1].base BY <1>4, <2>2
    <2>4. round[i] = MergeRound(s, t[i + 1]) BY <1>15
    <2> HIDE DEF s
    <2>5. Merged(MergeRound(s, t[i + 1]), t, i + 1) BY <1>6, <2>1, <2>2, <2>3, MergeStep
    <2>6. round[i] \in Merging BY <1>11, <2>1, <2>4
    <2>7. QED BY <2>2, <2>4, <2>5, <2>6
  <1>18. k \in P
    <2> HIDE DEF P
    <2>1. \A i \in 1 .. k : i - 1 \in P => i \in P BY <1>17
    <2>2. \A i \in 0 .. k : i \in P BY <1>2, <1>16, <2>1, InductionUpTo
    <2>3. QED BY <1>2, <2>2
  <1>19. round[k] \in Merging /\ Merged(round[k], t, n)
    <2>1. k + 1 = n BY <1>2, <1>8
    <2>2. QED BY <1>18, <2>1
  <1>20. round[k].merged \in Seq(Span) BY <1>19 DEF Merging
  <1>21. QED BY <1>1, <1>7, <1>19, <1>20 DEF Merged, n

(* What parse_mem_layout asks for, and the layout that it returns. *)
AskedBy(o) == IF o.legacy THEN <<<<DRAM_BASE, o.mb * MiB>>>> ELSE o.pairs

MemOptions == [opt : {"m"}, legacy : BOOLEAN, broken : BOOLEAN, mb : Nat,
               pairs : Seq((0 .. Space - 1) \X (0 .. Space - 1))]

Covers(q, asks) ==
    asks # <<>> /\ (\A i \in DOMAIN asks : Fit(asks[i])) =>
        /\ Apart(q)
        /\ UNION {Addresses(q[i]) : i \in DOMAIN q} = UNION {Requested(asks[i]) : i \in DOMAIN asks}

(* A number of MiB that the check of parse_mem_layout accepts. *)
LEMMA NoOverflow ==
  ASSUME NEW mb \in Nat, ((mb * MiB) % Space) \div MiB = mb
  PROVE  (mb * MiB) % Space = mb * MiB /\ mb * MiB \in 0 .. Space - 1
  <1>1. MiB \in Nat \ {0} /\ Space \in Nat \ {0} BY LauncherAssumption
  <1> DEFINE w == mb * MiB
             size == w % Space
             a == w \div Space
             c == Space * a
             y == size \div MiB
             z == size % MiB
  <1>2. w \in Nat BY <1>1
  <1>3. MiB * y = w
    <2>1. y = mb OBVIOUS
    <2> HIDE DEF y
    <2>2. QED BY <1>1, <2>1
  <1> HIDE DEF w
  <1>4. a \in Nat /\ size \in 0 .. Space - 1 /\ w = c + size BY <1>1, <1>2
  <1>5. c \in Nat BY <1>1, <1>4
  <1> HIDE DEF size, a, c
  <1>6. size \in Nat BY <1>1, <1>4
  <1>7. y \in Nat /\ z \in Nat /\ size = MiB * y + z BY <1>1, <1>6
  <1> HIDE DEF y, z
  <1>8. size = w BY <1>2, <1>3, <1>4, <1>5, <1>6, <1>7
  <1>9. QED BY <1>4, <1>8 DEF w, size

(* A layout of one region ... *)
LEMMA OneRegion ==
  ASSUME NEW base \in 0 .. Space - 1, NEW size \in 0 .. Space - 1, NEW q, NEW asks,
         create_mem_region(base, size) # Unsupported,
         q = <<create_mem_region(base, size)>>, asks = <<<<base, size>>>>
  PROVE  q \in Seq(Span) /\ Covers(q, asks)
  <1> DEFINE one == create_mem_region(base, size)
             ask == <<base, size>>
  <1>1. one \in Supported /\ (Fit(ask) => Addresses(one) = Requested(ask))
    BY CreatedRegion
  <1>2. q = <<one>> /\ asks = <<ask>> OBVIOUS
  <1> HIDE DEF one, ask
  <1>3. 1 .. 1 = {1} OBVIOUS
  <1>4. q \in Seq(Span) /\ Len(q) = 1 /\ DOMAIN q = {1} /\ q[1] = one
    BY <1>1, <1>2, <1>3, SupportedRegion
  <1>5. DOMAIN asks = {1} /\ asks[1] = ask BY <1>2, <1>3
  <1>6. Apart(q) BY <1>1, <1>3, <1>4 DEF Apart
  <1>7. /\ UNION {Addresses(q[i]) : i \in DOMAIN q} = Addresses(one)
        /\ UNION {Requested(asks[i]) : i \in DOMAIN asks} = Requested(ask)
    BY <1>4, <1>5
  <1>8. (\A i \in DOMAIN asks : Fit(asks[i])) => Fit(ask) BY <1>5
  <1>9. QED BY <1>1, <1>4, <1>6, <1>7, <1>8 DEF Covers

(* ... and one of several. *)
LEMMA SeveralRegions ==
  ASSUME NEW asks \in Seq((0 .. Space - 1) \X (0 .. Space - 1)), NEW made, NEW q,
         made = [i \in DOMAIN asks |-> create_mem_region(asks[i][1], asks[i][2])],
         \A i \in DOMAIN made : made[i] # Unsupported,
         q = merge_overlapping_memory_regions(made)
  PROVE  q \in Seq(Span) /\ Covers(q, asks)
  <1> DEFINE n == Len(asks)
  <1>1. n \in Nat /\ DOMAIN asks = 1 .. n /\ DOMAIN made = 1 .. n OBVIOUS
  <1>2. ASSUME NEW i \in 1 .. n
        PROVE  made[i] \in Supported /\ (Fit(asks[i]) => Addresses(made[i]) = Requested(asks[i]))
    <2> DEFINE b == asks[i][1]
               z == asks[i][2]
    <2>1. /\ made[i] = create_mem_region(b, z) /\ made[i] # Unsupported
          /\ b \in 0 .. Space - 1 /\ z \in 0 .. Space - 1 /\ asks[i] = <<b, z>>
      <3>1. i \in DOMAIN asks /\ i \in DOMAIN made BY <1>1
      <3>2. asks[i] \in (0 .. Space - 1) \X (0 .. Space - 1) BY <3>1
      <3> HIDE DEF n
      <3>3. QED BY <3>1, <3>2
    <2> HIDE DEF b, z, n
    <2>2. QED BY <2>1, CreatedRegion
  <1>3. made \in [1 .. n -> Supported]
    <2>1. made = [i \in 1 .. n |-> made[i]] BY <1>1
    <2> HIDE DEF n
    <2>2. QED BY <1>2, <2>1
  <1>4. made \in Seq(Supported) /\ Len(made) = n BY <1>1, <1>3
  <1>5. CASE made = <<>>
    <2>1. q = <<>> BY <1>5 DEF merge_overlapping_memory_regions
    <2>2. n = 0 BY <1>1, <1>4, <1>5
    <2>3. asks = <<>> BY <2>2
    <2>4. <<>> \in Seq(Span) OBVIOUS
    <2>5. Covers(q, asks) BY <2>3 DEF Covers
    <2>6. QED BY <2>1, <2>4, <2>5
  <1>6. CASE made # <<>>
    <2> HIDE DEF n
    <2>1. /\ q \in Seq(Span) /\ Apart(q)
          /\ \A x : In(x, q, Len(q)) <=> In(x, made, n)
      BY <1>4, <1>6, MergeEffect
    <2>2. DOMAIN q = 1 .. Len(q) BY <2>1
    <2>3. ASSUME \A i \in DOMAIN asks : Fit(asks[i])
          PROVE  UNION {Addresses(q[i]) : i \in DOMAIN q} = UNION {Requested(asks[i]) : i \in DOMAIN asks}
      <3> DEFINE A == UNION {Addresses(q[i]) : i \in DOMAIN q}
                 B == UNION {Requested(asks[i]) : i \in DOMAIN asks}
      <3>1. \A x : x \in A <=> In(x, q, Len(q)) BY <2>2 DEF In
      <3>2. \A i \in 1 .. n : Addresses(made[i]) = Requested(asks[i]) BY <1>1, <1>2, <2>3
      <3>3. \A x : x \in B <=> In(x, made, n) BY <1>1, <3>2 DEF In
      <3> HIDE DEF A, B
      <3>4. \A x : x \in A <=> x \in B BY <2>1, <3>1, <3>3
      <3>5. A = B BY <3>4
      <3>6. QED BY <3>5 DEF A, B
    <2>4. QED BY <2>1, <2>3 DEF Covers
  <1>7. QED BY <1>5, <1>6

(* spike_insn.cc, parse_mem_layout: a layout that is not refused covers    *)
(* exactly the pages of the requests, if none of them wraps around.        *)
THEOREM ParsedLayout ==
  ASSUME NEW o \in MemOptions, parse_mem_layout(o).end = ""
  PROVE  LET q == parse_mem_layout(o).layout
         IN  q \in Seq(Span) /\ Covers(q, AskedBy(o))
  <1> DEFINE mb == o.mb
             asks == o.pairs
             q == parse_mem_layout(o).layout
             size == (mb * MiB) % Space
             one == create_mem_region(DRAM_BASE, size)
             made == [i \in DOMAIN asks |-> create_mem_region(asks[i][1], asks[i][2])]
  <1>1. mb \in Nat /\ asks \in Seq((0 .. Space - 1) \X (0 .. Space - 1)) BY DEF MemOptions
  <1>2. CASE o.legacy
    <2>1. size \div MiB = mb /\ one # Unsupported /\ q = <<one>>
      <3> HIDE DEF size
      <3> QED BY <1>2 DEF parse_mem_layout, size
    <2>2. size = mb * MiB /\ size \in 0 .. Space - 1 /\ DRAM_BASE \in 0 .. Space - 1
      <3>1. size = mb * MiB /\ mb * MiB \in 0 .. Space - 1
        <4>1. ((mb * MiB) % Space) \div MiB = mb BY <2>1
        <4> HIDE DEF mb
        <4>2. QED BY <1>1, <4>1, NoOverflow
      <3>2. DRAM_BASE \in 0 .. Space - 1 BY LauncherAssumption
      <3> HIDE DEF size
      <3>3. QED BY <3>1, <3>2
    <2>3. AskedBy(o) = <<<<DRAM_BASE, size>>>> BY <1>2, <2>2, Zenon DEF AskedBy
    <2> HIDE DEF size, q
    <2>4. q \in Seq(Span) /\ Covers(q, AskedBy(o)) BY <2>1, <2>2, <2>3, OneRegion
    <2>5. QED BY <2>4 DEF q
  <1>3. CASE ~o.legacy
    <2>1. q = merge_overlapping_memory_regions(made) /\ \A i \in DOMAIN made : made[i] # Unsupported
      BY <1>3 DEF parse_mem_layout
    <2>2. AskedBy(o) = asks BY <1>3 DEF AskedBy
    <2> HIDE DEF asks, q
    <2>3. q \in Seq(Span) /\ Covers(q, asks) BY <1>1, <2>1, SeveralRegions
    <2>4. QED BY <2>2, <2>3 DEF q
  <1>4. QED BY <1>2, <1>3

-----------------------------------------------------------------------------
(* The states of main(). *)

Bytes == {"zero", "kernel", "initrd"}
Memory == {m \in [base : Nat, size : Nat, data : UNION {[0 .. n - 1 -> Bytes] : n \in Nat}] :
              DOMAIN m.data = 0 .. m.size - 1}

LauncherTypes ==
    /\ args \in Seq(Options) /\ layout \in Seq(Span) /\ nprocs \in Nat
    /\ hartids \in Seq(Int) /\ files \in [kernel : Int, initrd : Int]
    /\ mainpc \in {"kernel", "initrd", "harts", "create", "run"} => mems \in Seq(Memory)

(* Until the memories are made their layout is the one asked for. *)
LayoutMade == mainpc \in {"options", "kernel"} => Covers(layout, asked)

Ascending(ids) == \A i \in 1 .. Len(ids) - 1 : ids[i] < ids[i + 1]

HartsSettled ==
    /\ Ascending(hartids)
    /\ mainpc \in {"create", "run"} /\ nprocs # 0 => Len(hartids) = nprocs

(* The kernel goes to the first memory that has more than bytes bytes,     *)
(* and stays there when the initrd leaves it the room.                     *)
First(i, bytes) == (\A j \in 1 .. i - 1 : bytes >= mems[j].size) /\ bytes < mems[i].size
Whole(i) == \A o \in KernelOffset .. KernelOffset + files.kernel - 1 : mems[i].data[o] = "kernel"
Room(i) == KernelOffset + files.kernel + Greatest(files.initrd, 0) + InitrdGap <= mems[i].size

KernelPlaced ==
    mainpc \in {"initrd", "harts", "create", "run"} /\ files.kernel > 0 =>
        \A i \in DOMAIN mems :
           First(i, KernelOffset + files.kernel) /\ (mainpc = "initrd" \/ Room(i)) => Whole(i)

InitrdAt(i) ==
    \A a \in initrd_bounds[1] .. initrd_bounds[2] - 1 :
       a - mems[i].base \in DOMAIN mems[i].data /\ mems[i].data[a - mems[i].base] = "initrd"

InitrdPlaced ==
    /\ mainpc \in {"options", "kernel", "initrd"} => initrd_bounds = <<>>
    /\ mainpc \in {"harts", "create", "run"} /\ initrd_bounds # <<>> => \E i \in DOMAIN mems : InitrdAt(i)

LauncherInv == LauncherTypes /\ LayoutMade /\ HartsSettled /\ KernelPlaced /\ InitrdPlaced

LEMMA OptionKinds ==
  ASSUME NEW o \in Options
  PROVE  /\ o.opt = "m" => o \in MemOptions
         /\ o.opt = "p" => o.n \in Nat
         /\ o.opt = "hartids" => o.ids \in Seq(Int)
         /\ o.opt \in {"kernel", "initrd"} => o.size \in Int
  BY DEF Options, MemOptions

LEMMA LayoutEnds ==
  ASSUME NEW o
  PROVE  parse_mem_layout(o).end \in {"", "help", "exit", "throw"}
  BY DEF parse_mem_layout

LEMMA RefusedEnds ==
  ASSUME NEW o
  PROVE  Refused(o) \in {"", "help", "exit", "throw"}
  BY DEF Refused

LEMMA ParsedIds ==
  ASSUME NEW ids \in Seq(Int)
  PROVE  parse_hartids(ids) \in Seq(Int) /\ Ascending(parse_hartids(ids))
  <1> DEFINE t == Sort(ids, <)
             n == Len(ids)
             r == parse_hartids(ids)
  <1>1. t \in Seq(Int) /\ Len(t) = n /\ \A i, j \in DOMAIN ids : i < j => t[i] <= t[j]
    BY SortedIds
  <1>2. n \in Nat /\ DOMAIN ids = 1 .. n OBVIOUS
  <1>3. r = <<>> \/ (r = t /\ ~\E i \in 1 .. n - 1 : t[i] = t[i + 1]) BY DEF parse_hartids
  <1> HIDE DEF t, n, r
  <1>4. CASE r = <<>> BY <1>4 DEF Ascending, r
  <1>5. CASE r = t /\ ~\E i \in 1 .. n - 1 : t[i] = t[i + 1]
    <2>1. ASSUME NEW i \in 1 .. n - 1 PROVE t[i] < t[i + 1]
      <3>1. i \in 1 .. n /\ i + 1 \in 1 .. n /\ i < i + 1 BY <1>2
      <3>2. t[i] <= t[i + 1] /\ t[i] # t[i + 1] BY <1>1, <1>2, <1>5, <3>1
      <3>3. t[i] \in Int /\ t[i + 1] \in Int BY <1>1, <3>1
      <3>4. QED BY <3>2, <3>3
    <2>2. QED BY <1>1, <1>5, <2>1 DEF Ascending, r
  <1>6. QED BY <1>3, <1>4, <1>5

LEMMA FirstFitMeans ==
  ASSUME mems \in Seq(Memory), NEW size \in Int, NEW bytes \in Int
  PROVE  LET i == FirstFit(size, bytes)
         IN  \/ i = 0 /\ ~\E j \in DOMAIN mems : size > 0 /\ bytes < mems[j].size
             \/ i \in DOMAIN mems /\ size > 0 /\ First(i, bytes)
  <1> DEFINE fits == {i \in DOMAIN mems : size > 0 /\ bytes < mems[i].size}
             f == CHOOSE i \in fits : \A j \in fits : i <= j
  <1>1. FirstFit(size, bytes) = IF fits = {} THEN 0 ELSE f BY Zenon DEF FirstFit
  <1>2. CASE fits = {} BY <1>1, <1>2
  <1>3. CASE fits # {}
    <2>1. DOMAIN mems = 1 .. Len(mems) /\ Len(mems) \in Nat /\ \A j \in DOMAIN mems : mems[j].size \in Nat
      BY DEF Memory
    <2>2. fits \subseteq Nat BY <2>1
    <2>3. \E i \in fits : \A j \in fits : i <= j
      <3> HIDE DEF fits
      <3> QED BY <1>3, <2>2, LeastNatural
    <2>4. f \in fits /\ \A j \in fits : f <= j BY <2>3
    <2> HIDE DEF f
    <2>5. f \in DOMAIN mems /\ size > 0 /\ bytes < mems[f].size BY <2>4
    <2>6. ASSUME NEW j \in 1 .. f - 1 PROVE bytes >= mems[j].size
      <3>1. j \in DOMAIN mems /\ j < f BY <2>1, <2>5
      <3>2. j \notin fits BY <2>1, <2>4, <2>5, <3>1
      <3>3. mems[j].size \in Nat BY <2>1, <3>1
      <3>4. QED BY <2>5, <3>1, <3>2, <3>3
    <2>7. QED BY <1>1, <1>3, <2>5, <2>6 DEF First
  <1>4. QED BY <1>2, <1>3

LEMMA MemoryMeans ==
  ASSUME NEW m \in Memory
  PROVE  /\ m = [base |-> m.base, size |-> m.size, data |-> m.data]
         /\ m.base \in Nat /\ m.size \in Nat /\ DOMAIN m.data = 0 .. m.size - 1
         /\ m.data \in [0 .. m.size - 1 -> Bytes]
  <1>1. /\ m = [base |-> m.base, size |-> m.size, data |-> m.data]
        /\ m.base \in Nat /\ m.size \in Nat /\ DOMAIN m.data = 0 .. m.size - 1
        /\ m.data \in UNION {[0 .. n - 1 -> Bytes] : n \in Nat}
    BY DEF Memory
  <1>2. PICK n \in Nat : m.data \in [0 .. n - 1 -> Bytes] BY <1>1
  <1>3. QED BY <1>1, <1>2

LEMMA MakesMemory ==
  ASSUME NEW base \in Nat, NEW size \in Nat, NEW data \in [0 .. size - 1 -> Bytes]
  PROVE  [base |-> base, size |-> size, data |-> data] \in Memory
  <1>1. data \in UNION {[0 .. n - 1 -> Bytes] : n \in Nat} OBVIOUS
  <1>2. QED BY <1>1 DEF Memory

(* read_file_bytes changes the bytes of the file's place, and no other. *)
LEMMA FilledMeans ==
  ASSUME mems \in Seq(Memory), NEW i \in DOMAIN mems, NEW from, NEW size, NEW what \in Bytes
  PROVE  LET new == Filled(i, from, size, what)
         IN  /\ new \in Seq(Memory) /\ DOMAIN new = DOMAIN mems
             /\ \A j \in DOMAIN mems : /\ new[j].base = mems[j].base /\ new[j].size = mems[j].size
                                       /\ j # i => new[j] = mems[j]
             /\ DOMAIN new[i].data = DOMAIN mems[i].data
             /\ \A o \in DOMAIN mems[i].data :
                   /\ o \in from .. from + size - 1 => new[i].data[o] = what
                   /\ o \notin from .. from + size - 1 => new[i].data[o] = mems[i].data[o]
  <1> DEFINE m == mems[i]
             d == [o \in DOMAIN m.data |-> IF o \in from .. from + size - 1 THEN what ELSE m.data[o]]
             x == [m EXCEPT !.data = d]
             new == Filled(i, from, size, what)
  <1>1. m \in Memory OBVIOUS
  <1>2. new = [mems EXCEPT ![i] = x] BY DEF Filled
  <1>3. /\ m = [base |-> m.base, size |-> m.size, data |-> m.data]
        /\ m.base \in Nat /\ m.size \in Nat /\ DOMAIN m.data = 0 .. m.size - 1
        /\ m.data \in [0 .. m.size - 1 -> Bytes]
    <2> HIDE DEF m
    <2> QED BY <1>1, MemoryMeans
  <1>4. d \in [0 .. m.size - 1 -> Bytes] /\ DOMAIN d = DOMAIN m.data
    <2> HIDE DEF m
    <2> QED BY <1>3
  <1>5. \A o \in DOMAIN m.data :
           /\ o \in from .. from + size - 1 => d[o] = what
           /\ o \notin from .. from + size - 1 => d[o] = m.data[o]
    OBVIOUS
  <1>6. x = [base |-> m.base, size |-> m.size, data |-> d]
    <2> HIDE DEF m, d
    <2> QED BY <1>3
  <1> HIDE DEF d, new
  <1>7. x \in Memory
    <2> HIDE DEF m, x
    <2> QED BY <1>3, <1>4, <1>6, MakesMemory
  <1>8. x.base = m.base /\ x.size = m.size /\ x.data = d BY <1>6
  <1> HIDE DEF x
  <1>9. DOMAIN new = DOMAIN mems /\ new[i] = x /\ \A j \in DOMAIN mems : j # i => new[j] = mems[j]
    BY <1>2
  <1>10. new \in Seq(Memory)
    <2>1. DOMAIN mems = 1 .. Len(mems) /\ Len(mems) \in Nat OBVIOUS
    <2>2. \A j \in DOMAIN mems : new[j] \in Memory BY <1>7, <1>9
    <2>3. new = [j \in 1 .. Len(mems) |-> new[j]] BY <1>2, <2>1
    <2>4. new \in [1 .. Len(mems) -> Memory] BY <2>1, <2>2, <2>3
    <2>5. QED BY <2>1, <2>4
  <1>11. QED BY <1>4, <1>5, <1>8, <1>9, <1>10 DEF new

LEMMA OptionStep ==
  ASSUME LauncherInv, Option
  PROVE  LauncherInv'
  <1> DEFINE o == Head(args)
  <1>1. /\ mainpc = "options" /\ args \in Seq(Options) /\ args # <<>> /\ args' = Tail(args)
        /\ UNCHANGED <<cores, mems, initrd_bounds>>
    BY DEF Option, LauncherInv, LauncherTypes
  <1>2. o \in Options /\ args' \in Seq(Options) BY <1>1
  <1>3. /\ layout \in Seq(Span) /\ nprocs \in Nat /\ hartids \in Seq(Int)
        /\ files \in [kernel : Int, initrd : Int] /\ Covers(layout, asked) /\ Ascending(hartids)
        /\ initrd_bounds' = <<>>
    BY <1>1 DEF LauncherInv, LauncherTypes, LayoutMade, HartsSettled, InitrdPlaced
  <1>4. ASSUME /\ mainpc' \in {"options", "help", "exit", "throw"}
               /\ layout' \in Seq(Span) /\ nprocs' \in Nat /\ hartids' \in Seq(Int)
               /\ files' \in [kernel : Int, initrd : Int]
               /\ mainpc' = "options" => Covers(layout', asked')
               /\ Ascending(hartids')
        PROVE  LauncherInv'
    <2>1. LauncherTypes' BY <1>2, <1>4 DEF LauncherTypes
    <2>2. LayoutMade' BY <1>4 DEF LayoutMade, Covers, Apart, InclusiveEnd, Addresses, Requested, Fit, Supported
    <2>3. HartsSettled' BY <1>4 DEF HartsSettled, Ascending
    <2>4. KernelPlaced' BY <1>4 DEF KernelPlaced
    <2>5. InitrdPlaced' BY <1>3, <1>4 DEF InitrdPlaced
    <2>6. QED BY <2>1, <2>2, <2>3, <2>4, <2>5 DEF LauncherInv
  <1> HIDE DEF o
  <1>5. CASE o.opt = "m" /\ MemOption(o)
    <2> DEFINE r == parse_mem_layout(o)
    <2>1. /\ mainpc' = IF r.end = "" THEN mainpc ELSE r.end
          /\ layout' = IF r.end = "" THEN r.layout ELSE layout
          /\ asked' = AskedBy(o)
          /\ UNCHANGED <<nprocs, hartids, files>>
      BY <1>5 DEF MemOption, AskedBy
    <2>2. r.end \in {"", "help", "exit", "throw"} BY LayoutEnds
    <2>3. o \in MemOptions BY <1>2, <1>5, OptionKinds
    <2>4. r.end = "" => r.layout \in Seq(Span) /\ Covers(r.layout, AskedBy(o)) BY <2>3, ParsedLayout
    <2> HIDE DEF r
    <2>5. /\ mainpc' \in {"options", "help", "exit", "throw"} /\ layout' \in Seq(Span)
          /\ mainpc' = "options" => Covers(layout', asked')
      BY <1>1, <1>3, <2>1, <2>2, <2>4
    <2>6. QED BY <1>3, <1>4, <2>1, <2>5
  <1>6. CASE o.opt = "p" /\ ProcsOption(o)
    <2>1. o.n \in Nat BY <1>2, <1>6, OptionKinds
    <2>2. /\ mainpc' \in {"options", "help"} /\ nprocs' \in Nat
          /\ UNCHANGED <<asked, layout, hartids, files>>
      BY <1>1, <1>6, <2>1 DEF ProcsOption
    <2>3. QED BY <1>3, <1>4, <2>2
  <1>7. CASE o.opt = "hartids" /\ HartidsOption(o)
    <2>1. o.ids \in Seq(Int) BY <1>2, <1>7, OptionKinds
    <2>2. /\ mainpc' \in {"options", "exit"} /\ hartids' = parse_hartids(o.ids)
          /\ UNCHANGED <<asked, layout, nprocs, files>>
      BY <1>1, <1>7 DEF HartidsOption
    <2>3. QED BY <1>3, <1>4, <2>1, <2>2, ParsedIds
  <1>8. CASE o.opt \in {"kernel", "initrd"} /\ FileOption(o)
    <2>1. o.size \in Int BY <1>2, <1>8, OptionKinds
    <2>2. /\ files' = [files EXCEPT ![o.opt] = o.size]
          /\ UNCHANGED <<mainpc, asked, layout, nprocs, hartids>>
      BY <1>8 DEF FileOption
    <2>3. files' \in [kernel : Int, initrd : Int] BY <1>3, <1>8, <2>1, <2>2
    <2>4. QED BY <1>1, <1>3, <1>4, <2>2, <2>3
  <1>9. CASE SettingOption(o)
    <2>1. /\ mainpc' \in {"options", "help", "exit", "throw"}
          /\ UNCHANGED <<asked, layout, nprocs, hartids, files>>
      BY <1>1, <1>9, RefusedEnds DEF SettingOption
    <2>2. QED BY <1>3, <1>4, <2>1
  <1>10. QED BY <1>5, <1>6, <1>7, <1>8, <1>9 DEF Option, o

LEMMA MakeMemsStep ==
  ASSUME LauncherInv, make_mems
  PROVE  LauncherInv'
  <1>1. /\ mainpc = "options" /\ mainpc' = "kernel"
        /\ mems' = [i \in DOMAIN layout |->
                       [base |-> layout[i].base, size |-> layout[i].size,
                        data |-> [o \in 0 .. layout[i].size - 1 |-> "zero"]]]
        /\ UNCHANGED <<args, asked, layout, nprocs, hartids, files, initrd_bounds>>
    BY DEF make_mems
  <1>2. layout \in Seq(Span) BY DEF LauncherInv, LauncherTypes
  <1>3. mems' \in Seq(Memory)
    <2>1. Len(layout) \in Nat /\ DOMAIN layout = 1 .. Len(layout) BY <1>2
    <2>2. ASSUME NEW i \in DOMAIN layout PROVE mems'[i] \in Memory
      <3> DEFINE base == layout[i].base
                 size == layout[i].size
                 data == [o \in 0 .. size - 1 |-> "zero"]
      <3>1. base \in Nat /\ size \in Nat
        <4>1. layout[i] \in Span BY <1>2
        <4>2. QED BY <4>1 DEF Span
      <3>2. mems'[i] = [base |-> base, size |-> size, data |-> data] BY <1>1
      <3> HIDE DEF base, size
      <3>3. data \in [0 .. size - 1 -> Bytes] BY DEF Bytes
      <3> HIDE DEF data
      <3>4. QED BY <3>1, <3>2, <3>3, MakesMemory
    <2>3. mems' \in [1 .. Len(layout) -> Memory] BY <1>1, <2>1, <2>2
    <2>4. QED BY <2>1, <2>3
  <1>4. LauncherTypes' BY <1>1, <1>3 DEF LauncherInv, LauncherTypes
  <1>5. LayoutMade' BY <1>1 DEF LauncherInv, LayoutMade
  <1>6. HartsSettled' BY <1>1 DEF LauncherInv, HartsSettled, Ascending
  <1>7. KernelPlaced' BY <1>1 DEF KernelPlaced
  <1>8. InitrdPlaced' BY <1>1 DEF LauncherInv, InitrdPlaced
  <1>9. QED BY <1>4, <1>5, <1>6, <1>7, <1>8 DEF LauncherInv

LEMMA LoadKernelStep ==
  ASSUME LauncherInv, load_kernel
  PROVE  LauncherInv'
  <1> DEFINE size == files.kernel
             f == FirstFit(size, KernelOffset + size)
  <1>1. /\ mainpc = "kernel" /\ mainpc' = "initrd"
        /\ mems' = IF f = 0 THEN mems ELSE Filled(f, KernelOffset, size, "kernel")
        /\ UNCHANGED <<args, asked, layout, nprocs, hartids, files, initrd_bounds>>
    BY DEF load_kernel
  <1>2. mems \in Seq(Memory) /\ size \in Int /\ KernelOffset \in Nat
    BY <1>1, LauncherAssumption DEF LauncherInv, LauncherTypes
  <1>3. \/ f = 0 /\ ~\E j \in DOMAIN mems : size > 0 /\ KernelOffset + size < mems[j].size
        \/ f \in DOMAIN mems /\ size > 0 /\ First(f, KernelOffset + size)
    <2>1. KernelOffset + size \in Int BY <1>2
    <2> HIDE DEF size
    <2>2. QED BY <1>2, <2>1, FirstFitMeans
  <1>4. f \in DOMAIN mems => f # 0 BY <1>2
  <1>5. \A j \in DOMAIN mems : mems[j].size \in Nat /\ DOMAIN mems[j].data = 0 .. mems[j].size - 1
    BY <1>2, MemoryMeans
  <1> HIDE DEF f
  <1>6. /\ mems' \in Seq(Memory)
        /\ size > 0 => \A i \in DOMAIN mems' : (First(i, KernelOffset + size))' => Whole(i)'
    <2>1. CASE f = 0
      <3>1. mems' = mems BY <1>1, <2>1
      <3>2. \A i \in DOMAIN mems : size > 0 => ~(KernelOffset + size < mems[i].size)
        BY <1>3, <1>4, <2>1
      <3>3. QED BY <1>1, <1>2, <3>1, <3>2 DEF First
    <2>2. CASE f # 0
      <3>1. f \in DOMAIN mems /\ First(f, KernelOffset + size) BY <1>3, <2>2
      <3>2. /\ mems' \in Seq(Memory) /\ DOMAIN mems' = DOMAIN mems
            /\ \A j \in DOMAIN mems : mems'[j].size = mems[j].size
            /\ \A o \in DOMAIN mems[f].data :
                  o \in KernelOffset .. KernelOffset + size - 1 => mems'[f].data[o] = "kernel"
        <4>1. "kernel" \in Bytes BY DEF Bytes
        <4>2. mems' = Filled(f, KernelOffset, size, "kernel") BY <1>1, <2>2
        <4> HIDE DEF size
        <4>3. QED BY <1>2, <3>1, <4>1, <4>2, FilledMeans
      <3>3. ASSUME NEW i \in DOMAIN mems', First(i, KernelOffset + size)' PROVE Whole(i)'
        <4>1. i \in DOMAIN mems /\ i \in Nat /\ f \in Nat /\ DOMAIN mems = 1 .. Len(mems) /\ Len(mems) \in Nat
          BY <1>2, <3>1, <3>2
        <4>2. /\ KernelOffset + size < mems[i].size
              /\ \A j \in 1 .. i - 1 : KernelOffset + size >= mems[j].size
          <5>1. \A j \in 1 .. i - 1 : j \in DOMAIN mems BY <4>1
          <5>2. size' = size BY <1>1
          <5>3. QED BY <3>2, <3>3, <4>1, <5>1, <5>2 DEF First
        <4>3. /\ KernelOffset + size < mems[f].size
              /\ \A j \in 1 .. f - 1 : KernelOffset + size >= mems[j].size
          BY <3>1 DEF First
        <4>4. i = f
          <5>1. mems[i].size \in Nat /\ mems[f].size \in Nat BY <1>5, <3>1, <4>1
          <5> HIDE DEF size
          <5>2. ~(i < f)
            <6>1. i < f => i \in 1 .. f - 1 BY <4>1
            <6>2. QED BY <1>2, <4>2, <4>3, <5>1, <6>1
          <5>3. ~(f < i)
            <6>1. f < i => f \in 1 .. i - 1 BY <4>1, <3>1
            <6>2. QED BY <1>2, <4>2, <4>3, <5>1, <6>1
          <5>4. QED BY <4>1, <5>2, <5>3
        <4>5. \A o \in KernelOffset .. KernelOffset + size - 1 : o \in DOMAIN mems[f].data
          BY <1>2, <1>5, <3>1, <4>3
        <4>6. QED BY <1>1, <3>2, <4>4, <4>5 DEF Whole
      <3>4. QED BY <3>2, <3>3
    <2>3. QED BY <2>1, <2>2
  <1>7. LauncherTypes' BY <1>1, <1>6 DEF LauncherInv, LauncherTypes
  <1>8. LayoutMade' BY <1>1 DEF LayoutMade
  <1>9. HartsSettled' BY <1>1 DEF LauncherInv, HartsSettled, Ascending
  <1>10. KernelPlaced' BY <1>1, <1>6 DEF KernelPlaced
  <1>11. InitrdPlaced' BY <1>1 DEF LauncherInv, InitrdPlaced
  <1>12. QED BY <1>7, <1>8, <1>9, <1>10, <1>11 DEF LauncherInv

LEMMA LoadInitrdStep ==
  ASSUME LauncherInv, load_initrd
  PROVE  LauncherInv'
  <1> DEFINE size == files.initrd
  <1> PICK f : f = FirstFit(size, size + InitrdGap)
    OBVIOUS
  <1> DEFINE end == mems[f].base + mems[f].size - InitrdGap
             from == end - size - mems[f].base
  <1>1. /\ mainpc = "initrd" /\ mainpc' = "harts"
        /\ f = 0 => UNCHANGED <<mems, initrd_bounds>>
        /\ f # 0 => /\ initrd_bounds' = <<end - size, end>>
                    /\ mems' = Filled(f, from, size, "initrd")
        /\ UNCHANGED <<args, asked, layout, nprocs, hartids, files>>
    BY DEF load_initrd
  <1>2. mems \in Seq(Memory) /\ size \in Int /\ files.kernel \in Int /\ KernelOffset \in Nat /\ InitrdGap \in Nat
    BY <1>1, LauncherAssumption DEF LauncherInv, LauncherTypes
  <1>3. f = 0 \/ (f \in DOMAIN mems /\ size > 0 /\ size + InitrdGap < mems[f].size)
    <2>1. size + InitrdGap \in Int BY <1>2
    <2> HIDE DEF size
    <2>2. QED BY <1>2, <2>1, FirstFitMeans DEF First
  <1>4. \A j \in DOMAIN mems : /\ mems[j].base \in Nat /\ mems[j].size \in Nat
                               /\ DOMAIN mems[j].data = 0 .. mems[j].size - 1
    BY <1>2, MemoryMeans
  <1>5. files.kernel > 0 =>
           \A i \in DOMAIN mems : First(i, KernelOffset + files.kernel) => Whole(i)
    BY <1>1 DEF LauncherInv, KernelPlaced
  <1>6. initrd_bounds = <<>> BY <1>1 DEF LauncherInv, InitrdPlaced
  <1>7. CASE f = 0
    <2>1. UNCHANGED <<mems, initrd_bounds>> BY <1>1, <1>7
    <2>2. LauncherTypes' BY <1>1, <1>2, <2>1 DEF LauncherInv, LauncherTypes
    <2>3. LayoutMade' BY <1>1 DEF LayoutMade
    <2>4. HartsSettled' BY <1>1 DEF LauncherInv, HartsSettled, Ascending
    <2>5. KernelPlaced' BY <1>1, <1>5, <2>1 DEF KernelPlaced, First, Whole
    <2>6. InitrdPlaced' BY <1>1, <1>6, <2>1 DEF InitrdPlaced
    <2>7. QED BY <2>2, <2>3, <2>4, <2>5, <2>6 DEF LauncherInv
  <1>8. CASE f # 0
    <2>1. f \in DOMAIN mems /\ size > 0 /\ size + InitrdGap < mems[f].size BY <1>3, <1>8
    <2> DEFINE b == mems[f].base
               z == mems[f].size
    <2>2. b \in Nat /\ z \in Nat /\ DOMAIN mems[f].data = 0 .. z - 1 BY <1>4, <2>1
    <2>3. from = z - InitrdGap - size /\ end - size = b + from /\ end = b + from + size
      <3> HIDE DEF size, b, z
      <3>1. end = b + z - InitrdGap BY DEF b, z
      <3>2. from = end - size - b BY DEF b
      <3> HIDE DEF end, from
      <3>3. QED BY <1>2, <2>2, <3>1, <3>2
    <2>4. initrd_bounds' = <<b + from, b + from + size>> BY <1>1, <1>8, <2>3
    <2> HIDE DEF end, from
    <2>5. from \in Nat /\ from + size <= z
      <3>1. size + InitrdGap < z /\ size > 0 BY <2>1
      <3> HIDE DEF size, z
      <3>2. QED BY <1>2, <2>2, <2>3, <3>1
    <2>6. /\ mems' \in Seq(Memory) /\ DOMAIN mems' = DOMAIN mems
          /\ \A j \in DOMAIN mems : /\ mems'[j].base = mems[j].base /\ mems'[j].size = mems[j].size
                                    /\ j # f => mems'[j] = mems[j]
          /\ DOMAIN mems'[f].data = DOMAIN mems[f].data
          /\ \A o \in DOMAIN mems[f].data :
                /\ o \in from .. from + size - 1 => mems'[f].data[o] = "initrd"
                /\ o \notin from .. from + size - 1 => mems'[f].data[o] = mems[f].data[o]
      <3>1. "initrd" \in Bytes BY DEF Bytes
      <3>2. mems' = Filled(f, from, size, "initrd") BY <1>1, <1>8 DEF end, from
      <3> HIDE DEF size, z, b
      <3>3. QED BY <1>2, <2>1, <3>1, <3>2, FilledMeans
    <2>7. LauncherTypes' BY <1>1, <2>6 DEF LauncherInv, LauncherTypes
    <2>8. LayoutMade' BY <1>1 DEF LayoutMade
    <2>9. HartsSettled' BY <1>1 DEF LauncherInv, HartsSettled, Ascending
    <2>10. KernelPlaced'
      <3> DEFINE k == files.kernel
      <3>1. SUFFICES ASSUME k > 0, NEW i \in DOMAIN mems', First(i, KernelOffset + k)', Room(i)'
                     PROVE  Whole(i)'
        BY <1>1 DEF KernelPlaced
      <3>2. i \in DOMAIN mems /\ k' = k /\ size' = size /\ mems'[i].size = mems[i].size
        BY <1>1, <2>6
      <3>3. KernelOffset + k < mems[i].size /\ \A j \in 1 .. i - 1 : KernelOffset + k >= mems[j].size
        <4>1. \A j \in 1 .. i - 1 : j \in DOMAIN mems BY <1>2, <3>2
        <4>2. QED BY <2>6, <3>1, <3>2, <4>1 DEF First
      <3>4. Whole(i) BY <1>5, <3>1, <3>2, <3>3 DEF First
      <3>5. KernelOffset + k + size + InitrdGap <= mems[i].size
        <4>1. Greatest(size, 0) = size BY <1>2, <2>1 DEF Greatest
        <4>2. QED BY <3>1, <3>2, <4>1 DEF Room
      <3>6. ASSUME NEW o \in KernelOffset .. KernelOffset + k - 1 PROVE mems'[i].data[o] = "kernel"
        <4>1. mems[i].data[o] = "kernel" BY <3>4 DEF Whole
        <4>2. CASE i # f BY <2>6, <3>2, <4>1, <4>2
        <4>3. CASE i = f
          <5>1. o < from
            <6>1. KernelOffset + k + size + InitrdGap <= z BY <3>5, <4>3
            <6>2. o < KernelOffset + k /\ o \in Nat BY <1>2
            <6> HIDE DEF k, size, z
            <6>3. k \in Int BY <1>2 DEF k
            <6>4. QED BY <1>2, <2>2, <2>3, <6>1, <6>2, <6>3
          <5>2. o \in DOMAIN mems[f].data
            <6> HIDE DEF size, z
            <6>1. QED BY <1>2, <2>1, <2>2, <2>5, <5>1
          <5>3. o \notin from .. from + size - 1
            <6> HIDE DEF size
            <6>1. QED BY <1>2, <2>5, <5>1
          <5>4. QED BY <2>6, <4>1, <4>3, <5>2, <5>3
        <4>4. QED BY <4>2, <4>3
      <3>7. QED BY <1>1, <3>6 DEF Whole
    <2>11. InitrdAt(f)'
      <3>1. mems'[f].base = b /\ DOMAIN mems'[f].data = 0 .. z - 1 BY <2>1, <2>2, <2>6
      <3> DEFINE lower == b + from
                 upper == b + from + size
      <3>2. initrd_bounds'[1] = lower /\ initrd_bounds'[2] = upper BY <2>4
      <3> HIDE DEF size, b, z
      <3>3. ASSUME NEW a \in lower .. upper - 1
            PROVE  a - b \in 0 .. z - 1 /\ mems'[f].data[a - b] = "initrd"
        <4> DEFINE o == a - b
        <4>1. o \in from .. from + size - 1 /\ o \in 0 .. z - 1 BY <1>2, <2>1, <2>2, <2>5
        <4> HIDE DEF o
        <4>2. mems'[f].data[o] = "initrd" BY <2>2, <2>6, <4>1
        <4>3. QED BY <4>1, <4>2 DEF o
      <3> HIDE DEF lower, upper
      <3>4. QED BY <3>1, <3>2, <3>3 DEF InitrdAt
    <2>12. InitrdPlaced' BY <1>1, <2>1, <2>6, <2>11 DEF InitrdPlaced
    <2>13. QED BY <2>7, <2>8, <2>9, <2>10, <2>12 DEF LauncherInv
  <1>9. QED BY <1>7, <1>8

LEMMA SetHartidsStep ==
  ASSUME LauncherInv, set_hartids
  PROVE  LauncherInv'
  <1>1. /\ mainpc = "harts" /\ mainpc' \in {"exit", "create"}
        /\ hartids # <<>> => hartids' = hartids /\ (mainpc' = "create" /\ nprocs # 0 => nprocs = Len(hartids))
        /\ hartids = <<>> => hartids' = [i \in 1 .. Greatest(nprocs, 1) |-> i - 1]
        /\ UNCHANGED <<args, asked, layout, nprocs, files, mems, initrd_bounds>>
    BY DEF set_hartids
  <1>2. nprocs \in Nat /\ hartids \in Seq(Int) /\ Ascending(hartids)
    BY DEF LauncherInv, LauncherTypes, HartsSettled
  <1>3. /\ hartids' \in Seq(Int) /\ Ascending(hartids')
        /\ mainpc' = "create" /\ nprocs # 0 => Len(hartids') = nprocs
    <2>1. CASE hartids # <<>> BY <1>1, <1>2, <2>1
    <2>2. CASE hartids = <<>>
      <3> DEFINE n == Greatest(nprocs, 1)
      <3>1. n \in Nat /\ n >= 1 /\ (nprocs # 0 => n = nprocs) BY <1>2 DEF Greatest
      <3>2. hartids' = [i \in 1 .. n |-> i - 1] BY <1>1, <2>2
      <3> HIDE DEF n
      <3>3. hartids' \in Seq(Int) /\ Len(hartids') = n BY <3>1, <3>2
      <3>4. Ascending(hartids') BY <3>1, <3>2, <3>3 DEF Ascending
      <3>5. QED BY <3>1, <3>3, <3>4
    <2>3. QED BY <2>1, <2>2
  <1>4. LauncherTypes' BY <1>1, <1>3 DEF LauncherInv, LauncherTypes
  <1>5. LayoutMade' BY <1>1 DEF LayoutMade
  <1>6. HartsSettled' BY <1>1, <1>3 DEF HartsSettled, Ascending
  <1>7. KernelPlaced' BY <1>1 DEF LauncherInv, KernelPlaced, First, Whole, Room
  <1>8. InitrdPlaced' BY <1>1 DEF LauncherInv, InitrdPlaced, InitrdAt
  <1>9. QED BY <1>4, <1>5, <1>6, <1>7, <1>8 DEF LauncherInv

LEMMA CreateSimStep ==
  ASSUME LauncherInv, create_sim
  PROVE  LauncherInv'
  <1>1. /\ mainpc = "create" /\ mainpc' \in {"dts", "run"}
        /\ UNCHANGED <<args, asked, layout, nprocs, hartids, files, mems, initrd_bounds>>
    BY DEF create_sim
  <1>2. LauncherTypes' BY <1>1 DEF LauncherInv, LauncherTypes
  <1>3. LayoutMade' BY <1>1 DEF LayoutMade
  <1>4. HartsSettled' BY <1>1 DEF LauncherInv, HartsSettled, Ascending
  <1>5. KernelPlaced' BY <1>1 DEF LauncherInv, KernelPlaced, First, Whole, Room
  <1>6. InitrdPlaced' BY <1>1 DEF LauncherInv, InitrdPlaced, InitrdAt
  <1>7. QED BY <1>2, <1>3, <1>4, <1>5, <1>6 DEF LauncherInv

(* The invariant of main(): what its variables hold at each stage. *)
THEOREM LauncherInvariant == LauncherSpec => []LauncherInv
  <1>1. LauncherInit => LauncherInv
    <2> SUFFICES ASSUME LauncherInit PROVE LauncherInv
      OBVIOUS
    <2> USE DEF LauncherInit
    <2>1. LauncherTypes BY LauncherAssumption DEF LauncherTypes, Span
    <2>2. LayoutMade BY DEF LayoutMade, Covers
    <2>3. HartsSettled BY DEF HartsSettled, Ascending
    <2>4. KernelPlaced BY DEF KernelPlaced
    <2>5. InitrdPlaced BY DEF InitrdPlaced
    <2>6. QED BY <2>1, <2>2, <2>3, <2>4, <2>5 DEF LauncherInv
  <1>2. LauncherInv /\ [LauncherNext]_launcherVars => LauncherInv'
    <2> SUFFICES ASSUME LauncherInv, [LauncherNext]_launcherVars PROVE LauncherInv'
      OBVIOUS
    <2>1. CASE UNCHANGED launcherVars
      BY <2>1 DEF LauncherInv, launcherVars, LauncherTypes, LayoutMade, HartsSettled, KernelPlaced,
                  InitrdPlaced, Ascending, First, Whole, Room, InitrdAt
    <2>2. QED
      BY <2>1, OptionStep, MakeMemsStep, LoadKernelStep, LoadInitrdStep, SetHartidsStep, CreateSimStep
      DEF LauncherNext
  <1>3. QED BY <1>1, <1>2, PTL DEF LauncherSpec

(* spike_insn.cc, create_mem_region and merge_overlapping_memory_regions:  *)
(* the memories are exactly the pages that the last -m asked for, aligned, *)
(* disjoint and in order, whatever the numbers in the command line are.    *)
THEOREM LayoutIsCovered == LauncherSpec => []LayoutCovers
  <1>1. LauncherInv => LayoutCovers
    <2> SUFFICES ASSUME LauncherInv, mainpc = "kernel", asked # <<>>, \A i \in DOMAIN asked : Fit(asked[i])
                 PROVE  /\ \A i \in DOMAIN layout : check_if_supported(layout[i].base, layout[i].size)
                        /\ \A i, j \in DOMAIN layout : i < j => InclusiveEnd(layout[i]) < layout[j].base
                        /\ UNION {Addresses(layout[i]) : i \in DOMAIN layout}
                              = UNION {Requested(asked[i]) : i \in DOMAIN asked}
      BY DEF LayoutCovers
    <2>1. /\ layout \in Seq(Span) /\ Apart(layout)
          /\ UNION {Addresses(layout[i]) : i \in DOMAIN layout}
                = UNION {Requested(asked[i]) : i \in DOMAIN asked}
      BY DEF LauncherInv, LauncherTypes, LayoutMade, Covers
    <2>2. DOMAIN layout = 1 .. Len(layout) BY <2>1
    <2>3. \A i \in DOMAIN layout : layout[i] \in Supported BY <2>1, <2>2 DEF Apart
    <2>4. \A i \in DOMAIN layout : check_if_supported(layout[i].base, layout[i].size)
      BY <2>3, SupportedRegion
    <2>5. ASSUME NEW i \in DOMAIN layout, NEW j \in DOMAIN layout, i < j
          PROVE  InclusiveEnd(layout[i]) < layout[j].base
      <3>1. layout[i].base + layout[i].size <= layout[j].base BY <2>1, <2>2, <2>5 DEF Apart
      <3>2. /\ InclusiveEnd(layout[i]) = layout[i].base + layout[i].size - 1
            /\ layout[i].base \in Nat /\ layout[i].size \in Nat /\ layout[j].base \in Nat
        BY <2>3, SupportedRegion
      <3>3. QED BY <3>1, <3>2
    <2>6. QED BY <2>1, <2>4, <2>5
  <1>2. QED BY <1>1, LauncherInvariant, PTL

(* spike_insn.cc, main: when the simulator runs, the bounds of the initrd  *)
(* enclose its bytes in one memory, the kernel is whole wherever both have *)
(* room, and the harts are as many as -p says, their ids ascending.        *)
THEOREM LaunchIsAsAsked == LauncherSpec => []LaunchedAsAsked
  <1>1. LauncherInv => LaunchedAsAsked
    <2> SUFFICES ASSUME LauncherInv, mainpc = "run" PROVE LaunchedAsAsked
      BY DEF LaunchedAsAsked
    <2>1. initrd_bounds # <<>> => \E i \in DOMAIN mems : InitrdAt(i) BY DEF LauncherInv, InitrdPlaced
    <2>2. files.kernel > 0 =>
             \A i \in DOMAIN mems : First(i, KernelOffset + files.kernel) /\ Room(i) => Whole(i)
      BY DEF LauncherInv, KernelPlaced
    <2>3. nprocs # 0 => Len(hartids) = nprocs BY DEF LauncherInv, HartsSettled
    <2>4. \A i \in 1 .. Len(hartids) - 1 : hartids[i] < hartids[i + 1]
      BY DEF LauncherInv, HartsSettled, Ascending
    <2>5. QED BY <2>1, <2>2, <2>3, <2>4 DEF LaunchedAsAsked, InitrdAt, First, Room, Whole
  <1>2. QED BY <1>1, LauncherInvariant, PTL
==============================================================================
