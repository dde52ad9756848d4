--------------------------- MODULE PlatformProofs ---------------------------
(***************************************************************************)
(* Proofs about the two platforms.  TurboSoc: its buffers and that it      *)
(* implements HartMemory, for every clock, delay, size of the ring buffers *)
(* and set of accesses.  DemoSim: the image is in memory when the hart     *)
(* starts, the hart starts at the entry point, and its accesses are those  *)
(* of a flat memory, for every file, reset vector and program that satisfy *)
(* the assumptions of Platform and DemoSim.                                *)
(***************************************************************************)
EXTENDS TurboSoc, DemoSim, ElfLoader, NatRecursion, SequenceTheorems

-----------------------------------------------------------------------------
(***************************************************************************)
(* The sparse array and the loader: what the loops of SparseArray and      *)
(* ElfLoader compute, for every size of the pages, every address and every *)
(* length of the data.                                                     *)
(***************************************************************************)
(* Division of an address into page and offset. *)
LEMMA PageOffset ==
  ASSUME NEW a \in Nat
  PROVE  /\ a = PageSize * (a \div PageSize) + (a % PageSize)
         /\ a % PageSize \in 0 .. PageSize - 1 /\ a \div PageSize \in Nat
  BY SparseArrayAssumption

LEMMA NextPage ==
  ASSUME NEW k \in Nat, NEW m \in Nat, k < m
  PROVE  PageSize * k + PageSize <= PageSize * m
  BY SparseArrayAssumption

LEMMA PageNumber ==
  ASSUME NEW k \in Nat, NEW o \in 0 .. PageSize - 1
  PROVE  (PageSize * k + o) \div PageSize = k /\ (PageSize * k + o) % PageSize = o
  BY SparseArrayAssumption

LEMMA PageOrder ==
  ASSUME NEW a \in Nat, NEW b \in Nat
  PROVE  /\ a <= b => a \div PageSize <= b \div PageSize
         /\ \A k \in Nat : a = PageSize * k => a \div PageSize = k
  <1> DEFINE k == a \div PageSize
             m == b \div PageSize
             r == a % PageSize
             o == b % PageSize
             A == PageSize * k
             B == PageSize * m
  <1>1. /\ a = A + r /\ r \in 0 .. PageSize - 1 /\ k \in Nat
        /\ b = B + o /\ o \in 0 .. PageSize - 1 /\ m \in Nat
    BY PageOffset
  <1>2. PageSize \in Nat \ {0} /\ A \in Nat /\ B \in Nat BY <1>1, SparseArrayAssumption
  <1>3. m < k => B + PageSize <= A BY <1>1, NextPage
  <1>4. a <= b => k <= m
    <2> HIDE DEF k, m, r, o, A, B
    <2> QED BY <1>1, <1>2, <1>3
  <1>5. ASSUME NEW n \in Nat, a = PageSize * n PROVE a \div PageSize = n
    <2>1. 0 \in 0 .. PageSize - 1 BY SparseArrayAssumption
    <2>2. PageSize * n + 0 = a BY <1>5
    <2>3. QED BY <2>1, <2>2, PageNumber
  <1>6. QED BY <1>4, <1>5

(* A byte is at these offsets of this page when it is in this interval. *)
LEMMA InPage ==
  ASSUME NEW nr \in Nat, NEW o \in 0 .. PageSize - 1, NEW w \in Nat, o + w <= PageSize,
         NEW b \in Nat
  PROVE  (b \div PageSize = nr /\ b % PageSize \in o .. o + w - 1)
         <=> b \in PageSize * nr + o .. PageSize * nr + o + w - 1
  <1> DEFINE k == b \div PageSize
             r == b % PageSize
             B == PageSize * nr
             C == PageSize * k
  <1>1. b = C + r /\ r \in 0 .. PageSize - 1 /\ k \in Nat BY PageOffset
  <1>2. PageSize \in Nat \ {0} /\ B \in Nat /\ C \in Nat
    BY <1>1, SparseArrayAssumption
  <1>3. (k = nr => B = C) /\ (k < nr => C + PageSize <= B) /\ (nr < k => B + PageSize <= C)
    BY <1>1, NextPage
  <1>4. (k = nr /\ r \in o .. o + w - 1) <=> b \in B + o .. B + o + w - 1
    <2> HIDE DEF k, r, B, C
    <2> QED BY <1>1, <1>2, <1>3
  <1>5. QED BY <1>4

(* An address in the array is in one of its pages. *)
LEMMA InArray ==
  ASSUME NEW a \in Nat
  PROVE  a < SIZE <=> a \div PageSize < PageCount
  <1> DEFINE k == a \div PageSize
             r == a % PageSize
             C == PageSize * k
  <1>1. a = C + r /\ r \in 0 .. PageSize - 1 /\ k \in Nat BY PageOffset
  <1>2. PageCount \in Nat /\ PageSize \in Nat \ {0} /\ SIZE \in Nat /\ C \in Nat /\ SIZE = PageSize * PageCount
    BY <1>1, SparseArrayAssumption DEF SIZE
  <1>3. (k < PageCount => C + PageSize <= SIZE) /\ (PageCount < k => SIZE + PageSize <= C)
        /\ (k = PageCount => C = SIZE)
    BY <1>1, <1>2, NextPage
  <1>4. a < SIZE <=> k < PageCount
    <2> HIDE DEF k, r, C
    <2> QED BY <1>1, <1>2, <1>3
  <1>5. QED BY <1>4

(* What is in the page of a byte of the array is in the array. *)
LEMMA PageInside ==
  ASSUME NEW a \in Nat, NEW len \in Nat, a < SIZE, (a % PageSize) + len <= PageSize,
         NEW i \in 1 .. len
  PROVE  a + i - 1 \in 0 .. SIZE - 1
  <1> DEFINE k == a \div PageSize
             o == a % PageSize
             b == a + i - 1
  <1>1. a = PageSize * k + o /\ k \in Nat /\ o \in 0 .. PageSize - 1 BY PageOffset
  <1>2. k < PageCount BY InArray
  <1>3. PageSize * k \in Nat /\ SIZE \in Nat BY <1>1, SparseArrayAssumption DEF SIZE
  <1>4. PageSize * k + PageSize <= SIZE BY <1>1, <1>2, SparseArrayAssumption, NextPage DEF SIZE
  <1> DEFINE s == PageSize * k
  <1>5. s \in Nat /\ a = s + o /\ s + PageSize <= SIZE /\ o + len <= PageSize BY <1>1, <1>3, <1>4
  <1> HIDE DEF s, o, k
  <1>6. QED BY <1>1, <1>3, <1>5, SparseArrayAssumption

-----------------------------------------------------------------------------
(* Arrays and their pages. *)

Bytes == [0 .. PageSize - 1 -> Nat]
Array == UNION {[D -> Bytes] : D \in SUBSET (0 .. PageCount - 1)}

LEMMA ArrayPages ==
  ASSUME NEW array \in Array
  PROVE  /\ DOMAIN array \subseteq 0 .. PageCount - 1
         /\ \A nr \in DOMAIN array : array[nr] \in Bytes
  BY DEF Array

LEMMA PageType ==
  ASSUME NEW array \in Array, NEW nr
  PROVE  Page(array, nr) \in Bytes
  BY ArrayPages DEF Page, Bytes

LEMMA ByteType ==
  ASSUME NEW array \in Array, NEW b \in Nat
  PROVE  ByteAt(array, b) \in Nat
  <1>1. Page(array, b \div PageSize) \in Bytes BY PageType
  <1>2. b % PageSize \in 0 .. PageSize - 1 BY PageOffset
  <1>3. QED BY <1>1, <1>2 DEF ByteAt, Bytes

LEMMA NoPagesType == NoPages \in Array /\ \A b \in Nat : ByteAt(NoPages, b) = 0
  <1>1. DOMAIN NoPages = {} /\ NoPages = [x \in {} |-> 0] BY DEF NoPages
  <1>2. NoPages \in [{} -> Bytes] BY <1>1
  <1>3. NoPages \in Array BY <1>2 DEF Array
  <1>4. \A b \in Nat : ByteAt(NoPages, b) = 0
    BY <1>1, PageOffset DEF ByteAt, Page
  <1>5. QED BY <1>3, <1>4

LEMMA WithPageType ==
  ASSUME NEW array \in Array, NEW nr \in 0 .. PageCount - 1, NEW page \in Bytes
  PROVE  /\ WithPage(array, nr, page) \in Array
         /\ \A m : Page(WithPage(array, nr, page), m) = IF m = nr THEN page ELSE Page(array, m)
  <1> DEFINE D == DOMAIN array \cup {nr}
             new == WithPage(array, nr, page)
  <1>1. D \in SUBSET (0 .. PageCount - 1) BY ArrayPages
  <1>2. new = [n \in D |-> IF n = nr THEN page ELSE array[n]] BY DEF WithPage
  <1>3. new \in [D -> Bytes] BY <1>2, ArrayPages
  <1>4. new \in Array BY <1>1, <1>3 DEF Array
  <1>5. \A m : Page(new, m) = IF m = nr THEN page ELSE Page(array, m)
    BY <1>2 DEF Page
  <1>6. QED BY <1>4, <1>5

-----------------------------------------------------------------------------
(* read() *)

(* A read inside the array and inside a page yields the bytes there and    *)
(* changes none, though it may allocate the page.                          *)
LEMMA ReadInPage ==
  ASSUME NEW array \in Array, NEW addr \in Nat, NEW len \in Nat, NEW beyond,
         addr < SIZE, (addr % PageSize) + len <= PageSize
  PROVE  LET r == read(array, addr, len, beyond)
         IN  /\ r.ok /\ r.arr \in Array
             /\ \A b \in Nat : ByteAt(r.arr, b) = ByteAt(array, b)
             /\ r.data = [i \in 1 .. len |-> ByteAt(array, addr + i - 1)]
  <1> DEFINE nr == addr \div PageSize
             offs == addr % PageSize
             r == read(array, addr, len, beyond)
  <1>1. nr \in 0 .. PageCount - 1 /\ offs \in 0 .. PageSize - 1 /\ addr = PageSize * nr + offs
    BY InArray, PageOffset, SparseArrayAssumption
  <1>2. /\ r.ok /\ r.arr = WithPage(array, nr, Page(array, nr))
        /\ r.data = [i \in 1 .. len |->
                        IF offs + i > PageSize THEN beyond ELSE Page(array, nr)[offs + i - 1]]
    BY SparseArrayAssumption, <1>1 DEF read, SIZE
  <1>3. r.arr \in Array /\ \A m : Page(r.arr, m) = Page(array, m)
    BY <1>1, <1>2, PageType, WithPageType
  <1>4. \A b \in Nat : ByteAt(r.arr, b) = ByteAt(array, b) BY <1>3 DEF ByteAt
  <1>5. ASSUME NEW i \in 1 .. len
        PROVE  ByteAt(array, addr + i - 1) = Page(array, nr)[offs + i - 1] /\ ~(offs + i > PageSize)
    <2>1. offs + (i - 1) \in 0 .. PageSize - 1 BY <1>1, SparseArrayAssumption
    <2>2. addr + i - 1 = PageSize * nr + (offs + (i - 1))
      <3> DEFINE B == PageSize * nr
      <3>1. B \in Nat /\ addr = B + offs BY <1>1, SparseArrayAssumption
      <3> HIDE DEF B
      <3>2. addr + i - 1 = B + (offs + (i - 1)) BY <1>1, <3>1
      <3>3. QED BY <3>2 DEF B
    <2>3. (addr + i - 1) \div PageSize = nr /\ (addr + i - 1) % PageSize = offs + (i - 1)
      BY <1>1, <2>1, <2>2, PageNumber
    <2>4. QED BY <1>1, <2>1, <2>3, SparseArrayAssumption DEF ByteAt
  <1> HIDE DEF r, nr, offs
  <1>6. r.data = [i \in 1 .. len |-> ByteAt(array, addr + i - 1)] BY <1>2, <1>5
  <1>7. QED BY <1>2, <1>3, <1>4, <1>6 DEF r

-----------------------------------------------------------------------------
(* write() *)

Loop(n) == [ok : BOOLEAN, arr : Array, start : Nat, len : 0 .. n]

(* How many bytes one round of write() puts into its page. *)
Room(start, len) == IF (start % PageSize) + len > PageSize THEN PageSize - (start % PageSize) ELSE len

LEMMA RoomType ==
  ASSUME NEW start \in Nat, NEW len \in Nat
  PROVE  /\ Room(start, len) \in 0 .. len /\ (start % PageSize) + Room(start, len) <= PageSize
         /\ (start % PageSize) + len > PageSize =>
               start + Room(start, len) = PageSize * ((start \div PageSize) + 1)
         /\ (start % PageSize) + len <= PageSize => Room(start, len) = len
  <1> DEFINE nr == start \div PageSize
             offset == start % PageSize
             B == PageSize * nr
             w == Room(start, len)
  <1>1. nr \in Nat /\ offset \in 0 .. PageSize - 1 /\ start = B + offset
    BY PageOffset
  <1>2. PageSize \in Nat \ {0} BY SparseArrayAssumption
  <1>3. B \in Nat /\ PageSize * (nr + 1) = B + PageSize BY <1>1, <1>2
  <1>4. w = IF offset + len > PageSize THEN PageSize - offset ELSE len BY DEF Room
  <1> HIDE DEF nr, offset, B, w
  <1>5. /\ w \in 0 .. len /\ offset + w <= PageSize
        /\ offset + len > PageSize => start + w = PageSize * (nr + 1)
        /\ offset + len <= PageSize => w = len
    BY <1>1, <1>2, <1>3, <1>4
  <1>6. QED BY <1>5 DEF nr, offset, w

(* The array after a page has taken the first w bytes of data. *)
LEMMA CopiedBytes ==
  ASSUME NEW array \in Array, NEW data \in Seq(Nat), NEW start \in Nat, NEW w \in 0 .. Len(data),
         start \div PageSize < PageCount, (start % PageSize) + w <= PageSize
  PROVE  LET nr == start \div PageSize
             new == WithPage(array, nr, Copied(Page(array, nr), start % PageSize, data, w, <<>>))
         IN  /\ new \in Array
             /\ \A b \in Nat : ByteAt(new, b) =
                   IF b \in start .. start + w - 1 THEN data[b - start + 1] ELSE ByteAt(array, b)
  <1> DEFINE nr == start \div PageSize
             offset == start % PageSize
             B == PageSize * nr
             page == Copied(Page(array, nr), offset, data, w, <<>>)
             new == WithPage(array, nr, page)
  <1>1. nr \in 0 .. PageCount - 1 /\ offset \in 0 .. PageSize - 1 /\ start = B + offset
    <2>1. nr \in Nat /\ offset \in 0 .. PageSize - 1 /\ start = B + offset BY PageOffset
    <2>2. nr < PageCount OBVIOUS
    <2> HIDE DEF nr, offset, B
    <2>3. QED BY <2>1, <2>2, SparseArrayAssumption
  <1>2. B \in Nat /\ PageSize \in Nat \ {0} /\ offset + w <= PageSize /\ w \in Nat
    BY <1>1, SparseArrayAssumption
  <1>3. page = [o \in 0 .. PageSize - 1 |->
                   IF o \in offset .. offset + w - 1 THEN data[o - offset + 1] ELSE Page(array, nr)[o]]
    BY DEF Copied
  <1>4. \A b \in Nat : (b \div PageSize = nr /\ b % PageSize \in offset .. offset + w - 1)
                       <=> b \in B + offset .. B + offset + w - 1
    <2> SUFFICES ASSUME NEW b \in Nat
                 PROVE  (b \div PageSize = nr /\ b % PageSize \in offset .. offset + w - 1)
                        <=> b \in B + offset .. B + offset + w - 1
      OBVIOUS
    <2> HIDE DEF nr, offset
    <2> nr \in Nat BY <1>1
    <2> QED BY <1>1, <1>2, InPage
  <1>5. \A b \in Nat : ByteAt(new, b) = Page(new, b \div PageSize)[b % PageSize]
    BY DEF ByteAt
  <1>6. \A b \in Nat : ByteAt(array, b) = Page(array, b \div PageSize)[b % PageSize]
    BY DEF ByteAt
  <1>7. \A b \in Nat : b \div PageSize = nr => b = B + (b % PageSize)
    BY PageOffset
  <1> HIDE DEF nr, offset, B, page
  <1>8. page \in Bytes
    <2>1. Page(array, nr) \in Bytes BY PageType
    <2>2. ASSUME NEW o \in 0 .. PageSize - 1, o \in offset .. offset + w - 1
          PROVE  data[o - offset + 1] \in Nat
      <3>1. o - offset + 1 \in 1 .. Len(data) BY <1>1, <1>2, <2>2
      <3>2. QED BY <3>1
    <2>3. QED BY <1>3, <2>1, <2>2 DEF Bytes
  <1>9. /\ new \in Array
        /\ \A m : Page(new, m) = IF m = nr THEN page ELSE Page(array, m)
    BY <1>1, <1>8, WithPageType
  <1> HIDE DEF new
  <1>10. ASSUME NEW b \in Nat
         PROVE  ByteAt(new, b) = IF b \in start .. start + w - 1 THEN data[b - start + 1]
                                 ELSE ByteAt(array, b)
    <2> DEFINE k == b \div PageSize
               o == b % PageSize
    <2>1. o \in 0 .. PageSize - 1 /\ (k = nr => b = B + o) BY <1>7, PageOffset
    <2>2. k = nr /\ o \in offset .. offset + w - 1 <=> b \in start .. start + w - 1
      BY <1>1, <1>4
    <2>3. ByteAt(new, b) = IF k = nr THEN page[o] ELSE ByteAt(array, b)
      BY <1>5, <1>6, <1>9
    <2>4. k = nr => page[o] = IF o \in offset .. offset + w - 1 THEN data[o - offset + 1]
                              ELSE ByteAt(array, b)
      BY <1>3, <1>6, <2>1
    <2> HIDE DEF k, o
    <2>5. k = nr => o - offset + 1 = b - start + 1 BY <1>1, <1>2, <2>1
    <2>6. QED BY <2>2, <2>3, <2>4, <2>5
  <1>11. QED BY <1>9, <1>10 DEF new, page, nr, offset

(* A round of write() puts the first bytes of data where it starts, and    *)
(* starts the next round at the next page when not all of them fit.        *)
LEMMA RoundEffect ==
  ASSUME NEW data \in Seq(Nat), NEW s \in Loop(Len(data)),
         s.ok, s.start \div PageSize < PageCount
  PROVE  LET r == WriteRound(s, data, <<>>)
             w == Room(s.start, s.len)
         IN  /\ r \in Loop(Len(data)) /\ r.ok
             /\ \A b \in Nat : ByteAt(r.arr, b) =
                   IF b \in s.start .. s.start + w - 1 THEN data[b - s.start + 1]
                   ELSE ByteAt(s.arr, b)
             /\ \/ w = s.len /\ r.start = s.start /\ r.len = s.len
                \/ /\ (s.start % PageSize) + s.len > PageSize
                   /\ r.start = s.start + w /\ r.len = s.len - w
                   /\ r.start = PageSize * ((s.start \div PageSize) + 1)
  <1> DEFINE start == s.start
             len == s.len
             nr == start \div PageSize
             w == Room(start, len)
             cut == (start % PageSize) + len > PageSize
             new == WithPage(s.arr, nr, Copied(Page(s.arr, nr), start % PageSize, data, w, <<>>))
             r == WriteRound(s, data, <<>>)
  <1>1. s.arr \in Array /\ start \in Nat /\ len \in 0 .. Len(data) /\ Len(data) \in Nat
    BY DEF Loop
  <1>2. nr < PageCount /\ nr \in Nat BY <1>1, PageOffset
  <1>3. ~(nr >= PageCount) BY <1>1, <1>2, SparseArrayAssumption
  <1>4. r = [ok |-> TRUE, arr |-> new,
             start |-> IF cut THEN start + w ELSE start,
             len |-> IF cut THEN len - w ELSE len]
    BY <1>3 DEF WriteRound, Room
  <1>5. s.start = start /\ s.len = len OBVIOUS
  <1> HIDE DEF start, len
  <1>6. /\ w \in 0 .. len /\ (start % PageSize) + w <= PageSize
        /\ cut => start + w = PageSize * (nr + 1)
        /\ ~cut => w = len
    <2>1. len \in Nat /\ (cut <=> ~((start % PageSize) + len <= PageSize))
      BY <1>1, SparseArrayAssumption
    <2>2. QED BY <1>1, <2>1, RoomType
  <1> HIDE DEF w
  <1>7. /\ new \in Array
        /\ \A b \in Nat : ByteAt(new, b) =
              IF b \in start .. start + w - 1 THEN data[b - start + 1] ELSE ByteAt(s.arr, b)
    <2>1. start \div PageSize < PageCount BY <1>2
    <2>2. w \in 0 .. Len(data) BY <1>1, <1>6
    <2>3. (start % PageSize) + w <= PageSize BY <1>6
    <2>4. QED BY <1>1, <2>1, <2>2, <2>3, CopiedBytes, SMT
  <1> HIDE DEF new, cut, nr
  <1>8. r.ok /\ r.arr = new /\ r.start = (IF cut THEN start + w ELSE start)
        /\ r.len = (IF cut THEN len - w ELSE len)
    BY <1>4
  <1>9. (IF cut THEN start + w ELSE start) \in Nat /\ (IF cut THEN len - w ELSE len) \in 0 .. Len(data)
    BY <1>1, <1>6
  <1>10. r \in Loop(Len(data))
    <2> DEFINE y == IF cut THEN start + w ELSE start
               z == IF cut THEN len - w ELSE len
    <2>1. y \in Nat /\ z \in 0 .. Len(data) BY <1>9
    <2>2. r = [ok |-> TRUE, arr |-> new, start |-> y, len |-> z] BY <1>4
    <2> HIDE DEF r, y, z
    <2>3. QED BY <1>7, <2>1, <2>2 DEF Loop
  <1> HIDE DEF r
  <1>11. \/ w = len /\ r.start = start /\ r.len = len
         \/ cut /\ r.start = start + w /\ r.len = len - w /\ r.start = PageSize * (nr + 1)
    BY <1>6, <1>8
  <1>12. QED BY <1>5, <1>7, <1>8, <1>10, <1>11 DEF r, w, nr, cut

(* A round that fails keeps the array. *)
LEMMA RoundFails ==
  ASSUME NEW data \in Seq(Nat), NEW s \in Loop(Len(data)),
         ~(s.ok /\ s.start \div PageSize < PageCount)
  PROVE  LET r == WriteRound(s, data, <<>>)
         IN  /\ r \in Loop(Len(data)) /\ ~r.ok
             /\ r.arr = s.arr /\ r.start = s.start /\ r.len = s.len
  <1> DEFINE nr == s.start \div PageSize
  <1>1. s.start \in Nat BY DEF Loop
  <1>2. nr \in Nat BY <1>1, PageOffset
  <1>3. ~s.ok \/ nr >= PageCount
    <2> HIDE DEF nr
    <2>1. ~(nr < PageCount) => nr >= PageCount BY <1>2, SparseArrayAssumption
    <2>2. QED BY <2>1 DEF nr
  <1>4. WriteRound(s, data, <<>>) = [s EXCEPT !.ok = FALSE] BY <1>3 DEF WriteRound
  <1>5. QED BY <1>4 DEF Loop

(* The rounds of write(): each is what WriteRound makes of the last. *)
LEMMA Rounds ==
  ASSUME NEW array \in Array, NEW addr \in Nat, NEW data \in Seq(Nat)
  PROVE  \E n \in Nat \ {0} : \E g \in [0 .. n -> Loop(Len(data))] :
            /\ g[0] = [ok |-> addr < SIZE, arr |-> array, start |-> addr, len |-> Len(data)]
            /\ \A i \in 1 .. n : g[i] = WriteRound(g[i - 1], data, <<>>)
            /\ write(array, addr, data, <<>>) = [ok |-> g[n].ok, arr |-> g[n].arr]
  <1> DEFINE n == ((addr % PageSize) + Len(data)) \div PageSize + 1
             S == Loop(Len(data))
             s0 == [ok |-> addr < SIZE, arr |-> array, start |-> addr, len |-> Len(data)]
             Rec(g) == g = [i \in 0 .. n |-> IF i = 0 THEN s0 ELSE WriteRound(g[i - 1], data, <<>>)]
             rnd == CHOOSE g : Rec(g)
             F == [x \in S \X (1 .. n) |-> WriteRound(x[1], data, <<>>)]
  <1>1. write(array, addr, data, <<>>) = [ok |-> rnd[n].ok, arr |-> rnd[n].arr] BY DEF write
  <1>2. n \in Nat \ {0}
    <2>1. (addr % PageSize) + Len(data) \in Nat
      <3>1. addr % PageSize \in Nat /\ Len(data) \in Nat BY SparseArrayAssumption
      <3>2. QED BY <3>1
    <2> DEFINE m == (addr % PageSize) + Len(data)
    <2> HIDE DEF m
    <2>2. m \div PageSize \in Nat BY <2>1, PageOffset DEF m
    <2>3. QED BY <2>2 DEF m
  <1>3. s0 \in S
    <2>1. (addr < SIZE) \in BOOLEAN OBVIOUS
    <2>2. Len(data) \in 0 .. Len(data) OBVIOUS
    <2>3. QED BY <2>1, <2>2 DEF Loop
  <1>4. \A s \in S : WriteRound(s, data, <<>>) \in S
    BY RoundEffect, RoundFails
  <1> HIDE DEF n, S, s0
  <1>5. F \in [S \X (1 .. n) -> S] BY <1>4
  <1>6. \E g : Rec(g)
    <2>1. PICK g \in [0 .. n -> S] : Recursion(g, n, s0, F)
      <3>1. n \in Nat BY <1>2
      <3> HIDE DEF F
      <3>2. QED BY <1>3, <1>5, <3>1, RecursionExists, Zenon
    <2>2. ASSUME NEW i \in 0 .. n
          PROVE  g[i] = IF i = 0 THEN s0 ELSE WriteRound(g[i - 1], data, <<>>)
      <3>1. CASE i = 0 BY <2>1, <3>1 DEF Recursion
      <3>2. CASE i # 0
        <4>1. i - 1 \in 0 .. n /\ i \in 1 .. n BY <1>2, <3>2
        <4>2. g[i - 1] \in S BY <2>1, <4>1
        <4>3. F[<<g[i - 1], i>>] = WriteRound(g[i - 1], data, <<>>) BY <4>1, <4>2
        <4>4. g[i] = F[<<g[i - 1], i>>]
          <5> HIDE DEF F
          <5> QED BY <2>1, <3>2 DEF Recursion
        <4>5. QED BY <3>2, <4>3, <4>4
      <3>3. QED BY <3>1, <3>2
    <2>3. Rec(g) BY <2>1, <2>2
    <2>4. QED BY <2>3
  <1>7. Rec(rnd) BY <1>6
  <1> HIDE DEF rnd, F
  <1>8. rnd[0] = s0 /\ \A i \in 1 .. n : rnd[i] = WriteRound(rnd[i - 1], data, <<>>)
    BY <1>2, <1>7
  <1>9. \A i \in 0 .. n : rnd[i] \in S
    <2> DEFINE P == {i \in 0 .. n : rnd[i] \in S}
    <2>1. 0 \in P BY <1>2, <1>3, <1>8
    <2>2. \A i \in 1 .. n : i - 1 \in P => i \in P BY <1>4, <1>8
    <2>3. n \in Nat BY <1>2
    <2> HIDE DEF P
    <2>4. \A i \in 0 .. n : i \in P BY <2>1, <2>2, <2>3, InductionUpTo
    <2>5. QED BY <2>4 DEF P
  <1>10. rnd \in [0 .. n -> S] BY <1>7, <1>9
  <1>11. QED BY <1>1, <1>2, <1>8, <1>10 DEF S, s0

(* The bytes of data that fit into the page of addr are in it. *)
FirstPage(a, addr, data) ==
    \A b \in addr .. addr + Len(data) - 1 :
        b \div PageSize = addr \div PageSize => ByteAt(a, b) = data[b - addr + 1]

(* Nothing outside the range of the write has changed. *)
Outside(a, array, addr, data) ==
    \A b \in Nat : b \notin addr .. addr + Len(data) - 1 => ByteAt(a, b) = ByteAt(array, b)

Fitting(addr, data) == (addr % PageSize) + Len(data) <= PageSize

(* What holds after i rounds of write(). *)
RoundInv(i, s, array, addr, data) ==
    /\ addr <= s.start /\ s.start + s.len = addr + Len(data)
    /\ Outside(s.arr, array, addr, data)
    /\ addr < SIZE => \/ s.start = addr /\ s.len = Len(data)
                      \/ addr \div PageSize < s.start \div PageSize /\ i >= 1
    /\ addr < SIZE /\ i >= 1 => FirstPage(s.arr, addr, data)
    /\ i = 0 => (s.ok <=> addr < SIZE) /\ s.start = addr
    /\ ~(addr < SIZE) => ~s.ok
    /\ Fitting(addr, data) => s.start = addr /\ s.len = Len(data) /\ (s.ok <=> addr < SIZE)

LEMMA RoundInvStep ==
  ASSUME NEW array \in Array, NEW addr \in Nat, NEW data \in Seq(Nat),
         NEW i \in Nat \ {0}, NEW s \in Loop(Len(data)), RoundInv(i - 1, s, array, addr, data)
  PROVE  RoundInv(i, WriteRound(s, data, <<>>), array, addr, data)
  <1> DEFINE r == WriteRound(s, data, <<>>)
             start == s.start
             len == s.len
             n == Len(data)
  <1>1. start \in Nat /\ len \in 0 .. n /\ n \in Nat /\ len \in Nat BY DEF Loop
  <1> SUFFICES RoundInv(i, r, array, addr, data) OBVIOUS
  <1>2. CASE ~(s.ok /\ s.start \div PageSize < PageCount)
    <2>1. ~r.ok /\ r.arr = s.arr /\ r.start = s.start /\ r.len = s.len
      BY <1>2, RoundFails
    <2>2. addr < SIZE => ~(i = 1) /\ ~Fitting(addr, data)
      BY <1>2, InArray DEF RoundInv
    <2> HIDE DEF r
    <2>3. addr < SIZE /\ i >= 1 => FirstPage(r.arr, addr, data)
      BY <2>1, <2>2 DEF RoundInv
    <2>4. QED BY <2>1, <2>2, <2>3 DEF RoundInv
  <1>3. CASE s.ok /\ s.start \div PageSize < PageCount
    <2> DEFINE w == Room(start, len)
               page == start \div PageSize
               first == addr \div PageSize
    <2>1. /\ r \in Loop(n) /\ r.ok
          /\ \A b \in Nat : ByteAt(r.arr, b) =
                IF b \in start .. start + w - 1 THEN data[b - start + 1] ELSE ByteAt(s.arr, b)
          /\ \/ w = len /\ r.start = start /\ r.len = len
             \/ /\ (start % PageSize) + len > PageSize
                /\ r.start = start + w /\ r.len = len - w /\ r.start = PageSize * (page + 1)
      BY <1>3, RoundEffect
    <2>2. /\ w \in 0 .. len
          /\ (start % PageSize) + len > PageSize => start + w = PageSize * (page + 1)
          /\ (start % PageSize) + len <= PageSize => w = len
      <3> HIDE DEF start, len
      <3> QED BY <1>1, RoomType
    <2>3. addr < SIZE /\ page \in Nat /\ first \in Nat
      BY <1>1, <1>3, PageOffset DEF RoundInv
    <2>4. /\ addr <= start /\ start + len = addr + n
          /\ \/ start = addr /\ len = n
             \/ first < page /\ i - 1 >= 1
      BY <2>3 DEF RoundInv
    <2>5. first <= page BY <1>1, <2>4, PageOrder
    <2>6. \/ r.start = start
          \/ r.start \div PageSize = page + 1
      BY <1>1, <2>1, <2>3, PageOrder DEF Loop
    <2>7. Fitting(addr, data) => start = addr /\ len = n /\ ~((start % PageSize) + len > PageSize)
      <3>1. (addr % PageSize) + n \in Nat BY <1>1, SparseArrayAssumption
      <3>2. Fitting(addr, data) => start = addr /\ len = n BY DEF RoundInv
      <3> DEFINE m == (addr % PageSize) + n
      <3>3. Fitting(addr, data) => m <= PageSize BY DEF Fitting
      <3>4. Fitting(addr, data) => (start % PageSize) + len = m BY <3>2
      <3> HIDE DEF m
      <3>5. Fitting(addr, data) => ~(m > PageSize)
        BY <3>1, <3>3, SparseArrayAssumption DEF m
      <3>6. QED BY <3>2, <3>4, <3>5
    <2>8. r.start \in Nat /\ r.len \in Nat BY <2>1 DEF Loop
    <2>9. Outside(r.arr, array, addr, data)
      <3> SUFFICES ASSUME NEW b \in Nat, b \notin addr .. addr + n - 1
                   PROVE  ByteAt(r.arr, b) = ByteAt(array, b)
        BY DEF Outside
      <3>1. ByteAt(s.arr, b) = ByteAt(array, b) BY DEF RoundInv, Outside
      <3>2. b \notin start .. start + w - 1
        <4> HIDE DEF w, start, len, n
        <4> QED BY <1>1, <2>2, <2>4
      <3> HIDE DEF r
      <3>3. QED BY <2>1, <3>1, <3>2
    <2>10. FirstPage(r.arr, addr, data)
      <3> SUFFICES ASSUME NEW b \in addr .. addr + n - 1, b \div PageSize = first
                   PROVE  ByteAt(r.arr, b) = data[b - addr + 1]
        BY DEF FirstPage
      <3>0. b \in Nat BY <1>1
      <3>1. CASE start = addr /\ len = n
        <4>1. b \in start .. start + w - 1
          <5>1. CASE w = len
            <6> HIDE DEF w, start, len, n
            <6> QED BY <1>1, <3>1, <5>1
          <5>2. CASE w # len
            <6>1. start + w = PageSize * (page + 1)
              <7>1. ~((start % PageSize) + len <= PageSize) BY <2>2, <5>2
              <7>2. (start % PageSize) + len > PageSize
                <8>1. start % PageSize \in Nat BY <1>1, SparseArrayAssumption
                <8> DEFINE m == start % PageSize
                <8> HIDE DEF m, len
                <8>2. ~(m + len <= PageSize) => m + len > PageSize
                  BY <1>1, <8>1, SparseArrayAssumption DEF m
                <8>3. QED BY <7>1, <8>2 DEF m
              <7>3. QED BY <2>2, <7>2
            <6>2. (start + w) \div PageSize = page + 1
              <7>1. start + w \in Nat BY <1>1, <2>2
              <7> DEFINE e == start + w
                         p1 == page + 1
              <7>2. e = PageSize * p1 /\ e \in Nat /\ p1 \in Nat BY <2>3, <6>1, <7>1
              <7> HIDE DEF e, p1
              <7>3. e \div PageSize = p1 BY <7>2, PageOrder
              <7>4. QED BY <7>3 DEF e, p1
            <6>3. start + w <= b => page + 1 <= first
              <7>1. start + w \in Nat BY <1>1, <2>2
              <7>2. start + w <= b => (start + w) \div PageSize <= b \div PageSize
                BY <3>0, <7>1, PageOrder
              <7>3. QED BY <6>2, <7>2
            <6>4. page = first BY <3>1
            <6> HIDE DEF w, page, first, start, len, n
            <6>5. ~(start + w <= b) BY <2>3, <6>3, <6>4
            <6>6. QED BY <1>1, <2>2, <3>0, <3>1, <6>5
          <5>3. QED BY <5>1, <5>2
        <4> HIDE DEF r, w, start
        <4>2. QED BY <2>1, <3>0, <3>1, <4>1
      <3>2. CASE first < page /\ i - 1 >= 1
        <4>1. ~(start <= b)
          <5>1. start <= b => page <= first BY <1>1, <3>0, PageOrder
          <5> HIDE DEF page, first
          <5>2. QED BY <2>3, <3>2, <5>1
        <4>2. ByteAt(s.arr, b) = data[b - addr + 1]
          BY <2>3, <3>2 DEF RoundInv, FirstPage
        <4>3. b \notin start .. start + w - 1
          <5> HIDE DEF w, start
          <5> QED BY <1>1, <4>1
        <4> HIDE DEF r, w, start
        <4>4. QED BY <2>1, <3>0, <4>2, <4>3
      <3>3. QED BY <2>4, <3>1, <3>2
    <2> HIDE DEF r, w, page, first
    <2>11. addr <= r.start /\ r.start + r.len = addr + n
      <3> DEFINE x == r.start
                 y == r.len
      <3>1. (x = start /\ y = len) \/ (x = start + w /\ y = len - w) BY <2>1
      <3> HIDE DEF start, len, n, x, y
      <3>2. addr <= x /\ x + y = addr + n
        <4>1. CASE x = start /\ y = len BY <1>1, <2>2, <2>4, <4>1
        <4>2. CASE x = start + w /\ y = len - w BY <1>1, <2>2, <2>4, <4>2
        <4>3. QED BY <3>1, <4>1, <4>2
      <3>3. QED BY <3>2 DEF x, y
    <2>12. (r.start = addr /\ r.len = n) \/ (first < r.start \div PageSize /\ i >= 1)
      <3>1. CASE r.start = start /\ r.len = len BY <2>4, <3>1 DEF page
      <3>2. CASE r.start \div PageSize = page + 1 BY <2>3, <2>5, <3>2
      <3>3. (r.start = start /\ r.len = len) \/ r.start \div PageSize = page + 1
        <4>1. CASE w = len /\ r.start = start /\ r.len = len BY <4>1
        <4>2. CASE r.start = PageSize * (page + 1)
          <5> DEFINE p1 == page + 1
          <5>1. p1 \in Nat /\ r.start = PageSize * p1 BY <2>3, <4>2
          <5> HIDE DEF p1
          <5>2. r.start \div PageSize = p1 BY <2>8, <5>1, PageOrder
          <5>3. QED BY <5>2 DEF p1
        <4>3. QED BY <2>1, <4>1, <4>2
      <3>4. QED BY <3>1, <3>2, <3>3
    <2>13. Fitting(addr, data) => r.start = addr /\ r.len = n BY <2>1, <2>7
    <2>14. QED BY <2>1, <2>3, <2>9, <2>10, <2>11, <2>12, <2>13 DEF RoundInv, first
  <1>4. QED BY <1>2, <1>3

(* sparse_array.h, write: nothing outside the range of the write changes,  *)
(* and the bytes that fit into the first page are the data's.  It succeeds *)
(* when the data does not go beyond that page.                             *)
THEOREM WriteEffect ==
  ASSUME NEW array \in Array, NEW addr \in Nat, NEW data \in Seq(Nat)
  PROVE  LET w == write(array, addr, data, <<>>)
         IN  /\ w.ok \in BOOLEAN /\ w.arr \in Array
             /\ Outside(w.arr, array, addr, data)
             /\ addr < SIZE => FirstPage(w.arr, addr, data)
             /\ w.ok => addr < SIZE
             /\ Fitting(addr, data) => (w.ok <=> addr < SIZE)
  <1>1. PICK n \in Nat \ {0} : \E g \in [0 .. n -> Loop(Len(data))] :
            /\ g[0] = [ok |-> addr < SIZE, arr |-> array, start |-> addr, len |-> Len(data)]
            /\ \A i \in 1 .. n : g[i] = WriteRound(g[i - 1], data, <<>>)
            /\ write(array, addr, data, <<>>) = [ok |-> g[n].ok, arr |-> g[n].arr]
    BY Rounds
  <1>2. PICK g \in [0 .. n -> Loop(Len(data))] :
            /\ g[0] = [ok |-> addr < SIZE, arr |-> array, start |-> addr, len |-> Len(data)]
            /\ \A i \in 1 .. n : g[i] = WriteRound(g[i - 1], data, <<>>)
            /\ write(array, addr, data, <<>>) = [ok |-> g[n].ok, arr |-> g[n].arr]
    BY <1>1
  <1> DEFINE P == {i \in 0 .. n : RoundInv(i, g[i], array, addr, data)}
  <1>3. 0 \in P
    <2>1. 0 \in 0 .. n OBVIOUS
    <2>2. /\ g[0].start = addr /\ g[0].len = Len(data) /\ g[0].arr = array
          /\ (g[0].ok <=> addr < SIZE)
      <3>1. g[0] = [ok |-> addr < SIZE, arr |-> array, start |-> addr, len |-> Len(data)] BY <1>2
      <3>2. g[0].start = addr /\ g[0].len = Len(data) /\ g[0].arr = array BY <3>1
      <3> DEFINE c == addr < SIZE
      <3>3. g[0] = [ok |-> c, arr |-> array, start |-> addr, len |-> Len(data)] BY <3>1
      <3> HIDE DEF c
      <3>4. g[0].ok = c BY <3>3
      <3>5. QED BY <3>2, <3>4 DEF c
    <2>3. Outside(g[0].arr, array, addr, data) BY <2>2 DEF Outside
    <2>4. Len(data) \in Nat OBVIOUS
    <2>5. RoundInv(0, g[0], array, addr, data) BY <2>2, <2>3, <2>4 DEF RoundInv
    <2>6. QED BY <2>1, <2>5
  <1>4. ASSUME NEW i \in 1 .. n, i - 1 \in P PROVE i \in P
    <2>1. i \in Nat \ {0} /\ i - 1 \in 0 .. n /\ i \in 0 .. n OBVIOUS
    <2>2. g[i - 1] \in Loop(Len(data)) /\ RoundInv(i - 1, g[i - 1], array, addr, data)
      BY <1>4, <2>1
    <2>3. RoundInv(i, WriteRound(g[i - 1], data, <<>>), array, addr, data)
      BY <2>1, <2>2, RoundInvStep
    <2>4. RoundInv(i, g[i], array, addr, data) BY <1>2, <2>3
    <2>5. QED BY <2>1, <2>4
  <1>5. n \in P
    <2>1. n \in Nat OBVIOUS
    <2> HIDE DEF P
    <2>2. \A i \in 1 .. n : i - 1 \in P => i \in P BY <1>4
    <2>3. \A i \in 0 .. n : i \in P BY <1>3, <2>1, <2>2, InductionUpTo
    <2>4. QED BY <2>3
  <1>6. RoundInv(n, g[n], array, addr, data) /\ n >= 1 /\ g[n] \in Loop(Len(data)) BY <1>5
  <1> DEFINE w == write(array, addr, data, <<>>)
  <1>7. w.ok = g[n].ok /\ w.arr = g[n].arr BY <1>2
  <1> HIDE DEF w, P
  <1>8. w.ok \in BOOLEAN /\ w.arr \in Array
    <2>1. g[n].ok \in BOOLEAN /\ g[n].arr \in Array BY <1>6 DEF Loop
    <2>2. QED BY <1>7, <2>1
  <1>9. /\ Outside(w.arr, array, addr, data)
        /\ addr < SIZE => FirstPage(w.arr, addr, data)
        /\ w.ok => addr < SIZE
        /\ Fitting(addr, data) => (w.ok <=> addr < SIZE)
    BY <1>6, <1>7 DEF RoundInv
  <1>10. QED BY <1>8, <1>9 DEF w

(* A write inside a page changes exactly its bytes. *)
LEMMA WriteInPage ==
  ASSUME NEW array \in Array, NEW addr \in Nat, NEW data \in Seq(Nat),
         addr < SIZE, Fitting(addr, data)
  PROVE  LET w == write(array, addr, data, <<>>)
         IN  /\ w.ok /\ w.arr \in Array
             /\ \A b \in Nat : ByteAt(w.arr, b) =
                   IF b \in addr .. addr + Len(data) - 1 THEN data[b - addr + 1] ELSE ByteAt(array, b)
  <1> DEFINE w == write(array, addr, data, <<>>)
             nr == addr \div PageSize
             o == addr % PageSize
             n == Len(data)
  <1>1. /\ w.ok /\ w.arr \in Array /\ Outside(w.arr, array, addr, data) /\ FirstPage(w.arr, addr, data)
    BY WriteEffect
  <1>2. nr \in Nat /\ o \in 0 .. PageSize - 1 /\ addr = PageSize * nr + o /\ n \in Nat /\ o + n <= PageSize
    BY PageOffset DEF Fitting
  <1> HIDE DEF w, nr, o, n
  <1>3. ASSUME NEW b \in Nat, b \in addr .. addr + n - 1 PROVE b \div PageSize = nr
    <2>1. b \in PageSize * nr + o .. PageSize * nr + o + n - 1 BY <1>2, <1>3
    <2>2. QED BY <1>2, <2>1, InPage
  <1>4. QED BY <1>1, <1>3 DEF w, nr, n, Outside, FirstPage

-----------------------------------------------------------------------------
(* load_elf() *)

(* A segment of the file is written like any other data. *)
LEMMA SegmentEffect ==
  ASSUME NEW p \in ProgramHeader, NEW s \in [ok : BOOLEAN, arr : Array]
  PROVE  LET r == LoadSegment(s, p)
         IN  /\ r \in [ok : BOOLEAN, arr : Array] /\ (r.ok => s.ok)
             /\ \A b \in Nat : ~Covers(p, b) => ByteAt(r.arr, b) = ByteAt(s.arr, b)
             /\ r.ok => \A b \in Nat : CoversFirstPage(p, b) =>
                           ByteAt(r.arr, b) = p.file[b - p.paddr + 1]
  <1> DEFINE r == LoadSegment(s, p)
  <1>1. s.ok \in BOOLEAN /\ s.arr \in Array /\ p.paddr \in Nat /\ p.file \in Seq(Nat) /\ p.memsz \in Nat
        /\ Len(p.file) <= p.memsz
    BY DEF ProgramHeader
  <1>2. CASE ~(s.ok /\ p.load /\ p.memsz # 0 /\ p.file # <<>>)
    <2>1. r = s BY <1>2 DEF LoadSegment
    <2>2. s.ok => \A b \in Nat : ~Covers(p, b)
      <3> SUFFICES ASSUME s.ok, NEW b \in Nat, Covers(p, b) PROVE FALSE
        OBVIOUS
      <3>1. p.load /\ b \in p.paddr .. p.paddr + Len(p.file) - 1 BY DEF Covers
      <3>2. Len(p.file) # 0 BY <1>1, <3>1
      <3>3. p.file # <<>> /\ p.memsz # 0 BY <1>1, <3>2
      <3>4. QED BY <1>2, <3>1, <3>3
    <2>3. QED BY <2>1, <2>2 DEF CoversFirstPage
  <1>3. CASE s.ok /\ p.load /\ p.memsz # 0 /\ p.file # <<>> /\ ~p.inside
    <2>1. r = [s EXCEPT !.ok = FALSE] BY <1>3 DEF LoadSegment
    <2>2. r.ok = FALSE /\ r.arr = s.arr /\ r \in [ok : BOOLEAN, arr : Array] BY <2>1
    <2>3. QED BY <1>3, <2>2
  <1>4. CASE s.ok /\ p.load /\ p.memsz # 0 /\ p.file # <<>> /\ p.inside
    <2>1. r = write(s.arr, p.paddr, p.file, <<>>) BY <1>4 DEF LoadSegment
    <2>2. /\ r.ok \in BOOLEAN /\ r.arr \in Array
          /\ Outside(r.arr, s.arr, p.paddr, p.file)
          /\ r.ok => p.paddr < SIZE /\ FirstPage(r.arr, p.paddr, p.file)
      BY <1>1, <2>1, WriteEffect
    <2>3. r \in [ok : BOOLEAN, arr : Array]
      <3>1. r = [ok |-> r.ok, arr |-> r.arr] BY <2>1 DEF write
      <3> HIDE DEF r
      <3>2. QED BY <2>2, <3>1
    <2> HIDE DEF r
    <2>4. \A b \in Nat : ~Covers(p, b) => ByteAt(r.arr, b) = ByteAt(s.arr, b)
      BY <1>4, <2>2 DEF Covers, Outside
    <2>5. r.ok => \A b \in Nat : CoversFirstPage(p, b) => ByteAt(r.arr, b) = p.file[b - p.paddr + 1]
      BY <2>2 DEF CoversFirstPage, Covers, FirstPage
    <2>6. QED BY <1>4, <2>3, <2>4, <2>5 DEF r
  <1>5. QED BY <1>2, <1>3, <1>4

(* The segments, one after the other. *)
LEMMA Segments ==
  ASSUME NEW array \in Array, NEW image \in ElfFile
  PROVE  \E g \in [0 .. Len(image.ph) -> [ok : BOOLEAN, arr : Array]] :
            /\ g[0] = [ok |-> TRUE, arr |-> array]
            /\ \A i \in 1 .. Len(image.ph) : g[i] = LoadSegment(g[i - 1], image.ph[i])
            /\ load_elf(array, image) =
                 IF ~image.header THEN [outcome |-> "abort", arr |-> array, entry |-> 0]
                 ELSE IF ~image.le THEN [outcome |-> "throw", arr |-> array, entry |-> 0]
                 ELSE [outcome |-> IF g[Len(image.ph)].ok /\ image.sections THEN "ok" ELSE "abort",
                       arr |-> g[Len(image.ph)].arr, entry |-> image.entry]
  <1> DEFINE n == Len(image.ph)
             S == [ok : BOOLEAN, arr : Array]
             s0 == [ok |-> TRUE, arr |-> array]
             Rec(g) == g = [i \in 0 .. n |-> IF i = 0 THEN s0 ELSE LoadSegment(g[i - 1], image.ph[i])]
             seg == CHOOSE g : Rec(g)
             F == [x \in S \X (1 .. n) |-> LoadSegment(x[1], image.ph[x[2]])]
  <1>1. load_elf(array, image) =
          IF ~image.header THEN [outcome |-> "abort", arr |-> array, entry |-> 0]
          ELSE IF ~image.le THEN [outcome |-> "throw", arr |-> array, entry |-> 0]
          ELSE [outcome |-> IF seg[n].ok /\ image.sections THEN "ok" ELSE "abort",
                arr |-> seg[n].arr, entry |-> image.entry]
    BY DEF load_elf
  <1>2. n \in Nat /\ \A i \in 1 .. n : image.ph[i] \in ProgramHeader
    <2>1. image.ph \in Seq(ProgramHeader) BY DEF ElfFile
    <2>2. QED BY <2>1
  <1>3. s0 \in S OBVIOUS
  <1>4. \A s \in S, i \in 1 .. n : LoadSegment(s, image.ph[i]) \in S
    BY <1>2, SegmentEffect
  <1> HIDE DEF n, S, s0
  <1>5. F \in [S \X (1 .. n) -> S] BY <1>4
  <1>6. \E g : Rec(g)
    <2>1. PICK g \in [0 .. n -> S] : Recursion(g, n, s0, F)
      <3> HIDE DEF F
      <3> QED BY <1>2, <1>3, <1>5, RecursionExists, Zenon
    <2>2. ASSUME NEW i \in 0 .. n
          PROVE  g[i] = IF i = 0 THEN s0 ELSE LoadSegment(g[i - 1], image.ph[i])
      <3>1. CASE i = 0 BY <2>1, <3>1 DEF Recursion
      <3>2. CASE i # 0
        <4>1. i - 1 \in 0 .. n /\ i \in 1 .. n BY <1>2, <3>2
        <4>2. g[i - 1] \in S BY <2>1, <4>1
        <4>3. F[<<g[i - 1], i>>] = LoadSegment(g[i - 1], image.ph[i]) BY <4>1, <4>2
        <4>4. g[i] = F[<<g[i - 1], i>>]
          <5> HIDE DEF F
          <5> QED BY <2>1, <3>2 DEF Recursion
        <4>5. QED BY <3>2, <4>3, <4>4
      <3>3. QED BY <3>1, <3>2
    <2>3. Rec(g) BY <2>1, <2>2
    <2>4. QED BY <2>3
  <1>7. Rec(seg) BY <1>6
  <1> HIDE DEF seg, F
  <1>8. seg[0] = s0 /\ \A i \in 1 .. n : seg[i] = LoadSegment(seg[i - 1], image.ph[i])
    BY <1>2, <1>7
  <1>9. \A i \in 0 .. n : seg[i] \in S
    <2> DEFINE P == {i \in 0 .. n : seg[i] \in S}
    <2>1. 0 \in P BY <1>2, <1>3, <1>8
    <2>2. \A i \in 1 .. n : i - 1 \in P => i \in P BY <1>4, <1>8
    <2> HIDE DEF P
    <2>3. \A i \in 0 .. n : i \in P BY <1>2, <2>1, <2>2, InductionUpTo
    <2>4. QED BY <2>3 DEF P
  <1>10. seg \in [0 .. n -> S] BY <1>7, <1>9
  <1>11. QED BY <1>1, <1>8, <1>10 DEF S, s0, n

(* The first i segments of the file are in memory. *)
InMemoryUpTo(i, new, array, image) ==
    \A b \in Nat :
        /\ \A j \in 1 .. i :
              /\ CoversFirstPage(image.ph[j], b)
              /\ \A k \in j + 1 .. i : ~Covers(image.ph[k], b)
              => ByteAt(new, b) = image.ph[j].file[b - image.ph[j].paddr + 1]
        /\ (\A j \in 1 .. i : ~Covers(image.ph[j], b)) => ByteAt(new, b) = ByteAt(array, b)

(* elfloader.h, load_elf: once a file is loaded, each byte that a segment  *)
(* puts into its first page, and that no later segment covers, is the      *)
(* file's, and a byte that no segment covers is what it was.               *)
THEOREM ElfEffect ==
  ASSUME NEW array \in Array, NEW image \in ElfFile
  PROVE  LET l == load_elf(array, image)
         IN  /\ l.arr \in Array /\ l.entry \in Nat
             /\ l.outcome = "ok" => l.entry = image.entry /\ InMemoryUpTo(Len(image.ph), l.arr, array, image)
  <1> DEFINE n == Len(image.ph)
             S == [ok : BOOLEAN, arr : Array]
             l == load_elf(array, image)
  <1>1. PICK g \in [0 .. n -> S] :
            /\ g[0] = [ok |-> TRUE, arr |-> array]
            /\ \A i \in 1 .. n : g[i] = LoadSegment(g[i - 1], image.ph[i])
            /\ l = IF ~image.header THEN [outcome |-> "abort", arr |-> array, entry |-> 0]
                   ELSE IF ~image.le THEN [outcome |-> "throw", arr |-> array, entry |-> 0]
                   ELSE [outcome |-> IF g[n].ok /\ image.sections THEN "ok" ELSE "abort",
                         arr |-> g[n].arr, entry |-> image.entry]
    BY Segments
  <1>2. n \in Nat /\ image.entry \in Nat /\ \A i \in 1 .. n : image.ph[i] \in ProgramHeader
    <2>1. image.ph \in Seq(ProgramHeader) /\ image.entry \in Nat BY DEF ElfFile
    <2>2. QED BY <2>1
  <1> DEFINE P == {i \in 0 .. n : g[i].ok => InMemoryUpTo(i, g[i].arr, array, image)}
  <1> HIDE DEF l, n
  <1>3. 0 \in P BY <1>1, <1>2 DEF InMemoryUpTo
  <1>4. ASSUME NEW i \in 1 .. n, i - 1 \in P PROVE i \in P
    <2> DEFINE p == image.ph[i]
               a == g[i - 1].arr
               c == g[i].arr
    <2>1. i - 1 \in 0 .. n /\ i \in 0 .. n BY <1>2
    <2>2. g[i - 1] \in S /\ p \in ProgramHeader /\ g[i] = LoadSegment(g[i - 1], p)
      BY <1>1, <1>2, <2>1
    <2>3. /\ g[i].ok => g[i - 1].ok
          /\ \A b \in Nat : ~Covers(p, b) => ByteAt(c, b) = ByteAt(a, b)
          /\ g[i].ok => \A b \in Nat : CoversFirstPage(p, b) => ByteAt(c, b) = p.file[b - p.paddr + 1]
      BY <2>2, SegmentEffect
    <2> SUFFICES ASSUME g[i].ok PROVE InMemoryUpTo(i, c, array, image)
      BY <2>1
    <2>4. InMemoryUpTo(i - 1, a, array, image) BY <1>4, <2>3
    <2> SUFFICES ASSUME NEW b \in Nat
                 PROVE  /\ \A j \in 1 .. i :
                              /\ CoversFirstPage(image.ph[j], b)
                              /\ \A k \in j + 1 .. i : ~Covers(image.ph[k], b)
                              => ByteAt(c, b) = image.ph[j].file[b - image.ph[j].paddr + 1]
                        /\ (\A j \in 1 .. i : ~Covers(image.ph[j], b)) => ByteAt(c, b) = ByteAt(array, b)
      BY DEF InMemoryUpTo
    <2>5. ASSUME NEW j \in 1 .. i, CoversFirstPage(image.ph[j], b),
                 \A k \in j + 1 .. i : ~Covers(image.ph[k], b)
          PROVE  ByteAt(c, b) = image.ph[j].file[b - image.ph[j].paddr + 1]
      <3>1. CASE j = i BY <2>3, <2>5, <3>1
      <3>2. CASE j # i
        <4>1. j \in 1 .. i - 1 /\ i \in j + 1 .. i /\ (\A k \in j + 1 .. i - 1 : k \in j + 1 .. i) BY <3>2
        <4>2. ~Covers(p, b) BY <2>5, <4>1
        <4>3. ByteAt(a, b) = image.ph[j].file[b - image.ph[j].paddr + 1]
          BY <2>4, <2>5, <4>1 DEF InMemoryUpTo
        <4>4. QED BY <2>3, <4>2, <4>3
      <3>3. QED BY <3>1, <3>2
    <2>6. ASSUME \A j \in 1 .. i : ~Covers(image.ph[j], b) PROVE ByteAt(c, b) = ByteAt(array, b)
      <3>1. ~Covers(p, b) /\ \A j \in 1 .. i - 1 : ~Covers(image.ph[j], b) BY <2>6
      <3>2. ByteAt(a, b) = ByteAt(array, b) BY <2>4, <3>1 DEF InMemoryUpTo
      <3>3. QED BY <2>3, <3>1, <3>2
    <2>7. QED BY <2>5, <2>6
  <1>5. n \in P
    <2> HIDE DEF P
    <2>1. \A i \in 1 .. n : i - 1 \in P => i \in P BY <1>4
    <2>2. \A i \in 0 .. n : i \in P BY <1>2, <1>3, <2>1, InductionUpTo
    <2>3. QED BY <1>2, <2>2
  <1>6. g[n].arr \in Array /\ (g[n].ok => InMemoryUpTo(n, g[n].arr, array, image))
    <2>1. g[n] \in S BY <1>1, <1>2
    <2>2. QED BY <1>5, <2>1
  <1>7. l.arr \in Array /\ l.entry \in Nat
    BY <1>1, <1>2, <1>6
  <1>8. l.outcome = "ok" => l.entry = image.entry /\ l.arr = g[n].arr /\ g[n].ok
    BY <1>1
  <1>9. QED BY <1>6, <1>7, <1>8 DEF l, n

-----------------------------------------------------------------------------
(***************************************************************************)
(* The SystemC platform.                                                   *)
(***************************************************************************)
(* The types that the buffers need. *)
TypeOK ==
    /\ core \in {"idle", "running", "waiting"}
    /\ phase \in Nat /\ issued \in Nat
    /\ q \in [Queues -> Seq(Nat)] /\ timers \in [Queues -> Seq(Int)]

(* One notification, due now: the event queue is empty after it. *)
LEMMA FiredAlone ==
  ASSUME NEW e \in Queues, timers \in [Queues -> Seq(Int)], Len(timers[e]) = 1,
         \E i \in DOMAIN timers[e] : timers[e][i] = 0
  PROVE  Fired(e) = [timers EXCEPT ![e] = <<>>]
  <1> DEFINE t == timers[e]
  <1>1. t \in Seq(Int) /\ Len(t) = 1 /\ DOMAIN t = 1 .. 1 OBVIOUS
  <1>2. t[1] = 0 BY <1>1
  <1>3. First0(e) = 1
    <2>1. 1 \in DOMAIN t /\ t[1] = 0 /\ \A j \in 1 .. 1 - 1 : t[j] # 0
      BY <1>1, <1>2
    <2>2. \A i \in DOMAIN t : i = 1 BY <1>1
    <2>3. QED BY <2>1, <2>2 DEF First0
  <1>4. SubSeq(t, 1, 0) = <<>> /\ SubSeq(t, 2, 1) = <<>>
    BY <1>1
  <1>5. SubSeq(t, 1, First0(e) - 1) \o SubSeq(t, First0(e) + 1, Len(t)) = <<>>
    BY <1>1, <1>3, <1>4
  <1>6. QED BY <1>5 DEF Fired

LEMMA EdgeType ==
  ASSUME TypeOK, NEW e \in Queues
  PROVE  getNextRisingClockEdge(Delay[e]) \in Int
  <1>1. Delay[e] \in Nat /\ ClockPeriod \in Nat /\ phase \in Nat
    BY TurboAssumption DEF TypeOK
  <1>2. Delay[e] * ClockPeriod \in Nat BY <1>1
  <1>3. QED BY <1>1, <1>2 DEF getNextRisingClockEdge

-----------------------------------------------------------------------------
(* The ring buffers and the calls. *)

Inv == TypeOK /\ BuffersMatchCalls

LEMMA BuffersInit == Init => Inv
  <1> SUFFICES ASSUME Init PROVE Inv
    OBVIOUS
  <1>1. TypeOK BY DEF Init, CoreInit, TypeOK
  <1>2. BuffersMatchCalls
    <2>1. \A e \in Queues : q[e] = <<>> /\ timers[e] = <<>> /\ Len(timers[e]) = Len(q[e])
      BY DEF Init
    <2>2. ~done BY DEF Init, CoreInit
    <2>3. QED BY <2>1, <2>2 DEF BuffersMatchCalls
  <1>3. QED BY <1>1, <1>2 DEF Inv

(* Nothing is in the buffers while no access waits. *)
LEMMA NothingPending ==
  ASSUME Inv, core # "waiting"
  PROVE  ~done /\ \A e \in Queues : q[e] = <<>> /\ timers[e] = <<>>
  <1>1. \A e \in Queues : q[e] = <<>>
    <2> SUFFICES ASSUME NEW e \in Queues, q[e] # <<>> PROVE FALSE
      OBVIOUS
    <2>1. 1 \in DOMAIN q[e] BY DEF Inv, TypeOK
    <2>2. QED BY <2>1 DEF Inv, BuffersMatchCalls, Valid
  <1>2. \A e \in Queues : Len(timers[e]) = 0 BY <1>1 DEF Inv, BuffersMatchCalls
  <1>3. \A e \in Queues : timers[e] = <<>> BY <1>2 DEF Inv, TypeOK
  <1>4. QED BY <1>1, <1>3 DEF Inv, BuffersMatchCalls

(* A buffer that is not empty holds the pointer to the access that waits,  *)
(* and the other three are empty.                                          *)
LEMMA OnePending ==
  ASSUME Inv, NEW e \in Queues, q[e] # <<>>
  PROVE  /\ q[e] = <<trans.id>> /\ trans.id \in Nat /\ core = "waiting" /\ ~done
         /\ Len(timers[e]) = 1
         /\ \A d \in Queues \ {e} : q[d] = <<>> /\ timers[d] = <<>>
  <1>1. q[e] \in Seq(Nat) /\ Len(q[e]) = 1 BY DEF Inv, TypeOK, BuffersMatchCalls
  <1>2. Valid(q[e][1]) BY <1>1 DEF Inv, BuffersMatchCalls
  <1>3. q[e] = <<trans.id>> BY <1>1, <1>2 DEF Valid
  <1>4. trans.id \in Nat BY <1>1, <1>2 DEF Valid
  <1>5. \A d \in Queues \ {e} : q[d] = <<>> BY DEF Inv, BuffersMatchCalls
  <1>6. \A d \in Queues \ {e} : timers[d] = <<>>
    BY <1>5 DEF Inv, BuffersMatchCalls, TypeOK
  <1>7. QED BY <1>1, <1>2, <1>3, <1>4, <1>5, <1>6 DEF Inv, BuffersMatchCalls, Valid

(* A request is pushed while all the buffers are empty, so none is full. *)
LEMMA TransportStep ==
  ASSUME Inv, core = "running", NEW t, nb_transport_fw(t)
  PROVE  /\ find_device(t.addr) => UNCHANGED <<arr, q, timers, testStatusWritten, bytes>>
         /\ ~find_device(t.addr) =>
               LET e == IF t.cmd = "read" THEN "pend_r" ELSE "pend_w"
               IN  /\ q' = [q EXCEPT ![e] = <<t.id>>]
                   /\ timers' = [timers EXCEPT ![e] = <<getNextRisingClockEdge(Delay[e])>>]
                   /\ UNCHANGED <<sim, arr, testStatusWritten, bytes>>
  <1>1. CASE find_device(t.addr)
    BY <1>1 DEF nb_transport_fw, Device, Abort, memory
  <1>2. CASE ~find_device(t.addr)
    <2> DEFINE e == IF t.cmd = "read" THEN "pend_r" ELSE "pend_w"
    <2>1. e \in Queues BY DEF Queues
    <2>2. q[e] = <<>> /\ timers[e] = <<>> BY <2>1, NothingPending
    <2>3. ~Full(e) BY <2>2, TurboAssumption DEF Full
    <2>4. Push(e, t.id) /\ UNCHANGED <<sim, arr, testStatusWritten, bytes>>
      BY <1>2, <2>3 DEF nb_transport_fw, transport_fw
    <2>5. Append(q[e], t.id) = <<t.id>> BY <2>2
    <2>6. Append(timers[e], getNextRisingClockEdge(Delay[e])) = <<getNextRisingClockEdge(Delay[e])>>
      BY <2>2
    <2> HIDE DEF e
    <2>7. /\ q' = [q EXCEPT ![e] = <<t.id>>]
          /\ timers' = [timers EXCEPT ![e] = <<getNextRisingClockEdge(Delay[e])>>]
      BY <2>4, <2>5, <2>6 DEF Push
    <2>8. QED BY <1>2, <2>4, <2>7 DEF e
  <1>3. QED BY <1>1, <1>2

(* A method takes the request from its buffer, which its event says is     *)
(* there, and puts the acknowledgement into another one, which has room.   *)
LEMMA MoveStep ==
  ASSUME Inv, NEW e \in Queues, NEW ack \in Queues, e # ack,
         Fires(e), q[e] # <<>>
  PROVE  /\ ~Full(ack)
         /\ Move(e, ack) =>
               /\ q' = [q EXCEPT ![e] = <<>>, ![ack] = <<trans.id>>]
               /\ timers' = [timers EXCEPT ![e] = <<>>, ![ack] = <<getNextRisingClockEdge(Delay[ack])>>]
  <1>1. /\ q[e] = <<trans.id>> /\ q[ack] = <<>> /\ timers[ack] = <<>> /\ Len(timers[e]) = 1
    BY OnePending
  <1>2. ~Full(ack) BY <1>1, TurboAssumption DEF Full
  <1>3. ASSUME Move(e, ack)
        PROVE  /\ q' = [q EXCEPT ![e] = <<>>, ![ack] = <<trans.id>>]
               /\ timers' = [timers EXCEPT ![e] = <<>>, ![ack] = <<getNextRisingClockEdge(Delay[ack])>>]
    <2>1. Tail(q[e]) = <<>> /\ Append(q[ack], Head(q[e])) = <<trans.id>> BY <1>1
    <2>2. Append(timers[ack], getNextRisingClockEdge(Delay[ack])) = <<getNextRisingClockEdge(Delay[ack])>>
      BY <1>1
    <2>3. q' = [q EXCEPT ![e] = <<>>, ![ack] = <<trans.id>>]
      BY <1>3, <2>1 DEF Move, Inv, TypeOK
    <2>4. Fired(e) = [timers EXCEPT ![e] = <<>>]
      BY <1>1, FiredAlone DEF Fires, Inv, TypeOK
    <2>5. timers' = [timers EXCEPT ![e] = <<>>, ![ack] = <<getNextRisingClockEdge(Delay[ack])>>]
      BY <1>3, <2>2, <2>4 DEF Move, Inv, TypeOK
    <2>6. QED BY <2>3, <2>5
  <1>4. QED BY <1>2, <1>3

(* The buffers after a step that leaves at most the one pointer of the     *)
(* waiting access in one of them satisfy the invariant again.              *)
LEMMA AtMostOne ==
  ASSUME NEW e \in Queues, NEW id \in Nat, NEW x \in Int,
         q \in [Queues -> Seq(Nat)], timers \in [Queues -> Seq(Int)],
         \A d \in Queues \ {e} : q[d] = <<>> /\ timers[d] = <<>>,
         q'  = [q EXCEPT ![e] = <<id>>], timers' = [timers EXCEPT ![e] = <<x>>],
         core' = "waiting", trans'.id = id, ~done'
  PROVE  /\ BuffersMatchCalls'
         /\ q' \in [Queues -> Seq(Nat)] /\ timers' \in [Queues -> Seq(Int)]
  <1>1. q' \in [Queues -> Seq(Nat)] /\ timers' \in [Queues -> Seq(Int)]
    <2>1. <<id>> \in Seq(Nat) /\ <<x>> \in Seq(Int) OBVIOUS
    <2>2. QED BY <2>1
  <1>2. /\ q'[e] = <<id>> /\ timers'[e] = <<x>>
        /\ \A d \in Queues : d # e => q'[d] = <<>> /\ timers'[d] = <<>>
    OBVIOUS
  <1>3. \A d \in Queues : \A i \in DOMAIN q'[d] : Valid(q[d][i])'
    BY <1>2 DEF Valid
  <1>4. \A c, d \in Queues : q'[c] # <<>> /\ q'[d] # <<>> => c = d /\ Len(q'[c]) = 1
    BY <1>2
  <1>5. \A d \in Queues : Len(timers'[d]) = Len(q'[d]) BY <1>2
  <1>6. QED BY <1>1, <1>3, <1>4, <1>5 DEF BuffersMatchCalls

(* The buffers are all empty after a step. *)
LEMMA AllEmpty ==
  ASSUME q' \in [Queues -> Seq(Nat)], timers' \in [Queues -> Seq(Int)],
         \A d \in Queues : q'[d] = <<>> /\ timers'[d] = <<>>,
         done' => core' = "waiting"
  PROVE  BuffersMatchCalls'
  <1>1. \A d \in Queues : \A i \in DOMAIN q'[d] : Valid(q[d][i])' OBVIOUS
  <1>2. \A c, d \in Queues : q'[c] # <<>> /\ q'[d] # <<>> => c = d /\ Len(q'[c]) = 1 OBVIOUS
  <1>3. \A d \in Queues : Len(timers'[d]) = Len(q'[d]) OBVIOUS
  <1>4. QED BY <1>1, <1>2, <1>3 DEF BuffersMatchCalls

LEMMA BuffersNext == Inv /\ [Next]_vars => Inv'
  <1> SUFFICES ASSUME Inv, [Next]_vars PROVE Inv'
    OBVIOUS
  <1> USE DEF memory
  <1>0. TypeOK /\ q \in [Queues -> Seq(Nat)] /\ timers \in [Queues -> Seq(Int)]
    BY DEF Inv, TypeOK
  <1>1. CASE Start
    <2>1. \A d \in Queues : q[d] = <<>> /\ timers[d] = <<>> BY <1>1, NothingPending DEF Start
    <2>2. BuffersMatchCalls'
      BY <1>1, <1>0, <2>1, AllEmpty, NothingPending DEF Start
    <2>3. QED BY <1>0, <1>1, <2>2 DEF Start, Inv, TypeOK
  <1>2. ASSUME NEW t, t.id = issued + 1, Access(t) PROVE Inv'
    <2>1. core = "running" /\ issued' = issued + 1 /\ issued' \in Nat
      BY <1>2, <1>0 DEF Access, TypeOK
    <2>2. ~done /\ \A d \in Queues : q[d] = <<>> /\ timers[d] = <<>> BY <2>1, NothingPending
    <2>3. CASE UNCHANGED <<q, timers>> /\ core' \in {"running", "waiting"}
      BY <1>0, <1>2, <2>1, <2>2, <2>3, AllEmpty DEF Access, Inv, TypeOK
    <2>4. CASE core' = "waiting" /\ trans' = t /\ nb_transport_fw(t) /\ ~UNCHANGED <<q, timers>>
      <3>1. PICK e \in Queues :
               /\ q' = [q EXCEPT ![e] = <<t.id>>]
               /\ timers' = [timers EXCEPT ![e] = <<getNextRisingClockEdge(Delay[e])>>]
        BY <1>2, <2>1, <2>4, TransportStep DEF Queues
      <3>2. t.id \in Nat /\ getNextRisingClockEdge(Delay[e]) \in Int
        BY <1>0, <1>2, <2>1, EdgeType
      <3>3. /\ BuffersMatchCalls'
            /\ q' \in [Queues -> Seq(Nat)] /\ timers' \in [Queues -> Seq(Int)]
        <4>1. ~done' /\ trans'.id = t.id BY <1>2, <2>2, <2>4 DEF Access
        <4>2. \A d \in Queues \ {e} : q[d] = <<>> /\ timers[d] = <<>> BY <2>2
        <4>3. QED BY <1>0, <2>4, <3>1, <3>2, <4>1, <4>2, AtMostOne
      <3>4. QED BY <1>0, <1>2, <2>1, <2>4, <3>3 DEF Access, Inv, TypeOK
    <2>5. QED BY <1>2, <2>1, <2>3, <2>4 DEF Access
  <1>3. ASSUME NEW e \in Queues, NEW ack \in Queues, e # ack, Fires(e), q[e] # <<>>,
               Move(e, ack), UNCHANGED <<phase, core, trans, issued, done>>
        PROVE  Inv'
    <2>1. /\ q' = [q EXCEPT ![e] = <<>>, ![ack] = <<trans.id>>]
          /\ timers' = [timers EXCEPT ![e] = <<>>, ![ack] = <<getNextRisingClockEdge(Delay[ack])>>]
      BY <1>3, MoveStep
    <2>2. /\ trans.id \in Nat /\ core = "waiting" /\ ~done
          /\ \A d \in Queues \ {e} : q[d] = <<>> /\ timers[d] = <<>>
      BY <1>3, OnePending
    <2>3. getNextRisingClockEdge(Delay[ack]) \in Int BY <1>0, EdgeType
    <2> DEFINE x == getNextRisingClockEdge(Delay[ack])
    <2> HIDE DEF x
    <2>4. q' \in [Queues -> Seq(Nat)] /\ timers' \in [Queues -> Seq(Int)]
      <3>1. <<trans.id>> \in Seq(Nat) /\ <<x>> \in Seq(Int) BY <2>2, <2>3 DEF x
      <3>2. <<>> \in Seq(Nat) /\ <<>> \in Seq(Int) OBVIOUS
      <3>3. q' \in [Queues -> Seq(Nat)] BY <1>0, <2>1, <3>1, <3>2
      <3>4. timers' \in [Queues -> Seq(Int)] BY <1>0, <2>1, <3>1, <3>2 DEF x
      <3>5. QED BY <3>3, <3>4
    <2>5. /\ q'[ack] = <<trans.id>> /\ timers'[ack] = <<x>>
          /\ \A d \in Queues : d # ack => q'[d] = <<>> /\ timers'[d] = <<>>
      BY <1>0, <1>3, <2>1, <2>2 DEF x
    <2>6. BuffersMatchCalls'
      <3>1. \A d \in Queues : \A i \in DOMAIN q'[d] : Valid(q[d][i])'
        BY <1>3, <2>2, <2>5 DEF Valid
      <3>2. \A c, d \in Queues : q'[c] # <<>> /\ q'[d] # <<>> => c = d /\ Len(q'[c]) = 1
        <4>1. Len(q'[ack]) = 1 BY <2>5
        <4>2. QED BY <2>5, <4>1, Zenon
      <3>3. \A d \in Queues : Len(timers'[d]) = Len(q'[d]) BY <2>5
      <3>4. QED BY <1>3, <2>2, <3>1, <3>2, <3>3 DEF BuffersMatchCalls
    <2>7. QED BY <1>0, <1>3, <2>4, <2>6 DEF Inv, TypeOK
  <1>4. ASSUME UNCHANGED <<core, phase, trans, issued, q, timers, done>> PROVE Inv'
    BY <1>0, <1>4 DEF Inv, TypeOK, BuffersMatchCalls, Valid
  <1>5. CASE do_read
    <2>1. CASE Abort BY <1>4, <1>5, <2>1 DEF do_read, Abort
    <2>2. CASE Move("pend_r", "ack_r")
      BY <1>3, <1>5, <2>2 DEF do_read, Queues
    <2>3. QED BY <1>5, <2>1, <2>2 DEF do_read
  <1>6. CASE do_write
    <2>1. CASE Abort BY <1>4, <1>6, <2>1 DEF do_write, Abort
    <2>2. CASE Move("pend_w", "ack_w")
      BY <1>3, <1>6, <2>2 DEF do_write, Queues
    <2>3. QED BY <1>6, <2>1, <2>2 DEF do_write
  <1>7. ASSUME NEW e \in Queues, Ack(e) PROVE Inv'
    <2>1. /\ q[e] = <<trans.id>> /\ core = "waiting" /\ Len(timers[e]) = 1
          /\ \A d \in Queues \ {e} : q[d] = <<>> /\ timers[d] = <<>>
      BY <1>7, OnePending DEF Ack
    <2>2. Fired(e) = [timers EXCEPT ![e] = <<>>]
      BY <1>0, <1>7, <2>1, FiredAlone DEF Ack, Fires
    <2>3. Tail(q[e]) = <<>> BY <2>1
    <2>4. q' = [q EXCEPT ![e] = <<>>] /\ timers' = [timers EXCEPT ![e] = <<>>]
      BY <1>7, <2>2, <2>3 DEF Ack
    <2>5. \A d \in Queues : q'[d] = <<>> /\ timers'[d] = <<>> BY <1>0, <2>1, <2>4
    <2>6. q' \in [Queues -> Seq(Nat)] /\ timers' \in [Queues -> Seq(Int)]
      <3>1. <<>> \in Seq(Nat) /\ <<>> \in Seq(Int) OBVIOUS
      <3>2. QED BY <1>0, <2>4, <3>1
    <2>7. BuffersMatchCalls' BY <1>7, <2>1, <2>5, <2>6, AllEmpty DEF Ack
    <2>8. QED BY <1>0, <1>7, <2>6, <2>7 DEF Ack, Inv, TypeOK
  <1>8. CASE Return
    <2>1. \A d \in Queues : q[d] = <<>> /\ Len(timers[d]) = Len(q[d])
      BY <1>8 DEF Return, Inv, BuffersMatchCalls
    <2>2. \A d \in Queues : timers[d] = <<>> BY <1>0, <2>1
    <2>3. BuffersMatchCalls' BY <1>0, <1>8, <2>1, <2>2, AllEmpty DEF Return
    <2>4. QED BY <1>0, <1>8, <2>3 DEF Return, Inv, TypeOK
  <1>9. CASE Tick
    <2>1. phase' \in Nat BY <1>0, <1>9, TurboAssumption DEF Tick, TypeOK
    <2>2. \A e \in Queues : timers'[e] \in Seq(Int) /\ Len(timers'[e]) = Len(timers[e])
      <3> SUFFICES ASSUME NEW e \in Queues
                   PROVE  timers'[e] \in Seq(Int) /\ Len(timers'[e]) = Len(timers[e])
        OBVIOUS
      <3>1. timers[e] \in Seq(Int) BY <1>0
      <3>2. timers'[e] = [i \in 1 .. Len(timers[e]) |-> timers[e][i] - 1]
        BY <1>9, <3>1 DEF Tick
      <3>3. QED BY <3>1, <3>2
    <2>3. timers' \in [Queues -> Seq(Int)]
      <3>1. timers' = [e \in Queues |-> timers'[e]] BY <1>9 DEF Tick
      <3>2. QED BY <2>2, <3>1
    <2>4. UNCHANGED <<q, core, trans, done, issued>> BY <1>9 DEF Tick
    <2>5. BuffersMatchCalls' BY <2>2, <2>4 DEF Inv, BuffersMatchCalls, Valid
    <2>6. QED BY <1>0, <2>1, <2>3, <2>4, <2>5 DEF Inv, TypeOK
  <1>10. CASE mmio_load
    <2>1. PICK l \in Loads :
             Access([id |-> issued + 1, cmd |-> "read", addr |-> l[1], len |-> l[2], data |-> <<>>])
      BY <1>10 DEF mmio_load
    <2>2. QED BY <1>2, <2>1
  <1>11. CASE mmio_store
    <2>1. PICK x \in Stores :
             Access([id |-> issued + 1, cmd |-> "write", addr |-> x[1], len |-> Len(x[2]), data |-> x[2]])
      BY <1>11 DEF mmio_store
    <2>2. QED BY <1>2, <2>1
  <1>12. CASE UNCHANGED vars BY <1>4, <1>12 DEF vars
  <1>13. CASE ack_read \/ ack_write BY <1>7, <1>13 DEF ack_read, ack_write, Queues
  <1>14. QED
    BY <1>1, <1>5, <1>6, <1>8, <1>9, <1>10, <1>11, <1>12, <1>13 DEF Next, Scheduled

(* memory.h, turbo_core.cpp: no pointer to a transaction outlives its      *)
(* call, no method finds its ring buffer empty or full, and done_event is  *)
(* notified only for a call that waits, whatever the clock, the delays of  *)
(* the event queues, the size of the buffers and the accesses.             *)
THEOREM BuffersAlwaysMatch == Spec => []BuffersMatchCalls
  <1>1. Inv => BuffersMatchCalls BY DEF Inv
  <1>2. QED BY <1>1, BuffersInit, BuffersNext, PTL DEF Spec

-----------------------------------------------------------------------------
(* The refinement of HartMemory. *)

(* The transactions of mmio_load and mmio_store. *)
LoadOf(i, l)  == [id |-> i, cmd |-> "read", addr |-> l[1], len |-> l[2], data |-> <<>>]
StoreOf(i, s) == [id |-> i, cmd |-> "write", addr |-> s[1], len |-> Len(s[2]), data |-> s[2]]
Transactions ==
    {LoadOf(i, l) : i \in 1 .. MaxAccesses, l \in Loads} \cup
    {StoreOf(i, s) : i \in 1 .. MaxAccesses, s \in Stores}

LEMMA TransactionFields ==
  ASSUME NEW t \in Transactions
  PROVE  /\ t.id \in Nat \ {0} /\ t.addr \in Nat /\ t.len \in Nat /\ t # NoTrans
         /\ (t.addr % PageSize) + t.len <= PageSize
         /\ t.cmd \in {"read", "write"}
         /\ t.cmd = "write" => t.data \in Seq(Nat) /\ t.len = Len(t.data)
         /\ t \in MemoryAccesses
  <1>1. ASSUME NEW i \in 1 .. MaxAccesses, NEW l \in Loads, t = LoadOf(i, l) PROVE
         /\ t.id \in Nat \ {0} /\ t.addr \in Nat /\ t.len \in Nat /\ t # NoTrans
         /\ (t.addr % PageSize) + t.len <= PageSize
         /\ t.cmd \in {"read", "write"}
         /\ t.cmd = "write" => t.data \in Seq(Nat) /\ t.len = Len(t.data)
         /\ t \in MemoryAccesses
    <2>1. l[1] \in Nat /\ l[2] \in Nat /\ (l[1] % PageSize) + l[2] <= PageSize BY AccessAssumption
    <2>2. t.id = i /\ t.addr = l[1] /\ t.len = l[2] /\ t.cmd = "read" BY <1>1 DEF LoadOf
    <2>3. i \in Nat \ {0} BY TurboAssumption
    <2>4. t # NoTrans BY <2>2, <2>3 DEF NoTrans
    <2>5. t \in MemoryAccesses BY <1>1, <2>1 DEF LoadOf, MemoryAccesses
    <2>6. QED BY <2>1, <2>2, <2>3, <2>4, <2>5
  <1>2. ASSUME NEW i \in 1 .. MaxAccesses, NEW s \in Stores, t = StoreOf(i, s) PROVE
         /\ t.id \in Nat \ {0} /\ t.addr \in Nat /\ t.len \in Nat /\ t # NoTrans
         /\ (t.addr % PageSize) + t.len <= PageSize
         /\ t.cmd \in {"read", "write"}
         /\ t.cmd = "write" => t.data \in Seq(Nat) /\ t.len = Len(t.data)
         /\ t \in MemoryAccesses
    <2>1. s[1] \in Nat /\ s[2] \in Seq(Nat) /\ (s[1] % PageSize) + Len(s[2]) <= PageSize
      BY AccessAssumption
    <2>2. t.id = i /\ t.addr = s[1] /\ t.len = Len(s[2]) /\ t.cmd = "write" /\ t.data = s[2]
      BY <1>2 DEF StoreOf
    <2>3. i \in Nat \ {0} BY TurboAssumption
    <2>4. t # NoTrans BY <2>2, <2>3 DEF NoTrans
    <2>5. t \in MemoryAccesses
      <3> DEFINE f(j, x) == [id |-> j, cmd |-> "write", addr |-> x[1], len |-> Len(x[2]), data |-> x[2]]
                 W == {f(j, x) : j \in 1 .. MaxAccesses, x \in Stores}
      <3>1. t = f(i, s) BY <1>2 DEF StoreOf
      <3>2. W \subseteq MemoryAccesses BY DEF MemoryAccesses
      <3> HIDE DEF f
      <3>3. t \in W BY <3>1
      <3>4. QED BY <3>2, <3>3
    <2>6. QED BY <2>1, <2>2, <2>3, <2>4, <2>5
  <1>3. QED BY <1>1, <1>2 DEF Transactions

(* What the refinement needs beyond Inv: a transaction is in the buffers   *)
(* of its kind, and only when it is memory's; done_event too is notified   *)
(* only for memory's transactions.                                         *)
Traffic ==
    /\ arr \in Array
    /\ trans \in Transactions \cup {NoTrans}
    /\ core = "waiting" <=> trans # NoTrans
    /\ \A e \in Queues : q[e] # <<>> =>
          /\ ~find_device(trans.addr)
          /\ e \in {"pend_r", "ack_r"} <=> trans.cmd = "read"
    /\ done => ~find_device(trans.addr)

(* The image that sc_main has loaded is an array of bytes. *)
LEMMA LoadedType == Loaded.arr \in Array
  <1> DEFINE l == load_elf(NoPages, Elf)
             v == Append(RomVector, l.entry)
             rom == write(l.arr, RomBase, v, <<>>)
  <1>1. l.arr \in Array /\ l.entry \in Nat BY NoPagesType, SocAssumption, ElfEffect
  <1> HIDE DEF l
  <1>2. v \in Seq(Nat) BY <1>1, AccessAssumption
  <1> HIDE DEF v
  <1>3. rom.arr \in Array BY <1>1, <1>2, AccessAssumption, WriteEffect
  <1>4. Loaded.arr = rom.arr BY DEF Loaded, l, v
  <1>5. QED BY <1>3, <1>4

LEMMA TrafficInit == Init => Traffic
  <1> SUFFICES ASSUME Init PROVE Traffic
    OBVIOUS
  <1>1. arr \in Array BY LoadedType DEF Init
  <1>2. QED BY <1>1 DEF Init, CoreInit, Traffic

(* An access to memory, as the buffers and the array see it. *)
LEMMA TrafficNext == Inv /\ Traffic /\ [Next]_vars => Traffic'
  <1> SUFFICES ASSUME Inv, Traffic, [Next]_vars PROVE Traffic'
    OBVIOUS
  <1> USE DEF memory
  <1>1. ASSUME UNCHANGED <<arr, trans, q, done>>, core' = "waiting" <=> core = "waiting"
        PROVE  Traffic'
    BY <1>1 DEF Traffic, find_device
  <1>2. CASE Start BY <1>1, <1>2 DEF Start
  <1>3. ASSUME NEW t \in Transactions, Access(t) PROVE Traffic'
    <2>1. core = "running" /\ ~done' /\ \A d \in Queues : q[d] = <<>>
      BY <1>3, NothingPending DEF Access
    <2>2. CASE UNCHANGED <<core, trans, memory>>
      BY <1>1, <1>3, <2>2 DEF Access
    <2>3. CASE core' = "waiting" /\ trans' = t /\ nb_transport_fw(t)
      <3>1. t # NoTrans /\ t.cmd \in {"read", "write"} BY TransactionFields
      <3>2. CASE find_device(t.addr)
        <4>1. UNCHANGED <<arr, q>> BY <2>1, <2>3, <3>2, TransportStep
        <4>2. QED BY <2>1, <2>3, <3>1, <4>1 DEF Traffic
      <3>3. CASE ~find_device(t.addr)
        <4> DEFINE e == IF t.cmd = "read" THEN "pend_r" ELSE "pend_w"
        <4>1. q' = [q EXCEPT ![e] = <<t.id>>] /\ arr' = arr
          BY <2>1, <2>3, <3>3, TransportStep
        <4>2. \A d \in Queues : q'[d] # <<>> => d = e
          BY <2>1, <4>1 DEF Inv, TypeOK
        <4>3. e \in {"pend_r", "ack_r"} <=> t.cmd = "read" OBVIOUS
        <4>4. find_device(trans.addr)' <=> find_device(t.addr) BY <2>3 DEF find_device
        <4> HIDE DEF e
        <4>5. QED BY <2>1, <2>3, <3>1, <3>3, <4>1, <4>2, <4>3, <4>4 DEF Traffic
      <3>4. QED BY <3>2, <3>3
    <2>4. QED BY <1>3, <2>2, <2>3 DEF Access
  <1>4. ASSUME NEW e \in Queues, NEW ack \in Queues, e # ack, Fires(e), q[e] # <<>>,
               Move(e, ack), UNCHANGED <<core, trans, done>>, arr' \in Array,
               e \in {"pend_r", "ack_r"} <=> ack \in {"pend_r", "ack_r"}
        PROVE  Traffic'
    <2>1. q' = [q EXCEPT ![e] = <<>>, ![ack] = <<trans.id>>] BY <1>4, MoveStep
    <2>2. \A d \in Queues \ {e} : q[d] = <<>> BY <1>4, OnePending
    <2>3. \A d \in Queues : q'[d] # <<>> => d = ack
      BY <1>4, <2>1, <2>2 DEF Inv, TypeOK
    <2>4. QED BY <1>4, <2>3 DEF Traffic, find_device
  <1>5. CASE do_read
    <2>1. CASE Abort BY <1>1, <1>5, <2>1 DEF do_read, Abort
    <2>2. CASE Move("pend_r", "ack_r") /\ ~Abort
      <3>1. q["pend_r"] # <<>> BY <1>5 DEF do_read
      <3>2. trans \in Transactions
        BY <3>1, OnePending DEF Traffic, Queues
      <3> DEFINE r == read(arr, trans.addr, trans.len, 0)
      <3>3. r.ok /\ arr' = r.arr BY <1>5, <2>2 DEF do_read
      <3>4. trans.addr < SIZE
        <4>1. trans.addr \in Nat /\ SIZE \in Nat BY <3>2, TransactionFields, SparseArrayAssumption DEF SIZE
        <4>2. trans.addr >= SIZE => ~r.ok BY DEF read
        <4>3. QED BY <3>3, <4>1, <4>2
      <3>5. r.arr \in Array
        <4>1. trans.addr \in Nat /\ trans.len \in Nat /\ (trans.addr % PageSize) + trans.len <= PageSize
          BY <3>2, TransactionFields
        <4>2. QED BY <3>4, <4>1, ReadInPage DEF Traffic
      <3> HIDE DEF r
      <3>6. QED BY <1>4, <1>5, <2>2, <3>1, <3>3, <3>5 DEF do_read, Queues
    <2>3. QED BY <1>5, <2>1, <2>2 DEF do_read
  <1>6. CASE do_write
    <2>1. CASE Abort BY <1>1, <1>6, <2>1 DEF do_write, Abort
    <2>2. CASE Move("pend_w", "ack_w") /\ ~Abort
      <3>1. q["pend_w"] # <<>> BY <1>6 DEF do_write
      <3>2. trans \in Transactions /\ trans.cmd # "read"
        BY <3>1, OnePending DEF Traffic, Queues
      <3> DEFINE w == write(arr, trans.addr, trans.data, <<>>)
      <3>3. arr' = w.arr BY <1>6, <2>2 DEF do_write
      <3>4. w.arr \in Array
        <4>1. trans.addr \in Nat /\ trans.data \in Seq(Nat) BY <3>2, TransactionFields
        <4>2. QED BY <4>1, WriteEffect DEF Traffic
      <3> HIDE DEF w
      <3>5. QED BY <1>4, <1>6, <2>2, <3>1, <3>3, <3>4 DEF do_write, Queues
    <2>3. QED BY <1>6, <2>1, <2>2 DEF do_write
  <1>7. ASSUME NEW e \in Queues, Ack(e) PROVE Traffic'
    <2>1. q[e] = <<trans.id>> /\ \A d \in Queues \ {e} : q[d] = <<>>
      BY <1>7, OnePending DEF Ack
    <2>2. \A d \in Queues : q'[d] = <<>> BY <1>7, <2>1 DEF Ack, Inv, TypeOK
    <2>3. ~find_device(trans.addr) BY <1>7 DEF Ack, Traffic
    <2>4. UNCHANGED <<arr, core, trans>> BY <1>7 DEF Ack
    <2>5. QED BY <2>2, <2>3, <2>4 DEF Traffic, find_device
  <1>8. CASE Return
    <2>1. \A d \in Queues : q[d] = <<>> BY <1>8 DEF Return, Inv, BuffersMatchCalls
    <2>2. QED BY <1>8, <2>1 DEF Return, Traffic
  <1>9. CASE Tick BY <1>1, <1>9 DEF Tick
  <1>10. CASE mmio_load
    <2>1. PICK l \in Loads : Access(LoadOf(issued + 1, l)) BY <1>10 DEF mmio_load, LoadOf
    <2>2. issued + 1 \in 1 .. MaxAccesses
      BY <2>1, TurboAssumption DEF Access, Inv, TypeOK
    <2>3. LoadOf(issued + 1, l) \in Transactions BY <2>2 DEF Transactions
    <2>4. QED BY <1>3, <2>1, <2>3
  <1>11. CASE mmio_store
    <2>1. PICK s \in Stores : Access(StoreOf(issued + 1, s)) BY <1>11 DEF mmio_store, StoreOf
    <2>2. issued + 1 \in 1 .. MaxAccesses
      BY <2>1, TurboAssumption DEF Access, Inv, TypeOK
    <2>3. StoreOf(issued + 1, s) \in Transactions BY <2>2 DEF Transactions
    <2>4. QED BY <1>3, <2>1, <2>3
  <1>12. CASE UNCHANGED vars BY <1>1, <1>12 DEF vars
  <1>13. CASE ack_read \/ ack_write BY <1>7, <1>13 DEF ack_read, ack_write, Queues
  <1>14. QED
    BY <1>2, <1>5, <1>6, <1>8, <1>9, <1>10, <1>11, <1>12, <1>13 DEF Next, Scheduled

-----------------------------------------------------------------------------
(* The access that HartMemory sees, and whether it has been performed. *)
Req == IF InMemory(trans) THEN trans ELSE NoTrans
Performed == InMemory(trans) /\ q["pend_r"] = <<>> /\ q["pend_w"] = <<>> /\ sim = "running"

LEMMA MappedInit == Init => Abstract!Init
  <1> SUFFICES ASSUME Init PROVE Abstract!Init
    OBVIOUS
  <1>1. Flat \in [0 .. SIZE - 1 -> Nat]
    <2>1. arr \in Array BY TrafficInit DEF Traffic
    <2>2. \A a \in 0 .. SIZE - 1 : ByteAt(arr, a) \in Nat BY <2>1, ByteType
    <2>3. QED BY <2>2 DEF Flat
  <1>2. ~InMemory(trans) /\ bytes = <<>> BY DEF Init, CoreInit, InMemory
  <1>3. (IF InMemory(trans) THEN trans ELSE NoTrans) = NoTrans BY <1>2
  <1>4. (InMemory(trans) /\ q["pend_r"] = <<>> /\ q["pend_w"] = <<>> /\ sim = "running") = FALSE
    BY <1>2, Zenon
  <1>5. QED BY <1>1, <1>2, <1>3, <1>4, Zenon DEF Abstract!Init

(* A step that HartMemory does not see. *)
LEMMA Stutter ==
  ASSUME UNCHANGED <<arr, bytes>>, Req' = Req, Performed' <=> Performed
  PROVE  UNCHANGED Abstract!vars
  <1>1. Flat' = Flat BY DEF Flat
  <1>2. Performed' = Performed BY Zenon DEF Performed
  <1>3. QED BY <1>1, <1>2, Zenon DEF Abstract!vars, Req, Performed

LEMMA Requested ==
  ASSUME UNCHANGED <<arr, bytes>>, Req = NoTrans, Req' \in MemoryAccesses,
         ~Performed, ~Performed'
  PROVE  Abstract!Request
  <1>1. Flat' = Flat BY DEF Flat
  <1>2. Performed' = Performed BY Zenon DEF Performed
  <1>3. QED BY <1>1, <1>2, Zenon DEF Abstract!Request, Req, Performed

LEMMA Responded ==
  ASSUME UNCHANGED <<arr, bytes>>, Req' = NoTrans, Performed, ~Performed'
  PROVE  Abstract!Respond
  <1>1. Flat' = Flat BY DEF Flat
  <1>2. Performed' = FALSE BY Zenon DEF Performed
  <1>3. QED BY <1>1, <1>2, Zenon DEF Abstract!Respond, Req, Performed

(* A load performed: memory keeps its bytes and the buffer has them. *)
LEMMA LoadPerformed ==
  ASSUME Traffic, do_read, ~Abort, Inv
  PROVE  Abstract!Perform
  <1>1. q["pend_r"] # <<>> /\ Fires("pend_r") /\ sim = "running" BY DEF do_read, Fires
  <1>2. trans \in Transactions /\ trans.cmd = "read" /\ InMemory(trans)
    BY <1>1, OnePending DEF Traffic, Queues, InMemory
  <1>3. /\ trans.addr \in Nat /\ trans.len \in Nat /\ (trans.addr % PageSize) + trans.len <= PageSize
        /\ trans # NoTrans
    BY <1>2, TransactionFields
  <1> DEFINE r == read(arr, trans.addr, trans.len, 0)
  <1>4. /\ r.ok /\ arr' = r.arr /\ bytes' = r.data /\ Move("pend_r", "ack_r")
        /\ UNCHANGED <<sim, core, trans>>
    BY DEF do_read
  <1>5. SIZE \in Nat BY SparseArrayAssumption DEF SIZE
  <1>6. trans.addr < SIZE
    <2>1. trans.addr >= SIZE => ~r.ok BY DEF read
    <2>2. QED BY <1>3, <1>4, <1>5, <2>1
  <1>7. /\ \A b \in Nat : ByteAt(r.arr, b) = ByteAt(arr, b)
        /\ r.data = [i \in 1 .. trans.len |-> ByteAt(arr, trans.addr + i - 1)]
    BY <1>3, <1>6, ReadInPage DEF Traffic
  <1> HIDE DEF r
  <1>8. Flat' = Flat BY <1>4, <1>7 DEF Flat
  <1>9. bytes' = [i \in 1 .. trans.len |-> Flat[trans.addr + i - 1]]
    <2>1. \A i \in 1 .. trans.len : trans.addr + i - 1 \in 0 .. SIZE - 1
      BY <1>3, <1>5, <1>6, PageInside
    <2>2. \A i \in 1 .. trans.len : Flat[trans.addr + i - 1] = ByteAt(arr, trans.addr + i - 1)
      BY <2>1 DEF Flat
    <2>3. QED BY <1>4, <1>7, <2>2
  <1>10. ~Performed /\ Performed'
    <2>1. q' = [q EXCEPT !["pend_r"] = <<>>, !["ack_r"] = <<trans.id>>]
      BY <1>1, <1>4, MoveStep DEF Queues
    <2>2. q["pend_w"] = <<>> BY <1>1, OnePending DEF Queues
    <2>3. q'["pend_r"] = <<>> /\ q'["pend_w"] = <<>> BY <2>1, <2>2 DEF Inv, TypeOK, Queues
    <2>4. QED BY <1>1, <1>2, <1>4, <2>3 DEF Performed, InMemory, find_device
  <1>11. Req = trans /\ Req' = Req BY <1>2, <1>4 DEF Req, InMemory, find_device
  <1>12. Performed' = TRUE BY <1>10, Zenon DEF Performed
  <1>13. QED
    BY <1>2, <1>3, <1>8, <1>9, <1>10, <1>11, <1>12, Zenon DEF Abstract!Perform, Req, Performed

(* A store performed: memory has its bytes and keeps all the others. *)
LEMMA StorePerformed ==
  ASSUME Traffic, do_write, ~Abort, Inv
  PROVE  Abstract!Perform
  <1>1. q["pend_w"] # <<>> /\ Fires("pend_w") /\ sim = "running" BY DEF do_write, Fires
  <1>2. trans \in Transactions /\ trans.cmd # "read" /\ InMemory(trans)
    BY <1>1, OnePending DEF Traffic, Queues, InMemory
  <1>3. /\ trans.addr \in Nat /\ trans.data \in Seq(Nat) /\ trans.len = Len(trans.data)
        /\ (trans.addr % PageSize) + trans.len <= PageSize
        /\ trans # NoTrans /\ trans.cmd = "write"
    BY <1>2, TransactionFields
  <1> DEFINE w == write(arr, trans.addr, trans.data, <<>>)
  <1>4. /\ w.ok /\ arr' = w.arr /\ Move("pend_w", "ack_w")
        /\ UNCHANGED <<core, trans, bytes>>
    BY DEF do_write
  <1>5. sim' = "running"
    <2>1. trans.addr # ScrBase + StatusOffset
      BY <1>2, <1>3, SocAssumption DEF InMemory, find_device
    <2>2. QED BY <1>1, <2>1 DEF do_write, Abort
  <1>6. trans.addr < SIZE BY <1>3, <1>4, WriteEffect DEF Traffic
  <1>7. \A b \in Nat : ByteAt(w.arr, b) =
           IF b \in trans.addr .. trans.addr + trans.len - 1 THEN trans.data[b - trans.addr + 1]
           ELSE ByteAt(arr, b)
    <2>1. Fitting(trans.addr, trans.data) BY <1>3 DEF Fitting
    <2>2. arr \in Array BY DEF Traffic
    <2>3. \A b \in Nat : ByteAt(w.arr, b) =
             IF b \in trans.addr .. trans.addr + Len(trans.data) - 1 THEN trans.data[b - trans.addr + 1]
             ELSE ByteAt(arr, b)
      BY <1>3, <1>6, <2>1, <2>2, WriteInPage
    <2> HIDE DEF w
    <2>4. QED BY <1>3, <2>3, Zenon
  <1> HIDE DEF w
  <1>8. Flat' = [a \in 0 .. SIZE - 1 |->
                   IF a \in trans.addr .. trans.addr + trans.len - 1
                   THEN trans.data[a - trans.addr + 1] ELSE Flat[a]]
    <2>1. \A a \in 0 .. SIZE - 1 : a \in Nat /\ Flat[a] = ByteAt(arr, a) BY DEF Flat
    <2>2. \A a \in 0 .. SIZE - 1 : ByteAt(arr', a) =
             IF a \in trans.addr .. trans.addr + trans.len - 1
             THEN trans.data[a - trans.addr + 1] ELSE Flat[a]
      BY <1>4, <1>7, <2>1
    <2>3. QED BY <2>2, Zenon DEF Flat
  <1>9. ~Performed /\ Performed'
    <2>1. q' = [q EXCEPT !["pend_w"] = <<>>, !["ack_w"] = <<trans.id>>]
      BY <1>1, <1>4, MoveStep DEF Queues
    <2>2. q["pend_r"] = <<>> BY <1>1, OnePending DEF Queues
    <2>3. q'["pend_r"] = <<>> /\ q'["pend_w"] = <<>> BY <2>1, <2>2 DEF Inv, TypeOK, Queues
    <2>4. QED BY <1>1, <1>2, <1>4, <1>5, <2>3 DEF Performed, InMemory, find_device
  <1>10. Req = trans /\ Req' = Req BY <1>2, <1>4 DEF Req, InMemory, find_device
  <1>11. Performed' = TRUE BY <1>9, Zenon DEF Performed
  <1>12. QED
    BY <1>3, <1>4, <1>8, <1>9, <1>10, <1>11, Zenon DEF Abstract!Perform, Req, Performed

(* Every step is a step of HartMemory or one it does not see. *)
LEMMA MappedNext ==
  Inv /\ Traffic /\ Inv' /\ Traffic' /\ [Next]_vars => [Abstract!Next]_(Abstract!vars)
  <1> SUFFICES ASSUME Inv, Traffic, Inv', Traffic', [Next]_vars
               PROVE  Abstract!Next \/ UNCHANGED Abstract!vars
    OBVIOUS
  <1> USE DEF memory
  <1>1. ASSUME UNCHANGED <<arr, trans, q, bytes, sim>> PROVE UNCHANGED Abstract!vars
    BY <1>1, Stutter DEF Req, Performed, InMemory, find_device
  <1>2. CASE Start BY <1>1, <1>2 DEF Start
  <1>3. ASSUME NEW t \in Transactions, Access(t)
        PROVE  Abstract!Next \/ UNCHANGED Abstract!vars
    <2>1. core = "running" /\ trans = NoTrans /\ Req = NoTrans /\ ~Performed
      BY <1>3 DEF Access, Traffic, Req, Performed, InMemory
    <2>2. CASE UNCHANGED <<sim, bytes, trans, memory>> BY <1>1, <2>2
    <2>3. CASE trans' = t /\ nb_transport_fw(t)
      <3>1. t # NoTrans /\ t \in MemoryAccesses /\ t.cmd \in {"read", "write"} BY TransactionFields
      <3>2. CASE find_device(t.addr)
        <4>1. UNCHANGED <<arr, bytes>> BY <2>1, <2>3, <3>2, TransportStep
        <4>2. Req' = NoTrans /\ ~Performed'
          BY <2>3, <3>2 DEF Req, Performed, InMemory, find_device
        <4>3. QED BY <2>1, <4>1, <4>2, Stutter
      <3>3. CASE ~find_device(t.addr)
        <4> DEFINE e == IF t.cmd = "read" THEN "pend_r" ELSE "pend_w"
        <4>1. q' = [q EXCEPT ![e] = <<t.id>>] /\ UNCHANGED <<arr, bytes>>
          BY <2>1, <2>3, <3>3, TransportStep
        <4>2. q'[e] # <<>> /\ e \in {"pend_r", "pend_w"}
          BY <4>1 DEF Inv, TypeOK, Queues
        <4>3. ~Performed' BY <4>2 DEF Performed
        <4>4. Req' = t BY <2>3, <3>1, <3>3 DEF Req, InMemory, find_device
        <4>5. QED BY <2>1, <3>1, <4>1, <4>3, <4>4, Requested DEF Abstract!Next
      <3>4. QED BY <3>2, <3>3
    <2>4. QED BY <1>3, <2>2, <2>3 DEF Access
  <1>4. CASE do_read
    <2>1. CASE Abort
      <3>1. Req' = Req /\ ~Performed /\ ~Performed' /\ UNCHANGED <<arr, bytes>>
        BY <1>4, <2>1 DEF do_read, Abort, Performed, Req, InMemory, find_device
      <3>2. QED BY <3>1, Stutter
    <2>2. QED BY <1>4, <2>1, LoadPerformed DEF Abstract!Next
  <1>5. CASE do_write
    <2>1. CASE Abort
      <3>1. Req' = Req /\ ~Performed /\ ~Performed' /\ UNCHANGED <<arr, bytes>>
        BY <1>5, <2>1 DEF do_write, Abort, Performed, Req, InMemory, find_device
      <3>2. QED BY <3>1, Stutter
    <2>2. QED BY <1>5, <2>1, StorePerformed DEF Abstract!Next
  <1>6. ASSUME NEW e \in {"ack_r", "ack_w"}, Ack(e) PROVE UNCHANGED Abstract!vars
    <2>1. q'["pend_r"] = q["pend_r"] /\ q'["pend_w"] = q["pend_w"]
      BY <1>6 DEF Ack, Inv, TypeOK, Queues
    <2>2. UNCHANGED <<arr, trans, bytes, sim>> BY <1>6 DEF Ack
    <2>3. QED BY <2>1, <2>2, Stutter DEF Req, Performed, InMemory, find_device
  <1>7. CASE Return
    <2>1. InMemory(trans) /\ q["pend_r"] = <<>> /\ q["pend_w"] = <<>> /\ sim = "running"
      BY <1>7 DEF Return, Inv, BuffersMatchCalls, Traffic, InMemory, Queues
    <2>2. Performed /\ Req' = NoTrans /\ ~Performed' /\ UNCHANGED <<arr, bytes>>
      BY <1>7, <2>1 DEF Return, Performed, Req, InMemory
    <2>3. QED BY <2>2, Responded DEF Abstract!Next
  <1>8. CASE Tick BY <1>1, <1>8 DEF Tick
  <1>9. CASE mmio_load
    <2>1. PICK l \in Loads : Access(LoadOf(issued + 1, l)) BY <1>9 DEF mmio_load, LoadOf
    <2>2. issued + 1 \in 1 .. MaxAccesses
      BY <2>1, TurboAssumption DEF Access, Inv, TypeOK
    <2>3. LoadOf(issued + 1, l) \in Transactions BY <2>2 DEF Transactions
    <2>4. QED BY <1>3, <2>1, <2>3
  <1>10. CASE mmio_store
    <2>1. PICK s \in Stores : Access(StoreOf(issued + 1, s)) BY <1>10 DEF mmio_store, StoreOf
    <2>2. issued + 1 \in 1 .. MaxAccesses
      BY <2>1, TurboAssumption DEF Access, Inv, TypeOK
    <2>3. StoreOf(issued + 1, s) \in Transactions BY <2>2 DEF Transactions
    <2>4. QED BY <1>3, <2>1, <2>3
  <1>11. CASE UNCHANGED vars BY <1>1, <1>11 DEF vars
  <1>12. CASE ack_read \/ ack_write BY <1>6, <1>12 DEF ack_read, ack_write
  <1>13. QED
    BY <1>2, <1>4, <1>5, <1>7, <1>8, <1>9, <1>10, <1>11, <1>12 DEF Next, Scheduled

(* turbo_core.cpp, turbo_uncore.cpp, memory.h, sparse_array.h: the SystemC *)
(* platform implements HartMemory for every image, clock and program whose *)
(* accesses stay in a page: every access that is not a device's is         *)
(* performed exactly once between its call and its return, a store on      *)
(* exactly its bytes, and a load brings the bytes stored last.             *)
THEOREM PlatformIsMemory == Spec => ImplementsHartMemory
  <1>1. Spec => [](Inv /\ Traffic)
    BY BuffersInit, BuffersNext, TrafficInit, TrafficNext, PTL DEF Spec
  <1>2. QED
    BY <1>1, MappedInit, MappedNext, PTL DEF Spec, ImplementsHartMemory, Abstract!Spec

-----------------------------------------------------------------------------
(* DemoSim *)
(* Only the reset vector is in memory. *)
Vector == Append(RomVector, START_PC)
RomOnly(mem) == \A b \in Nat :
    ByteAt(mem, b) = IF InRom(b) THEN Vector[b - RomBase + 1] ELSE 0

(* The file is in memory, over nothing but the reset vector. *)
Image(mem) == \E rom \in Array : RomOnly(rom) /\ InMemoryUpTo(Len(elf.ph), mem, rom, elf)

DemoStateInv ==
    /\ main \in {"construct", "load", "boot", "step", "exit", "abort"}
    /\ store \in Array /\ elf \in Elfs \cup {NoElf}
    /\ start_pc = START_PC /\ accesses \in Nat
    /\ main \in {"construct", "load", "boot"} => accesses = 0 /\ pc = -1
    /\ main = "construct" => store = NoPages
    /\ main = "load" => RomOnly(store)
    /\ main \in {"boot", "step"} => elf \in Elfs /\ elf.entry = START_PC
    /\ main \in {"boot", "step"} /\ accesses = 0 => Image(store)
    /\ BootsAtEntry

LEMMA DemoInvInit == DemoInit => DemoStateInv
  <1> SUFFICES ASSUME DemoInit PROVE DemoStateInv
    OBVIOUS
  <1>1. store \in Array BY NoPagesType DEF DemoInit
  <1>2. QED BY <1>1 DEF DemoInit, DemoStateInv, BootsAtEntry

LEMMA VectorType ==
    /\ Vector \in Seq(Nat) /\ Len(Vector) = Len(RomVector) + 1 /\ Len(RomVector) \in Nat
    /\ Vector[Len(RomVector) + 1] = START_PC
    /\ RomBase \in Nat /\ RomBase < SIZE /\ Fitting(RomBase, Vector)
  <1>1. /\ Vector \in Seq(Nat) /\ Len(Vector) = Len(RomVector) + 1 /\ Len(RomVector) \in Nat
        /\ Vector[Len(RomVector) + 1] = START_PC
    BY AccessAssumption, DemoAssumption DEF Vector
  <1>2. (RomBase % PageSize) + Len(RomVector) + 1 <= PageSize /\ RomBase % PageSize \in Int
    <2>1. RomBase \in Nat BY AccessAssumption
    <2>2. QED BY <2>1, PageOffset, DemoAssumption
  <1>3. QED BY <1>1, <1>2, AccessAssumption, DemoAssumption DEF Fitting

(* The constructor of the memory simulator leaves the reset vector. *)
LEMMA RomWritten ==
    LET w == write(NoPages, RomBase, Vector, <<>>)
    IN  w.arr \in Array /\ RomOnly(w.arr)
  <1> DEFINE w == write(NoPages, RomBase, Vector, <<>>)
  <1>1. NoPages \in Array /\ \A b \in Nat : ByteAt(NoPages, b) = 0 BY NoPagesType
  <1>2. /\ w.arr \in Array
        /\ \A b \in Nat : ByteAt(w.arr, b) =
              IF b \in RomBase .. RomBase + Len(Vector) - 1 THEN Vector[b - RomBase + 1]
              ELSE ByteAt(NoPages, b)
    BY <1>1, VectorType, WriteInPage
  <1> HIDE DEF w
  <1>3. RomBase + Len(Vector) - 1 = RomBase + Len(RomVector) BY VectorType
  <1>4. RomOnly(w.arr) BY <1>1, <1>2, <1>3 DEF RomOnly, InRom
  <1>5. QED BY <1>2, <1>4 DEF w

(* After the constructor and the loader, as main() calls them. *)
LEMMA LoadedImage ==
  ASSUME DemoStateInv, main = "load", LoadElfFile
  PROVE  /\ store' \in Array
         /\ main' \in {"boot", "exit", "abort"}
         /\ main' = "boot" => elf \in Elfs /\ elf.entry = START_PC /\ Image(store)'
  <1>1. store \in Array /\ RomOnly(store) /\ elf' = elf BY DEF DemoStateInv, LoadElfFile
  <1>2. CASE elf = NoElf BY <1>1, <1>2 DEF LoadElfFile
  <1>3. CASE elf # NoElf
    <2>1. elf \in Elfs /\ elf \in ElfFile BY <1>3, DemoAssumption DEF DemoStateInv
    <2> DEFINE l == load_elf(store, elf)
    <2>2. /\ store' = l.arr
          /\ main' = IF l.outcome = "ok" /\ l.entry = START_PC THEN "boot" ELSE "abort"
      BY <1>3 DEF LoadElfFile
    <2>3. /\ l.arr \in Array
          /\ l.outcome = "ok" => l.entry = elf.entry /\ InMemoryUpTo(Len(elf.ph), l.arr, store, elf)
      BY <1>1, <2>1, ElfEffect
    <2> HIDE DEF l
    <2>4. l.outcome = "ok" => Image(l.arr) BY <1>1, <2>3 DEF Image
    <2>5. Image(store)' <=> Image(l.arr) BY <1>1, <2>2 DEF Image, RomOnly, InRom
    <2>6. QED BY <2>1, <2>2, <2>3, <2>4, <2>5
  <1>4. QED BY <1>2, <1>3

(* The reset vector takes the hart to the entry point, unless a segment    *)
(* lies over it.                                                           *)
LEMMA BootTarget ==
  ASSUME DemoStateInv, main = "boot", Boot,
         \A i \in DOMAIN elf.ph : \A a \in 0 .. SIZE - 1 : ~(Covers(elf.ph[i], a) /\ InRom(a))
  PROVE  pc' = elf.entry
  <1> DEFINE n == Len(RomVector)
             a == RomBase + n
             r == read(store, a, 1, 0)
  <1>1. /\ store \in Array /\ elf \in ElfFile /\ elf.entry = START_PC /\ Image(store)
    BY DemoAssumption DEF DemoStateInv
  <1>2. /\ n \in Nat /\ RomBase \in Nat /\ RomBase < SIZE
        /\ (RomBase % PageSize) + (n + 1) <= PageSize /\ Vector[n + 1] = START_PC
    BY VectorType DEF Fitting
  <1>3. a \in 0 .. SIZE - 1 /\ a \in Nat
    <2>1. n + 1 \in 1 .. n + 1 /\ n + 1 \in Nat BY <1>2
    <2>2. RomBase + (n + 1) - 1 \in 0 .. SIZE - 1 BY <1>2, <2>1, PageInside
    <2>3. QED BY <1>2, <2>2
  <1>4. a < SIZE BY <1>3, SparseArrayAssumption DEF SIZE
  <1>5. (a % PageSize) + 1 <= PageSize BY <1>3, PageOffset, SparseArrayAssumption
  <1>6. InRom(a) /\ a - RomBase + 1 = n + 1 BY <1>2 DEF InRom
  <1>7. pc' = ByteAt(store, a)
    <2>0. pc' = r.data[1] BY DEF Boot
    <2> DEFINE one == 1
               none == 0
    <2>1. r.data = [i \in 1 .. 1 |-> ByteAt(store, a + i - 1)]
      <3>1. one \in Nat /\ (a % PageSize) + one <= PageSize BY <1>5
      <3> HIDE DEF a, one, none
      <3>2. read(store, a, one, none).data = [i \in 1 .. one |-> ByteAt(store, a + i - 1)]
        BY <1>1, <1>3, <1>4, <3>1, ReadInPage
      <3>3. QED BY <3>2, Zenon DEF one, none
    <2> HIDE DEF a
    <2>2. r.data[1] = ByteAt(store, a + 1 - 1) BY <2>1
    <2>3. a + 1 - 1 = a BY <1>3
    <2>4. QED BY <2>0, <2>2, <2>3
  <1> HIDE DEF a, n
  <1>8. \A i \in DOMAIN elf.ph : ~Covers(elf.ph[i], a) BY <1>3, <1>6
  <1>9. DOMAIN elf.ph = 1 .. Len(elf.ph)
    <2>1. elf.ph \in Seq(ProgramHeader) BY <1>1 DEF ElfFile
    <2>2. QED BY <2>1
  <1>10. PICK rom \in Array : RomOnly(rom) /\ InMemoryUpTo(Len(elf.ph), store, rom, elf)
    BY <1>1 DEF Image
  <1>11. ByteAt(store, a) = ByteAt(rom, a) BY <1>3, <1>8, <1>9, <1>10 DEF InMemoryUpTo
  <1>12. ByteAt(rom, a) = START_PC BY <1>2, <1>3, <1>6, <1>10 DEF RomOnly
  <1>13. QED BY <1>1, <1>7, <1>11, <1>12

(* A load of the hart: it may allocate a page, and changes no byte. *)
LEMMA LoadEffect ==
  ASSUME DemoStateInv, NEW l \in Loads, DemoLoad(l[1], l[2])
  PROVE  /\ store' \in Array
         /\ main' = "step" /\ l[1] >= PGSIZE => LoadIsFlat(l[1], l[2])
  <1> DEFINE a == l[1]
             n == l[2]
             r == read(store, a, n, 0)
  <1>1. a \in Nat /\ n \in Nat /\ (a % PageSize) + n <= PageSize /\ PGSIZE \in Nat /\ store \in Array
    BY AccessAssumption DEF DemoStateInv
  <1>2. SIZE \in Nat BY SparseArrayAssumption DEF SIZE
  <1>3. CASE OnDebugModule(a)
    BY <1>1, <1>3 DEF DemoLoad, OnDebugModule
  <1>4. CASE ~OnDebugModule(a)
    <2>1. main' = (IF r.ok THEN main ELSE "abort") /\ store' = r.arr /\ buf' = IF r.ok THEN r.data ELSE buf
      BY <1>4 DEF DemoLoad, ext_load
    <2>2. CASE a >= SIZE
      <3>1. ~r.ok /\ r.arr = store BY <2>2 DEF read
      <3>2. QED BY <1>1, <2>1, <3>1
    <2>3. CASE a < SIZE
      <3>1. /\ r.ok /\ r.arr \in Array
            /\ \A b \in Nat : ByteAt(r.arr, b) = ByteAt(store, b)
            /\ r.data = [i \in 1 .. n |-> ByteAt(store, a + i - 1)]
        BY <1>1, <2>3, ReadInPage
      <3> HIDE DEF r
      <3>2. FlatStore' = FlatStore BY <2>1, <3>1 DEF FlatStore
      <3>3. \A i \in 1 .. n : a + i - 1 \in 0 .. SIZE - 1 BY <1>1, <2>3, PageInside
      <3>4. \A i \in 1 .. n : FlatStore[a + i - 1] = ByteAt(store, a + i - 1) BY <3>3 DEF FlatStore
      <3>5. buf' = [i \in 1 .. n |-> FlatStore[a + i - 1]] BY <2>1, <3>1, <3>4
      <3>6. QED BY <2>1, <3>1, <3>2, <3>5 DEF LoadIsFlat
    <2>4. QED BY <1>1, <1>2, <2>2, <2>3
  <1>5. QED BY <1>3, <1>4

(* A store of the hart changes exactly its bytes. *)
LEMMA StoreEffect ==
  ASSUME DemoStateInv, NEW s \in Stores, DemoStore(s[1], s[2])
  PROVE  /\ store' \in Array
         /\ main' = "step" /\ s[1] >= PGSIZE => StoreIsFlat(s[1], s[2])
  <1> DEFINE a == s[1]
             d == s[2]
             w == write(store, a, d, <<>>)
  <1>1. a \in Nat /\ d \in Seq(Nat) /\ Fitting(a, d) /\ PGSIZE \in Nat /\ store \in Array
    BY AccessAssumption DEF DemoStateInv, Fitting
  <1>2. CASE OnDebugModule(a)
    BY <1>1, <1>2 DEF DemoStore, OnDebugModule
  <1>3. CASE ~OnDebugModule(a) /\ a = ScrBase + StatusOffset /\ d[1] # 0
    <2>1. store' = store /\ main' = "abort" BY <1>3 DEF DemoStore, ext_store, sim_write
    <2>2. QED BY <1>1, <2>1
  <1>4. CASE ~OnDebugModule(a) /\ ~(a = ScrBase + StatusOffset /\ d[1] # 0)
    <2>1. main' = (IF w.ok THEN main ELSE "abort") /\ store' = w.arr /\ buf' = buf
      BY <1>4 DEF DemoStore, ext_store, sim_write
    <2>2. w.arr \in Array /\ (w.ok => a < SIZE) BY <1>1, WriteEffect
    <2>3. ASSUME w.ok PROVE StoreIsFlat(a, d)
      <3>1. \A b \in Nat : ByteAt(w.arr, b) =
               IF b \in a .. a + Len(d) - 1 THEN d[b - a + 1] ELSE ByteAt(store, b)
        BY <1>1, <2>2, <2>3, WriteInPage
      <3> HIDE DEF w
      <3>2. \A b \in 0 .. SIZE - 1 : b \in Nat /\ FlatStore[b] = ByteAt(store, b) BY DEF FlatStore
      <3>3. \A b \in 0 .. SIZE - 1 : ByteAt(store', b) =
               IF b \in a .. a + Len(d) - 1 THEN d[b - a + 1] ELSE FlatStore[b]
        BY <2>1, <3>1, <3>2
      <3>4. FlatStore' = [b \in 0 .. SIZE - 1 |->
                            IF b \in a .. a + Len(d) - 1 THEN d[b - a + 1] ELSE FlatStore[b]]
        BY <3>3, Zenon DEF FlatStore
      <3>5. QED BY <2>1, <3>4 DEF StoreIsFlat
    <2>4. QED BY <2>1, <2>2, <2>3
  <1>5. QED BY <1>2, <1>3, <1>4

LEMMA DemoInvNext == DemoStateInv /\ [DemoNext]_demoVars => DemoStateInv'
  <1> SUFFICES ASSUME DemoStateInv, [DemoNext]_demoVars PROVE DemoStateInv'
    OBVIOUS
  <1>1. CASE Construct
    <2> DEFINE w == write(NoPages, RomBase, Vector, <<>>)
    <2>1. store' = w.arr BY <1>1 DEF Construct, set_rom_contents, DemoStateInv, Vector
    <2>2. w.arr \in Array /\ RomOnly(w.arr) BY RomWritten
    <2> HIDE DEF w
    <2>3. RomOnly(store)' BY <2>1, <2>2 DEF RomOnly, InRom
    <2>4. BootsAtEntry' BY <1>1 DEF Construct, DemoStateInv, BootsAtEntry
    <2>5. QED BY <1>1, <2>1, <2>2, <2>3, <2>4 DEF Construct, DemoStateInv
  <1>2. CASE LoadElfFile
    <2>1. main = "load" /\ pc' = -1 /\ accesses' = 0 BY <1>2 DEF LoadElfFile, DemoStateInv
    <2>2. BootsAtEntry' BY <2>1 DEF BootsAtEntry
    <2>3. QED BY <1>2, <2>1, <2>2, LoadedImage DEF LoadElfFile, DemoStateInv
  <1>3. CASE Boot
    <2>1. main = "boot" /\ UNCHANGED <<elf, store, accesses, start_pc>> /\ main' = "step"
      BY <1>3 DEF Boot
    <2>2. BootsAtEntry' BY <1>3, <2>1, BootTarget DEF BootsAtEntry, InRom
    <2>3. Image(store)' <=> Image(store) BY <2>1 DEF Image, RomOnly, InRom
    <2>4. QED BY <2>1, <2>2, <2>3 DEF DemoStateInv
  <1>4. ASSUME main = "step", main' \in {"step", "abort"}, accesses' = accesses + 1, store' \in Array,
               UNCHANGED <<elf, start_pc, pc>>
        PROVE  DemoStateInv'
    <2>1. BootsAtEntry' BY <1>4 DEF DemoStateInv, BootsAtEntry, InRom
    <2>2. accesses' \in Nat /\ accesses' # 0 BY <1>4 DEF DemoStateInv
    <2>3. QED BY <1>4, <2>1, <2>2 DEF DemoStateInv
  <1>5. ASSUME NEW l \in Loads, DemoLoad(l[1], l[2]) PROVE DemoStateInv'
    BY <1>4, <1>5, LoadEffect DEF DemoLoad
  <1>6. ASSUME NEW s \in Stores, DemoStore(s[1], s[2]) PROVE DemoStateInv'
    BY <1>4, <1>6, StoreEffect DEF DemoStore
  <1>7. CASE UNCHANGED demoVars
    <2>1. UNCHANGED <<main, elf, store, start_pc, pc, accesses>> BY <1>7 DEF demoVars
    <2>2. BootsAtEntry' BY <2>1 DEF DemoStateInv, BootsAtEntry, InRom
    <2>3. Image(store)' <=> Image(store) BY <2>1 DEF Image, RomOnly, InRom
    <2>4. RomOnly(store)' <=> RomOnly(store) BY <2>1 DEF RomOnly, InRom
    <2>5. QED BY <2>1, <2>2, <2>3, <2>4 DEF DemoStateInv
  <1>8. QED BY <1>1, <1>2, <1>3, <1>5, <1>6, <1>7 DEF DemoNext

LEMMA DemoInv == DemoSpec => []DemoStateInv
  BY DemoInvInit, DemoInvNext, PTL DEF DemoSpec

(* elfloader.h, sparse_array.h: when the hart starts, the bytes that each  *)
(* segment puts into its first page are the file's, and what no segment    *)
(* and no reset vector covers is zero, for every file.                     *)
THEOREM ImageIsLoaded == DemoSpec => []ImageLoaded
  <1>1. DemoStateInv => ImageLoaded
    <2> SUFFICES ASSUME DemoStateInv, main \in {"boot", "step"}, accesses = 0, NEW a \in 0 .. SIZE - 1
                 PROVE  /\ \A i \in DOMAIN elf.ph :
                              /\ CoversFirstPage(elf.ph[i], a)
                              /\ \A j \in i + 1 .. Len(elf.ph) : ~Covers(elf.ph[j], a)
                              => ByteAt(store, a) = elf.ph[i].file[a - elf.ph[i].paddr + 1]
                        /\ (\A i \in DOMAIN elf.ph : ~Covers(elf.ph[i], a)) /\ ~InRom(a) => ByteAt(store, a) = 0
      BY DEF ImageLoaded
    <2>1. elf \in ElfFile /\ a \in Nat BY DemoAssumption DEF DemoStateInv
    <2>2. DOMAIN elf.ph = 1 .. Len(elf.ph)
      <3>1. elf.ph \in Seq(ProgramHeader) BY <2>1 DEF ElfFile
      <3>2. QED BY <3>1
    <2>3. PICK rom \in Array : RomOnly(rom) /\ InMemoryUpTo(Len(elf.ph), store, rom, elf)
      BY DEF DemoStateInv, Image
    <2>4. ~InRom(a) => ByteAt(rom, a) = 0 BY <2>1, <2>3 DEF RomOnly
    <2>5. QED BY <2>1, <2>2, <2>3, <2>4 DEF InMemoryUpTo
  <1>2. QED BY <1>1, DemoInv, PTL

(* main.cc, memory_simulator.cc: the hart begins at the entry point of the *)
(* file, through the wrapper and through the bridge, unless a segment lies *)
(* over the reset vector.                                                  *)
THEOREM HartBootsAtEntry == DemoSpec => []BootsAtEntry
  <1>1. DemoStateInv => BootsAtEntry BY DEF DemoStateInv
  <1>2. QED BY <1>1, DemoInv, PTL

(* memory_simulator.cc, sparse_array.h: the hart's accesses are those of a *)
(* flat memory, for every program whose accesses stay in a page.           *)
THEOREM AccessesAreFlat == DemoSpec => StepsAreAccesses
  <1>1. DemoStateInv /\ [DemoNext]_demoVars =>
           [main' = "step" =>
              /\ \A l \in Loads : l[1] >= PGSIZE /\ DemoLoad(l[1], l[2]) => LoadIsFlat(l[1], l[2])
              /\ \A s \in Stores : s[1] >= PGSIZE /\ DemoStore(s[1], s[2]) => StoreIsFlat(s[1], s[2])
           ]_<<store, buf, accesses>>
    BY LoadEffect, StoreEffect
  <1>2. QED BY <1>1, DemoInv, PTL DEF DemoSpec, StepsAreAccesses
=============================================================================
