-------------------------- MODULE ArithmeticProofs --------------------------
(***************************************************************************)
(* Theorems about the arithmetic.  Of the words of WordSweep, for every    *)
(* word: that a sum is the exact one cut towards zero, for every pair of   *)
(* operands whose exponents the guard bits bridge; that a number times its *)
(* reciprocal is 1 within two units in the last place; that EXP never      *)
(* reverses the order of its arguments; and that the quantiser is at least *)
(* as accurate as the reference of its test, for every second element of   *)
(* the block.  Of the matrix unit in GemmBench, for every row, column and  *)
(* scale in the window of GemmAssumption and any number of calls: that a   *)
(* partial sum is the exact dot product, up to two units in the last place *)
(* per term, and that the BF16 number delivered is that sum rounded.       *)
(***************************************************************************)
EXTENDS WordSweep, GemmBench, NatRecursion

-----------------------------------------------------------------------------
(* The loop index stays a word, as SweepChunk divides 65536.               *)
IndexIsWord == word \in Word

LEMMA SweepWord == SweepSpec => []IndexIsWord
  <1>1. SweepInit => IndexIsWord
    <2> SUFFICES ASSUME NEW k \in 0 .. 65535 \div SweepChunk, word = k * SweepChunk PROVE word \in Word
      BY DEF SweepInit, IndexIsWord
    <2>1. SweepChunk \in Nat \ {0} BY SweepAssumption
    <2>2. k * SweepChunk <= 65535
      <3> DEFINE q == 65535 \div SweepChunk
      <3>1. q \in Nat /\ q * SweepChunk <= 65535 BY <2>1
      <3>2. k \in Nat /\ k <= q BY <3>1
      <3> HIDE DEF q
      <3>3. k * SweepChunk <= q * SweepChunk BY <2>1, <3>1, <3>2
      <3>4. QED BY <2>1, <3>1, <3>2, <3>3
    <2>3. QED BY <2>1, <2>2 DEF Word
  <1>2. IndexIsWord /\ [SweepStep]_word => IndexIsWord'
    <2> SUFFICES ASSUME word \in Word, SweepStep PROVE word' \in Word
      BY DEF IndexIsWord
    <2>1. word' = word + 1 /\ (word + 1) % SweepChunk # 0 BY DEF SweepStep
    <2>2. word # 65535 BY <2>1, SweepAssumption
    <2>3. QED BY <2>1, <2>2 DEF Word
  <1>3. QED BY <1>1, <1>2, PTL DEF SweepSpec

(* The fields of a BF16 number are as wide as the format says.             *)
LEMMA FieldTypes ==
  ASSUME NEW v \in Word
  PROVE  sign(v) \in 0 .. 1 /\ exponent(v) \in 0 .. 255 /\ mantissa(v) \in 0 .. 127
  BY DEF Word, sign, exponent, mantissa

(* Packing and taking the fields are inverse.                              *)
LEMMA FieldsOfPack ==
  ASSUME NEW s \in 0 .. 1, NEW e \in 0 .. 255, NEW m \in 0 .. 127
  PROVE  sign(Pack(s, e, m)) = s /\ exponent(Pack(s, e, m)) = e /\ mantissa(Pack(s, e, m)) = m
  BY DEF sign, exponent, mantissa, Pack

(* The leading one of a number of up to 26 bits, which the code looks for  *)
(* before it normalises.                                                   *)
LEMMA LeadingOneIs ==
  ASSUME NEW x \in 1 .. 2^26
  PROVE  MsbPos(x) \in 0 .. 29 /\ 2^MsbPos(x) <= x /\ x < 2^(MsbPos(x) + 1)
  <1>1. \E k \in 0 .. 29 : 2^k <= x /\ x < 2^(k + 1)
    OBVIOUS
  <1>2. QED BY <1>1, Zenon DEF MsbPos

-----------------------------------------------------------------------------
(***************************************************************************)
(* Addition.                                                               *)
(***************************************************************************)
(* The eight bits that are kept of a sum whose leading one is u places     *)
(* above bit 23.                                                           *)
Significand(sum, u) == (IF u < 0 THEN sum * 2^(-u) ELSE sum \div 2^u) \div 2^GUARD_BITS

LEMMA EightBits ==
  ASSUME NEW x \in Nat \ {0}, NEW n \in Nat, NEW q \in Int,
         x * 128 <= n, n < x * 256, q * x <= n, n < (q + 1) * x
  PROVE  q \in 128 .. 255
  <1>1. CASE q <= 127
    <2>1. (q + 1) * x <= 128 * x BY <1>1
    <2>2. QED BY <2>1
  <1>2. CASE q >= 256
    <2>1. q * x >= 256 * x BY <1>2
    <2>2. QED BY <2>1
  <1>3. QED BY <1>1, <1>2

(* They are the sum cut after eight bits.                                  *)
LEMMA SignificandIs ==
  ASSUME NEW sum \in Nat, NEW u \in -8 .. 1, 2^(23 + u) <= sum, sum < 2^(24 + u)
  PROVE  /\ Significand(sum, u) \in 128 .. 255
         /\ Significand(sum, u) * 2^(16 + u) <= sum
         /\ sum < (Significand(sum, u) + 1) * 2^(16 + u)
  <1> DEFINE x == 2^(16 + u)
             q == Significand(sum, u)
  <1>1. x \in Nat \ {0} /\ 2^(23 + u) = x * 128 /\ 2^(24 + u) = x * 256
    <2>1. 16 + u \in Nat /\ 7 \in Nat /\ 8 \in Nat
      OBVIOUS
    <2>2. 2^((16 + u) + 7) = x * 2^7 /\ 2^((16 + u) + 8) = x * 2^8 BY <2>1, PowerSum, Zenon
    <2>3. (16 + u) + 7 = 23 + u /\ (16 + u) + 8 = 24 + u OBVIOUS
    <2>4. 2^(23 + u) = x * 2^7 /\ 2^(24 + u) = x * 2^8 BY <2>2, <2>3, Zenon
    <2>5. 2^7 = 128 /\ 2^8 = 256 OBVIOUS
    <2>6. x \in Nat \ {0} BY <2>1, Powers
    <2>7. QED BY <2>4, <2>5, <2>6, Zenon
  <1>2. x * 128 <= sum /\ sum < x * 256
    <2> HIDE DEF x, q
    <2>1. QED BY <1>1
  <1>3. CASE u < 0
    <2> DEFINE y == 2^(-u)
    <2>1. y \in Nat \ {0} /\ x * y = 2^16
      <3>1. -u \in Nat /\ 16 + u \in Nat /\ (16 + u) + (-u) = 16 BY <1>3
      <3>2. 2^((16 + u) + (-u)) = x * y BY <3>1, PowerSum, Zenon
      <3>3. y \in Nat \ {0} BY <3>1, Powers, Zenon
      <3>4. QED BY <3>1, <3>2, <3>3, Zenon
    <2>2. q = (sum * y) \div (x * y) BY <1>3, <2>1, Zenon DEF Significand, GUARD_BITS
    <2> DEFINE r == sum \div x
    <2> HIDE DEF x, y, q
    <2>3. r \in Int /\ r * x <= sum /\ sum < (r + 1) * x BY <1>1
    <2> HIDE DEF r
    <2>4. q = r
      <3>1. r * (x * y) <= sum * y /\ sum * y < (r + 1) * (x * y) /\ x * y \in Nat \ {0} /\ sum * y \in Int
        <4>1. \A a, b \in Int : a <= b => a * y <= b * y BY <2>1
        <4>2. \A a, b \in Int : a < b => a * y < b * y BY <2>1
        <4>3. r * x \in Int /\ (r + 1) * x \in Int BY <1>1, <2>3
        <4>4. (r * x) * y <= sum * y /\ sum * y < ((r + 1) * x) * y BY <2>3, <4>1, <4>2, <4>3
        <4>5. (r * x) * y = r * (x * y) /\ ((r + 1) * x) * y = (r + 1) * (x * y) BY <1>1, <2>1, <2>3
        <4>6. x * y \in Nat \ {0} /\ sum * y \in Int BY <1>1, <2>1
        <4>7. QED BY <4>4, <4>5, <4>6
      <3>2. (sum * y) \div (x * y) = r BY <2>3, <3>1, QuotientIs
      <3>3. QED BY <2>2, <3>2
    <2>5. QED BY <1>1, <1>2, <2>3, <2>4, EightBits DEF x, q
  <1>4. CASE u >= 0
    <2>1. q = (sum \div 2^u) \div 2^16
      <3>1. ~(u < 0) BY <1>4
      <3>2. QED BY <3>1, Zenon DEF Significand, GUARD_BITS
    <2>2. CASE u = 0
      <3>1. 2^u = 1 /\ x = 65536
        <4>1. u = 0 /\ 16 + u = 16 BY <2>2
        <4>2. 2^u = 2^0 /\ x = 2^16 BY <4>1, Zenon
        <4>3. QED BY <4>2
      <3> HIDE DEF x, q
      <3>2. q = sum \div x BY <2>1, <3>1
      <3>3. q \in Int /\ q * x <= sum /\ sum < (q + 1) * x BY <1>1, <3>2
      <3>4. QED BY <1>1, <1>2, <3>3, EightBits DEF x, q
    <2>3. CASE u = 1
      <3>1. 2^u = 2 /\ x = 131072
        <4>1. u = 1 /\ 16 + u = 17 BY <2>3
        <4>2. 2^u = 2^1 /\ x = 2^17 BY <4>1, Zenon
        <4>3. QED BY <4>2
      <3> HIDE DEF x, q
      <3>2. q = (sum \div 2) \div 65536 BY <2>1, <3>1
      <3>3. q \in Int /\ q * x <= sum /\ sum < (q + 1) * x BY <3>1, <3>2
      <3>4. QED BY <1>1, <1>2, <3>3, EightBits DEF x, q
    <2>4. QED BY <1>4, <2>2, <2>3
  <1>5. QED BY <1>3, <1>4

(* The end of bf16_add: normalise, cut, pack.                              *)
Cut(s, e, sum) ==
    LET u == MsbPos(sum) - 23 IN PackRange(s, e + u, Significand(sum, u) % 128)

(* The number n in units of 2^(16 - k), cut to eight bits q * 2^w.         *)
CutsTo(s, e, k, n) ==
    \E q \in 128 .. 255, w \in 0 .. 22 :
        /\ Cut(s, e, n * 2^(16 - k)) = PackRange(s, e + w - k - 7, q - 128)
        /\ q * 2^w <= 128 * n /\ 128 * n < (q + 1) * 2^w
        /\ w <= k + 8

LEMMA CutIs ==
  ASSUME NEW s, NEW e \in Int, NEW k \in 0 .. 14, NEW n \in Nat \ {0},
         n * 2^(16 - k) < 2^25, k >= 2 => n * 2^(16 - k) >= 2^22
  PROVE  CutsTo(s, e, k, n)
  <1> DEFINE z == 2^(16 - k)
             sum == n * z
             p == MsbPos(sum)
             u == p - 23
             q == Significand(sum, u)
             w == u + k + 7
  <1>1. z \in Nat \ {0} /\ sum \in Nat /\ z <= sum
    <2>1. 16 - k \in Nat OBVIOUS
    <2>2. z \in Nat \ {0} BY <2>1, Powers
    <2> HIDE DEF z
    <2>3. QED BY <2>2
  <1>2. sum < 2^25 /\ (k >= 2 => sum >= 2^22) OBVIOUS
  <1> HIDE DEF z, sum
  <1>3. p \in 0 .. 29 /\ 2^p <= sum /\ sum < 2^(p + 1)
    <2>1. sum \in 1 .. 2^26 BY <1>1, <1>2
    <2>2. QED BY <2>1, LeadingOneIs, Zenon
  <1> HIDE DEF p
  <1>4. p <= 24
    <2>1. CASE p >= 25
      <3> p \in Nat /\ 25 \in Nat /\ 25 <= p BY <1>3, <2>1
      <3>1. 2^25 <= 2^p BY PowerOrder, Zenon
      <3>2. 2^p \in Nat BY Powers
      <3>3. FALSE BY <1>1, <1>2, <1>3, <3>1, <3>2
      <3>4. QED BY <3>3
    <2>2. QED BY <1>3, <2>1
  <1>5. p >= 16 - k
    <2>1. CASE p + 1 <= 16 - k
      <3>1. p + 1 \in Nat /\ 16 - k \in Nat BY <1>3
      <3>2. 2^(p + 1) <= z BY <2>1, <3>1, PowerOrder DEF z
      <3>3. 2^(p + 1) \in Nat BY <3>1, Powers
      <3>4. QED BY <1>1, <1>3, <3>2, <3>3
    <2>2. QED BY <1>3, <2>1
  <1>6. k >= 2 => p >= 22
    <2>1. CASE k >= 2 /\ p <= 21
      <3>1. p + 1 \in Nat /\ 22 \in Nat /\ p + 1 <= 22 BY <1>3, <2>1
      <3>2. 2^(p + 1) <= 2^22 BY <3>1, PowerOrder, Zenon
      <3>3. 2^(p + 1) \in Nat BY <3>1, Powers
      <3>4. QED BY <1>1, <1>2, <1>3, <2>1, <3>2, <3>3
    <2>2. QED BY <1>3, <2>1
  <1>7. u \in -8 .. 1 /\ w \in 0 .. 22 /\ w <= k + 8 /\ 23 + u = p /\ 24 + u = p + 1
    BY <1>3, <1>4, <1>5, <1>6
  <1> HIDE DEF u
  <1>8. q \in 128 .. 255 /\ q * 2^(16 + u) <= sum /\ sum < (q + 1) * 2^(16 + u)
    <2>1. 2^(23 + u) <= sum /\ sum < 2^(24 + u) BY <1>3, <1>7
    <2>2. QED BY <1>1, <1>7, <2>1, SignificandIs
  <1> HIDE DEF q
  <1>9. 2^(16 + u) * 2^k = 2^w * 512
    <2>1. 16 + u \in Nat /\ k \in Nat /\ w \in Nat /\ 9 \in Nat
          /\ 16 + u + k = w + 9
      BY <1>7 DEF w
    <2> HIDE DEF w
    <2>2. 2^(16 + u + k) = 2^(16 + u) * 2^k BY <2>1, PowerSum
    <2>3. 2^(w + 9) = 2^w * 2^9 BY <2>1, PowerSum, Zenon
    <2>4. 2^9 = 512 OBVIOUS
    <2>5. QED BY <2>1, <2>2, <2>3, <2>4
  <1>10. z * 2^k = 2^16
    <2>1. 16 - k \in Nat /\ k \in Nat /\ (16 - k) + k = 16 OBVIOUS
    <2>2. 2^((16 - k) + k) = z * 2^k BY <2>1, PowerSum DEF z
    <2>3. QED BY <2>1, <2>2
  <1>11. q * 2^w <= 128 * n /\ 128 * n < (q + 1) * 2^w
    <2> DEFINE x == 2^(16 + u)
               y == 2^k
               v == 2^w
    <2>1. x \in Nat \ {0} /\ y \in Nat \ {0} /\ v \in Nat \ {0}
      <3>1. 16 + u \in Nat /\ k \in Nat /\ w \in Nat BY <1>7
      <3>2. QED BY <3>1, Powers
    <2>2. x * y = v * 512 /\ z * y = 65536 BY <1>9, <1>10
    <2> HIDE DEF x, y, v
    <2>3. q * x <= n * z /\ n * z < (q + 1) * x BY <1>8 DEF sum, x
    <2>4. (q * x) * y <= (n * z) * y /\ (n * z) * y < ((q + 1) * x) * y
      <3>1. q * x \in Int /\ n * z \in Int /\ (q + 1) * x \in Int BY <1>1, <1>8, <2>1
      <3>2. \A a, b \in Int : a <= b => a * y <= b * y BY <2>1
      <3>3. \A a, b \in Int : a < b => a * y < b * y BY <2>1
      <3>4. QED BY <2>3, <3>1, <3>2, <3>3
    <2>5. (q * x) * y = (q * v) * 512 /\ (n * z) * y = n * 65536
          /\ ((q + 1) * x) * y = ((q + 1) * v) * 512
      BY <1>1, <1>8, <2>1, <2>2
    <2>6. q * v \in Int /\ (q + 1) * v \in Int BY <1>8, <2>1
    <2>7. q * v <= 128 * n /\ 128 * n < (q + 1) * v BY <2>4, <2>5, <2>6
    <2>8. QED BY <2>7 DEF v
  <1>12. Cut(s, e, n * 2^(16 - k)) = PackRange(s, e + w - k - 7, q - 128)
    <2>1. Cut(s, e, n * 2^(16 - k)) = PackRange(s, e + u, q % 128) BY DEF Cut, u, p, q, sum, z
    <2>2. e + u = e + w - k - 7 BY <1>7
    <2>3. q % 128 = q - 128 BY <1>8
    <2>4. QED BY <2>1, <2>2, <2>3
  <1>13. QED BY <1>7, <1>8, <1>11, <1>12, Zenon DEF CutsTo

(* Two operands, the one of larger magnitude first, aligned and added: n   *)
(* is their sum in units of the smaller one's last bit.                    *)
Magnitude(s, t, k, x, y) == IF s # t THEN x * 2^k - y ELSE x * 2^k + y

(* It fits the code's word, and cancellation is deep only for neighbours.  *)
MagnitudeFits(s, t, k, x, y) ==
    LET n == Magnitude(s, t, k, x, y)
        z == 2^(16 - k)
    IN  /\ n \in Nat
        /\ n * z < 2^25
        /\ k >= 2 => n * z >= 2^22
        /\ s # t => n * z = x * 2^16 - y * z
        /\ s = t => n * z = x * 2^16 + y * z

LEMMA MagnitudeIs ==
  ASSUME NEW s \in 0 .. 1, NEW t \in 0 .. 1, NEW k \in 0 .. 14,
         NEW x \in 128 .. 255, NEW y \in 128 .. 255, k = 0 => x >= y
  PROVE  MagnitudeFits(s, t, k, x, y)
  <1> DEFINE n == Magnitude(s, t, k, x, y)
             c == 2^k
             z == 2^(16 - k)
  <1>1. c \in Nat \ {0} /\ z \in Nat \ {0} /\ z * c = 65536
    <2>1. 16 - k \in Nat /\ k \in Nat /\ (16 - k) + k = 16 OBVIOUS
    <2>2. 2^((16 - k) + k) = z * c BY <2>1, PowerSum, Zenon
    <2>3. z * c = 2^16 BY <2>1, <2>2, Zenon
    <2>4. 2^16 = 65536 OBVIOUS
    <2>5. c \in Nat \ {0} /\ z \in Nat \ {0} BY <2>1, Powers
    <2> HIDE DEF c, z
    <2>6. QED BY <2>3, <2>4, <2>5
  <1>2. (k = 0 => c = 1) /\ (k >= 1 => c >= 2) /\ (k >= 2 => z <= 16384)
    <2>1. k = 0 => c = 2^0 OBVIOUS
    <2>2. 2^0 = 1 OBVIOUS
    <2>3. ASSUME k >= 1 PROVE c >= 2
      <3>1. 1 \in Nat /\ k \in Nat /\ 1 <= k BY <2>3
      <3>2. 2^1 <= c BY <3>1, PowerOrder, Zenon
      <3>3. QED BY <1>1, <3>2
    <2>4. ASSUME k >= 2 PROVE z <= 16384
      <3>1. 16 - k \in Nat /\ 14 \in Nat /\ 16 - k <= 14 BY <2>4
      <3>2. z <= 2^14 BY <3>1, PowerOrder, Zenon
      <3>3. QED BY <1>1, <3>2
    <2> HIDE DEF c, z
    <2>5. QED BY <2>1, <2>2, <2>3, <2>4
  <1>3. n = IF s # t THEN x * c - y ELSE x * c + y BY Zenon DEF Magnitude
  <1> HIDE DEF n, c, z
  <1>4. n \in Nat
    <2>1. x * c \in Nat /\ (k = 0 => x * c = x) /\ (k >= 1 => x * c >= 256)
      <3>1. k >= 1 => x * c >= x * 2 BY <1>1, <1>2
      <3>2. QED BY <1>1, <1>2, <3>1
    <2>2. k = 0 \/ k >= 1 OBVIOUS
    <2>3. x * c >= y BY <2>1, <2>2
    <2>4. QED BY <1>3, <2>1, <2>3
  <1>5. n * z = x * 65536 + (IF s # t THEN -(y * z) ELSE y * z)
    <2>1. (x * c) * z = x * 65536 BY <1>1
    <2>2. x * c \in Int /\ y * z \in Int BY <1>1
    <2>3. CASE s # t
      <3>1. n * z = (x * c) * z - y * z BY <1>1, <1>3, <2>2, <2>3
      <3>2. QED BY <2>1, <2>2, <2>3, <3>1
    <2>4. CASE s = t
      <3>1. n * z = (x * c) * z + y * z BY <1>1, <1>3, <2>2, <2>4
      <3>2. QED BY <2>1, <2>2, <2>4, <3>1
    <2>5. QED BY <2>3, <2>4
  <1>6. y * z \in Nat /\ y * z <= 255 * 65536 /\ (k >= 2 => y * z <= 255 * 16384)
    <2>1. z <= 65536 BY <1>1
    <2>2. y * z <= 255 * z BY <1>1
    <2>3. QED BY <1>1, <1>2, <2>1, <2>2
  <1>7. n * z < 33554432 /\ (k >= 2 => n * z >= 4194304) BY <1>5, <1>6
  <1>8. 2^25 = 33554432 /\ 2^22 = 4194304 /\ 2^16 = 65536 OBVIOUS
  <1>9. (s # t => n * z = x * 2^16 - y * z) /\ (s = t => n * z = x * 2^16 + y * z)
    BY <1>5, <1>6, <1>8
  <1>10. n * z < 2^25 /\ (k >= 2 => n * z >= 2^22) BY <1>7, <1>8
  <1>11. QED BY <1>4, <1>9, <1>10, Zenon DEF n, z, MagnitudeFits

(* The operands in the order of their magnitudes: the first has sign s,    *)
(* exponent e, significand x, the second t, e - k, y.                      *)
InOrder(sa, ea, ma, sb, eb, mb, s, t, e, k, x, y) ==
    IF ea < eb \/ (ea = eb /\ ma < mb)
    THEN s = sb /\ t = sa /\ e = eb /\ k = eb - ea /\ x = 128 + mb /\ y = 128 + ma
    ELSE s = sa /\ t = sb /\ e = ea /\ k = ea - eb /\ x = 128 + ma /\ y = 128 + mb

(* bf16_add, the aligned part: it is the sum of the magnitudes, cut.       *)
CutMagnitude(s, t, e, k, x, y) ==
    IF Magnitude(s, t, k, x, y) = 0 THEN make_zero(0)
    ELSE Cut(s, e, Magnitude(s, t, k, x, y) * 2^(16 - k))

Operands(sa, ea, ma, sb, eb, mb) ==
    /\ sa \in 0 .. 1 /\ ea \in 0 .. 255 /\ ma \in 0 .. 127
    /\ sb \in 0 .. 1 /\ eb \in 0 .. 255 /\ mb \in 0 .. 127

LEMMA AlignedSumIs ==
  ASSUME NEW sa, NEW ea, NEW ma, NEW sb, NEW eb, NEW mb, NEW ub, Operands(sa, ea, ma, sb, eb, mb),
         NEW s, NEW t, NEW e, NEW k, NEW x, NEW y, k \in 0 .. 14,
         InOrder(sa, ea, ma, sb, eb, mb, s, t, e, k, x, y)
  PROVE  AlignedSum(sa, ea, ma, sb, eb, mb, ub) = CutMagnitude(s, t, e, k, x, y)
  <1> DEFINE swap == ea < eb \/ (ea = eb /\ ma < mb)
             s1 == IF swap THEN sb ELSE sa
             e1 == IF swap THEN eb ELSE ea
             shift == IF swap THEN eb - ea ELSE ea - eb
             sig_a == (128 + (IF swap THEN mb ELSE ma)) * 2^GUARD_BITS
             small == (128 + (IF swap THEN ma ELSE mb)) * 2^GUARD_BITS
             sig_b == Shr32(small, shift, ub)
             sum == IF sa # sb THEN sig_a - sig_b ELSE sig_a + sig_b
             shift_amt == (IF sum < 0 THEN 31 ELSE MsbPos(sum)) - (7 + GUARD_BITS)
             final_sig == IF sum < 0 THEN 2^24 + sum \div 2^8
                          ELSE IF shift_amt < 0 THEN sum * 2^(-shift_amt)
                          ELSE sum \div 2^shift_amt
             n == Magnitude(s, t, k, x, y)
             z == 2^(16 - k)
             c == 2^k
  <1>a. /\ sa \in 0 .. 1 /\ ea \in 0 .. 255 /\ ma \in 0 .. 127
        /\ sb \in 0 .. 1 /\ eb \in 0 .. 255 /\ mb \in 0 .. 127
    BY Zenon DEF Operands
  <1>b. /\ s \in 0 .. 1 /\ t \in 0 .. 1 /\ e \in Int
        /\ x \in 128 .. 255 /\ y \in 128 .. 255 /\ (k = 0 => x >= y)
    <2> HIDE DEF s1, e1, shift, sig_a, small, sig_b, sum, shift_amt, final_sig, n, z, c
    <2>1. QED BY <1>a DEF InOrder
  <1>1. AlignedSum(sa, ea, ma, sb, eb, mb, ub)
          = IF sum = 0 THEN make_zero(0)
            ELSE PackRange(s1, e1 + shift_amt, (final_sig \div 2^GUARD_BITS) % 128)
    BY Zenon DEF AlignedSum, s1, e1, shift, small, sig_a, sig_b, sum, shift_amt, final_sig
  <1>2. s1 = s /\ e1 = e /\ shift = k /\ (sa # sb <=> s # t) BY <1>a, <1>b DEF InOrder
  <1>3. sig_a = x * 65536 /\ small = y * 65536 BY <1>a, <1>b DEF GUARD_BITS, InOrder
  <1> HIDE DEF s1, e1, shift, small, sig_a
  <1>4. c \in Nat \ {0} /\ z \in Nat \ {0} /\ z * c = 65536
    <2>1. 16 - k \in Nat /\ k \in Nat /\ (16 - k) + k = 16 OBVIOUS
    <2>2. 2^((16 - k) + k) = z * c BY <2>1, PowerSum, Zenon
    <2>3. z * c = 2^16 BY <2>1, <2>2, Zenon
    <2>4. 2^16 = 65536 OBVIOUS
    <2>5. c \in Nat \ {0} /\ z \in Nat \ {0} BY <2>1, Powers
    <2> HIDE DEF c, z
    <2>6. QED BY <2>3, <2>4, <2>5
  <1>5. sig_b = y * z
    <2>1. sig_b = small \div c
      <3>1. k < 32 /\ ~(k > 30) OBVIOUS
      <3>2. QED BY <1>2, <3>1, Zenon DEF Shr32, Shr
    <2> HIDE DEF c, z, sig_b, sum, final_sig, shift_amt, n
    <2>2. (y * z) * c = small BY <1>3, <1>4, <1>b
    <2>3. y * z \in Int /\ small \in Int BY <1>3, <1>4, <1>b
    <2>4. (y * z) * c <= small /\ small < (y * z + 1) * c
      <3>1. (y * z + 1) * c = (y * z) * c + c BY <1>4, <1>b, <2>3
      <3>2. QED BY <1>4, <1>b, <2>2, <2>3, <3>1
    <2>5. small \div c = y * z
      <3> DEFINE q == y * z
      <3>1. q \in Int /\ small \in Int /\ c \in Nat \ {0} /\ q * c <= small /\ small < (q + 1) * c
        BY <1>4, <1>b, <2>3, <2>4
      <3> HIDE DEF q
      <3>2. small \div c = q BY <3>1, QuotientIs
      <3>3. QED BY <3>2 DEF q
    <2>6. QED BY <2>1, <2>5
  <1> HIDE DEF sig_b
  <1>6. n \in Nat /\ n * z = x * 65536 + (IF s # t THEN -(y * z) ELSE y * z)
    <2>1. 2^16 = 65536 OBVIOUS
    <2>2. /\ n \in Nat
          /\ s # t => n * z = x * 2^16 - y * z
          /\ s = t => n * z = x * 2^16 + y * z
      <3>1. MagnitudeFits(s, t, k, x, y) BY <1>b, MagnitudeIs, Zenon
      <3>2. QED BY <3>1, Zenon DEF MagnitudeFits
    <2>3. y * z \in Int
      <3> HIDE DEF n, z
      <3>1. QED BY <1>4, <1>b
    <2> HIDE DEF n, z
    <2>4. QED BY <1>b, <2>1, <2>2, <2>3
  <1> HIDE DEF n, c, z
  <1>7. sum = n * z /\ sum \in Nat /\ (sum = 0 <=> n = 0)
    <2>1. y * z \in Int /\ n * z \in Nat BY <1>4, <1>6, <1>b
    <2>2. sum = n * z BY <1>2, <1>3, <1>5, <1>6, <2>1
    <2>3. n * z = 0 <=> n = 0 BY <1>4, <1>6, <1>b
    <2>4. QED BY <2>1, <2>2, <2>3
  <1> HIDE DEF sum
  <1>8. shift_amt = MsbPos(sum) - 23 BY <1>7 DEF GUARD_BITS
  <1> HIDE DEF shift_amt
  <1>9. final_sig \div 2^GUARD_BITS = Significand(sum, shift_amt)
    <2>1. ~(sum < 0) BY <1>7
    <2>2. QED BY <2>1, Zenon DEF Significand
  <1> HIDE DEF final_sig
  <1>10. PackRange(s1, e1 + shift_amt, (final_sig \div 2^GUARD_BITS) % 128) = Cut(s, e, sum)
    BY <1>2, <1>8, <1>9, Zenon DEF Cut
  <1>11. QED BY <1>1, <1>7, <1>10, Zenon DEF n, z, CutMagnitude

(* The sign of a term.                                                     *)
Signed(s, x) == IF s = 1 THEN 0 - x ELSE x

(* What the property asks of r as the sum of a and b.                      *)
IsCutSum(r, sum, base) ==
    IF sum = 0 THEN r = make_zero(0)
    ELSE /\ sign(r) = (IF sum < 0 THEN 1 ELSE 0)
         /\ Abs(Exact(r, base)) <= Abs(sum)
         /\ Abs(sum) < Abs(Exact(r, base)) + 2^(exponent(r) - base)

(* A packed cut of n is a cut sum.                                         *)
LEMMA PackedCut ==
  ASSUME NEW s \in 0 .. 1, NEW base \in Nat \ {0}, NEW w \in 0 .. 22, NEW q \in 128 .. 255,
         NEW n \in Nat \ {0}, q * 2^w <= n, n < (q + 1) * 2^w, base + w <= 254
  PROVE  IsCutSum(PackRange(s, base + w, q - 128), Signed(s, n), base)
  <1> DEFINE r == PackRange(s, base + w, q - 128)
             v == 2^w
             sum == Signed(s, n)
  <1>1. v \in Nat \ {0}
    <2>1. w \in Nat OBVIOUS
    <2>2. QED BY <2>1, Powers
  <1>2. sign(r) = s /\ exponent(r) = base + w /\ mantissa(r) = q - 128
    <2> DEFINE e == base + w
               m == q - 128
    <2>1. e \in 0 .. 255 /\ m \in 0 .. 127 /\ ~(e >= 255) /\ ~(e <= 0) OBVIOUS
    <2>2. r = Pack(s, e, m) BY <2>1, Zenon DEF PackRange
    <2> HIDE DEF e, m, r, v, sum
    <2>3. sign(Pack(s, e, m)) = s /\ exponent(Pack(s, e, m)) = e /\ mantissa(Pack(s, e, m)) = m
      BY <2>1, FieldsOfPack, Zenon
    <2>4. sign(r) = s /\ exponent(r) = e /\ mantissa(r) = m BY <2>2, <2>3, Zenon
    <2>5. QED BY <2>4 DEF e, m
  <1>3. Exact(r, base) = (IF s = 1 THEN -1 ELSE 1) * q * v
    <2>1. exponent(r) - base = w BY <1>2
    <2>2. 128 + mantissa(r) = q BY <1>2
    <2>3. QED BY <1>2, <2>1, <2>2, Zenon DEF Exact
  <1>4. 2^(exponent(r) - base) = v
    <2>1. exponent(r) - base = w BY <1>2
    <2>2. QED BY <2>1, Zenon
  <1> HIDE DEF r
  <1>5. q * v <= n /\ n < q * v + v /\ q * v \in Nat
    <2> HIDE DEF v
    <2>1. (q + 1) * v = q * v + v /\ q * v \in Nat BY <1>1
    <2>2. QED BY <2>1 DEF v
  <1> HIDE DEF v
  <1>6. Exact(r, base) = IF s = 1 THEN -(q * v) ELSE q * v BY <1>1, <1>3
  <1>7. Abs(Exact(r, base)) = q * v BY <1>5, <1>6 DEF Abs
  <1>8. sum # 0 /\ Abs(sum) = n /\ (IF sum < 0 THEN 1 ELSE 0) = s BY DEF Signed, Abs
  <1> HIDE DEF sum
  <1>9. QED BY <1>2, <1>4, <1>5, <1>7, <1>8 DEF IsCutSum, r, sum

(* The exact sum of the ordered operands.                                  *)
LEMMA ExactOrdered ==
  ASSUME NEW a \in Word, NEW b \in Word, NEW k \in 0 .. 14, NEW base \in Int,
         exponent(b) = base + 7, exponent(a) = base + 7 + k
  PROVE  Exact(a, base) + Exact(b, base)
           = Signed(sign(a), 128 * Magnitude(sign(a), sign(b), k, 128 + mantissa(a), 128 + mantissa(b)))
  <1> DEFINE s == sign(a)
             t == sign(b)
             x == 128 + mantissa(a)
             y == 128 + mantissa(b)
             c == 2^k
  <1>1. s \in 0 .. 1 /\ t \in 0 .. 1 /\ x \in 128 .. 255 /\ y \in 128 .. 255 BY FieldTypes
  <1>2. c \in Nat \ {0}
    <2>1. k \in Nat OBVIOUS
    <2>2. QED BY <2>1, Powers
  <1>3. 2^(exponent(a) - base) = c * 128 /\ 2^(exponent(b) - base) = 128
    <2>1. exponent(a) - base = k + 7 /\ exponent(b) - base = 7 OBVIOUS
    <2>2. k \in Nat /\ 7 \in Nat OBVIOUS
    <2>3. 2^(k + 7) = c * 2^7 BY <2>2, PowerSum, Zenon
    <2>4. 2^(exponent(a) - base) = c * 2^7 /\ 2^(exponent(b) - base) = 2^7 BY <2>1, <2>3, Zenon
    <2>5. 2^7 = 128 OBVIOUS
    <2> HIDE DEF c
    <2>6. QED BY <2>4, <2>5
  <1>4. /\ Exact(a, base) = (IF s = 1 THEN -1 ELSE 1) * x * (c * 128)
        /\ Exact(b, base) = (IF t = 1 THEN -1 ELSE 1) * y * 128
    BY <1>3, Zenon DEF Exact
  <1>5. Magnitude(s, t, k, x, y) = IF s # t THEN x * c - y ELSE x * c + y BY Zenon DEF Magnitude
  <1> HIDE DEF s, t, x, y, c
  <1>6. x * c \in Int /\ x * (c * 128) = (x * c) * 128 BY <1>1, <1>2
  <1>7. Exact(a, base) = (IF s = 1 THEN -1 ELSE 1) * ((x * c) * 128)
    <2>1. Exact(a, base) = IF s = 1 THEN -(x * (c * 128)) ELSE x * (c * 128) BY <1>1, <1>2, <1>4
    <2>2. QED BY <1>6, <2>1
  <1> DEFINE X == x * c
  <1> HIDE DEF X
  <1>8. X \in Int /\ Exact(a, base) = (IF s = 1 THEN -1 ELSE 1) * (X * 128)
        /\ Magnitude(s, t, k, x, y) = IF s # t THEN X - y ELSE X + y
    BY <1>5, <1>6, <1>7 DEF X
  <1>9. Exact(a, base) + Exact(b, base) = Signed(s, 128 * Magnitude(s, t, k, x, y))
    BY <1>1, <1>4, <1>8 DEF Signed
  <1>10. QED BY <1>9 DEF s, t, x, y

(* An exact value is a number.                                             *)
LEMMA ExactType ==
  ASSUME NEW v \in Word, NEW base \in Int, exponent(v) - base \in Nat
  PROVE  Exact(v, base) \in Int
  <1>1. 2^(exponent(v) - base) \in Nat BY Powers
  <1>2. mantissa(v) \in Int BY FieldTypes
  <1> DEFINE x == 2^(exponent(v) - base)
             m == mantissa(v)
  <1>3. Exact(v, base) = (IF sign(v) = 1 THEN -1 ELSE 1) * (128 + m) * x BY Zenon DEF Exact
  <1> HIDE DEF x, m
  <1>4. QED BY <1>1, <1>2, <1>3 DEF x, m

(* The ordered operands' sum, cut, is the cut of the exact sum.            *)
LEMMA OrderedCut ==
  ASSUME NEW a \in Word, NEW b \in Word, NEW k \in 0 .. 14, NEW base \in Nat \ {0}, NEW r,
         exponent(b) = base + 7, exponent(a) = base + 7 + k, base + 7 + k <= 253,
         k = 0 => mantissa(a) >= mantissa(b),
         r = CutMagnitude(sign(a), sign(b), exponent(a), k, 128 + mantissa(a), 128 + mantissa(b))
  PROVE  IsCutSum(r, Exact(a, base) + Exact(b, base), base)
  <1> DEFINE s == sign(a)
             t == sign(b)
             e == exponent(a)
             x == 128 + mantissa(a)
             y == 128 + mantissa(b)
             n == Magnitude(s, t, k, x, y)
             sum == Exact(a, base) + Exact(b, base)
  <1>1. s \in 0 .. 1 /\ t \in 0 .. 1 /\ x \in 128 .. 255 /\ y \in 128 .. 255 /\ e \in Int
        /\ (k = 0 => x >= y)
    BY FieldTypes
  <1>2. sum = Signed(s, 128 * n)
    <2> HIDE DEF s, t, e, x, y, n, sum
    <2>1. base \in Int OBVIOUS
    <2>2. Exact(a, base) + Exact(b, base)
            = Signed(sign(a), 128 * Magnitude(sign(a), sign(b), k, 128 + mantissa(a), 128 + mantissa(b)))
      BY <2>1, ExactOrdered
    <2>3. QED BY <2>2, Zenon DEF s, t, x, y, n, sum
  <1>3. r = IF n = 0 THEN make_zero(0) ELSE Cut(s, e, n * 2^(16 - k)) BY Zenon DEF CutMagnitude
  <1>4. e = base + 7 + k OBVIOUS
  <1> HIDE DEF s, t, e, x, y, n, sum
  <1>5. n \in Nat /\ n * 2^(16 - k) < 2^25 /\ (k >= 2 => n * 2^(16 - k) >= 2^22)
    <2>1. MagnitudeFits(s, t, k, x, y) BY <1>1, MagnitudeIs, Zenon
    <2>2. QED BY <2>1, Zenon DEF MagnitudeFits, n
  <1>6. CASE n = 0
    <2>1. sum = 0
      <3> DEFINE n1 == 128 * n
      <3>1. n1 = 0 /\ n1 \in Int /\ sum = Signed(s, n1) BY <1>2, <1>6
      <3> HIDE DEF n1
      <3>2. QED BY <3>1 DEF Signed
    <2>2. r = make_zero(0) BY <1>3, <1>6
    <2>3. QED BY <2>1, <2>2, Zenon DEF IsCutSum, sum
  <1>7. CASE n # 0
    <2>1. PICK q \in 128 .. 255, w \in 0 .. 22 :
             /\ Cut(s, e, n * 2^(16 - k)) = PackRange(s, e + w - k - 7, q - 128)
             /\ q * 2^w <= 128 * n /\ 128 * n < (q + 1) * 2^w
             /\ w <= k + 8
      <3>1. n \in Nat \ {0} BY <1>5, <1>7
      <3>2. CutsTo(s, e, k, n) BY <1>1, <1>5, <3>1, CutIs
      <3>3. QED BY <3>2, Zenon DEF CutsTo
    <2>2. e + w - k - 7 = base + w /\ base + w <= 254 BY <1>4, <2>1
    <2>3. r = PackRange(s, base + w, q - 128)
      <3>1. r = PackRange(s, e + w - k - 7, q - 128) BY <1>3, <1>7, <2>1, Zenon
      <3>2. QED BY <2>2, <3>1, Zenon
    <2> DEFINE n1 == 128 * n
    <2>4. n1 \in Nat \ {0} BY <1>5, <1>7
    <2>5. q * 2^w <= n1 /\ n1 < (q + 1) * 2^w BY <2>1
    <2>6. sum = Signed(s, n1) BY <1>2
    <2> HIDE DEF n1
    <2>7. IsCutSum(PackRange(s, base + w, q - 128), Signed(s, n1), base)
      BY <1>1, <2>1, <2>2, <2>4, <2>5, PackedCut, ZenonT(60)
    <2>8. QED BY <2>3, <2>6, <2>7, Zenon DEF sum
  <1>8. QED BY <1>6, <1>7

(* bf16_add adds normal numbers by alignment.                              *)
LEMMA AddAligns ==
  ASSUME NEW a \in Word, NEW b \in Word, NEW ub,
         exponent(a) \in 8 .. 253, exponent(b) \in 8 .. 253
  PROVE  bf16_add(a, b, FALSE, ub)
           = AlignedSum(sign(a), exponent(a), mantissa(a), sign(b), exponent(b), mantissa(b), ub)
  <1>1. exponent(a) # 0 /\ exponent(a) # 255 /\ exponent(b) # 0 /\ exponent(b) # 255 OBVIOUS
  <1>2. ~is_nan(a) /\ ~is_nan(b) /\ ~is_inf(a) /\ ~is_inf(b) /\ ~is_zero(a) /\ ~is_zero(b)
    BY <1>1, Zenon DEF is_nan, is_inf, is_zero
  <1>3. QED BY <1>2, Zenon DEF bf16_add

(* bf16_add returns the exact sum, cut towards zero.                       *)
LEMMA AddIsCut ==
  ASSUME NEW a \in Word, NEW b \in Word, NEW ub, NEW base \in Int,
         exponent(a) \in 8 .. 253, exponent(b) \in 8 .. 253,
         exponent(a) - exponent(b) \in -14 .. 14,
         base = (IF exponent(a) < exponent(b) THEN exponent(a) ELSE exponent(b)) - 7
  PROVE  IsCutSum(bf16_add(a, b, FALSE, ub), Exact(a, base) + Exact(b, base), base)
  <1> DEFINE r == bf16_add(a, b, FALSE, ub)
             sa == sign(a)
             ea == exponent(a)
             ma == mantissa(a)
             sb == sign(b)
             eb == exponent(b)
             mb == mantissa(b)
  <1>1. /\ sa \in 0 .. 1 /\ ea \in 0 .. 255 /\ ma \in 0 .. 127
        /\ sb \in 0 .. 1 /\ eb \in 0 .. 255 /\ mb \in 0 .. 127
    BY FieldTypes
  <1>2. r = AlignedSum(sa, ea, ma, sb, eb, mb, ub) BY AddAligns
  <1>3. ea \in 8 .. 253 /\ eb \in 8 .. 253 /\ ea - eb \in -14 .. 14
        /\ base = (IF ea < eb THEN ea ELSE eb) - 7
    OBVIOUS
  <1> HIDE DEF r, sa, ea, ma, sb, eb, mb
  <1>4. base \in Nat \ {0} BY <1>3
  <1>5. CASE ea < eb \/ (ea = eb /\ ma < mb)
    <2> DEFINE k == eb - ea
               x == 128 + mb
               y == 128 + ma
    <2>1. InOrder(sa, ea, ma, sb, eb, mb, sb, sa, eb, k, x, y) BY <1>5, Zenon DEF InOrder
    <2>2. k \in 0 .. 14 /\ x \in 128 .. 255 /\ y \in 128 .. 255 /\ (k = 0 => x >= y) /\ eb \in Int
          /\ (k = 0 => mb >= ma) /\ ea = base + 7 /\ eb = base + 7 + k /\ base + 7 + k <= 253
      BY <1>1, <1>3, <1>5
    <2> HIDE DEF k, x, y
    <2>3. r = CutMagnitude(sb, sa, eb, k, x, y)
      <3>1. Operands(sa, ea, ma, sb, eb, mb) BY <1>1, Zenon DEF Operands
      <3>2. k \in 0 .. 14 BY <2>2
      <3>3. AlignedSum(sa, ea, ma, sb, eb, mb, ub) = CutMagnitude(sb, sa, eb, k, x, y)
        BY <2>1, <3>1, <3>2, AlignedSumIs
      <3>4. QED BY <1>2, <3>3, Zenon
    <2>4. IsCutSum(r, Exact(b, base) + Exact(a, base), base)
      BY <1>4, <2>2, <2>3, OrderedCut, ZenonT(60) DEF x, y, sa, ea, ma, sb, eb, mb
    <2>5. Exact(b, base) + Exact(a, base) = Exact(a, base) + Exact(b, base)
      <3>1. ea - base \in Nat /\ eb - base \in Nat BY <1>4, <2>2
      <3>2. Exact(a, base) \in Int /\ Exact(b, base) \in Int BY <3>1, ExactType DEF ea, eb
      <3>3. QED BY <3>2
    <2>6. QED BY <2>4, <2>5, Zenon DEF r
  <1>6. CASE ~(ea < eb \/ (ea = eb /\ ma < mb))
    <2> DEFINE k == ea - eb
               x == 128 + ma
               y == 128 + mb
    <2>1. InOrder(sa, ea, ma, sb, eb, mb, sa, sb, ea, k, x, y) BY <1>6, Zenon DEF InOrder
    <2>2. k \in 0 .. 14 /\ x \in 128 .. 255 /\ y \in 128 .. 255 /\ (k = 0 => x >= y) /\ ea \in Int
          /\ (k = 0 => ma >= mb) /\ eb = base + 7 /\ ea = base + 7 + k /\ base + 7 + k <= 253
      BY <1>1, <1>3, <1>6
    <2> HIDE DEF k, x, y
    <2>3. r = CutMagnitude(sa, sb, ea, k, x, y)
      <3>1. Operands(sa, ea, ma, sb, eb, mb) BY <1>1, Zenon DEF Operands
      <3>2. k \in 0 .. 14 BY <2>2
      <3>3. AlignedSum(sa, ea, ma, sb, eb, mb, ub) = CutMagnitude(sa, sb, ea, k, x, y)
        BY <2>1, <3>1, <3>2, AlignedSumIs
      <3>4. QED BY <1>2, <3>3, Zenon
    <2>4. IsCutSum(r, Exact(a, base) + Exact(b, base), base)
      BY <1>4, <2>2, <2>3, OrderedCut, ZenonT(60) DEF x, y, sa, ea, ma, sb, eb, mb
    <2>5. QED BY <2>4, Zenon DEF r
  <1>7. QED BY <1>5, <1>6

(* custom/riscv/BF16.cpp, bf16_add: whatever the operands and whatever the *)
(* build makes of an over-wide shift, while the exponents are at most 14   *)
(* apart the sum is the exact one cut towards zero.                        *)
THEOREM AdditionCuts == SweepSpec => []AddTruncates
  <1>1. IndexIsWord => AddTruncates
    <2> SUFFICES ASSUME word \in Word, NEW p \in Partners, NEW ub \in ShiftOutcomes,
                        exponent(word) \in 8 .. 253, exponent(p) \in 8 .. 253,
                        Abs(exponent(word) - exponent(p)) <= 14
                 PROVE  LET base == (IF exponent(word) < exponent(p) THEN exponent(word) ELSE exponent(p)) - 7
                        IN  IsCutSum(bf16_add(word, p, FALSE, ub), Exact(word, base) + Exact(p, base), base)
      BY Zenon DEF IndexIsWord, AddTruncates, IsCutSum
    <2> DEFINE base == (IF exponent(word) < exponent(p) THEN exponent(word) ELSE exponent(p)) - 7
    <2>1. p \in Word BY SweepAssumption
    <2>2. exponent(word) - exponent(p) \in -14 .. 14 /\ base \in Int
      <3> DEFINE e == exponent(word)
                 f == exponent(p)
      <3>1. e \in 8 .. 253 /\ f \in 8 .. 253 /\ Abs(e - f) <= 14 /\ base = (IF e < f THEN e ELSE f) - 7
        OBVIOUS
      <3> HIDE DEF e, f, base
      <3>2. e - f \in -14 .. 14 /\ base \in Int BY <3>1 DEF Abs
      <3>3. QED BY <3>2 DEF e, f
    <2>3. QED BY <2>1, <2>2, AddIsCut, Zenon
  <1>2. QED BY <1>1, SweepWord, PTL

-----------------------------------------------------------------------------
(***************************************************************************)
(* Reciprocal.                                                             *)
(***************************************************************************)
(* An entry of the table is the reciprocal of its significand, cut.        *)
LEMMA RecipEntry ==
  ASSUME NEW d \in 129 .. 255, NEW q, q = 32768 \div d
  PROVE  q \in 128 .. 254 /\ d * q \in 32769 - d .. 32768
  <1>1. q \in Int /\ q * d <= 32768 /\ 32768 < (q + 1) * d OBVIOUS
  <1>2. q >= 128
    <2>1. CASE q <= 127
      <3>1. (q + 1) * d <= 128 * d BY <1>1, <2>1
      <3>2. QED BY <1>1, <3>1
    <2>2. QED BY <1>1, <2>1
  <1>3. q <= 254
    <2>1. CASE q >= 255
      <3>1. q * d >= 255 * d BY <1>1, <2>1
      <3>2. QED BY <1>1, <3>1
    <2>2. QED BY <1>1, <2>1
  <1>4. d * q \in 32769 - d .. 32768
    <2> DEFINE x == q * d
    <2>1. x \in Int /\ d * q = x /\ (q + 1) * d = x + d BY <1>1
    <2>2. x <= 32768 /\ 32768 < x + d BY <1>1, <2>1
    <2> HIDE DEF x
    <2>3. QED BY <2>1, <2>2
  <1>5. QED BY <1>1, <1>2, <1>3, <1>4

(* bf16_mul on normal numbers: the product of the significands, cut.       *)
PackedProduct(s, e, p) ==
    IF p >= 2^15 THEN PackRange(s, e + 1, (p \div 2^8) % 128) ELSE PackRange(s, e, (p \div 2^7) % 128)

LEMMA MulIs ==
  ASSUME NEW a \in Word, NEW b \in Word, exponent(a) \in 1 .. 254, exponent(b) \in 1 .. 254
  PROVE  bf16_mul(a, b) = PackedProduct((sign(a) + sign(b)) % 2, exponent(a) + exponent(b) - BIAS,
                                  (128 + mantissa(a)) * (128 + mantissa(b)))
  <1>1. exponent(a) # 0 /\ exponent(a) # 255 /\ exponent(b) # 0 /\ exponent(b) # 255 OBVIOUS
  <1>2. ~is_nan(a) /\ ~is_nan(b) /\ ~is_inf(a) /\ ~is_inf(b)
    BY <1>1, Zenon DEF is_nan, is_inf
  <1>3. QED BY <1>1, <1>2, Zenon DEF bf16_mul, PackedProduct

(* A product of significands near 1, and 1 itself.                         *)
LEMMA ProductNearOne ==
  /\ PackedProduct(0, 127, 16384) \in ONE - 2 .. ONE
  /\ \A p \in 32514 .. 32768 : PackedProduct(0, 126, p) \in ONE - 2 .. ONE
  <1>1. PackedProduct(0, 127, 16384) \in ONE - 2 .. ONE BY DEF PackedProduct, PackRange, Pack, ONE
  <1>2. PackedProduct(0, 126, 32768) \in ONE - 2 .. ONE BY DEF PackedProduct, PackRange, Pack, ONE
  <1>3. ASSUME NEW p \in 32514 .. 32767 PROVE PackedProduct(0, 126, p) \in ONE - 2 .. ONE
    <2>1. ~(p >= 2^15) /\ (p \div 2^7) % 128 \in 126 .. 127 OBVIOUS
    <2>2. PackedProduct(0, 126, p) = PackRange(0, 126, (p \div 2^7) % 128) BY <2>1 DEF PackedProduct
    <2>3. \A v \in 126 .. 127 : PackRange(0, 126, v) \in ONE - 2 .. ONE BY DEF PackRange, Pack, ONE
    <2>4. QED BY <2>1, <2>2, <2>3
  <1>4. \A p \in 32514 .. 32768 : p = 32768 \/ p \in 32514 .. 32767 OBVIOUS
  <1>5. QED BY <1>1, <1>2, <1>3, <1>4

(* custom/riscv/BF16.cpp, bf16_reciprocal: x * (1/x) is 1 within two units *)
(* in the last place, for every normal x whose reciprocal is normal.       *)
THEOREM ReciprocalWithinTwo == SweepSpec => []ReciprocalAccurate
  <1>1. IndexIsWord => ReciprocalAccurate
    <2> SUFFICES ASSUME word \in Word, exponent(word) \in 1 .. 252
                 PROVE  bf16_mul(word, bf16_reciprocal(word)) \in ONE - 2 .. ONE
      BY Zenon DEF IndexIsWord, ReciprocalAccurate
    <2> DEFINE s == sign(word)
               e == exponent(word)
               m == mantissa(word)
               r == bf16_reciprocal(word)
               lut == recip_lut(m)
    <2>1. s \in 0 .. 1 /\ e \in 1 .. 252 /\ m \in 0 .. 127 BY FieldTypes
    <2>2. r = PackRange(s, exponent(lut) + BIAS - e, mantissa(lut))
      <3>1. e # 0 /\ e # 255 BY <2>1
      <3>2. ~is_nan(word) /\ ~is_inf(word) BY <3>1, Zenon DEF is_nan, is_inf
      <3>3. QED BY <3>1, <3>2, Zenon DEF bf16_reciprocal
    <2> HIDE DEF s, e, m, r, lut
    <2>3. ASSUME NEW f \in 1 .. 254, NEW q \in 0 .. 127, r = PackRange(s, f, q)
          PROVE  bf16_mul(word, r) = PackedProduct(0, e + f - BIAS, (128 + m) * (128 + q))
      <3>1. f \in 0 .. 255 /\ ~(f >= 255) /\ ~(f <= 0) OBVIOUS
      <3>2. r = Pack(s, f, q) BY <2>3, <3>1, Zenon DEF PackRange
      <3>3. sign(Pack(s, f, q)) = s /\ exponent(Pack(s, f, q)) = f /\ mantissa(Pack(s, f, q)) = q
        BY <2>1, <3>1, FieldsOfPack, Zenon
      <3>4. sign(r) = s /\ exponent(r) = f /\ mantissa(r) = q BY <3>2, <3>3, Zenon
      <3>5. r \in Word BY <2>1, <3>2 DEF Pack, Word
      <3>6. e \in 1 .. 254 /\ exponent(r) \in 1 .. 254 BY <2>1, <3>4
      <3>7. bf16_mul(word, r) = PackedProduct((s + sign(r)) % 2, e + exponent(r) - BIAS,
                                        (128 + m) * (128 + mantissa(r)))
        BY <3>5, <3>6, MulIs DEF s, e, m
      <3>8. (s + s) % 2 = 0 BY <2>1
      <3>9. QED BY <3>4, <3>7, <3>8, Zenon
    <2>4. CASE m = 0
      <3>1. lut = ONE BY <2>4 DEF lut, recip_lut
      <3>2. exponent(ONE) = 127 /\ mantissa(ONE) = 0 BY DEF exponent, mantissa, ONE
      <3> DEFINE f == 254 - e
      <3>3. f \in 1 .. 254 /\ e + f - BIAS = 127 /\ 0 \in 0 .. 127 /\ 127 + BIAS - e = f BY <2>1 DEF BIAS
      <3>4. (128 + m) * (128 + 0) = 16384 BY <2>4
      <3> HIDE DEF f
      <3>5. r = PackRange(s, f, 0) BY <2>2, <3>1, <3>2, <3>3, Zenon
      <3>6. bf16_mul(word, r) = PackedProduct(0, e + f - BIAS, (128 + m) * (128 + 0)) BY <2>3, <3>3, <3>5, Zenon
      <3>7. bf16_mul(word, r) = PackedProduct(0, 127, 16384) BY <3>3, <3>4, <3>6
      <3>8. QED BY <3>7, ProductNearOne DEF r
    <2>5. CASE m # 0
      <3> DEFINE d == 128 + m
                 L == 32768 \div d
                 q == L - 128
                 f == 253 - e
      <3>1. lut = Pack(0, 126, q)
        <4> HIDE DEF f
        <4>1. QED BY <2>5 DEF lut, recip_lut
      <3>2. d \in 129 .. 255 BY <2>1, <2>5
      <3> HIDE DEF d
      <3>3. L \in 128 .. 254 /\ d * L \in 32769 - d .. 32768 BY <3>2, RecipEntry, SMTT(30)
      <3> HIDE DEF L
      <3>4. q \in 0 .. 127 /\ 128 + q = L BY <3>3
      <3>5. f \in 1 .. 254 /\ e + f - BIAS = 126 /\ 126 + BIAS - e = f BY <2>1 DEF BIAS
      <3> HIDE DEF q, f
      <3>6. r = PackRange(s, f, q)
        <4>1. q \in 0 .. 127 BY <3>4
        <4>2. exponent(Pack(0, 126, q)) = 126 /\ mantissa(Pack(0, 126, q)) = q
          BY <4>1 DEF exponent, mantissa, Pack
        <4>3. exponent(lut) + BIAS - e = f /\ mantissa(lut) = q BY <3>1, <3>5, <4>2, Zenon
        <4>4. QED BY <2>2, <4>3, Zenon
      <3>7. bf16_mul(word, r) = PackedProduct(0, e + f - BIAS, (128 + m) * (128 + q)) BY <2>3, <3>4, <3>5, <3>6, Zenon
      <3>8. bf16_mul(word, r) = PackedProduct(0, 126, d * L) BY <3>4, <3>5, <3>7, Zenon DEF d
      <3>9. d * L \in 32514 .. 32768
        <4> DEFINE x == d * L
        <4>1. x \in 32769 - d .. 32768 BY <3>3
        <4> HIDE DEF x
        <4>2. x \in 32514 .. 32768 BY <3>2, <4>1
        <4>3. QED BY <4>2 DEF x
      <3>10. QED BY <3>8, <3>9, ProductNearOne DEF r
    <2>6. QED BY <2>4, <2>5
  <1>2. QED BY <1>1, SweepWord, PTL

-----------------------------------------------------------------------------
(***************************************************************************)
(* The EXP instruction.                                                    *)
(***************************************************************************)
(* The two quadratics: the mantissa grows with the fraction, over the      *)
(* joint between them as well.                                             *)
LEMMA LowHalf ==
  ASSUME NEW n \in 0 .. 63
  PROVE  PolyMantissa(n) = ((n + 363) * n) \div 512 /\ PolyMantissa(n) \in 0 .. 52
  <1> DEFINE x == (n + 363) * n
  <1>1. x \in Nat /\ x <= 26838
    <2>1. n * n <= 63 * n OBVIOUS
    <2>2. x = n * n + 363 * n /\ n * n \in Nat OBVIOUS
    <2> HIDE DEF x
    <2>3. QED BY <2>1, <2>2
  <1>2. (n + 363) * (8 * n) = 8 * x OBVIOUS
  <1>3. ~(n >= 64) /\ (n + 363) % 2^9 = n + 363 /\ (2 * n * 4) % 2^11 = 8 * n
    <2>1. 2^9 = 512 /\ 2^11 = 2048 OBVIOUS
    <2>2. 2 * n * 4 = 8 * n OBVIOUS
    <2> HIDE DEF x
    <2>3. QED BY <2>1, <2>2
  <1> HIDE DEF x
  <1>4. PolyMantissa(n) = ((((8 * x) \div 2^12) % 2^8) % 2^7)
    BY <1>2, <1>3, ZenonT(30) DEF PolyMantissa
  <1>5. QED BY <1>1, <1>4 DEF x

LEMMA HighHalf ==
  ASSUME NEW n \in 64 .. 127
  PROVE  /\ PolyMantissa(n) = 127 - (((n + 278) * (255 - 2 * n)) * 7) \div 4096
         /\ PolyMantissa(n) \in 53 .. 127
  <1> DEFINE x == (n + 278) * (255 - 2 * n)
  <1>1. x \in Nat /\ x <= 43434
    <2> DEFINE y == n * n
    <2>1. y \in Nat /\ 64 * n <= y OBVIOUS
    <2>2. x = 70890 - 301 * n - 2 * y OBVIOUS
    <2>3. 255 - 2 * n \in 1 .. 127 /\ n + 278 \in 342 .. 405 OBVIOUS
    <2>4. x \in Nat BY <2>3
    <2> HIDE DEF x, y
    <2>5. n >= 64 /\ n \in Int OBVIOUS
    <2>6. y >= 4096 BY <2>1, <2>5
    <2>7. x <= 43434 BY <2>1, <2>2, <2>5, <2>6
    <2>8. QED BY <2>4, <2>7
  <1>2. (n + 278) * ((255 - 2 * n) * 7) = x * 7 OBVIOUS
  <1>3. n >= 64 /\ (n + 278) % 2^9 = n + 278 /\ ((255 - 2 * n) * 7) % 2^11 = (255 - 2 * n) * 7
    <2>1. 2^9 = 512 /\ 2^11 = 2048 OBVIOUS
    <2> HIDE DEF x
    <2>2. QED BY <2>1
  <1> HIDE DEF x
  <1>4. PolyMantissa(n) = ((127 - (((x * 7) \div 2^12) % 2^8)) % 2^7)
    BY <1>2, <1>3, ZenonT(30) DEF PolyMantissa
  <1>5. QED BY <1>1, <1>4 DEF x

LEMMA PolyGrows ==
  ASSUME NEW m \in 0 .. 127, NEW n \in 0 .. 127, m <= n
  PROVE  PolyMantissa(m) <= PolyMantissa(n) /\ PolyMantissa(m) \in 0 .. 127
  <1>1. CASE n <= 63
    <2>1. (m + 363) * m <= (n + 363) * n
      <3>1. m * m <= n * n OBVIOUS
      <3>2. QED BY <3>1
    <2> DEFINE x == (m + 363) * m
               y == (n + 363) * n
    <2>2. x \in Int /\ y \in Int OBVIOUS
    <2> HIDE DEF x, y
    <2>3. x \div 512 <= y \div 512 BY <2>1, <2>2 DEF x, y
    <2>4. PolyMantissa(m) = x \div 512 /\ PolyMantissa(n) = y \div 512 /\ PolyMantissa(m) \in 0 .. 52
      BY <1>1, LowHalf DEF x, y
    <2>5. QED BY <2>3, <2>4
  <1>2. CASE m >= 64
    <2> DEFINE x == (m + 278) * (255 - 2 * m)
               y == (n + 278) * (255 - 2 * n)
    <2>1. x \in Int /\ y \in Int /\ y <= x
      <3>1. x = 70890 - 301 * m - 2 * (m * m) /\ y = 70890 - 301 * n - 2 * (n * n) OBVIOUS
      <3>2. m * m <= n * n /\ m * m \in Int /\ n * n \in Int OBVIOUS
      <3> HIDE DEF x, y
      <3>3. QED BY <3>1, <3>2
    <2> HIDE DEF x, y
    <2>2. (y * 7) \div 4096 <= (x * 7) \div 4096 BY <2>1
    <2>3. PolyMantissa(m) = 127 - (x * 7) \div 4096 /\ PolyMantissa(n) = 127 - (y * 7) \div 4096
          /\ PolyMantissa(m) \in 53 .. 127
      BY <1>2, HighHalf DEF x, y
    <2>4. QED BY <2>1, <2>2, <2>3
  <1>3. CASE m <= 63 /\ n >= 64
    <2>1. PolyMantissa(m) \in 0 .. 52 BY <1>3, LowHalf
    <2>2. PolyMantissa(n) \in 53 .. 127 BY <1>3, HighHalf
    <2>3. QED BY <2>1, <2>2
  <1>4. QED BY <1>1, <1>2, <1>3

(* The result for the fixed-point exponent t: its integer part in the      *)
(* exponent, its fraction through the quadratics.                          *)
Curve(t) == (t \div 128) * 128 + PolyMantissa(t % 128)

LEMMA CurveGrows ==
  ASSUME NEW t \in Nat, NEW u \in Nat, t <= u
  PROVE  Curve(t) <= Curve(u) /\ Curve(t) \in Nat /\ Curve(t) <= t + 127
  <1> DEFINE i == t \div 128
             j == u \div 128
             m == t % 128
             n == u % 128
  <1>1. /\ i \in Nat /\ j \in Nat /\ m \in 0 .. 127 /\ n \in 0 .. 127
        /\ t = i * 128 + m /\ u = j * 128 + n
    OBVIOUS
  <1> HIDE DEF i, j, m, n
  <1>2. PolyMantissa(m) \in 0 .. 127 /\ PolyMantissa(n) \in 0 .. 127
    <2>1. m <= m /\ n <= n BY <1>1
    <2>2. PolyMantissa(m) \in 0 .. 127 BY <1>1, <2>1, PolyGrows, Zenon
    <2>3. PolyMantissa(n) \in 0 .. 127 BY <1>1, <2>1, PolyGrows, Zenon
    <2>4. QED BY <2>2, <2>3
  <1>3. Curve(t) = i * 128 + PolyMantissa(m) /\ Curve(u) = j * 128 + PolyMantissa(n)
    BY DEF Curve, i, j, m, n
  <1>4. CASE i = j
    <2>1. m <= n BY <1>1, <1>4
    <2>2. PolyMantissa(m) <= PolyMantissa(n) BY <1>1, <2>1, PolyGrows, Zenon
    <2>3. QED BY <1>1, <1>2, <1>3, <1>4, <2>2, SMTT(30)
  <1>5. CASE i # j
    <2>1. i + 1 <= j BY <1>1, <1>5
    <2>2. QED BY <1>1, <1>2, <1>3, <2>1, SMTT(30)
  <1>6. QED BY <1>4, <1>5

(* The fraction never carries into the integer part: below the largest     *)
(* exponent the result stays below infinity.                               *)
LEMMA CurveNoCarry ==
  ASSUME NEW t \in Nat
  PROVE  \E i \in Nat : i = t \div 128 /\ Curve(t) <= i * 128 + 127
  <1> DEFINE i == t \div 128
             r == t % 128
  <1>1. i \in Nat /\ r \in 0 .. 127 OBVIOUS
  <1>2. Curve(t) = i * 128 + PolyMantissa(r) BY DEF Curve
  <1> HIDE DEF r
  <1>3. r <= r BY <1>1
  <1>4. PolyMantissa(r) \in 0 .. 127 BY <1>1, <1>3, PolyGrows, Zenon
  <1>5. Curve(t) <= i * 128 + 127
    <2> HIDE DEF i
    <2>1. QED BY <1>1, <1>2, <1>4
  <1>6. QED BY <1>1, <1>5

LEMMA CurveFinite ==
  ASSUME NEW t \in Nat, t <= 32639
  PROVE  Curve(t) <= 32640
  <1>1. PICK i \in Nat : i = t \div 128 /\ Curve(t) <= i * 128 + 127 BY CurveNoCarry
  <1>2. i <= 254 BY <1>1
  <1>3. t <= t /\ Curve(t) \in Nat BY CurveGrows
  <1>4. QED BY <1>1, <1>2, <1>3

LEMMA CurveAtZero == Curve(16256) = ONE
  <1>1. 0 \in 0 .. 63 /\ (0 + 363) * 0 = 0 /\ 0 \div 512 = 0 OBVIOUS
  <1>2. PolyMantissa(0) = 0 BY DEF PolyMantissa
  <1>3. 16256 \div 128 = 127 /\ 16256 % 128 = 0 OBVIOUS
  <1>4. QED BY <1>2, <1>3 DEF Curve, ONE

(* A significand p moved by the exponent u, and rounded to 7 fraction bits. *)
Moved(p, u) == IF u >= 0 THEN p * 2^u ELSE IF -u < 23 THEN p \div 2^(-u) ELSE 0

RoundedOff(n) == (n + 8192) \div 16384

LEMMA MovedType ==
  ASSUME NEW p \in Nat, NEW u \in Int, u <= 8
  PROVE  Moved(p, u) \in Nat /\ Moved(p, u) <= p * 256 /\ (u <= 5 => Moved(p, u) <= p * 32)
         /\ (u <= 6 => Moved(p, u) <= p * 64) /\ (u <= 7 => Moved(p, u) <= p * 128)
  <1>1. CASE u >= 0
    <2> DEFINE z == 2^u
    <2>1. z \in Nat \ {0}
      <3>1. u \in Nat BY <1>1
      <3>2. QED BY <3>1, Powers
    <2>2. z <= 256 /\ (u <= 5 => z <= 32) /\ (u <= 6 => z <= 64) /\ (u <= 7 => z <= 128)
      <3>1. u \in Nat /\ 8 \in Nat /\ 7 \in Nat /\ 6 \in Nat /\ 5 \in Nat BY <1>1
      <3>2. z <= 2^8 /\ (u <= 5 => z <= 2^5) /\ (u <= 6 => z <= 2^6) /\ (u <= 7 => z <= 2^7)
        BY <3>1, PowerOrder, Zenon
      <3> HIDE DEF z
      <3>3. QED BY <3>2
    <2>3. Moved(p, u) = p * z BY <1>1, Zenon DEF Moved
    <2> HIDE DEF z
    <2>4. \A c \in Nat : z <= c => p * z <= p * c BY <2>1
    <2>5. p * z \in Nat BY <2>1
    <2>6. QED BY <2>2, <2>3, <2>4, <2>5
  <1>2. CASE u < 0 /\ -u < 23
    <2> DEFINE z == 2^(-u)
    <2>1. z \in Nat \ {0}
      <3>1. -u \in Nat BY <1>2
      <3>2. QED BY <3>1, Powers
    <2>2. Moved(p, u) = p \div z
      <3>1. ~(u >= 0) BY <1>2
      <3>2. QED BY <1>2, <3>1, Zenon DEF Moved
    <2> HIDE DEF z
    <2> DEFINE q == p \div z
    <2>3. q \in Nat /\ q * z <= p BY <2>1
    <2> HIDE DEF q
    <2>4. q <= q * z BY <2>1, <2>3
    <2>5. q * z \in Nat BY <2>1, <2>3
    <2>6. q <= p BY <2>3, <2>4, <2>5
    <2>7. QED BY <2>2, <2>3, <2>6 DEF q
  <1>3. CASE u < 0 /\ ~(-u < 23)
    <2>1. ~(u >= 0) BY <1>3
    <2>2. Moved(p, u) = 0 BY <1>3, <2>1, Zenon DEF Moved
    <2>3. QED BY <2>2
  <1>4. QED BY <1>1, <1>2, <1>3

(* It grows with the significand, and from one binade to the next.         *)
LEMMA MovedGrows ==
  ASSUME NEW p \in Nat, NEW q \in Nat, NEW u \in Int, u <= 8
  PROVE  /\ p <= q => Moved(p, u) <= Moved(q, u)
         /\ p <= 2 * q /\ u <= 7 => Moved(p, u) <= Moved(q, u + 1)
  <1>1. p <= q => Moved(p, u) <= Moved(q, u)
    <2> SUFFICES ASSUME p <= q PROVE Moved(p, u) <= Moved(q, u) OBVIOUS
    <2>1. CASE u >= 0
      <3> DEFINE z == 2^u
      <3>1. z \in Nat \ {0}
        <4>1. u \in Nat BY <2>1
        <4>2. QED BY <4>1, Powers
      <3>2. Moved(p, u) = p * z /\ Moved(q, u) = q * z BY <2>1, Zenon DEF Moved
      <3> HIDE DEF z
      <3>3. p * z <= q * z BY <3>1
      <3>4. QED BY <3>2, <3>3, Zenon
    <2>2. CASE u < 0 /\ -u < 23
      <3> DEFINE z == 2^(-u)
      <3>1. z \in Nat \ {0}
        <4>1. -u \in Nat BY <2>2
        <4>2. QED BY <4>1, Powers
      <3>2. Moved(p, u) = p \div z /\ Moved(q, u) = q \div z
        <4>1. ~(u >= 0) BY <2>2
        <4>2. QED BY <2>2, <4>1, Zenon DEF Moved
      <3> HIDE DEF z
      <3>3. p \div z <= q \div z BY <3>1, QuotientGrows
      <3>4. QED BY <3>2, <3>3, Zenon
    <2>3. CASE u < 0 /\ ~(-u < 23)
      <3>1. ~(u >= 0) BY <2>3
      <3>2. Moved(p, u) = 0 /\ Moved(q, u) = 0 BY <2>3, <3>1, Zenon DEF Moved
      <3>3. QED BY <3>2
    <2>4. QED BY <2>1, <2>2, <2>3
  <1>2. p <= 2 * q /\ u <= 7 => Moved(p, u) <= Moved(q, u + 1)
    <2> SUFFICES ASSUME p <= 2 * q, u <= 7 PROVE Moved(p, u) <= Moved(q, u + 1) OBVIOUS
    <2>1. CASE u >= 0
      <3> DEFINE z == 2^u
                 y == 2^(u + 1)
      <3>1. z \in Nat \ {0} /\ y = 2 * z
        <4>1. u \in Nat BY <2>1
        <4>2. QED BY <4>1, Powers, PowerStep
      <3>2. Moved(p, u) = p * z /\ Moved(q, u + 1) = q * y
        <4>1. u + 1 >= 0 BY <2>1
        <4>2. QED BY <2>1, <4>1, Zenon DEF Moved
      <3> HIDE DEF z, y
      <3>3. p * z <= (2 * q) * z BY <3>1
      <3>4. (2 * q) * z = q * y BY <3>1
      <3>5. QED BY <3>2, <3>3, <3>4, Zenon
    <2>2. CASE u + 1 = 0
      <3>1. Moved(p, u) = p \div 2
        <4>1. ~(u >= 0) /\ -u < 23 /\ -u = 1 BY <2>2
        <4>2. Moved(p, u) = p \div 2^1 BY <4>1, Zenon DEF Moved
        <4>3. 2^1 = 2 OBVIOUS
        <4>4. QED BY <4>2, <4>3
      <3>2. Moved(q, u + 1) = q
        <4>1. u + 1 >= 0 BY <2>2
        <4>2. Moved(q, u + 1) = q * 2^0 BY <2>2, <4>1, Zenon DEF Moved
        <4>3. 2^0 = 1 OBVIOUS
        <4>4. QED BY <4>2, <4>3
      <3>3. QED BY <3>1, <3>2
    <2>3. CASE u + 1 < 0 /\ -u < 23
      <3> DEFINE k == -(u + 1)
                 y == 2^k
                 z == 2^(-u)
      <3>1. y \in Nat \ {0} /\ z = y * 2
        <4>1. k \in Nat /\ -u = k + 1 BY <2>3
        <4> HIDE DEF k
        <4>2. 2^(k + 1) = 2 * 2^k /\ 2^k \in Nat \ {0} BY <4>1, Powers, PowerStep
        <4>3. z = 2^(k + 1) BY <4>1, Zenon
        <4> HIDE DEF z
        <4>4. QED BY <4>2, <4>3
      <3>2. Moved(p, u) = p \div z /\ Moved(q, u + 1) = q \div y
        <4>1. ~(u >= 0) /\ ~(u + 1 >= 0) /\ -(u + 1) < 23 BY <2>3
        <4>2. QED BY <2>3, <4>1, Zenon DEF Moved
      <3> HIDE DEF k, z, y
      <3>3. p \div z <= (q * 2) \div z
        <4>1. p <= q * 2 /\ q * 2 \in Nat /\ z \in Nat \ {0} BY <3>1
        <4>2. QED BY <4>1, QuotientGrows
      <3>4. (q * 2) \div z = q \div y
        <4> DEFINE d == q \div y
        <4>1. d \in Int /\ d * y <= q /\ q < (d + 1) * y BY <3>1
        <4> HIDE DEF d
        <4>2. d * z = (d * y) * 2 /\ (d + 1) * z = ((d + 1) * y) * 2 /\ d * y \in Int /\ (d + 1) * y \in Int
          BY <3>1, <4>1
        <4>3. d * z <= q * 2 /\ q * 2 < (d + 1) * z /\ q * 2 \in Int /\ z \in Nat \ {0} BY <3>1, <4>1, <4>2
        <4>4. (q * 2) \div z = d BY <4>1, <4>3, QuotientIs
        <4>5. QED BY <4>4 DEF d
      <3>5. QED BY <3>2, <3>3, <3>4, Zenon
    <2>4. CASE u + 1 < 0 /\ ~(-u < 23)
      <3>1. ~(u >= 0) BY <2>4
      <3>2. Moved(p, u) = 0 BY <2>4, <3>1, Zenon DEF Moved
      <3>3. u + 1 \in Int /\ u + 1 <= 8 BY <2>4
      <3>4. Moved(q, u + 1) \in Nat BY <3>3, MovedType
      <3>5. QED BY <3>2, <3>4
    <2>5. QED BY <2>1, <2>2, <2>3, <2>4
  <1>3. QED BY <1>1, <1>2

(* |x| / ln 2 loses no bit before it is rounded, up to where EXP gives up. *)
Scaled(m, u) == RoundedOff(Moved((128 + m) * LN2_FLIP, u))

LEMMA ScaledIs ==
  ASSUME NEW x \in Word, exponent(x) <= 135, exponent(x) = 135 => mantissa(x) <= 5
  PROVE  /\ ScaledMagnitude(x) = Scaled(mantissa(x), exponent(x) - BIAS)
         /\ ScaledMagnitude(x) \in Nat /\ ScaledMagnitude(x) <= 49121
  <1> DEFINE m == mantissa(x)
             u == exponent(x) - BIAS
             p == (128 + m) * LN2_FLIP
             n == Moved(p, u)
  <1>1. m \in 0 .. 127 /\ u \in Int /\ u <= 8 /\ (u = 8 => m <= 5) BY FieldTypes DEF BIAS
  <1>2. p \in Nat /\ p <= 6027435 /\ (u = 8 => p <= 3143721) BY <1>1 DEF LN2_FLIP
  <1>3. ScaledMagnitude(x)
          = LET prod == p % 2^23
                shm == IF u >= 0
                       THEN (IF u < 30 THEN (prod % 2^(30 - u)) * 2^u ELSE 0)
                       ELSE (IF -u < 23 THEN prod \div 2^(-u) ELSE 0)
            IN  (shm \div 2^14 + ((shm \div 2^13) % 2)) % 2^16
    BY Zenon DEF ScaledMagnitude
  <1> HIDE DEF m, u, p
  <1>4. p % 2^23 = p BY <1>2
  <1>5. u >= 0 => p % 2^(30 - u) = p
    <2> SUFFICES ASSUME u >= 0 PROVE p % 2^(30 - u) = p OBVIOUS
    <2> DEFINE z == 2^(30 - u)
    <2>1. 30 - u \in Nat /\ 22 \in Nat /\ 23 \in Nat BY <1>1
    <2>2. z \in Nat \ {0} BY <2>1, Powers
    <2>3. (u <= 8 => 2^22 <= z) /\ (u <= 7 => 2^23 <= z)
      <3>1. (u <= 8 => 22 <= 30 - u) /\ (u <= 7 => 23 <= 30 - u) BY <1>1
      <3>2. QED BY <2>1, <3>1, PowerOrder, Zenon
    <2> HIDE DEF z
    <2>4. p < z BY <1>1, <1>2, <2>2, <2>3
    <2>5. QED BY <1>2, <2>2, <2>4 DEF z
  <1>6. (IF u >= 0
         THEN (IF u < 30 THEN ((p % 2^23) % 2^(30 - u)) * 2^u ELSE 0)
         ELSE (IF -u < 23 THEN (p % 2^23) \div 2^(-u) ELSE 0)) = n
    <2>1. u < 30 BY <1>1
    <2>2. QED BY <1>4, <1>5, <2>1, Zenon DEF Moved
  <1>7. n \in Nat /\ n <= 804792576
    <2>1. n \in Nat /\ n <= p * 256 /\ (u <= 7 => n <= p * 128) BY <1>1, <1>2, MovedType
    <2> HIDE DEF n
    <2>2. QED BY <1>1, <1>2, <2>1
  <1> HIDE DEF n
  <1>8. ScaledMagnitude(x) = (n \div 2^14 + ((n \div 2^13) % 2)) % 2^16 BY <1>3, <1>6, Zenon
  <1>9. (n \div 2^14 + ((n \div 2^13) % 2)) % 2^16 = RoundedOff(n) BY <1>7 DEF RoundedOff
  <1>10. RoundedOff(n) \in Nat /\ RoundedOff(n) <= 49121 BY <1>7 DEF RoundedOff
  <1>11. ScaledMagnitude(x) = RoundedOff(n) BY <1>8, <1>9
  <1>12. RoundedOff(n) = Scaled(mantissa(x), exponent(x) - BIAS) BY Zenon DEF Scaled, m, u, p, n
  <1>13. QED BY <1>10, <1>11, <1>12

(* It grows with the word, y following x.                                  *)
Follows(x, y) ==
    \/ exponent(y) = exponent(x) /\ mantissa(x) <= mantissa(y)
    \/ exponent(y) = exponent(x) + 1 /\ mantissa(y) = 0

LEMMA ScaledGrows ==
  ASSUME NEW x \in Word, NEW y \in Word, exponent(y) <= 135, exponent(y) = 135 => mantissa(y) <= 5,
         Follows(x, y)
  PROVE  ScaledMagnitude(x) <= ScaledMagnitude(y)
  <1> DEFINE d == exponent(x)
             e == exponent(y)
             m == mantissa(x)
             n == mantissa(y)
             u == d - BIAS
             v == e - BIAS
             p == (128 + m) * LN2_FLIP
             q == (128 + n) * LN2_FLIP
             a == Moved(p, u)
             b == Moved(q, v)
  <1>1. /\ d \in 0 .. 255 /\ e \in 0 .. 255 /\ m \in 0 .. 127 /\ n \in 0 .. 127
        /\ e <= 135 /\ (e = 135 => n <= 5) /\ ((e = d /\ m <= n) \/ (e = d + 1 /\ n = 0))
    BY FieldTypes DEF Follows
  <1>2. ScaledMagnitude(x) = RoundedOff(a) /\ ScaledMagnitude(y) = RoundedOff(b)
    <2>1. exponent(x) <= 135 /\ (exponent(x) = 135 => mantissa(x) <= 5)
      <3> HIDE DEF d, e, m, n
      <3>1. d <= 135 /\ (d = 135 => m <= 5) BY <1>1
      <3>2. QED BY <3>1 DEF d, m
    <2>2. ScaledMagnitude(x) = Scaled(mantissa(x), exponent(x) - BIAS)
      BY <2>1, ScaledIs
    <2>3. ScaledMagnitude(y) = Scaled(mantissa(y), exponent(y) - BIAS) BY ScaledIs
    <2>4. QED BY <2>2, <2>3, Zenon DEF Scaled
  <1> HIDE DEF d, e, m, n
  <1>3. /\ u \in Int /\ v \in Int /\ u <= 8 /\ v <= 8
        /\ (v = u /\ m <= n) \/ (v = u + 1 /\ n = 0)
    BY <1>1 DEF BIAS
  <1>4. p \in Nat /\ q \in Nat /\ (m <= n => p <= q) /\ (n = 0 => p <= 2 * q) BY <1>1 DEF LN2_FLIP
  <1> HIDE DEF u, v, p, q
  <1>5. a \in Nat /\ b \in Nat BY <1>3, <1>4, MovedType
  <1>6. a <= b
    <2>1. CASE v = u /\ m <= n
      <3>1. p <= q BY <1>4, <2>1
      <3>2. Moved(p, u) <= Moved(q, u) BY <1>3, <1>4, <3>1, MovedGrows
      <3>3. QED BY <2>1, <3>2
    <2>2. CASE v = u + 1 /\ n = 0
      <3>1. p <= 2 * q /\ u <= 7 BY <1>3, <1>4, <2>2
      <3>2. Moved(p, u) <= Moved(q, u + 1) BY <1>3, <1>4, <3>1, MovedGrows
      <3>3. QED BY <2>2, <3>2
    <2>3. QED BY <1>3, <2>1, <2>2
  <1> HIDE DEF a, b
  <1>7. QED BY <1>2, <1>5, <1>6 DEF RoundedOff

(* The end of EXP, from the scaled magnitude M on.                         *)
ExppOf(s, M) ==
    LET shm == sign_extend(IF s = 1 THEN -M ELSE M, 16)
        ne == sign_extend(sign_extend(shm \div 2^7, 9) + BIAS, 9)
    IN  IF ne >= 255 THEN (IF s = 1 THEN make_zero(0) ELSE make_inf(0))
        ELSE IF ne <= 0 THEN make_zero(0)
        ELSE Pack(0, ne, PolyMantissa(shm % 2^7))

LEMMA ExppIs ==
  ASSUME NEW x \in Word, exponent(x) # 0, exponent(x) # 255, ~too_large(x), ~too_small(x)
  PROVE  bf16_expp(x) = ExppOf(sign(x), ScaledMagnitude(x))
  <1>1. ~is_nan(x) /\ ~is_inf(x) BY Zenon DEF is_nan, is_inf
  <1>2. QED BY <1>1, Zenon DEF bf16_expp, ExppOf

(* A word with exponent e in 1..254 and a fraction is on the curve.        *)
LEMMA PackedCurve ==
  ASSUME NEW t \in Nat, t >= 128, t < 255 * 128
  PROVE  Pack(0, t \div 128, PolyMantissa(t % 128)) = Curve(t)
  <1> DEFINE i == t \div 128
             r == PolyMantissa(t % 128)
  <1>1. i \in Nat OBVIOUS
  <1>2. r \in 0 .. 127
    <2> DEFINE n == t % 128
    <2>1. n \in 0 .. 127 /\ n <= n OBVIOUS
    <2> HIDE DEF n
    <2>2. PolyMantissa(n) \in 0 .. 127 BY <2>1, PolyGrows, Zenon
    <2>3. QED BY <2>2 DEF n
  <1>3. Curve(t) = i * 128 + r BY Zenon DEF Curve
  <1> HIDE DEF i, r
  <1>4. QED BY <1>1, <1>2, <1>3 DEF Pack, i, r

LEMMA ExppUp ==
  ASSUME NEW M \in Nat, M <= 16383
  PROVE  ExppOf(0, M) = Curve(16256 + M)
  <1> DEFINE i == M \div 128
             t == 16256 + M
  <1>1. i \in Nat /\ i <= 127 OBVIOUS
  <1>2. sign_extend(M, 16) = M BY DEF sign_extend
  <1>3. sign_extend(i, 9) = i
    <2> HIDE DEF i
    <2>1. QED BY <1>1 DEF sign_extend
  <1>4. sign_extend(i + BIAS, 9) = i + 127
    <2> HIDE DEF i
    <2>1. QED BY <1>1 DEF sign_extend, BIAS
  <1>5. M \div 2^7 = i /\ M % 2^7 = t % 128 /\ i + 127 = t \div 128 OBVIOUS
  <1>6. t \in Nat /\ t >= 128 /\ t < 255 * 128 OBVIOUS
  <1>7. ExppOf(0, M)
          = IF i + 127 >= 255 THEN make_inf(0) ELSE IF i + 127 <= 0 THEN make_zero(0)
            ELSE Pack(0, i + 127, PolyMantissa(t % 128))
    <2> HIDE DEF i, t
    <2>1. QED BY <1>2, <1>3, <1>4, <1>5 DEF ExppOf
  <1> HIDE DEF i, t
  <1>8. ExppOf(0, M) = Pack(0, t \div 128, PolyMantissa(t % 128)) BY <1>1, <1>5, <1>7
  <1>9. Pack(0, t \div 128, PolyMantissa(t % 128)) = Curve(t) BY <1>6, PackedCurve
  <1>10. QED BY <1>8, <1>9 DEF t

LEMMA ExppDown ==
  ASSUME NEW M \in Nat, M <= 49121
  PROVE  ExppOf(1, M) = IF M <= 16128 THEN Curve(16256 - M) ELSE 0
  <1> DEFINE shm == sign_extend(-M, 16)
             i == shm \div 128
             ne == sign_extend(sign_extend(i, 9) + BIAS, 9)
  <1>1. ExppOf(1, M) = IF ne >= 255 THEN make_zero(0) ELSE IF ne <= 0 THEN make_zero(0)
                       ELSE Pack(0, ne, PolyMantissa(shm % 128))
    <2> HIDE DEF shm
    <2>1. shm \div 2^7 = i /\ shm % 2^7 = shm % 128 OBVIOUS
    <2> HIDE DEF i, ne
    <2>2. QED BY <2>1 DEF ExppOf, shm, ne
  <1>2. make_zero(0) = 0 BY DEF make_zero, Pack
  <1>3. CASE M <= 32768
    <2>1. shm = 0 - M BY <1>3 DEF sign_extend
    <2> HIDE DEF shm
    <2>2. i \in Int /\ i <= 0 /\ i >= 0 - 256 BY <1>3, <2>1
    <2>3. M <= 16128 => i >= 0 - 126 /\ shm % 128 = (16256 - M) % 128 /\ i + 127 = (16256 - M) \div 128
      BY <2>1
    <2>4. M > 16128 => i < 0 - 126 BY <2>1
    <2> HIDE DEF i
    <2>5. sign_extend(i, 9) = i BY <2>2 DEF sign_extend
    <2>6. sign_extend(i + BIAS, 9) = i + 127 BY <2>2 DEF sign_extend, BIAS
    <2>7. ne = i + 127 BY <2>5, <2>6
    <2> HIDE DEF ne
    <2>8. CASE M <= 16128
      <3> DEFINE t == 16256 - M
      <3>1. t \in Nat /\ t >= 128 /\ t < 255 * 128 BY <2>8
      <3>2. ne = t \div 128 /\ shm % 128 = t % 128 /\ ~(ne >= 255) /\ ~(ne <= 0) BY <2>2, <2>3, <2>7, <2>8
      <3> HIDE DEF t
      <3>3. ExppOf(1, M) = Pack(0, t \div 128, PolyMantissa(t % 128)) BY <1>1, <3>2
      <3>4. ExppOf(1, M) = Curve(t) BY <3>1, <3>3, PackedCurve
      <3>5. QED BY <2>8, <3>4 DEF t
    <2>9. CASE M > 16128
      <3>1. ne <= 0 BY <2>2, <2>4, <2>7, <2>9
      <3>2. QED BY <1>1, <1>2, <2>9, <3>1
    <2>10. QED BY <2>8, <2>9
  <1>4. CASE M > 32768
    <2>1. shm = 65536 - M BY <1>4 DEF sign_extend
    <2> HIDE DEF shm
    <2>2. i \in Int /\ i >= 128 /\ i <= 255 BY <1>4, <2>1
    <2> HIDE DEF i
    <2>3. sign_extend(i, 9) = i BY <2>2 DEF sign_extend
    <2>4. sign_extend(i + BIAS, 9) = IF i = 128 THEN 255 ELSE i + 127 - 512 BY <2>2 DEF sign_extend, BIAS
    <2>5. ne >= 255 \/ ne <= 0 BY <2>2, <2>3, <2>4
    <2> HIDE DEF ne
    <2>6. QED BY <1>1, <1>2, <1>4, <2>5
  <1>5. QED BY <1>3, <1>4

(* The words EXP does not saturate, and what the formula is on them.       *)
LEMMA PositiveIs ==
  ASSUME NEW x \in Word, x >= 128, x <= 17073
  PROVE  /\ bf16_expp(x) = Curve(16256 + ScaledMagnitude(x))
         /\ ScaledMagnitude(x) \in Nat /\ ScaledMagnitude(x) <= 16383
         /\ exponent(x) <= 135 /\ (exponent(x) = 135 => mantissa(x) <= 5)
  <1> DEFINE e == exponent(x)
             m == mantissa(x)
             M == ScaledMagnitude(x)
             p == (128 + m) * LN2_FLIP
             u == e - BIAS
             n == Moved(p, u)
  <1>1. sign(x) = 0 /\ e \in Int /\ e >= 1 /\ e <= 133 BY DEF Word, sign, exponent
  <1>2. m \in 0 .. 127 /\ (e = 133 => m <= 49) BY DEF Word, exponent, mantissa
  <1>3. ~too_large(x) /\ ~too_small(x) BY DEF Word, too_large, too_small
  <1> HIDE DEF e, m, M
  <1>4. bf16_expp(x) = ExppOf(sign(x), M)
    <2>1. exponent(x) # 0 /\ exponent(x) # 255 BY <1>1 DEF e
    <2>2. QED BY <1>3, <2>1, ExppIs DEF M
  <1>5. M = RoundedOff(n) /\ M \in Nat
    <2>1. exponent(x) <= 135 /\ (exponent(x) = 135 => mantissa(x) <= 5) BY <1>1 DEF e
    <2>2. M = Scaled(mantissa(x), exponent(x) - BIAS) /\ M \in Nat BY <2>1, ScaledIs DEF M
    <2> HIDE DEF p, u, n
    <2>3. Scaled(mantissa(x), exponent(x) - BIAS) = RoundedOff(n) BY DEF Scaled, n, p, u, e, m
    <2>4. QED BY <2>2, <2>3
  <1>6. p \in Nat /\ p <= 6027435 /\ (e = 133 => p <= 4183749) BY <1>2 DEF LN2_FLIP
  <1>7. u \in Int /\ u <= 6 /\ u <= 8 /\ (e # 133 => u <= 5) BY <1>1 DEF BIAS
  <1> HIDE DEF p, u
  <1>8. n \in Nat /\ n <= p * 64 /\ (u <= 5 => n <= p * 32) BY <1>6, <1>7, MovedType
  <1> HIDE DEF n
  <1>9. n <= 267759936 BY <1>6, <1>7, <1>8
  <1>10. M <= 16383 BY <1>5, <1>8, <1>9 DEF RoundedOff
  <1>11. bf16_expp(x) = Curve(16256 + M) BY <1>1, <1>4, <1>5, <1>10, ExppUp
  <1>12. QED BY <1>1, <1>5, <1>10, <1>11 DEF M, e

LEMMA NegativeIs ==
  ASSUME NEW x \in Word, x >= 32896, x <= 50053
  PROVE  /\ bf16_expp(x) = IF ScaledMagnitude(x) <= 16128 THEN Curve(16256 - ScaledMagnitude(x)) ELSE 0
         /\ ScaledMagnitude(x) \in Nat
         /\ exponent(x) <= 135 /\ (exponent(x) = 135 => mantissa(x) <= 5)
  <1> DEFINE e == exponent(x)
             M == ScaledMagnitude(x)
  <1>1. sign(x) = 1 /\ e \in Int /\ e >= 1 /\ e <= 135 BY DEF Word, sign, exponent
  <1>2. e = 135 => mantissa(x) <= 5 BY DEF Word, exponent, mantissa
  <1>3. ~too_large(x) /\ ~too_small(x) BY DEF Word, too_large, too_small
  <1> HIDE DEF e, M
  <1>4. bf16_expp(x) = ExppOf(sign(x), M)
    <2>1. exponent(x) # 0 /\ exponent(x) # 255 BY <1>1 DEF e
    <2>2. QED BY <1>3, <2>1, ExppIs DEF M
  <1>5. M \in Nat /\ M <= 49121 BY <1>1, <1>2, ScaledIs DEF M, e
  <1>6. bf16_expp(x) = IF M <= 16128 THEN Curve(16256 - M) ELSE 0 BY <1>1, <1>4, <1>5, ExppDown
  <1>7. QED BY <1>1, <1>2, <1>5, <1>6 DEF M, e

(* The next word of the same sign follows.                                 *)
LEMMA NextFollows ==
  ASSUME NEW x \in Word, x # 32767, x # 65535
  PROVE  Follows(x, x + 1)
  BY DEF Follows, exponent, mantissa, Word

(* The words EXP saturates.                                                *)
LEMMA NearZero ==
  ASSUME NEW x \in Word, exponent(x) = 0
  PROVE  bf16_expp(x) = ONE
  BY Zenon DEF bf16_expp

LEMMA FarUp ==
  ASSUME NEW x \in Word, x >= 17074, x <= 32640
  PROVE  bf16_expp(x) = 32640
  <1>1. exponent(x) # 0 /\ sign(x) = 0 BY DEF exponent, sign, Word
  <1>2. ~is_nan(x) /\ (is_inf(x) \/ (~is_inf(x) /\ too_large(x)))
    <2>1. x \in Int BY DEF Word
    <2>2. CASE x = 32640 BY <2>2 DEF is_nan, is_inf, exponent, mantissa
    <2>3. CASE x <= 32639
      <3>1. exponent(x) # 255 BY <2>3 DEF exponent, Word
      <3>2. too_large(x) BY <2>3 DEF too_large
      <3>3. QED BY <3>1, <3>2 DEF is_nan, is_inf
    <2>4. QED BY <2>1, <2>2, <2>3
  <1>3. sign(x) # 1 BY <1>1
  <1>4. bf16_expp(x) = make_inf(0) BY <1>1, <1>2, <1>3 DEF bf16_expp
  <1>5. QED BY <1>4 DEF make_inf, Pack

LEMMA FarDown ==
  ASSUME NEW x \in Word, x >= 50054, x <= 65408
  PROVE  bf16_expp(x) = 0
  <1>1. exponent(x) # 0 /\ sign(x) = 1 BY DEF exponent, sign, Word
  <1>2. ~is_nan(x) /\ (is_inf(x) \/ (~is_inf(x) /\ ~too_large(x) /\ too_small(x)))
    <2>1. x \in Int BY DEF Word
    <2>2. CASE x = 65408 BY <2>2 DEF is_nan, is_inf, exponent, mantissa
    <2>3. CASE x <= 65407
      <3>1. exponent(x) # 255 BY <2>3 DEF exponent, Word
      <3>2. too_small(x) /\ ~too_large(x) BY <2>1, <2>3 DEF too_small, too_large
      <3>3. QED BY <3>1, <3>2 DEF is_nan, is_inf
    <2>4. QED BY <2>1, <2>2, <2>3
  <1>3. bf16_expp(x) = make_zero(0) BY <1>1, <1>2 DEF bf16_expp
  <1>4. QED BY <1>3 DEF make_zero, Pack

(* custom_expp.cpp, process: walking through the words of one sign, away   *)
(* from zero, the result of EXP never decreases for positive and never     *)
(* increases for negative numbers.                                         *)
LEMMA UpByOne ==
  ASSUME NEW x \in Word, x <= 32639
  PROVE  bf16_expp(x) <= bf16_expp(x + 1)
  <1>1. x \in Nat BY DEF Word
  <1>2. x + 1 \in Word BY DEF Word
  <1>3. CASE x <= 126
    <2>1. exponent(x) = 0 /\ exponent(x + 1) = 0 BY <1>1, <1>3 DEF exponent
    <2>2. bf16_expp(x) = ONE /\ bf16_expp(x + 1) = ONE BY <1>2, <2>1, NearZero
    <2>3. QED BY <2>2 DEF ONE
  <1>4. CASE x = 127
    <2> DEFINE M == ScaledMagnitude(x + 1)
    <2>1. x + 1 >= 128 /\ x + 1 <= 17073 BY <1>4
    <2>2. bf16_expp(x + 1) = Curve(16256 + M) /\ M \in Nat BY <1>2, <2>1, PositiveIs
    <2> HIDE DEF M
    <2>3. Curve(16256) <= Curve(16256 + M)
      <3>1. 16256 \in Nat /\ 16256 + M \in Nat /\ 16256 <= 16256 + M BY <2>2
      <3>2. QED BY <3>1, CurveGrows
    <2>4. bf16_expp(x) = ONE
      <3>1. exponent(x) = 0 BY <1>4 DEF exponent
      <3>2. QED BY <3>1, NearZero
    <2>5. QED BY <2>2, <2>3, <2>4, CurveAtZero
  <1>5. CASE x >= 128 /\ x <= 17072
    <2> DEFINE M == ScaledMagnitude(x)
               N == ScaledMagnitude(x + 1)
    <2>1. bf16_expp(x) = Curve(16256 + M) /\ M \in Nat
      <3>1. x >= 128 /\ x <= 17073 BY <1>1, <1>5
      <3>2. QED BY <3>1, PositiveIs
    <2>2. x + 1 >= 128 /\ x + 1 <= 17073 BY <1>1, <1>5
    <2>3. /\ bf16_expp(x + 1) = Curve(16256 + N) /\ N \in Nat
          /\ exponent(x + 1) <= 135 /\ (exponent(x + 1) = 135 => mantissa(x + 1) <= 5)
      BY <1>2, <2>2, PositiveIs
    <2>4. Follows(x, x + 1)
      <3>1. x # 32767 /\ x # 65535 BY <1>5
      <3>2. QED BY <3>1, NextFollows
    <2>5. M <= N BY <1>2, <2>3, <2>4, ScaledGrows
    <2> HIDE DEF M, N
    <2>6. Curve(16256 + M) <= Curve(16256 + N)
      <3>1. 16256 + M \in Nat /\ 16256 + N \in Nat /\ 16256 + M <= 16256 + N BY <2>1, <2>3, <2>5
      <3>2. QED BY <3>1, CurveGrows
    <2>7. QED BY <2>1, <2>3, <2>6
  <1>6. CASE x = 17073
    <2> DEFINE M == ScaledMagnitude(x)
    <2>1. bf16_expp(x) = Curve(16256 + M) /\ M \in Nat /\ M <= 16383
      <3>1. x >= 128 /\ x <= 17073 BY <1>6
      <3>2. QED BY <3>1, PositiveIs
    <2>2. bf16_expp(x + 1) = 32640
      <3>1. x + 1 >= 17074 /\ x + 1 <= 32640 BY <1>6
      <3>2. QED BY <1>2, <3>1, FarUp
    <2> HIDE DEF M
    <2>3. Curve(16256 + M) <= 32640
      <3>1. 16256 + M \in Nat /\ 16256 + M <= 32639 BY <2>1
      <3>2. QED BY <3>1, CurveFinite
    <2>4. QED BY <2>1, <2>2, <2>3
  <1>7. CASE x >= 17074
    <2>1. x <= 32640 /\ x + 1 >= 17074 /\ x + 1 <= 32640 BY <1>1, <1>7
    <2>2. bf16_expp(x) = 32640 /\ bf16_expp(x + 1) = 32640 BY <1>2, <1>7, <2>1, FarUp
    <2>3. QED BY <2>2
  <1>8. QED BY <1>1, <1>3, <1>4, <1>5, <1>6, <1>7

LEMMA DownByOne ==
  ASSUME NEW x \in Word, x >= 32768, x <= 65407
  PROVE  bf16_expp(x + 1) <= bf16_expp(x)
  <1>1. x \in Nat BY DEF Word
  <1>2. x + 1 \in Word BY DEF Word
  <1>3. CASE x <= 32894
    <2>1. exponent(x) = 0 /\ exponent(x + 1) = 0 BY <1>1, <1>3 DEF exponent
    <2>2. bf16_expp(x) = ONE /\ bf16_expp(x + 1) = ONE BY <1>2, <2>1, NearZero
    <2>3. QED BY <2>2 DEF ONE
  <1>4. ASSUME NEW M \in Nat, NEW N \in Nat, M <= N
        PROVE  (IF N <= 16128 THEN Curve(16256 - N) ELSE 0) <= (IF M <= 16128 THEN Curve(16256 - M) ELSE 0)
    <2>1. CASE N <= 16128
      <3>1. 16256 - N \in Nat /\ 16256 - M \in Nat /\ 16256 - N <= 16256 - M /\ M <= 16128 BY <1>4, <2>1
      <3>2. Curve(16256 - N) <= Curve(16256 - M) BY <3>1, CurveGrows
      <3>3. QED BY <2>1, <3>1, <3>2
    <2>2. CASE N > 16128
      <3>1. CASE M <= 16128
        <4>1. 16256 - M \in Nat /\ 16256 - M <= 16256 - M BY <3>1
        <4>2. Curve(16256 - M) \in Nat BY <4>1, CurveGrows
        <4>3. QED BY <2>2, <3>1, <4>2
      <3>2. CASE M > 16128 BY <2>2, <3>2
      <3>3. QED BY <3>1, <3>2
    <2>3. QED BY <2>1, <2>2
  <1>5. CASE x = 32895
    <2> DEFINE N == ScaledMagnitude(x + 1)
    <2>1. x + 1 >= 32896 /\ x + 1 <= 50053 BY <1>5
    <2>2. bf16_expp(x + 1) = (IF N <= 16128 THEN Curve(16256 - N) ELSE 0) /\ N \in Nat
      BY <1>2, <2>1, NegativeIs
    <2> HIDE DEF N
    <2>3. (IF N <= 16128 THEN Curve(16256 - N) ELSE 0) <= Curve(16256)
      <3>1. 0 \in Nat /\ 0 <= N /\ 0 <= 16128 /\ 16256 - 0 = 16256 BY <2>2
      <3>2. QED BY <1>4, <2>2, <3>1
    <2>4. bf16_expp(x) = ONE
      <3>1. exponent(x) = 0 BY <1>5 DEF exponent
      <3>2. QED BY <3>1, NearZero
    <2>5. QED BY <2>2, <2>3, <2>4, CurveAtZero
  <1>6. CASE x >= 32896 /\ x <= 50052
    <2> DEFINE M == ScaledMagnitude(x)
               N == ScaledMagnitude(x + 1)
    <2>1. bf16_expp(x) = (IF M <= 16128 THEN Curve(16256 - M) ELSE 0) /\ M \in Nat
      <3>1. x >= 32896 /\ x <= 50053 BY <1>1, <1>6
      <3>2. QED BY <3>1, NegativeIs
    <2>2. x + 1 >= 32896 /\ x + 1 <= 50053 BY <1>1, <1>6
    <2>3. /\ bf16_expp(x + 1) = (IF N <= 16128 THEN Curve(16256 - N) ELSE 0) /\ N \in Nat
          /\ exponent(x + 1) <= 135 /\ (exponent(x + 1) = 135 => mantissa(x + 1) <= 5)
      BY <1>2, <2>2, NegativeIs
    <2>4. Follows(x, x + 1)
      <3>1. x # 32767 /\ x # 65535 BY <1>6
      <3>2. QED BY <3>1, NextFollows
    <2>5. M <= N BY <1>2, <2>3, <2>4, ScaledGrows
    <2> HIDE DEF M, N
    <2>6. QED BY <1>4, <2>1, <2>3, <2>5
  <1>7. CASE x >= 50053
    <2>1. bf16_expp(x + 1) = 0
      <3>1. x + 1 >= 50054 /\ x + 1 <= 65408 BY <1>1, <1>7
      <3>2. QED BY <1>2, <3>1, FarDown
    <2>2. bf16_expp(x) \in Nat
      <3>1. CASE x = 50053
        <4> DEFINE M == ScaledMagnitude(x)
        <4>1. x >= 32896 /\ x <= 50053 BY <3>1
        <4>2. bf16_expp(x) = (IF M <= 16128 THEN Curve(16256 - M) ELSE 0) /\ M \in Nat BY <4>1, NegativeIs
        <4> HIDE DEF M
        <4>3. CASE M <= 16128
          <5>1. 16256 - M \in Nat /\ 16256 - M <= 16256 - M BY <4>2, <4>3
          <5>2. Curve(16256 - M) \in Nat BY <5>1, CurveGrows
          <5>3. QED BY <4>2, <4>3, <5>2
        <4>4. CASE M > 16128
          <5>1. ~(M <= 16128) BY <4>2, <4>4
          <5>2. QED BY <4>2, <5>1
        <4>5. QED BY <4>2, <4>3, <4>4
      <3>2. CASE x >= 50054
        <4>1. x <= 65408 BY <1>1
        <4>2. bf16_expp(x) = 0 BY <3>2, <4>1, FarDown
        <4>3. QED BY <4>2
      <3>3. QED BY <1>1, <1>7, <3>1, <3>2
    <2>3. QED BY <2>1, <2>2
  <1>8. QED BY <1>1, <1>3, <1>5, <1>6, <1>7

(* custom_expp.cpp: away from zero, from any word to the next of the same  *)
(* sign, the result of EXP never turns back.                               *)
THEOREM ExpNeverReverses == SweepSpec => []ExpMonotone
  <1>1. IndexIsWord => ExpMonotone
    <2> SUFFICES ASSUME word \in Word, ~is_nan(word), ~is_inf(word)
                 PROVE  IF sign(word) = 0 THEN bf16_expp(word) <= bf16_expp(word + 1)
                        ELSE bf16_expp(word + 1) <= bf16_expp(word)
      BY Zenon DEF IndexIsWord, ExpMonotone
    <2>1. exponent(word) # 255
      <3>1. QED BY Zenon DEF is_nan, is_inf
    <2>2. sign(word) = 0 => word <= 32639
      <3>1. QED BY <2>1 DEF sign, exponent, Word
    <2>3. sign(word) # 0 => word >= 32768 /\ word <= 65407
      <3>1. QED BY <2>1 DEF sign, exponent, Word
    <2>4. QED BY <2>2, <2>3, UpByOne, DownByOne
  <1>2. QED BY <1>1, SweepWord, PTL

-----------------------------------------------------------------------------
(***************************************************************************)
(* The quantiser.                                                          *)
(***************************************************************************)
(* A mantissa m rounded to its upper three bits: to nearest even, as the   *)
(* unit does, and to nearest with ties away from zero, as the reference.   *)
ToEven(m) == m \div 16 + (IF m % 16 > 8 \/ (m % 16 = 8 /\ (m \div 16) % 2 = 1) THEN 1 ELSE 0)
ToAway(m) == m \div 16 + (IF m % 16 >= 8 THEN 1 ELSE 0)

(* The code of the rounded mantissa rnd of a number amt powers of two      *)
(* below the block's largest one, and what it stands for in units of       *)
(* 2^(18 - amt).                                                           *)
Code(amt, rnd) == IF amt = 0 /\ rnd >= 7 THEN 126 ELSE (15 - amt) * 8 + rnd
Units(amt, rnd) == IF amt = 0 /\ rnd >= 7 THEN 224 ELSE 128 + 16 * rnd

LEMMA RoundingRange ==
  ASSUME NEW m \in 0 .. 127
  PROVE  ToEven(m) \in 0 .. 8 /\ ToAway(m) \in 0 .. 8
  BY DEF ToEven, ToAway

(* The code of a sign, an exponent and a mantissa whose upper bits rnd are  *)
(* rounded; the NaN code and an exponent above 15 saturate.                *)
RoundedUpper(m) == m \div 16 + (IF (m \div 8) % 2 = 1 /\ ((m \div 16) % 2 = 1 \/ m % 8 # 0) THEN 1 ELSE 0)
Saturated(e, rnd) ==
    LET mat == IF e + rnd \div 8 >= 15 /\ rnd % 8 = 7 THEN 6 ELSE rnd
    IN  IF e + mat \div 8 > 15 THEN 126 ELSE (e + mat \div 8) * 8 + (mat % 8)

LEMMA Unfolded ==
  ASSUME NEW s, NEW a
  PROVE  Quantiser!Rounded(s, a) = s * 128 + Saturated(a.exp, RoundedUpper(a.mat))
  BY Zenon DEF Quantiser!Rounded, Saturated, RoundedUpper

LEMMA RoundedOf ==
  ASSUME NEW s, NEW e, NEW m
  PROVE  Quantiser!Rounded(s, [exp |-> e, mat |-> m]) = s * 128 + Saturated(e, RoundedUpper(m))
  <1> DEFINE a == [exp |-> e, mat |-> m]
  <1>1. a.exp = e /\ a.mat = m OBVIOUS
  <1> HIDE DEF a
  <1>2. Quantiser!Rounded(s, a) = s * 128 + Saturated(e, RoundedUpper(m)) BY <1>1, Unfolded, Zenon
  <1>3. QED BY <1>2, Zenon DEF a

LEMMA RoundedIs ==
  ASSUME NEW s \in 0 .. 1, NEW amt \in 0 .. 14, NEW m \in 0 .. 127
  PROVE  Quantiser!Rounded(s, [exp |-> 15 - amt, mat |-> m]) = s * 128 + Code(amt, ToEven(m))
  <1> DEFINE rnd == RoundedUpper(m)
  <1>1. rnd = ToEven(m) /\ rnd \in 0 .. 8 BY DEF ToEven, RoundedUpper
  <1> HIDE DEF rnd
  <1>2. Saturated(15 - amt, rnd) = Code(amt, rnd) BY <1>1 DEF Code, Saturated
  <1>3. QED BY <1>1, <1>2, RoundedOf, Zenon DEF rnd

LEMMA ReferenceIs ==
  ASSUME NEW s \in 0 .. 1, NEW amt \in 0 .. 14, NEW m \in 0 .. 127
  PROVE  Quantiser!float_to_fp8_e4m3(s, 8 - amt, m) = s * 128 + Code(amt, ToAway(m))
  <1> DEFINE up == (m \div 8) % 2
             rnd == m \div 16 + up
             e4m3 == 8 - amt + 7 + rnd \div 8
             code == IF e4m3 > 15 \/ (e4m3 = 15 /\ rnd = 7) THEN 126 ELSE e4m3 * 8 + (rnd % 8)
  <1>1. ~(8 - amt > 8) /\ ~(8 - amt < -9) /\ ~(8 - amt < -6) OBVIOUS
  <1>2. Quantiser!float_to_fp8_e4m3(s, 8 - amt, m) = s * 128 + code
    BY <1>1, Zenon DEF Quantiser!float_to_fp8_e4m3
  <1>3. rnd = ToAway(m) /\ rnd \in 0 .. 8 BY DEF ToAway
  <1> HIDE DEF rnd
  <1>4. code = Code(amt, rnd) BY <1>3 DEF Code
  <1>5. QED BY <1>2, <1>3, <1>4

(* The significand of code c is its place after the exponent's step.       *)
LEMMA CodeFields ==
  ASSUME NEW s \in 0 .. 1, NEW c \in 0 .. 127
  PROVE  E4M3Value(s * 128 + c)
           = Signed(s, IF c \div 8 = 0 THEN (c % 8) * 2^8 ELSE (8 + (c % 8)) * 2^(7 + c \div 8))
  <1> DEFINE w == s * 128 + c
             e == c \div 8
             v == IF e = 0 THEN (c % 8) * 2^8 ELSE (8 + (c % 8)) * 2^(7 + e)
  <1>1. (w \div 8) % 16 = e /\ w % 8 = c % 8 /\ (w >= 128 <=> s = 1) OBVIOUS
  <1>2. v \in Int
    <2>1. 7 + e \in Nat /\ (c % 8) * 2^8 \in Int /\ 8 + (c % 8) \in Int OBVIOUS
    <2> HIDE DEF e
    <2>2. 2^(7 + e) \in Int BY <2>1, Powers
    <2>3. (8 + (c % 8)) * 2^(7 + e) \in Int BY <2>1, <2>2
    <2>4. QED BY <2>1, <2>3
  <1>3. E4M3Value(w) = (IF w >= 128 THEN -1 ELSE 1) * v BY <1>1, Zenon DEF E4M3Value
  <1> HIDE DEF v, w
  <1>4. E4M3Value(w) = Signed(s, v) BY <1>1, <1>2, <1>3 DEF Signed
  <1>5. QED BY <1>4, Zenon DEF v, w, e

LEMMA CodeValue ==
  ASSUME NEW s \in 0 .. 1, NEW amt \in 0 .. 14, NEW rnd \in 0 .. 8
  PROVE  E4M3Value(s * 128 + Code(amt, rnd)) = Signed(s, Units(amt, rnd) * 2^(18 - amt))
  <1> DEFINE c == Code(amt, rnd)
             e == c \div 8
             f == c % 8
             P == 2^(18 - amt)
  <1>1. c \in 8 .. 127
    <2>1. amt = 0 /\ rnd >= 7 => c = 126 BY DEF Code
    <2>2. ~(amt = 0 /\ rnd >= 7) => c = (15 - amt) * 8 + rnd BY DEF Code
    <2> HIDE DEF c
    <2>3. QED BY <2>1, <2>2
  <1>2. c \in 0 .. 127 /\ e # 0 BY <1>1
  <1>3. P \in Nat
    <2>1. 18 - amt \in Nat OBVIOUS
    <2>2. QED BY <2>1, Powers
  <1>4. 2^(22 - amt) = 16 * P /\ 2^(23 - amt) = 32 * P
    <2>1. 18 - amt \in Nat /\ 4 \in Nat /\ 5 \in Nat OBVIOUS
    <2>2. 2^(18 - amt + 4) = 2^(18 - amt) * 2^4 BY <2>1, PowerSum
    <2>3. 2^(18 - amt + 5) = 2^(18 - amt) * 2^5 BY <2>1, PowerSum
    <2>4. 18 - amt + 4 = 22 - amt /\ 18 - amt + 5 = 23 - amt OBVIOUS
    <2>5. QED BY <1>3, <2>2, <2>3, <2>4
  <1>5. E4M3Value(s * 128 + c) = Signed(s, (8 + f) * 2^(7 + e)) BY <1>2, CodeFields, Zenon
  <1>6. (8 + f) * 2^(7 + e) = Units(amt, rnd) * P
    <2>1. CASE amt = 0 /\ rnd >= 7
      <3>1. e = 15 /\ f = 6 BY <2>1 DEF Code
      <3>2. 7 + e = 22 - amt BY <2>1, <3>1
      <3>3. Units(amt, rnd) = 224 BY <2>1 DEF Units
      <3> HIDE DEF e, f, P
      <3>4. (8 + 6) * (16 * P) = 224 * P BY <1>3
      <3>5. 2^(7 + e) = 16 * P BY <1>4, <3>2
      <3>6. QED BY <3>1, <3>3, <3>4, <3>5
    <2>2. CASE ~(amt = 0 /\ rnd >= 7) /\ rnd = 8
      <3>1. e = 16 - amt /\ f = 0 BY <2>2 DEF Code
      <3>2. 7 + e = 23 - amt BY <2>2, <3>1
      <3>3. Units(amt, rnd) = 256 BY <2>2 DEF Units
      <3> HIDE DEF e, f, P
      <3>4. QED BY <1>3, <1>4, <3>1, <3>2, <3>3
    <2>3. CASE ~(amt = 0 /\ rnd >= 7) /\ rnd # 8
      <3>1. e = 15 - amt /\ f = rnd BY <2>3 DEF Code
      <3>2. 7 + e = 22 - amt BY <2>3, <3>1
      <3>3. Units(amt, rnd) = 128 + 16 * rnd BY <2>3 DEF Units
      <3> HIDE DEF e, f, P
      <3>4. (8 + rnd) * (16 * P) = (128 + 16 * rnd) * P BY <1>3
      <3>5. 2^(7 + e) = 16 * P BY <1>4, <3>2
      <3>6. QED BY <3>1, <3>3, <3>4, <3>5
    <2>4. QED BY <2>1, <2>2, <2>3
  <1>7. QED BY <1>5, <1>6, Zenon DEF c, P

(* To even is never farther from the mantissa than away from zero, with    *)
(* the saturation of the largest exponent on both sides.                   *)
LEMMA ToEvenNearer ==
  ASSUME NEW amt \in 0 .. 14, NEW m \in 0 .. 127
  PROVE  Abs(Units(amt, ToEven(m)) - (128 + m)) <= Abs(Units(amt, ToAway(m)) - (128 + m))
  BY DEF Units, ToEven, ToAway, Abs

(* Below the codes with a full significand, amt = 14 + j for j from 1 to   *)
(* 4: the unit rounds what is left of the mantissa, the reference cuts it. *)
SmallRounding(j, m) == RoundedUpper(((128 + m) \div 2^j) % 128)
SmallCut(j, m) == IF j = 4 THEN 0 ELSE (8 + m \div 16) \div 2^j

LEMMA SmallRange ==
  ASSUME NEW j \in 1 .. 4, NEW m \in 0 .. 127
  PROVE  SmallRounding(j, m) \in 0 .. 8 /\ SmallCut(j, m) \in 0 .. 7
  <1>1. CASE j = 1 BY <1>1 DEF RoundedUpper, SmallRounding, SmallCut
  <1>2. CASE j = 2 BY <1>2 DEF RoundedUpper, SmallRounding, SmallCut
  <1>3. CASE j = 3 BY <1>3 DEF RoundedUpper, SmallRounding, SmallCut
  <1>4. CASE j = 4 BY <1>4 DEF RoundedUpper, SmallRounding, SmallCut
  <1>5. QED BY <1>1, <1>2, <1>3, <1>4

LEMMA SmallRoundedIs ==
  ASSUME NEW s \in 0 .. 1, NEW j \in 1 .. 4, NEW m \in 0 .. 127
  PROVE  Quantiser!Rounded(s, [exp |-> 0, mat |-> ((128 + m) \div 2^j) % 128]) = s * 128 + SmallRounding(j, m)
  <1> DEFINE rnd == SmallRounding(j, m)
             left == ((128 + m) \div 2^j) % 128
  <1>1. Quantiser!Rounded(s, [exp |-> 0, mat |-> left]) = s * 128 + Saturated(0, rnd)
    <2>1. rnd = RoundedUpper(left) BY Zenon DEF SmallRounding
    <2> HIDE DEF left, rnd
    <2>2. QED BY <2>1, RoundedOf, Zenon
  <1>2. rnd \in 0 .. 8 BY SmallRange
  <1> HIDE DEF rnd
  <1>3. Saturated(0, rnd) = rnd BY <1>2 DEF Saturated
  <1>4. QED BY <1>1, <1>3, Zenon DEF rnd

LEMMA SmallReferenceIs ==
  ASSUME NEW s \in 0 .. 1, NEW j \in 1 .. 4, NEW m \in 0 .. 127
  PROVE  Quantiser!float_to_fp8_e4m3(s, 0 - 6 - j, m) = s * 128 + SmallCut(j, m)
  BY DEF Quantiser!float_to_fp8_e4m3, SmallCut

LEMMA SmallValue ==
  ASSUME NEW s \in 0 .. 1, NEW rnd \in 0 .. 8
  PROVE  E4M3Value(s * 128 + rnd) = Signed(s, 256 * rnd)
  <1>1. rnd \in 0 .. 127 OBVIOUS
  <1>2. CASE rnd = 8
    <2>1. rnd \div 8 = 1 /\ rnd % 8 = 0 BY <1>2
    <2>2. (8 + (rnd % 8)) * 2^(7 + rnd \div 8) = 2048
      <3> DEFINE f == 8 + (rnd % 8)
                 e == 7 + rnd \div 8
      <3>1. f = 8 /\ e = 8 BY <2>1
      <3>2. 8 * 2^8 = 2048 OBVIOUS
      <3> HIDE DEF e, f
      <3>3. f * 2^e = 8 * 2^8 BY <3>1, Zenon
      <3>4. QED BY <3>2, <3>3 DEF e, f
    <2>3. QED BY <1>1, <1>2, <2>1, <2>2, CodeFields
  <1>3. CASE rnd # 8
    <2>1. rnd \div 8 = 0 /\ rnd % 8 = rnd BY <1>3
    <2>2. E4M3Value(s * 128 + rnd) = Signed(s, rnd * 2^8) BY <1>1, <2>1, CodeFields
    <2>3. rnd * 2^8 = 256 * rnd OBVIOUS
    <2>4. QED BY <2>2, <2>3
  <1>4. QED BY <1>2, <1>3

LEMMA SmallNearer ==
  ASSUME NEW j \in 1 .. 4, NEW m \in 0 .. 127
  PROVE  Abs(256 * SmallRounding(j, m) - (128 + m) * 2^(4 - j)) <= Abs(256 * SmallCut(j, m) - (128 + m) * 2^(4 - j))
  <1>1. CASE j = 1 BY <1>1 DEF RoundedUpper, SmallRounding, SmallCut, Abs
  <1>2. CASE j = 2 BY <1>2 DEF RoundedUpper, SmallRounding, SmallCut, Abs
  <1>3. CASE j = 3 BY <1>3 DEF RoundedUpper, SmallRounding, SmallCut, Abs
  <1>4. CASE j = 4 BY <1>4 DEF RoundedUpper, SmallRounding, SmallCut, Abs
  <1>5. QED BY <1>1, <1>2, <1>3, <1>4
(* The first element of a block of two, next to any other.                 *)
SameFields(v) ==
    Quantiser!sign(v) = sign(v) /\ Quantiser!exponent(v) = exponent(v) /\ Quantiser!mantissa(v) = mantissa(v)

LEMMA QuantiserFields == \A v \in Word : SameFields(v)
  BY Zenon DEF SameFields, Quantiser!sign, Quantiser!exponent, Quantiser!mantissa, sign, exponent, mantissa

Greatest(M, e, f) == (M = e \/ M = f) /\ e <= M /\ f <= M

LEMMA GreatestExists == \A e, f \in Int : \E M \in {e, f} : \A g \in {e, f} : g <= M
  <1> SUFFICES ASSUME NEW e \in Int, NEW f \in Int PROVE \E M \in {e, f} : \A g \in {e, f} : g <= M
    OBVIOUS
  <1>1. CASE e <= f BY <1>1
  <1>2. CASE f <= e BY <1>2
  <1>3. QED BY <1>1, <1>2

LEMMA MaxExponentIs ==
  ASSUME NEW v \in Word, NEW a \in Word
  PROVE  Greatest(Quantiser!MaxExponent(<<v, a>>), exponent(v), exponent(a))
  <1> DEFINE es == {exponent(v), exponent(a)}
             M == Quantiser!MaxExponent(<<v, a>>)
  <1>1. {Quantiser!exponent(<<v, a>>[i]) : i \in DOMAIN <<v, a>>} = es
    <2>1. SameFields(v) /\ SameFields(a) BY QuantiserFields
    <2>2. DOMAIN <<v, a>> = {1, 2} /\ <<v, a>>[1] = v /\ <<v, a>>[2] = a OBVIOUS
    <2>3. QED BY <2>1, <2>2, Zenon DEF SameFields
  <1>2. M = CHOOSE e \in es : \A f \in es : f <= e BY <1>1, Zenon DEF Quantiser!MaxExponent
  <1>3. \E e \in es : \A f \in es : f <= e
    <2>1. exponent(v) \in Int /\ exponent(a) \in Int BY FieldTypes
    <2>2. QED BY <2>1, GreatestExists
  <1> HIDE DEF M
  <1>4. M \in es /\ \A f \in es : f <= M BY <1>2, <1>3, Zenon
  <1>5. QED BY <1>4, Zenon DEF Greatest, M

LEMMA QuantiseIs ==
  ASSUME NEW v \in Word, NEW a \in Word, NEW M, M = Quantiser!MaxExponent(<<v, a>>)
  PROVE  /\ Quantiser!quantize(<<v, a>>).scale = Quantiser!Scale(M)
         /\ Quantiser!quantize(<<v, a>>).act[1] = Quantiser!Rounded(sign(v), Quantiser!Aligned(v, M))
  <1> DEFINE b == <<v, a>>
  <1>1. b[1] = v /\ 1 \in DOMAIN b OBVIOUS
  <1>2. SameFields(v) BY QuantiserFields
  <1>3. M = Quantiser!MaxExponent(b) OBVIOUS
  <1> HIDE DEF b
  <1>4. /\ Quantiser!quantize(b).scale = Quantiser!Scale(M)
        /\ Quantiser!quantize(b).act[1] = Quantiser!Rounded(Quantiser!sign(b[1]), Quantiser!Aligned(b[1], M))
    BY <1>1, <1>3 DEF Quantiser!quantize
  <1>5. QED BY <1>1, <1>2, <1>4, Zenon DEF b, SameFields

(* The alignment of a normal number amt powers of two below the largest.   *)
LiesBelow(v, M, amt) == M \in 9 .. 254 /\ amt \in 0 .. 18 /\ exponent(v) # 0 /\ exponent(v) + amt = M

LEMMA AlignedIs ==
  ASSUME NEW v \in Word, NEW M, NEW amt, LiesBelow(v, M, amt)
  PROVE  Quantiser!Aligned(v, M)
           = IF amt <= 14 THEN [exp |-> 15 - amt, mat |-> mantissa(v)]
             ELSE [exp |-> 0, mat |-> ((128 + mantissa(v)) \div 2^(amt - 14)) % 128]
  <1> DEFINE m == mantissa(v)
             mat == 128 + m
             exp == IF 15 >= amt THEN 15 - amt ELSE 0
             shift == amt - 15 + 1
             shifted == IF 15 >= amt THEN (IF exp = 0 THEN mat \div 2 ELSE mat)
                        ELSE IF shift < 8 THEN mat \div 2^shift ELSE 0
  <1>a. M \in 9 .. 254 /\ amt \in 0 .. 18 /\ exponent(v) # 0 /\ exponent(v) + amt = M BY Zenon DEF LiesBelow
  <1>1. Quantiser!Aligned(v, M) = [exp |-> exp, mat |-> shifted % 128]
    <2>1. SameFields(v) BY QuantiserFields
    <2>2. Quantiser!ExpInit(M) = 15 BY <1>a DEF Quantiser!ExpInit
    <2>3. M - exponent(v) = amt
      <3>1. exponent(v) \in Int BY FieldTypes
      <3>2. QED BY <1>a, <3>1
    <2>4. exponent(v) # 0 BY <1>a
    <2>5. QED BY <2>1, <2>2, <2>3, <2>4, Zenon DEF Quantiser!Aligned, SameFields
  <1>2. m \in 0 .. 127 BY FieldTypes
  <1> HIDE DEF m
  <1>3. CASE amt <= 14
    <2>1. exp = 15 - amt /\ shifted % 128 = m BY <1>a, <1>2, <1>3
    <2>2. QED BY <1>1, <1>3, <2>1 DEF m
  <1>4. CASE amt = 15
    <2>1. exp = 0 /\ shifted = mat \div 2^(amt - 14) BY <1>a, <1>2, <1>4
    <2>2. QED BY <1>1, <1>4, <2>1 DEF m
  <1>5. CASE amt >= 16
    <2>1. exp = 0 /\ shift = amt - 14 /\ shift < 8 /\ ~(15 >= amt) BY <1>a, <1>5
    <2>2. shifted = mat \div 2^(amt - 14) BY <2>1
    <2>3. ~(amt <= 14) BY <1>a, <1>5
    <2>4. QED BY <1>1, <2>1, <2>2, <2>3 DEF m
  <1>6. QED BY <1>a, <1>3, <1>4, <1>5
LEMMA ReferenceBlock ==
  ASSUME NEW v \in Word, NEW a \in Word, exponent(v) \in 1 .. 254, exponent(a) \in 9 .. 254,
         NEW M, Greatest(M, exponent(v), exponent(a))
  PROVE  /\ Quantiser!reference_quantize_mxfp8(<<v, a>>).scale = M - 8
         /\ Quantiser!reference_quantize_mxfp8(<<v, a>>).act[1]
              = Quantiser!float_to_fp8_e4m3(sign(v), exponent(v) - M + 8, mantissa(v))
  <1> DEFINE b == <<v, a>>
             nonzero == {i \in DOMAIN b : ~Quantiser!is_zero(b[i])}
             exps == {Quantiser!FloatOf(b[i]).exp : i \in nonzero}
             exp_max == CHOOSE e \in exps : \A f \in exps : f <= e
             scale_exp == IF exp_max - 8 < -127 THEN -127 ELSE exp_max - 8
             act == [i \in DOMAIN b |->
                       IF Quantiser!is_zero(b[i]) THEN 0
                       ELSE LET f == Quantiser!FloatOf(b[i])
                            IN  Quantiser!float_to_fp8_e4m3(Quantiser!sign(b[i]), f.exp - scale_exp, f.mant)]
  <1>1. Quantiser!reference_quantize_mxfp8(b)
           = IF nonzero = {} THEN [scale |-> 0, act |-> [i \in DOMAIN b |-> 0]]
             ELSE [scale |-> scale_exp + 127, act |-> act]
    <2> HIDE DEF b
    <2>1. QED BY Zenon DEF Quantiser!reference_quantize_mxfp8
  <1>2. b[1] = v /\ b[2] = a /\ DOMAIN b = {1, 2} OBVIOUS
  <1> HIDE DEF b
  <1>3. exponent(v) \in 1 .. 254 /\ exponent(a) \in 9 .. 254 /\ M \in 9 .. 254
    BY DEF Greatest
  <1>4. \A w \in {v, a} : /\ ~Quantiser!is_zero(w)
                          /\ Quantiser!FloatOf(w) = [exp |-> exponent(w) - 127, mant |-> mantissa(w)]
    <2> SUFFICES ASSUME NEW w \in {v, a}
                 PROVE  /\ ~Quantiser!is_zero(w)
                        /\ Quantiser!FloatOf(w) = [exp |-> exponent(w) - 127, mant |-> mantissa(w)]
      OBVIOUS
    <2>1. SameFields(w) BY QuantiserFields
    <2>2. exponent(w) # 0 BY <1>3
    <2>3. ~Quantiser!is_zero(w) /\ ~Quantiser!is_denormal(w)
      BY <2>1, <2>2, Zenon DEF SameFields, Quantiser!is_zero, Quantiser!is_denormal
    <2>4. Quantiser!BIAS = 127 BY DEF Quantiser!BIAS
    <2>5. QED BY <2>1, <2>3, <2>4, Zenon DEF SameFields, Quantiser!FloatOf
  <1>5. nonzero = {1, 2} BY <1>2, <1>4
  <1>6. exps = {exponent(v) - 127, exponent(a) - 127}
    <2>1. Quantiser!FloatOf(b[1]).exp = exponent(v) - 127 /\ Quantiser!FloatOf(b[2]).exp = exponent(a) - 127
      BY <1>2, <1>4
    <2> HIDE DEF nonzero
    <2>2. QED BY <1>5, <2>1
  <1>7. exp_max = M - 127
    <2> HIDE DEF exps
    <2>1. M - 127 \in exps /\ \A f \in exps : f <= M - 127 BY <1>3, <1>6 DEF Greatest
    <2>2. exp_max \in exps /\ \A f \in exps : f <= exp_max BY <2>1, Zenon
    <2> HIDE DEF exp_max
    <2>3. exp_max \in Int BY <1>3, <1>6, <2>2
    <2>4. QED BY <1>3, <2>1, <2>2, <2>3
  <1> HIDE DEF nonzero, exps, exp_max
  <1>8. scale_exp = M - 135 BY <1>3, <1>7
  <1> HIDE DEF scale_exp
  <1>9. Quantiser!reference_quantize_mxfp8(b) = [scale |-> scale_exp + 127, act |-> act]
    BY <1>1, <1>5
  <1>10. act[1] = Quantiser!float_to_fp8_e4m3(sign(v), (exponent(v) - 127) - scale_exp, mantissa(v))
    <2>1. SameFields(v) BY QuantiserFields
    <2>2. QED BY <1>2, <1>4, <2>1 DEF SameFields
  <1> HIDE DEF act
  <1>11. scale_exp + 127 = M - 8 /\ (exponent(v) - 127) - scale_exp = exponent(v) - M + 8
    BY <1>3, <1>8
  <1>12. QED BY <1>9, <1>10, <1>11 DEF b

-----------------------------------------------------------------------------
(* The errors on both sides of the code, with the sign.                    *)
LEMMA SignedError ==
  ASSUME NEW s \in 0 .. 1, NEW h \in Int, NEW g \in Int, NEW x \in Int, Abs(h - x) <= Abs(g - x)
  PROVE  Abs(Signed(s, h) - Signed(s, x)) <= Abs(Signed(s, g) - Signed(s, x))
  BY DEF Signed, Abs

LEMMA ScaledError ==
  ASSUME NEW h \in Int, NEW g \in Int, NEW x \in Int, NEW P \in Nat, Abs(h - x) <= Abs(g - x)
  PROVE  Abs(h * P - x * P) <= Abs(g * P - x * P)
  <1> DEFINE c == h - x
             d == g - x
  <1>1. h * P - x * P = c * P /\ g * P - x * P = d * P OBVIOUS
  <1>2. c \in Int /\ d \in Int /\ Abs(c) <= Abs(d) OBVIOUS
  <1> HIDE DEF c, d
  <1>3. Abs(c * P) = Abs(c) * P /\ Abs(d * P) = Abs(d) * P
    <2>1. ASSUME NEW z \in Int PROVE Abs(z * P) = Abs(z) * P
      <3>1. CASE z >= 0
        <4>1. z * P >= 0 BY <3>1
        <4>2. z * P \in Int OBVIOUS
        <4>3. QED BY <3>1, <4>1, <4>2 DEF Abs
      <3>2. CASE z < 0
        <4>1. z * P <= 0 /\ z * P \in Int BY <3>2
        <4>2. (0 - z) * P = 0 - z * P OBVIOUS
        <4>3. QED BY <3>2, <4>1, <4>2 DEF Abs
      <3>3. QED BY <3>1, <3>2
    <2>2. QED BY <1>2, <2>1
  <1>4. Abs(c) * P <= Abs(d) * P
    <2>1. Abs(c) \in Int /\ Abs(d) \in Int BY <1>2 DEF Abs
    <2>2. QED BY <1>2, <2>1
  <1>5. QED BY <1>1, <1>3, <1>4

Input(s, m, amt) == Signed(s, (128 + m) * 2^(18 - amt))

LEMMA CodeNearer ==
  ASSUME NEW s \in 0 .. 1, NEW amt \in 0 .. 14, NEW m \in 0 .. 127
  PROVE  Abs(E4M3Value(s * 128 + Code(amt, ToEven(m))) - Input(s, m, amt))
           <= Abs(E4M3Value(s * 128 + Code(amt, ToAway(m))) - Input(s, m, amt))
  <1> DEFINE P == 2^(18 - amt)
             h == Units(amt, ToEven(m))
             g == Units(amt, ToAway(m))
             x == 128 + m
  <1>1. P \in Nat
    <2>1. 18 - amt \in Nat OBVIOUS
    <2>2. QED BY <2>1, Powers
  <1>2. E4M3Value(s * 128 + Code(amt, ToEven(m))) = Signed(s, h * P) BY RoundingRange, CodeValue
  <1>3. E4M3Value(s * 128 + Code(amt, ToAway(m))) = Signed(s, g * P) BY RoundingRange, CodeValue
  <1>4. h \in Int /\ g \in Int BY RoundingRange DEF Units
  <1>5. Abs(h - x) <= Abs(g - x) BY ToEvenNearer
  <1>6. x \in Int /\ Input(s, m, amt) = Signed(s, x * P) BY DEF Input
  <1> HIDE DEF P, h, g, x
  <1>7. h * P \in Int /\ g * P \in Int /\ x * P \in Int BY <1>1, <1>4, <1>6
  <1>8. Abs(h * P - x * P) <= Abs(g * P - x * P) BY <1>1, <1>4, <1>5, <1>6, ScaledError
  <1>9. Abs(Signed(s, h * P) - Signed(s, x * P)) <= Abs(Signed(s, g * P) - Signed(s, x * P))
    BY <1>7, <1>8, SignedError
  <1>10. QED BY <1>2, <1>3, <1>6, <1>9

LEMMA SmallCodeNearer ==
  ASSUME NEW s \in 0 .. 1, NEW j \in 1 .. 4, NEW m \in 0 .. 127
  PROVE  Abs(E4M3Value(s * 128 + SmallRounding(j, m)) - Input(s, m, 14 + j))
           <= Abs(E4M3Value(s * 128 + SmallCut(j, m)) - Input(s, m, 14 + j))
  <1> DEFINE h == SmallRounding(j, m)
             g == SmallCut(j, m)
             x == (128 + m) * 2^(4 - j)
  <1>1. h \in 0 .. 8 /\ g \in 0 .. 8
    <2>1. h \in 0 .. 8 /\ g \in 0 .. 7 BY SmallRange
    <2> HIDE DEF h, g
    <2>2. QED BY <2>1
  <1>2. E4M3Value(s * 128 + h) = Signed(s, 256 * h) /\ E4M3Value(s * 128 + g) = Signed(s, 256 * g)
    <2> HIDE DEF h, g
    <2>1. QED BY <1>1, SmallValue
  <1>3. Abs(256 * h - x) <= Abs(256 * g - x) BY SmallNearer
  <1>4. x \in Int /\ Input(s, m, 14 + j) = Signed(s, x)
    <2>1. 18 - (14 + j) = 4 - j /\ 4 - j \in Nat OBVIOUS
    <2>2. 2^(4 - j) \in Nat BY <2>1, Powers
    <2>3. x \in Int BY <2>2
    <2>4. QED BY <2>1, <2>3 DEF Input
  <1> HIDE DEF h, g, x
  <1>5. Abs(Signed(s, 256 * h) - Signed(s, x)) <= Abs(Signed(s, 256 * g) - Signed(s, x))
    BY <1>1, <1>3, <1>4, SignedError
  <1>6. QED BY <1>2, <1>4, <1>5 DEF h, g
LEMMA NeverNaN ==
  ASSUME NEW s \in 0 .. 1, NEW e \in 0 .. 15, NEW m \in 0 .. 127
  PROVE  Quantiser!Rounded(s, [exp |-> e, mat |-> m]) % 128 # 127
  <1> DEFINE rnd == RoundedUpper(m)
             c == Saturated(e, rnd)
  <1>1. rnd \in 0 .. 8 BY DEF RoundedUpper
  <1> HIDE DEF rnd
  <1>2. c \in 0 .. 126 BY <1>1 DEF Saturated
  <1>3. Quantiser!Rounded(s, [exp |-> e, mat |-> m]) = s * 128 + c BY RoundedOf, Zenon DEF rnd
  <1> HIDE DEF c
  <1>4. QED BY <1>2, <1>3

LEMMA AlignedRange ==
  ASSUME NEW v \in Word, NEW M \in 0 .. 255, exponent(v) <= M, exponent(v) # 0
  PROVE  \E e \in 0 .. 15, m \in 0 .. 127 : Quantiser!Aligned(v, M) = [exp |-> e, mat |-> m]
  <1> DEFINE mat == 128 + mantissa(v)
             amt == M - exponent(v)
             init == Quantiser!ExpInit(M)
             exp == IF init >= amt THEN init - amt ELSE 0
             shift == amt - init + 1
             shifted == IF init >= amt THEN (IF exp = 0 THEN mat \div 2 ELSE mat)
                        ELSE IF shift < 8 THEN mat \div 2^shift ELSE 0
  <1>1. Quantiser!Aligned(v, M) = [exp |-> exp, mat |-> shifted % 128]
    <2>1. SameFields(v) BY QuantiserFields
    <2>2. QED BY <2>1, Zenon DEF Quantiser!Aligned, SameFields
  <1>2. mat \in Nat /\ amt \in Nat /\ init \in 0 .. 15
    <2>1. exponent(v) \in 0 .. 255 /\ mantissa(v) \in 0 .. 127 BY FieldTypes
    <2>2. QED BY <2>1 DEF Quantiser!ExpInit
  <1> HIDE DEF mat, amt, init
  <1>3. exp \in 0 .. 15 BY <1>2
  <1>4. shifted \in Int
    <2>1. CASE init >= amt BY <1>2, <2>1
    <2>2. CASE ~(init >= amt) /\ shift < 8
      <3>1. shift \in Nat BY <1>2, <2>2
      <3> HIDE DEF shift
      <3>2. 2^shift \in Nat \ {0} BY <3>1, Powers
      <3>3. mat \div 2^shift \in Int BY <1>2, <3>2
      <3>4. QED BY <2>2, <3>3
    <2>3. CASE ~(init >= amt) /\ ~(shift < 8) BY <2>3
    <2>4. QED BY <2>1, <2>2, <2>3
  <1> HIDE DEF exp, shifted
  <1>5. shifted % 128 \in 0 .. 127 BY <1>4
  <1>6. QED BY <1>1, <1>3, <1>5, Zenon

LEMMA NoCodeIsNaN ==
  ASSUME NEW v \in Word, NEW a \in Word, exponent(v) # 0
  PROVE  Quantiser!quantize(<<v, a>>).act[1] % 128 # 127
  <1> DEFINE M == Quantiser!MaxExponent(<<v, a>>)
  <1>1. Greatest(M, exponent(v), exponent(a)) BY MaxExponentIs
  <1>2. Quantiser!quantize(<<v, a>>).act[1] = Quantiser!Rounded(sign(v), Quantiser!Aligned(v, M))
    BY QuantiseIs
  <1> HIDE DEF M
  <1>3. M \in 0 .. 255 /\ exponent(v) <= M
    <2>1. exponent(v) \in 0 .. 255 /\ exponent(a) \in 0 .. 255 BY FieldTypes
    <2>2. QED BY <1>1, <2>1, Zenon DEF Greatest
  <1>4. PICK e \in 0 .. 15, m \in 0 .. 127 : Quantiser!Aligned(v, M) = [exp |-> e, mat |-> m]
    BY <1>3, AlignedRange, Zenon
  <1>5. sign(v) \in 0 .. 1 BY FieldTypes
  <1>6. Quantiser!Rounded(sign(v), [exp |-> e, mat |-> m]) % 128 # 127 BY <1>5, NeverNaN, Zenon
  <1>7. QED BY <1>2, <1>4, <1>6

ErrorOf(c, v, scale) ==
    Abs(E4M3Value(c) - (IF sign(v) = 1 THEN -1 ELSE 1) * (128 + mantissa(v)) * 2^(10 + (exponent(v) - scale)))

LEMMA ErrorIs ==
  ASSUME NEW v \in Word, NEW scale \in Int, NEW amt \in 0 .. 18, exponent(v) - scale = 8 - amt, NEW c
  PROVE  ErrorOf(c, v, scale) = Abs(E4M3Value(c) - Input(sign(v), mantissa(v), amt))
  <1> DEFINE P == 2^(18 - amt)
             m == mantissa(v)
             s == sign(v)
  <1>1. 10 + (exponent(v) - scale) = 18 - amt
    <2>1. exponent(v) \in Int BY FieldTypes
    <2>2. QED BY <2>1
  <1>2. P \in Nat
    <2>1. 18 - amt \in Nat OBVIOUS
    <2>2. QED BY <2>1, Powers
  <1>3. m \in 0 .. 127 /\ s \in 0 .. 1 BY FieldTypes
  <1>4. ErrorOf(c, v, scale) = Abs(E4M3Value(c) - (IF s = 1 THEN -1 ELSE 1) * (128 + m) * P)
    BY <1>1, Zenon DEF ErrorOf
  <1>5. Input(s, m, amt) = Signed(s, (128 + m) * P) BY Zenon DEF Input
  <1> HIDE DEF P, m, s
  <1>6. (128 + m) * P \in Int BY <1>2, <1>3
  <1>7. (IF s = 1 THEN -1 ELSE 1) * (128 + m) * P = Signed(s, (128 + m) * P)
    <2> DEFINE y == 128 + m
    <2>1. y \in Int BY <1>3
    <2> HIDE DEF y
    <2>2. (IF s = 1 THEN -1 ELSE 1) * y * P = Signed(s, y * P)
      BY <1>2, <1>3, <2>1 DEF Signed
    <2>3. QED BY <2>2 DEF y
  <1>8. QED BY <1>4, <1>5, <1>7, Zenon DEF m, s

(* The blocks for which the property compares the two.                     *)
Comparable(v, a) ==
    /\ exponent(v) \in 1 .. 254 /\ exponent(a) \in 9 .. 254
    /\ exponent(v) - Quantiser!quantize(<<v, a>>).scale >= -10

LEMMA NoWorse ==
  ASSUME NEW v \in Word, NEW a \in Word, Comparable(v, a)
  PROVE  LET hw == Quantiser!quantize(<<v, a>>)
             ref == Quantiser!reference_quantize_mxfp8(<<v, a>>)
         IN  hw.scale = ref.scale /\ ErrorOf(hw.act[1], v, hw.scale) <= ErrorOf(ref.act[1], v, hw.scale)
  <1> DEFINE M == Quantiser!MaxExponent(<<v, a>>)
             amt == M - exponent(v)
             hw == Quantiser!quantize(<<v, a>>)
             ref == Quantiser!reference_quantize_mxfp8(<<v, a>>)
             s == sign(v)
             m == mantissa(v)
  <1>1. Greatest(M, exponent(v), exponent(a)) BY MaxExponentIs
  <1>2. hw.scale = Quantiser!Scale(M) /\ hw.act[1] = Quantiser!Rounded(s, Quantiser!Aligned(v, M))
    BY QuantiseIs
  <1>3. ref.scale = M - 8 /\ ref.act[1] = Quantiser!float_to_fp8_e4m3(s, exponent(v) - M + 8, m)
    <2> HIDE DEF M
    <2>1. exponent(v) \in 1 .. 254 /\ exponent(a) \in 9 .. 254 BY Zenon DEF Comparable
    <2>2. QED BY <1>1, <2>1, ReferenceBlock
  <1> HIDE DEF M, hw, ref
  <1>4. M \in 9 .. 254 /\ exponent(v) <= M /\ exponent(v) # 0 BY <1>1 DEF Greatest, Comparable
  <1>5. hw.scale = M - 8 BY <1>2, <1>4 DEF Quantiser!Scale
  <1>6. exponent(v) - hw.scale >= -10 BY DEF hw, Comparable
  <1>7. amt \in 0 .. 18 /\ exponent(v) + amt = M /\ exponent(v) - M + 8 = 8 - amt /\ exponent(v) - hw.scale = 8 - amt
    <2>1. exponent(v) \in Int BY FieldTypes
    <2>2. QED BY <1>4, <1>5, <1>6, <2>1
  <1> HIDE DEF amt
  <1>8. s \in 0 .. 1 /\ m \in 0 .. 127 BY FieldTypes
  <1>9. /\ ErrorOf(hw.act[1], v, hw.scale) = Abs(E4M3Value(hw.act[1]) - Input(s, m, amt))
        /\ ErrorOf(ref.act[1], v, hw.scale) = Abs(E4M3Value(ref.act[1]) - Input(s, m, amt))
    <2>1. hw.scale \in Int BY <1>4, <1>5
    <2>2. QED BY <1>7, <2>1, ErrorIs
  <1>10. Quantiser!Aligned(v, M) = IF amt <= 14 THEN [exp |-> 15 - amt, mat |-> m]
                                   ELSE [exp |-> 0, mat |-> ((128 + m) \div 2^(amt - 14)) % 128]
    <2>1. LiesBelow(v, M, amt) BY <1>4, <1>7 DEF LiesBelow
    <2>2. QED BY <2>1, AlignedIs, Zenon
  <1> HIDE DEF s, m
  <1>11. CASE amt <= 14
    <2>1. amt \in 0 .. 14 BY <1>7, <1>11
    <2>2. hw.act[1] = s * 128 + Code(amt, ToEven(m))
      <3>1. Quantiser!Aligned(v, M) = [exp |-> 15 - amt, mat |-> m] BY <1>10, <1>11, Zenon
      <3>2. Quantiser!Rounded(s, [exp |-> 15 - amt, mat |-> m]) = s * 128 + Code(amt, ToEven(m))
        BY <1>8, <2>1, RoundedIs, Zenon
      <3>3. QED BY <1>2, <3>1, <3>2, Zenon
    <2>3. ref.act[1] = s * 128 + Code(amt, ToAway(m)) BY <1>3, <1>7, <1>8, <2>1, ReferenceIs
    <2>4. Abs(E4M3Value(hw.act[1]) - Input(s, m, amt)) <= Abs(E4M3Value(ref.act[1]) - Input(s, m, amt))
      BY <1>8, <2>1, <2>2, <2>3, CodeNearer
    <2>5. QED BY <1>3, <1>5, <1>9, <2>4, Zenon DEF hw, ref
  <1>12. CASE ~(amt <= 14)
    <2> DEFINE j == amt - 14
    <2>1. j \in 1 .. 4 /\ amt = 14 + j /\ 8 - amt = 0 - 6 - j BY <1>7, <1>12
    <2>2. Quantiser!Aligned(v, M) = [exp |-> 0, mat |-> ((128 + m) \div 2^j) % 128]
      BY <1>10, <1>12, Zenon
    <2> HIDE DEF j
    <2>3. hw.act[1] = s * 128 + SmallRounding(j, m) BY <1>2, <1>8, <2>1, <2>2, SmallRoundedIs, Zenon
    <2>4. ref.act[1] = s * 128 + SmallCut(j, m) BY <1>3, <1>7, <1>8, <2>1, SmallReferenceIs
    <2>5. Abs(E4M3Value(hw.act[1]) - Input(s, m, amt)) <= Abs(E4M3Value(ref.act[1]) - Input(s, m, amt))
      BY <1>8, <2>1, <2>3, <2>4, SmallCodeNearer
    <2>6. QED BY <1>3, <1>5, <1>9, <2>5, Zenon DEF hw, ref
  <1>13. QED BY <1>11, <1>12

(* MxFp8ActQuant.cpp against the reference of test/main_quant.cpp, for     *)
(* every normal word next to every second element: a code is never NaN,    *)
(* and where the reference is in its range the scales agree and the code   *)
(* is at least as close to the input as the reference's.                   *)
THEOREM QuantiserNoWorse == SweepSpec => []QuantNoWorse
  <1>1. IndexIsWord => QuantNoWorse
    <2>1. ASSUME NEW v \in Word, NEW a \in Word, exponent(v) \in 1 .. 254
          PROVE  LET hw == Quantiser!quantize(<<v, a>>)
                     ref == Quantiser!reference_quantize_mxfp8(<<v, a>>)
                     d == exponent(v) - hw.scale
                 IN  /\ hw.act[1] % 128 # 127
                     /\ exponent(a) \in 9 .. 254 /\ d >= -10 =>
                           hw.scale = ref.scale /\ ErrorOf(hw.act[1], v, hw.scale) <= ErrorOf(ref.act[1], v, hw.scale)
      <3>1. exponent(v) # 0 BY <2>1
      <3>2. Quantiser!quantize(<<v, a>>).act[1] % 128 # 127 BY <3>1, NoCodeIsNaN
      <3>3. exponent(a) \in 9 .. 254 /\ exponent(v) - Quantiser!quantize(<<v, a>>).scale >= -10 => Comparable(v, a)
        BY <2>1, Zenon DEF Comparable
      <3>4. QED BY <3>2, <3>3, NoWorse, Zenon
    <2>2. \A a \in Anchors : a \in Word BY SweepAssumption
    <2>3. QED BY <2>1, <2>2, Zenon DEF IndexIsWord, QuantNoWorse, ErrorOf
  <1>2. QED BY <1>1, SweepWord, PTL

-----------------------------------------------------------------------------
(***************************************************************************)
(* The matrix unit.  Every number it computes stands for an exact value: a *)
(* mantissa m at the place of weight P covers x when x lies between m * P  *)
(* and (m + err) * P.  The error of a term is its truncation; the adder    *)
(* trees, the scales and fp_add add their own.  Adding a product to a      *)
(* partial sum shifts one of the two right by the difference of their      *)
(* places, and the shift is defined below 64 only: the place of a partial  *)
(* sum grows only when the sum has grown too (CarryReach), and so by no    *)
(* more than the bits of the number of products.                           *)
(***************************************************************************)
(* The number m * P stands for x, which is up to err * P above it.         *)
Covers(x, m, err, P) == m * P <= x /\ x <= (m + err) * P

(* Numbers for the same x with a larger error; the sum of two; a number    *)
(* times a factor.                                                         *)
LEMMA CoversWider ==
  ASSUME NEW x \in Int, NEW m \in Int, NEW err \in Nat, NEW P \in Nat, Covers(x, m, err, P),
         NEW n \in Int, NEW d \in Nat, n <= m, m + err <= n + d
  PROVE  Covers(x, n, d, P)
  <1>1. n * P <= m * P /\ (m + err) * P <= (n + d) * P
    <2>1. \A a, b \in Int : a <= b => a * P <= b * P OBVIOUS
    <2>2. QED BY <2>1
  <1>2. m * P \in Int /\ n * P \in Int /\ (m + err) * P \in Int /\ (n + d) * P \in Int OBVIOUS
  <1>3. QED BY <1>1, <1>2 DEF Covers

LEMMA CoversSum ==
  ASSUME NEW x \in Int, NEW m \in Int, NEW err \in Nat, NEW P \in Nat, Covers(x, m, err, P),
         NEW y \in Int, NEW n \in Int, NEW d \in Nat, Covers(y, n, d, P)
  PROVE  Covers(x + y, m + n, err + d, P)
  <1>1. (m + n) * P = m * P + n * P OBVIOUS
  <1>2. ((m + n) + (err + d)) * P = (m + err) * P + (n + d) * P OBVIOUS
  <1>3. m * P \in Int /\ n * P \in Int /\ (m + err) * P \in Int /\ (n + d) * P \in Int OBVIOUS
  <1>4. QED BY <1>1, <1>2, <1>3 DEF Covers

LEMMA CoversTimes ==
  ASSUME NEW x \in Int, NEW m \in Int, NEW err \in Nat, NEW P \in Nat, Covers(x, m, err, P),
         NEW k \in Nat
  PROVE  Covers(x * k, m * k, err * k, P) /\ Covers(x * k, m, err, P * k)
  <1> DEFINE lo == m * P
             hi == (m + err) * P
  <1>1. lo \in Int /\ hi \in Int /\ lo <= x /\ x <= hi BY DEF Covers
  <1>2. lo * k = (m * k) * P /\ hi * k = (m * k + err * k) * P OBVIOUS
  <1>3. lo * k = m * (P * k) /\ hi * k = (m + err) * (P * k) OBVIOUS
  <1> HIDE DEF lo, hi
  <1>4. lo * k <= x * k /\ x * k <= hi * k BY <1>1
  <1>5. QED BY <1>2, <1>3, <1>4 DEF Covers

(* A factor on both sides cancels.                                         *)
LEMMA CoversCancel ==
  ASSUME NEW x \in Int, NEW m \in Int, NEW err \in Nat, NEW P \in Nat, NEW k \in Nat \ {0},
         Covers(x * k, m * k, err * k, P)
  PROVE  Covers(x, m, err, P)
  <1> DEFINE lo == m * P
             hi == (m + err) * P
  <1>1. lo \in Int /\ hi \in Int OBVIOUS
  <1>2. lo * k = (m * k) * P /\ hi * k = (m * k + err * k) * P OBVIOUS
  <1>3. lo * k <= x * k /\ x * k <= hi * k BY <1>2 DEF Covers
  <1> HIDE DEF lo, hi
  <1>4. lo <= x /\ x <= hi
    <2>1. \A a, b \in Int : a * k <= b * k => a <= b OBVIOUS
    <2>2. QED BY <1>1, <1>3, <2>1
  <1>5. QED BY <1>4 DEF Covers, lo, hi

(* Bits cut off at the right.                                              *)
LEMMA CoversCut ==
  ASSUME NEW x \in Int, NEW m \in Int, NEW err \in Nat, NEW P \in Nat, Covers(x, m, err, P),
         NEW D \in Nat \ {0}
  PROVE  Covers(x, m \div D, err + 1, P * D)
  <1> DEFINE q == m \div D
  <1>1. q \in Int /\ q * D <= m /\ m + 1 <= q * D + D OBVIOUS
  <1> HIDE DEF q
  <1>2. q * (P * D) = (q * D) * P /\ (q + (err + 1)) * (P * D) = (q * D + D + err * D) * P BY <1>1
  <1>3. err <= err * D OBVIOUS
  <1>4. m + err <= q * D + D + err * D BY <1>1, <1>3
  <1>5. (q * D) * P <= m * P
    <2>1. \A a, b \in Int : a <= b => a * P <= b * P OBVIOUS
    <2>2. q * D \in Int BY <1>1
    <2>3. QED BY <1>1, <2>1, <2>2
  <1>6. (m + err) * P <= (q * D + D + err * D) * P
    <2>1. \A a, b \in Int : a <= b => a * P <= b * P OBVIOUS
    <2>2. q * D + D + err * D \in Int BY <1>1
    <2>3. QED BY <1>4, <2>1, <2>2
  <1>7. m * P \in Int /\ (q * D) * P \in Int /\ (m + err) * P \in Int /\ (q * D + D + err * D) * P \in Int
    BY <1>1
  <1>8. q * (P * D) <= x /\ x <= (q + (err + 1)) * (P * D)
    BY <1>2, <1>5, <1>6, <1>7 DEF Covers
  <1>9. QED BY <1>8 DEF Covers, q

-----------------------------------------------------------------------------
(***************************************************************************)
(* fp_add of Fp32PsumAcc.cpp.                                              *)
(***************************************************************************)
(* Numbers of at most n bits and a sign: of a scaled product, of an aligned *)
(* partial sum, and of their sum.                                          *)
Bits(x, n) == x \in Int /\ -(2^n) <= x /\ x <= 2^n

SumRange(S) == S \in Int /\ -(2^27 + 2^28) <= S /\ S <= 2^27 + 2^28

(* A scaled product has 27 bits and a sign, an aligned partial sum 28.     *)
LEMMA BitsOfSum ==
  ASSUME NEW x, NEW y, Bits(x, 27), Bits(y, 28)
  PROVE  SumRange(x + y) /\ y + x = x + y /\ Bits(x, 28)
  BY SMT DEF Bits, SumRange

(* A quotient is no larger than the number.                                *)
LEMMA QuotientRange ==
  ASSUME NEW x, NEW b \in Nat, Bits(x, b), NEW D \in Nat \ {0}
  PROVE  Bits(x \div D, b)
  <1> DEFINE q == x \div D
             B == 2^b
  <1>1. x \in Int /\ B \in Nat /\ -B <= x /\ x <= B BY Powers DEF Bits
  <1> HIDE DEF B
  <1>2. q \in Int /\ q * D <= x /\ x < (q + 1) * D BY <1>1
  <1> HIDE DEF q
  <1>3. CASE q > B
    <2>1. q <= q * D BY <1>1, <1>2, <1>3
    <2>2. QED BY <1>1, <1>2, <1>3, <2>1
  <1>4. CASE q < -B
    <2>1. (q + 1) * D <= q + 1 BY <1>1, <1>2, <1>4
    <2>2. (q + 1) * D \in Int BY <1>2
    <2>3. QED BY <1>1, <1>2, <1>4, <2>1, <2>2
  <1>5. QED BY <1>1, <1>2, <1>3, <1>4 DEF q, B, Bits

(* The counts for which a shift is defined.                                *)
Places == 0 .. 63

(* A shift by less than 64 is a division.                                  *)
LEMMA SarIs ==
  ASSUME NEW x, Bits(x, 28), NEW n \in Places, NEW ub
  PROVE  Sar(x, n, ub) = x \div 2^n
  <1>1. Sar(x, n, ub) = (IF n > 30 THEN (IF x < 0 THEN -1 ELSE 0) ELSE x \div 2^n)
    BY DEF Sar, Places
  <1>2. CASE n > 30
    <2>1. 2^30 <= 2^n /\ 2^n \in Nat \ {0}
      <3>1. n \in Nat /\ 30 \in Nat /\ 30 <= n BY <1>2 DEF Places
      <3>2. QED BY <3>1, PowerOrder, Powers
    <2> DEFINE D == 2^n
    <2>2. x \in Int /\ D \in Nat \ {0} /\ -D <= x /\ x < D
      <3>1. D \in Nat \ {0} /\ 2^30 <= D BY <2>1
      <3> HIDE DEF D
      <3>2. QED BY <3>1, SMT DEF Bits
    <2> HIDE DEF D
    <2>3. x < 0 => x \div D = -1
      <3> SUFFICES ASSUME x < 0 PROVE x \div D = -1
        OBVIOUS
      <3>1. (-1) * D <= x /\ x < (-1 + 1) * D BY <2>2
      <3>2. QED BY <2>2, <3>1, QuotientIs
    <2>4. x >= 0 => x \div D = 0
      <3> SUFFICES ASSUME x >= 0 PROVE x \div D = 0
        OBVIOUS
      <3>1. 0 * D <= x /\ x < (0 + 1) * D BY <2>2
      <3>2. QED BY <2>2, <3>1, QuotientIs
    <2>5. QED BY <1>1, <1>2, <2>2, <2>3, <2>4 DEF D
  <1>3. QED BY <1>1, <1>2

(* Aligning a term by a shift right costs one more unit at the new place.  *)
LEMMA AlignedTerm ==
  ASSUME NEW x \in Int, NEW b \in Nat, NEW m, Bits(m, b), Bits(m, 28), NEW err \in Nat,
         NEW r \in Nat, NEW d \in Places, NEW ub, Covers(x, m, err, 2^r)
  PROVE  Bits(Sar(m, d, ub), b) /\ Covers(x, Sar(m, d, ub), err + 1, 2^(r + d))
  <1>1. Sar(m, d, ub) = m \div 2^d BY SarIs
  <1>2. 2^d \in Nat \ {0} /\ 2^r \in Nat /\ 2^(r + d) = 2^r * 2^d
    <2>1. d \in Nat BY DEF Places
    <2>2. QED BY <2>1, Powers, PowerSum
  <1>3. Bits(m \div 2^d, b)
    <2>1. b \in Nat OBVIOUS
    <2>2. QED BY <1>2, <2>1, QuotientRange
  <1>4. Covers(x, m \div 2^d, err + 1, 2^r * 2^d)
    <2>1. m \in Int BY DEF Bits
    <2>2. QED BY <1>2, <2>1, CoversCut
  <1>5. QED BY <1>1, <1>2, <1>3, <1>4

(* The aligned sum of Fp32PsumAcc.cpp, fp_add, before the carry.           *)
AlignedTerms(r1, m1, r2, m2, ub) ==
    IF r1 > r2 THEN m1 + Sar(m2, r1 - r2, ub) ELSE Sar(m1, r2 - r1, ub) + m2

(* The aligned terms stand for the sum of what they stood for.             *)
LEMMA TermsCovered ==
  ASSUME NEW r1 \in Places, NEW r2 \in Places, NEW ub,
         NEW x1 \in Int, NEW m1, Bits(m1, 27), NEW e1 \in Nat, Covers(x1, m1, e1, 2^r1),
         NEW x2 \in Int, NEW m2, Bits(m2, 28), NEW e2 \in Nat, Covers(x2, m2, e2, 2^r2)
  PROVE  /\ SumRange(AlignedTerms(r1, m1, r2, m2, ub))
         /\ Covers(x1 + x2, AlignedTerms(r1, m1, r2, m2, ub), e1 + e2 + 1, 2^Larger(r1, r2))
  <1>1. CASE r1 > r2
    <2> DEFINE s == Sar(m2, r1 - r2, ub)
    <2>1. r1 - r2 \in Places /\ r2 + (r1 - r2) = r1 /\ r2 \in Nat BY <1>1 DEF Places
    <2>2. Bits(s, 28) /\ Covers(x2, s, e2 + 1, 2^(r2 + (r1 - r2)))
      <3>1. 28 \in Nat OBVIOUS
      <3>2. QED BY <2>1, <3>1, AlignedTerm
    <2>3. Covers(x2, s, e2 + 1, 2^r1) BY <2>1, <2>2
    <2>4. AlignedTerms(r1, m1, r2, m2, ub) = m1 + s /\ Larger(r1, r2) = r1
      BY <1>1 DEF AlignedTerms, Larger
    <2> HIDE DEF s
    <2>5. Covers(x1 + x2, m1 + s, e1 + (e2 + 1), 2^r1)
      <3>1. 2^r1 \in Nat
        <4>1. r1 \in Nat BY DEF Places
        <4>2. QED BY <4>1, Powers
      <3>2. m1 \in Int /\ s \in Int /\ e2 + 1 \in Nat BY <2>2 DEF Bits
      <3>3. QED BY <2>3, <3>1, <3>2, CoversSum
    <2>6. e1 + (e2 + 1) = e1 + e2 + 1 OBVIOUS
    <2>7. SumRange(m1 + s) BY <2>2, BitsOfSum
    <2>8. QED BY <2>4, <2>5, <2>6, <2>7, Zenon
  <1>2. CASE ~(r1 > r2)
    <2> DEFINE s == Sar(m1, r2 - r1, ub)
    <2>1. r2 - r1 \in Places /\ r1 + (r2 - r1) = r2 /\ r1 \in Nat BY <1>2 DEF Places
    <2>2. Bits(s, 27) /\ Covers(x1, s, e1 + 1, 2^(r1 + (r2 - r1)))
      <3>1. 27 \in Nat /\ Bits(m1, 28) BY BitsOfSum
      <3>2. QED BY <2>1, <3>1, AlignedTerm
    <2>3. Covers(x1, s, e1 + 1, 2^r2) BY <2>1, <2>2
    <2>4. AlignedTerms(r1, m1, r2, m2, ub) = s + m2 /\ Larger(r1, r2) = r2
      BY <1>2 DEF AlignedTerms, Larger
    <2> HIDE DEF s
    <2>5. Covers(x1 + x2, s + m2, (e1 + 1) + e2, 2^r2)
      <3>1. 2^r2 \in Nat
        <4>1. r2 \in Nat BY DEF Places
        <4>2. QED BY <4>1, Powers
      <3>2. m2 \in Int /\ s \in Int /\ e1 + 1 \in Nat BY <2>2 DEF Bits
      <3>3. QED BY <2>3, <3>1, <3>2, CoversSum
    <2>6. (e1 + 1) + e2 = e1 + e2 + 1 OBVIOUS
    <2>7. SumRange(s + m2) BY <2>2, BitsOfSum
    <2>8. QED BY <2>4, <2>5, <2>6, <2>7, Zenon
  <1>3. QED BY <1>1, <1>2

(* The carry shows in the two bits below the sign.                         *)
NoCarry(S) == -(2^28) <= S /\ S < 2^28

(* The bits the code compares are those of the aligned sum.                *)
LEMMA CarryIs ==
  ASSUME NEW S, SumRange(S)
  PROVE  /\ ((S \div 2^29) % 2 # (S \div 2^28) % 2) <=> ~NoCarry(S)
         /\ NoCarry(S) => sign_extend(S \div 2^6, 23) = S \div 2^6
  <1> DEFINE p == S \div 2^29
             q == S \div 2^28
  <1>1. \A x \in Int : (x + 2 > 0 /\ x < 0 => x % 2 = 1) /\ (x + 3 > 0 /\ x + 1 < 0 => x % 2 = 0) BY SMT
  <1>2. CASE S >= 2^28
    <2>1. p = 0 /\ q = 1 BY <1>2, SMT DEF SumRange
    <2> HIDE DEF p, q
    <2>2. p % 2 # q % 2 BY <2>1, SMT
    <2>3. QED BY <1>2, <2>2, SMT DEF p, q, NoCarry, SumRange
  <1>3. CASE 0 <= S /\ S < 2^28
    <2>1. p = 0 /\ q = 0 BY <1>3, SMT DEF SumRange
    <2> HIDE DEF p, q
    <2>2. p % 2 = q % 2 BY <2>1, SMT
    <2>3. sign_extend(S \div 2^6, 23) = S \div 2^6 BY <1>3, SMT DEF sign_extend, SumRange
    <2>4. QED BY <1>3, <2>2, <2>3, SMT DEF p, q, NoCarry, SumRange
  <1>4. CASE S < 0 /\ -(2^28) <= S
    <2>1. p \in Int /\ q \in Int /\ p + 2 > 0 /\ p < 0 /\ q + 2 > 0 /\ q < 0 BY <1>4, SMT DEF SumRange
    <2> HIDE DEF p, q
    <2>2. p % 2 = q % 2 BY <1>1, <2>1, SMT
    <2>3. sign_extend(S \div 2^6, 23) = S \div 2^6 BY <1>4, SMT DEF sign_extend, SumRange
    <2>4. QED BY <1>4, <2>2, <2>3, SMT DEF p, q, NoCarry, SumRange
  <1>5. CASE S < -(2^28)
    <2>1. p \in Int /\ q \in Int /\ p + 2 > 0 /\ p < 0 /\ q + 3 > 0 /\ q + 1 < 0 BY <1>5, SMT DEF SumRange
    <2> HIDE DEF p, q
    <2>2. p % 2 # q % 2 BY <1>1, <2>1, SMT
    <2>3. QED BY <1>5, <2>2, SMT DEF p, q, NoCarry, SumRange
  <1>6. QED BY <1>2, <1>3, <1>4, <1>5, SMT DEF SumRange

(* A factor of the number and of its error belongs to the place.           *)
LEMMA CoversShift ==
  ASSUME NEW x \in Int, NEW m \in Int, NEW err \in Nat, NEW P \in Nat, NEW k \in Nat,
         Covers(x, m * k, err * k, P)
  PROVE  Covers(x, m, err, P * k)
  <1>1. (m * k) * P = m * (P * k) /\ (m * k + err * k) * P = (m + err) * (P * k) OBVIOUS
  <1>2. QED BY <1>1 DEF Covers

(* Partial sums have 23 bits.                                              *)
Bits23(m) == m \in Int /\ -(2^22) <= m /\ m < 2^22

(* What is left of the sum when its low bits are dropped has 23 bits.      *)
LEMMA CutSum ==
  ASSUME NEW S, SumRange(S)
  PROVE  /\ NoCarry(S) => Bits23(S \div 2^6)
         /\ Bits23(S \div 2^7)
         /\ S \div 2^6 \in Int /\ 64 * (S \div 2^6) <= S /\ S <= 64 * (S \div 2^6) + 63
         /\ S \div 2^7 \in Int /\ 128 * (S \div 2^7) <= S /\ S <= 128 * (S \div 2^7) + 127
  BY SMT DEF Bits23, NoCarry, SumRange

(* What fp_add makes of the aligned sum S.                                 *)
FromSum(exp, S) ==
    IF NoCarry(S) THEN [exp |-> exp, mat |-> S \div 2^6] ELSE [exp |-> exp + 1, mat |-> S \div 2^7]

(* fp_add is that sum, cut by six bits, or by seven and one place up.      *)
LEMMA FpAddIs ==
  ASSUME NEW b \in Nat, NEW r1 \in Places, NEW r2 \in Places, NEW m1, NEW m2, NEW ub,
         SumRange(AlignedTerms(r1, m1, r2, m2, ub))
  PROVE  fp_add(b + r1, m1, b + r2, m2, ub)
           = FromSum(b + Larger(r1, r2), AlignedTerms(r1, m1, r2, m2, ub))
  <1> DEFINE S == AlignedTerms(r1, m1, r2, m2, ub)
             exp1 == b + r1
             exp2 == b + r2
             sum == IF exp1 > exp2 THEN m1 + Sar(m2, exp1 - exp2, ub)
                    ELSE Sar(m1, exp2 - exp1, ub) + m2
             exp == IF exp1 > exp2 THEN exp1 ELSE exp2
  <1>1. (exp1 > exp2 <=> r1 > r2) /\ exp1 - exp2 = r1 - r2 /\ exp2 - exp1 = r2 - r1
    BY DEF Places
  <1>2. sum = S BY <1>1, Zenon DEF AlignedTerms
  <1>3. exp = b + Larger(r1, r2) BY <1>1 DEF Larger
  <1>4. MAT_WIDTH + 5 = 29 /\ MAT_WIDTH + 4 = 28 /\ MAT_WIDTH - 1 = 23 BY DEF MAT_WIDTH
  <1> HIDE DEF exp1, exp2
  <1>5. fp_add(exp1, m1, exp2, m2, ub)
          = IF (sum \div 2^29) % 2 # (sum \div 2^28) % 2 THEN [exp |-> exp + 1, mat |-> sum \div 2^7]
            ELSE [exp |-> exp, mat |-> sign_extend(sum \div 2^6, 23)]
    BY <1>4, Zenon DEF fp_add
  <1> HIDE DEF sum, exp
  <1>6. /\ (S \div 2^29) % 2 # (S \div 2^28) % 2 <=> ~NoCarry(S)
        /\ NoCarry(S) => sign_extend(S \div 2^6, 23) = S \div 2^6
    BY CarryIs
  <1> HIDE DEF S
  <1>7. fp_add(exp1, m1, exp2, m2, ub) = FromSum(b + Larger(r1, r2), S)
    BY <1>2, <1>3, <1>5, <1>6, Zenon DEF FromSum
  <1>8. QED BY <1>7, Zenon DEF exp1, exp2, S

(* A sum as fp_add returns it: R is the larger place of the terms.         *)
IsSum(p, b, R, x, e) ==
    \E r, m :
        /\ r \in Nat
        /\ p = [exp |-> b + r, mat |-> m]
        /\ Bits23(m)
        /\ Covers(x, 64 * m, e + 65, 2^r)
        /\ \/ r = R
           \/ r = R + 1 /\ \E S \in Int : Covers(x, S, e + 1, 2^R) /\ ~NoCarry(S)

(* The result of fp_add stands for the sum of its operands: each of the two*)
(* cuts and the alignment add to the error.                                *)
LEMMA FpAddCovers ==
  ASSUME NEW b \in Nat, NEW r1 \in Places, NEW r2 \in Places, NEW ub,
         NEW x1 \in Int, NEW m1, Bits(m1, 27), NEW e1 \in Nat, Covers(x1, m1, e1, 2^r1),
         NEW x2 \in Int, NEW m2, Bits(m2, 28), NEW e2 \in Nat, Covers(x2, m2, e2, 2^r2)
  PROVE  IsSum(fp_add(b + r1, m1, b + r2, m2, ub), b, Larger(r1, r2), x1 + x2, e1 + e2)
  <1> DEFINE S == AlignedTerms(r1, m1, r2, m2, ub)
             R == Larger(r1, r2)
             x == x1 + x2
             e == e1 + e2 + 1
  <1>1. SumRange(S) /\ Covers(x, S, e, 2^R) BY TermsCovered
  <1>2. R \in Nat BY DEF Larger, Places
  <1>3. fp_add(b + r1, m1, b + r2, m2, ub)
           = IF NoCarry(S) THEN [exp |-> b + R, mat |-> S \div 2^6]
             ELSE [exp |-> b + R + 1, mat |-> S \div 2^7]
    <2>1. fp_add(b + r1, m1, b + r2, m2, ub) = FromSum(b + R, S) BY <1>1, FpAddIs
    <2> HIDE DEF S, R
    <2>2. QED BY <2>1, Zenon DEF FromSum
  <1>4. x \in Int /\ e \in Nat /\ e1 + e2 + 65 = e + 64 OBVIOUS
  <1> HIDE DEF S, R, x, e
  <1>5. S \in Int BY <1>1 DEF SumRange
  <1>6. 2^R \in Nat BY <1>2, Powers
  <1>7. CASE NoCarry(S)
    <2> DEFINE q == S \div 2^6
    <2>1. q \in Int /\ 64 * q <= S /\ S <= 64 * q + 63 /\ Bits23(q) BY <1>1, <1>7, CutSum
    <2> HIDE DEF q
    <2>2. Covers(x, 64 * q, e + 64, 2^R)
      <3>1. 64 * q \in Int /\ e + 64 \in Nat /\ 64 * q <= S /\ S + e <= 64 * q + (e + 64) BY <1>4, <1>5, <2>1
      <3>2. QED BY <1>1, <1>4, <1>5, <1>6, <3>1, CoversWider
    <2>3. fp_add(b + r1, m1, b + r2, m2, ub) = [exp |-> b + R, mat |-> q] BY <1>3, <1>7, Zenon DEF q
    <2>4. QED BY <1>2, <1>4, <2>1, <2>2, <2>3, Zenon DEF IsSum, x, R
  <1>8. CASE ~NoCarry(S)
    <2> DEFINE q == S \div 2^7
    <2>1. q \in Int /\ 128 * q <= S /\ S <= 128 * q + 127 /\ Bits23(q) BY <1>1, CutSum
    <2> HIDE DEF q
    <2>2. Covers(x, (64 * q) * 2, (e + 64) * 2, 2^R)
      <3>1. (64 * q) * 2 \in Int /\ (e + 64) * 2 \in Nat /\ (64 * q) * 2 <= S
            /\ S + e <= (64 * q) * 2 + (e + 64) * 2
        BY <1>4, <1>5, <2>1
      <3>2. QED BY <1>1, <1>4, <1>5, <1>6, <3>1, CoversWider
    <2>3. Covers(x, 64 * q, e + 64, 2^R * 2)
      <3>1. 64 * q \in Int /\ e + 64 \in Nat BY <1>4, <2>1
      <3>2. QED BY <1>4, <1>6, <2>2, <3>1, CoversShift
    <2>4. 2^(R + 1) = 2^R * 2 /\ R + 1 \in Nat /\ b + R + 1 = b + (R + 1)
      <3>1. 2^(R + 1) = 2 * 2^R BY <1>2, PowerStep
      <3>2. QED BY <1>2, <1>6, <3>1
    <2>5. fp_add(b + r1, m1, b + r2, m2, ub) = [exp |-> b + (R + 1), mat |-> q]
      BY <1>3, <1>8, <2>4, Zenon DEF q
    <2>6. Covers(x, 64 * q, e + 64, 2^(R + 1)) BY <2>3, <2>4, Zenon
    <2>7. QED BY <1>1, <1>4, <1>5, <1>8, <2>1, <2>4, <2>5, <2>6, Zenon DEF IsSum, x, R, e
  <1>9. QED BY <1>7, <1>8

-----------------------------------------------------------------------------
(***************************************************************************)
(* The adder tree, and the exact dot product next to it.                   *)
(***************************************************************************)
(* The sums of a row.                                                      *)
Row == 1 .. ROW_SIZE
AddsUp(y, sum) == sum[0] = 0 /\ \A i \in Row : sum[i] = sum[i - 1] + y[i]

(* The length of a row.                                                    *)
LEMMA RowSize == ROW_SIZE \in Nat /\ ROW_SIZE = 16 /\ ROW_SIZE \in 0 .. ROW_SIZE
  BY DEF ROW_SIZE

(* The recursion of the adder tree and of the exact dot product.           *)
IsTotal(g, y) == g = [i \in 0 .. ROW_SIZE |-> IF i = 0 THEN 0 ELSE g[i - 1] + y[i]]

(* The recursion has a solution.                                           *)
LEMMA RunningTotal ==
  ASSUME NEW y \in [Row -> Int]
  PROVE  \E g \in [0 .. ROW_SIZE -> Int] : IsTotal(g, y)
  <1> DEFINE n == ROW_SIZE
             F == [s \in Int \X (1 .. n) |-> s[1] + y[s[2]]]
  <1>1. n \in Nat /\ Row = 1 .. n BY RowSize DEF Row
  <1> HIDE DEF n
  <1>2. F \in [Int \X (1 .. n) -> Int] BY <1>1
  <1>3. PICK g \in [0 .. n -> Int] : Stepwise(g, n, 0, F)
    <2> HIDE DEF F
    <2>1. 0 \in Int OBVIOUS
    <2>2. QED BY <1>1, <1>2, <2>1, StepwiseExists, Zenon
  <1>4. g[0] = 0 /\ \A i \in 1 .. n : g[i] = g[i - 1] + y[i]
    <2>1. g[0] = 0 /\ \A i \in 1 .. n : g[i] = F[<<g[i - 1], i>>]
      <3> HIDE DEF F
      <3>1. QED BY <1>3 DEF Stepwise
    <2>2. ASSUME NEW i \in 1 .. n PROVE F[<<g[i - 1], i>>] = g[i - 1] + y[i]
      <3>1. g[i - 1] \in Int BY <1>1
      <3>2. QED BY <3>1
    <2>3. QED BY <2>1, <2>2
  <1> HIDE DEF F
  <1>5. g = [i \in 0 .. n |-> IF i = 0 THEN 0 ELSE g[i - 1] + y[i]] BY <1>1, <1>4
  <1>6. QED BY <1>5 DEF n, IsTotal

(* What satisfies the recursion adds up.                                   *)
LEMMA TotalIs ==
  ASSUME NEW y \in [Row -> Int], NEW g, IsTotal(g, y)
  PROVE  g \in [0 .. ROW_SIZE -> Int] /\ AddsUp(y, g)
  <1> DEFINE n == ROW_SIZE
  <1>1. n \in Nat /\ Row = 1 .. n BY RowSize DEF Row
  <1> HIDE DEF n
  <1>2. g[0] = 0 /\ \A i \in 1 .. n : g[i] = g[i - 1] + y[i]
    <2>1. 0 \in 0 .. n /\ \A i \in 1 .. n : i \in 0 .. n /\ i # 0 BY <1>1
    <2>2. g = [i \in 0 .. n |-> IF i = 0 THEN 0 ELSE g[i - 1] + y[i]] BY DEF n, IsTotal
    <2>3. \A i \in 0 .. n : g[i] = IF i = 0 THEN 0 ELSE g[i - 1] + y[i] BY <2>2, Zenon
    <2>4. QED BY <2>1, <2>3
  <1>3. \A i \in 0 .. n : g[i] \in Int
    <2>1. g[0] \in Int BY <1>2
    <2>2. \A i \in 1 .. n : y[i] \in Int BY <1>1
    <2>3. \A i \in 1 .. n : g[i - 1] \in Int => g[i] \in Int BY <1>2, <2>2
    <2>4. QED BY <1>1, <2>1, <2>3, StaysIn
  <1>4. g = [i \in 0 .. n |-> g[i]]
    <2>1. g = [i \in 0 .. n |-> IF i = 0 THEN 0 ELSE g[i - 1] + y[i]] BY DEF n, IsTotal
    <2>2. DOMAIN g = 0 .. n BY <2>1, Zenon
    <2>3. QED BY <2>1, <2>2
  <1>5. g \in [0 .. n -> Int] BY <1>3, <1>4
  <1>6. QED BY <1>1, <1>2, <1>5 DEF n, AddsUp

(* The adder tree is the running total of the terms, divided by 16.        *)
LEMMA TreeIs ==
  ASSUME NEW x, NEW w, NEW y \in [Row -> Int], \A i \in Row : sign_extend(x[i], w) = y[i]
  PROVE  \E sum \in [0 .. ROW_SIZE -> Int] :
            AddsUp(y, sum) /\ IntAdderTree(x, w) = sum[ROW_SIZE] \div 16
  <1> DEFINE Rec(g) == g = [i \in 0 .. ROW_SIZE |->
                               IF i = 0 THEN 0 ELSE g[i - 1] + sign_extend(x[i], w)]
             sum == CHOOSE g : Rec(g)
  <1>1. IntAdderTree(x, w) = sum[ROW_SIZE] \div 16 BY DEF IntAdderTree
  <1>2. \A i \in 0 .. ROW_SIZE : i # 0 => i \in Row BY RowSize DEF Row
  <1>3. \A g : [i \in 0 .. ROW_SIZE |-> IF i = 0 THEN 0 ELSE g[i - 1] + sign_extend(x[i], w)]
             = [i \in 0 .. ROW_SIZE |-> IF i = 0 THEN 0 ELSE g[i - 1] + y[i]]
    BY <1>2
  <1>4. PICK g \in [0 .. ROW_SIZE -> Int] : IsTotal(g, y) BY RunningTotal
  <1>5. Rec(g) BY <1>3, <1>4, Zenon DEF IsTotal
  <1>6. Rec(sum) BY <1>5, Zenon
  <1>7. IsTotal(sum, y)
    <2> HIDE DEF sum
    <2>1. QED BY <1>3, <1>6, Zenon DEF IsTotal
  <1> HIDE DEF sum
  <1>8. QED BY <1>1, <1>7, TotalIs

(* The exact dot product is the running total of the exact products.       *)
LEMMA DotIs ==
  ASSUME NEW act, NEW values, NEW y \in [Row -> Int],
         \A i \in Row : Fp8Value(act[i]) * values[i] = y[i]
  PROVE  \E sum \in [0 .. ROW_SIZE -> Int] :
            AddsUp(y, sum) /\ Dot(act, values) = sum[ROW_SIZE]
  <1> DEFINE Rec(g) == g = [i \in 0 .. ROW_SIZE |->
                               IF i = 0 THEN 0 ELSE g[i - 1] + Fp8Value(act[i]) * values[i]]
             sum == CHOOSE g : Rec(g)
  <1>1. Dot(act, values) = sum[ROW_SIZE] BY DEF Dot
  <1>2. \A i \in 0 .. ROW_SIZE : i # 0 => i \in Row BY RowSize DEF Row
  <1>3. \A g : [i \in 0 .. ROW_SIZE |-> IF i = 0 THEN 0 ELSE g[i - 1] + Fp8Value(act[i]) * values[i]]
             = [i \in 0 .. ROW_SIZE |-> IF i = 0 THEN 0 ELSE g[i - 1] + y[i]]
    BY <1>2
  <1>4. PICK g \in [0 .. ROW_SIZE -> Int] : IsTotal(g, y) BY RunningTotal
  <1>5. Rec(g) BY <1>3, <1>4, Zenon DEF IsTotal
  <1>6. Rec(sum) BY <1>5, Zenon
  <1>7. IsTotal(sum, y)
    <2> HIDE DEF sum
    <2>1. QED BY <1>3, <1>6, Zenon DEF IsTotal
  <1> HIDE DEF sum
  <1>8. QED BY <1>1, <1>7, TotalIs

-----------------------------------------------------------------------------
(***************************************************************************)
(* FP8 activations and weights: MxFp8Product.cpp, ActDeNorm and Fp8Product.*)
(***************************************************************************)
(* The numbers of the formats.                                             *)
Bytes == 0 .. 255
Fourth == 0 .. 3
Nibble == 0 .. 15

(* The fields of an FP8 number, and the two halves of its exponent and of  *)
(* its mantissa.                                                           *)
LEMMA FieldsOfByte ==
  ASSUME NEW v \in Bytes
  PROVE  /\ fp8_exp(v) \in Nibble /\ fp8_mat(v) \in Nibble
         /\ v \div 128 \in {0, 1} /\ (v \div 128 = 1 <=> v >= 128)
         /\ fp8_exp(v) % 4 \in Fourth /\ fp8_exp(v) \div 4 \in Fourth
         /\ fp8_exp(v) = (fp8_exp(v) % 4) + 4 * (fp8_exp(v) \div 4)
         /\ fp8_mat(v) % 4 \in Fourth /\ fp8_mat(v) \div 4 \in Fourth
         /\ fp8_mat(v) = (fp8_mat(v) % 4) + 4 * (fp8_mat(v) \div 4)
  <1> DEFINE e == fp8_exp(v)
             m == fp8_mat(v)
  <1>1. e \in Nibble /\ m \in Nibble BY SMT DEF Bytes, Nibble, fp8_exp, fp8_mat
  <1>2. v \div 128 \in {0, 1} /\ (v \div 128 = 1 <=> v >= 128) BY SMT DEF Bytes
  <1> HIDE DEF e, m
  <1>3. e % 4 \in Fourth /\ e \div 4 \in Fourth /\ e = (e % 4) + 4 * (e \div 4)
    BY <1>1, SMT DEF Nibble, Fourth
  <1>4. m % 4 \in Fourth /\ m \div 4 \in Fourth /\ m = (m % 4) + 4 * (m \div 4)
    BY <1>1, SMT DEF Nibble, Fourth
  <1>5. QED BY <1>1, <1>2, <1>3, <1>4 DEF e, m

(* The largest of a set of exponents.                                      *)
Largest(S) == CHOOSE e \in S : \A f \in S : f <= e

(* It is there, and no exponent is larger.                                 *)
LEMMA LargestIs ==
  ASSUME NEW S, S \subseteq Nibble, S # {}
  PROVE  Largest(S) \in S /\ \A f \in S : f <= Largest(S)
  <1> DEFINE T == {15 - e : e \in S}
  <1>1. PICK x \in T : \A y \in T : x <= y
    <2>1. T \subseteq Nat BY DEF Nibble
    <2>2. T # {} OBVIOUS
    <2> HIDE DEF T
    <2>3. QED BY <2>1, <2>2, LeastNatural
  <1>2. PICK e \in S : x = 15 - e OBVIOUS
  <1>3. \A f \in S : f <= e
    <2> SUFFICES ASSUME NEW f \in S PROVE f <= e
      OBVIOUS
    <2>1. 15 - e <= 15 - f BY <1>1, <1>2
    <2>2. e \in Nibble /\ f \in Nibble OBVIOUS
    <2>3. QED BY <2>1, <2>2 DEF Nibble
  <1>4. QED BY <1>3, Zenon DEF Largest

(* An exact shift.                                                         *)
LEMMA ExactShift ==
  ASSUME NEW m \in Nat, NEW n \in Nat, NEW d \in Nat, d <= n
  PROVE  /\ (m * 2^n) \div 2^d \in Nat
         /\ ((m * 2^n) \div 2^d) * 2^d = m * 2^n
         /\ (m * 2^n) \div 2^d <= m * 2^n
  <1> DEFINE c == n - d
             D == 2^d
             C == 2^c
             q == m * C
  <1>1. c \in Nat /\ c + d = n OBVIOUS
  <1> HIDE DEF c
  <1>2. D \in Nat \ {0} /\ C \in Nat BY <1>1, Powers
  <1>3. 2^n = C * D
    <2>1. 2^(c + d) = 2^c * 2^d BY <1>1, PowerSum
    <2>2. QED BY <1>1, <2>1
  <1> HIDE DEF D, C
  <1>4. q \in Nat /\ q * D = m * (C * D) BY <1>2
  <1> HIDE DEF q
  <1>5. (q * D) \div D = q
    <2>1. q * D \in Int /\ q \in Int /\ q * D <= q * D /\ q * D < (q + 1) * D BY <1>2, <1>4
    <2>2. QED BY <1>2, <2>1, QuotientIs
  <1>6. q <= q * D BY <1>2, <1>4
  <1>7. (m * 2^n) \div 2^d = q BY <1>3, <1>4, <1>5 DEF D
  <1>8. QED BY <1>3, <1>4, <1>6, <1>7 DEF D

(* An aligned activation.                                                  *)
ActRange(A) == A \in Nat /\ A <= 491520

(* Aligning a mantissa of 4 bits and 15 guard bits loses nothing.          *)
LEMMA ActElement ==
  ASSUME NEW m \in Nibble, NEW e \in Nibble, NEW top \in Nibble, e <= top
  PROVE  /\ ActRange((m * 2^15) \div 2^(top - e))
         /\ ((m * 2^15) \div 2^(top - e)) * 2^top = (m * 2^e) * 2^15
  <1> DEFINE d == top - e
             A == (m * 2^15) \div 2^d
             D == 2^d
             B == 2^e
  <1>1. m \in Nat /\ d \in Nat /\ e \in Nat /\ d <= 15 /\ d + e = top /\ m <= 15 BY DEF Nibble
  <1>2. A \in Nat /\ A * 2^d = m * 2^15 /\ A <= m * 2^15
    <2> HIDE DEF d
    <2>1. 15 \in Nat OBVIOUS
    <2>2. QED BY <1>1, <2>1, ExactShift, Zenon
  <1> HIDE DEF d
  <1>3. 2^top = D * B
    <2>1. 2^(d + e) = 2^d * 2^e BY <1>1, PowerSum
    <2>2. QED BY <1>1, <2>1
  <1>4. D \in Nat /\ B \in Nat BY <1>1, Powers
  <1>5. A * D = m * 32768 BY <1>2
  <1>6. ActRange(A) BY <1>1, <1>2 DEF ActRange
  <1> HIDE DEF A, D, B
  <1>7. A * (D * B) = (A * D) * B BY <1>2, <1>4
  <1>8. A * (D * B) = (m * B) * 32768 BY <1>1, <1>4, <1>5, <1>7
  <1>9. QED BY <1>3, <1>6, <1>8 DEF A, B, d

(* A product of an activation's mantissa and a digit, with its sign.       *)
Flipped(neg, x) == IF neg THEN -x ELSE x
Term22(x) == x \in Int /\ x + 1474560 >= 0 /\ x <= 1474560
Term25(y) == y \in Int /\ y + 11796480 >= 0 /\ y <= 11796480
Term24(y) == y \in Int /\ y + 5898240 >= 0 /\ y <= 5898240

(* The multiples 0 to 3 of a mantissa, which the code adds up, with their  *)
(* sign.                                                                   *)
LEMMA MultipleIs ==
  ASSUME NEW A, ActRange(A), NEW k \in Fourth, NEW neg \in BOOLEAN
  PROVE  Multiple(A, k, neg) = Flipped(neg, k * A)
         /\ Term22(Flipped(neg, k * A))
  <1> DEFINE x == Flipped(neg, k * A)
  <1>1. k = 0 \/ k = 1 \/ k = 2 \/ k = 3 BY DEF Fourth
  <1>2. Term22(x)
    <2>1. k * A \in Int /\ k * A >= 0 /\ k * A <= 1474560 BY <1>1, SMT DEF ActRange
    <2> DEFINE z == k * A
    <2> HIDE DEF z
    <2>2. Term22(Flipped(neg, z)) BY <2>1, SMT DEF Flipped, Term22, z
    <2>3. QED BY <2>2, Zenon DEF z
  <1>3. Multiple(A, k, neg) = sign_extend(x, 22) BY Zenon DEF Multiple, Flipped
  <1> HIDE DEF x
  <1>4. sign_extend(x, 22) = x BY <1>2, SMT DEF sign_extend, Term22
  <1>5. QED BY <1>2, <1>3, <1>4, Zenon DEF x

(* The low bits of an exponent shift by up to three places.                *)
LEMMA FourthPower ==
  ASSUME NEW low \in Fourth
  PROVE  2^low \in {1, 2, 4, 8}
  <1>1. low = 0 \/ low = 1 \/ low = 2 \/ low = 3 BY DEF Fourth
  <1>2. low = 0 => 2^low = 2^0 BY Zenon
  <1>3. low = 1 => 2^low = 2^1 BY Zenon
  <1>4. low = 2 => 2^low = 2^2 BY Zenon
  <1>5. low = 3 => 2^low = 2^3 BY Zenon
  <1>6. QED BY <1>1, <1>2, <1>3, <1>4, <1>5

(* A multiple shifted by the low bits of the exponent fits 25 bits.        *)
LEMMA ShiftedTerm ==
  ASSUME NEW A, ActRange(A), NEW k \in Fourth, NEW neg \in BOOLEAN, NEW low \in Fourth
  PROVE  /\ Multiple(A, k, neg) * 2^low = Flipped(neg, k * A) * 2^low
         /\ Term25(Flipped(neg, k * A) * 2^low)
  <1> DEFINE x == Flipped(neg, k * A)
             P == 2^low
  <1>1. Multiple(A, k, neg) = x /\ Term22(x) BY MultipleIs, Zenon
  <1>2. P \in {1, 2, 4, 8} BY FourthPower
  <1> HIDE DEF x, P
  <1>3. Term25(x * P) BY <1>1, <1>2, SMT DEF Term25, Term22
  <1>4. QED BY <1>1, <1>3, Zenon DEF x, P

(* So the conversion to 25 bits keeps it,                                  *)
LEMMA TermKept ==
  ASSUME NEW y, Term25(y)
  PROVE  sign_extend(y, 25) = y
  BY SMT DEF sign_extend, Term25

(* and that to 24 bits keeps half of it.                                   *)
LEMMA HalfKept ==
  ASSUME NEW s, Term24(s)
  PROVE  sign_extend(s % 2^24, 24) = s
  BY SMT DEF sign_extend, Term24

(* A divisor of at least two halves a term.                                *)
LEMMA HalfTerm ==
  ASSUME NEW y, Term25(y), NEW D \in Nat, D >= 2
  PROVE  Term24(y \div D)
  <1> DEFINE s == y \div D
  <1>1. s \in Int /\ s * D <= y /\ y < (s + 1) * D BY SMT DEF Term25
  <1> HIDE DEF s
  <1>2. ASSUME s > 5898240 PROVE FALSE
    <2>1. s * 2 <= s * D BY <1>1, <1>2, SMT
    <2>2. s * D \in Int BY <1>1
    <2>3. QED BY <1>1, <1>2, <2>1, <2>2, SMT DEF Term25
  <1>3. ASSUME s + 5898240 < 0 PROVE FALSE
    <2>1. (s + 1) * D <= (s + 1) * 2 BY <1>1, <1>3, SMT
    <2>2. (s + 1) * D \in Int BY <1>1
    <2>3. QED BY <1>1, <1>3, <2>1, <2>2, SMT DEF Term25
  <1>4. QED BY <1>1, <1>2, <1>3, SMT DEF s, Term24

(* An exact number.                                                        *)
LEMMA CoversExact ==
  ASSUME NEW x \in Int
  PROVE  Covers(x, x, 0, 1)
  BY DEF Covers

(* A digit's term, cut at the common exponent of the weights.              *)
LEMMA DigitCut ==
  ASSUME NEW y, Term25(y), NEW top \in Fourth, NEW high \in Fourth, high <= top
  PROVE  /\ Term24(y \div 2^((top - high) * 4 + 1))
         /\ Covers(y * 2^(high * 4), y \div 2^((top - high) * 4 + 1), 1, 2^(top * 4 + 1))
  <1> DEFINE c == (top - high) * 4 + 1
             h == high * 4
             D == 2^c
             Q == 2^h
             s == y \div D
  <1>1. c \in Nat /\ h \in Nat /\ c + h = top * 4 + 1 /\ 1 <= c BY DEF Fourth
  <1>2. y \in Int BY SMT DEF Term25
  <1>3. D \in Nat \ {0} /\ Q \in Nat BY <1>1, Powers
  <1>4. 2^(top * 4 + 1) = D * Q
    <2> HIDE DEF c, h
    <2>1. 2^(c + h) = 2^c * 2^h BY <1>1, PowerSum
    <2>2. QED BY <1>1, <2>1
  <1>5. D >= 2
    <2> HIDE DEF c
    <2>1. 1 \in Nat OBVIOUS
    <2>2. 2^1 <= 2^c BY <1>1, <2>1, PowerOrder
    <2>3. QED BY <2>2
  <1> HIDE DEF D, Q, c, h
  <1>6. Term24(s) BY <1>3, <1>5, HalfTerm
  <1>7. s \in Int BY <1>6, SMT DEF Term24
  <1>8. Covers(y, s, 0 + 1, 1 * D) BY <1>2, <1>3, CoversExact, CoversCut
  <1>9. 0 + 1 = 1 /\ 1 * D = D BY <1>3
  <1>10. Covers(y * Q, s, 1, D * Q)
    <2> HIDE DEF s
    <2>1. Covers(y, s, 1, D) /\ D \in Nat /\ 1 \in Nat BY <1>3, <1>8, <1>9
    <2>2. QED BY <1>2, <1>3, <1>7, <2>1, CoversTimes
  <1>11. QED BY <1>4, <1>6, <1>10 DEF s, D, Q, c, h

(* The digits of a product together are the product.                       *)
DigitSum(neg, A, k1, k0, L, Q) ==
    ((Flipped(neg, k1 * A) * L) * Q) * 4 + (Flipped(neg, k0 * A) * L) * Q

(* The product itself.                                                     *)
WholeProduct(neg, M, k1, k0, L, Q) == Flipped(neg, M * ((k0 + 4 * k1) * (L * Q)))

(* A mantissa aligned is the mantissa, moved.                              *)
SameProduct(A, B, M, W) == A * B = M * W

(* The two digits of a mantissa of 4 bits make it up.                      *)
LEMMA DigitsOfProduct ==
  ASSUME NEW neg, NEW A, NEW k1, NEW k0, NEW L, NEW Q, NEW B, NEW M, NEW W,
         A \in Nat, k1 \in Nat, k0 \in Nat, L \in Nat, Q \in Nat, B \in Nat, M \in Nat, W \in Nat,
         SameProduct(A, B, M, W)
  PROVE  DigitSum(neg, A, k1, k0, L, Q) * B = WholeProduct(neg, M, k1, k0, L, Q) * W
  <1> DEFINE K == (k0 + 4 * k1) * (L * Q)
             x == (((k1 * A) * L) * Q) * 4 + ((k0 * A) * L) * Q
  <1>1. K \in Nat OBVIOUS
  <1>2. x = K * A /\ x \in Nat OBVIOUS
  <1>3. x * B = (M * K) * W
    <2>1. (K * A) * B = K * (A * B) BY <1>1
    <2> HIDE DEF K, x
    <2>2. K * (M * W) = (M * K) * W BY <1>1
    <2>3. QED BY <1>2, <2>1, <2>2 DEF SameProduct
  <1>4. (((-(k1 * A) * L) * Q) * 4 + (-(k0 * A) * L) * Q) = -x OBVIOUS
  <1>5. (-x) * B = -(x * B) /\ (-(M * K)) * W = -((M * K) * W)
    <2> HIDE DEF K, x
    <2>1. QED BY <1>1, <1>2
  <1> HIDE DEF K
  <1>6. CASE neg
    <2>1. DigitSum(neg, A, k1, k0, L, Q) = -x
      BY <1>4, <1>6 DEF Flipped, DigitSum
    <2>2. Flipped(neg, M * K) = -(M * K) BY <1>6 DEF Flipped
    <2> HIDE DEF x
    <2>3. QED BY <1>3, <1>5, <2>1, <2>2 DEF K, WholeProduct
  <1>7. CASE ~neg
    <2>1. DigitSum(neg, A, k1, k0, L, Q) = x
      BY <1>7 DEF Flipped, DigitSum
    <2>2. Flipped(neg, M * K) = M * K BY <1>7 DEF Flipped
    <2> HIDE DEF x
    <2>3. QED BY <1>3, <2>1, <2>2 DEF K, WholeProduct
  <1>8. QED BY <1>6, <1>7

(* The exact value of a product.                                           *)
LEMMA ProductValue ==
  ASSUME NEW a \in Bytes, NEW w \in Bytes
  PROVE  /\ fp8_mat(a) * 2^fp8_exp(a) \in Nat
         /\ Fp8Value(a) \in Int /\ Fp8Value(w) \in Int
         /\ Fp8Value(a) * Fp8Value(w)
              = Flipped(w \div 128 # a \div 128,
                        (fp8_mat(a) * 2^fp8_exp(a)) * (fp8_mat(w) * 2^fp8_exp(w)))
  <1> DEFINE M == fp8_mat(a) * 2^fp8_exp(a)
             K == fp8_mat(w) * 2^fp8_exp(w)
  <1>1. /\ fp8_exp(a) \in Nat /\ fp8_mat(a) \in Nat /\ fp8_exp(w) \in Nat /\ fp8_mat(w) \in Nat
        /\ a \div 128 \in {0, 1} /\ (a \div 128 = 1 <=> a >= 128)
        /\ w \div 128 \in {0, 1} /\ (w \div 128 = 1 <=> w >= 128)
    <2>1. fp8_exp(a) \in Nibble /\ fp8_mat(a) \in Nibble /\ fp8_exp(w) \in Nibble /\ fp8_mat(w) \in Nibble
      BY FieldsOfByte
    <2>2. \A n \in Nibble : n \in Nat BY DEF Nibble
    <2>3. QED BY <2>1, <2>2, FieldsOfByte, Zenon
  <1>2. 2^fp8_exp(a) \in Nat /\ 2^fp8_exp(w) \in Nat BY <1>1, Powers
  <1>3. M \in Nat /\ K \in Nat BY <1>1, <1>2
  <1>4. Fp8Value(a) = (IF a >= 128 THEN -1 ELSE 1) * M /\ Fp8Value(w) = (IF w >= 128 THEN -1 ELSE 1) * K
    BY Zenon DEF Fp8Value
  <1> HIDE DEF M, K
  <1>5. Fp8Value(a) = Flipped(a \div 128 = 1, M) /\ Fp8Value(w) = Flipped(w \div 128 = 1, K)
    BY <1>1, <1>3, <1>4 DEF Flipped
  <1>6. Fp8Value(a) \in Int /\ Fp8Value(w) \in Int BY <1>3, <1>5 DEF Flipped
  <1>7. (-M) * K = -(M * K) /\ M * (-K) = -(M * K) /\ (-M) * (-K) = M * K BY <1>3
  <1>8. Flipped(a \div 128 = 1, M) * Flipped(w \div 128 = 1, K) = Flipped(w \div 128 # a \div 128, M * K)
    BY <1>1, <1>7 DEF Flipped
  <1>9. QED BY <1>3, <1>5, <1>6, <1>8, Zenon DEF M, K

(* What MxFp8Product.cpp adds up for a digit.                              *)
DigitTerm(a, w, A, top, k) ==
    (Flipped(w \div 128 # a \div 128, k * A) * 2^(fp8_exp(w) % 4))
        \div 2^((top - fp8_exp(w) \div 4) * 4 + 1)

(* An activation and its mantissa aligned to the exponent e.               *)
AlignedTo(a, A, e) == ActRange(A) /\ A * 2^e = (fp8_mat(a) * 2^fp8_exp(a)) * 2^15

(* The two terms of a weight, the high one times four, stand for the exact *)
(* product, five units at most below it.                                   *)
LEMMA DigitTerms ==
  ASSUME NEW a \in Bytes, NEW w \in Bytes, NEW A, NEW e \in Nibble, AlignedTo(a, A, e),
         NEW top \in Fourth, fp8_exp(w) \div 4 <= top
  PROVE  /\ \A k \in Fourth : Term24(DigitTerm(a, w, A, top, k))
         /\ Covers((Fp8Value(a) * Fp8Value(w)) * 2^15,
                   DigitTerm(a, w, A, top, fp8_mat(w) \div 4) * 4 + DigitTerm(a, w, A, top, fp8_mat(w) % 4),
                   5, 2^(e + (top * 4 + 1)))
  <1> DEFINE neg == w \div 128 # a \div 128
             low == fp8_exp(w) % 4
             high == fp8_exp(w) \div 4
             k1 == fp8_mat(w) \div 4
             k0 == fp8_mat(w) % 4
             L == 2^low
             Q == 2^(high * 4)
             B == 2^e
             P == 2^(top * 4 + 1)
             Y(k) == Flipped(neg, k * A) * L
             S(k) == DigitTerm(a, w, A, top, k)
             M == fp8_mat(a) * 2^fp8_exp(a)
  <1>1. low \in Fourth /\ high \in Fourth /\ k1 \in Fourth /\ k0 \in Fourth
        /\ fp8_exp(w) = low + high * 4 /\ fp8_mat(w) = k0 + 4 * k1
    <2>1. fp8_exp(w) \div 4 \in Fourth /\ fp8_exp(w) = (fp8_exp(w) % 4) + 4 * (fp8_exp(w) \div 4) BY FieldsOfByte
    <2>2. 4 * (fp8_exp(w) \div 4) = (fp8_exp(w) \div 4) * 4 BY <2>1 DEF Fourth
    <2>3. QED BY <2>1, <2>2, FieldsOfByte
  <1>2. neg \in BOOLEAN OBVIOUS
  <1> HIDE DEF neg, low, high, k1, k0
  <1>3. ActRange(A) /\ A \in Nat /\ A * B = M * 32768 BY DEF AlignedTo, ActRange
  <1>4. low \in Nat /\ high * 4 \in Nat /\ k1 \in Nat /\ k0 \in Nat /\ e \in Nat /\ top * 4 + 1 \in Nat
    BY <1>1 DEF Fourth, Nibble
  <1>5. L \in Nat /\ Q \in Nat /\ B \in Nat /\ P \in Nat BY <1>4, Powers
  <1>6. 2^fp8_exp(w) = L * Q /\ 2^(e + (top * 4 + 1)) = B * P
    <2>1. 2^(low + high * 4) = 2^low * 2^(high * 4) BY <1>4, PowerSum
    <2>2. 2^(e + (top * 4 + 1)) = 2^e * 2^(top * 4 + 1) BY <1>4, PowerSum
    <2>3. QED BY <1>1, <2>1, <2>2
  <1>7. \A k \in Fourth : Term25(Y(k))
    <2> SUFFICES ASSUME NEW k \in Fourth PROVE Term25(Y(k))
      OBVIOUS
    <2>1. QED BY <1>1, <1>2, <1>3, ShiftedTerm
  <1>8. \A k \in Fourth : S(k) = Y(k) \div 2^((top - high) * 4 + 1)
    BY Zenon DEF DigitTerm, neg, low, high
  <1>9. high <= top BY DEF high
  <1> HIDE DEF L, Q, B, P, S, M
  <1>10. \A k \in Fourth : Term24(S(k)) /\ Covers(Y(k) * Q, S(k), 1, P)
    <2> SUFFICES ASSUME NEW k \in Fourth PROVE Term24(S(k)) /\ Covers(Y(k) * Q, S(k), 1, P)
      OBVIOUS
    <2>1. Term25(Y(k)) BY <1>7
    <2>2. S(k) = Y(k) \div 2^((top - high) * 4 + 1) BY <1>8
    <2> HIDE DEF Y
    <2>3. QED BY <1>1, <1>9, <2>1, <2>2, DigitCut, Zenon DEF Q, P
  <1>11. \A k \in Fourth : Y(k) * Q \in Int /\ S(k) \in Int
    <2> SUFFICES ASSUME NEW k \in Fourth PROVE Y(k) * Q \in Int /\ S(k) \in Int
      OBVIOUS
    <2>1. Term25(Y(k)) /\ Term24(S(k)) BY <1>7, <1>10
    <2> HIDE DEF Y
    <2>2. Y(k) \in Int /\ S(k) \in Int BY <2>1, SMT DEF Term25, Term24
    <2>3. QED BY <1>5, <2>2
  <1> DEFINE X == (Y(k1) * Q) * 4 + Y(k0) * Q
  <1>12. Covers(X, S(k1) * 4 + S(k0), 5, P)
    <2> HIDE DEF Y
    <2>1. Covers(Y(k1) * Q, S(k1), 1, P) /\ Covers(Y(k0) * Q, S(k0), 1, P) BY <1>1, <1>10
    <2>2. Y(k1) * Q \in Int /\ Y(k0) * Q \in Int /\ S(k1) \in Int /\ S(k0) \in Int BY <1>1, <1>11
    <2> DEFINE y1 == Y(k1) * Q
               y0 == Y(k0) * Q
    <2> HIDE DEF y1, y0
    <2>3. y1 \in Int /\ y0 \in Int /\ Covers(y1, S(k1), 1, P) /\ Covers(y0, S(k0), 1, P) BY <2>1, <2>2 DEF y1, y0
    <2>4. Covers(y1 * 4, S(k1) * 4, 1 * 4, P)
      <3>1. 1 \in Nat /\ 4 \in Nat OBVIOUS
      <3>2. QED BY <1>5, <2>2, <2>3, <3>1, CoversTimes
    <2>5. Covers(y1 * 4 + y0, S(k1) * 4 + S(k0), 1 * 4 + 1, P)
      <3>1. y1 * 4 \in Int /\ S(k1) * 4 \in Int /\ 1 * 4 \in Nat /\ 1 \in Nat BY <2>2, <2>3
      <3>2. QED BY <1>5, <2>2, <2>3, <2>4, <3>1, CoversSum
    <2>6. 1 * 4 + 1 = 5 OBVIOUS
    <2>7. QED BY <2>5, <2>6 DEF y1, y0
  <1>13. X * B = (Fp8Value(a) * Fp8Value(w)) * 32768
    <2>1. M \in Nat BY ProductValue DEF M
    <2>2. X * B = WholeProduct(neg, M, k1, k0, L, Q) * 32768
      <3> DEFINE W == 32768
      <3>1. W \in Nat /\ A \in Nat /\ SameProduct(A, B, M, W) BY <1>3 DEF SameProduct
      <3>2. X = DigitSum(neg, A, k1, k0, L, Q) BY Zenon DEF DigitSum
      <3> HIDE DEF X, W
      <3>3. X * B = WholeProduct(neg, M, k1, k0, L, Q) * W
        BY <1>4, <1>5, <2>1, <3>1, <3>2, DigitsOfProduct
      <3>4. QED BY <3>3 DEF W
    <2>3. Fp8Value(a) * Fp8Value(w) = Flipped(neg, M * (fp8_mat(w) * 2^fp8_exp(w)))
      BY ProductValue DEF M, neg
    <2>4. QED BY <1>1, <1>6, <2>2, <2>3 DEF WholeProduct
  <1>14. X \in Int /\ S(k1) * 4 + S(k0) \in Int
    <2> HIDE DEF Y
    <2>1. Y(k1) * Q \in Int /\ Y(k0) * Q \in Int /\ S(k1) \in Int /\ S(k0) \in Int BY <1>1, <1>11
    <2>2. QED BY <2>1
  <1> HIDE DEF X
  <1>15. Covers(X * B, S(k1) * 4 + S(k0), 5, P * B)
    <2>1. 5 \in Nat OBVIOUS
    <2>2. QED BY <1>5, <1>12, <1>14, <2>1, CoversTimes
  <1>16. P * B = 2^(e + (top * 4 + 1)) BY <1>5, <1>6
  <1>17. Covers((Fp8Value(a) * Fp8Value(w)) * 2^15, S(k1) * 4 + S(k0), 5, 2^(e + (top * 4 + 1)))
    BY <1>13, <1>15, <1>16, SMT
  <1>18. QED BY <1>10, <1>17, Zenon DEF S, k1, k0

(* A row of activations, aligned to the largest exponent.                  *)
LEMMA ActIs ==
  ASSUME NEW act \in [Row -> Bytes]
  PROVE  /\ ActDeNorm(act).exp \in Nibble
         /\ \A i \in Row : /\ ActDeNorm(act).sign[i] = act[i] \div 128
                           /\ AlignedTo(act[i], ActDeNorm(act).mat[i], ActDeNorm(act).exp)
  <1> DEFINE exps == {fp8_exp(act[i]) : i \in DOMAIN act}
             top == Largest(exps)
             mats == [i \in DOMAIN act |-> (fp8_mat(act[i]) * 2^15) \div 2^(top - fp8_exp(act[i]))]
             signs == [i \in DOMAIN act |-> act[i] \div 128]
  <1>1. DOMAIN act = Row OBVIOUS
  <1>2. \A i \in Row : act[i] \in Bytes OBVIOUS
  <1>3. exps \subseteq Nibble /\ exps # {}
    <2>1. \A i \in Row : fp8_exp(act[i]) \in Nibble BY <1>2, FieldsOfByte
    <2>2. 1 \in Row BY RowSize DEF Row
    <2>3. QED BY <1>1, <2>1, <2>2
  <1>4. top \in Nibble /\ \A i \in Row : fp8_exp(act[i]) <= top
    <2>1. \A i \in Row : fp8_exp(act[i]) \in exps BY <1>1
    <2> HIDE DEF exps
    <2>2. top \in exps /\ \A f \in exps : f <= top BY <1>3, LargestIs
    <2>3. QED BY <1>3, <2>1, <2>2
  <1>5. ActDeNorm(act) = [exp |-> top, sign |-> signs, mat |-> mats] BY Zenon DEF ActDeNorm, Largest
  <1> HIDE DEF top
  <1>6. ActDeNorm(act).exp = top /\ ActDeNorm(act).sign = signs /\ ActDeNorm(act).mat = mats
    <2> HIDE DEF signs, mats
    <2>1. QED BY <1>5
  <1>7. ASSUME NEW i \in Row PROVE AlignedTo(act[i], mats[i], top)
    <2> DEFINE m == fp8_mat(act[i])
               e == fp8_exp(act[i])
    <2>1. m \in Nibble /\ e \in Nibble BY <1>2, FieldsOfByte
    <2>2. e <= top BY <1>4
    <2>3. mats[i] = (m * 2^15) \div 2^(top - e) BY <1>1, Zenon
    <2> HIDE DEF m, e, mats
    <2>4. ActRange((m * 2^15) \div 2^(top - e))
          /\ ((m * 2^15) \div 2^(top - e)) * 2^top = (m * 2^e) * 2^15
      BY <1>4, <2>1, <2>2, ActElement, Zenon
    <2>5. QED BY <2>3, <2>4, Zenon DEF AlignedTo, m, e
  <1>8. \A i \in Row : signs[i] = act[i] \div 128 BY <1>1, Zenon
  <1> HIDE DEF signs, mats
  <1>9. QED BY <1>4, <1>6, <1>7, <1>8, Zenon

(* The term MxFp8Product.cpp stores in 24 bits and the adder tree reads.   *)
DigitCode(a, w, A, top, k) ==
    (sign_extend(Multiple(A, k, w \div 128 # a \div 128) * 2^(fp8_exp(w) % 4), 25)
        \div 2^((top - fp8_exp(w) \div 4) * 4 + (25 - MAT_WIDTH))) % 2^MAT_WIDTH

(* The adder tree reads the term that was stored.                          *)
LEMMA DigitIs ==
  ASSUME NEW a \in Bytes, NEW w \in Bytes, NEW A, ActRange(A), NEW top \in Fourth,
         fp8_exp(w) \div 4 <= top, NEW k \in Fourth
  PROVE  sign_extend(DigitCode(a, w, A, top, k), MAT_WIDTH) = DigitTerm(a, w, A, top, k)
  <1> DEFINE neg == w \div 128 # a \div 128
             low == fp8_exp(w) % 4
             high == fp8_exp(w) \div 4
             y == Flipped(neg, k * A) * 2^low
             s == y \div 2^((top - high) * 4 + 1)
  <1>1. low \in Fourth /\ high \in Fourth BY FieldsOfByte
  <1>2. neg \in BOOLEAN OBVIOUS
  <1>3. DigitTerm(a, w, A, top, k) = s BY Zenon DEF DigitTerm
  <1>4. high <= top OBVIOUS
  <1>5. 25 - MAT_WIDTH = 1 /\ MAT_WIDTH = 24 BY DEF MAT_WIDTH
  <1> HIDE DEF neg, low, high
  <1>6. Multiple(A, k, neg) * 2^low = y /\ Term25(y) BY <1>1, <1>2, ShiftedTerm
  <1> HIDE DEF y
  <1>7. sign_extend(y, 25) = y BY <1>6, TermKept
  <1>8. Term24(s) BY <1>1, <1>4, <1>6, DigitCut
  <1> HIDE DEF s
  <1>9. sign_extend(s % 2^24, 24) = s BY <1>8, HalfKept
  <1>10. sign_extend((sign_extend(Multiple(A, k, neg) * 2^low, 25)
                \div 2^((top - high) * 4 + (25 - MAT_WIDTH))) % 2^MAT_WIDTH, MAT_WIDTH) = s
    BY <1>5, <1>6, <1>7, <1>9, Zenon DEF s
  <1>11. QED BY <1>3, <1>10, Zenon DEF DigitCode, neg, low, high

(* The errors of the terms add up.                                         *)
LEMMA SumCovered ==
  ASSUME NEW x \in [Row -> Int], NEW z \in [Row -> Int], NEW W \in Nat, NEW err \in Nat, NEW P \in Nat,
         \A i \in Row : Covers(x[i] * W, z[i], err, P),
         NEW sx \in [0 .. ROW_SIZE -> Int], AddsUp(x, sx), NEW sz \in [0 .. ROW_SIZE -> Int], AddsUp(z, sz)
  PROVE  Covers(sx[ROW_SIZE] * W, sz[ROW_SIZE], err * 16, P)
  <1> DEFINE n == ROW_SIZE
             Q == {j \in 0 .. n : Covers(sx[j] * W, sz[j], err * j, P)}
  <1>0. n = 16 BY RowSize
  <1>1. n \in Nat /\ Row = 1 .. n BY RowSize DEF Row
  <1>2. sx \in [0 .. n -> Int] /\ sz \in [0 .. n -> Int] OBVIOUS
  <1>3. sx[0] = 0 /\ sz[0] = 0 /\ \A i \in 1 .. n : sx[i] = sx[i - 1] + x[i] /\ sz[i] = sz[i - 1] + z[i]
    BY <1>1 DEF AddsUp
  <1>4. \A i \in 1 .. n : x[i] \in Int /\ z[i] \in Int /\ Covers(x[i] * W, z[i], err, P) BY <1>1
  <1> HIDE DEF n
  <1>5. 0 \in Q
    <2>1. 0 * P <= 0 * W /\ 0 * W <= (0 + err * 0) * P OBVIOUS
    <2>2. Covers(sx[0] * W, sz[0], err * 0, P) BY <1>3, <2>1 DEF Covers
    <2>3. 0 \in 0 .. n BY <1>1
    <2>4. QED BY <2>2, <2>3
  <1>6. ASSUME NEW i \in 1 .. n, i - 1 \in Q PROVE i \in Q
    <2> DEFINE p == sx[i - 1]
               q == sz[i - 1]
    <2>1. i \in 0 .. n /\ i - 1 \in 0 .. n /\ p \in Int /\ q \in Int /\ x[i] \in Int /\ z[i] \in Int
      <3>1. i \in 0 .. n /\ i - 1 \in 0 .. n BY <1>1
      <3>2. \A k \in 0 .. n : sx[k] \in Int /\ sz[k] \in Int BY <1>2
      <3>3. QED BY <1>4, <3>1, <3>2, Zenon
    <2>2. Covers(p * W, q, err * (i - 1), P) BY <1>6
    <2>3. Covers(x[i] * W, z[i], err, P) BY <1>4
    <2> HIDE DEF p, q, Q
    <2> DEFINE X == p * W
               Y == x[i] * W
               d == err * (i - 1)
    <2>4. /\ X \in Int /\ Y \in Int /\ d \in Nat
          /\ X + Y = (p + x[i]) * W /\ d + err = err * i
      BY <1>1, <2>1
    <2>5. Covers(X + Y, q + z[i], d + err, P)
      <3>1. Covers(X, q, d, P) /\ Covers(Y, z[i], err, P) BY <2>2, <2>3
      <3> HIDE DEF X, Y, d
      <3>2. QED BY <2>1, <2>4, <3>1, CoversSum
    <2> HIDE DEF X, Y, d
    <2>6. Covers(sx[i] * W, sz[i], err * i, P) BY <1>3, <2>4, <2>5 DEF p, q
    <2>7. QED BY <2>1, <2>6 DEF Q
  <1>7. n \in Q
    <2> HIDE DEF Q
    <2>1. \A i \in 0 .. n : i \in Q BY <1>1, <1>5, <1>6, InductionUpTo
    <2>2. QED BY <1>1, <2>1
  <1>8. Covers(sx[n] * W, sz[n], err * n, P) BY <1>7
  <1>9. err * n = err * 16 BY <1>0
  <1>10. QED BY <1>8, <1>9, Zenon DEF n

(* A sum of sixteen terms, divided by sixteen, is no larger than they are. *)
TermsWithin(s, j) == s \in Int /\ s + j * 5898240 >= 0 /\ s <= j * 5898240

(* One more term.                                                          *)
LEMMA TermsWithinAdd ==
  ASSUME NEW s, NEW j \in Nat, NEW t, TermsWithin(s, j), Term24(t)
  PROVE  TermsWithin(s + t, j + 1)
  BY SMT DEF TermsWithin, Term24

(* All of a row.                                                           *)
LEMMA TermsWithinRow ==
  ASSUME NEW s, TermsWithin(s, 16)
  PROVE  Term24(s \div 16)
  BY SMT DEF TermsWithin, Term24

(* The result of an adder tree fits the width of a term.                   *)
LEMMA SumOfTerms ==
  ASSUME NEW y \in [Row -> Int], \A i \in Row : Term24(y[i]),
         NEW sum \in [0 .. ROW_SIZE -> Int], AddsUp(y, sum)
  PROVE  Term24(sum[ROW_SIZE] \div 16)
  <1> DEFINE n == ROW_SIZE
             Q == {j \in 0 .. n : TermsWithin(sum[j], j)}
  <1>0. n = 16 BY RowSize
  <1>1. n \in Nat /\ Row = 1 .. n BY RowSize DEF Row
  <1>2. sum[0] = 0 /\ \A i \in 1 .. n : sum[i] = sum[i - 1] + y[i] /\ Term24(y[i])
    BY <1>1 DEF AddsUp
  <1> HIDE DEF n
  <1>3. 0 \in Q
    <2>1. TermsWithin(0, 0) BY SMT DEF TermsWithin
    <2>2. 0 \in 0 .. n BY <1>1
    <2>3. QED BY <1>2, <2>1, <2>2
  <1>4. ASSUME NEW i \in 1 .. n, i - 1 \in Q PROVE i \in Q
    <2>1. i \in 0 .. n /\ i - 1 \in Nat /\ (i - 1) + 1 = i BY <1>1
    <2>2. TermsWithin(sum[i - 1], i - 1) BY <1>4
    <2>3. TermsWithin(sum[i - 1] + y[i], (i - 1) + 1) BY <1>2, <2>1, <2>2, TermsWithinAdd
    <2>4. QED BY <1>2, <2>1, <2>3
  <1>5. n \in Q
    <2> HIDE DEF Q
    <2>1. \A i \in 0 .. n : i \in Q BY <1>1, <1>3, <1>4, InductionUpTo
    <2>2. QED BY <1>1, <2>1
  <1>6. TermsWithin(sum[n], 16) BY <1>0, <1>5
  <1>7. QED BY <1>6, TermsWithinRow DEF n

(* Two adder trees of sixteen terms, the second of a quarter the weight.   *)
Bits24(x) == x \in Int /\ x + 2^23 >= 0 /\ x < 2^23

(* Their sum fits 24 bits, and its error is that of the two divisions by 16*)
(* and of the one by 4.                                                    *)
LEMMA QuarterSum ==
  ASSUME NEW s1 \in Int, NEW s0 \in Int, Term24(s1 \div 16), Term24(s0 \div 16)
  PROVE  /\ Bits24(s1 \div 16 + (s0 \div 16) \div 4)
         /\ 64 * (s1 \div 16 + (s0 \div 16) \div 4) <= s1 * 4 + s0
         /\ s1 * 4 + s0 <= 64 * (s1 \div 16 + (s0 \div 16) \div 4) + 123
  <1> DEFINE m1 == s1 \div 16
             m0 == s0 \div 16
             q == m0 \div 4
  <1>1. m1 \in Int /\ 16 * m1 <= s1 /\ s1 <= 16 * m1 + 15 OBVIOUS
  <1>2. m0 \in Int /\ 16 * m0 <= s0 /\ s0 <= 16 * m0 + 15 OBVIOUS
  <1> HIDE DEF m1, m0
  <1>3. q \in Int /\ 4 * q <= m0 /\ m0 <= 4 * q + 3 BY <1>2
  <1> HIDE DEF q
  <1>4. Term24(m1) /\ Term24(m0) BY DEF m1, m0
  <1>5. Bits24(m1 + q) BY <1>1, <1>2, <1>3, <1>4, SMT DEF Term24, Bits24
  <1>6. 64 * (m1 + q) <= s1 * 4 + s0 /\ s1 * 4 + s0 <= 64 * (m1 + q) + 123 BY <1>1, <1>2, <1>3
  <1>7. QED BY <1>5, <1>6 DEF m1, m0, q

(* The sum is stored without a loss.                                       *)
LEMMA MatKept ==
  ASSUME NEW m, Bits24(m)
  PROVE  /\ m \div 2^24 = m \div 2^23
         /\ sign_extend(m, 24) = m
  <1>1. m >= 0 => m \div 2^24 = 0 /\ m \div 2^23 = 0 BY SMT DEF Bits24
  <1>2. m < 0 => m \div 2^24 = -1 /\ m \div 2^23 = -1
    <2> SUFFICES ASSUME m < 0 PROVE m \div 2^24 = -1 /\ m \div 2^23 = -1
      OBVIOUS
    <2>1. m \div 2^24 \in Int /\ m \div 2^24 < 0 /\ m \div 2^24 + 2 > 0 BY SMT DEF Bits24
    <2>2. m \div 2^23 \in Int /\ m \div 2^23 < 0 /\ m \div 2^23 + 2 > 0 BY SMT DEF Bits24
    <2>3. \A x \in Int : x < 0 /\ x + 2 > 0 => x = -1 BY SMT
    <2>4. QED BY <2>1, <2>2, <2>3, Zenon
  <1>3. m \in Int BY SMT DEF Bits24
  <1>4. sign_extend(m, 24) = m BY SMT DEF Bits24, sign_extend
  <1>5. m \div 2^24 = m \div 2^23
    <2>1. m >= 0 \/ m < 0 BY <1>3
    <2>2. CASE m >= 0 BY <1>1, <2>2, Zenon
    <2>3. CASE m < 0 BY <1>2, <2>3, Zenon
    <2>4. QED BY <2>1, <2>2, <2>3
  <1>6. QED BY <1>4, <1>5, Zenon

(* So is a term.                                                           *)
LEMMA TermMat ==
  ASSUME NEW m, Term24(m)
  PROVE  sign_extend(m, 24) = m
  BY SMT DEF Term24, sign_extend

(* The terms of one digit of all weights; the digits themselves.           *)
Digits(act, wgt, top, pick) ==
    [i \in Row |-> DigitTerm(act[i], wgt[i], ActDeNorm(act).mat[i], top, pick[i])]
High(wgt) == [i \in Row |-> fp8_mat(wgt[i]) \div 4]
Low(wgt) == [i \in Row |-> fp8_mat(wgt[i]) % 4]

(* The adder tree of one digit.                                            *)
LEMMA DigitTree ==
  ASSUME NEW act \in [Row -> Bytes], NEW wgt \in [Row -> Bytes], NEW top \in Fourth,
         \A i \in Row : fp8_exp(wgt[i]) \div 4 <= top, NEW pick \in [Row -> Fourth],
         NEW x, \A i \in Row :
                   x[i] = DigitCode(act[i], wgt[i], ActDeNorm(act).mat[i], top, pick[i])
  PROVE  /\ Digits(act, wgt, top, pick) \in [Row -> Int]
         /\ \A i \in Row : Term24(Digits(act, wgt, top, pick)[i])
         /\ \E sum \in [0 .. ROW_SIZE -> Int] :
               /\ AddsUp(Digits(act, wgt, top, pick), sum)
               /\ IntAdderTree(x, MAT_WIDTH) = sum[ROW_SIZE] \div 16
               /\ Term24(sum[ROW_SIZE] \div 16)
  <1> DEFINE y == Digits(act, wgt, top, pick)
             A(i) == ActDeNorm(act).mat[i]
  <1>1. ASSUME NEW i \in Row
        PROVE  /\ y[i] = DigitTerm(act[i], wgt[i], A(i), top, pick[i])
               /\ Term24(y[i]) /\ sign_extend(x[i], MAT_WIDTH) = y[i]
    <2>1. act[i] \in Bytes /\ wgt[i] \in Bytes /\ pick[i] \in Fourth /\ fp8_exp(wgt[i]) \div 4 <= top OBVIOUS
    <2>2. AlignedTo(act[i], A(i), ActDeNorm(act).exp) /\ ActDeNorm(act).exp \in Nibble BY ActIs
    <2>3. y[i] = DigitTerm(act[i], wgt[i], A(i), top, pick[i]) BY Zenon DEF Digits
    <2> HIDE DEF A, y
    <2>4. Term24(DigitTerm(act[i], wgt[i], A(i), top, pick[i]))
      BY <2>1, <2>2, DigitTerms, Zenon
    <2>5. ActRange(A(i)) BY <2>2, Zenon DEF AlignedTo
    <2>6. sign_extend(DigitCode(act[i], wgt[i], A(i), top, pick[i]), MAT_WIDTH)
            = DigitTerm(act[i], wgt[i], A(i), top, pick[i])
      <3>1. act[i] \in Bytes /\ wgt[i] \in Bytes BY <2>1, Zenon
      <3>2. pick[i] \in Fourth /\ top \in Fourth BY <2>1, Zenon
      <3>3. fp8_exp(wgt[i]) \div 4 <= top BY <2>1, Zenon
      <3>4. QED BY <2>5, <3>1, <3>2, <3>3, DigitIs
    <2>7. x[i] = DigitCode(act[i], wgt[i], A(i), top, pick[i]) BY Zenon DEF A
    <2>8. QED BY <2>3, <2>4, <2>6, <2>7, Zenon
  <1>2. \A i \in Row : Term24(y[i]) /\ sign_extend(x[i], MAT_WIDTH) = y[i] BY <1>1
  <1>3. y \in [Row -> Int]
    <2>1. \A i \in Row : y[i] \in Int
      <3>1. \A t : Term24(t) => t \in Int BY SMT DEF Term24
      <3>2. QED BY <1>2, <3>1, Zenon
    <2>2. y = [i \in Row |-> y[i]] BY DEF Digits
    <2> HIDE DEF y
    <2>3. QED BY <2>1, <2>2
  <1> HIDE DEF y
  <1>4. PICK sum \in [0 .. ROW_SIZE -> Int] :
            AddsUp(y, sum) /\ IntAdderTree(x, MAT_WIDTH) = sum[ROW_SIZE] \div 16
    <2>1. \A i \in Row : sign_extend(x[i], MAT_WIDTH) = y[i] BY <1>2
    <2>2. QED BY <1>3, <2>1, TreeIs
  <1>5. Term24(sum[ROW_SIZE] \div 16) BY <1>2, <1>3, <1>4, SumOfTerms, Zenon
  <1>6. QED BY <1>2, <1>3, <1>4, <1>5, Zenon DEF y

(* The exact values of a column of FP8 weights.                            *)
Fp8s(wgt) == [i \in 1 .. ROW_SIZE |-> Fp8Value(wgt[i])]

(* The sum of the two adder trees of MxFp8Product.cpp.                     *)
LEMMA Fp8Sum ==
  ASSUME NEW act \in [Row -> Bytes], NEW wgt \in [Row -> Bytes], NEW top \in Fourth,
         \A i \in Row : fp8_exp(wgt[i]) \div 4 <= top,
         NEW s1 \in [0 .. ROW_SIZE -> Int], AddsUp(Digits(act, wgt, top, High(wgt)), s1),
         NEW s0 \in [0 .. ROW_SIZE -> Int], AddsUp(Digits(act, wgt, top, Low(wgt)), s0)
  PROVE  /\ Dot(act, Fp8s(wgt)) \in Int
         /\ Covers(Dot(act, Fp8s(wgt)) * 2^15, s1[ROW_SIZE] * 4 + s0[ROW_SIZE], 80,
                   2^(ActDeNorm(act).exp + (top * 4 + 1)))
  <1> DEFINE e == ActDeNorm(act).exp
             A(i) == ActDeNorm(act).mat[i]
             y1 == Digits(act, wgt, top, High(wgt))
             y0 == Digits(act, wgt, top, Low(wgt))
             x == [i \in Row |-> Fp8Value(act[i]) * Fp8Value(wgt[i])]
             z == [i \in Row |-> y1[i] * 4 + y0[i]]
             sz == [j \in 0 .. ROW_SIZE |-> s1[j] * 4 + s0[j]]
             P == 2^(e + (top * 4 + 1))
             W == 32768
  <1>1. \A i \in Row : act[i] \in Bytes /\ wgt[i] \in Bytes OBVIOUS
  <1>2. e \in Nibble /\ \A i \in Row : AlignedTo(act[i], A(i), e) BY ActIs
  <1>3. ASSUME NEW i \in Row
        PROVE  /\ y1[i] \in Int /\ y0[i] \in Int
               /\ Covers((Fp8Value(act[i]) * Fp8Value(wgt[i])) * W, y1[i] * 4 + y0[i], 5, P)
    <2>1. y1[i] = DigitTerm(act[i], wgt[i], A(i), top, fp8_mat(wgt[i]) \div 4)
          /\ y0[i] = DigitTerm(act[i], wgt[i], A(i), top, fp8_mat(wgt[i]) % 4)
      BY Zenon DEF Digits, High, Low
    <2>2. fp8_exp(wgt[i]) \div 4 <= top /\ AlignedTo(act[i], A(i), e) BY <1>2
    <2> HIDE DEF A, e, y1, y0
    <2>3. /\ \A k \in Fourth : Term24(DigitTerm(act[i], wgt[i], A(i), top, k))
          /\ Covers((Fp8Value(act[i]) * Fp8Value(wgt[i])) * 2^15,
                   DigitTerm(act[i], wgt[i], A(i), top, fp8_mat(wgt[i]) \div 4) * 4
                     + DigitTerm(act[i], wgt[i], A(i), top, fp8_mat(wgt[i]) % 4),
                   5, 2^(e + (top * 4 + 1)))
      BY <1>1, <1>2, <2>2, DigitTerms, Zenon
    <2>4. fp8_mat(wgt[i]) \div 4 \in Fourth /\ fp8_mat(wgt[i]) % 4 \in Fourth BY <1>1, FieldsOfByte, Zenon
    <2>5. Term24(y1[i]) /\ Term24(y0[i]) BY <2>1, <2>3, <2>4, Zenon
    <2>6. y1[i] \in Int /\ y0[i] \in Int BY <2>5, SMT DEF Term24
    <2>7. Covers((Fp8Value(act[i]) * Fp8Value(wgt[i])) * 2^15, y1[i] * 4 + y0[i], 5, 2^(e + (top * 4 + 1)))
      BY <2>1, <2>3, Zenon
    <2>8. 2^15 = W OBVIOUS
    <2> HIDE DEF W
    <2>9. QED BY <2>6, <2>7, <2>8, Zenon
  <1>4. P \in Nat
    <2>1. e + (top * 4 + 1) \in Nat BY <1>2 DEF Nibble, Fourth
    <2> HIDE DEF e
    <2>2. QED BY <2>1, Powers
  <1>5. W \in Nat /\ 2^15 = W OBVIOUS
  <1> HIDE DEF e, A, y1, y0, P, W
  <1>6. x \in [Row -> Int]
    <2>1. \A i \in Row : Fp8Value(act[i]) * Fp8Value(wgt[i]) \in Int
      <3> SUFFICES ASSUME NEW i \in Row PROVE Fp8Value(act[i]) * Fp8Value(wgt[i]) \in Int
        OBVIOUS
      <3>1. Fp8Value(act[i]) \in Int /\ Fp8Value(wgt[i]) \in Int BY <1>1, ProductValue
      <3>2. QED BY <3>1
    <2>2. QED BY <2>1
  <1>7. z \in [Row -> Int] BY <1>3
  <1>8. \A i \in Row : Covers(x[i] * W, z[i], 5, P) BY <1>3, Zenon
  <1>9. sz \in [0 .. ROW_SIZE -> Int] /\ AddsUp(z, sz)
    <2> DEFINE n == ROW_SIZE
    <2>1. n \in Nat /\ Row = 1 .. n /\ ROW_SIZE = n BY RowSize DEF Row
    <2>2. y1 = Digits(act, wgt, top, High(wgt)) /\ y0 = Digits(act, wgt, top, Low(wgt)) BY Zenon DEF y1, y0
    <2>3. AddsUp(y1, s1) /\ AddsUp(y0, s0) BY <2>2, Zenon
    <2> HIDE DEF n
    <2>4. s1[0] = 0 /\ s0[0] = 0 /\ \A i \in 1 .. n : s1[i] = s1[i - 1] + y1[i] /\ s0[i] = s0[i - 1] + y0[i]
      BY <2>1, <2>3 DEF AddsUp
    <2>5. \A j \in 0 .. n : s1[j] \in Int /\ s0[j] \in Int BY <2>1
    <2>6. \A j \in 0 .. n : sz[j] = s1[j] * 4 + s0[j] BY <2>1
    <2>7. sz \in [0 .. n -> Int] BY <2>1, <2>5
    <2>8. sz[0] = 0
      <3>1. 0 \in 0 .. n BY <2>1
      <3>2. QED BY <2>4, <2>6, <3>1
    <2>9. ASSUME NEW i \in 1 .. n PROVE sz[i] = sz[i - 1] + z[i]
      <3>1. i \in 0 .. n /\ i - 1 \in 0 .. n /\ i \in Row BY <2>1
      <3>2. sz[i] = s1[i] * 4 + s0[i] /\ sz[i - 1] = s1[i - 1] * 4 + s0[i - 1] BY <2>6, <3>1
      <3>3. z[i] = y1[i] * 4 + y0[i] BY <3>1
      <3>4. y1[i] \in Int /\ y0[i] \in Int /\ s1[i - 1] \in Int /\ s0[i - 1] \in Int BY <1>3, <2>5, <3>1
      <3> HIDE DEF sz, z
      <3>5. QED BY <2>4, <3>2, <3>3, <3>4
    <2> HIDE DEF sz, z
    <2>10. QED BY <2>1, <2>7, <2>8, <2>9, Zenon DEF AddsUp
  <1>10. PICK sx \in [0 .. ROW_SIZE -> Int] : AddsUp(x, sx) /\ Dot(act, Fp8s(wgt)) = sx[ROW_SIZE]
    <2>1. \A i \in Row : Fp8Value(act[i]) * Fp8s(wgt)[i] = x[i] BY DEF Fp8s, Row
    <2> HIDE DEF x
    <2>2. QED BY <1>6, <2>1, DotIs
  <1> HIDE DEF x, z, sz
  <1>11. Covers(sx[ROW_SIZE] * W, sz[ROW_SIZE], 5 * 16, P)
    <2>1. 5 \in Nat OBVIOUS
    <2>2. QED BY <1>4, <1>5, <1>6, <1>7, <1>8, <1>9, <1>10, <2>1, SumCovered, Zenon
  <1>12. ROW_SIZE \in 0 .. ROW_SIZE BY RowSize
  <1>13. sz[ROW_SIZE] = s1[ROW_SIZE] * 4 + s0[ROW_SIZE] BY <1>12, Zenon DEF sz
  <1>14. 5 * 16 = 80 OBVIOUS
  <1>15. sx[ROW_SIZE] \in Int BY <1>10, <1>12, Zenon
  <1>16. QED BY <1>5, <1>10, <1>11, <1>13, <1>14, <1>15, Zenon DEF P, e

(* A product as a partial sum sees it: x in units of 2^-15 of its exponent *)
(* is what its mantissa, taken scale times, covers.                        *)
Delivers(x, exp, mat, scale, err) ==
    /\ exp \in Nat /\ exp <= 28 /\ Bits24(mat) /\ x \in Int
    /\ Covers(x * 2^15, scale * mat, err, 2^exp)

(* An FP8 product is the exact dot product, up to the truncation of its    *)
(* sixteen terms, of the trees and of their sum.                           *)
LEMMA Fp8ProductIs ==
  ASSUME NEW act \in [Row -> Bytes], NEW wgt \in [Row -> Bytes]
  PROVE  Delivers(Dot(act, Fp8s(wgt)), Fp8Product(ActDeNorm(act), wgt).exp,
                  Fp8Product(ActDeNorm(act), wgt).lsb, 64, 203)
  <1> DEFINE row == ActDeNorm(act)
             highs == {fp8_exp(wgt[i]) \div 4 : i \in DOMAIN wgt}
             top == Largest(highs)
             code(i, k) ==
                (sign_extend(Multiple(row.mat[i], k, wgt[i] \div 128 # row.sign[i]) * 2^(fp8_exp(wgt[i]) % 4), 25)
                    \div 2^((top - fp8_exp(wgt[i]) \div 4) * 4 + (25 - MAT_WIDTH))) % 2^MAT_WIDTH
             x1 == [i \in DOMAIN wgt |-> code(i, fp8_mat(wgt[i]) \div 4)]
             x0 == [i \in DOMAIN wgt |-> code(i, fp8_mat(wgt[i]) % 4)]
             msb == IntAdderTree(x1, MAT_WIDTH)
             lsb == IntAdderTree(x0, MAT_WIDTH)
             mat == sign_extend(msb, MAT_WIDTH) + sign_extend(lsb, MAT_WIDTH) \div 4
             ovl == mat \div 2^MAT_WIDTH # mat \div 2^(MAT_WIDTH - 1)
  <1>1. Fp8Product(row, wgt)
          = [exp |-> row.exp + top * 4 + 1 + (IF ovl THEN 1 ELSE 0), msb |-> 0,
             lsb |-> sign_extend(IF ovl THEN mat \div 2 ELSE mat, MAT_WIDTH)]
    BY Zenon DEF Fp8Product, Largest
  <1>2. DOMAIN wgt = Row OBVIOUS
  <1>3. \A i \in Row : act[i] \in Bytes /\ wgt[i] \in Bytes OBVIOUS
  <1>4. row.exp \in Nibble /\ \A i \in Row : row.sign[i] = act[i] \div 128 BY ActIs
  <1>5. top \in Fourth /\ \A i \in Row : fp8_exp(wgt[i]) \div 4 <= top
    <2>1. \A i \in Row : fp8_exp(wgt[i]) \div 4 \in Fourth BY <1>3, FieldsOfByte
    <2>2. highs \subseteq Fourth /\ \A i \in Row : fp8_exp(wgt[i]) \div 4 \in highs BY <1>2, <2>1
    <2>3. highs # {}
      <3>1. 1 \in Row BY RowSize DEF Row
      <3>2. QED BY <2>2, <3>1
    <2> HIDE DEF highs
    <2>4. highs \subseteq Nibble BY <2>2 DEF Fourth, Nibble
    <2>5. top \in highs /\ \A f \in highs : f <= top BY <2>3, <2>4, LargestIs
    <2>6. QED BY <2>2, <2>5
  <1>6. High(wgt) \in [Row -> Fourth] /\ Low(wgt) \in [Row -> Fourth]
    <2>1. \A i \in Row : fp8_mat(wgt[i]) \div 4 \in Fourth /\ fp8_mat(wgt[i]) % 4 \in Fourth
      BY <1>3, FieldsOfByte
    <2>2. QED BY <2>1 DEF High, Low
  <1>7. \A i \in Row : x1[i] = DigitCode(act[i], wgt[i], row.mat[i], top, High(wgt)[i])
    <2> SUFFICES ASSUME NEW i \in Row
                 PROVE  x1[i] = DigitCode(act[i], wgt[i], row.mat[i], top, High(wgt)[i])
      OBVIOUS
    <2>1. High(wgt)[i] = fp8_mat(wgt[i]) \div 4 BY Zenon DEF High
    <2>2. x1[i] = code(i, fp8_mat(wgt[i]) \div 4) BY <1>2, Zenon
    <2>3. row.sign[i] = act[i] \div 128 BY <1>4
    <2> HIDE DEF row, top, x1
    <2>4. QED BY <2>1, <2>2, <2>3, Zenon DEF DigitCode
  <1>8. \A i \in Row : x0[i] = DigitCode(act[i], wgt[i], row.mat[i], top, Low(wgt)[i])
    <2> SUFFICES ASSUME NEW i \in Row
                 PROVE  x0[i] = DigitCode(act[i], wgt[i], row.mat[i], top, Low(wgt)[i])
      OBVIOUS
    <2>1. Low(wgt)[i] = fp8_mat(wgt[i]) % 4 BY Zenon DEF Low
    <2>2. x0[i] = code(i, fp8_mat(wgt[i]) % 4) BY <1>2, Zenon
    <2>3. row.sign[i] = act[i] \div 128 BY <1>4
    <2> HIDE DEF row, top, x0
    <2>4. QED BY <2>1, <2>2, <2>3, Zenon DEF DigitCode
  <1> HIDE DEF top, x1, x0
  <1>9. PICK s1 \in [0 .. ROW_SIZE -> Int] :
            /\ AddsUp(Digits(act, wgt, top, High(wgt)), s1)
            /\ msb = s1[ROW_SIZE] \div 16 /\ Term24(s1[ROW_SIZE] \div 16)
    BY <1>5, <1>6, <1>7, DigitTree, Zenon
  <1>10. PICK s0 \in [0 .. ROW_SIZE -> Int] :
            /\ AddsUp(Digits(act, wgt, top, Low(wgt)), s0)
            /\ lsb = s0[ROW_SIZE] \div 16 /\ Term24(s0[ROW_SIZE] \div 16)
    BY <1>5, <1>6, <1>8, DigitTree, Zenon
  <1> HIDE DEF msb, lsb
  <1> DEFINE a1 == s1[ROW_SIZE]
             a0 == s0[ROW_SIZE]
             m == a1 \div 16 + (a0 \div 16) \div 4
             D == Dot(act, Fp8s(wgt))
             r == row.exp + (top * 4 + 1)
  <1>11. a1 \in Int /\ a0 \in Int
    <2>1. ROW_SIZE \in 0 .. ROW_SIZE BY RowSize
    <2>2. QED BY <1>9, <1>10, <2>1, Zenon
  <1>12. D \in Int /\ Covers(D * 2^15, a1 * 4 + a0, 80, 2^r) BY <1>5, <1>9, <1>10, Fp8Sum, Zenon
  <1>13. Term24(a1 \div 16) /\ Term24(a0 \div 16) /\ msb = a1 \div 16 /\ lsb = a0 \div 16 BY <1>9, <1>10, Zenon
  <1> HIDE DEF a1, a0, D
  <1>14. Bits24(m) /\ 64 * m <= a1 * 4 + a0 /\ a1 * 4 + a0 <= 64 * m + 123 BY <1>11, <1>13, QuarterSum
  <1>15. MAT_WIDTH = 24 /\ MAT_WIDTH - 1 = 23 BY DEF MAT_WIDTH
  <1>16. mat = m BY <1>13, <1>15, TermMat, Zenon
  <1> HIDE DEF m
  <1>17. ~ovl /\ sign_extend(m, MAT_WIDTH) = m BY <1>14, <1>15, <1>16, MatKept, Zenon
  <1>18. r \in Nat /\ r <= 28 /\ row.exp + top * 4 + 1 + 0 = r
    <2> DEFINE e == row.exp
    <2>1. e \in Nibble BY <1>4
    <2> HIDE DEF e
    <2>2. e + (top * 4 + 1) \in Nat /\ e + (top * 4 + 1) <= 28 /\ e + top * 4 + 1 + 0 = e + (top * 4 + 1)
      BY <1>5, <2>1 DEF Nibble, Fourth
    <2>3. QED BY <2>2, Zenon DEF e
  <1> HIDE DEF mat, ovl, row, r
  <1>19. Fp8Product(row, wgt) = [exp |-> r, msb |-> 0, lsb |-> m] BY <1>1, <1>16, <1>17, <1>18, Zenon
  <1>20. Fp8Product(row, wgt).exp = r /\ Fp8Product(row, wgt).lsb = m BY <1>19
  <1>21. Covers(D * 2^15, 64 * m, 203, 2^r)
    <2>1. m \in Int BY <1>14, SMT DEF Bits24
    <2>2. 64 * m \in Int /\ a1 * 4 + a0 \in Int /\ (a1 * 4 + a0) + 80 <= 64 * m + 203 BY <1>11, <1>14, <2>1
    <2>3. 2^r \in Nat BY <1>18, Powers
    <2> DEFINE x == D * 2^15
               z == a1 * 4 + a0
               n == 64 * m
    <2>4. x \in Int BY <1>12
    <2>5. z \in Int /\ n \in Int /\ n <= z /\ z + 80 <= n + 203 /\ Covers(x, z, 80, 2^r) BY <1>12, <1>14, <2>2
    <2>6. 80 \in Nat /\ 203 \in Nat OBVIOUS
    <2> HIDE DEF x, z, n
    <2>7. Covers(x, n, 203, 2^r) BY <2>3, <2>4, <2>5, <2>6, CoversWider
    <2>8. QED BY <2>7, Zenon DEF x, n
  <1>22. QED BY <1>12, <1>14, <1>18, <1>20, <1>21, Zenon DEF Delivers, D, row

-----------------------------------------------------------------------------
(***************************************************************************)
(* FP4 weights.                                                            *)
(***************************************************************************)
(* FP4 numbers, in units of a quarter.                                     *)
Nibbles == [sign : {0, 1}, exp : Fourth, mat : Fourth]
NibbleValue(n) == (IF n.sign = 1 THEN -1 ELSE 1) * (n.mat * 2^n.exp)

(* The high nibble is read as the number it is; the low one when           *)
(* LowNibbleAgrees.                                                        *)
LEMMA NibbleFields ==
  ASSUME NEW w \in Bytes
  PROVE  /\ Fp4Nibbles(w).msb \in Nibbles /\ Fp4Nibbles(w).lsb \in Nibbles
         /\ NibbleValue(Fp4Nibbles(w).msb) = Fp4Value(w \div 16)
         /\ LowNibbleAgrees(w) => NibbleValue(Fp4Nibbles(w).lsb) = Fp4Value(w % 16)
  <1> DEFINE e == (w \div 32) % 4
             low == (w \div 8) % 4
             implicit == IF e = 0 THEN 0 ELSE 1
             mat(bit) == IF implicit = 0 THEN bit * 2 ELSE 2 + bit
             hi == [sign |-> w \div 128, exp |-> e, mat |-> mat((w \div 16) % 2)]
             lo == [sign |-> (w \div 8) % 2, exp |-> low, mat |-> mat(w % 2)]
  <1>1. Fp4Nibbles(w) = [msb |-> hi, lsb |-> lo] BY Zenon DEF Fp4Nibbles
  <1>2. /\ w \div 128 \in {0, 1} /\ (w \div 8) % 2 \in {0, 1} /\ e \in Fourth /\ low \in Fourth
        /\ (w \div 16) % 2 \in {0, 1} /\ w % 2 \in {0, 1}
    BY SMT DEF Bytes, Fourth
  <1>3. /\ ((w \div 16) \div 2) % 4 = e /\ (w \div 16) % 2 = (w \div 16) % 2
        /\ (w \div 16 >= 8 <=> w \div 128 = 1)
    BY SMT DEF Bytes
  <1> HIDE DEF e, low
  <1>4. \A bit \in {0, 1} : mat(bit) \in Fourth BY DEF Fourth
  <1>5. hi \in Nibbles /\ lo \in Nibbles
    <2> HIDE DEF mat
    <2>1. QED BY <1>2, <1>4 DEF Nibbles
  <1>6. Fp4Nibbles(w).msb = hi /\ Fp4Nibbles(w).lsb = lo
    <2> HIDE DEF hi, lo
    <2>1. QED BY <1>1
  <1>7. NibbleValue(hi) = Fp4Value(w \div 16)
    <2> DEFINE b == (w \div 16) % 2
               P == 2^e
    <2>1. Fp4Value(w \div 16)
            = (IF w \div 128 = 1 THEN -1 ELSE 1) * (IF e = 0 THEN 2 * b ELSE (2 + b) * P)
      BY <1>3, Zenon DEF Fp4Value
    <2>2. hi.sign = w \div 128 /\ hi.exp = e /\ hi.mat = (IF e = 0 THEN b * 2 ELSE 2 + b)
      BY DEF hi
    <2> HIDE DEF hi
    <2>3. NibbleValue(hi) = (IF w \div 128 = 1 THEN -1 ELSE 1) * ((IF e = 0 THEN b * 2 ELSE 2 + b) * P)
      BY <2>2, Zenon DEF NibbleValue
    <2>4. b \in {0, 1} /\ e \in Nat /\ (e = 0 => P = 1)
      <3>1. e = 0 => P = 2^0 BY Zenon
      <3>2. 2^0 = 1 OBVIOUS
      <3>3. QED BY <1>2, <3>1, <3>2 DEF Fourth
    <2>5. P \in Nat BY <2>4, Powers
    <2> HIDE DEF b, P
    <2>6. e = 0 => (b * 2) * P = 2 * b BY <2>4, <2>5
    <2>7. CASE e = 0 BY <2>1, <2>3, <2>6, <2>7
    <2>8. CASE e # 0 BY <2>1, <2>3, <2>8
    <2>9. QED BY <2>7, <2>8
  <1>8. LowNibbleAgrees(w) => NibbleValue(lo) = Fp4Value(w % 16)
    BY <1>6, Zenon DEF LowNibbleAgrees, NibbleValue
  <1>9. QED BY <1>5, <1>6, <1>7, <1>8, Zenon

(* A nibble times an aligned mantissa, and the product itself.             *)
NibbleSum(neg, A, k, L) == Flipped(neg, k * A) * L

WholeNibble(neg, M, k, L) == Flipped(neg, M * (k * L))

(* They agree but for the place.                                           *)
LEMMA NibbleOfProduct ==
  ASSUME NEW neg, NEW A, NEW k, NEW L, NEW B, NEW M, NEW W,
         A \in Nat, k \in Nat, L \in Nat, B \in Nat, M \in Nat, W \in Nat, SameProduct(A, B, M, W)
  PROVE  NibbleSum(neg, A, k, L) * B = WholeNibble(neg, M, k, L) * W
  <1> DEFINE K == k * L
  <1>1. K \in Nat /\ (k * A) * L = K * A /\ (-(k * A)) * L = -(K * A) OBVIOUS
  <1>2. (K * A) * B = (M * K) * W
    <2> HIDE DEF K
    <2>1. (K * A) * B = K * (A * B) /\ K * (M * W) = (M * K) * W BY <1>1
    <2>2. QED BY <2>1 DEF SameProduct
  <1>3. (-(K * A)) * B = -((K * A) * B) /\ (-(M * K)) * W = -((M * K) * W)
    <2> HIDE DEF K
    <2>1. QED BY <1>1
  <1> HIDE DEF K
  <1>4. CASE neg BY <1>1, <1>2, <1>3, <1>4 DEF Flipped, WholeNibble, NibbleSum, K
  <1>5. CASE ~neg BY <1>1, <1>2, <1>5 DEF Flipped, WholeNibble, NibbleSum, K
  <1>6. QED BY <1>4, <1>5

(* What MxFp8Product.cpp adds up for a nibble.                             *)
NibbleTerm(a, A, n) == (Flipped(n.sign # a \div 128, n.mat * A) * 2^n.exp) \div 2
NibbleCode(A, n, s) == ((Multiple(A, n.mat, n.sign # s) * 2^n.exp) % 2^25) \div 2^(25 - MAT_WIDTH)

(* Half of a term is stored and read without a loss.                       *)
LEMMA NibbleKept ==
  ASSUME NEW y, Term25(y)
  PROVE  /\ sign_extend((y % 2^25) \div 2, 24) = y \div 2
         /\ Term24(y \div 2) /\ y \div 2 \in Int
         /\ 2 * (y \div 2) <= y /\ y <= 2 * (y \div 2) + 1
  <1>1. y \div 2 \in Int /\ 2 * (y \div 2) <= y /\ y <= 2 * (y \div 2) + 1 BY SMT DEF Term25
  <1>2. Term24(y \div 2) BY SMT DEF Term25, Term24
  <1>3. CASE y >= 0
    <2>1. sign_extend((y % 2^25) \div 2, 24) = y \div 2 BY <1>3, SMT DEF Term25, sign_extend
    <2>2. QED BY <1>1, <1>2, <2>1, Zenon
  <1>4. CASE y < 0
    <2>1. y % 2^25 = y + 2^25 BY <1>4, SMT DEF Term25
    <2>2. (y + 2^25) \div 2 = y \div 2 + 2^24 BY SMT DEF Term25
    <2>3. sign_extend(y \div 2 + 2^24, 24) = y \div 2 BY <1>4, SMT DEF Term25, sign_extend
    <2>4. QED BY <1>1, <1>2, <2>1, <2>2, <2>3, Zenon
  <1>5. y >= 0 \/ y < 0 BY SMT DEF Term25
  <1>6. QED BY <1>1, <1>2, <1>3, <1>4, <1>5, Zenon

(* The exact values of a column of nibbles.                                *)
Valued(N) == [i \in 1 .. ROW_SIZE |-> NibbleValue(N[i])]

(* The adder tree reads the term that was stored, which stands for the     *)
(* exact product.                                                          *)
LEMMA NibbleTermIs ==
  ASSUME NEW a \in Bytes, NEW A, NEW e \in Nibble, AlignedTo(a, A, e), NEW n \in Nibbles
  PROVE  /\ sign_extend(NibbleCode(A, n, a \div 128), MAT_WIDTH) = NibbleTerm(a, A, n)
         /\ Term24(NibbleTerm(a, A, n))
         /\ Fp8Value(a) \in Int /\ NibbleValue(n) \in Int
         /\ Covers((Fp8Value(a) * NibbleValue(n)) * 2^15, NibbleTerm(a, A, n) * 2, 1, 2^e)
  <1> DEFINE neg == n.sign # a \div 128
             k == n.mat
             L == 2^n.exp
             B == 2^e
             y == Flipped(neg, k * A) * L
             s == y \div 2
             M == fp8_mat(a) * 2^fp8_exp(a)
             W == 32768
             nneg == n.sign = 1
             aneg == a \div 128 = 1
  <1>1. n.sign \in {0, 1} /\ n.exp \in Fourth /\ k \in Fourth BY DEF Nibbles
  <1>2. ActRange(A) /\ A \in Nat /\ SameProduct(A, B, M, W) BY DEF AlignedTo, ActRange, SameProduct
  <1>3. M \in Nat /\ Fp8Value(a) \in Int BY ProductValue
  <1>4. n.exp \in Nat /\ k \in Nat /\ e \in Nat BY <1>1 DEF Fourth, Nibble
  <1>5. L \in Nat /\ B \in Nat BY <1>4, Powers
  <1>6. a \div 128 \in {0, 1} /\ (a \div 128 = 1 <=> a >= 128) BY FieldsOfByte
  <1>7. NibbleTerm(a, A, n) = s BY Zenon DEF NibbleTerm
  <1>8. Multiple(A, k, neg) * L = y /\ Term25(y)
    <2>1. neg \in BOOLEAN OBVIOUS
    <2> HIDE DEF neg, k
    <2>2. QED BY <1>1, <1>2, <2>1, ShiftedTerm
  <1>9. Fp8Value(a) = Flipped(aneg, M)
    <2>1. Fp8Value(a) = (IF a >= 128 THEN -1 ELSE 1) * M BY Zenon DEF Fp8Value
    <2> HIDE DEF M
    <2>2. QED BY <1>3, <1>6, <2>1 DEF Flipped
  <1>10. NibbleValue(n) = Flipped(nneg, k * L) /\ k * L \in Nat
    <2>1. NibbleValue(n) = (IF n.sign = 1 THEN -1 ELSE 1) * (k * L) BY Zenon DEF NibbleValue
    <2> DEFINE K == k * L
    <2>2. K \in Nat BY <1>4, <1>5
    <2> HIDE DEF K
    <2>3. (IF n.sign = 1 THEN -1 ELSE 1) * K = Flipped(nneg, K) BY <2>2 DEF Flipped
    <2>4. QED BY <2>1, <2>2, <2>3, Zenon DEF K
  <1>11. Fp8Value(a) * NibbleValue(n) = WholeNibble(neg, M, k, L) /\ NibbleValue(n) \in Int
    <2> DEFINE K == k * L
    <2>1. K \in Nat BY <1>10
    <2> HIDE DEF K, M
    <2>2. (-M) * K = -(M * K) /\ M * (-K) = -(M * K) /\ (-M) * (-K) = M * K BY <1>3, <2>1
    <2>3. Flipped(aneg, M) * Flipped(nneg, K) = Flipped(neg, M * K)
      BY <1>1, <1>6, <2>2 DEF Flipped
    <2>4. Flipped(nneg, K) \in Int BY <2>1 DEF Flipped
    <2>5. QED BY <1>9, <1>10, <2>3, <2>4, Zenon DEF WholeNibble, K
  <1> HIDE DEF neg, k, L, M, W, B
  <1>12. y * B = (Fp8Value(a) * NibbleValue(n)) * W
    <2>1. W \in Nat BY DEF W
    <2>2. y = NibbleSum(neg, A, k, L) BY Zenon DEF NibbleSum
    <2> HIDE DEF y
    <2>3. y * B = WholeNibble(neg, M, k, L) * W
      BY <1>2, <1>3, <1>4, <1>5, <2>1, <2>2, NibbleOfProduct
    <2>4. QED BY <1>11, <2>3, Zenon
  <1> HIDE DEF y
  <1>13. /\ sign_extend((y % 2^25) \div 2, 24) = s
         /\ Term24(s) /\ s \in Int
         /\ 2 * s <= y /\ y <= 2 * s + 1
    BY <1>8, NibbleKept
  <1>14. sign_extend(NibbleCode(A, n, a \div 128), MAT_WIDTH) = s
    <2>1. MAT_WIDTH = 24 /\ 25 - MAT_WIDTH = 1 /\ 2^1 = 2 BY DEF MAT_WIDTH
    <2>2. NibbleCode(A, n, a \div 128) = (y % 2^25) \div 2
      BY <1>8, <2>1, Zenon DEF NibbleCode, neg, k, L
    <2>3. QED BY <1>13, <2>1, <2>2, Zenon
  <1> HIDE DEF s
  <1>15. Covers(y * B, s * 2, 1, B)
    <2>1. y \in Int BY <1>8, SMT DEF Term25
    <2>2. Covers(y, s * 2, 1, 1)
      <3>1. (s * 2) * 1 <= y /\ y <= (s * 2 + 1) * 1 BY <1>13, <2>1
      <3>2. QED BY <3>1 DEF Covers
    <2>3. s * 2 \in Int /\ 1 \in Nat /\ 1 * B = B BY <1>5, <1>13
    <2> DEFINE z == s * 2
    <2> HIDE DEF z
    <2>4. z \in Int /\ Covers(y, z, 1, 1) BY <2>2, <2>3 DEF z
    <2>5. Covers(y * B, z, 1, 1 * B) BY <1>5, <2>1, <2>3, <2>4, CoversTimes
    <2>6. QED BY <2>3, <2>5 DEF z
  <1>16. 2^15 = W BY DEF W
  <1>17. Covers((Fp8Value(a) * NibbleValue(n)) * 2^15, s * 2, 1, 2^e)
    BY <1>12, <1>15, <1>16, Zenon DEF B
  <1>18. QED BY <1>3, <1>7, <1>11, <1>13, <1>14, <1>17, Zenon

(* An FP4 product is the exact dot product, up to the truncation of its    *)
(* sixteen terms and of the tree.                                          *)
LEMMA Fp4Sum ==
  ASSUME NEW act \in [Row -> Bytes], NEW N \in [Row -> Nibbles],
         NEW c, \A i \in Row : c[i] = NibbleCode(ActDeNorm(act).mat[i], N[i], ActDeNorm(act).sign[i])
  PROVE  Delivers(Dot(act, Valued(N)), ActDeNorm(act).exp, IntAdderTree(c, MAT_WIDTH), 32, 46)
  <1> DEFINE e == ActDeNorm(act).exp
             A(i) == ActDeNorm(act).mat[i]
             V == Valued(N)
             y == [i \in Row |-> NibbleTerm(act[i], A(i), N[i])]
             x == [i \in Row |-> Fp8Value(act[i]) * NibbleValue(N[i])]
             z == [i \in Row |-> y[i] * 2]
             P == 2^e
             W == 32768
  <1>1. e \in Nibble /\ \A i \in Row : /\ ActDeNorm(act).sign[i] = act[i] \div 128
                                       /\ AlignedTo(act[i], A(i), e)
    BY ActIs
  <1>2. ASSUME NEW i \in Row
        PROVE  /\ sign_extend(c[i], MAT_WIDTH) = y[i] /\ Term24(y[i]) /\ y[i] \in Int /\ x[i] \in Int
               /\ Covers(x[i] * W, z[i], 1, P)
    <2>1. act[i] \in Bytes /\ N[i] \in Nibbles /\ AlignedTo(act[i], A(i), e) BY <1>1
    <2>2. c[i] = NibbleCode(A(i), N[i], act[i] \div 128) BY <1>1, Zenon
    <2>3. y[i] = NibbleTerm(act[i], A(i), N[i]) /\ x[i] = Fp8Value(act[i]) * NibbleValue(N[i]) BY Zenon
    <2>4. z[i] = y[i] * 2 /\ 2^15 = W OBVIOUS
    <2> HIDE DEF A, e, y, x, z, W
    <2>5. /\ sign_extend(NibbleCode(A(i), N[i], act[i] \div 128), MAT_WIDTH) = NibbleTerm(act[i], A(i), N[i])
          /\ Term24(NibbleTerm(act[i], A(i), N[i]))
          /\ Fp8Value(act[i]) \in Int /\ NibbleValue(N[i]) \in Int
          /\ Covers((Fp8Value(act[i]) * NibbleValue(N[i])) * 2^15, NibbleTerm(act[i], A(i), N[i]) * 2, 1, 2^e)
      BY <1>1, <2>1, NibbleTermIs, Zenon
    <2>6. Term24(y[i]) BY <2>3, <2>5, Zenon
    <2>7. y[i] \in Int BY <2>6, SMT DEF Term24
    <2>8. x[i] \in Int BY <2>3, <2>5
    <2>9. QED BY <2>2, <2>3, <2>4, <2>5, <2>6, <2>7, <2>8, Zenon
  <1>3. e \in Nat /\ e <= 28 BY <1>1 DEF Nibble
  <1>4. W \in Nat /\ 2^15 = W OBVIOUS
  <1> HIDE DEF e, W
  <1>5. P \in Nat BY <1>3, Powers
  <1>6. y \in [Row -> Int] /\ x \in [Row -> Int] /\ z \in [Row -> Int]
    <2>1. \A i \in Row : y[i] \in Int /\ x[i] \in Int /\ z[i] \in Int BY <1>2
    <2>2. y = [i \in Row |-> y[i]] /\ x = [i \in Row |-> x[i]] /\ z = [i \in Row |-> z[i]] OBVIOUS
    <2> HIDE DEF y, x, z
    <2>3. QED BY <2>1, <2>2
  <1>7. \A i \in Row : z[i] = y[i] * 2 OBVIOUS
  <1>8. PICK sum \in [0 .. ROW_SIZE -> Int] :
            AddsUp(y, sum) /\ IntAdderTree(c, MAT_WIDTH) = sum[ROW_SIZE] \div 16
    <2>1. \A i \in Row : sign_extend(c[i], MAT_WIDTH) = y[i] BY <1>2
    <2> HIDE DEF y
    <2>2. QED BY <1>6, <2>1, TreeIs
  <1>9. PICK sx \in [0 .. ROW_SIZE -> Int] : AddsUp(x, sx) /\ Dot(act, V) = sx[ROW_SIZE]
    <2>1. \A i \in Row : Fp8Value(act[i]) * V[i] = x[i] BY DEF Valued, Row
    <2> HIDE DEF x, V
    <2>2. x \in [Row -> Int] BY <1>6, Zenon
    <2>3. QED BY <2>1, <2>2, DotIs, Zenon
  <1>10. \A i \in Row : Term24(y[i]) /\ Covers(x[i] * W, z[i], 1, P) BY <1>2
  <1> DEFINE sz == [j \in 0 .. ROW_SIZE |-> sum[j] * 2]
  <1> HIDE DEF y, x, z, V, P, A
  <1>11. Term24(sum[ROW_SIZE] \div 16) BY <1>6, <1>8, <1>10, SumOfTerms, Zenon
  <1>12. sz \in [0 .. ROW_SIZE -> Int] /\ AddsUp(z, sz)
    <2> DEFINE n == ROW_SIZE
    <2>1. n \in Nat /\ Row = 1 .. n /\ ROW_SIZE = n BY RowSize DEF Row
    <2>2. sum[0] = 0 /\ \A i \in Row : sum[i] = sum[i - 1] + y[i] BY <1>8 DEF AddsUp
    <2> HIDE DEF n
    <2>3. \A j \in 0 .. n : sum[j] \in Int BY <2>1
    <2>4. \A j \in 0 .. n : sz[j] = sum[j] * 2 BY <2>1
    <2>5. sz \in [0 .. n -> Int] BY <2>1, <2>3
    <2>6. sz[0] = 0
      <3>1. 0 \in 0 .. n BY <2>1
      <3>2. QED BY <2>2, <2>4, <3>1
    <2>7. ASSUME NEW i \in 1 .. n PROVE sz[i] = sz[i - 1] + z[i]
      <3>1. i \in 0 .. n /\ i - 1 \in 0 .. n /\ i \in Row BY <2>1
      <3>2. sz[i] = sum[i] * 2 /\ sz[i - 1] = sum[i - 1] * 2 BY <2>4, <3>1
      <3>3. z[i] = y[i] * 2 /\ sum[i] = sum[i - 1] + y[i] BY <1>7, <2>2, <3>1
      <3>4. y[i] \in Int /\ sum[i - 1] \in Int BY <1>6, <2>3, <3>1
      <3> HIDE DEF sz
      <3>5. QED BY <3>2, <3>3, <3>4
    <2> HIDE DEF sz
    <2>8. QED BY <2>1, <2>5, <2>6, <2>7, Zenon DEF AddsUp
  <1>13. Covers(sx[ROW_SIZE] * W, sz[ROW_SIZE], 1 * 16, P)
    <2>1. 1 \in Nat OBVIOUS
    <2> HIDE DEF sz
    <2>2. QED BY <1>4, <1>5, <1>6, <1>9, <1>10, <1>12, <2>1, SumCovered, Zenon
  <1> DEFINE s == sum[ROW_SIZE]
             D == Dot(act, V)
             m == s \div 16
  <1>14. ROW_SIZE \in 0 .. ROW_SIZE BY RowSize
  <1>15. s \in Int /\ D \in Int /\ sz[ROW_SIZE] = s * 2 BY <1>9, <1>14, Zenon
  <1> HIDE DEF sz
  <1>16. Covers(D * W, s * 2, 16, P)
    <2>1. 1 * 16 = 16 OBVIOUS
    <2>2. QED BY <1>9, <1>13, <1>15, <2>1, Zenon
  <1> HIDE DEF D, s
  <1>17. m \in Int /\ 16 * m <= s /\ s <= 16 * m + 15 BY <1>15
  <1>18. Term24(m) BY <1>11 DEF s
  <1> HIDE DEF m
  <1>19. Covers(D * W, 32 * m, 46, P)
    <2> DEFINE X == D * W
               a == s * 2
               b == 32 * m
    <2>1. X \in Int /\ a \in Int /\ b \in Int /\ b <= a /\ a + 16 <= b + 46 BY <1>4, <1>15, <1>17
    <2>2. Covers(X, a, 16, P) /\ 16 \in Nat /\ 46 \in Nat BY <1>16
    <2> HIDE DEF X, a, b
    <2>3. Covers(X, b, 46, P) BY <1>5, <2>1, <2>2, CoversWider
    <2>4. QED BY <2>3 DEF X, b
  <1>20. Bits24(m) BY <1>18, SMT DEF Term24, Bits24
  <1>21. IntAdderTree(c, MAT_WIDTH) = m BY <1>8, Zenon DEF m, s
  <1>22. QED BY <1>3, <1>4, <1>15, <1>19, <1>20, <1>21, Zenon DEF Delivers, e, D, V, P

-----------------------------------------------------------------------------
(***************************************************************************)
(* A partial sum of several products.                                      *)
(***************************************************************************)
(* A scaled product and a partial sum of n products, in places counted     *)
(* from the origin of the mode; Reach is the largest place of a product.   *)
Reach == 2^(62 - Growth)

(* A scaled product: m at the place r, for the exact value x.              *)
IsTerm(x, r, m) ==
    /\ r \in Nat /\ 2^r <= Reach /\ r \in Places
    /\ m \in Int /\ -(2^27) <= m /\ m + 26 <= 2^27
    /\ x \in Int /\ Covers(x, m, 26, 2^r)

(* A partial sum of n products: m at the place r, for the exact value x,   *)
(* short of it by at most 95/64 of the last place for each product.  The   *)
(* place and the value are bounded by n, so n products move the place by   *)
(* no more than the bits of n.                                             *)
Held(x, r, m, n) ==
    /\ r \in Nat /\ Bits23(m) /\ x \in Int
    /\ Covers(x, 64 * m, 95 * n, 2^r)
    /\ 2^r <= n * (2 * Reach)
    /\ -(n * (2^27 * Reach)) <= x /\ x <= n * (2^27 * Reach)

(* Growth leaves the places of the products below 63.                      *)
LEMMA ReachIs == Reach \in Nat \ {0} /\ 2^Growth \in Nat /\ 2^Growth <= 2^20 /\ 2^Growth * (2 * Reach) = 2^63
  <1>1. Growth \in Nat /\ Growth <= 20 /\ 62 - Growth \in Nat /\ Growth + (62 - Growth) = 62 BY GemmAssumption
  <1>2. Reach \in Nat \ {0} /\ 2^Growth \in Nat BY <1>1, Powers DEF Reach
  <1>3. 2^62 = 2^Growth * Reach
    <2>1. 2^(Growth + (62 - Growth)) = 2^Growth * 2^(62 - Growth) BY <1>1, PowerSum
    <2>2. QED BY <1>1, <2>1, Zenon DEF Reach
  <1>4. 2^63 = 2 * 2^62
    <2>1. 62 \in Nat /\ 62 + 1 = 63 OBVIOUS
    <2>2. 2^(62 + 1) = 2 * 2^62 BY <2>1, PowerStep
    <2>3. QED BY <2>1, <2>2, Zenon
  <1>5. 2^Growth * (2 * Reach) = 2 * (2^Growth * Reach) BY <1>2
  <1>6. 2^Growth <= 2^20
    <2>1. 20 \in Nat /\ Growth \in Nat /\ Growth <= 20 BY <1>1
    <2>2. QED BY <2>1, PowerOrder, Zenon
  <1>7. QED BY <1>2, <1>3, <1>4, <1>5, <1>6, Zenon

(* What a product adds is bounded.                                         *)
LEMMA TermRange ==
  ASSUME NEW x, NEW r, NEW m, IsTerm(x, r, m)
  PROVE  -(2^27 * Reach) <= x /\ x <= 2^27 * Reach
  <1> DEFINE P == 2^r
             B == 2^27
  <1>1. P \in Nat /\ P <= Reach /\ Reach \in Nat /\ B \in Nat BY Powers, ReachIs DEF IsTerm
  <1>2. m \in Int /\ x \in Int /\ -B <= m /\ m + 26 <= B /\ m * P <= x /\ x <= (m + 26) * P
    BY DEF IsTerm, Covers
  <1> HIDE DEF P, B
  <1>3. (-B) * P <= m * P /\ (m + 26) * P <= B * P
    <2>1. \A a, b \in Int : a <= b => a * P <= b * P BY <1>1
    <2>2. -B \in Int /\ m + 26 \in Int BY <1>1, <1>2
    <2>3. QED BY <1>1, <1>2, <2>1, <2>2
  <1>4. B * P <= B * Reach /\ (-B) * P = -(B * P)
    <2>1. \A a, b \in Int : a <= b => B * a <= B * b BY <1>1
    <2>2. B * P <= B * Reach BY <1>1, <2>1
    <2>3. QED BY <1>1, <2>2
  <1>5. B * P \in Int /\ B * Reach \in Int /\ m * P \in Int /\ (m + 26) * P \in Int BY <1>1, <1>2
  <1>6. -(B * Reach) <= x /\ x <= B * Reach BY <1>2, <1>3, <1>4, <1>5
  <1>7. QED BY <1>6 DEF B

(* The first product of a sum.                                             *)
LEMMA HeldFirst ==
  ASSUME NEW x, NEW r, NEW m, IsTerm(x, r, m)
  PROVE  /\ sign_extend(m \div 2^6, 23) = m \div 64
         /\ Held(x, r, m \div 64, 1)
  <1> DEFINE q == m \div 64
  <1>1. m \in Int /\ -(2^27) <= m /\ m + 26 <= 2^27 /\ x \in Int /\ r \in Nat BY DEF IsTerm
  <1>2. /\ q \in Int /\ 64 * q <= m /\ m <= 64 * q + 63 /\ Bits23(q)
        /\ sign_extend(m \div 2^6, 23) = q
    BY <1>1, SMT DEF Bits23, sign_extend
  <1> HIDE DEF q
  <1>3. Covers(x, 64 * q, 95 * 1, 2^r)
    <2>1. 2^r \in Nat BY <1>1, Powers
    <2>2. 64 * q \in Int /\ 64 * q <= m /\ m + 26 <= 64 * q + 95 BY <1>1, <1>2
    <2>3. Covers(x, m, 26, 2^r) /\ 26 \in Nat /\ 95 \in Nat /\ 95 * 1 = 95 BY DEF IsTerm
    <2> DEFINE z == 64 * q
    <2> HIDE DEF z
    <2>4. z \in Int /\ z <= m /\ m + 26 <= z + 95 BY <2>2 DEF z
    <2>5. Covers(x, z, 95, 2^r) BY <1>1, <2>1, <2>3, <2>4, CoversWider
    <2>6. QED BY <2>3, <2>5, Zenon DEF z
  <1>4. 2^r <= 1 * (2 * Reach)
    <2>1. 2^r <= Reach BY DEF IsTerm
    <2>2. 2^r \in Nat BY <1>1, Powers
    <2>3. QED BY <2>1, <2>2, ReachIs
  <1>5. -(1 * (2^27 * Reach)) <= x /\ x <= 1 * (2^27 * Reach)
    <2> DEFINE B == 2^27 * Reach
    <2>1. B \in Int BY ReachIs
    <2>2. -B <= x /\ x <= B BY TermRange
    <2> HIDE DEF B
    <2>3. 1 * B = B BY <2>1
    <2>4. QED BY <2>2, <2>3, Zenon DEF B
  <1>6. QED BY <1>1, <1>2, <1>3, <1>4, <1>5, Zenon DEF Held, q

(* A sum of so many products still has a place below 64.                   *)
LEMMA HeldPlace ==
  ASSUME NEW r \in Nat, NEW n \in Nat, n <= 2^Growth, 2^r <= n * (2 * Reach)
  PROVE  r \in Places
  <1>1. n * (2 * Reach) <= 2^63
    <2> DEFINE T == 2 * Reach
               N == 2^Growth
    <2>1. N * T = 2^63 /\ n <= N BY ReachIs, Zenon
    <2>2. Reach \in Nat /\ N \in Nat BY ReachIs
    <2>3. T \in Nat BY <2>2
    <2> HIDE DEF T, N
    <2>4. n * T <= N * T BY <2>1, <2>2, <2>3
    <2>5. QED BY <2>1, <2>4, Zenon DEF T
  <1>2. CASE r > 63
    <2>1. 63 \in Nat /\ 64 \in Nat /\ 63 + 1 = 64 /\ 64 <= r BY <1>2
    <2>2. 2^64 <= 2^r BY <2>1, PowerOrder
    <2>3. 2^64 = 2 * 2^63
      <3>1. 2^(63 + 1) = 2 * 2^63 BY <2>1, PowerStep
      <3>2. QED BY <2>1, <3>1, Zenon
    <2> DEFINE M == 2^63
               L == 2^r
               K == n * (2 * Reach)
    <2>4. M \in Nat \ {0} /\ L \in Nat BY <2>1, Powers
    <2>5. K \in Int BY ReachIs
    <2>6. L <= K /\ K <= M /\ 2 * M <= L BY <1>1, <2>2, <2>3, Zenon
    <2> HIDE DEF M, L, K
    <2>7. QED BY <2>4, <2>5, <2>6
  <1>3. QED BY <1>2 DEF Places

(* A further product.  A carry means that the sum itself has grown.        *)
LEMMA CarryReach ==
  ASSUME NEW x \in Int, NEW n \in Nat, n <= 2^20, NEW S \in Int, NEW R \in Nat,
         Covers(x, S, 26 + 95 * n + 1, 2^R), ~NoCarry(S),
         -((n + 1) * (2^27 * Reach)) <= x, x <= (n + 1) * (2^27 * Reach)
  PROVE  2^(R + 1) <= (n + 1) * (2 * Reach)
  <1> DEFINE P == 2^R
             B == 2^27
             e == 26 + 95 * n + 1
  <1>1. P \in Nat /\ Reach \in Nat /\ B \in Nat \ {0} /\ 2^(R + 1) = 2 * P
    BY ReachIs, Powers, PowerStep
  <1>2. e \in Nat /\ e <= B BY SMT
  <1>3. S * P <= x /\ x <= (S + e) * P BY DEF Covers
  <1>4. S >= 2 * B \/ S < -(2 * B) BY SMT DEF NoCarry
  <1>5. \A a, b \in Int : a <= b => a * P <= b * P BY <1>1
  <1>6. -((n + 1) * (B * Reach)) <= x /\ x <= (n + 1) * (B * Reach) OBVIOUS
  <1> DEFINE T == (n + 1) * Reach
  <1>7. T \in Int /\ (n + 1) * (B * Reach) = B * T /\ (n + 1) * (2 * Reach) = 2 * T
    <2> HIDE DEF B, P
    <2>1. QED BY <1>1
  <1> HIDE DEF P, B, e, T
  <1>8. B * P <= B * T
    <2>1. CASE S >= 2 * B
      <3>1. B * P <= S * P BY <1>1, <1>5, <2>1
      <3>2. B * P \in Int /\ S * P \in Int /\ B * T \in Int BY <1>1, <1>7
      <3>3. QED BY <1>3, <1>6, <1>7, <3>1, <3>2
    <2>2. CASE S < -(2 * B)
      <3>1. S + e <= -B /\ S + e \in Int /\ -B \in Int BY <1>1, <1>2, <2>2
      <3>2. (S + e) * P <= (-B) * P BY <1>5, <3>1
      <3>3. (-B) * P = -(B * P) /\ B * P \in Int /\ (S + e) * P \in Int /\ B * T \in Int
        BY <1>1, <1>7, <3>1
      <3>4. -(B * T) <= x /\ x <= (S + e) * P BY <1>3, <1>6, <1>7
      <3>5. QED BY <3>2, <3>3, <3>4
    <2>3. QED BY <1>4, <2>1, <2>2
  <1>9. P <= T
    <2>1. \A a, b \in Int : B * a <= B * b => a <= b BY <1>1
    <2>2. QED BY <1>1, <1>7, <1>8, <2>1
  <1>10. QED BY <1>1, <1>7, <1>9

(* A partial sum p in the places above b.                                  *)
HeldIn(p, b, x, n) == \E r, m : p = [exp |-> b + r, mat |-> m] /\ Held(x, r, m, n)

(* A partial sum and a product make a partial sum of one product more.     *)
LEMMA HeldNext ==
  ASSUME NEW b \in Nat, NEW x, NEW r, NEW m, NEW n \in Nat, Held(x, r, m, n), n + 1 <= 2^Growth,
         NEW y, NEW s, NEW k, IsTerm(y, s, k), NEW ub
  PROVE  /\ HeldIn(fp_add(b + s, k, b + r, sign_extend(m * 2^6, 29), ub), b, x + y, n + 1)
         /\ fp_add(b + s, k, b + r, sign_extend(m * 2^6, 29), ub).exp <= Larger(b + s, b + r) + 1
  <1>1. /\ r \in Nat /\ Bits23(m) /\ x \in Int /\ Covers(x, 64 * m, 95 * n, 2^r)
        /\ 2^r <= n * (2 * Reach)
        /\ -(n * (2^27 * Reach)) <= x /\ x <= n * (2^27 * Reach)
    BY Zenon DEF Held
  <1>2. y \in Int /\ s \in Nat /\ s \in Places /\ 2^s <= Reach /\ Covers(y, k, 26, 2^s) /\ Bits(k, 27)
    <2>1. Bits(k, 27) BY SMT DEF IsTerm, Bits
    <2>2. QED BY <2>1, Zenon DEF IsTerm
  <1>3. n <= 2^Growth /\ n <= 2^20 /\ r \in Places
    <2>1. n <= 2^Growth /\ n <= 2^20 BY ReachIs
    <2>2. QED BY <1>1, <2>1, HeldPlace
  <1>4. sign_extend(m * 2^6, 29) = 64 * m /\ Bits(64 * m, 28)
    BY <1>1, SMT DEF Bits23, Bits, sign_extend
  <1> DEFINE w == 64 * m
             e == 95 * n
  <1>5. e \in Nat /\ 26 \in Nat /\ Covers(x, w, e, 2^r) /\ Bits(w, 28) BY <1>1, <1>4
  <1>6. sign_extend(m * 2^6, 29) = w BY <1>4
  <1> HIDE DEF w, e
  <1>7. IsSum(fp_add(b + s, k, b + r, w, ub), b, Larger(s, r), x + y, 26 + e)
    <2>1. y + x = x + y BY <1>1, <1>2
    <2>2. IsSum(fp_add(b + s, k, b + r, w, ub), b, Larger(s, r), y + x, 26 + e)
      BY <1>1, <1>2, <1>3, <1>5, FpAddCovers
    <2>3. QED BY <2>1, <2>2, Zenon
  <1> DEFINE z == x + y
  <1>8. PICK r2, m2 :
            /\ r2 \in Nat
            /\ fp_add(b + s, k, b + r, w, ub) = [exp |-> b + r2, mat |-> m2]
            /\ Bits23(m2)
            /\ Covers(z, 64 * m2, 26 + e + 65, 2^r2)
            /\ \/ r2 = Larger(s, r)
               \/ r2 = Larger(s, r) + 1
                  /\ \E S \in Int : Covers(z, S, 26 + e + 1, 2^Larger(s, r)) /\ ~NoCarry(S)
    BY <1>7, Zenon DEF IsSum
  <1>9. -((n + 1) * (2^27 * Reach)) <= z /\ z <= (n + 1) * (2^27 * Reach)
    <2> DEFINE B == 2^27 * Reach
    <2>1. B \in Int BY ReachIs
    <2>2. -B <= y /\ y <= B BY TermRange
    <2>3. -(n * B) <= x /\ x <= n * B BY <1>1, Zenon
    <2> HIDE DEF B
    <2>4. (n + 1) * B = n * B + B /\ n * B \in Int BY <2>1
    <2>5. -((n + 1) * B) <= z /\ z <= (n + 1) * B BY <1>1, <1>2, <2>1, <2>2, <2>3, <2>4
    <2>6. QED BY <2>5, Zenon DEF B
  <1>10. z \in Int /\ n + 1 \in Nat BY <1>1, <1>2
  <1> HIDE DEF z
  <1>11. Covers(z, 64 * m2, 95 * (n + 1), 2^r2)
    <2> DEFINE q == 64 * m2
    <2>1. q \in Int BY <1>8, SMT DEF Bits23
    <2>2. Covers(z, q, 26 + e + 65, 2^r2) BY <1>8, Zenon
    <2>3. 2^r2 \in Nat BY <1>8, Powers
    <2> HIDE DEF q
    <2>4. 26 + e + 65 \in Nat /\ 95 * (n + 1) \in Nat /\ q <= q /\ q + (26 + e + 65) <= q + 95 * (n + 1)
      BY <1>5, <2>1 DEF e
    <2>5. Covers(z, q, 95 * (n + 1), 2^r2) BY <1>10, <2>1, <2>2, <2>3, <2>4, CoversWider
    <2>6. QED BY <2>5 DEF q
  <1>12. 2^Larger(s, r) <= (n + 1) * (2 * Reach)
    <2> DEFINE T == n * (2 * Reach)
    <2>1. T \in Nat /\ (n + 1) * (2 * Reach) = T + 2 * Reach /\ Reach \in Nat BY ReachIs
    <2>2. 2^r \in Nat /\ 2^s \in Nat BY <1>1, <1>2, Powers
    <2>3. 2^r <= T /\ 2^s <= Reach BY <1>1, <1>2, Zenon
    <2> HIDE DEF T
    <2>4. 2^r <= T + 2 * Reach /\ 2^s <= T + 2 * Reach BY <2>1, <2>2, <2>3
    <2>5. Larger(s, r) = s \/ Larger(s, r) = r BY Zenon DEF Larger
    <2>6. QED BY <2>1, <2>4, <2>5, Zenon
  <1>13. 2^r2 <= (n + 1) * (2 * Reach)
    <2>1. CASE r2 = Larger(s, r) BY <1>12, <2>1, Zenon
    <2>2. CASE /\ r2 = Larger(s, r) + 1
               /\ \E S \in Int : Covers(z, S, 26 + e + 1, 2^Larger(s, r)) /\ ~NoCarry(S)
      <3> DEFINE R == Larger(s, r)
      <3>1. PICK S \in Int : Covers(z, S, 26 + e + 1, 2^R) /\ ~NoCarry(S) BY <2>2, Zenon
      <3>2. R \in Nat /\ r2 = R + 1 BY <1>1, <1>2, <2>2 DEF Larger
      <3> HIDE DEF R
      <3>3. Covers(z, S, 26 + 95 * n + 1, 2^R) BY <3>1, Zenon DEF e
      <3>4. 2^(R + 1) <= (n + 1) * (2 * Reach) BY <1>3, <1>9, <1>10, <3>1, <3>2, <3>3, CarryReach
      <3>5. QED BY <3>2, <3>4, Zenon
    <2>3. QED BY <1>8, <2>1, <2>2, Zenon
  <1>14. Held(z, r2, m2, n + 1) BY <1>8, <1>9, <1>10, <1>11, <1>13, Zenon DEF Held
  <1>15. fp_add(b + s, k, b + r, w, ub).exp <= Larger(b + s, b + r) + 1
    <2> DEFINE f == fp_add(b + s, k, b + r, w, ub)
    <2>1. f = [exp |-> b + r2, mat |-> m2] BY <1>8, Zenon
    <2> HIDE DEF f
    <2>2. f.exp = b + r2 BY <2>1
    <2>3. r2 <= Larger(s, r) + 1 BY <1>1, <1>2, <1>8 DEF Larger
    <2>4. Larger(b + s, b + r) = b + Larger(s, r) BY <1>1, <1>2 DEF Larger
    <2>5. Larger(s, r) \in Nat BY <1>1, <1>2 DEF Larger
    <2>6. QED BY <1>8, <2>2, <2>3, <2>4, <2>5 DEF f
  <1>16. QED BY <1>6, <1>8, <1>14, <1>15, Zenon DEF HeldIn, z

(* The exact values of the nibbles of a column of weights.                 *)
Highs(wgt) == [i \in 1 .. ROW_SIZE |-> Fp4Value(wgt[i] \div 16)]
Lows(wgt) == [i \in 1 .. ROW_SIZE |-> Fp4Value(wgt[i] % 16)]

(* Both nibbles of the weights give their dot products; the low one where  *)
(* it is read as what it is.                                               *)
LEMMA Fp4ProductIs ==
  ASSUME NEW act \in [Row -> Bytes], NEW wgt \in [Row -> Bytes]
  PROVE  /\ Delivers(Dot(act, Highs(wgt)), Fp4Product(ActDeNorm(act), wgt).exp,
                     Fp4Product(ActDeNorm(act), wgt).msb, 32, 46)
         /\ (\A i \in Row : LowNibbleAgrees(wgt[i])) =>
               Delivers(Dot(act, Lows(wgt)), Fp4Product(ActDeNorm(act), wgt).exp,
                        Fp4Product(ActDeNorm(act), wgt).lsb, 32, 46)
  <1> DEFINE row == ActDeNorm(act)
             p == Fp4Product(row, wgt)
             N1 == [i \in Row |-> Fp4Nibbles(wgt[i]).msb]
             N0 == [i \in Row |-> Fp4Nibbles(wgt[i]).lsb]
             term(i, n) ==
                ((Multiple(row.mat[i], n.mat, n.sign # row.sign[i]) * 2^n.exp) % 2^25)
                    \div 2^(25 - MAT_WIDTH)
             c1 == [i \in DOMAIN wgt |-> term(i, Fp4Nibbles(wgt[i]).msb)]
             c0 == [i \in DOMAIN wgt |-> term(i, Fp4Nibbles(wgt[i]).lsb)]
  <1>1. DOMAIN wgt = Row /\ \A i \in Row : wgt[i] \in Bytes OBVIOUS
  <1>2. p.exp = row.exp /\ p.msb = IntAdderTree(c1, MAT_WIDTH) /\ p.lsb = IntAdderTree(c0, MAT_WIDTH)
    <2>1. p = [exp |-> row.exp, msb |-> IntAdderTree(c1, MAT_WIDTH), lsb |-> IntAdderTree(c0, MAT_WIDTH)]
      BY Zenon DEF Fp4Product
    <2> HIDE DEF p, c1, c0, row
    <2>2. QED BY <2>1
  <1>3. /\ N1 \in [Row -> Nibbles] /\ N0 \in [Row -> Nibbles]
        /\ \A i \in Row : NibbleValue(N1[i]) = Fp4Value(wgt[i] \div 16)
        /\ \A i \in Row : LowNibbleAgrees(wgt[i]) => NibbleValue(N0[i]) = Fp4Value(wgt[i] % 16)
    <2>1. \A i \in Row : N1[i] = Fp4Nibbles(wgt[i]).msb /\ N0[i] = Fp4Nibbles(wgt[i]).lsb BY Zenon
    <2>2. \A i \in Row : N1[i] \in Nibbles /\ N0[i] \in Nibbles BY <1>1, <2>1, NibbleFields, Zenon
    <2>3. N1 = [i \in Row |-> N1[i]] /\ N0 = [i \in Row |-> N0[i]] BY Zenon
    <2>4. \A i \in Row : /\ NibbleValue(N1[i]) = Fp4Value(wgt[i] \div 16)
                         /\ LowNibbleAgrees(wgt[i]) => NibbleValue(N0[i]) = Fp4Value(wgt[i] % 16)
      BY <1>1, <2>1, NibbleFields, Zenon
    <2> HIDE DEF N1, N0
    <2>5. QED BY <2>2, <2>3, <2>4
  <1>4. /\ \A i \in Row : c1[i] = NibbleCode(row.mat[i], N1[i], row.sign[i])
        /\ \A i \in Row : c0[i] = NibbleCode(row.mat[i], N0[i], row.sign[i])
    <2> SUFFICES ASSUME NEW i \in Row
                 PROVE  /\ c1[i] = NibbleCode(row.mat[i], N1[i], row.sign[i])
                        /\ c0[i] = NibbleCode(row.mat[i], N0[i], row.sign[i])
      BY Zenon
    <2>1. c1[i] = term(i, N1[i]) /\ c0[i] = term(i, N0[i]) BY <1>1, Zenon
    <2> HIDE DEF c1, c0, N1, N0, row
    <2>2. QED BY <2>1, Zenon DEF NibbleCode
  <1> HIDE DEF N1, N0, c1, c0, p
  <1>5. Delivers(Dot(act, Valued(N1)), p.exp, p.msb, 32, 46)
    <2>1. Delivers(Dot(act, Valued(N1)), row.exp, IntAdderTree(c1, MAT_WIDTH), 32, 46)
      BY <1>3, <1>4, Fp4Sum, Zenon
    <2>2. QED BY <1>2, <2>1, Zenon
  <1>6. Delivers(Dot(act, Valued(N0)), p.exp, p.lsb, 32, 46)
    <2>1. Delivers(Dot(act, Valued(N0)), row.exp, IntAdderTree(c0, MAT_WIDTH), 32, 46)
      BY <1>3, <1>4, Fp4Sum, Zenon
    <2>2. QED BY <1>2, <2>1, Zenon
  <1>7. Valued(N1) = Highs(wgt) BY <1>3 DEF Valued, Highs, Row
  <1>8. (\A i \in Row : LowNibbleAgrees(wgt[i])) => Valued(N0) = Lows(wgt) BY <1>3 DEF Valued, Lows, Row
  <1>9. QED BY <1>5, <1>6, <1>7, <1>8, Zenon DEF p, row

-----------------------------------------------------------------------------
(***************************************************************************)
(* The scales.                                                             *)
(***************************************************************************)
(* A delivered product times the scales: f of the weights' scale is its    *)
(* mantissa, up the places of both scales.                                 *)
SameScaled(PM, k, scale, mat, f, g) == PM * k = (scale * mat) * f /\ g * k = 2^15
SlackOf(err, f, k) == err * f <= 26 * k

(* What scaling promises: term in the units of the origin.                 *)
IsScaled(term, g, PM, r) == term * g \in Int /\ Covers(term * g, PM, 26, 2^r)

(* Scaling the mantissa and moving its place keeps what it stands for.     *)
LEMMA ScaledTerm ==
  ASSUME NEW x, NEW exp, NEW mat, NEW scale \in Nat, NEW err \in Nat, Delivers(x, exp, mat, scale, err),
         NEW f \in Nat, NEW k \in Nat \ {0}, NEW g \in Nat, SlackOf(err, f, k),
         NEW PM \in Int, SameScaled(PM, k, scale, mat, f, g), NEW up \in Nat
  PROVE  IsScaled((x * f) * 2^up, g, PM, exp + up)
  <1> DEFINE U == 2^up
             P == 2^exp
             W == 2^15
             z == scale * mat
             y == ((x * f) * U) * g
  <1>1. exp \in Nat /\ mat \in Int /\ x \in Int /\ Covers(x * W, z, err, P)
    <2>1. mat \in Int BY SMT DEF Delivers, Bits24
    <2>2. QED BY <2>1, Zenon DEF Delivers
  <1>2. U \in Nat /\ P \in Nat /\ 2^(exp + up) = P * U BY <1>1, Powers, PowerSum
  <1>3. W \in Nat /\ g * k = W /\ z \in Int /\ PM * k = z * f BY <1>1, Powers DEF SameScaled
  <1> HIDE DEF U, P, W, z
  <1>4. Covers((x * W) * f, PM * k, 26 * k, P)
    <2> DEFINE v == x * W
    <2>1. v \in Int BY <1>1, <1>3
    <2> HIDE DEF v
    <2>2. Covers(v, z, err, P) BY <1>1 DEF v
    <2>3. Covers(v * f, z * f, err * f, P) BY <1>2, <1>3, <2>1, <2>2, CoversTimes
    <2> DEFINE w == v * f
               n == PM * k
               d == err * f
               h == 26 * k
    <2>4. w \in Int /\ n \in Int /\ d \in Nat /\ h \in Nat /\ d <= h BY <2>1 DEF SlackOf
    <2>5. Covers(w, n, d, P) BY <1>3, <2>3
    <2> HIDE DEF w, n, d, h
    <2>6. n <= n /\ n + d <= n + h BY <2>4
    <2>7. Covers(w, n, h, P) BY <1>2, <2>4, <2>5, <2>6, CoversWider
    <2>8. QED BY <2>7, Zenon DEF w, n, h, v
  <1>5. Covers((x * f) * g, PM, 26, P)
    <2> DEFINE v == (x * f) * g
    <2>1. v \in Int /\ v * k = (x * W) * f
      <3>1. v \in Int BY <1>1
      <3>2. v * k = (x * f) * (g * k) BY <1>1
      <3>3. (x * f) * W = (x * W) * f BY <1>1, <1>3
      <3> HIDE DEF v
      <3>4. QED BY <1>3, <3>1, <3>2, <3>3
    <2> HIDE DEF v
    <2>2. Covers(v * k, PM * k, 26 * k, P) /\ 26 \in Nat BY <1>4, <2>1
    <2>3. Covers(v, PM, 26, P) BY <1>2, <2>1, <2>2, CoversCancel
    <2>4. QED BY <2>3 DEF v
  <1>6. Covers(((x * f) * g) * U, PM, 26, P * U)
    <2> DEFINE v == (x * f) * g
    <2>1. v \in Int /\ 26 \in Nat BY <1>1
    <2> HIDE DEF v
    <2>2. Covers(v, PM, 26, P) BY <1>5 DEF v
    <2>3. Covers(v * U, PM, 26, P * U) BY <1>2, <2>1, <2>2, CoversTimes
    <2>4. QED BY <2>3 DEF v
  <1>7. y \in Int /\ ((x * f) * g) * U = y BY <1>1, <1>2
  <1>8. QED BY <1>2, <1>6, <1>7, Zenon DEF IsScaled, U

(* An exact sum in units of the origin of its mode.                        *)
Fine(mode) == IF mode = "fp8" THEN 4096 ELSE 1024

(* The scaled mantissa that is added to the partial sum.                   *)
ScaledMat(fp8fp8, mat, sw) == sign_extend(mat, MAT_WIDTH) * sign_extend(WgtScale(fp8fp8, sw).mat, 5)

(* A scaled product is a term of the partial sum for the exact value.      *)
Contributes(fp8fp8, exp, mat, sa, sw, term) ==
    \E s : /\ exp + sa + WgtScale(fp8fp8, sw).exp = Origin(fp8fp8) + s
           /\ term \in Int
           /\ IsTerm(term * Fine(Mode(fp8fp8)), s, ScaledMat(fp8fp8, mat, sw))

(* The mantissa of the weights' scale, and the places of both scales.      *)
Factor(fp8fp8, sw) == IF fp8fp8 THEN 1 ELSE WgtScale(fp8fp8, sw).mat
Lift(fp8fp8, sa, sw) == sa + WgtScale(fp8fp8, sw).exp - Origin(fp8fp8)

(* The scales of a call lie in the window of GemmAssumption.               *)
LEMMA ScalesOfCall ==
  ASSUME NEW fp8fp8 \in BOOLEAN, NEW sa \in ScaleActs, NEW sw \in ScaleWgts
  PROVE  /\ sa \in Int /\ WgtScale(fp8fp8, sw).exp \in Int
         /\ Origin(fp8fp8) \in Nat /\ 1 <= Origin(fp8fp8) /\ Origin(fp8fp8) <= 448
         /\ Lift(fp8fp8, sa, sw) \in Nat /\ Lift(fp8fp8, sa, sw) + Growth <= 34
         /\ WgtScale(fp8fp8, sw).mat \in Nibble
         /\ Growth \in Nat
  <1>1. sa \in Bytes /\ sw \in Bytes /\ Growth \in Nat /\ Growth <= 20 /\ Base \in Nat /\ 4 <= Base /\ Base <= 448
    <2>1. sa \in 0 .. 255 /\ sw \in 0 .. 255 BY GemmAssumption
    <2>2. QED BY <2>1, GemmAssumption DEF Bytes
  <1>2. Lift(fp8fp8, sa, sw) \in 0 .. 34 - Growth
    <2>1. \A mode \in BOOLEAN, a \in ScaleActs, w \in ScaleWgts :
             a + WgtScale(mode, w).exp - Origin(mode) \in 0 .. 34 - Growth
      BY GemmAssumption, Zenon
    <2>2. QED BY <2>1, Zenon DEF Lift
  <1>3. Origin(fp8fp8) \in Nat /\ 1 <= Origin(fp8fp8) /\ Origin(fp8fp8) <= 448 BY <1>1 DEF Origin
  <1> DEFINE up == Lift(fp8fp8, sa, sw)
  <1>4. sa \in Int /\ up \in Nat /\ up + Growth <= 34
    <2>1. up \in 0 .. 34 - Growth BY <1>2
    <2> HIDE DEF up
    <2>2. QED BY <1>1, <2>1 DEF Bytes
  <1> HIDE DEF up
  <1>5. CASE fp8fp8
    <2>1. WgtScale(fp8fp8, sw) = [exp |-> sw, mat |-> 8] BY <1>5, Zenon DEF WgtScale
    <2>2. WgtScale(fp8fp8, sw).exp \in Int /\ WgtScale(fp8fp8, sw).mat \in Nibble BY <1>1, <2>1 DEF Bytes, Nibble
    <2>3. QED BY <1>1, <1>3, <1>4, <1>5, <2>2, Zenon DEF up
  <1>6. CASE ~fp8fp8
    <2>1. WgtScale(fp8fp8, sw) = [exp |-> fp8_exp(sw), mat |-> fp8_mat(sw)] BY <1>6, Zenon DEF WgtScale
    <2>2. fp8_exp(sw) \in Nibble /\ fp8_mat(sw) \in Nibble BY <1>1, FieldsOfByte
    <2>3. WgtScale(fp8fp8, sw).exp \in Int /\ WgtScale(fp8fp8, sw).mat \in Nibble BY <2>1, <2>2 DEF Nibble
    <2>4. QED BY <1>1, <1>3, <1>4, <1>6, <2>3, Zenon DEF up
  <1>7. QED BY <1>5, <1>6

(* The multiplication by a scale of 4 bits does not overflow 28 bits.      *)
LEMMA ScaledMantissa ==
  ASSUME NEW mat, Bits24(mat), NEW f \in Nibble
  PROVE  /\ sign_extend(mat, MAT_WIDTH) = mat /\ sign_extend(f, 5) = f
         /\ mat * f \in Int /\ -(2^27) <= mat * f /\ mat * f + 26 <= 2^27
  <1>1. sign_extend(mat, MAT_WIDTH) = mat BY MatKept, Zenon DEF MAT_WIDTH
  <1>2. sign_extend(f, 5) = f BY SMT DEF Nibble, sign_extend
  <1>3. mat \in Int /\ -(2^23) <= mat /\ mat <= 2^23 /\ f \in Nat /\ f <= 15 BY SMT DEF Bits24, Nibble
  <1> DEFINE B == 2^23
  <1>4. B \in Nat OBVIOUS
  <1>5. mat \in Int /\ -B <= mat /\ mat <= B /\ f \in Nat /\ f <= 15 BY <1>3
  <1> HIDE DEF B
  <1>6. -(15 * B) <= mat * f /\ mat * f <= 15 * B /\ mat * f \in Int
    <2>1. mat * f \in Int BY <1>5
    <2>2. \A a, b \in Int : a <= b => a * f <= b * f BY <1>5
    <2>3. -B \in Int BY <1>4
    <2>4. (-B) * f <= mat * f /\ mat * f <= B * f BY <1>4, <1>5, <2>2, <2>3
    <2>5. B * f <= 15 * B /\ (-B) * f = -(B * f) /\ B * f \in Int BY <1>4, <1>5
    <2>6. QED BY <1>4, <2>1, <2>4, <2>5
  <1> DEFINE z == mat * f
  <1>7. -(15 * B) <= z /\ z <= 15 * B /\ z \in Int BY <1>6
  <1> HIDE DEF z
  <1>8. -(2^27) <= z /\ z + 26 <= 2^27 BY <1>7, SMT DEF B
  <1>9. QED BY <1>1, <1>2, <1>7, <1>8, Zenon DEF z

(* A product of the matrix unit contributes its exact value.               *)
LEMMA ScaledContributes ==
  ASSUME NEW fp8fp8 \in BOOLEAN, NEW sa \in ScaleActs, NEW sw \in ScaleWgts, NEW x, NEW exp, NEW mat,
         IF fp8fp8 THEN Delivers(x, exp, mat, 64, 203) ELSE Delivers(x, exp, mat, 32, 46)
  PROVE  Contributes(fp8fp8, exp, mat, sa, sw, (x * Factor(fp8fp8, sw)) * 2^Lift(fp8fp8, sa, sw))
  <1> DEFINE f == Factor(fp8fp8, sw)
             up == Lift(fp8fp8, sa, sw)
             w == WgtScale(fp8fp8, sw)
             b == Origin(fp8fp8)
             g == Fine(Mode(fp8fp8))
             k == IF fp8fp8 THEN 8 ELSE 32
             scale == IF fp8fp8 THEN 64 ELSE 32
             err == IF fp8fp8 THEN 203 ELSE 46
             PM == mat * w.mat
             s == exp + up
             term == (x * f) * 2^up
  <1>1. /\ sa \in Int /\ w.exp \in Int /\ b \in Nat /\ up \in Nat /\ up + Growth <= 34 /\ Growth \in Nat
        /\ w.mat \in Nibble
    BY ScalesOfCall
  <1>2. up = sa + w.exp - b BY Zenon DEF Lift
  <1>3. Delivers(x, exp, mat, scale, err) BY Zenon
  <1>4. f = (IF fp8fp8 THEN 1 ELSE w.mat) BY Zenon DEF Factor
  <1>5. g = (IF fp8fp8 THEN 4096 ELSE 1024)
    <2>1. Mode(fp8fp8) = "fp8" <=> fp8fp8 BY DEF Mode
    <2>2. QED BY <2>1 DEF Fine
  <1>6. fp8fp8 => w.mat = 8 BY DEF WgtScale
  <1> HIDE DEF f, up, w, b, g
  <1>7. Bits24(mat) /\ exp \in Nat /\ exp <= 28 /\ x \in Int BY <1>3, Zenon DEF Delivers
  <1>8. PM \in Int /\ -(2^27) <= PM /\ PM + 26 <= 2^27 /\ ScaledMat(fp8fp8, mat, sw) = PM
    <2>1. /\ sign_extend(mat, MAT_WIDTH) = mat /\ sign_extend(w.mat, 5) = w.mat
          /\ mat * w.mat \in Int /\ -(2^27) <= mat * w.mat /\ mat * w.mat + 26 <= 2^27
      BY <1>1, <1>7, ScaledMantissa, Zenon
    <2>2. ScaledMat(fp8fp8, mat, sw) = PM BY <2>1, Zenon DEF ScaledMat, w
    <2>3. QED BY <2>1, <2>2, Zenon
  <1>9. exp + sa + w.exp = b + s BY <1>1, <1>2, <1>7
  <1>10. s \in Nat /\ s + Growth <= 62 /\ s \in Places BY <1>1, <1>7 DEF Places
  <1>11. 2^s <= Reach
    <2>1. 62 - Growth \in Nat /\ s <= 62 - Growth BY <1>1, <1>10
    <2>2. QED BY <1>10, <2>1, PowerOrder DEF Reach
  <1>12. term * g \in Int /\ Covers(term * g, PM, 26, 2^s)
    <2>1. mat \in Int /\ w.mat \in Int
      <3>1. mat \in Int BY <1>7, SMT DEF Bits24
      <3>2. QED BY <1>1, <3>1 DEF Nibble
    <2> DEFINE v == w.mat
    <2>2. v \in Nat /\ v <= 15 BY <1>1 DEF Nibble
    <2>3. f \in Nat /\ g \in Nat /\ scale \in Nat /\ err \in Nat /\ k \in Nat \ {0}
      <3>1. CASE fp8fp8 BY <1>4, <1>5, <3>1
      <3>2. CASE ~fp8fp8 BY <1>4, <1>5, <2>2, <3>2
      <3>3. QED BY <3>1, <3>2
    <2>4. SlackOf(err, f, k)
      <3>1. CASE fp8fp8 BY <1>4, <3>1 DEF SlackOf
      <3>2. CASE ~fp8fp8
        <4>1. f = v /\ err = 46 /\ k = 32 BY <1>4, <3>2
        <4> HIDE DEF v, err, k
        <4>2. QED BY <2>2, <4>1 DEF SlackOf
      <3>3. QED BY <3>1, <3>2
    <2>5. g * k = 2^15
      <3>1. CASE fp8fp8 BY <1>5, <3>1
      <3>2. CASE ~fp8fp8 BY <1>5, <3>2
      <3>3. QED BY <3>1, <3>2
    <2>6. SameScaled(PM, k, scale, mat, f, g)
      <3>1. CASE fp8fp8
        <4>1. f = 1 /\ k = 8 /\ scale = 64 /\ v = 8 BY <1>4, <1>6, <3>1
        <4> HIDE DEF v, k, scale
        <4>2. (mat * v) * k = (scale * mat) * f BY <2>1, <4>1
        <4>3. QED BY <2>5, <4>2, Zenon DEF SameScaled, v
      <3>2. CASE ~fp8fp8
        <4>1. f = v /\ k = 32 /\ scale = 32 BY <1>4, <3>2
        <4> HIDE DEF v, k, scale
        <4>2. (mat * v) * k = (scale * mat) * f BY <2>1, <2>2, <4>1
        <4>3. QED BY <2>5, <4>2, Zenon DEF SameScaled, v
      <3>3. QED BY <3>1, <3>2
    <2> HIDE DEF k, scale, err, PM, s
    <2>7. IsScaled((x * f) * 2^up, g, PM, exp + up)
      BY <1>1, <1>3, <1>8, <2>3, <2>4, <2>6, ScaledTerm, Zenon
    <2>8. QED BY <2>7, Zenon DEF IsScaled, s
  <1>13. term \in Int
    <2>1. f \in Nat
      <3>1. w.mat \in Nat BY <1>1 DEF Nibble
      <3>2. 1 \in Nat OBVIOUS
      <3>3. QED BY <1>4, <3>1, <3>2, Zenon
    <2>2. 2^up \in Nat BY <1>1, Powers
    <2>3. QED BY <1>7, <2>1, <2>2
  <1> HIDE DEF PM, s, term
  <1>14. IsTerm(term * g, s, ScaledMat(fp8fp8, mat, sw)) BY <1>8, <1>10, <1>11, <1>12, Zenon DEF IsTerm
  <1>15. Contributes(fp8fp8, exp, mat, sa, sw, term) BY <1>9, <1>13, <1>14, Zenon DEF Contributes, w, b, g
  <1>16. QED BY <1>15, Zenon DEF term, f, up

-----------------------------------------------------------------------------
(***************************************************************************)
(* A call: the invariant and its steps.                                    *)
(***************************************************************************)
(* The partial sum of an empty register, which the code takes as no sum.   *)
NoSum == [exp |-> 0, mat |-> 0]

(* What a partial sum p holds of the exact sum d.                          *)
Holds(p, d) ==
    /\ d.sum \in Int /\ d.mode \in {"fp8", "fp4"}
    /\ HeldIn(p, Origin(d.mode = "fp8"), d.sum * Fine(d.mode), d.terms)

(* The invariant of a partial sum p and the exact sum d.                   *)
SumInv(p, d) ==
    /\ d.terms \in Nat
    /\ d.terms = 0 => d = NoDot
    /\ d.norm \/ d.terms = 0 => p = NoSum
    /\ d.clean /\ d.terms > 0 /\ ~d.norm => Holds(p, d)

(* The result of adding a product with the exponent e to p: it holds the   *)
(* exact sum d, fits the register, and is at most one place up.            *)
Added(acc, e, p, d) ==
    /\ Holds(acc, d) /\ Stored(acc) = acc
    /\ e \in Int /\ p.exp \in Int /\ acc.exp <= Larger(e, p.exp) + 1

(* The product k with the exponent e added to the partial sum p.           *)
AddedTo(p, e, k, ub) ==
    IF p = NoSum THEN [exp |-> e, mat |-> sign_extend(k \div 2^6, 23)]
    ELSE fp_add(e, k, p.exp, sign_extend(p.mat * 2^6, 29), ub)

(* Accumulated adds the scaled product.                                    *)
LEMMA AccumulatedIs ==
  ASSUME NEW fp8fp8, NEW exp, NEW mat, NEW sa, NEW sw, NEW p, NEW ub
  PROVE  Accumulated(fp8fp8, exp, mat, sa, sw, p, ub)
           = AddedTo(p, exp + sa + WgtScale(fp8fp8, sw).exp, ScaledMat(fp8fp8, mat, sw), ub)
  <1>1. MAT_WIDTH + 5 = 29 /\ MAT_WIDTH - 1 = 23 BY DEF MAT_WIDTH
  <1>2. QED BY <1>1, Zenon DEF Accumulated, AddedTo, ScaledMat, NoSum

(* Storing a sum keeps it: its exponent fits nine bits.                    *)
LEMMA StoredIs ==
  ASSUME NEW b \in Nat, b <= 448, NEW r \in Places, NEW m, Bits23(m)
  PROVE  Stored([exp |-> b + r, mat |-> m]) = [exp |-> b + r, mat |-> m]
  <1>1. EXP_WIDTH + 1 = 9 /\ MAT_WIDTH - 1 = 23 BY DEF EXP_WIDTH, MAT_WIDTH
  <1>2. (b + r) % 2^9 = b + r
    <2>1. 2^9 = 512 OBVIOUS
    <2>2. r \in Nat /\ r <= 63 BY DEF Places
    <2>3. QED BY <2>1, <2>2
  <1>3. sign_extend(m, 23) = m BY SMT DEF Bits23, sign_extend
  <1> DEFINE acc == [exp |-> b + r, mat |-> m]
  <1>4. acc.exp = b + r /\ acc.mat = m OBVIOUS
  <1> HIDE DEF acc
  <1>5. Stored(acc) = [exp |-> b + r, mat |-> m] BY <1>1, <1>2, <1>3, <1>4, Zenon DEF Stored
  <1>6. QED BY <1>5, Zenon DEF acc

(* The first product of a sum;                                             *)
LEMMA FirstHolds ==
  ASSUME NEW fp8fp8 \in BOOLEAN, NEW sa \in ScaleActs, NEW sw \in ScaleWgts, NEW exp, NEW mat, NEW ub,
         NEW term, Contributes(fp8fp8, exp, mat, sa, sw, term),
         NEW d, d.terms = 1, d.sum = term, d.mode = Mode(fp8fp8)
  PROVE  Added(Accumulated(fp8fp8, exp, mat, sa, sw, NoSum, ub),
               exp + sa + WgtScale(fp8fp8, sw).exp, NoSum, d)
  <1> DEFINE b == Origin(fp8fp8)
             k == ScaledMat(fp8fp8, mat, sw)
             y == term * Fine(Mode(fp8fp8))
             m == k \div 64
  <1>1. PICK s : /\ exp + sa + WgtScale(fp8fp8, sw).exp = b + s /\ term \in Int
                 /\ IsTerm(y, s, k)
    BY Zenon DEF Contributes
  <1>2. b \in Nat /\ b <= 448 BY ScalesOfCall
  <1> HIDE DEF b, k, y
  <1>3. sign_extend(k \div 2^6, 23) = m /\ Held(y, s, m, 1) BY <1>1, HeldFirst
  <1>4. s \in Places /\ Bits23(m) BY <1>1, <1>3, Zenon DEF IsTerm, Held
  <1> HIDE DEF m
  <1>5. Accumulated(fp8fp8, exp, mat, sa, sw, NoSum, ub) = [exp |-> b + s, mat |-> m]
    <2>1. Accumulated(fp8fp8, exp, mat, sa, sw, NoSum, ub)
            = AddedTo(NoSum, exp + sa + WgtScale(fp8fp8, sw).exp, ScaledMat(fp8fp8, mat, sw), ub)
      BY AccumulatedIs
    <2>2. Accumulated(fp8fp8, exp, mat, sa, sw, NoSum, ub) = AddedTo(NoSum, b + s, k, ub)
      BY <1>1, <2>1, Zenon DEF k
    <2>3. QED BY <1>3, <2>2, Zenon DEF AddedTo
  <1>6. Stored(Accumulated(fp8fp8, exp, mat, sa, sw, NoSum, ub)) = [exp |-> b + s, mat |-> m]
    BY <1>2, <1>4, <1>5, StoredIs
  <1>7. d.mode \in {"fp8", "fp4"} /\ Origin(d.mode = "fp8") = b BY DEF Mode, Origin, b
  <1> DEFINE acc == Accumulated(fp8fp8, exp, mat, sa, sw, NoSum, ub)
  <1>8. acc.exp = b + s /\ Stored(acc) = acc /\ acc = [exp |-> b + s, mat |-> m]
    BY <1>5, <1>6
  <1> HIDE DEF acc
  <1>9. Holds(acc, d) BY <1>1, <1>3, <1>7, <1>8, Zenon DEF Holds, HeldIn, y
  <1>10. b + s \in Int /\ NoSum.exp \in Int /\ acc.exp <= Larger(b + s, NoSum.exp) + 1
    <2>1. NoSum.exp = 0 BY DEF NoSum
    <2>2. s \in Nat BY <1>1, Zenon DEF IsTerm
    <2>3. QED BY <1>2, <1>8, <2>1, <2>2 DEF Larger
  <1>11. QED BY <1>1, <1>8, <1>9, <1>10, Zenon DEF Added, acc

(* a further one;                                                          *)
LEMMA NextHolds ==
  ASSUME NEW fp8fp8 \in BOOLEAN, NEW sa \in ScaleActs, NEW sw \in ScaleWgts, NEW exp, NEW mat, NEW ub,
         NEW term, Contributes(fp8fp8, exp, mat, sa, sw, term),
         NEW p, NEW d, Holds(p, d), d.terms \in Nat, d.terms + 1 <= 2^Growth, d.mode = Mode(fp8fp8),
         NEW e, e.terms = d.terms + 1, e.sum = d.sum + term, e.mode = Mode(fp8fp8)
  PROVE  Added(Accumulated(fp8fp8, exp, mat, sa, sw, p, ub), exp + sa + WgtScale(fp8fp8, sw).exp, p, e)
  <1> DEFINE b == Origin(fp8fp8)
             k == ScaledMat(fp8fp8, mat, sw)
             g == Fine(Mode(fp8fp8))
             x == d.sum * g
             y == term * g
             n == d.terms
  <1>1. PICK s : /\ exp + sa + WgtScale(fp8fp8, sw).exp = b + s /\ term \in Int
                 /\ IsTerm(y, s, k)
    BY Zenon DEF Contributes
  <1>2. b \in Nat /\ b <= 448 /\ 1 <= b BY ScalesOfCall
  <1>3. e.mode \in {"fp8", "fp4"} /\ Origin(d.mode = "fp8") = b /\ Origin(e.mode = "fp8") = b
        /\ Fine(d.mode) = g /\ Fine(e.mode) = g
    BY DEF Mode, Origin, b, g
  <1>4. g \in Nat BY DEF Fine
  <1> HIDE DEF b, k, g
  <1>5. PICK r, m : p = [exp |-> b + r, mat |-> m] /\ Held(x, r, m, n)
    BY <1>3, Zenon DEF Holds, HeldIn
  <1>6. d.sum \in Int BY Zenon DEF Holds
  <1>7. x + y = e.sum * g /\ e.sum \in Int BY <1>1, <1>4, <1>6
  <1> HIDE DEF x, y
  <1>8. n \in Nat /\ n + 1 <= 2^Growth OBVIOUS
  <1> HIDE DEF n
  <1>9. PICK r2, m2 :
            /\ fp_add(b + s, k, b + r, sign_extend(m * 2^6, 29), ub) = [exp |-> b + r2, mat |-> m2]
            /\ Held(x + y, r2, m2, n + 1)
            /\ fp_add(b + s, k, b + r, sign_extend(m * 2^6, 29), ub).exp <= Larger(b + s, b + r) + 1
    <2>1. /\ HeldIn(fp_add(b + s, k, b + r, sign_extend(m * 2^6, 29), ub), b, x + y, n + 1)
          /\ fp_add(b + s, k, b + r, sign_extend(m * 2^6, 29), ub).exp <= Larger(b + s, b + r) + 1
      BY <1>1, <1>2, <1>5, <1>8, HeldNext
    <2>2. QED BY <2>1, Zenon DEF HeldIn
  <1>10. p # NoSum /\ p.exp = b + r /\ p.mat = m /\ b + r \in Int /\ b + s \in Int
    <2>1. r \in Nat /\ s \in Nat BY <1>1, <1>5, Zenon DEF Held, IsTerm
    <2>2. b + r # 0 BY <1>2, <2>1
    <2>3. p.exp = b + r /\ p.mat = m BY <1>5
    <2>4. NoSum.exp = 0 BY DEF NoSum
    <2>5. b + r \in Int /\ b + s \in Int BY <1>2, <2>1
    <2>6. QED BY <2>2, <2>3, <2>4, <2>5, Zenon
  <1>11. /\ Accumulated(fp8fp8, exp, mat, sa, sw, p, ub) = [exp |-> b + r2, mat |-> m2]
         /\ Accumulated(fp8fp8, exp, mat, sa, sw, p, ub).exp <= Larger(b + s, b + r) + 1
    <2>1. Accumulated(fp8fp8, exp, mat, sa, sw, p, ub)
            = AddedTo(p, exp + sa + WgtScale(fp8fp8, sw).exp, ScaledMat(fp8fp8, mat, sw), ub)
      BY AccumulatedIs
    <2>2. Accumulated(fp8fp8, exp, mat, sa, sw, p, ub) = AddedTo(p, b + s, k, ub)
      BY <1>1, <2>1, Zenon DEF k
    <2>3. QED BY <1>9, <1>10, <2>2, Zenon DEF AddedTo
  <1>12. r2 \in Places /\ Bits23(m2)
    <2>1. r2 \in Nat /\ 2^r2 <= (n + 1) * (2 * Reach) /\ Bits23(m2) BY <1>9, Zenon DEF Held
    <2>2. n + 1 \in Nat BY <1>8
    <2>3. QED BY <1>8, <2>1, <2>2, HeldPlace
  <1>13. Stored(Accumulated(fp8fp8, exp, mat, sa, sw, p, ub)) = [exp |-> b + r2, mat |-> m2]
    BY <1>2, <1>11, <1>12, StoredIs
  <1>14. e.terms = n + 1 BY Zenon DEF n
  <1> DEFINE acc == Accumulated(fp8fp8, exp, mat, sa, sw, p, ub)
  <1>15. Stored(acc) = acc /\ acc = [exp |-> b + r2, mat |-> m2] BY <1>11, <1>13, Zenon
  <1>16. /\ exp + sa + WgtScale(fp8fp8, sw).exp \in Int /\ p.exp \in Int
         /\ acc.exp <= Larger(exp + sa + WgtScale(fp8fp8, sw).exp, p.exp) + 1
    BY <1>1, <1>10, <1>11, Zenon
  <1> HIDE DEF acc
  <1>17. Holds(acc, e) BY <1>3, <1>7, <1>9, <1>14, <1>15, Zenon DEF Holds, HeldIn
  <1>18. QED BY <1>15, <1>16, <1>17, Zenon DEF Added, acc

(* and a call in any mode, which keeps the invariant.                      *)
LEMMA SumStep ==
  ASSUME NEW p, NEW d, SumInv(p, d), d.terms + 1 <= 2^Growth,
         NEW fp8fp8 \in BOOLEAN, NEW sa \in ScaleActs, NEW sw \in ScaleWgts, NEW exp, NEW mat, NEW ub,
         NEW norm \in BOOLEAN, NEW agrees \in BOOLEAN, NEW place,
         NEW term, agrees => Contributes(fp8fp8, exp, mat, sa, sw, term)
  PROVE  /\ SumInv(IF norm THEN NoSum ELSE Stored(Accumulated(fp8fp8, exp, mat, sa, sw, p, ub)),
                   Extended(d, fp8fp8, term, place, agrees, norm))
         /\ Extended(d, fp8fp8, term, place, agrees, norm).clean =>
               Added(Accumulated(fp8fp8, exp, mat, sa, sw, p, ub),
                     exp + sa + WgtScale(fp8fp8, sw).exp, p,
                     Extended(d, fp8fp8, term, place, agrees, norm))
  <1> DEFINE base == IF d.norm THEN NoDot ELSE d
             e == Extended(d, fp8fp8, term, place, agrees, norm)
             acc == Accumulated(fp8fp8, exp, mat, sa, sw, p, ub)
             q == Stored(acc)
             E == exp + sa + WgtScale(fp8fp8, sw).exp
  <1>1. /\ e.sum = base.sum + term /\ e.terms = base.terms + 1 /\ e.mode = Mode(fp8fp8)
        /\ e.clean = (base.clean /\ agrees /\ base.mode \in {"none", Mode(fp8fp8)})
        /\ e.norm = norm
    <2>1. e = [sum   |-> base.sum + term,
               place |-> place,
               terms |-> base.terms + 1,
               mode  |-> Mode(fp8fp8),
               clean |-> base.clean /\ agrees /\ base.mode \in {"none", Mode(fp8fp8)},
               norm  |-> norm]
      BY Zenon DEF Extended
    <2> HIDE DEF e, base
    <2>2. QED BY <2>1
  <1>2. /\ d.terms \in Nat /\ (d.terms = 0 => d = NoDot) /\ (d.norm \/ d.terms = 0 => p = NoSum)
        /\ (d.clean /\ d.terms > 0 /\ ~d.norm => Holds(p, d))
    BY Zenon DEF SumInv
  <1>3. NoDot.terms = 0 /\ NoDot.sum = 0 /\ ~NoDot.norm BY DEF NoDot
  <1>4. base.terms \in Nat /\ base.terms <= d.terms
    <2>1. CASE d.norm BY <1>2, <1>3, <2>1
    <2>2. CASE ~d.norm BY <1>2, <2>2
    <2>3. QED BY <2>1, <2>2
  <1>5. (base.terms = 0 => base = NoDot /\ p = NoSum) /\ (base.terms # 0 => base = d /\ ~d.norm)
    <2>1. CASE d.norm BY <1>2, <1>3, <2>1, Zenon
    <2>2. CASE ~d.norm BY <1>2, <2>2, Zenon
    <2>3. QED BY <2>1, <2>2
  <1> HIDE DEF e, base
  <1>6. ASSUME e.clean PROVE Added(acc, E, p, e)
    <2>1. base.clean /\ Contributes(fp8fp8, exp, mat, sa, sw, term) /\ base.mode \in {"none", Mode(fp8fp8)}
      BY <1>1, <1>6, Zenon
    <2>2. CASE base.terms = 0
      <3>1. p = NoSum /\ base.sum = 0 /\ e.terms = 1 BY <1>1, <1>3, <1>5, <2>2
      <3>2. term \in Int BY <2>1, Zenon DEF Contributes
      <3>3. e.sum = term BY <1>1, <3>1, <3>2
      <3>4. Added(Accumulated(fp8fp8, exp, mat, sa, sw, NoSum, ub), E, NoSum, e)
        BY <1>1, <2>1, <3>1, <3>3, FirstHolds
      <3>5. QED BY <3>1, <3>4, Zenon
    <2>3. CASE base.terms # 0
      <3>1. base = d /\ ~d.norm /\ d.terms > 0 BY <1>2, <1>4, <1>5, <2>3
      <3>2. Holds(p, d) BY <1>2, <2>1, <3>1, Zenon
      <3>3. d.mode = Mode(fp8fp8)
        <4>1. d.mode \in {"fp8", "fp4"} BY <3>2, Zenon DEF Holds
        <4>2. d.mode \in {"none", Mode(fp8fp8)} BY <2>1, <3>1, Zenon
        <4>3. QED BY <4>1, <4>2
      <3>4. e.terms = d.terms + 1 /\ e.sum = d.sum + term BY <1>1, <3>1
      <3>5. QED BY <1>1, <1>2, <2>1, <3>2, <3>3, <3>4, NextHolds
    <2>4. QED BY <2>2, <2>3
  <1> HIDE DEF acc, E
  <1>7. e.terms \in Nat /\ e.terms # 0 /\ e.terms <= d.terms + 1 BY <1>1, <1>2, <1>4
  <1> DEFINE p2 == IF norm THEN NoSum ELSE q
  <1>8. SumInv(p2, e)
    <2>1. e.norm \/ e.terms = 0 => p2 = NoSum BY <1>1, <1>7, Zenon
    <2>2. e.clean /\ e.terms > 0 /\ ~e.norm => Holds(p2, e) BY <1>1, <1>6, Zenon DEF Added
    <2> HIDE DEF p2
    <2>3. QED BY <1>7, <2>1, <2>2, Zenon DEF SumInv
  <1>9. QED BY <1>6, <1>8, Zenon DEF e, p2, q, acc, E

(* m is v, less two units per term at most.                                *)
Near(m, v, n) == m <= v /\ v <= m + 2 * n

(* The exact value in units of the last place of the partial sum, rounded  *)
(* down, when its place is below the unit or above it.                     *)
LEMMA NearExact ==
  ASSUME NEW x \in Int, NEW k \in Nat, NEW r \in Nat, NEW m \in Int, NEW n \in Nat,
         Covers(x * (64 * 2^k), 64 * m, 95 * n, 2^r)
  PROVE  Near(m, Shifted(x, k - r), n)
  <1> DEFINE K == 2^k
             R == 2^r
  <1>1. K \in Nat \ {0} /\ R \in Nat \ {0} BY Powers
  <1>2. (64 * m) * R <= x * (64 * K) /\ x * (64 * K) <= (64 * m + 95 * n) * R BY Zenon DEF Covers
  <1>3. CASE r <= k
    <2> DEFINE v == x * 2^(k - r)
               D == 2^(k - r)
    <2>1. k - r \in Nat /\ r + (k - r) = k BY <1>3
    <2>2. D \in Nat /\ K = R * D
      <3>1. 2^(r + (k - r)) = 2^r * 2^(k - r) BY <2>1, PowerSum
      <3>2. QED BY <2>1, <3>1, Powers, Zenon
    <2>3. Shifted(x, k - r) = v
      <3>1. k - r >= 0 BY <1>3
      <3>2. QED BY <3>1, Zenon DEF Shifted
    <2>4. v = x * D /\ v \in Int BY <2>2
    <2> HIDE DEF K, R, D, v
    <2>5. x * (64 * K) = (64 * v) * R
      <3>1. x * (64 * (R * D)) = (64 * (x * D)) * R BY <1>1, <2>2
      <3>2. QED BY <2>2, <2>4, <3>1
    <2>6. 64 * m <= 64 * v /\ 64 * v <= 64 * m + 95 * n
      <3>1. \A a, b \in Int : a * R <= b * R => a <= b BY <1>1
      <3>2. 64 * m \in Int /\ 64 * v \in Int /\ 64 * m + 95 * n \in Int BY <2>4
      <3>3. QED BY <1>2, <2>5, <3>1, <3>2
    <2>7. m <= v /\ v <= m + 2 * n BY <2>4, <2>6
    <2>8. QED BY <2>3, <2>7, Zenon DEF Near
  <1>4. CASE ~(r <= k)
    <2> DEFINE D == 2^(r - k)
               v == x \div D
    <2>1. r - k \in Nat /\ k + (r - k) = r /\ -(k - r) = r - k /\ ~(k - r >= 0) BY <1>4
    <2>2. D \in Nat \ {0} /\ R = K * D
      <3>1. 2^(k + (r - k)) = 2^k * 2^(r - k) BY <2>1, PowerSum
      <3>2. QED BY <2>1, <3>1, Powers, Zenon
    <2>3. Shifted(x, k - r) = v BY <2>1, Zenon DEF Shifted
    <2> HIDE DEF K, R, D
    <2>4. v \in Int /\ v * D <= x /\ x < (v + 1) * D BY <2>2
    <2> HIDE DEF v
    <2>5. (64 * m) * R = ((64 * m) * D) * K /\ (64 * m + 95 * n) * R = ((64 * m + 95 * n) * D) * K
      BY <1>1, <2>2
    <2>6. x * (64 * K) = (64 * x) * K BY <1>1
    <2>7. (64 * m) * D <= 64 * x /\ 64 * x <= (64 * m + 95 * n) * D
      <3>1. \A a, b \in Int : a * K <= b * K => a <= b BY <1>1
      <3>2. (64 * m) * D \in Int /\ 64 * x \in Int /\ (64 * m + 95 * n) * D \in Int BY <2>2
      <3>3. QED BY <1>2, <2>5, <2>6, <3>1, <3>2
    <2>8. m < v + 1 /\ 64 * v <= 64 * m + 95 * n
      <3>1. (64 * m) * D = 64 * (m * D) /\ 64 * (v * D) = (64 * v) * D BY <2>2, <2>4
      <3>2. m * D \in Int /\ v * D \in Int /\ (v + 1) * D \in Int /\ (64 * v) * D \in Int
            /\ (64 * m + 95 * n) * D \in Int BY <2>2, <2>4
      <3>3. m * D < (v + 1) * D /\ (64 * v) * D <= (64 * m + 95 * n) * D BY <2>4, <2>7, <3>1, <3>2
      <3>4. \A a, b \in Int : (a * D < b * D => a < b) /\ (a * D <= b * D => a <= b) BY <2>2
      <3>5. v + 1 \in Int /\ 64 * v \in Int /\ 64 * m + 95 * n \in Int BY <2>4
      <3>6. QED BY <3>3, <3>4, <3>5
    <2>9. m <= v /\ v <= m + 2 * n BY <2>4, <2>8
    <2>10. QED BY <2>3, <2>9, Zenon DEF Near
  <1>5. QED BY <1>3, <1>4

(* The invariant is stronger than the property.                            *)
LEMMA HoldsTracks ==
  ASSUME NEW p, NEW d, SumInv(p, d)
  PROVE  Tracks(p, d)
  <1> SUFFICES ASSUME d.clean, d.terms > 0
               PROVE  IF d.norm THEN p = [exp |-> 0, mat |-> 0]
                      ELSE Distance(p.mat, Shifted(d.sum, Unit(d.mode) - p.exp)) <= 2 * d.terms + 2
    BY Zenon DEF Tracks
  <1>1. CASE d.norm BY <1>1, Zenon DEF SumInv, NoSum
  <1>2. CASE ~d.norm
    <2> DEFINE b == Origin(d.mode = "fp8")
               n == d.terms
               x == d.sum
    <2>1. n \in Nat /\ Holds(p, d) BY <1>2, Zenon DEF SumInv
    <2>2. x \in Int /\ d.mode \in {"fp8", "fp4"} /\ HeldIn(p, b, x * Fine(d.mode), n)
      BY <2>1, Zenon DEF Holds
    <2>3. PICK r, m : p = [exp |-> b + r, mat |-> m] /\ Held(x * Fine(d.mode), r, m, n)
      BY <2>2, Zenon DEF HeldIn
    <2>4. r \in Nat /\ Bits23(m) /\ Covers(x * Fine(d.mode), 64 * m, 95 * n, 2^r) BY <2>3, Zenon DEF Held
    <2>5. p.exp = b + r /\ p.mat = m /\ m \in Int
      <3>1. m \in Int BY <2>4, SMT DEF Bits23
      <3>2. QED BY <2>3, <3>1
    <2>6. Base \in Int BY GemmAssumption
    <2> DEFINE k == IF d.mode = "fp8" THEN 6 ELSE 4
    <2>7. k \in Nat /\ Unit(d.mode) - p.exp = k - r /\ Fine(d.mode) = 64 * 2^k
      <3> HIDE DEF x, n
      <3>1. CASE d.mode = "fp8"
        <4>1. k = 6 /\ b = Base /\ Unit(d.mode) = Base + 6 /\ Fine(d.mode) = 4096
          BY <3>1 DEF Origin, Unit, Fine
        <4> HIDE DEF k, b
        <4>2. QED BY <2>4, <2>5, <2>6, <4>1
      <3>2. CASE d.mode = "fp4"
        <4>1. k = 4 /\ b = Base - 3 /\ Unit(d.mode) = Base + 1 /\ Fine(d.mode) = 1024
          BY <3>2 DEF Origin, Unit, Fine
        <4> HIDE DEF k, b
        <4>2. QED BY <2>4, <2>5, <2>6, <4>1
      <3>3. QED BY <2>2, <3>1, <3>2
    <2> DEFINE v == Shifted(x, k - r)
    <2> HIDE DEF k, x, n
    <2>8. Near(m, v, n)
      <3>1. Covers(x * (64 * 2^k), 64 * m, 95 * n, 2^r) BY <2>4, <2>7
      <3>2. QED BY <2>1, <2>2, <2>4, <2>5, <2>7, <3>1, NearExact
    <2>9. v \in Int
      <3>1. CASE k - r >= 0
        <4>1. v = x * 2^(k - r) BY <3>1, Zenon DEF Shifted
        <4>2. k - r \in Nat BY <2>4, <2>7, <3>1
        <4>3. 2^(k - r) \in Nat BY <4>2, Powers
        <4>4. QED BY <2>2, <4>1, <4>3
      <3>2. CASE ~(k - r >= 0)
        <4>1. v = x \div 2^(-(k - r)) BY <3>2, Zenon DEF Shifted
        <4>2. -(k - r) \in Nat BY <2>4, <2>7, <3>2
        <4>3. 2^(-(k - r)) \in Nat \ {0} BY <4>2, Powers
        <4> DEFINE D == 2^(-(k - r))
        <4> HIDE DEF D
        <4>4. D \in Nat \ {0} /\ v = x \div D BY <4>1, <4>3 DEF D
        <4>5. QED BY <2>2, <4>4
      <3>3. QED BY <3>1, <3>2
    <2> HIDE DEF v
    <2>10. Distance(m, v) <= 2 * n + 2 BY <2>1, <2>5, <2>8, <2>9 DEF Near, Distance
    <2>11. QED BY <1>2, <2>5, <2>7, <2>10, Zenon DEF v, x, n
  <1>3. QED BY <1>1, <1>2

(* The inductive invariant.                                                *)
GemmInv ==
    /\ calls \in Nat /\ calls <= MaxCalls
    /\ dot0.terms \in Nat /\ dot0.terms <= calls
    /\ dot1.terms \in Nat /\ dot1.terms <= calls
    /\ \A c \in Cols : SumInv(psum0[c], dot0) /\ SumInv(psum1[c], dot1)

(* A partial sum after a call.                                             *)
SumAfter(norm, fp8fp8, exp, mat, sa, sw, p, ub) ==
    IF norm THEN NoSum ELSE Stored(Accumulated(fp8fp8, exp, mat, sa, sw, p, ub))
HighAfter(norm, fp8fp8, exp, mat, sa, sw, p, ub) ==
    IF fp8fp8 THEN p ELSE SumAfter(norm, fp8fp8, exp, mat, sa, sw, p, ub)

(* The same for every column.                                              *)
Alike(v) == [c \in Cols |-> v]

(* A call does to every column what SumAfter and HighAfter say.            *)
LEMMA ComputeIs ==
  ASSUME NEW fp8fp8, NEW norm, NEW st, NEW act, NEW wgt, NEW sa, NEW sw, NEW ub,
         compute(fp8fp8, norm, st, act, Alike(wgt), sa, Alike(sw), Alike(sw), ub),
         NEW c \in Cols
  PROVE  /\ psum0'[c] = SumAfter(norm, fp8fp8, Product(fp8fp8, ActDeNorm(act), wgt).exp,
                                 Product(fp8fp8, ActDeNorm(act), wgt).lsb, sa, sw, psum0[c], ub)
         /\ psum1'[c] = HighAfter(norm, fp8fp8, Product(fp8fp8, ActDeNorm(act), wgt).exp,
                                  Product(fp8fp8, ActDeNorm(act), wgt).msb, sa, sw, psum1[c], ub)
  <1> DEFINE row == ActDeNorm(act)
             P == Product(fp8fp8, row, wgt)
             p == [e \in Cols |-> Product(fp8fp8, row, Alike(wgt)[e])]
             acc0 == [e \in Cols |-> Accumulated(fp8fp8, p[e].exp, p[e].lsb, sa, Alike(sw)[e], psum0[e], ub)]
             acc1 == [e \in Cols |-> Accumulated(fp8fp8, p[e].exp, p[e].msb, sa, Alike(sw)[e], psum1[e], ub)]
             next(acc) == IF norm THEN EmptySum ELSE [e \in Cols |-> Stored(acc[e])]
  <1>1. psum0' = next(acc0) /\ (fp8fp8 => psum1' = psum1) /\ (~fp8fp8 => psum1' = next(acc1))
    BY Zenon DEF compute
  <1>2. p[c] = P /\ Alike(sw)[c] = sw BY Zenon DEF Alike
  <1>3. acc0[c] = Accumulated(fp8fp8, P.exp, P.lsb, sa, sw, psum0[c], ub)
    <2> HIDE DEF P, p
    <2>1. QED BY <1>2, Zenon
  <1>4. acc1[c] = Accumulated(fp8fp8, P.exp, P.msb, sa, sw, psum1[c], ub)
    <2> HIDE DEF P, p
    <2>1. QED BY <1>2, Zenon
  <1> HIDE DEF acc0, acc1
  <1>5. EmptySum[c] = NoSum BY Zenon DEF EmptySum, NoSum
  <1>6. next(acc0)[c] = IF norm THEN NoSum ELSE Stored(acc0[c]) BY <1>5, Zenon
  <1>7. next(acc1)[c] = IF norm THEN NoSum ELSE Stored(acc1[c]) BY <1>5, Zenon
  <1> HIDE DEF next, P
  <1>8. QED BY <1>1, <1>3, <1>4, <1>6, <1>7, Zenon DEF SumAfter, HighAfter, P, row

(* A call adds one term.                                                   *)
LEMMA ExtendedTerms ==
  ASSUME NEW d, d.terms \in Nat, NEW fp8fp8, NEW term, NEW place, NEW agrees, NEW norm
  PROVE  /\ Extended(d, fp8fp8, term, place, agrees, norm).terms \in Nat
         /\ Extended(d, fp8fp8, term, place, agrees, norm).terms <= d.terms + 1
  <1> DEFINE base == IF d.norm THEN NoDot ELSE d
  <1>1. Extended(d, fp8fp8, term, place, agrees, norm).terms = base.terms + 1 BY DEF Extended
  <1>2. base.terms \in Nat /\ base.terms <= d.terms
    <2>1. NoDot.terms = 0 BY DEF NoDot
    <2>2. CASE d.norm BY <2>1, <2>2
    <2>3. CASE ~d.norm BY <2>3
    <2>4. QED BY <2>2, <2>3
  <1>3. QED BY <1>1, <1>2

(* The product of a call, in FP8 or of the low nibbles, contributes its    *)
(* exact value;                                                            *)
LEMMA ProductContributes ==
  ASSUME NEW act \in ActRows, NEW wgt \in WgtCols, NEW sa \in ScaleActs, NEW sw \in ScaleWgts,
         NEW fp8fp8 \in BOOLEAN, fp8fp8 \/ \A i \in 1 .. ROW_SIZE : LowNibbleAgrees(wgt[i])
  PROVE  Contributes(fp8fp8, Product(fp8fp8, ActDeNorm(act), wgt).exp,
                     Product(fp8fp8, ActDeNorm(act), wgt).lsb, sa, sw,
                     (Dot(act, IF fp8fp8 THEN Fp8s(wgt) ELSE Lows(wgt)) * Factor(fp8fp8, sw))
                       * 2^Lift(fp8fp8, sa, sw))
  <1> DEFINE P == Product(fp8fp8, ActDeNorm(act), wgt)
             x == Dot(act, IF fp8fp8 THEN Fp8s(wgt) ELSE Lows(wgt))
  <1>1. act \in [Row -> Bytes] /\ wgt \in [Row -> Bytes] BY GemmAssumption DEF Row, Bytes
  <1>2. IF fp8fp8 THEN Delivers(x, P.exp, P.lsb, 64, 203) ELSE Delivers(x, P.exp, P.lsb, 32, 46)
    <2>1. CASE fp8fp8
      <3>1. P = Fp8Product(ActDeNorm(act), wgt) /\ x = Dot(act, Fp8s(wgt)) BY <2>1, Zenon DEF Product
      <3> HIDE DEF P, x
      <3>2. Delivers(x, P.exp, P.lsb, 64, 203) BY <1>1, <3>1, Fp8ProductIs, Zenon
      <3>3. QED BY <2>1, <3>2, Zenon
    <2>2. CASE ~fp8fp8
      <3>1. P = Fp4Product(ActDeNorm(act), wgt) /\ x = Dot(act, Lows(wgt)) BY <2>2, Zenon DEF Product
      <3>2. \A i \in Row : LowNibbleAgrees(wgt[i]) BY <2>2, Zenon DEF Row
      <3> HIDE DEF P, x
      <3>3. Delivers(x, P.exp, P.lsb, 32, 46) BY <1>1, <3>1, <3>2, Fp4ProductIs, Zenon
      <3>4. QED BY <2>2, <3>3, Zenon
    <2>3. QED BY <2>1, <2>2
  <1> HIDE DEF P, x
  <1>3. Contributes(fp8fp8, P.exp, P.lsb, sa, sw, (x * Factor(fp8fp8, sw)) * 2^Lift(fp8fp8, sa, sw))
    BY <1>2, ScaledContributes
  <1>4. QED BY <1>3, Zenon DEF P, x

(* so does the product of the high nibbles.                                *)
LEMMA HighContributes ==
  ASSUME NEW act \in ActRows, NEW wgt \in WgtCols, NEW sa \in ScaleActs, NEW sw \in ScaleWgts
  PROVE  Contributes(FALSE, Product(FALSE, ActDeNorm(act), wgt).exp,
                     Product(FALSE, ActDeNorm(act), wgt).msb, sa, sw,
                     (Dot(act, Highs(wgt)) * Factor(FALSE, sw)) * 2^Lift(FALSE, sa, sw))
  <1> DEFINE P == Product(FALSE, ActDeNorm(act), wgt)
             x == Dot(act, Highs(wgt))
  <1>1. act \in [Row -> Bytes] /\ wgt \in [Row -> Bytes] BY GemmAssumption DEF Row, Bytes
  <1>2. P = Fp4Product(ActDeNorm(act), wgt) BY Zenon DEF Product
  <1> HIDE DEF P
  <1>3. Delivers(x, P.exp, P.msb, 32, 46) BY <1>1, <1>2, Fp4ProductIs, Zenon
  <1> DEFINE m == FALSE
  <1>4. m \in BOOLEAN /\ IF m THEN Delivers(x, P.exp, P.msb, 64, 203) ELSE Delivers(x, P.exp, P.msb, 32, 46)
    BY <1>3, Zenon
  <1> HIDE DEF x, m
  <1>5. Contributes(m, P.exp, P.msb, sa, sw, (x * Factor(m, sw)) * 2^Lift(m, sa, sw))
    BY <1>4, ScaledContributes
  <1>6. QED BY <1>5, Zenon DEF P, x, m

(* What GemmCall takes the low nibbles to be.                              *)
Agrees(fp8fp8, wgt) == fp8fp8 \/ \A i \in 1 .. ROW_SIZE : LowNibbleAgrees(wgt[i])

(* Every call keeps the invariant.                                         *)
LEMMA CallStep ==
  ASSUME GemmInv, calls < MaxCalls,
         NEW fp8fp8 \in BOOLEAN, NEW norm \in BOOLEAN, NEW act \in ActRows, NEW wgt \in WgtCols,
         NEW sa \in ScaleActs, NEW sw \in ScaleWgts, GemmCall(fp8fp8, norm, act, wgt, sa, sw)
  PROVE  GemmInv'
  <1> DEFINE P == Product(fp8fp8, ActDeNorm(act), wgt)
             t0 == (Dot(act, IF fp8fp8 THEN Fp8s(wgt) ELSE Lows(wgt)) * Factor(fp8fp8, sw))
                     * 2^Lift(fp8fp8, sa, sw)
             t1 == (Dot(act, Highs(wgt)) * Factor(fp8fp8, sw)) * 2^Lift(fp8fp8, sa, sw)
             agrees == Agrees(fp8fp8, wgt)
  <1>1. PICK place0, place1 :
            /\ \E st, ub : compute(fp8fp8, norm, st, act, Alike(wgt), sa, Alike(sw), Alike(sw), ub)
            /\ dot0' = Extended(dot0, fp8fp8, t0, place0, agrees, norm)
            /\ dot1' = IF fp8fp8 THEN dot1 ELSE Extended(dot1, FALSE, t1, place1, TRUE, norm)
            /\ calls' = calls + 1
    BY Zenon DEF GemmCall, Alike, Fp8s, Lows, Highs, Factor, Lift, Agrees
  <1>2. PICK st, ub : compute(fp8fp8, norm, st, act, Alike(wgt), sa, Alike(sw), Alike(sw), ub)
    BY <1>1, Zenon
  <1>3. agrees \in BOOLEAN BY Zenon DEF Agrees
  <1>4. agrees => Contributes(fp8fp8, P.exp, P.lsb, sa, sw, t0) BY ProductContributes, Zenon DEF Agrees
  <1>5. ~fp8fp8 => Contributes(fp8fp8, P.exp, P.msb, sa, sw, t1)
    <2> SUFFICES ASSUME ~fp8fp8 PROVE Contributes(fp8fp8, P.exp, P.msb, sa, sw, t1)
      OBVIOUS
    <2>1. fp8fp8 = FALSE OBVIOUS
    <2>2. QED BY <2>1, HighContributes
  <1>6. /\ calls \in Nat /\ MaxCalls \in Nat /\ MaxCalls <= 2^Growth /\ 2^Growth \in Nat
        /\ dot0.terms \in Nat /\ dot0.terms <= calls
        /\ dot1.terms \in Nat /\ dot1.terms <= calls
    BY GemmAssumption, ReachIs DEF GemmInv
  <1>7. dot0.terms + 1 <= 2^Growth /\ dot1.terms + 1 <= 2^Growth BY <1>6
  <1> HIDE DEF P, t0, t1, agrees
  <1>8. calls' \in Nat /\ calls' <= MaxCalls BY <1>1, <1>6
  <1>9. dot0'.terms \in Nat /\ dot0'.terms <= calls'
    <2>1. dot0'.terms \in Nat /\ dot0'.terms <= dot0.terms + 1 BY <1>1, <1>6, ExtendedTerms
    <2>2. QED BY <1>1, <1>6, <2>1
  <1>10. dot1'.terms \in Nat /\ dot1'.terms <= calls'
    <2>1. CASE fp8fp8 BY <1>1, <1>6, <2>1
    <2>2. CASE ~fp8fp8
      <3>1. dot1' = Extended(dot1, FALSE, t1, place1, TRUE, norm) BY <1>1, <2>2, Zenon
      <3>2. dot1'.terms \in Nat /\ dot1'.terms <= dot1.terms + 1 BY <1>6, <3>1, ExtendedTerms
      <3>3. calls' = calls + 1 BY <1>1, Zenon
      <3>4. QED BY <1>6, <3>2, <3>3
    <2>3. QED BY <2>1, <2>2
  <1>11. ASSUME NEW c \in Cols PROVE SumInv(psum0'[c], dot0') /\ SumInv(psum1'[c], dot1')
    <2>1. SumInv(psum0[c], dot0) /\ SumInv(psum1[c], dot1) BY Zenon DEF GemmInv
    <2>2. /\ psum0'[c] = SumAfter(norm, fp8fp8, P.exp, P.lsb, sa, sw, psum0[c], ub)
          /\ psum1'[c] = HighAfter(norm, fp8fp8, P.exp, P.msb, sa, sw, psum1[c], ub)
      BY <1>2, ComputeIs DEF P
    <2>3. SumInv(psum0'[c], dot0')
      <3> DEFINE p == psum0[c]
      <3> HIDE DEF p
      <3>1. SumInv(p, dot0) BY <2>1 DEF p
      <3>2. SumInv(IF norm THEN NoSum ELSE Stored(Accumulated(fp8fp8, P.exp, P.lsb, sa, sw, p, ub)),
                   Extended(dot0, fp8fp8, t0, place0, agrees, norm))
        BY <1>3, <1>4, <1>7, <3>1, SumStep
      <3>3. QED BY <1>1, <2>2, <3>2, Zenon DEF SumAfter, p
    <2>4. SumInv(psum1'[c], dot1')
      <3> DEFINE p == psum1[c]
      <3> HIDE DEF p
      <3>1. CASE fp8fp8 BY <1>1, <2>1, <2>2, <3>1, Zenon DEF HighAfter
      <3>2. CASE ~fp8fp8
        <4>1. SumInv(p, dot1) /\ TRUE \in BOOLEAN BY <2>1 DEF p
        <4>2. TRUE => Contributes(fp8fp8, P.exp, P.msb, sa, sw, t1) BY <1>5, <3>2, Zenon
        <4>3. SumInv(IF norm THEN NoSum ELSE Stored(Accumulated(fp8fp8, P.exp, P.msb, sa, sw, p, ub)),
                     Extended(dot1, fp8fp8, t1, place1, TRUE, norm))
          BY <1>7, <4>1, <4>2, SumStep
        <4>4. fp8fp8 = FALSE BY <3>2
        <4>5. dot1' = Extended(dot1, fp8fp8, t1, place1, TRUE, norm) BY <1>1, <3>2, <4>4, Zenon
        <4>6. QED BY <2>2, <3>2, <4>3, <4>5, Zenon DEF SumAfter, HighAfter, p
      <3>3. QED BY <3>1, <3>2
    <2>5. QED BY <2>3, <2>4
  <1>12. QED BY <1>8, <1>9, <1>10, <1>11, Zenon DEF GemmInv

(* It holds at first.                                                      *)
LEMMA GemmInvInit == GemmInit => GemmInv
  <1> SUFFICES ASSUME GemmInit PROVE GemmInv
    OBVIOUS
  <1>1. dot0 = NoDot /\ dot1 = NoDot /\ calls = 0 /\ psum0 = EmptySum /\ psum1 = EmptySum
    BY DEF GemmInit, Init
  <1>2. NoDot.terms = 0 /\ NoDot.norm = FALSE BY DEF NoDot
  <1>3. SumInv(NoSum, NoDot) BY <1>2 DEF SumInv
  <1>4. \A c \in Cols : EmptySum[c] = NoSum BY DEF EmptySum, NoSum
  <1>5. MaxCalls \in Nat BY GemmAssumption
  <1>6. \A c \in Cols : SumInv(psum0[c], dot0) /\ SumInv(psum1[c], dot1) BY <1>1, <1>3, <1>4, Zenon
  <1>7. /\ calls \in Nat /\ calls <= MaxCalls
        /\ dot0.terms \in Nat /\ dot0.terms <= calls
        /\ dot1.terms \in Nat /\ dot1.terms <= calls
    BY <1>1, <1>2, <1>5
  <1>8. QED BY <1>6, <1>7, Zenon DEF GemmInv

(* Every step keeps it.                                                    *)
LEMMA GemmInvStep == GemmInv /\ [GemmNext]_<<gemmVars, benchSums>> => GemmInv'
  <1> SUFFICES ASSUME GemmInv, [GemmNext]_<<gemmVars, benchSums>> PROVE GemmInv'
    OBVIOUS
  <1>1. CASE GemmNext
    <2>1. calls < MaxCalls BY <1>1 DEF GemmNext
    <2>2. PICK fp8fp8 \in BOOLEAN, norm \in BOOLEAN, act \in ActRows, wgt \in WgtCols,
               sa \in ScaleActs, sw \in ScaleWgts : GemmCall(fp8fp8, norm, act, wgt, sa, sw)
      BY <1>1, Zenon DEF GemmNext
    <2>3. QED BY <2>1, <2>2, CallStep, Zenon
  <1>2. CASE UNCHANGED <<gemmVars, benchSums>>
    <2>1. /\ psum0' = psum0 /\ psum1' = psum1 /\ dot0' = dot0 /\ dot1' = dot1
          /\ calls' = calls
      BY <1>2, Zenon DEF gemmVars, benchSums
    <2>2. QED BY <2>1, Zenon DEF GemmInv
  <1>3. QED BY <1>1, <1>2

(* GemmTop.cpp, Fp32PsumAcc.cpp, MxFp8Product.cpp: after any calls, in any *)
(* mix of modes, a partial sum is the exact dot product of everything      *)
(* added since the last normalisation, up to two units in the last place   *)
(* per term; sums that mixed the two modes or misread a low nibble are     *)
(* excepted.                                                               *)
THEOREM GemmTracks == GemmSpec => []PsumTracksDotProduct
  <1>1. GemmInit => GemmInv BY GemmInvInit
  <1>2. GemmInv /\ [GemmNext]_<<gemmVars, benchSums>> => GemmInv' BY GemmInvStep
  <1>3. GemmInv => PsumTracksDotProduct BY HoldsTracks, Zenon DEF GemmInv, PsumTracksDotProduct
  <1>4. QED BY <1>1, <1>2, <1>3, PTL DEF GemmSpec

-----------------------------------------------------------------------------
(***************************************************************************)
(* The output: to_bf16 of Fp32PsumAcc.cpp.  The mantissa is halved (with   *)
(* the tensor scale 1, or in the FP8 mode), left-justified, rounded to     *)
(* eight bits and packed with its exponent.  The rounding costs half a unit *)
(* of the last bit kept (Bf16Is), and the bound of Held becomes a bound on *)
(* the distance of the exact sum (OutputNear).                             *)
(***************************************************************************)
(* A left-justified mantissa rounded to 1 + 7 bits, to even when halfway.  *)
SevenBits(B) ==
    ((B \div 2^15) % 128)
      + (IF (B \div 2^14) % 2 = 1 /\ (B % 2^14 # 0 \/ (B \div 2^15) % 2 = 1) THEN 1 ELSE 0)

(* It is what the code computes for a normal number;                       *)
LEMMA SevenBitsIs ==
  ASSUME NEW B, B \in Int
  PROVE  round_mantissa_to_7bits(B, TRUE) = SevenBits(B)
  <1>1. MAT_WIDTH - 9 = 15 /\ MAT_WIDTH - 8 = 16 /\ 15 - 1 = 14 BY DEF MAT_WIDTH
  <1>2. QED BY <1>1, Zenon DEF round_mantissa_to_7bits, SevenBits

(* with the leading one it is the mantissa to half a unit.                 *)
LEMMA SevenBitsNear ==
  ASSUME NEW B, B \in Int, 2^22 <= B, B < 2^23
  PROVE  /\ SevenBits(B) \in 0 .. 128
         /\ (128 + SevenBits(B)) * 2^15 <= B + 2^14
         /\ B <= (128 + SevenBits(B)) * 2^15 + 2^14
  <1> DEFINE q == B \div 32768
             g == B \div 16384
  <1>1. q \in Int /\ 32768 * q <= B /\ B <= 32768 * q + 32767 OBVIOUS
  <1>2. g \in Int /\ 16384 * g <= B /\ B <= 16384 * g + 16383 OBVIOUS
  <1>3. B % 16384 = B - 16384 * g /\ g % 2 \in {0, 1} OBVIOUS
  <1>4. g = 2 * q + (g % 2) OBVIOUS
  <1>5. SevenBits(B) = (q % 128) + (IF g % 2 = 1 /\ (B % 16384 # 0 \/ q % 2 = 1) THEN 1 ELSE 0)
    BY SMT DEF SevenBits
  <1>6. 2^15 = 32768 /\ 2^14 = 16384 /\ 2^22 = 4194304 /\ 2^23 = 8388608 OBVIOUS
  <1> HIDE DEF q, g
  <1>7. q \in 128 .. 255 BY <1>1, <1>6
  <1>8. q % 128 = q - 128 BY <1>7
  <1>9. CASE g % 2 = 1 /\ (B % 16384 # 0 \/ q % 2 = 1)
    <2>1. SevenBits(B) = q - 127 BY <1>5, <1>8, <1>7, <1>9
    <2>2. QED BY <1>1, <1>2, <1>3, <1>4, <1>6, <1>7, <1>9, <2>1
  <1>10. CASE ~(g % 2 = 1 /\ (B % 16384 # 0 \/ q % 2 = 1))
    <2>1. SevenBits(B) = q - 128 BY <1>5, <1>8, <1>7, <1>10
    <2>2. g % 2 = 0 \/ B = 16384 * g BY <1>2, <1>3, <1>10
    <2>3. QED BY <1>1, <1>2, <1>3, <1>4, <1>6, <1>7, <2>1, <2>2
  <1>11. QED BY <1>9, <1>10

(* The magnitude, as the code takes it from the sign bit.                  *)
AbsOf(h) == IF h < 0 THEN -h ELSE h

LEMMA AbsBits ==
  ASSUME NEW h, h \in Int, -(2^21) <= h, h < 2^21
  PROVE  /\ (h \div 2^23) % 2 = IF h < 0 THEN 1 ELSE 0
         /\ (IF (h \div 2^23) % 2 = 1 THEN -h ELSE h) % 2^23 = AbsOf(h)
         /\ AbsOf(h) \in 0 .. 2^21
  <1>1. CASE h < 0
    <2>2. (h \div 8388608) % 2 = 1
      <3> DEFINE x == h \div 8388608
      <3>1. x + 1 = 0 /\ x \in Int BY <1>1
      <3> HIDE DEF x
      <3>2. x % 2 = 1 BY <3>1
      <3>3. QED BY <3>2 DEF x
    <2>3. (h \div 2^23) % 2 = 1 BY <2>2
    <2>4. (-h) % 2^23 = -h BY <1>1
    <2>5. QED BY <1>1, <2>3, <2>4 DEF AbsOf
  <1>2. CASE ~(h < 0)
    <2>1. h \div 8388608 = 0 BY <1>2
    <2>2. (h \div 2^23) % 2 = 0 BY <2>1
    <2>3. h % 2^23 = h BY <1>2
    <2>4. QED BY <1>2, <2>2, <2>3 DEF AbsOf
  <1>3. QED BY <1>1, <1>2

(* The mantissa left-justified.                                            *)
LEMMA LeftJustified ==
  ASSUME NEW A, A \in 1 .. 2^21
  PROVE  /\ 22 - MsbPos(A) \in 1 .. 22
         /\ A * 2^(22 - MsbPos(A)) \in Int
         /\ 2^22 <= A * 2^(22 - MsbPos(A)) /\ A * 2^(22 - MsbPos(A)) < 2^23
  <1> DEFINE k == MsbPos(A)
  <1>1. k \in 0 .. 29 /\ 2^k <= A /\ A < 2^(k + 1)
    <2>1. A \in 1 .. 2^26 OBVIOUS
    <2>2. QED BY <2>1, LeadingOneIs, Zenon
  <1> HIDE DEF k
  <1>2. k \in Nat /\ k <= 21
    <2>1. CASE k > 21
      <3>1. 22 \in Nat /\ k \in Nat /\ 22 <= k BY <1>1, <2>1
      <3>2. 2^22 <= 2^k BY <3>1, PowerOrder
      <3>3. 2^k \in Nat BY <3>1, Powers
      <3>4. QED BY <1>1, <3>2, <3>3
    <2>2. QED BY <1>1, <2>1
  <1> DEFINE D == 2^(22 - k)
             K == 2^k
  <1>3. 22 - k \in Nat /\ k + (22 - k) = 22 BY <1>2
  <1>4. D \in Nat \ {0} /\ K \in Nat BY <1>2, <1>3, Powers
  <1>5. K * D = 2^22
    <2>1. 2^(k + (22 - k)) = 2^k * 2^(22 - k) BY <1>2, <1>3, PowerSum
    <2>2. QED BY <1>3, <2>1, Zenon
  <1>6. 2^(k + 1) = 2 * K BY <1>2, PowerStep
  <1>7. K <= A /\ A < 2 * K BY <1>1, <1>6
  <1> HIDE DEF D, K
  <1>8. K * D <= A * D /\ A * D < (2 * K) * D
    <2>1. \A a, b \in Int : (a <= b => a * D <= b * D) /\ (a < b => a * D < b * D) BY <1>4
    <2>2. A \in Int /\ K \in Int /\ 2 * K \in Int BY <1>4
    <2>3. QED BY <1>7, <2>1, <2>2
  <1>9. (2 * K) * D = 2 * (K * D) /\ A * D \in Int BY <1>4
  <1>10. 2^22 <= A * D /\ A * D < 2^23 BY <1>5, <1>8, <1>9
  <1>11. 22 - k \in 1 .. 22 BY <1>2
  <1>12. QED BY <1>9, <1>10, <1>11 DEF D, k

(* The word for a rounded mantissa; rounded up to 128 it carries.          *)
PackRounded(s, e, rounded, is_normal) ==
    IF e + rounded \div 128 > 254 THEN Pack(s, 255, 0)
    ELSE IF rounded \div 128 = 0 THEN Pack(s, e, rounded)
    ELSE Pack(s, e + 1, (IF is_normal THEN 0 ELSE 64) + ((rounded \div 2) % 64))

(* Denormals are rounded to the same width.                                *)
LEMMA RoundingWidth ==
  ASSUME NEW m, m \in Int
  PROVE  round_mantissa_to_7bits(m, FALSE) \in 0 .. 128
  <1> DEFINE up == IF (m \div 2^(MAT_WIDTH - 8 - 1)) % 2 = 1
                      /\ (m % 2^(MAT_WIDTH - 8 - 1) # 0 \/ (m \div 2^(MAT_WIDTH - 8)) % 2 = 1) THEN 1 ELSE 0
             k == m \div 2^(MAT_WIDTH - 8)
  <1>1. round_mantissa_to_7bits(m, FALSE) = (k % 128) + up BY Zenon DEF round_mantissa_to_7bits
  <1>2. up \in 0 .. 1
    <2>1. 0 \in 0 .. 1 /\ 1 \in 0 .. 1 OBVIOUS
    <2>2. QED BY <2>1, Zenon
  <1>3. k \in Int
    BY SMT DEF MAT_WIDTH
  <1> HIDE DEF up, k
  <1>4. (k % 128) + up \in 0 .. 128 BY <1>2, <1>3
  <1>5. QED BY <1>1, <1>4, Zenon

(* The fields of a packed word.                                            *)
IsPacked(w, s, e, rounded, is_normal) ==
    /\ sign(w) = s /\ mantissa(w) \in 0 .. 127
    /\ e = 0 => exponent(w) \in 0 .. 1
    /\ e = 255 => exponent(w) = 255
    /\ exponent(w) <= 254 /\ is_normal =>
          \E c \in 0 .. 1 : /\ exponent(w) = e + c
                            /\ (128 + mantissa(w)) * 2^(15 + c) = (128 + rounded) * 2^15

(* They are those of the rounded number, or of zero, a denormal or infinity. *)
LEMMA PackRoundedIs ==
  ASSUME NEW s \in 0 .. 1, NEW rounded \in 0 .. 128, NEW is_normal \in BOOLEAN, NEW e \in 0 .. 255
  PROVE  IsPacked(PackRounded(s, e, rounded, is_normal), s, e, rounded, is_normal)
  <1> DEFINE w == PackRounded(s, e, rounded, is_normal)
  <1>1. CASE e + rounded \div 128 > 254
    <2>1. w = Pack(s, 255, 0) BY <1>1, Zenon DEF PackRounded
    <2>2. sign(w) = s /\ exponent(w) = 255 /\ mantissa(w) = 0
      <3>1. 255 \in 0 .. 255 /\ 0 \in 0 .. 127 OBVIOUS
      <3>2. sign(Pack(s, 255, 0)) = s /\ exponent(Pack(s, 255, 0)) = 255 /\ mantissa(Pack(s, 255, 0)) = 0
        BY <3>1, FieldsOfPack, Zenon
      <3> HIDE DEF w
      <3>3. QED BY <2>1, <3>2, Zenon
    <2>3. e # 0
      <3>1. rounded \div 128 <= 1 OBVIOUS
      <3>2. QED BY <1>1, <3>1
    <2> HIDE DEF w
    <2>4. mantissa(w) \in 0 .. 127 /\ ~(exponent(w) <= 254) BY <2>2
    <2>5. QED BY <2>2, <2>3, <2>4, Zenon DEF w, IsPacked
  <1>2. CASE ~(e + rounded \div 128 > 254) /\ rounded \div 128 = 0
    <2>1. w = Pack(s, e, rounded) BY <1>2, Zenon DEF PackRounded
    <2>2. rounded \in 0 .. 127 /\ e <= 254 BY <1>2
    <2>3. sign(w) = s /\ exponent(w) = e /\ mantissa(w) = rounded
      <3>1. /\ sign(Pack(s, e, rounded)) = s /\ exponent(Pack(s, e, rounded)) = e
            /\ mantissa(Pack(s, e, rounded)) = rounded
        BY <2>2, FieldsOfPack, Zenon
      <3> HIDE DEF w
      <3>2. QED BY <2>1, <3>1, Zenon
    <2> HIDE DEF w
    <2>4. (128 + mantissa(w)) * 2^(15 + 0) = (128 + rounded) * 2^15 /\ e + 0 = e /\ 0 \in 0 .. 1 BY <2>3
    <2>5. e = 0 => exponent(w) \in 0 .. 1 BY <2>3
    <2>6. e # 255 BY <2>2
    <2>7. QED BY <2>2, <2>3, <2>4, <2>5, <2>6, Zenon DEF w, IsPacked
  <1>3. CASE ~(e + rounded \div 128 > 254) /\ rounded \div 128 # 0
    <2> DEFINE m == (IF is_normal THEN 0 ELSE 64) + ((rounded \div 2) % 64)
    <2>1. w = Pack(s, e + 1, m) BY <1>3, Zenon DEF PackRounded
    <2>2. rounded = 128 /\ e <= 253 BY <1>3
    <2>3. m \in 0 .. 127 /\ (is_normal => m = 0)
      <3>1. (rounded \div 2) % 64 = 0 BY <2>2
      <3>2. QED BY <3>1
    <2> HIDE DEF m
    <2>4. e + 1 \in 0 .. 255 BY <2>2
    <2>5. sign(w) = s /\ exponent(w) = e + 1 /\ mantissa(w) = m
      <3>1. /\ sign(Pack(s, e + 1, m)) = s /\ exponent(Pack(s, e + 1, m)) = e + 1
            /\ mantissa(Pack(s, e + 1, m)) = m
        BY <2>3, <2>4, FieldsOfPack, Zenon
      <3> HIDE DEF w
      <3>2. QED BY <2>1, <3>1, Zenon
    <2> HIDE DEF w
    <2>6. is_normal => (128 + mantissa(w)) * 2^(15 + 1) = (128 + rounded) * 2^15 BY <2>2, <2>3, <2>5
    <2>7. (e = 0 => exponent(w) \in 0 .. 1) /\ e # 255 /\ 1 \in 0 .. 1 BY <2>2, <2>5
    <2>8. QED BY <2>3, <2>5, <2>6, <2>7, Zenon DEF w, IsPacked
  <1>4. QED BY <1>1, <1>2, <1>3, Zenon

(* The least exponent of a normal number.                                  *)
Threshold(fp8fp8) == IF fp8fp8 THEN 134 ELSE 137

(* A shift of any count delivers a number.                                 *)
LEMMA SarType ==
  ASSUME NEW x \in Int, NEW n \in Nat, NEW ub
  PROVE  Sar(x, n, ub) \in Int
  <1> DEFINE k == IF n >= 64 /\ ub.wraps THEN n % 64 ELSE n
  <1>1. k \in Nat
    <2>1. n % 64 \in Nat OBVIOUS
    <2>2. QED BY <2>1, Zenon
  <1>2. Sar(x, n, ub) = IF k > 30 THEN (IF x < 0 THEN -1 ELSE 0) ELSE x \div 2^k BY Zenon DEF Sar
  <1> HIDE DEF k
  <1>3. x \div 2^k \in Int
    <2> DEFINE D == 2^k
    <2>1. D \in Nat \ {0} BY <1>1, Powers
    <2> HIDE DEF D
    <2>2. x \div D \in Int BY <2>1
    <2>3. QED BY <2>2 DEF D
  <1>4. -1 \in Int /\ 0 \in Int OBVIOUS
  <1>5. QED BY <1>2, <1>3, <1>4, Zenon

(* The BF16 number w is h * 2^E rounded to eight bits: lz is the shift     *)
(* that left-justifies h, c the carry of the rounding.                     *)
RoundedFrom(w, h, E, threshold) ==
    /\ sign(w) = (IF h < 0 THEN 1 ELSE 0) /\ mantissa(w) \in 0 .. 127
    /\ \E lz \in 1 .. 22, c \in 0 .. 1 :
          /\ exponent(w) = E + 4 - lz - threshold + c
          /\ (128 + mantissa(w)) * 2^(15 + c) <= AbsOf(h) * 2^lz + 2^14
          /\ AbsOf(h) * 2^lz <= (128 + mantissa(w)) * 2^(15 + c) + 2^14

(* to_bf16, for a result that is neither a denormal nor saturated.         *)
LEMMA Bf16Is ==
  ASSUME NEW fp8fp8 \in BOOLEAN, NEW E \in Int, NEW h \in Int, -(2^21) <= h, h < 2^21, NEW ub,
         exponent(to_bf16(E, h, fp8fp8, ub)) \in 2 .. 254
  PROVE  RoundedFrom(to_bf16(E, h, fp8fp8, ub), h, E, Threshold(fp8fp8))
  <1> DEFINE w == to_bf16(E, h, fp8fp8, ub)
             s == (h \div 2^(MAT_WIDTH - 1)) % 2
             a == (IF s = 1 THEN -h ELSE h) % 2^(MAT_WIDTH - 1)
             lz == MAT_WIDTH - 2 - MsbPos(a)
             B == a * 2^lz
             high == IF fp8fp8 THEN 388 ELSE 391
             low == IF fp8fp8 THEN 134 ELSE 137
             adj == E + EXT_WIDTH - lz
             normal == low < adj /\ adj <= high
             e == IF adj > high THEN 255 ELSE IF normal THEN adj - low ELSE 0
             mat == IF adj > high THEN 0 ELSE IF normal THEN B ELSE Sar(B, low - adj, ub)
             r == round_mantissa_to_7bits(mat, normal)
  <1>1. w = IF a = 0 THEN Pack(s, 0, 0) ELSE PackRounded(s, e, r, normal) BY Zenon DEF to_bf16, PackRounded
  <1>2. MAT_WIDTH - 1 = 23 /\ MAT_WIDTH - 2 = 22 /\ EXT_WIDTH = 4 BY DEF MAT_WIDTH, EXT_WIDTH
  <1>3. s = (IF h < 0 THEN 1 ELSE 0) /\ a = AbsOf(h) /\ a \in 0 .. 2^21
    <2>1. s = (h \div 2^23) % 2 /\ a = (IF s = 1 THEN -h ELSE h) % 2^23 BY <1>2, Zenon
    <2> HIDE DEF s, a
    <2>2. QED BY <2>1, AbsBits
  <1>4. s \in 0 .. 1 BY <1>3
  <1>5. lz = 22 - MsbPos(a) /\ adj = E + 4 - lz BY <1>2, Zenon
  <1>6. low = Threshold(fp8fp8) /\ high = low + 254 /\ low \in Nat BY DEF Threshold
  <1>7. normal \in BOOLEAN BY Zenon
  <1>8. exponent(w) \in 2 .. 254 BY Zenon
  <1> HIDE DEF w, s, a
  <1>9. a # 0
    <2> SUFFICES ASSUME a = 0 PROVE FALSE
      OBVIOUS
    <2>1. w = Pack(s, 0, 0) BY <1>1, Zenon
    <2>2. exponent(Pack(s, 0, 0)) = 0
      <3>1. 0 \in 0 .. 255 /\ 0 \in 0 .. 127 OBVIOUS
      <3>2. QED BY <1>4, <3>1, FieldsOfPack, Zenon
    <2>3. QED BY <1>8, <2>1, <2>2
  <1>10. w = PackRounded(s, e, r, normal) BY <1>1, <1>9, Zenon
  <1>11. a \in 1 .. 2^21 BY <1>3, <1>9
  <1>12. lz \in 1 .. 22 /\ B \in Int /\ 2^22 <= B /\ B < 2^23
    <2> DEFINE z == 22 - MsbPos(a)
    <2>1. z \in 1 .. 22 /\ a * 2^z \in Int /\ 2^22 <= a * 2^z /\ a * 2^z < 2^23 BY <1>11, LeftJustified
    <2>2. lz = z BY <1>5, Zenon
    <2> HIDE DEF z, lz
    <2>3. QED BY <2>1, <2>2, Zenon
  <1> HIDE DEF lz, B, low, high
  <1>13. adj \in Int BY <1>5, <1>12
  <1> HIDE DEF adj
  <1>14. CASE normal
    <2>1. ~(adj > high) /\ adj - low \in 1 .. 254 BY <1>6, <1>13, <1>14
    <2>2. e = adj - low /\ mat = B /\ normal = TRUE BY <1>14, <2>1, Zenon
    <2>3. r = SevenBits(B)
      <3>1. r = round_mantissa_to_7bits(mat, normal) OBVIOUS
      <3>2. round_mantissa_to_7bits(B, TRUE) = SevenBits(B) BY <1>12, SevenBitsIs
      <3> HIDE DEF r, mat, normal
      <3>3. QED BY <2>2, <3>1, <3>2, Zenon
    <2> HIDE DEF e, r, mat, normal
    <2>4. /\ r \in 0 .. 128
          /\ (128 + r) * 2^15 <= B + 2^14 /\ B <= (128 + r) * 2^15 + 2^14
      <3>1. /\ SevenBits(B) \in 0 .. 128
            /\ (128 + SevenBits(B)) * 2^15 <= B + 2^14 /\ B <= (128 + SevenBits(B)) * 2^15 + 2^14
        BY <1>12, SevenBitsNear
      <3>2. QED BY <2>3, <3>1, Zenon
    <2>5. e \in 0 .. 255 BY <2>1, <2>2
    <2>6. IsPacked(w, s, e, r, normal)
      <3>1. IsPacked(PackRounded(s, e, r, normal), s, e, r, normal) BY <1>4, <1>7, <2>4, <2>5, PackRoundedIs, Zenon
      <3>2. QED BY <1>10, <3>1, Zenon
    <2>7. /\ sign(w) = s /\ mantissa(w) \in 0 .. 127
          /\ exponent(w) <= 254 /\ normal =>
                \E c \in 0 .. 1 : /\ exponent(w) = e + c
                                  /\ (128 + mantissa(w)) * 2^(15 + c) = (128 + r) * 2^15
      BY <2>6, Zenon DEF IsPacked
    <2>8. exponent(w) <= 254 BY <1>8
    <2>9. PICK c \in 0 .. 1 : /\ exponent(w) = e + c
                              /\ (128 + mantissa(w)) * 2^(15 + c) = (128 + r) * 2^15
      BY <1>14, <2>7, <2>8, Zenon
    <2>10. /\ (128 + mantissa(w)) * 2^(15 + c) <= a * 2^lz + 2^14
          /\ a * 2^lz <= (128 + mantissa(w)) * 2^(15 + c) + 2^14
      BY <2>4, <2>9, Zenon DEF B
    <2>11. e + c = E + 4 - lz - low + c BY <1>5, <1>6, <1>12, <2>2
    <2>12. RoundedFrom(w, h, E, low) BY <1>3, <1>12, <2>7, <2>9, <2>10, <2>11, Zenon DEF RoundedFrom
    <2>13. QED BY <1>6, <2>12, Zenon DEF w
  <1>15. CASE ~normal
    <2>1. e = 255 \/ e = 0 BY <1>15, Zenon
    <2>2. mat \in Int
      <3>1. CASE adj > high BY <3>1
      <3>2. CASE ~(adj > high)
        <4>1. low - adj \in Nat BY <1>6, <1>13, <1>15, <3>2
        <4>2. Sar(B, low - adj, ub) \in Int BY <1>12, <4>1, SarType
        <4>3. QED BY <1>15, <3>2, <4>2, Zenon
      <3>3. QED BY <3>1, <3>2
    <2>3. normal = FALSE BY <1>15
    <2>4. r \in 0 .. 128 BY <2>2, <2>3, RoundingWidth, Zenon
    <2> HIDE DEF e, r, mat, normal
    <2>5. e \in 0 .. 255 BY <2>1
    <2>6. IsPacked(w, s, e, r, normal)
      <3>1. IsPacked(PackRounded(s, e, r, normal), s, e, r, normal) BY <1>4, <1>7, <2>4, <2>5, PackRoundedIs, Zenon
      <3>2. QED BY <1>10, <3>1, Zenon
    <2>7. (e = 0 => exponent(w) \in 0 .. 1) /\ (e = 255 => exponent(w) = 255)
      BY <2>6, Zenon DEF IsPacked
    <2>8. exponent(w) \notin 2 .. 254
      <3>1. CASE e = 0
        <4>1. exponent(w) \in 0 .. 1 BY <2>7, <3>1, Zenon
        <4>2. QED BY <4>1
      <3>2. CASE e = 255
        <4>1. exponent(w) = 255 BY <2>7, <3>2, Zenon
        <4>2. QED BY <4>1
      <3>3. QED BY <2>1, <3>1, <3>2, Zenon
    <2>9. QED BY <1>8, <2>8, Zenon
  <1>16. QED BY <1>14, <1>15

(* The tensor scale 1 halves the mantissa, and so does the FP8 mode.       *)
LEMMA NormalisedIs ==
  ASSUME NEW fp8fp8 \in BOOLEAN, NEW E, NEW m, Bits23(m), NEW st \in ScaleTensors, NEW ub
  PROVE  /\ Normalised(fp8fp8, [exp |-> E, mat |-> m], st, ub)
              = to_bf16(E + (IF fp8fp8 THEN 0 ELSE 127), m \div 2, fp8fp8, ub)
         /\ m \div 2 \in Int /\ -(2^21) <= m \div 2 /\ m \div 2 < 2^21
  <1> DEFINE acc == [exp |-> E, mat |-> m]
             e == IF fp8fp8 THEN 0 ELSE st.exp
             mat == IF fp8fp8 THEN 2^23 ELSE IF e # 0 THEN 2^23 + st.mat ELSE st.mat * 2
             h == m \div 2
  <1>1. st = [exp |-> 127, mat |-> 0] BY TensorAssumption
  <1>2. e = (IF fp8fp8 THEN 0 ELSE 127) /\ mat = 2^23
    <2>1. st.exp = 127 /\ st.mat = 0 BY <1>1
    <2>2. QED BY <2>1
  <1>3. Normalised(fp8fp8, acc, st, ub)
          = to_bf16(acc.exp + e, sign_extend(ScaledDown24(acc.mat, mat), MAT_WIDTH), fp8fp8, ub)
    BY Zenon DEF Normalised
  <1>4. acc.exp = E /\ acc.mat = m OBVIOUS
  <1> HIDE DEF acc, e, mat
  <1>5. m \in Int /\ -4194304 <= m /\ m < 4194304 BY SMT DEF Bits23
  <1>6. h \in Int /\ -2097152 <= h /\ h < 2097152 BY <1>5
  <1>7. ScaledDown24(m, mat) = h
    <2>1. mat \div 2^16 = 128 /\ (mat \div 2^8) % 2^8 = 0 /\ mat % 2^8 = 0 BY <1>2
    <2>2. ScaledDown24(m, mat) = (m * 128 + (m * 0 + (m * 0) \div 2^8) \div 2^8) \div 2^8
      BY <2>1, Zenon DEF ScaledDown24
    <2>3. (m * 0 + (m * 0) \div 2^8) \div 2^8 = 0
      <3>1. m * 0 = 0 BY <1>5
      <3>2. (0 + 0 \div 2^8) \div 2^8 = 0 OBVIOUS
      <3>3. QED BY <3>1, <3>2, Zenon
    <2>4. (m * 128 + 0) \div 2^8 = h BY <1>5
    <2>5. QED BY <2>2, <2>3, <2>4, Zenon
  <1>8. sign_extend(h, MAT_WIDTH) = h
    <2>1. Bits24(h) BY <1>6, SMT DEF Bits24
    <2> HIDE DEF h
    <2>2. QED BY <2>1, MatKept, Zenon DEF MAT_WIDTH
  <1>9. 2^21 = 2097152 OBVIOUS
  <1>10. Normalised(fp8fp8, acc, st, ub) = to_bf16(E + (IF fp8fp8 THEN 0 ELSE 127), h, fp8fp8, ub)
    BY <1>2, <1>3, <1>4, <1>7, <1>8, Zenon
  <1>11. h \in Int /\ -(2^21) <= h /\ h < 2^21 BY <1>6, <1>9
  <1>12. QED BY <1>10, <1>11, Zenon DEF acc, h

(* x and y are at most t apart.                                            *)
Within(x, y, t) == x - y <= t /\ y - x <= t

(* Distances scale with a factor.                                          *)
LEMMA WithinTimes ==
  ASSUME NEW x \in Int, NEW y \in Int, NEW t \in Int, Within(x, y, t), NEW k \in Nat
  PROVE  Within(x * k, y * k, t * k)
  <1>1. \A a, b \in Int : a <= b => a * k <= b * k OBVIOUS
  <1>2. x - y \in Int /\ y - x \in Int /\ x - y <= t /\ y - x <= t BY DEF Within
  <1>3. (x - y) * k <= t * k /\ (y - x) * k <= t * k BY <1>1, <1>2
  <1>4. (x - y) * k = x * k - y * k /\ (y - x) * k = y * k - x * k OBVIOUS
  <1>5. QED BY <1>3, <1>4, Zenon DEF Within

(* A common factor cancels.                                                *)
LEMMA WithinCancel ==
  ASSUME NEW x \in Int, NEW y \in Int, NEW t \in Int, NEW k \in Nat \ {0}, Within(x * k, y * k, t * k)
  PROVE  Within(x, y, t)
  <1>1. \A a, b \in Int : a * k <= b * k => a <= b OBVIOUS
  <1>2. x - y \in Int /\ y - x \in Int OBVIOUS
  <1>3. (x - y) * k = x * k - y * k /\ (y - x) * k = y * k - x * k OBVIOUS
  <1>4. (x - y) * k <= t * k /\ (y - x) * k <= t * k BY <1>3, Zenon DEF Within
  <1>5. x - y <= t /\ y - x <= t BY <1>1, <1>2, <1>4
  <1>6. QED BY <1>5, Zenon DEF Within

(* Distances add up.                                                       *)
LEMMA WithinSum ==
  ASSUME NEW x \in Int, NEW y \in Int, NEW z \in Int, NEW s \in Int, NEW t \in Int,
         Within(x, y, s), Within(y, z, t), NEW v \in Int, s + t <= v
  PROVE  Within(x, z, v)
  BY DEF Within

(* The slack of a sum of n products, in 64ths of the last place.           *)
Slack(n) == 64 + 95 * n

(* The half of the mantissa against the exact sum;                         *)
LEMMA HalfNear ==
  ASSUME NEW x \in Int, NEW m \in Int, NEW n \in Nat, NEW U \in Nat \ {0}, NEW R \in Nat \ {0},
         Covers(x * (64 * U), 64 * m, 95 * n, R)
  PROVE  Within(64 * (U * x), (m \div 2) * (128 * R), Slack(n) * R)
  <1> DEFINE h == m \div 2
             y == U * x
             k == h * R
             j == m * R
             N == n * R
  <1>1. h \in Int /\ (m = 2 * h \/ m = 2 * h + 1) OBVIOUS
  <1>2. (64 * m) * R <= x * (64 * U) /\ x * (64 * U) <= (64 * m + 95 * n) * R BY Zenon DEF Covers
  <1>3. x * (64 * U) = 64 * y /\ (64 * m) * R = 64 * j /\ (64 * m + 95 * n) * R = 64 * j + 95 * N
    OBVIOUS
  <1>4. h * (128 * R) = 128 * k /\ Slack(n) * R = 64 * R + 95 * N BY <1>1 DEF Slack
  <1>5. j = 2 * k \/ j = 2 * k + R
    <2> HIDE DEF h
    <2>1. CASE m = 2 * h
      <3>1. (2 * h) * R = 2 * (h * R) BY <1>1
      <3>2. QED BY <2>1, <3>1, Zenon
    <2>2. CASE m = 2 * h + 1
      <3>1. (2 * h + 1) * R = 2 * (h * R) + R BY <1>1
      <3>2. QED BY <2>2, <3>1, Zenon
    <2>3. QED BY <1>1, <2>1, <2>2
  <1>6. y \in Int /\ k \in Int /\ j \in Int /\ N \in Nat BY <1>1
  <1> HIDE DEF y, k, j, N, h
  <1>7. Within(64 * y, 128 * k, 64 * R + 95 * N) BY <1>2, <1>3, <1>5, <1>6 DEF Within
  <1>8. QED BY <1>4, <1>7, Zenon DEF y, h

(* and the rounded mantissa against the half.                              *)
LEMMA RoundedNear ==
  ASSUME NEW h \in Int, NEW Z \in Nat, NEW G \in Nat, NEW D \in Nat,
         G * D <= AbsOf(h) * Z + 2^14, AbsOf(h) * Z <= G * D + 2^14,
         NEW g, g = Flipped(h < 0, G)
  PROVE  Within(h * Z, g * D, 2^14)
  <1> DEFINE y == h * Z
             k == G * D
  <1>1. 2^14 = 16384 /\ y \in Int /\ k \in Int OBVIOUS
  <1>2. CASE h < 0
    <2>1. AbsOf(h) = -h /\ g = -G BY <1>2 DEF AbsOf, Flipped
    <2>2. (-h) * Z = -y /\ (-G) * D = -k OBVIOUS
    <2>3. AbsOf(h) * Z = -y /\ g * D = -k BY <2>1, <2>2, Zenon
    <2> HIDE DEF y
    <2>4. k <= -y + 16384 /\ -y <= k + 16384 BY <1>1, <2>3
    <2> HIDE DEF k
    <2>5. Within(y, -k, 16384) BY <1>1, <2>4 DEF Within
    <2>6. QED BY <2>3, <2>5 DEF y
  <1>3. CASE ~(h < 0)
    <2>1. AbsOf(h) = h /\ g = G BY <1>3 DEF AbsOf, Flipped
    <2>2. AbsOf(h) * Z = y /\ g * D = k BY <2>1, Zenon
    <2> HIDE DEF y
    <2>3. k <= y + 16384 /\ y <= k + 16384 BY <1>1, <2>2
    <2> HIDE DEF k
    <2>4. Within(y, k, 16384) BY <1>1, <2>3 DEF Within
    <2>5. QED BY <2>2, <2>4 DEF y
  <1>4. Within(h * Z, g * D, 16384) BY <1>2, <1>3
  <1>5. QED BY <1>1, <1>4

(* Both together.                                                          *)
LEMMA BothNear ==
  ASSUME NEW x \in Int, NEW h \in Int, NEW g \in Int, NEW T \in Int,
         NEW U \in Nat, NEW R \in Nat, NEW Z \in Nat, NEW D \in Nat, 2^15 <= D,
         Within(64 * (U * x), h * (128 * R), T), Within(h * Z, g * D, 2^14)
  PROVE  Within((64 * (U * x)) * Z, 64 * (g * ((2 * D) * R)), T * Z + 32 * ((2 * D) * R))
  <1> DEFINE a == 64 * (U * x)
             b == h * (128 * R)
             W == (2 * D) * R
             f == g * D
             H == h * Z
  <1>1. a \in Int /\ b \in Int /\ W \in Int /\ f \in Int /\ H \in Int OBVIOUS
  <1>2. Within(a * Z, b * Z, T * Z)
    <2>1. Within(a, b, T) OBVIOUS
    <2> HIDE DEF a, b
    <2>2. QED BY <1>1, <2>1, WithinTimes
  <1>3. Within(H * (128 * R), f * (128 * R), 16384 * (128 * R))
    <2> DEFINE k == 128 * R
    <2>1. k \in Nat OBVIOUS
    <2> HIDE DEF H, f, k
    <2>2. Within(H, f, 16384) BY DEF H, f
    <2>3. Within(H * k, f * k, 16384 * k) BY <1>1, <2>1, <2>2, WithinTimes
    <2>4. QED BY <2>3 DEF k
  <1>4. b * Z = H * (128 * R) OBVIOUS
  <1>5. f * (128 * R) = 64 * (g * W) OBVIOUS
  <1>6. 16384 * (128 * R) <= 32 * W
    <2>1. 32768 * R <= D * R
      <3>1. 32768 <= D OBVIOUS
      <3>2. \A i, j \in Int : i <= j => i * R <= j * R OBVIOUS
      <3>3. QED BY <3>1, <3>2
    <2>2. W = 2 * (D * R) /\ D * R \in Int OBVIOUS
    <2>3. QED BY <2>1, <2>2
  <1>7. /\ a * Z \in Int /\ b * Z \in Int /\ T * Z \in Int /\ 16384 * (128 * R) \in Int
        /\ 64 * (g * W) \in Int
    BY <1>1
  <1> DEFINE aZ == a * Z
             bZ == b * Z
             TZ == T * Z
             K == 16384 * (128 * R)
             gW == 64 * (g * W)
  <1>8. Within(bZ, gW, K)
    <2> DEFINE p == H * (128 * R)
               q == f * (128 * R)
    <2>1. Within(p, q, K) BY <1>3
    <2>2. bZ = p /\ gW = q BY <1>4, <1>5
    <2> HIDE DEF p, q, K, bZ, gW
    <2>3. QED BY <2>1, <2>2
  <1>9. TZ + K <= TZ + 32 * W
    <2> HIDE DEF W, TZ, K
    <2>1. K <= 32 * W /\ TZ \in Int /\ K \in Int BY <1>6, <1>7 DEF K, TZ
    <2>2. QED BY <1>1, <2>1
  <1>10. aZ \in Int /\ bZ \in Int /\ TZ \in Int /\ K \in Int /\ gW \in Int /\ TZ + 32 * W \in Int BY <1>1, <1>7
  <1>11. Within(aZ, bZ, TZ) BY <1>2
  <1> DEFINE v == TZ + 32 * W
  <1>12. v \in Int /\ TZ + K <= v BY <1>9, <1>10
  <1> HIDE DEF aZ, bZ, TZ, K, gW, v
  <1>13. Within(aZ, gW, v) BY <1>8, <1>10, <1>11, <1>12, WithinSum
  <1>14. QED BY <1>13 DEF aZ, gW, v, TZ, a, W

(* A result with an exponent above that of the sum's unit;                 *)
LEMMA OutputUp ==
  ASSUME NEW x \in Int, NEW g \in Int, NEW T \in Int, NEW U \in Nat \ {0}, NEW Z \in Nat \ {0},
         NEW W \in Nat, NEW P \in Nat, W = (U * Z) * P,
         Within((64 * (U * x)) * Z, 64 * (g * W), T * Z + 32 * W)
  PROVE  Within(64 * (U * x), 64 * (U * (g * P)), T + 64 * (U * P))
  <1> DEFINE a == 64 * (U * x)
             b == 64 * (U * (g * P))
             t == T + 32 * (U * P)
             v == T + 64 * (U * P)
  <1>1. 64 * (g * W) = b * Z /\ T * Z + 32 * W = t * Z
    <2>1. g * ((U * Z) * P) = (U * (g * P)) * Z /\ (U * Z) * P = (U * P) * Z OBVIOUS
    <2> DEFINE y == U * (g * P)
               k == U * P
    <2>2. y \in Int /\ k \in Int /\ g * W = y * Z /\ W = k * Z BY <2>1
    <2> HIDE DEF y, k
    <2>3. 64 * (y * Z) = (64 * y) * Z /\ T * Z + 32 * (k * Z) = (T + 32 * k) * Z BY <2>2
    <2>4. QED BY <2>2, <2>3 DEF y, k
  <1>2. a \in Int /\ b \in Int /\ t \in Int /\ v \in Int /\ t + 0 <= v OBVIOUS
  <1>3. Within(a * Z, b * Z, t * Z) BY <1>1
  <1> HIDE DEF a, b, t, v
  <1>4. Within(a, b, t) BY <1>2, <1>3, WithinCancel
  <1>5. Within(a, b, v) BY <1>2, <1>4 DEF Within
  <1>6. QED BY <1>5 DEF a, b, v

SumNear(x, g, T, U, Z, W) == Within((64 * (U * x)) * Z, 64 * (g * W), T * Z + 32 * W)
CutBy(g, q, G, F) == (g = G /\ q = G \div F) \/ (g = -G /\ q = -(G \div F))

(* one with an exponent below it, whose last bits count nothing.           *)
LEMMA OutputDown ==
  ASSUME NEW x \in Int, NEW T \in Int, NEW U \in Nat \ {0}, NEW Z \in Nat \ {0}, NEW W \in Nat,
         NEW F \in Nat \ {0}, U * Z = W * F, NEW G \in Nat, NEW g, NEW q,
         CutBy(g, q, G, F), SumNear(x, g, T, U, Z, W)
  PROVE  Within(64 * (U * x), 64 * (U * q), T + 64 * U)
  <1> DEFINE k == G \div F
             V == U * Z
             a == 64 * (U * x)
             b == 64 * (U * q)
             aZ == a * Z
             gW == 64 * (g * W)
             bZ == b * Z
  <1>1. k \in Int /\ k * F <= G /\ G <= k * F + (F - 1) OBVIOUS
  <1>2. (g = G /\ q = k) \/ (g = -G /\ q = -k) BY Zenon DEF CutBy
  <1> HIDE DEF k
  <1>3. g \in Int /\ q \in Int BY <1>2, <1>1
  <1>4. Within(g, q * F, F - 1)
    <2> DEFINE kF == k * F
    <2>1. kF \in Int /\ (-k) * F = -kF BY <1>1
    <2>2. CASE g = -G /\ q = -k
      <3>1. g = -G /\ q * F = -kF BY <2>1, <2>2
      <3>2. kF <= G /\ G <= kF + (F - 1) BY <1>1
      <3> HIDE DEF kF
      <3>3. QED BY <2>1, <3>1, <3>2 DEF Within
    <2>3. CASE g = G /\ q = k
      <3>1. g = G /\ q * F = kF BY <2>1, <2>3
      <3>2. kF <= G /\ G <= kF + (F - 1) BY <1>1
      <3> HIDE DEF kF
      <3>3. QED BY <2>1, <3>1, <3>2 DEF Within
    <2>4. QED BY <1>2, <2>2, <2>3
  <1>5. Within(gW, bZ, 64 * V - 64 * W)
    <2> DEFINE j == 64 * W
               p == q * F
    <2>1. j \in Nat /\ F - 1 \in Int /\ p \in Int BY <1>3
    <2> HIDE DEF j, p
    <2>2. Within(g, p, F - 1) BY <1>4 DEF p
    <2>3. Within(g * j, p * j, (F - 1) * j) BY <1>3, <2>1, <2>2, WithinTimes
    <2>4. g * j = gW BY <1>3 DEF j
    <2>5. p * j = bZ
      <3>1. (q * F) * (64 * W) = 64 * (q * (W * F)) BY <1>3
      <3>2. (64 * (U * q)) * Z = 64 * (q * (U * Z)) BY <1>3
      <3>3. QED BY <3>1, <3>2 DEF p, j
    <2>6. (F - 1) * j = 64 * V - 64 * W
      <3>1. (F - 1) * (64 * W) = 64 * (W * F) - 64 * W OBVIOUS
      <3>2. QED BY <3>1 DEF j
    <2>7. QED BY <2>3, <2>4, <2>5, <2>6
  <1>6. aZ \in Int /\ gW \in Int /\ bZ \in Int /\ V \in Int /\ a \in Int /\ b \in Int BY <1>3
  <1> DEFINE s == T * Z + 32 * W
             t == 64 * V - 64 * W
             v == (T + 64 * U) * Z
  <1>7. s \in Int /\ t \in Int /\ v \in Int BY <1>6
  <1>8. s + t <= v
    <2>1. v = T * Z + 64 * V OBVIOUS
    <2> DEFINE TZ == T * Z
    <2>2. TZ \in Int OBVIOUS
    <2> HIDE DEF V, TZ
    <2>3. TZ + 32 * W + (64 * V - 64 * W) <= TZ + 64 * V BY <1>6, <2>2
    <2>4. s + t = TZ + 32 * W + (64 * V - 64 * W) /\ v = TZ + 64 * V BY <2>1 DEF TZ
    <2> HIDE DEF s, t, v
    <2>5. QED BY <2>3, <2>4
  <1>9. Within(aZ, gW, s) BY Zenon DEF SumNear
  <1> HIDE DEF V
  <1>10. Within(gW, bZ, t) BY <1>5
  <1> HIDE DEF aZ, gW, bZ, s, t, v
  <1>11. Within(aZ, bZ, v) BY <1>6, <1>7, <1>8, <1>9, <1>10, WithinSum
  <1> DEFINE z == T + 64 * U
  <1>12. Within(a * Z, b * Z, z * Z) /\ z \in Int BY <1>11 DEF aZ, bZ, v
  <1> HIDE DEF a, b, z
  <1>13. Within(a, b, z) BY <1>6, <1>12, WithinCancel
  <1>14. QED BY <1>13 DEF a, b, z

(* What that means for the exact sum x: in units of the place that the     *)
(* partial sum has reached, or of the sum's own unit when that is larger.  *)
LEMMA ToleranceIs ==
  ASSUME NEW x \in Int, NEW got \in Int, NEW s \in Nat, NEW n \in Nat, NEW u \in Nat, NEW r \in Nat,
         NEW J \in Int, r - u <= J,
         Within(64 * (2^u * x), 64 * (2^u * got), Slack(n) * 2^r + 64 * (2^u * (s + 1)))
  PROVE  Distance(x, got) <= s + Shifted(2 * n + 4, J) + 1
  <1> DEFINE U == 2^u
             R == 2^r
             d == Distance(x, got) - (s + 1)
             k == 2 * n + 4
             S == Slack(n)
  <1>1. U \in Nat \ {0} /\ R \in Nat \ {0} BY Powers
  <1>2. d \in Int /\ (x - got = d + (s + 1) \/ got - x = d + (s + 1)) BY DEF Distance
  <1>3. S \in Nat /\ S <= 64 * k BY DEF Slack
  <1> HIDE DEF S
  <1>4. Within(64 * (U * x), 64 * (U * got), S * R + 64 * (U * (s + 1))) BY DEF S
  <1> HIDE DEF U, R, d
  <1>5. (64 * d) * U <= S * R
    <2> DEFINE y == U * x
               z == U * got
               w == U * (s + 1)
               D == d * U
               N == S * R
    <2>1. y \in Int /\ z \in Int /\ w \in Int /\ D \in Int /\ N \in Int BY <1>1, <1>2, <1>3
    <2>2. y - z = D + w \/ z - y = D + w
      <3>1. U * (x - got) = y - z /\ U * (got - x) = z - y /\ U * (d + (s + 1)) = D + w BY <1>1, <1>2
      <3> HIDE DEF y, z, D, w
      <3>2. QED BY <1>2, <3>1
    <2>3. (64 * d) * U = 64 * D BY <1>1, <1>2
    <2>4. Within(64 * y, 64 * z, N + 64 * w) BY <1>4
    <2> HIDE DEF y, z, w, D, N
    <2>5. 64 * D <= N BY <2>1, <2>2, <2>4 DEF Within
    <2>6. QED BY <2>3, <2>5 DEF N
  <1>6. CASE J >= 0
    <2> DEFINE P == 2^J
    <2>1. P \in Nat /\ R <= U * P
      <3>1. J \in Nat /\ r <= u + J /\ u + J \in Nat BY <1>6
      <3>2. 2^r <= 2^(u + J) BY <3>1, PowerOrder
      <3>3. 2^(u + J) = 2^u * 2^J BY <3>1, PowerSum
      <3>4. QED BY <3>1, <3>2, <3>3, Powers DEF U, R
    <2>2. Shifted(k, J) = k * P BY <1>6, Zenon DEF Shifted
    <2> HIDE DEF P
    <2>3. S * R <= (S * P) * U
      <3>1. \A a, b \in Int : a <= b => S * a <= S * b BY <1>3
      <3>2. S * R <= S * (U * P) BY <1>1, <2>1, <3>1
      <3>3. S * (U * P) = (S * P) * U BY <1>1, <1>3, <2>1
      <3>4. QED BY <3>2, <3>3
    <2>4. 64 * d <= S * P
      <3>1. \A a, b \in Int : a * U <= b * U => a <= b BY <1>1
      <3>2. (64 * d) * U \in Int /\ S * R \in Int /\ (S * P) * U \in Int /\ 64 * d \in Int /\ S * P \in Int
        BY <1>1, <1>2, <1>3, <2>1
      <3>3. (64 * d) * U <= (S * P) * U BY <1>5, <2>3, <3>2
      <3>4. QED BY <3>1, <3>2, <3>3
    <2>5. S * P <= 64 * (k * P)
      <3>1. \A a, b \in Int : a <= b => a * P <= b * P BY <2>1
      <3>2. S * P <= (64 * k) * P BY <1>3, <3>1
      <3>3. (64 * k) * P = 64 * (k * P) BY <2>1
      <3>4. QED BY <3>2, <3>3
    <2>6. d <= k * P
      <3> DEFINE a == S * P
                 b == k * P
      <3>1. a \in Int /\ b \in Int /\ 64 * d <= a /\ a <= 64 * b BY <1>3, <2>1, <2>4, <2>5
      <3> HIDE DEF a, b
      <3>2. d <= b BY <1>2, <3>1
      <3>3. QED BY <3>2 DEF b
    <2>7. Distance(x, got) <= s + k * P + 1
      <3> DEFINE b == k * P
      <3>1. b \in Int /\ d <= b BY <2>1, <2>6
      <3> HIDE DEF b
      <3>2. Distance(x, got) <= s + b + 1 BY <1>2, <3>1 DEF Distance, d
      <3>3. QED BY <3>2 DEF b
    <2>8. QED BY <2>2, <2>7
  <1>7. CASE ~(J >= 0)
    <2> DEFINE K == 2^(-J)
               v == k \div K
    <2>1. K \in Nat \ {0} /\ R * K <= U
      <3>1. -J \in Nat /\ r + (-J) <= u /\ r + (-J) \in Nat BY <1>7
      <3>2. 2^(r + (-J)) <= 2^u BY <3>1, PowerOrder
      <3>3. 2^(r + (-J)) = 2^r * 2^(-J) BY <3>1, PowerSum
      <3>4. QED BY <3>1, <3>2, <3>3, Powers DEF U, R
    <2>2. Shifted(k, J) = v BY <1>7, Zenon DEF Shifted
    <2> HIDE DEF K
    <2>3. v \in Nat /\ k < (v + 1) * K BY <2>1
    <2>4. d <= v
      <3>1. CASE d <= 0 BY <1>2, <2>3, <3>1
      <3>2. CASE ~(d <= 0)
        <4>1. (64 * d) * (R * K) <= (64 * d) * U
          <5>1. 64 * d \in Nat BY <1>2, <3>2
          <5> DEFINE c == 64 * d
          <5> HIDE DEF c
          <5>2. \A a, b \in Int : a <= b => c * a <= c * b BY <5>1 DEF c
          <5>3. QED BY <1>1, <2>1, <5>2 DEF c
        <4>2. (64 * d) * (R * K) = ((64 * d) * K) * R BY <1>1, <1>2, <2>1
        <4>3. ((64 * d) * K) * R <= S * R
          <5>1. ((64 * d) * K) * R \in Int /\ (64 * d) * U \in Int /\ S * R \in Int BY <1>1, <1>2, <1>3, <2>1
          <5>2. QED BY <1>5, <4>1, <4>2, <5>1
        <4>4. (64 * d) * K <= S
          <5>1. \A a, b \in Int : a * R <= b * R => a <= b BY <1>1
          <5>2. (64 * d) * K \in Int BY <1>2, <2>1
          <5>3. QED BY <1>3, <4>3, <5>1, <5>2
        <4>5. d * K <= k
          <5> DEFINE y == d * K
          <5>1. y \in Int /\ (64 * d) * K = 64 * y BY <1>2, <2>1
          <5> HIDE DEF y
          <5>2. y <= k BY <1>3, <4>4, <5>1
          <5>3. QED BY <5>2 DEF y
        <4>6. d < v + 1
          <5>1. \A a, b \in Int : a * K < b * K => a < b BY <2>1
          <5>2. d * K \in Int /\ (v + 1) * K \in Int /\ v + 1 \in Int BY <1>2, <2>1, <2>3
          <5>3. d * K < (v + 1) * K
            <6> HIDE DEF v
            <6>1. QED BY <2>3, <4>5, <5>2
          <5>4. QED BY <1>2, <5>1, <5>2, <5>3
        <4>7. QED BY <1>2, <2>3, <4>6
      <3>3. QED BY <3>1, <3>2
    <2> HIDE DEF v
    <2>5. Distance(x, got) <= s + v + 1 BY <1>2, <2>3, <2>4 DEF Distance, d
    <2>6. QED BY <2>2, <2>5
  <1>8. QED BY <1>6, <1>7

(* The exact sum against the delivered number.                             *)
LEMMA OutputNear ==
  ASSUME NEW x \in Int, NEW m \in Int, NEW n \in Nat, NEW u \in Nat, NEW r \in Nat,
         Covers(x * (64 * 2^u), 64 * m, 95 * n, 2^r),
         NEW lz \in Nat, NEW c \in Nat, NEW G \in Nat, NEW neg \in BOOLEAN,
         neg = (m \div 2 < 0),
         G * 2^(15 + c) <= AbsOf(m \div 2) * 2^lz + 2^14, AbsOf(m \div 2) * 2^lz <= G * 2^(15 + c) + 2^14,
         NEW e \in Int, e = 16 - lz + r - u + c, NEW J \in Int, r - u <= J
  PROVE  Distance(x, (IF neg THEN -1 ELSE 1) * Shifted(G, e)) <= Shifted(1, e) + Shifted(2 * n + 4, J) + 1
  <1> DEFINE h == m \div 2
             g == Flipped(neg, G)
             U == 2^u
             R == 2^r
             Z == 2^lz
             D == 2^(15 + c)
             W == (2 * D) * R
             T == Slack(n) * R
             got == (IF neg THEN -1 ELSE 1) * Shifted(G, e)
  <1>1. U \in Nat \ {0} /\ R \in Nat \ {0} /\ Z \in Nat \ {0} /\ D \in Nat \ {0} /\ 2^15 <= D
    <2>1. 15 \in Nat /\ 15 + c \in Nat /\ 15 <= 15 + c OBVIOUS
    <2>2. 2^15 <= D BY <2>1, PowerOrder
    <2>3. QED BY <2>1, <2>2, Powers, Zenon
  <1>2. h \in Int /\ g \in Int BY DEF Flipped
  <1>3. W = 2^(16 + c + r) /\ W \in Nat
    <2>1. 15 + c \in Nat /\ 15 + c + 1 = 16 + c /\ 16 + c \in Nat OBVIOUS
    <2>2. 2^(16 + c) = 2 * D BY <2>1, PowerStep
    <2>3. 2^(16 + c + r) = 2^(16 + c) * R BY <2>1, PowerSum
    <2>4. W = 2^(16 + c + r) BY <2>2, <2>3, Zenon
    <2>5. W \in Nat BY <1>1
    <2>6. QED BY <2>4, <2>5
  <1>4. T \in Int BY <1>1 DEF Slack
  <1> HIDE DEF U, R, Z, D, T
  <1>5. Within(64 * (U * x), h * (128 * R), T)
    <2>1. Covers(x * (64 * U), 64 * m, 95 * n, R) BY DEF U, R
    <2>2. Within(64 * (U * x), (m \div 2) * (128 * R), Slack(n) * R) BY <1>1, <2>1, HalfNear
    <2>3. QED BY <2>2 DEF T
  <1>6. Within(h * Z, g * D, 2^14)
    <2>1. G * D <= AbsOf(h) * Z + 2^14 /\ AbsOf(h) * Z <= G * D + 2^14 BY Zenon DEF D, Z
    <2>2. g = Flipped(h < 0, G) BY Zenon
    <2>3. Z \in Nat /\ D \in Nat BY <1>1
    <2> HIDE DEF h, g
    <2>4. QED BY <1>2, <2>1, <2>2, <2>3, RoundedNear, Zenon
  <1> HIDE DEF h
  <1>7. Within((64 * (U * x)) * Z, 64 * (g * W), T * Z + 32 * W)
    <2>1. U \in Nat /\ R \in Nat /\ Z \in Nat /\ D \in Nat BY <1>1
    <2> HIDE DEF g
    <2>2. QED BY <1>1, <1>2, <1>4, <1>5, <1>6, <2>1, BothNear, Zenon
  <1> HIDE DEF W
  <1>8. 2^(u + lz) = U * Z /\ u + lz \in Nat BY PowerSum DEF U, Z
  <1>9. 16 + c + r = u + lz + e /\ 16 + c + r \in Nat OBVIOUS
  <1>10. CASE e >= 0
    <2> DEFINE P == 2^e
    <2>1. e \in Nat BY <1>10
    <2>2. P \in Nat BY <2>1, Powers
    <2>3. W = (U * Z) * P
      <3>1. 2^(u + lz + e) = 2^(u + lz) * 2^e BY <1>8, <2>1, PowerSum
      <3>2. QED BY <1>3, <1>8, <1>9, <3>1, Zenon
    <2>4. Shifted(G, e) = G * P /\ Shifted(1, e) = P
      <3>1. Shifted(G, e) = G * P /\ Shifted(1, e) = 1 * P BY <1>10, Zenon DEF Shifted
      <3>2. QED BY <2>2, <3>1
    <2> HIDE DEF P
    <2>5. got = g * P
      <3>1. CASE neg BY <2>2, <2>4, <3>1 DEF Flipped
      <3>2. CASE ~neg BY <2>2, <2>4, <3>2 DEF Flipped
      <3>3. QED BY <3>1, <3>2
    <2>6. Within(64 * (U * x), 64 * (U * (g * P)), T + 64 * (U * P))
      <3> HIDE DEF g
      <3>1. QED BY <1>1, <1>2, <1>3, <1>4, <1>7, <2>2, <2>3, OutputUp, Zenon
    <2>7. got \in Int BY <1>2, <2>2, <2>5
    <2> HIDE DEF g, got
    <2>8. Within(64 * (U * x), 64 * (U * got), T + 64 * (U * (P + 1)))
      <3> DEFINE a == 64 * (U * x)
                 b == 64 * (U * got)
                 k == U * P
      <3>1. a \in Int /\ b \in Int /\ k \in Int /\ U * (P + 1) = k + U BY <1>1, <2>2, <2>7
      <3>2. Within(a, b, T + 64 * k) BY <2>5, <2>6
      <3> HIDE DEF a, b, k
      <3>3. Within(a, b, T + 64 * (k + U)) BY <1>1, <1>4, <3>1, <3>2 DEF Within
      <3>4. QED BY <3>1, <3>3 DEF a, b, k
    <2>9. Within(64 * (2^u * x), 64 * (2^u * got), Slack(n) * 2^r + 64 * (2^u * (P + 1)))
      BY <2>8, Zenon DEF U, T, R
    <2>10. Distance(x, got) <= P + Shifted(2 * n + 4, J) + 1 BY <2>2, <2>7, <2>9, ToleranceIs
    <2>11. QED BY <2>4, <2>10, Zenon DEF got
  <1>11. CASE ~(e >= 0)
    <2> DEFINE F == 2^(-e)
               q == G \div F
    <2>1. -e \in Nat /\ 1 \in Nat /\ 1 <= -e BY <1>11
    <2>2. F \in Nat \ {0} /\ 2 <= F
      <3>1. 2^1 <= 2^(-e) BY <2>1, PowerOrder
      <3>2. 2^1 = 2 OBVIOUS
      <3>3. QED BY <2>1, <3>1, <3>2, Powers
    <2>3. U * Z = W * F
      <3>1. 2^(16 + c + r + (-e)) = 2^(16 + c + r) * 2^(-e) BY <1>9, <2>1, PowerSum
      <3>2. 16 + c + r + (-e) = u + lz BY <1>9
      <3>3. QED BY <1>3, <1>8, <3>1, <3>2, Zenon
    <2>4. Shifted(G, e) = q /\ Shifted(1, e) = 0
      <3>1. Shifted(G, e) = G \div F /\ Shifted(1, e) = 1 \div F BY <1>11, Zenon DEF Shifted
      <3> HIDE DEF F
      <3>2. 1 \div F = 0 BY <2>2
      <3>3. QED BY <3>1, <3>2
    <2> HIDE DEF F
    <2>5. q \in Int BY <2>2
    <2> DEFINE k == Flipped(neg, q)
    <2>6. got = k
      <3>1. CASE neg BY <2>4, <2>5, <3>1 DEF Flipped
      <3>2. CASE ~neg BY <2>4, <2>5, <3>2 DEF Flipped
      <3>3. QED BY <3>1, <3>2
    <2>7. CutBy(g, k, G, F) BY Zenon DEF Flipped, CutBy
    <2>8. SumNear(x, g, T, U, Z, W) BY <1>7, Zenon DEF SumNear
    <2>9. Within(64 * (U * x), 64 * (U * k), T + 64 * U)
      <3>1. W \in Nat /\ F \in Nat \ {0} BY <1>3, <2>2
      <3> HIDE DEF g, k
      <3>2. QED BY <1>1, <1>4, <2>3, <2>7, <2>8, <3>1, OutputDown, Zenon
    <2>10. k \in Int BY <2>5 DEF Flipped
    <2> HIDE DEF k, got
    <2>11. Within(64 * (2^u * x), 64 * (2^u * got), Slack(n) * 2^r + 64 * (2^u * (0 + 1)))
      <3>1. U * (0 + 1) = U BY <1>1
      <3>2. Within(64 * (U * x), 64 * (U * got), T + 64 * (U * (0 + 1))) BY <2>6, <2>9, <3>1, Zenon
      <3>3. QED BY <3>2, Zenon DEF U, T, R
    <2>12. Distance(x, got) <= 0 + Shifted(2 * n + 4, J) + 1
      <3>1. got \in Int /\ 0 \in Nat BY <2>6, <2>10
      <3>2. QED BY <2>11, <3>1, ToleranceIs
    <2>13. QED BY <2>4, <2>12, Zenon DEF got
  <1>12. QED BY <1>10, <1>11

(* The output for a sum that holds its dot product.                        *)
LEMMA OutputIs ==
  ASSUME NEW fp8fp8 \in BOOLEAN, NEW p, NEW d, Holds(p, d), d.mode = Mode(fp8fp8), d.terms \in Nat,
         NEW st \in ScaleTensors, NEW ub, NEW place \in Int, p.exp <= place + 1,
         NEW o, o.bf16 = Normalised(fp8fp8, p, st, ub)
  PROVE  RoundsTo(o, d, place)
  <1> DEFINE w == o.bf16
             n == d.terms
             x == d.sum
             b == Origin(d.mode = "fp8")
             e == exponent(w) + (IF d.mode = "fp8" THEN 140 ELSE 21) - Base
             J == place + 1 - Unit(d.mode)
             got == (IF sign(w) = 1 THEN -1 ELSE 1) * Shifted(128 + mantissa(w), e)
  <1> SUFFICES ASSUME exponent(w) \in 2 .. 254
               PROVE  Distance(x, got) <= Shifted(1, e) + Shifted(2 * n + 4, J) + 1
    BY Zenon DEF RoundsTo
  <1>1. x \in Int /\ HeldIn(p, b, x * Fine(d.mode), n) BY Zenon DEF Holds
  <1>2. PICK r, m : p = [exp |-> b + r, mat |-> m] /\ Held(x * Fine(d.mode), r, m, n)
    BY <1>1, Zenon DEF HeldIn
  <1>3. r \in Nat /\ Bits23(m) /\ Covers(x * Fine(d.mode), 64 * m, 95 * n, 2^r) BY <1>2, Zenon DEF Held
  <1>4. d.mode = "fp8" <=> fp8fp8 BY DEF Mode
  <1>5. Base \in Int BY GemmAssumption
  <1> DEFINE h == m \div 2
             E == b + r + (IF fp8fp8 THEN 0 ELSE 127)
             u == IF fp8fp8 THEN 6 ELSE 4
             G == 128 + mantissa(w)
  <1>6. h \in Int /\ -(2^21) <= h /\ h < 2^21 /\ w = to_bf16(E, h, fp8fp8, ub)
    <2>1. /\ Normalised(fp8fp8, [exp |-> b + r, mat |-> m], st, ub)
                = to_bf16(b + r + (IF fp8fp8 THEN 0 ELSE 127), m \div 2, fp8fp8, ub)
          /\ m \div 2 \in Int /\ -(2^21) <= m \div 2 /\ m \div 2 < 2^21
      <3> DEFINE k == b + r
      <3> HIDE DEF k
      <3>1. /\ Normalised(fp8fp8, [exp |-> k, mat |-> m], st, ub)
                  = to_bf16(k + (IF fp8fp8 THEN 0 ELSE 127), m \div 2, fp8fp8, ub)
            /\ m \div 2 \in Int /\ -(2^21) <= m \div 2 /\ m \div 2 < 2^21
        BY <1>3, NormalisedIs
      <3>2. QED BY <3>1, Zenon DEF k
    <2>2. QED BY <1>2, <2>1, Zenon
  <1>7. /\ b = (IF fp8fp8 THEN Base ELSE Base - 3) /\ Unit(d.mode) = (IF fp8fp8 THEN Base + 6 ELSE Base + 1)
        /\ Fine(d.mode) = (IF fp8fp8 THEN 4096 ELSE 1024) /\ Threshold(fp8fp8) = (IF fp8fp8 THEN 134 ELSE 137)
        /\ e = exponent(w) + (IF fp8fp8 THEN 140 ELSE 21) - Base
    <2>1. Origin(d.mode = "fp8") = (IF fp8fp8 THEN Base ELSE Base - 3) BY <1>4, Zenon DEF Origin
    <2>2. Fine(d.mode) = (IF fp8fp8 THEN 4096 ELSE 1024) BY <1>4 DEF Fine
    <2>3. Unit(d.mode) = (IF fp8fp8 THEN Base + 6 ELSE Base + 1) BY <1>4, Zenon DEF Unit
    <2>4. (IF d.mode = "fp8" THEN 140 ELSE 21) = (IF fp8fp8 THEN 140 ELSE 21) BY <1>4, Zenon
    <2>5. Threshold(fp8fp8) = (IF fp8fp8 THEN 134 ELSE 137) BY DEF Threshold
    <2>6. QED BY <2>1, <2>2, <2>3, <2>4, <2>5
  <1>8. p.exp = b + r BY <1>2
  <1> HIDE DEF b, e, w, h, x, n
  <1>9. E \in Int /\ u \in Nat BY <1>3, <1>5, <1>7
  <1>10. RoundedFrom(w, h, E, Threshold(fp8fp8))
    <2>1. exponent(w) \in 2 .. 254 OBVIOUS
    <2> HIDE DEF E
    <2>2. RoundedFrom(to_bf16(E, h, fp8fp8, ub), h, E, Threshold(fp8fp8)) BY <1>6, <1>9, <2>1, Bf16Is
    <2>3. QED BY <1>6, <2>2, Zenon
  <1>11. PICK lz \in 1 .. 22, c \in 0 .. 1 :
            /\ exponent(w) = E + 4 - lz - Threshold(fp8fp8) + c
            /\ G * 2^(15 + c) <= AbsOf(h) * 2^lz + 2^14
            /\ AbsOf(h) * 2^lz <= G * 2^(15 + c) + 2^14
    BY <1>10, Zenon DEF RoundedFrom
  <1>12. sign(w) = (IF h < 0 THEN 1 ELSE 0) /\ mantissa(w) \in 0 .. 127 BY <1>10, Zenon DEF RoundedFrom
  <1>13. e \in Int /\ e = 16 - lz + r - u + c
    <2> DEFINE j == exponent(w)
    <2>1. j = E + 4 - lz - Threshold(fp8fp8) + c BY <1>11
    <2> HIDE DEF j
    <2>2. e = j + (IF fp8fp8 THEN 140 ELSE 21) - Base BY <1>7 DEF j
    <2>3. CASE fp8fp8 BY <1>3, <1>5, <1>7, <1>11, <2>1, <2>2, <2>3
    <2>4. CASE ~fp8fp8 BY <1>3, <1>5, <1>7, <1>11, <2>1, <2>2, <2>4
    <2>5. QED BY <2>3, <2>4
  <1>14. J \in Int /\ r - u <= J
    <2>1. CASE fp8fp8 BY <1>3, <1>5, <1>7, <1>8, <2>1
    <2>2. CASE ~fp8fp8 BY <1>3, <1>5, <1>7, <1>8, <2>2
    <2>3. QED BY <2>1, <2>2
  <1>15. Covers(x * (64 * 2^u), 64 * m, 95 * n, 2^r)
    <2>1. Fine(d.mode) = 64 * 2^u
      <3>1. CASE fp8fp8
        <4>1. u = 6 /\ 64 * 2^6 = 4096 BY <3>1
        <4>2. QED BY <1>7, <3>1, <4>1
      <3>2. CASE ~fp8fp8
        <4>1. u = 4 /\ 64 * 2^4 = 1024 BY <3>2
        <4>2. QED BY <1>7, <3>2, <4>1
      <3>3. QED BY <3>1, <3>2
    <2>2. QED BY <1>3, <2>1, Zenon DEF x, n
  <1>16. m \in Int /\ n \in Nat /\ G \in Nat /\ x \in Int
    <2>1. m \in Int BY <1>3, SMT DEF Bits23
    <2>2. QED BY <1>1, <1>12, <2>1 DEF n
  <1> DEFINE neg == h < 0
  <1>17. neg \in BOOLEAN /\ neg = (m \div 2 < 0) BY <1>6 DEF h
  <1>18. /\ G * 2^(15 + c) <= AbsOf(m \div 2) * 2^lz + 2^14
         /\ AbsOf(m \div 2) * 2^lz <= G * 2^(15 + c) + 2^14
    BY <1>11, Zenon DEF h
  <1>19. lz \in Nat /\ c \in Nat BY <1>11
  <1>20. (IF neg THEN -1 ELSE 1) = (IF sign(w) = 1 THEN -1 ELSE 1) BY <1>12
  <1> HIDE DEF neg, G, u, E, J
  <1>21. Distance(x, (IF neg THEN -1 ELSE 1) * Shifted(G, e)) <= Shifted(1, e) + Shifted(2 * n + 4, J) + 1
    BY <1>3, <1>9, <1>13, <1>14, <1>15, <1>16, <1>17, <1>18, <1>19, OutputNear, Zenon
  <1>22. QED BY <1>20, <1>21, Zenon DEF G

(* What a normalising call delivers, and an output after any call.         *)
Delivered(fp8fp8, exp, mat, sa, sw, p, st, ub) ==
    [bf16 |-> Normalised(fp8fp8, Accumulated(fp8fp8, exp, mat, sa, sw, p, ub), st, ub)]
OutputAfter(norm, fp8fp8, exp, mat, sa, sw, p, st, ub) ==
    IF norm THEN Delivered(fp8fp8, exp, mat, sa, sw, p, st, ub)
    ELSE Stored(Accumulated(fp8fp8, exp, mat, sa, sw, p, ub))
HighOutputAfter(norm, fp8fp8, exp, mat, sa, sw, p, st, ub, o) ==
    IF fp8fp8 THEN o ELSE OutputAfter(norm, fp8fp8, exp, mat, sa, sw, p, st, ub)

(* compute delivers these.                                                 *)
LEMMA OutputsAre ==
  ASSUME NEW fp8fp8, NEW norm, NEW st, NEW act, NEW wgt, NEW sa, NEW sw, NEW ub,
         compute(fp8fp8, norm, st, act, Alike(wgt), sa, Alike(sw), Alike(sw), ub),
         NEW c \in Cols
  PROVE  /\ o_Psum0'[c] = OutputAfter(norm, fp8fp8, Product(fp8fp8, ActDeNorm(act), wgt).exp,
                                      Product(fp8fp8, ActDeNorm(act), wgt).lsb, sa, sw, psum0[c], st, ub)
         /\ o_Psum1'[c] = HighOutputAfter(norm, fp8fp8, Product(fp8fp8, ActDeNorm(act), wgt).exp,
                                          Product(fp8fp8, ActDeNorm(act), wgt).msb, sa, sw, psum1[c], st, ub,
                                          o_Psum1[c])
  <1> DEFINE row == ActDeNorm(act)
             P == Product(fp8fp8, row, wgt)
             p == [e \in Cols |-> Product(fp8fp8, row, Alike(wgt)[e])]
             acc0 == [e \in Cols |-> Accumulated(fp8fp8, p[e].exp, p[e].lsb, sa, Alike(sw)[e], psum0[e], ub)]
             acc1 == [e \in Cols |-> Accumulated(fp8fp8, p[e].exp, p[e].msb, sa, Alike(sw)[e], psum1[e], ub)]
             out(acc) == [e \in Cols |-> IF norm THEN [bf16 |-> Normalised(fp8fp8, acc[e], st, ub)]
                                         ELSE Stored(acc[e])]
  <1>1. o_Psum0' = out(acc0) /\ (fp8fp8 => o_Psum1' = o_Psum1) /\ (~fp8fp8 => o_Psum1' = out(acc1))
    BY Zenon DEF compute
  <1>2. p[c] = P /\ Alike(sw)[c] = sw BY Zenon DEF Alike
  <1>3. acc0[c] = Accumulated(fp8fp8, P.exp, P.lsb, sa, sw, psum0[c], ub)
    <2> HIDE DEF P, p
    <2>1. QED BY <1>2, Zenon
  <1>4. acc1[c] = Accumulated(fp8fp8, P.exp, P.msb, sa, sw, psum1[c], ub)
    <2> HIDE DEF P, p
    <2>1. QED BY <1>2, Zenon
  <1> HIDE DEF acc0, acc1
  <1>5. out(acc0)[c] = IF norm THEN [bf16 |-> Normalised(fp8fp8, acc0[c], st, ub)] ELSE Stored(acc0[c]) BY Zenon
  <1>6. out(acc1)[c] = IF norm THEN [bf16 |-> Normalised(fp8fp8, acc1[c], st, ub)] ELSE Stored(acc1[c]) BY Zenon
  <1> HIDE DEF out, P
  <1>7. QED BY <1>1, <1>3, <1>4, <1>5, <1>6, Zenon DEF P, row, Delivered, OutputAfter, HighOutputAfter

(* One accumulator: what a normalising call adds is delivered rounded.     *)
LEMMA SumDelivered ==
  ASSUME NEW p, NEW d, SumInv(p, d), d.terms + 1 <= 2^Growth,
         NEW fp8fp8 \in BOOLEAN, NEW sa \in ScaleActs, NEW sw \in ScaleWgts, NEW exp, NEW mat, NEW ub,
         NEW agrees \in BOOLEAN, NEW place, NEW term,
         agrees => Contributes(fp8fp8, exp, mat, sa, sw, term),
         NEW st \in ScaleTensors, NEW o,
         o = Delivered(fp8fp8, exp, mat, sa, sw, p, st, ub)
  PROVE  RoundsTo(o, Extended(d, fp8fp8, term, place, agrees, TRUE),
                  Larger(exp + sa + WgtScale(fp8fp8, sw).exp, p.exp))
  <1> DEFINE e == Extended(d, fp8fp8, term, place, agrees, TRUE)
             acc == Accumulated(fp8fp8, exp, mat, sa, sw, p, ub)
             at == exp + sa + WgtScale(fp8fp8, sw).exp
  <1>1. e.mode = Mode(fp8fp8) BY DEF Extended
  <1>2. e.terms \in Nat
    <2>1. d.terms \in Nat BY Zenon DEF SumInv
    <2>2. QED BY <2>1, ExtendedTerms
  <1>3. e.clean => Added(acc, at, p, e)
    <2>1. TRUE \in BOOLEAN OBVIOUS
    <2>2. QED BY <2>1, SumStep
  <1> HIDE DEF e, acc
  <1>4. CASE e.clean
    <2>1. Holds(acc, e) /\ at \in Int /\ p.exp \in Int /\ acc.exp <= Larger(at, p.exp) + 1
      BY <1>3, <1>4, Zenon DEF Added
    <2> HIDE DEF at
    <2>2. Larger(at, p.exp) \in Int BY <2>1 DEF Larger
    <2>3. o.bf16 = Normalised(fp8fp8, acc, st, ub) BY DEF Delivered, acc
    <2>4. RoundsTo(o, e, Larger(at, p.exp)) BY <1>1, <1>2, <2>1, <2>2, <2>3, OutputIs
    <2>5. QED BY <2>4, Zenon DEF e, at
  <1>5. CASE ~e.clean
    <2>1. RoundsTo(o, e, Larger(at, p.exp)) BY <1>5, Zenon DEF RoundsTo
    <2>2. QED BY <2>1, Zenon DEF e
  <1>6. QED BY <1>4, <1>5

(* Every call keeps the outputs right.                                     *)
LEMMA OutputStep ==
  ASSUME GemmInv, OutputRoundsDotProduct, calls < MaxCalls,
         NEW fp8fp8 \in BOOLEAN, NEW norm \in BOOLEAN, NEW act \in ActRows, NEW wgt \in WgtCols,
         NEW sa \in ScaleActs, NEW sw \in ScaleWgts, GemmCall(fp8fp8, norm, act, wgt, sa, sw)
  PROVE  OutputRoundsDotProduct'
  <1> DEFINE P == Product(fp8fp8, ActDeNorm(act), wgt)
             t0 == (Dot(act, IF fp8fp8 THEN Fp8s(wgt) ELSE Lows(wgt)) * Factor(fp8fp8, sw))
                     * 2^Lift(fp8fp8, sa, sw)
             t1 == (Dot(act, Highs(wgt)) * Factor(fp8fp8, sw)) * 2^Lift(fp8fp8, sa, sw)
             agrees == Agrees(fp8fp8, wgt)
             at == P.exp + sa + WgtScale(fp8fp8, sw).exp
             place(psum) == [c \in Cols |-> Larger(at, psum[c].exp)]
  <1>1. /\ \E st \in ScaleTensors, ub \in ShiftOutcomes :
              compute(fp8fp8, norm, st, act, Alike(wgt), sa, Alike(sw), Alike(sw), ub)
        /\ dot0' = Extended(dot0, fp8fp8, t0, place(psum0), agrees, norm)
        /\ dot1' = IF fp8fp8 THEN dot1 ELSE Extended(dot1, FALSE, t1, place(psum1), TRUE, norm)
    BY Zenon DEF GemmCall, Alike, Fp8s, Lows, Highs, Factor, Lift, Agrees
  <1>2. PICK st \in ScaleTensors, ub \in ShiftOutcomes :
              compute(fp8fp8, norm, st, act, Alike(wgt), sa, Alike(sw), Alike(sw), ub)
    BY <1>1, Zenon
  <1>3. agrees \in BOOLEAN BY Zenon DEF Agrees
  <1>4. agrees => Contributes(fp8fp8, P.exp, P.lsb, sa, sw, t0) BY ProductContributes, Zenon DEF Agrees
  <1>5. ~fp8fp8 => Contributes(fp8fp8, P.exp, P.msb, sa, sw, t1)
    <2> SUFFICES ASSUME ~fp8fp8 PROVE Contributes(fp8fp8, P.exp, P.msb, sa, sw, t1)
      OBVIOUS
    <2>1. fp8fp8 = FALSE OBVIOUS
    <2>2. QED BY <2>1, HighContributes
  <1>6. dot0.terms + 1 <= 2^Growth /\ dot1.terms + 1 <= 2^Growth
    <2>1. /\ calls \in Nat /\ MaxCalls \in Nat /\ MaxCalls <= 2^Growth /\ 2^Growth \in Nat
          /\ dot0.terms \in Nat /\ dot0.terms <= calls
          /\ dot1.terms \in Nat /\ dot1.terms <= calls
      BY GemmAssumption, ReachIs DEF GemmInv
    <2>2. QED BY <2>1
  <1>7. fp8fp8 => o_Psum1' = o_Psum1 BY <1>2, Zenon DEF compute
  <1>8. ASSUME NEW c \in Cols
        PROVE  /\ o_Psum0'[c] = OutputAfter(norm, fp8fp8, P.exp, P.lsb, sa, sw, psum0[c], st, ub)
               /\ o_Psum1'[c] = HighOutputAfter(norm, fp8fp8, P.exp, P.msb, sa, sw, psum1[c], st, ub, o_Psum1[c])
    BY <1>2, OutputsAre DEF P
  <1> HIDE DEF t0, t1, agrees, P
  <1>9. ASSUME NEW c \in Cols PROVE RoundsTo(o_Psum0'[c], dot0', dot0'.place[c])
    <2>1. CASE norm
      <3> DEFINE e == Extended(dot0, fp8fp8, t0, place(psum0), agrees, TRUE)
      <3>1. norm = TRUE BY <2>1
      <3>2. dot0' = e BY <1>1, <3>1, Zenon
      <3>3. e.place = place(psum0) BY DEF Extended
      <3>4. e.place[c] = Larger(at, psum0[c].exp) BY <3>3, Zenon
      <3>5. o_Psum0'[c] = Delivered(fp8fp8, P.exp, P.lsb, sa, sw, psum0[c], st, ub)
        BY <1>8, <2>1, Zenon DEF OutputAfter
      <3>6. SumInv(psum0[c], dot0) BY Zenon DEF GemmInv
      <3>7. RoundsTo(o_Psum0'[c], e, Larger(at, psum0[c].exp))
        <4> DEFINE p == psum0[c]
                   o == o_Psum0'[c]
        <4> HIDE DEF p, o, P, place
        <4>1. SumInv(p, dot0) /\ o = Delivered(fp8fp8, P.exp, P.lsb, sa, sw, p, st, ub)
          BY <3>5, <3>6, Zenon DEF p, o
        <4>2. RoundsTo(o, e, Larger(at, p.exp)) BY <1>3, <1>4, <1>6, <4>1, SumDelivered
        <4>3. QED BY <4>2, Zenon DEF p, o
      <3> HIDE DEF e
      <3>8. QED BY <3>2, <3>4, <3>7, Zenon
    <2>2. CASE ~norm
      <3>1. dot0'.norm = norm
        <4>1. Extended(dot0, fp8fp8, t0, place(psum0), agrees, norm).norm = norm BY DEF Extended
        <4>2. QED BY <1>1, <4>1, Zenon
      <3>2. QED BY <2>2, <3>1, Zenon DEF RoundsTo
    <2>3. QED BY <2>1, <2>2
  <1>10. ASSUME NEW c \in Cols PROVE RoundsTo(o_Psum1'[c], dot1', dot1'.place[c])
    <2>1. CASE fp8fp8
      <3>1. dot1' = dot1 /\ o_Psum1' = o_Psum1 BY <1>1, <1>7, <2>1, Zenon
      <3>2. RoundsTo(o_Psum1[c], dot1, dot1.place[c]) BY Zenon DEF OutputRoundsDotProduct
      <3>3. QED BY <3>1, <3>2, Zenon
    <2>2. CASE ~fp8fp8 /\ norm
      <3> DEFINE e == Extended(dot1, fp8fp8, t1, place(psum1), TRUE, TRUE)
      <3>1. norm = TRUE /\ fp8fp8 = FALSE BY <2>2
      <3>2. dot1' = e BY <1>1, <2>2, <3>1, Zenon
      <3>3. e.place = place(psum1) BY DEF Extended
      <3>4. e.place[c] = Larger(at, psum1[c].exp) BY <3>3, Zenon
      <3>5. o_Psum1'[c] = Delivered(fp8fp8, P.exp, P.msb, sa, sw, psum1[c], st, ub)
        BY <1>8, <2>2, Zenon DEF OutputAfter, HighOutputAfter
      <3>6. SumInv(psum1[c], dot1) BY Zenon DEF GemmInv
      <3>7. RoundsTo(o_Psum1'[c], e, Larger(at, psum1[c].exp))
        <4> DEFINE p == psum1[c]
                   o == o_Psum1'[c]
        <4> HIDE DEF p, o, P, place
        <4>1. SumInv(p, dot1) /\ o = Delivered(fp8fp8, P.exp, P.msb, sa, sw, p, st, ub)
          BY <3>5, <3>6, Zenon DEF p, o
        <4>2. TRUE \in BOOLEAN /\ (TRUE => Contributes(fp8fp8, P.exp, P.msb, sa, sw, t1)) BY <1>5, <2>2, Zenon
        <4>3. RoundsTo(o, e, Larger(at, p.exp)) BY <1>6, <4>1, <4>2, SumDelivered
        <4>4. QED BY <4>3, Zenon DEF p, o
      <3> HIDE DEF e
      <3>8. QED BY <3>2, <3>4, <3>7, Zenon
    <2>3. CASE ~fp8fp8 /\ ~norm
      <3>1. dot1'.norm = norm
        <4>1. Extended(dot1, FALSE, t1, place(psum1), TRUE, norm).norm = norm BY DEF Extended
        <4>2. QED BY <1>1, <2>3, <4>1, Zenon
      <3>2. QED BY <2>3, <3>1, Zenon DEF RoundsTo
    <2>4. QED BY <2>1, <2>2, <2>3
  <1>11. QED BY <1>9, <1>10, Zenon DEF OutputRoundsDotProduct

(* Fp32PsumAcc.cpp, to_bf16: the number a normalising call delivers is the *)
(* exact dot product rounded to the 8 significant bits of BF16: off by no  *)
(* more than a unit of its last bit, the truncation of the partial sum (two *)
(* units per product of the place that the sum has reached, and four) and a *)
(* unit of the exact sum.                                                  *)
THEOREM OutputRounds == GemmSpec => []OutputRoundsDotProduct
  <1>1. GemmInit => OutputRoundsDotProduct
    <2> SUFFICES ASSUME GemmInit PROVE OutputRoundsDotProduct
      OBVIOUS
    <2>1. dot0 = NoDot /\ dot1 = NoDot BY DEF GemmInit
    <2>2. NoDot.norm = FALSE BY DEF NoDot
    <2>3. QED BY <2>1, <2>2, Zenon DEF OutputRoundsDotProduct, RoundsTo
  <1>2. GemmInv /\ OutputRoundsDotProduct /\ [GemmNext]_<<gemmVars, benchSums>> => OutputRoundsDotProduct'
    <2> SUFFICES ASSUME GemmInv, OutputRoundsDotProduct, [GemmNext]_<<gemmVars, benchSums>>
                 PROVE  OutputRoundsDotProduct'
      OBVIOUS
    <2>1. CASE GemmNext
      <3>1. calls < MaxCalls BY <2>1 DEF GemmNext
      <3>2. PICK fp8fp8 \in BOOLEAN, norm \in BOOLEAN, act \in ActRows, wgt \in WgtCols,
                 sa \in ScaleActs, sw \in ScaleWgts : GemmCall(fp8fp8, norm, act, wgt, sa, sw)
        BY <2>1, Zenon DEF GemmNext
      <3>3. QED BY <3>1, <3>2, OutputStep, Zenon
    <2>2. CASE UNCHANGED <<gemmVars, benchSums>>
      <3>1. o_Psum0' = o_Psum0 /\ o_Psum1' = o_Psum1 /\ dot0' = dot0 /\ dot1' = dot1
        BY <2>2, Zenon DEF gemmVars, benchSums
      <3>2. QED BY <3>1, Zenon DEF OutputRoundsDotProduct
    <2>3. QED BY <2>1, <2>2
  <1>3. GemmInit => GemmInv BY GemmInvInit
  <1>4. GemmInv /\ [GemmNext]_<<gemmVars, benchSums>> => GemmInv' BY GemmInvStep
  <1>5. QED BY <1>1, <1>2, <1>3, <1>4, PTL DEF GemmSpec
=============================================================================
