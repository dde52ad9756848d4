---------------------------- MODULE VectorProofs ----------------------------
(***************************************************************************)
(* Theorems about the custom vector instructions (Xperiv) in any order and *)
(* configuration (VectorBench).  First that the arithmetic is total: every *)
(* operation on BF16 words gives a word.  Then the elements of a register  *)
(* group: where they lie, and that what is written for one is no part of a *)
(* later one.  From these, that the file keeps holding bytes, and that the *)
(* loops, although they run in place, compute from the old values.         *)
(***************************************************************************)
EXTENDS VectorBench, NatRecursion

(* A number of up to 26 bits has a leading one (the code looks for it      *)
(* before it normalises).                                                  *)
LEMMA LeadingOne == \A x \in 1 .. 2^26 : MsbPos(x) \in 0 .. 29
  <1>1. \A x \in 1 .. 2^26 : \E k \in 0 .. 29 : 2^k <= x /\ x < 2^(k + 1)
    OBVIOUS
  <1>2. QED BY <1>1, Zenon DEF MsbPos

(* The fields of a BF16 number are as wide as the format says.             *)
LEMMA Fields ==
  ASSUME NEW v \in Word
  PROVE  sign(v) \in 0 .. 1 /\ exponent(v) \in 0 .. 255 /\ mantissa(v) \in 0 .. 127
  BY DEF Word, sign, exponent, mantissa

(* Fields of that width make a BF16 number.                                *)
LEMMA PackType ==
  ASSUME NEW s \in 0 .. 1, NEW e \in 0 .. 255, NEW m \in 0 .. 127
  PROVE  Pack(s, e, m) \in Word
  BY DEF Pack, Word

(* NaN, the infinities and the zeros are BF16 numbers.                     *)
LEMMA Specials == make_nan \in Word /\ \A s \in 0 .. 1 : make_inf(s) \in Word /\ make_zero(s) \in Word
  <1>1. make_nan \in Word BY DEF make_nan, Pack, Word
  <1>2. ASSUME NEW s \in 0 .. 1 PROVE make_inf(s) \in Word /\ make_zero(s) \in Word
    BY DEF make_inf, make_zero, Pack, Word
  <1>3. QED BY <1>1, <1>2

(* A result whose exponent is out of range becomes an infinity or a zero.  *)
LEMMA PackRangeType ==
  ASSUME NEW s \in 0 .. 1, NEW e \in Int, NEW m \in 0 .. 127
  PROVE  PackRange(s, e, m) \in Word
  <1>1. make_inf(s) \in Word /\ make_zero(s) \in Word BY Specials
  <1>2. ~(e >= 255) /\ ~(e <= 0) => Pack(s, e, m) \in Word
    <2> SUFFICES ASSUME ~(e >= 255), ~(e <= 0) PROVE Pack(s, e, m) \in Word
      OBVIOUS
    <2>1. e \in 0 .. 255 OBVIOUS
    <2>2. QED BY <2>1, PackType, Zenon
  <1>3. QED BY <1>1, <1>2, Zenon DEF PackRange

(* A quotient of naturals is no larger than the dividend.                  *)
LEMMA Quotient ==
  ASSUME NEW x \in Nat, NEW p \in Nat \ {0}
  PROVE  x \div p \in 0 .. x
  OBVIOUS

(* A right shift keeps a natural one and does not enlarge it.              *)
LEMMA ShrType ==
  ASSUME NEW x \in Nat, NEW n \in Nat
  PROVE  Shr(x, n) \in 0 .. x
  <1>2. ASSUME n <= 30 PROVE x \div 2^n \in 0 .. x
    <2>1. n \in 0 .. 31 BY <1>2
    <2>2. 2^n \in Nat \ {0} BY <2>1, Powers
    <2>3. QED BY <2>2, Quotient
  <1>3. QED BY <1>2 DEF Shr

(* So does the 32-bit shift, whichever outcome an over-wide one has.       *)
LEMMA Shr32Type ==
  ASSUME NEW x \in Nat, NEW n \in Nat, NEW ub
  PROVE  Shr32(x, n, ub) \in 0 .. x
  <1>1. Shr(x, n) \in 0 .. x /\ Shr(x, n % 32) \in 0 .. x
    <2>1. n % 32 \in Nat OBVIOUS
    <2>2. QED BY <2>1, ShrType
  <1>2. QED BY <1>1 DEF Shr32

(* bf16_add, the aligned part: any two finite numbers, whatever the        *)
(* distance of their exponents, have a sum that is a BF16 number.          *)
LEMMA AlignedSumType ==
  ASSUME NEW sa \in 0 .. 1, NEW ea \in 0 .. 255, NEW ma \in 0 .. 127,
         NEW sb \in 0 .. 1, NEW eb \in 0 .. 255, NEW mb \in 0 .. 127, NEW ub
  PROVE  AlignedSum(sa, ea, ma, sb, eb, mb, ub) \in Word
  <1> DEFINE swap == ea < eb \/ (ea = eb /\ ma < mb)
             s == IF swap THEN sb ELSE sa
             e == IF swap THEN eb ELSE ea
             shift == IF swap THEN eb - ea ELSE ea - eb
             small == (128 + (IF swap THEN ma ELSE mb)) * 2^GUARD_BITS
             sig_a == (128 + (IF swap THEN mb ELSE ma)) * 2^GUARD_BITS
             sig_b == Shr32(small, shift, ub)
             sum == IF sa # sb THEN sig_a - sig_b ELSE sig_a + sig_b
             shift_amt == (IF sum < 0 THEN 31 ELSE MsbPos(sum)) - (7 + GUARD_BITS)
             final_sig == IF sum < 0 THEN 2^24 + sum \div 2^8
                          ELSE IF shift_amt < 0 THEN sum * 2^(-shift_amt)
                          ELSE sum \div 2^shift_amt
  <1>1. s \in 0 .. 1 /\ e \in 0 .. 255 /\ shift \in Nat OBVIOUS
  <1>2. small \in 0 .. 2^24 /\ sig_a \in 0 .. 2^24 BY DEF GUARD_BITS
  <1> HIDE DEF s, e, shift, small, sig_a
  <1>3. sig_b \in 0 .. small BY <1>1, <1>2, Shr32Type
  <1> HIDE DEF sig_b
  <1>4. sum \in -(2^24) .. 2^25 BY <1>2, <1>3
  <1> HIDE DEF sum
  <1>5. sum # 0 => shift_amt \in -23 .. 8
    <2>1. ASSUME sum > 0 PROVE MsbPos(sum) \in 0 .. 29
      <3>1. sum \in 1 .. 2^26 BY <1>4, <2>1
      <3>2. QED BY <3>1, LeadingOne
    <2>2. CASE sum < 0 BY <2>2 DEF GUARD_BITS
    <2>3. CASE sum > 0 BY <2>1, <2>3, <1>4 DEF GUARD_BITS
    <2>4. QED BY <1>4, <2>2, <2>3
  <1> HIDE DEF shift_amt
  <1>6. sum # 0 => final_sig \in Int
    <2>1. CASE sum < 0
      <3>1. final_sig = 2^24 + sum \div 2^8 BY <2>1, Zenon
      <3> HIDE DEF final_sig
      <3>2. QED BY <1>4, <3>1
    <2>2. CASE sum > 0 /\ shift_amt < 0
      <3>1. final_sig = sum * 2^(-shift_amt)
        <4>1. ~(sum < 0) BY <1>4, <2>2
        <4>2. QED BY <2>2, <4>1, Zenon
      <3>2. 2^(-shift_amt) \in Nat \ {0}
        <4>1. -shift_amt \in 0 .. 31 BY <1>5, <2>2
        <4>2. QED BY <4>1, Powers
      <3> HIDE DEF final_sig
      <3>3. QED BY <1>4, <3>1, <3>2
    <2>3. CASE sum > 0 /\ shift_amt >= 0
      <3>1. final_sig = sum \div 2^shift_amt
        <4>1. ~(sum < 0) /\ ~(shift_amt < 0) BY <1>4, <1>5, <2>3
        <4>2. QED BY <4>1, Zenon
      <3>2. 2^shift_amt \in Nat \ {0}
        <4>1. shift_amt \in 0 .. 31 BY <1>5, <2>3
        <4>2. QED BY <4>1, Powers
      <3> HIDE DEF final_sig
      <3>3. QED BY <1>4, <3>1, <3>2
    <2>4. QED BY <1>4, <2>1, <2>2, <2>3, <1>5
  <1> HIDE DEF final_sig
  <1>7. sum # 0 => PackRange(s, e + shift_amt, (final_sig \div 2^GUARD_BITS) % 128) \in Word
    <2> SUFFICES ASSUME sum # 0 PROVE PackRange(s, e + shift_amt, (final_sig \div 2^GUARD_BITS) % 128) \in Word
      OBVIOUS
    <2>1. (final_sig \div 2^GUARD_BITS) % 128 \in 0 .. 127 BY <1>6 DEF GUARD_BITS
    <2>2. e + shift_amt \in Int BY <1>1, <1>5
    <2>3. QED BY <1>1, <2>1, <2>2, PackRangeType
  <1>8. AlignedSum(sa, ea, ma, sb, eb, mb, ub)
          = IF sum = 0 THEN make_zero(0)
            ELSE PackRange(s, e + shift_amt, (final_sig \div 2^GUARD_BITS) % 128)
    BY Zenon DEF AlignedSum, s, e, shift, small, sig_a, sig_b, sum, shift_amt, final_sig
  <1>9. QED BY <1>7, <1>8, Specials

(* bf16_add returns a BF16 number for any operands, special values         *)
(* included.                                                               *)
LEMMA AddType ==
  ASSUME NEW a \in Word, NEW b \in Word, NEW sub \in BOOLEAN, NEW ub
  PROVE  bf16_add(a, b, sub, ub) \in Word
  <1> DEFINE sb == IF sub THEN 1 - sign(b) ELSE sign(b)
  <1>1. sb \in 0 .. 1 BY Fields
  <1> HIDE DEF sb
  <1>2. AlignedSum(sign(a), exponent(a), mantissa(a), sb, exponent(b), mantissa(b), ub) \in Word
    <2>1. /\ sign(a) \in 0 .. 1 /\ exponent(a) \in 0 .. 255 /\ mantissa(a) \in 0 .. 127
          /\ exponent(b) \in 0 .. 255 /\ mantissa(b) \in 0 .. 127
      BY Fields, Zenon
    <2>2. QED BY <1>1, <2>1, AlignedSumType, Zenon
  <1>3. Pack(sb, exponent(b), mantissa(b)) \in Word
    <2>1. exponent(b) \in 0 .. 255 /\ mantissa(b) \in 0 .. 127 BY Fields, Zenon
    <2>2. QED BY <1>1, <2>1, PackType, Zenon
  <1>4. 0 \in 0 .. 1 /\ sign(a) \in 0 .. 1 BY Fields
  <1>5. /\ make_nan \in Word
        /\ make_inf(sign(a)) \in Word /\ make_inf(sb) \in Word
        /\ make_zero(IF sign(a) # sb THEN 0 ELSE sign(a)) \in Word
    BY <1>1, <1>4, Specials, Zenon
  <1>6. bf16_add(a, b, sub, ub) =
          IF is_nan(a) \/ is_nan(b) THEN make_nan
          ELSE IF is_inf(a) /\ is_inf(b) /\ sign(a) # sb THEN make_nan
          ELSE IF is_inf(a) THEN make_inf(sign(a))
          ELSE IF is_inf(b) THEN make_inf(sb)
          ELSE IF is_zero(a) /\ is_zero(b) THEN make_zero(IF sign(a) # sb THEN 0 ELSE sign(a))
          ELSE IF is_zero(a) THEN Pack(sb, exponent(b), mantissa(b))
          ELSE IF is_zero(b) THEN a
          ELSE AlignedSum(sign(a), exponent(a), mantissa(a), sb, exponent(b), mantissa(b), ub)
    BY Zenon DEF bf16_add, sb
  <1>7. QED BY <1>2, <1>3, <1>5, <1>6, Zenon

(* bf16_max returns a BF16 number.                                         *)
LEMMA MaxType ==
  ASSUME NEW a \in Word, NEW b \in Word
  PROVE  bf16_max(a, b) \in Word
  BY Specials DEF bf16_max

(* bf16_mul returns a BF16 number for any operands.                        *)
LEMMA MulType ==
  ASSUME NEW a \in Word, NEW b \in Word
  PROVE  bf16_mul(a, b) \in Word
  <1> DEFINE s == (sign(a) + sign(b)) % 2
             prod == (128 + mantissa(a)) * (128 + mantissa(b))
             exp_sum == exponent(a) + exponent(b) - BIAS
  <1>1. s \in 0 .. 1 /\ exp_sum \in Int
    <2>1. sign(a) \in 0 .. 1 /\ sign(b) \in 0 .. 1 /\ exponent(a) \in Nat /\ exponent(b) \in Nat
      BY Fields
    <2>2. QED BY <2>1 DEF BIAS
  <1>2. prod \in Nat
    <2>1. 128 + mantissa(a) \in Nat /\ 128 + mantissa(b) \in Nat BY Fields
    <2>2. QED BY <2>1
  <1> HIDE DEF s, prod, exp_sum
  <1>3. (prod \div 2^8) % 128 \in 0 .. 127 /\ (prod \div 2^7) % 128 \in 0 .. 127 BY <1>2
  <1>4. PackRange(s, exp_sum + 1, (prod \div 2^8) % 128) \in Word
    BY <1>1, <1>3, PackRangeType
  <1>5. PackRange(s, exp_sum, (prod \div 2^7) % 128) \in Word
    BY <1>1, <1>3, PackRangeType
  <1>6. QED BY <1>1, <1>4, <1>5, Specials DEF bf16_mul, s, prod, exp_sum

(* bf16_reciprocal returns a BF16 number: its table and its exponent stay  *)
(* in range.                                                               *)
LEMMA ReciprocalType ==
  ASSUME NEW x \in Word
  PROVE  bf16_reciprocal(x) \in Word
  <1> DEFINE lut == recip_lut(mantissa(x))
  <1>1. lut \in Int
    <2>1. mantissa(x) \in 0 .. 127 BY Fields
    <2>2. 32768 \div (128 + mantissa(x)) \in Int BY <2>1
    <2>3. QED BY <2>2 DEF recip_lut, Pack, ONE
  <1> HIDE DEF lut
  <1>2. exponent(lut) \in Int /\ mantissa(lut) \in 0 .. 127
    BY <1>1 DEF exponent, mantissa
  <1>3. sign(x) \in 0 .. 1 /\ exponent(lut) + BIAS - exponent(x) \in Int
    BY <1>2, Fields DEF BIAS
  <1>4. PackRange(sign(x), exponent(lut) + BIAS - exponent(x), mantissa(lut)) \in Word
    BY <1>2, <1>3, PackRangeType
  <1>5. QED BY <1>3, <1>4, Specials DEF bf16_reciprocal, lut

(* Every entry of the table of powers is a BF16 number.                    *)
LEMMA ExpLutType == \A i \in 0 .. 127 : exp_lut(i) \in Word
  <1>1. \A i \in 1 .. 128 : exp_lut_mantissas[i] \in 0 .. 127
    BY DEF exp_lut_mantissas
  <1>2. SUFFICES ASSUME NEW i \in 0 .. 127 PROVE exp_lut(i) \in Word
    OBVIOUS
  <1>3. exp_lut_mantissas[i + 1] \in 0 .. 127 BY <1>1
  <1>4. 0 \in 0 .. 1 /\ BIAS \in 0 .. 255 BY DEF BIAS
  <1>5. QED BY <1>3, <1>4, PackType, Zenon DEF exp_lut

(* The power of two of a fraction is a BF16 number, also where the table   *)
(* index came from an over-wide shift.                                     *)
LEMMA FractionType ==
  ASSUME NEW f \in Word, NEW ub \in ShiftOutcomes
  PROVE  Pow2Fraction(f, ub) \in Word
  <1>1. ONE \in Word /\ TWO \in Word BY DEF ONE, TWO, Word
  <1>2. ub.beyond \in Word BY ShiftAssumption
  <1>3. exponent(f) \in 0 .. 255 /\ mantissa(f) \in 0 .. 127 BY Fields
  <1>4. exp_lut(64 + mantissa(f) \div 2) \in Word
    <2>1. 64 + mantissa(f) \div 2 \in 0 .. 127 BY <1>3
    <2>2. QED BY <2>1, ExpLutType
  <1> DEFINE lut_index == Shr32(128 + mantissa(f), BIAS - exponent(f), ub)
  <1>5. ASSUME exponent(f) < BIAS - 1
        PROVE  (IF lut_index > 127 THEN ub.beyond ELSE exp_lut(lut_index)) \in Word
    <2>1. 128 + mantissa(f) \in Nat /\ BIAS - exponent(f) \in Nat BY <1>3, <1>5 DEF BIAS
    <2>2. lut_index \in Nat
      <3>1. lut_index \in 0 .. 128 + mantissa(f) BY <2>1, Shr32Type
      <3>2. QED BY <3>1, <2>1
    <2> HIDE DEF lut_index
    <2>3. ~(lut_index > 127) => lut_index \in 0 .. 127 BY <2>2
    <2>4. QED BY <2>3, <1>2, ExpLutType
  <1>6. QED BY <1>1, <1>4, <1>5 DEF Pow2Fraction

(* The integer part of the exponent is a number whichever shift is over-   *)
(* wide.                                                                   *)
LEMMA FloorType ==
  ASSUME NEW yf \in Word, NEW ub \in ShiftOutcomes
  PROVE  FloorInt(yf, ub) \in Int
  <1> DEFINE e == exponent(yf) - BIAS
             sg == 128 + mantissa(yf)
             n == IF e - 7 < 32 THEN e - 7 ELSE (e - 7) % 32
             low == sg % 2^(32 - n)
             kept == IF n < 24 THEN sg
                     ELSE IF low >= 2^(31 - n) THEN low - 2^(32 - n) ELSE low
             negated == IF n >= 24 /\ kept = -(2^(31 - n)) THEN kept ELSE -kept
  <1>1. e \in -127 .. 128 /\ sg \in 128 .. 255 BY Fields DEF BIAS
  <1> HIDE DEF e, sg
  <1>2. ASSUME e >= 7 PROVE n \in 0 .. 31
    <2>1. e - 7 \in Nat /\ (e - 7) % 32 \in 0 .. 31 BY <1>1, <1>2
    <2>2. QED BY <2>1, <1>1
  <1> HIDE DEF n
  <1>3. ASSUME e < 7 PROVE Shr(sg, 7 - e) \in Int
    <2>1. sg \in Nat /\ 7 - e \in Nat BY <1>1, <1>3
    <2>2. Shr(sg, 7 - e) \in 0 .. sg BY <2>1, ShrType
    <2>3. QED BY <2>1, <2>2
  <1>4. ASSUME e >= 7 PROVE kept \in Int /\ negated \in Int
    <2>1. CASE n < 24
      <3>1. kept = sg /\ negated = -kept
        <4>1. ~(n >= 24) BY <1>2, <1>4, <2>1
        <4>2. QED BY <2>1, <4>1, Zenon
      <3> HIDE DEF kept, negated
      <3>2. QED BY <1>1, <3>1
    <2>2. CASE n >= 24
      <3>1. 2^(32 - n) \in Nat \ {0} /\ 2^(31 - n) \in Nat \ {0}
        <4>1. 32 - n \in 0 .. 31 /\ 31 - n \in 0 .. 31 BY <1>2, <1>4, <2>2
        <4>2. QED BY <4>1, Powers
      <3>2. low \in Int BY <1>1, <3>1
      <3> HIDE DEF low
      <3>3. kept \in Int
        <4>1. kept = IF low >= 2^(31 - n) THEN low - 2^(32 - n) ELSE low
          <5>1. ~(n < 24) BY <1>2, <1>4, <2>2
          <5>2. QED BY <5>1, Zenon
        <4> HIDE DEF kept
        <4>2. QED BY <3>1, <3>2, <4>1
      <3> HIDE DEF kept
      <3>4. QED BY <3>3
    <2>3. QED BY <1>2, <1>4, <2>1, <2>2
  <1> HIDE DEF kept, negated
  <1>5. ASSUME e >= 7 PROVE 2^(IF n < 20 THEN n ELSE 20) \in Int
    <2>1. (IF n < 20 THEN n ELSE 20) \in 0 .. 31 BY <1>2, <1>5
    <2>2. QED BY <2>1, Powers
  <1> DEFINE small == (IF sign(yf) = 1 THEN -1 ELSE 1) * Shr(sg, 7 - e)
             weight == 2^(IF n < 20 THEN n ELSE 20)
             large == (IF sign(yf) = 1 THEN negated ELSE kept) * weight
  <1>6. e < 7 => small \in Int BY <1>3
  <1>7. ASSUME e >= 7 PROVE large \in Int
    <2>1. weight \in Int BY <1>5, <1>7
    <2> HIDE DEF weight
    <2>2. QED BY <2>1, <1>4, <1>7
  <1>8. FloorInt(yf, ub) = IF exponent(yf) = 0 THEN 0
                           ELSE IF e < 7 THEN small
                           ELSE IF e - 7 >= 32 /\ ~ub.wraps THEN 0
                           ELSE large
    BY Zenon DEF FloorInt, e, sg, n, kept, negated
  <1> HIDE DEF small, large
  <1>9. QED BY <1>1, <1>6, <1>7, <1>8

(* Cutting off the fraction leaves a BF16 number.                          *)
LEMMA TruncateType ==
  ASSUME NEW y \in Word
  PROVE  Truncate(y) \in Word
  <1> DEFINE e == exponent(y) - BIAS
  <1>1. e \in -127 .. 128 /\ sign(y) \in 0 .. 1 /\ mantissa(y) \in 0 .. 127 BY Fields DEF BIAS
  <1> HIDE DEF e
  <1>2. ASSUME e >= 0, e < 7 PROVE y - (mantissa(y) % 2^(7 - e)) \in Word
    <2> DEFINE p == 2^(7 - e)
    <2>1. p \in Nat \ {0}
      <3>1. 7 - e \in 0 .. 31 BY <1>1, <1>2
      <3>2. QED BY <3>1, Powers
    <2> HIDE DEF p
    <2>2. mantissa(y) % p \in 0 .. mantissa(y)
      <3> DEFINE m == mantissa(y)
      <3>1. m \in Nat BY <1>1
      <3> HIDE DEF m
      <3>2. m % p = m - p * (m \div p) /\ m % p \in Nat BY <2>1, <3>1
      <3>3. p * (m \div p) \in Nat BY <2>1, <3>1
      <3>4. m % p \in 0 .. m BY <3>1, <3>2, <3>3
      <3>5. QED BY <3>4 DEF m
    <2>3. mantissa(y) <= y BY DEF mantissa, Word
    <2>4. y - (mantissa(y) % p) \in Word
      <3> DEFINE r == mantissa(y) % p
      <3>1. r \in 0 .. mantissa(y) BY <2>2
      <3> HIDE DEF r
      <3>2. y - r \in Word BY <3>1, <2>3, <1>1 DEF Word
      <3>3. QED BY <3>2 DEF r
    <2>5. QED BY <2>4 DEF p
  <1>3. QED BY <1>1, <1>2, Specials DEF Truncate, e

(* bf16_exp returns a BF16 number for any operand.                         *)
LEMMA ExpType ==
  ASSUME NEW x \in Word, NEW ub \in ShiftOutcomes
  PROVE  bf16_exp(x, ub) \in Word
  <1> DEFINE y == bf16_mul(x, LOG2E)
             y_trunc == Truncate(y)
             y_floor == IF sign(y) = 1 /\ y # y_trunc THEN bf16_add(y_trunc, ONE, TRUE, ub)
                        ELSE y_trunc
             pow2_F == Pow2Fraction(bf16_add(y, y_floor, TRUE, ub), ub)
             rest == PackRange(0, FloorInt(y_floor, ub) + exponent(pow2_F), mantissa(pow2_F))
  <1>1. LOG2E \in Word /\ ONE \in Word BY DEF LOG2E, ONE, Word
  <1>2. y \in Word BY <1>1, MulType
  <1> HIDE DEF y
  <1>3. y_trunc \in Word BY <1>2, TruncateType
  <1> HIDE DEF y_trunc
  <1>4. y_floor \in Word
    <2>1. bf16_add(y_trunc, ONE, TRUE, ub) \in Word BY <1>1, <1>3, AddType
    <2>2. QED BY <1>3, <2>1
  <1> HIDE DEF y_floor
  <1>5. pow2_F \in Word
    <2>1. bf16_add(y, y_floor, TRUE, ub) \in Word BY <1>2, <1>4, AddType
    <2>2. QED BY <2>1, FractionType
  <1> HIDE DEF pow2_F
  <1>6. rest \in Word
    <2>1. FloorInt(y_floor, ub) \in Int BY <1>4, FloorType
    <2>2. exponent(pow2_F) \in 0 .. 255 /\ mantissa(pow2_F) \in 0 .. 127 BY <1>5, Fields
    <2>3. FloorInt(y_floor, ub) + exponent(pow2_F) \in Int BY <2>1, <2>2
    <2>4. QED BY <2>2, <2>3, PackRangeType
  <1>7. bf16_exp(x, ub) = IF exponent(x) = 0 THEN ONE
                          ELSE IF is_inf(x) THEN (IF sign(x) = 0 THEN make_inf(0) ELSE make_zero(0))
                          ELSE IF is_nan(x) THEN make_nan
                          ELSE rest
    BY Zenon DEF bf16_exp, y, y_trunc, y_floor, pow2_F
  <1> HIDE DEF rest
  <1>8. QED BY <1>1, <1>6, <1>7, Specials

(* The scaled magnitude of the other exponential is a natural.             *)
LEMMA ScaledType ==
  ASSUME NEW x \in Word
  PROVE  ScaledMagnitude(x) \in Nat
  <1> DEFINE prod == ((128 + mantissa(x)) * LN2_FLIP) % 2^23
             up == exponent(x) - BIAS
             shm == IF up >= 0
                    THEN (IF up < 30 THEN (prod % 2^(30 - up)) * 2^up ELSE 0)
                    ELSE (IF -up < 23 THEN prod \div 2^(-up) ELSE 0)
  <1>1. prod \in Nat /\ up \in Int
    <2>1. (128 + mantissa(x)) * LN2_FLIP \in Nat BY Fields DEF LN2_FLIP
    <2>2. QED BY <2>1, Fields DEF BIAS
  <1> HIDE DEF prod, up
  <1>2. ASSUME up >= 0, up < 30 PROVE (prod % 2^(30 - up)) * 2^up \in Nat
    <2>1. 30 - up \in 0 .. 31 /\ up \in 0 .. 31 BY <1>1, <1>2
    <2>2. 2^(30 - up) \in Nat \ {0} /\ 2^up \in Nat \ {0} BY <2>1, Powers
    <2>3. QED BY <1>1, <2>2
  <1>3. ASSUME up < 0, -up < 23 PROVE prod \div 2^(-up) \in Nat
    <2>1. -up \in 0 .. 31 BY <1>1, <1>3
    <2>2. 2^(-up) \in Nat \ {0} BY <2>1, Powers
    <2>3. QED BY <1>1, <2>2
  <1>4. shm \in Nat BY <1>1, <1>2, <1>3
  <1> HIDE DEF shm
  <1>5. ScaledMagnitude(x) = (shm \div 2^14 + ((shm \div 2^13) % 2)) % 2^16
    BY Zenon DEF ScaledMagnitude, prod, up, shm
  <1>6. QED BY <1>4, <1>5

(* Its polynomial gives a mantissa of 7 bits.                              *)
LEMMA PolyType ==
  ASSUME NEW nm \in Int
  PROVE  PolyMantissa(nm) \in 0 .. 127
  <1> DEFINE add == (nm + (IF nm >= 64 THEN 278 ELSE 363)) % 2^9
             mul == IF nm >= 64 THEN ((255 - 2 * nm) * 7) % 2^11 ELSE (2 * nm * 4) % 2^11
             prod == add * mul
             res == (prod \div 2^12) % 2^8
  <1>1. add \in Nat /\ mul \in Nat OBVIOUS
  <1> HIDE DEF add, mul
  <1>2. prod \in Nat BY <1>1
  <1> HIDE DEF prod
  <1>3. res \in Nat BY <1>2
  <1>4. PolyMantissa(nm) = (IF nm >= 64 THEN 127 - res ELSE res) % 2^7
    BY Zenon DEF PolyMantissa, add, mul, prod, res
  <1> HIDE DEF res
  <1>5. QED BY <1>3, <1>4

(* bf16_expp, the exponential of EXP, returns a BF16 number for any        *)
(* operand.                                                                *)
LEMMA ExppType ==
  ASSUME NEW x \in Word
  PROVE  bf16_expp(x) \in Word
  <1> DEFINE magnitude == ScaledMagnitude(x)
             shm == sign_extend(IF sign(x) = 1 THEN -magnitude ELSE magnitude, 16)
             inner == sign_extend(shm \div 2^7, 9)
             ne == sign_extend(inner + BIAS, 9)
             poly == PolyMantissa(shm % 2^7)
  <1>1. magnitude \in Nat BY ScaledType
  <1> HIDE DEF magnitude
  <1>2. shm \in Int
    <2>1. (IF sign(x) = 1 THEN -magnitude ELSE magnitude) \in Int BY <1>1
    <2>2. QED BY <2>1 DEF sign_extend
  <1> HIDE DEF shm
  <1>3. inner \in Int
    <2>1. shm \div 2^7 \in Int BY <1>2
    <2>2. QED BY <2>1 DEF sign_extend
  <1> HIDE DEF inner
  <1>4. ne \in Int
    <2>1. inner + BIAS \in Int BY <1>3 DEF BIAS
    <2>2. QED BY <2>1 DEF sign_extend
  <1> HIDE DEF ne
  <1>5. poly \in 0 .. 127
    <2>1. shm % 2^7 \in Int BY <1>2
    <2>2. QED BY <2>1, PolyType
  <1> HIDE DEF poly
  <1>6. ~(ne >= 255) /\ ~(ne <= 0) => Pack(0, ne, poly) \in Word
    <2>1. ~(ne >= 255) /\ ~(ne <= 0) => ne \in 0 .. 255 BY <1>4
    <2>2. 0 \in 0 .. 1 OBVIOUS
    <2>3. QED BY <1>5, <2>1, <2>2, PackType, Zenon
  <1>7. ONE \in Word BY DEF ONE, Word
  <1>8. make_nan \in Word /\ make_zero(0) \in Word /\ make_inf(0) \in Word
    <2>1. 0 \in 0 .. 1 OBVIOUS
    <2>2. QED BY <2>1, Specials, Zenon
  <1> DEFINE scaled == IF ne >= 255 THEN (IF sign(x) = 1 THEN make_zero(0) ELSE make_inf(0))
                       ELSE IF ne <= 0 THEN make_zero(0)
                       ELSE Pack(0, ne, poly)
  <1>9. scaled \in Word BY <1>6, <1>8, Zenon
  <1>10. bf16_expp(x) =
           IF exponent(x) = 0 THEN ONE
           ELSE IF is_nan(x) THEN make_nan
           ELSE IF is_inf(x) THEN (IF sign(x) = 1 THEN make_zero(0) ELSE make_inf(0))
           ELSE IF too_large(x) THEN make_inf(0)
           ELSE IF too_small(x) THEN make_zero(0)
           ELSE scaled
    BY DEF bf16_expp, magnitude, shm, inner, ne, poly
  <1> HIDE DEF scaled
  <1>11. QED BY <1>7, <1>8, <1>9, <1>10, Zenon

(* A quantized value fits into the byte it is stored in.                   *)
LEMMA RoundedType ==
  ASSUME NEW s \in 0 .. 1, NEW a, a.exp \in Nat, a.mat \in 0 .. 127
  PROVE  Quant!Rounded(s, a) \in 0 .. 255
  <1> DEFINE mat == a.mat
             exp == a.exp
             guard == (mat \div 8) % 2 = 1
             sticky == mat % 8 # 0
             up == guard /\ ((mat \div 16) % 2 = 1 \/ sticky)
             rnd == mat \div 16 + (IF up THEN 1 ELSE 0)
             nan == exp + rnd \div 8 >= 15 /\ rnd % 8 = 7
             mt == IF nan THEN 6 ELSE rnd
             ex == exp + mt \div 8
  <1>1. mat \in 0 .. 127 /\ exp \in Nat OBVIOUS
  <1> HIDE DEF mat, exp
  <1>2. rnd \in 0 .. 8 BY <1>1
  <1> HIDE DEF rnd
  <1>3. mt \in 0 .. 8 BY <1>2
  <1> HIDE DEF mt
  <1>4. ex \in Nat BY <1>1, <1>3
  <1> HIDE DEF ex
  <1>5. Quant!Rounded(s, a) = s * 128 + (IF ex > 15 THEN 126 ELSE ex * 8 + (mt % 8))
    BY Zenon DEF Quant!Rounded, mat, exp, rnd, mt, ex
  <1>6. ex > 15 \/ ex * 8 + (mt % 8) \in 0 .. 127 BY <1>3, <1>4
  <1>7. QED BY <1>5, <1>6, <1>3, <1>4

(* Aligning a mantissa to the largest exponent keeps it within 7 bits.     *)
LEMMA AlignedType ==
  ASSUME NEW v \in Word, NEW expMax \in 0 .. 255, exponent(v) <= expMax
  PROVE  Quant!Aligned(v, expMax).exp \in Nat /\ Quant!Aligned(v, expMax).mat \in 0 .. 127
  <1> DEFINE ev == exponent(v)
             mat == IF ev = 0 THEN mantissa(v) ELSE 128 + mantissa(v)
             amt == expMax - ev
             init == Quant!ExpInit(expMax)
             exp == IF init >= amt THEN init - amt ELSE 0
             shift == amt - init + 1
             shifted == IF init >= amt THEN (IF exp = 0 THEN mat \div 2 ELSE mat)
                        ELSE IF shift < 8 THEN mat \div 2^shift ELSE 0
  <1>1. Quant!exponent(v) = exponent(v) /\ Quant!mantissa(v) = mantissa(v)
    BY DEF Quant!exponent, Quant!mantissa, exponent, mantissa
  <1>2. ev \in 0 .. expMax /\ mat \in Nat BY Fields
  <1>3. Quant!Aligned(v, expMax) = [exp |-> exp, mat |-> shifted % 128]
    BY <1>1 DEF Quant!Aligned
  <1> HIDE DEF ev, mat
  <1>4. amt \in Nat /\ init \in Nat BY <1>2 DEF Quant!ExpInit
  <1> HIDE DEF amt, init
  <1>5. exp \in Nat BY <1>4
  <1>6. shifted \in Int
    <2>1. ASSUME ~(init >= amt), shift < 8 PROVE mat \div 2^shift \in Int
      <3>1. shift \in 0 .. 31 BY <1>4, <2>1
      <3>2. 2^shift \in Nat \ {0} BY <3>1, Powers
      <3> HIDE DEF shift
      <3>3. QED BY <1>2, <3>2
    <2>2. mat \div 2 \in Int BY <1>2
    <2> HIDE DEF exp, shift
    <2>3. QED BY <1>2, <2>1, <2>2
  <1> HIDE DEF exp, shifted
  <1>7. QED BY <1>3, <1>5, <1>6

(* A set of bytes that is not empty has a greatest element.                *)
LEMMA GreatestByte ==
  ASSUME NEW S, S \subseteq 0 .. 255, S # {}
  PROVE  \E e \in S : \A f \in S : f <= e
  <1> DEFINE T == {n \in Nat : 255 - n \in S}
  <1>1. T \subseteq Nat OBVIOUS
  <1>2. T # {}
    <2>1. PICK e \in S : TRUE OBVIOUS
    <2>2. 255 - e \in Nat /\ 255 - (255 - e) = e BY <2>1
    <2>3. 255 - e \in T BY <2>1, <2>2
    <2> HIDE DEF T
    <2>4. QED BY <2>3
  <1>3. PICK x \in T : \A y \in T : x <= y
    <2> HIDE DEF T
    <2>1. QED BY <1>1, <1>2, LeastNatural
  <1>4. ASSUME NEW f \in S PROVE f <= 255 - x
    <2>1. f \in 0 .. 255 OBVIOUS
    <2>2. 255 - f \in Nat /\ 255 - (255 - f) = f BY <2>1
    <2>3. 255 - f \in T BY <2>2
    <2>4. x \in Nat BY <1>3
    <2> HIDE DEF T
    <2>5. x <= 255 - f BY <1>3, <2>3
    <2>6. QED BY <2>1, <2>4, <2>5
  <1>5. QED BY <1>3, <1>4

(* quantize gives one byte for each word of any block.                     *)
LEMMA QuantType ==
  ASSUME NEW n \in Nat \ {0}, NEW block \in [1 .. n -> Word]
  PROVE  Quant!quantize(block).act \in [1 .. n -> 0 .. 255]
  <1> DEFINE es == {exponent(block[i]) : i \in DOMAIN block}
             expMax == Quant!MaxExponent(block)
  <1>1. \A i \in 1 .. n : /\ block[i] \in Word
                          /\ Quant!sign(block[i]) = sign(block[i])
                          /\ Quant!exponent(block[i]) = exponent(block[i])
    BY DEF Quant!sign, Quant!exponent, sign, exponent
  <1>2. expMax \in es /\ \A f \in es : f <= expMax
    <2>1. es = {Quant!exponent(block[i]) : i \in DOMAIN block} BY <1>1
    <2>2. \A f \in es : f \in 0 .. 255
      <3>1. \A i \in 1 .. n : exponent(block[i]) \in 0 .. 255 BY <1>1, Fields, Zenon
      <3>2. DOMAIN block = 1 .. n OBVIOUS
      <3>3. QED BY <3>1, <3>2, Zenon
    <2>3. \E e \in es : \A f \in es : f <= e
      <3>1. exponent(block[1]) \in es OBVIOUS
      <3>2. es \subseteq 0 .. 255 BY <2>2
      <3> HIDE DEF es
      <3>3. QED BY <3>1, <3>2, GreatestByte
    <2>4. expMax = CHOOSE e \in es : \A f \in es : f <= e BY <2>1, Zenon DEF Quant!MaxExponent
    <2> HIDE DEF es, expMax
    <2>5. QED BY <2>3, <2>4, Zenon
  <1>3. \A i \in 1 .. n : exponent(block[i]) <= expMax BY <1>2
  <1>4. expMax \in 0 .. 255
    <2>1. \A i \in 1 .. n : exponent(block[i]) \in 0 .. 255 BY <1>1, Fields, Zenon
    <2>2. DOMAIN block = 1 .. n OBVIOUS
    <2>3. PICK i \in 1 .. n : expMax = exponent(block[i]) BY <1>2, <2>2, Zenon
    <2> HIDE DEF expMax
    <2>4. QED BY <2>1, <2>3, Zenon
  <1>5. Quant!quantize(block).act
          = [i \in 1 .. n |-> Quant!Rounded(Quant!sign(block[i]), Quant!Aligned(block[i], expMax))]
    BY DEF Quant!quantize
  <1> HIDE DEF expMax, es
  <1>6. ASSUME NEW i \in 1 .. n
        PROVE  Quant!Rounded(Quant!sign(block[i]), Quant!Aligned(block[i], expMax)) \in 0 .. 255
    <2>1. Quant!sign(block[i]) \in 0 .. 1 BY <1>1, Fields, Zenon
    <2>2. /\ Quant!Aligned(block[i], expMax).exp \in Nat
          /\ Quant!Aligned(block[i], expMax).mat \in 0 .. 127
      BY <1>1, <1>3, <1>4, AlignedType, Zenon
    <2>3. QED BY <2>1, <2>2, RoundedType, Zenon
  <1>7. QED BY <1>5, <1>6

(* Evaluated changes nothing about a sequence.                             *)
LEMMA EvaluatedIs ==
  ASSUME NEW S, NEW n \in Nat, NEW f \in [1 .. n -> S]
  PROVE  Evaluated(f) = f
  <1>1. f \in Seq(S) OBVIOUS
  <1>2. QED BY <1>1 DEF Evaluated

(* A node of the reduction tree is a BF16 number.                          *)
LEMMA TreeOpType ==
  ASSUME NEW op, NEW a \in Word, NEW b \in Word, NEW ub
  PROVE  TreeOp(op, a, b, ub) \in Word
  BY MaxType, AddType DEF TreeOp

Nodes == {s \in Seq(Word) : Len(s) >= 1}

(* A level of the tree has at least one node, and all are BF16 numbers.    *)
LEMMA NextLevelType ==
  ASSUME NEW op, NEW nodes \in Nodes, NEW ub
  PROVE  next_level_nodes(op, nodes, ub) \in Nodes
  <1> DEFINE n == (Len(nodes) + 1) \div 2
             f == [k \in 1 .. n |->
                      IF 2 * k <= Len(nodes) THEN TreeOp(op, nodes[2 * k - 1], nodes[2 * k], ub)
                      ELSE nodes[2 * k - 1]]
  <1>1. nodes \in Seq(Word) /\ Len(nodes) \in Nat /\ Len(nodes) >= 1 /\ n \in Nat /\ n >= 1
    BY DEF Nodes
  <1>2. \A j \in 1 .. Len(nodes) : nodes[j] \in Word BY <1>1
  <1>3. ASSUME NEW k \in 1 .. n
        PROVE  (IF 2 * k <= Len(nodes) THEN TreeOp(op, nodes[2 * k - 1], nodes[2 * k], ub)
                ELSE nodes[2 * k - 1]) \in Word
    <2>1. 2 * k - 1 \in 1 .. Len(nodes) BY <1>1
    <2>2. nodes[2 * k - 1] \in Word BY <1>2, <2>1
    <2>3. CASE 2 * k <= Len(nodes)
      <3>1. 2 * k \in 1 .. Len(nodes) BY <1>1, <2>3
      <3>2. nodes[2 * k] \in Word BY <1>2, <3>1
      <3>3. QED BY <2>2, <2>3, <3>2, TreeOpType
    <2>4. QED BY <2>2, <2>3
  <1>4. f \in [1 .. n -> Word] BY <1>3
  <1>5. next_level_nodes(op, nodes, ub) = Evaluated(f) BY DEF next_level_nodes
  <1> HIDE DEF f, n
  <1>6. Evaluated(f) = f BY <1>1, <1>4, EvaluatedIs
  <1>7. f \in Seq(Word) /\ Len(f) = n BY <1>1, <1>4
  <1>8. QED BY <1>1, <1>5, <1>6, <1>7 DEF Nodes

(* The reduction tree of a row ends in one BF16 number.                    *)
LEMMA TreeType ==
  ASSUME NEW op, NEW vec \in Nodes, NEW ub
  PROVE  reduction_tree_op(op, vec, ub) \in Word
  <1> DEFINE n == Len(vec)
             Next_(nodes) == IF Len(nodes) = 1 THEN nodes ELSE next_level_nodes(op, nodes, ub)
             Rec(g) == g = [i \in 0 .. n |-> IF i = 0 THEN vec ELSE Next_(g[i - 1])]
             level == CHOOSE g : Rec(g)
             F == [x \in Nodes \X (1 .. n) |-> Next_(x[1])]
  <1>1. reduction_tree_op(op, vec, ub) = level[n][1] BY DEF reduction_tree_op
  <1>2. n \in Nat BY DEF Nodes
  <1>3. \A s \in Nodes : Next_(s) \in Nodes BY NextLevelType
  <1> HIDE DEF n, Next_
  <1>4. F \in [Nodes \X (1 .. n) -> Nodes] BY <1>3
  <1>5. PICK g \in [0 .. n -> Nodes] : Stepwise(g, n, vec, F)
    <2> HIDE DEF F
    <2>1. QED BY <1>2, <1>4, StepwiseExists, Zenon
  <1>6. \A i \in 1 .. n : g[i] = Next_(g[i - 1])
    <2> SUFFICES ASSUME NEW i \in 1 .. n PROVE g[i] = Next_(g[i - 1])
      OBVIOUS
    <2>1. g[i - 1] \in Nodes BY <1>2
    <2>2. F[<<g[i - 1], i>>] = Next_(g[i - 1]) BY <2>1
    <2>3. g[i] = F[<<g[i - 1], i>>]
      <3> HIDE DEF F
      <3>1. QED BY <1>5 DEF Stepwise
    <2>4. QED BY <2>2, <2>3
  <1>7. Rec(g)
    <2>1. g[0] = vec
      <3> HIDE DEF F
      <3>1. QED BY <1>5 DEF Stepwise
    <2>2. QED BY <1>2, <1>6, <2>1
  <1>8. Rec(level) BY <1>7
  <1> HIDE DEF level, F
  <1>9. level[0] = vec /\ \A i \in 1 .. n : level[i] = Next_(level[i - 1]) BY <1>2, <1>8
  <1>10. \A i \in 0 .. n : level[i] \in Nodes
    <2>1. level[0] \in Nodes BY <1>9
    <2>2. \A i \in 1 .. n : level[i - 1] \in Nodes => level[i] \in Nodes BY <1>3, <1>9
    <2>3. QED BY <1>2, <2>1, <2>2, StaysIn
  <1>11. level[n] \in Nodes BY <1>2, <1>10
  <1>12. QED BY <1>1, <1>11 DEF Nodes

(* The running maximum or sum of a row is a BF16 number.                   *)
LEMMA RowType ==
  ASSUME NEW op, NEW base \in Word, NEW vec \in Nodes, NEW ub
  PROVE  OverRow(op, base, <<vec>>, ub) \in Word
  <1> DEFINE row == <<vec>>
             tree == reduction_tree_op(op, row[1], ub)
             Rec(g) == g = [v \in 0 .. Len(row) |->
                               IF v = 0 THEN base
                               ELSE TreeOp(op, g[v - 1], reduction_tree_op(op, row[v], ub), ub)]
             running == CHOOSE g : Rec(g)
             f == [v \in 0 .. 1 |-> IF v = 0 THEN base ELSE TreeOp(op, base, tree, ub)]
  <1>1. OverRow(op, base, row, ub) = running[1] BY DEF OverRow
  <1>2. Rec(f)
    <2>1. Len(row) = 1 OBVIOUS
    <2>2. ASSUME NEW v \in 0 .. 1
          PROVE  f[v] = IF v = 0 THEN base
                        ELSE TreeOp(op, f[v - 1], reduction_tree_op(op, row[v], ub), ub)
      <3>1. CASE v = 0 BY <3>1
      <3>2. CASE v = 1 BY <3>2
      <3>3. QED BY <3>1, <3>2
    <2>3. QED BY <2>1, <2>2
  <1>3. Rec(running)
    <2> HIDE DEF Rec, f
    <2>1. QED BY <1>2
  <1> HIDE DEF running
  <1>4. running[0] = base /\ running[1] = TreeOp(op, running[0], tree, ub) BY <1>3
  <1>5. tree \in Word BY TreeType
  <1> HIDE DEF tree
  <1>6. QED BY <1>1, <1>4, <1>5, TreeOpType

(* The maximum of a vector starts from a BF16 number.                      *)
LEMMA NegInfType == NEG_INF \in Word
  BY DEF NEG_INF, Word

(* process gives one BF16 number for each one of any vector.               *)
LEMMA SoftmaxType ==
  ASSUME NEW n \in Nat \ {0}, NEW vec \in [1 .. n -> Word], NEW ub \in ShiftOutcomes
  PROVE  process(<<vec>>, ub).final_output[1] \in [1 .. n -> Word]
  <1> DEFINE row == <<vec>>
             x_max == OverRow("max", NEG_INF, row, ub)
             exp(v, i) == bf16_exp(bf16_add(row[v][i], x_max, TRUE, ub), ub)
             inner(v) == Evaluated([i \in DOMAIN row[v] |-> exp(v, i)])
             exps == Evaluated([v \in DOMAIN row |-> inner(v)])
             sum_exp == OverRow("add", make_zero(0), exps, ub)
             s_inv == bf16_reciprocal(sum_exp)
             out(v) == Evaluated([i \in DOMAIN exps[v] |-> bf16_mul(exps[v][i], s_inv)])
  <1>1. process(row, ub).final_output = [v \in DOMAIN exps |-> out(v)]
    BY DEF process
  <1>2. DOMAIN row = 1 .. 1 /\ row[1] = vec OBVIOUS
  <1> HIDE DEF row, x_max, exp, inner, exps, sum_exp, s_inv, out
  <1>3. vec \in Nodes
    <2>1. vec \in Seq(Word) /\ Len(vec) = n OBVIOUS
    <2>2. QED BY <2>1 DEF Nodes
  <1>4. NEG_INF \in Word /\ make_zero(0) \in Word
    <2>1. NEG_INF \in Word BY NegInfType
    <2>2. 0 \in 0 .. 1 OBVIOUS
    <2>3. QED BY <2>1, <2>2, Specials, Zenon
  <1>5. x_max \in Word BY <1>3, <1>4, RowType DEF x_max, row
  <1>6. \A i \in 1 .. n : exp(1, i) \in Word
    <2> SUFFICES ASSUME NEW i \in 1 .. n PROVE exp(1, i) \in Word
      OBVIOUS
    <2>1. bf16_add(vec[i], x_max, TRUE, ub) \in Word BY <1>5, AddType
    <2>2. QED BY <1>2, <2>1, ExpType DEF exp
  <1>7. inner(1) \in [1 .. n -> Word]
    <2> DEFINE f == [i \in 1 .. n |-> exp(1, i)]
    <2>1. f \in [1 .. n -> Word] BY <1>6
    <2>2. inner(1) = Evaluated(f) BY <1>2 DEF inner
    <2> HIDE DEF f
    <2>3. Evaluated(f) = f BY <2>1, EvaluatedIs
    <2>4. QED BY <2>1, <2>2, <2>3
  <1>8. exps = <<inner(1)>>
    <2> DEFINE f == [v \in DOMAIN row |-> inner(v)]
    <2>1. f = <<inner(1)>> BY <1>2
    <2>2. f \in [1 .. 1 -> {inner(1)}] BY <1>2
    <2>3. exps = Evaluated(f) BY Zenon DEF exps
    <2> HIDE DEF f
    <2>4. Evaluated(f) = f BY <2>2, EvaluatedIs
    <2>5. QED BY <2>1, <2>3, <2>4
  <1> DEFINE es == inner(1)
  <1>9. es \in Nodes
    <2>1. es \in Seq(Word) /\ Len(es) = n BY <1>7
    <2>2. QED BY <2>1 DEF Nodes
  <1>10. s_inv \in Word
    <2>1. sum_exp \in Word BY <1>4, <1>8, <1>9, RowType DEF sum_exp
    <2>2. QED BY <2>1, ReciprocalType DEF s_inv
  <1>11. DOMAIN exps = 1 .. 1 /\ exps[1] = es BY <1>8
  <1>12. out(1) \in [1 .. n -> Word]
    <2> DEFINE f == [i \in 1 .. n |-> bf16_mul(es[i], s_inv)]
    <2>1. f \in [1 .. n -> Word] BY <1>7, <1>10, MulType
    <2>2. out(1) = Evaluated(f) BY <1>11, <1>7 DEF out
    <2> HIDE DEF f
    <2>3. Evaluated(f) = f BY <2>1, EvaluatedIs
    <2>4. QED BY <2>1, <2>2, <2>3
  <1>13. QED BY <1>1, <1>11, <1>12 DEF row

-----------------------------------------------------------------------------
Byte == 0 .. 255
File == [FileBytes -> Byte]

(* A remainder by 256 is a byte.                                           *)
LEMMA LowByte == \A x \in Int : x % 256 \in Byte
  BY DEF Byte

(* What a byte is, for arithmetic.                                         *)
LEMMA ByteIs == \A x : x \in Byte <=> x \in Nat /\ x < 256
  BY DEF Byte

(* A word is stored as two bytes, and read back as itself.                 *)
LEMMA BytesOfType ==
  ASSUME NEW w \in Word
  PROVE  BytesOf(w) \in [1 .. 2 -> Byte] /\ BytesOf(w) = <<w % 256, w \div 256>>
         /\ WordOf(BytesOf(w)) = w
  BY DEF BytesOf, WordOf, Word, Byte

(* Two bytes make a word.                                                  *)
LEMMA WordOfType ==
  ASSUME NEW bytes \in [1 .. 2 -> Byte]
  PROVE  WordOf(bytes) \in Word
  <1>1. bytes[1] \in Byte /\ bytes[2] \in Byte OBVIOUS
  <1>2. QED BY <1>1, ByteIs DEF WordOf, Word

(* An element of the file is as many bytes as it is wide.                  *)
LEMMA EltType ==
  ASSUME NEW file \in File, NEW reg, NEW i, NEW w \in Nat, NEW outside \in Byte
  PROVE  Elt(file, reg, i, w, outside) \in [1 .. w -> Byte]
  BY DEF Elt, File

(* An element begins at a natural.                                         *)
LEMMA AtType ==
  ASSUME NEW reg \in Nat, NEW i \in Nat, NEW w \in Nat
  PROVE  At(reg, i, w) \in Nat
  <1>1. VLENB \in Nat BY XperivAssumption
  <1>2. reg * VLENB \in Nat /\ i * w \in Nat BY <1>1
  <1>3. QED BY <1>2 DEF At

(* The bytes of the file are numbered from 0.                              *)
LEMMA FileBytesAre == NVPR * VLENB \in Nat /\ \A b \in FileBytes : b \in Nat
  <1>1. NVPR \in Nat /\ VLENB \in Nat BY XperivAssumption
  <1>2. NVPR * VLENB \in Nat BY <1>1
  <1>3. QED BY <1>2 DEF FileBytes

(* after differs from file in the w bytes from a on, which hold bytes. *)
ElementSet(file, after, a, w, bytes) ==
    /\ \A b \in FileBytes : ~(a <= b /\ b < a + w) => after[b] = file[b]
    /\ \A k \in 1 .. w : a + k - 1 \in FileBytes => after[a + k - 1] = bytes[k]

(* SetElt changes the bytes of one element and no other.                   *)
LEMMA SetEltIs ==
  ASSUME NEW file \in File, NEW reg \in Nat, NEW i \in Nat, NEW w \in Nat, NEW bytes \in [1 .. w -> Byte]
  PROVE  /\ SetElt(file, reg, i, bytes) \in File
         /\ ElementSet(file, SetElt(file, reg, i, bytes), At(reg, i, w), w, bytes)
  <1> DEFINE a == At(reg, i, w)
             after == [b \in FileBytes |-> IF a <= b /\ b < a + w THEN bytes[b - a + 1] ELSE file[b]]
  <1>1. a \in Nat BY AtType
  <1>2. Len(bytes) = w OBVIOUS
  <1>3. SetElt(file, reg, i, bytes) = after BY <1>2 DEF SetElt
  <1> HIDE DEF a
  <1>4. after \in File
    <2> SUFFICES ASSUME NEW b \in FileBytes
                 PROVE  (IF a <= b /\ b < a + w THEN bytes[b - a + 1] ELSE file[b]) \in Byte
      BY DEF File
    <2>1. b \in Nat /\ file[b] \in Byte BY FileBytesAre DEF File
    <2>2. ASSUME a <= b, b < a + w PROVE bytes[b - a + 1] \in Byte
      <3>1. b - a + 1 \in 1 .. w BY <1>1, <2>1, <2>2
      <3>2. QED BY <3>1
    <2>3. QED BY <2>1, <2>2
  <1>5. \A b \in FileBytes : ~(a <= b /\ b < a + w) => after[b] = file[b] OBVIOUS
  <1>6. ASSUME NEW k \in 1 .. w, a + k - 1 \in FileBytes PROVE after[a + k - 1] = bytes[k]
    <2> DEFINE b == a + k - 1
    <2>1. a <= b /\ b < a + w /\ b - a + 1 = k BY <1>1
    <2>2. b \in FileBytes BY <1>6
    <2> HIDE DEF b
    <2>3. QED BY <2>1, <2>2 DEF b
  <1> HIDE DEF after
  <1>7. QED BY <1>3, <1>4, <1>5, <1>6 DEF a, ElementSet

(* carry holds the carries of the sum of a and b. *)
SumIs(a, b, w, carry) ==
    /\ carry[0] = 0 /\ \A k \in 1 .. w : carry[k] = (a[k] + b[k] + carry[k - 1]) \div 256
    /\ AddBytes(a, b) = [k \in 1 .. w |-> (a[k] + b[k] + carry[k - 1]) % 256]

(* AddBytes is the schoolbook sum.                                         *)
LEMMA AddBytesIs ==
  ASSUME NEW w \in Nat, NEW a \in [1 .. w -> Byte], NEW b \in [1 .. w -> Byte]
  PROVE  \E carry \in [0 .. w -> Nat] : SumIs(a, b, w, carry)
  <1> DEFINE Step(k, c) == (a[k] + b[k] + c) \div 256
             Rec(g) == g = [k \in 0 .. w |-> IF k = 0 THEN 0 ELSE Step(k, g[k - 1])]
             carry == CHOOSE g : Rec(g)
             F == [x \in Nat \X (1 .. w) |-> Step(x[2], x[1])]
  <1>1. AddBytes(a, b) = [k \in 1 .. w |-> (a[k] + b[k] + carry[k - 1]) % 256]
    <2>1. Len(a) = w OBVIOUS
    <2>2. QED BY <2>1 DEF AddBytes
  <1>2. \A k \in 1 .. w, c \in Nat : Step(k, c) \in Nat
    <2> SUFFICES ASSUME NEW k \in 1 .. w, NEW c \in Nat PROVE Step(k, c) \in Nat
      OBVIOUS
    <2>1. a[k] \in Byte /\ b[k] \in Byte OBVIOUS
    <2>2. a[k] \in Nat /\ b[k] \in Nat BY <2>1, ByteIs
    <2>3. QED BY <2>2
  <1> HIDE DEF Step
  <1>3. F \in [Nat \X (1 .. w) -> Nat] BY <1>2
  <1>4. PICK g \in [0 .. w -> Nat] : Stepwise(g, w, 0, F)
    <2> HIDE DEF F
    <2>1. 0 \in Nat OBVIOUS
    <2>2. QED BY <1>3, <2>1, StepwiseExists, Zenon
  <1>5. g[0] = 0 /\ \A k \in 1 .. w : g[k] = Step(k, g[k - 1])
    <2>1. g[0] = 0 /\ \A k \in 1 .. w : g[k] = F[<<g[k - 1], k>>]
      <3> HIDE DEF F
      <3>1. QED BY <1>4 DEF Stepwise
    <2>2. ASSUME NEW k \in 1 .. w PROVE F[<<g[k - 1], k>>] = Step(k, g[k - 1])
      <3>1. g[k - 1] \in Nat OBVIOUS
      <3>2. QED BY <3>1
    <2>3. QED BY <2>1, <2>2
  <1>6. Rec(g) BY <1>5
  <1>7. Rec(carry) BY <1>6
  <1> HIDE DEF carry, F
  <1>8. carry[0] = 0 /\ \A k \in 1 .. w : carry[k] = Step(k, carry[k - 1]) BY <1>7
  <1>9. \A k \in 0 .. w : carry[k] \in Nat
    <2>1. carry[0] \in Nat BY <1>8
    <2>2. \A k \in 1 .. w : carry[k - 1] \in Nat => carry[k] \in Nat BY <1>2, <1>8
    <2>3. QED BY <2>1, <2>2, StaysIn
  <1>10. carry \in [0 .. w -> Nat] BY <1>7, <1>9
  <1>11. SumIs(a, b, w, carry) BY <1>1, <1>8 DEF Step, SumIs
  <1>12. QED BY <1>10, <1>11

(* The k-th column of the product of a and b. *)
Part(a, b, k) ==
    LET sum[j \in 0 .. k] == IF j = 0 THEN 0 ELSE sum[j - 1] + a[j] * b[k + 1 - j]
    IN  sum[k]

PartialSums(a, b, k, sum) ==
    /\ sum[0] = 0 /\ \A j \in 1 .. k : sum[j] = sum[j - 1] + a[j] * b[k + 1 - j]
    /\ Part(a, b, k) = sum[k]

(* A column is the sum of its partial products.                            *)
LEMMA PartIs ==
  ASSUME NEW w \in Nat, NEW a \in [1 .. w -> Byte], NEW b \in [1 .. w -> Byte], NEW k \in 1 .. w
  PROVE  Part(a, b, k) \in Nat /\ \E sum \in [0 .. k -> Nat] : PartialSums(a, b, k, sum)
  <1> DEFINE Term(j) == a[j] * b[k + 1 - j]
             Rec(g) == g = [j \in 0 .. k |-> IF j = 0 THEN 0 ELSE g[j - 1] + Term(j)]
             sum == CHOOSE g : Rec(g)
             F == [x \in Nat \X (1 .. k) |-> x[1] + Term(x[2])]
  <1>1. Part(a, b, k) = sum[k] BY DEF Part
  <1>2. \A j \in 1 .. k : Term(j) \in Nat
    <2> SUFFICES ASSUME NEW j \in 1 .. k PROVE Term(j) \in Nat
      OBVIOUS
    <2>1. k + 1 - j \in 1 .. w /\ j \in 1 .. w OBVIOUS
    <2>2. a[j] \in Byte /\ b[k + 1 - j] \in Byte BY <2>1
    <2>3. a[j] \in Nat /\ b[k + 1 - j] \in Nat BY <2>2, ByteIs
    <2>4. QED BY <2>3
  <1> HIDE DEF Term
  <1>3. F \in [Nat \X (1 .. k) -> Nat] BY <1>2
  <1>4. PICK g \in [0 .. k -> Nat] : Stepwise(g, k, 0, F)
    <2> HIDE DEF F
    <2>1. 0 \in Nat /\ k \in Nat OBVIOUS
    <2>2. QED BY <1>3, <2>1, StepwiseExists, Zenon
  <1>5. g[0] = 0 /\ \A j \in 1 .. k : g[j] = g[j - 1] + Term(j)
    <2>1. g[0] = 0 /\ \A j \in 1 .. k : g[j] = F[<<g[j - 1], j>>]
      <3> HIDE DEF F
      <3>1. QED BY <1>4 DEF Stepwise
    <2>2. ASSUME NEW j \in 1 .. k PROVE F[<<g[j - 1], j>>] = g[j - 1] + Term(j)
      <3>1. g[j - 1] \in Nat OBVIOUS
      <3>2. QED BY <3>1
    <2>3. QED BY <2>1, <2>2
  <1>6. Rec(g) BY <1>5
  <1>7. Rec(sum) BY <1>6
  <1> HIDE DEF sum, F
  <1>8. sum[0] = 0 /\ \A j \in 1 .. k : sum[j] = sum[j - 1] + Term(j) BY <1>7
  <1>9. \A j \in 0 .. k : sum[j] \in Nat
    <2>1. sum[0] \in Nat BY <1>8
    <2>2. ASSUME NEW j \in 1 .. k, sum[j - 1] \in Nat PROVE sum[j] \in Nat
      <3>1. Term(j) \in Nat /\ sum[j] = sum[j - 1] + Term(j) BY <1>2, <1>8
      <3>2. QED BY <2>2, <3>1
    <2>3. k \in Nat OBVIOUS
    <2>4. QED BY <2>1, <2>2, <2>3, StaysIn
  <1>10. sum \in [0 .. k -> Nat] BY <1>7, <1>9
  <1>11. PartialSums(a, b, k, sum) BY <1>1, <1>8 DEF Term, PartialSums
  <1>12. Part(a, b, k) \in Nat BY <1>1, <1>9
  <1>13. QED BY <1>10, <1>11, <1>12

(* carry holds the carries of the product of a and b. *)
ProductIs(a, b, w, carry) ==
    /\ carry[0] = 0 /\ \A k \in 1 .. w : carry[k] = (Part(a, b, k) + carry[k - 1]) \div 256
    /\ MulBytes(a, b) = [k \in 1 .. w |-> (Part(a, b, k) + carry[k - 1]) % 256]

(* MulBytes is the schoolbook product.                                     *)
LEMMA MulBytesIs ==
  ASSUME NEW w \in Nat, NEW a \in [1 .. w -> Byte], NEW b \in [1 .. w -> Byte]
  PROVE  \E carry \in [0 .. w -> Nat] : ProductIs(a, b, w, carry)
  <1> DEFINE Step(k, c) == (Part(a, b, k) + c) \div 256
             Rec(g) == g = [k \in 0 .. w |-> IF k = 0 THEN 0 ELSE Step(k, g[k - 1])]
             carry == CHOOSE g : Rec(g)
             F == [x \in Nat \X (1 .. w) |-> Step(x[2], x[1])]
  <1>1. MulBytes(a, b) = [k \in 1 .. w |-> (Part(a, b, k) + carry[k - 1]) % 256]
    <2>1. Len(a) = w OBVIOUS
    <2>2. QED BY <2>1 DEF MulBytes, Part
  <1>2. \A k \in 1 .. w, c \in Nat : Step(k, c) \in Nat
    <2> SUFFICES ASSUME NEW k \in 1 .. w, NEW c \in Nat PROVE Step(k, c) \in Nat
      OBVIOUS
    <2>1. Part(a, b, k) \in Nat BY PartIs
    <2>2. QED BY <2>1
  <1> HIDE DEF Step
  <1>3. F \in [Nat \X (1 .. w) -> Nat] BY <1>2
  <1>4. PICK g \in [0 .. w -> Nat] : Stepwise(g, w, 0, F)
    <2> HIDE DEF F
    <2>1. 0 \in Nat OBVIOUS
    <2>2. QED BY <1>3, <2>1, StepwiseExists, Zenon
  <1>5. g[0] = 0 /\ \A k \in 1 .. w : g[k] = Step(k, g[k - 1])
    <2>1. g[0] = 0 /\ \A k \in 1 .. w : g[k] = F[<<g[k - 1], k>>]
      <3> HIDE DEF F
      <3>1. QED BY <1>4 DEF Stepwise
    <2>2. ASSUME NEW k \in 1 .. w PROVE F[<<g[k - 1], k>>] = Step(k, g[k - 1])
      <3>1. g[k - 1] \in Nat OBVIOUS
      <3>2. QED BY <3>1
    <2>3. QED BY <2>1, <2>2
  <1>6. Rec(g) BY <1>5
  <1>7. Rec(carry) BY <1>6
  <1> HIDE DEF carry, F
  <1>8. carry[0] = 0 /\ \A k \in 1 .. w : carry[k] = Step(k, carry[k - 1]) BY <1>7
  <1>9. \A k \in 0 .. w : carry[k] \in Nat
    <2>1. carry[0] \in Nat BY <1>8
    <2>2. \A k \in 1 .. w : carry[k - 1] \in Nat => carry[k] \in Nat BY <1>2, <1>8
    <2>3. QED BY <2>1, <2>2, StaysIn
  <1>10. carry \in [0 .. w -> Nat] BY <1>7, <1>9
  <1>11. ProductIs(a, b, w, carry) BY <1>1, <1>8 DEF Step, ProductIs
  <1>12. QED BY <1>10, <1>11

(* The result of an element is as wide as its sources.                     *)
LEMMA ElementOpType ==
  ASSUME NEW op, NEW w \in Nat, NEW a \in [1 .. w -> Byte], NEW b \in [1 .. w -> Byte]
  PROVE  ElementOp(op, a, b) \in [1 .. w -> Byte]
  <1>1. AddBytes(a, b) \in [1 .. w -> Byte]
    <2>1. PICK carry \in [0 .. w -> Nat] : SumIs(a, b, w, carry)
      BY AddBytesIs
    <2>2. ASSUME NEW k \in 1 .. w PROVE (a[k] + b[k] + carry[k - 1]) % 256 \in Byte
      <3>1. a[k] \in Byte /\ b[k] \in Byte /\ carry[k - 1] \in Nat OBVIOUS
      <3>2. a[k] + b[k] + carry[k - 1] \in Nat BY <3>1, ByteIs
      <3>3. QED BY <3>2, LowByte
    <2>3. QED BY <2>1, <2>2 DEF SumIs
  <1>2. MulBytes(a, b) \in [1 .. w -> Byte]
    <2>1. PICK carry \in [0 .. w -> Nat] : ProductIs(a, b, w, carry)
      BY MulBytesIs
    <2>2. ASSUME NEW k \in 1 .. w PROVE (Part(a, b, k) + carry[k - 1]) % 256 \in Byte
      <3>1. Part(a, b, k) \in Nat BY PartIs
      <3>2. carry[k - 1] \in Nat OBVIOUS
      <3>3. Part(a, b, k) + carry[k - 1] \in Nat BY <3>1, <3>2
      <3>4. QED BY <3>3, LowByte
    <2>3. QED BY <2>1, <2>2 DEF ProductIs
  <1>3. QED BY <1>1, <1>2 DEF ElementOp

(* For one or two bytes, the sum and the product are those of the numbers. *)
LEMMA Add1 ==
  ASSUME NEW a \in [1 .. 1 -> Byte], NEW b \in [1 .. 1 -> Byte]
  PROVE  AddBytes(a, b) = Exactly("add", a, b)
  <1>1. PICK carry \in [0 .. 1 -> Nat] : SumIs(a, b, 1, carry) BY AddBytesIs
  <1> DEFINE a1 == a[1]
             b1 == b[1]
  <1>2. a1 \in Nat /\ b1 \in Nat BY ByteIs
  <1>3. AddBytes(a, b) = <<(a1 + b1 + carry[0]) % 256>> /\ carry[0] = 0
    BY <1>1 DEF SumIs
  <1>4. Exactly("add", a, b) = <<(a1 + b1) % 256>>
    BY DEF Exactly, Number
  <1> HIDE DEF a1, b1
  <1>5. QED BY <1>2, <1>3, <1>4

(* The sum of two bytes and two bytes.                                     *)
LEMMA Add2 ==
  ASSUME NEW a \in [1 .. 2 -> Byte], NEW b \in [1 .. 2 -> Byte]
  PROVE  AddBytes(a, b) = Exactly("add", a, b)
  <1>1. PICK carry \in [0 .. 2 -> Nat] : SumIs(a, b, 2, carry) BY AddBytesIs
  <1> DEFINE a1 == a[1]
             a2 == a[2]
             b1 == b[1]
             b2 == b[2]
             s == (a1 + 256 * a2) + (b1 + 256 * b2)
             c == (a1 + b1) \div 256
  <1>2. /\ a1 \in Nat /\ a1 < 256 /\ b1 \in Nat /\ b1 < 256
        /\ a2 \in Nat /\ a2 < 256 /\ b2 \in Nat /\ b2 < 256
    BY ByteIs
  <1>3. AddBytes(a, b) = <<(a1 + b1 + carry[0]) % 256, (a2 + b2 + carry[1]) % 256>>
        /\ carry[0] = 0 /\ carry[1] = (a1 + b1 + carry[0]) \div 256
    BY <1>1 DEF SumIs
  <1>4. Exactly("add", a, b) = <<(s % 65536) % 256, (s % 65536) \div 256>>
    BY DEF Exactly, Number, WordOf, BytesOf
  <1> HIDE DEF a1, a2, b1, b2
  <1>5. AddBytes(a, b) = <<(a1 + b1) % 256, (a2 + b2 + c) % 256>> BY <1>2, <1>3
  <1>6. (s % 65536) % 256 = (a1 + b1) % 256 BY <1>2
  <1>7. (s % 65536) \div 256 = (a2 + b2 + c) % 256 BY <1>2
  <1>8. QED BY <1>4, <1>5, <1>6, <1>7

(* The product of a byte and a byte.                                       *)
LEMMA Mul1 ==
  ASSUME NEW a \in [1 .. 1 -> Byte], NEW b \in [1 .. 1 -> Byte]
  PROVE  MulBytes(a, b) = Exactly("mul", a, b)
  <1>1. PICK carry \in [0 .. 1 -> Nat] : ProductIs(a, b, 1, carry) BY MulBytesIs
  <1> DEFINE a1 == a[1]
             b1 == b[1]
             p == a1 * b1
  <1>2. a1 \in Nat /\ b1 \in Nat /\ b1 < 256 BY ByteIs
  <1>3. Part(a, b, 1) = p
    <2>1. 1 \in 1 .. 1 OBVIOUS
    <2>2. PICK sum \in [0 .. 1 -> Nat] : PartialSums(a, b, 1, sum) BY <2>1, PartIs
    <2>3. sum[0] = 0 /\ sum[1] = sum[0] + a1 * b1 /\ Part(a, b, 1) = sum[1]
      BY <2>2 DEF PartialSums
    <2>4. p \in Nat BY <1>2
    <2> HIDE DEF a1, b1
    <2>5. QED BY <2>3, <2>4
  <1>4. MulBytes(a, b) = <<(p + carry[0]) % 256>> /\ carry[0] = 0
    BY <1>1, <1>3 DEF ProductIs
  <1> DEFINE t == a1 * (b1 % 256) + ((a1 * (b1 \div 256)) % 256) * 256
  <1>5. Exactly("mul", a, b) = <<t % 256>>
    BY DEF Exactly, Number
  <1> HIDE DEF a1, b1
  <1>6. t = p
    <2>1. b1 % 256 = b1 /\ b1 \div 256 = 0 BY <1>2
    <2>2. p \in Nat BY <1>2
    <2>3. a1 * 0 = 0 BY <1>2
    <2>4. t = p + (0 % 256) * 256 BY <2>1, <2>3
    <2> HIDE DEF t, p
    <2>5. QED BY <2>2, <2>4
  <1>7. p \in Nat BY <1>2
  <1> HIDE DEF t, p
  <1>8. QED BY <1>4, <1>5, <1>6, <1>7

(* The product of two bytes and two bytes: the high partial product drops  *)
(* out.                                                                    *)
LEMMA Mul2 ==
  ASSUME NEW a \in [1 .. 2 -> Byte], NEW b \in [1 .. 2 -> Byte]
  PROVE  MulBytes(a, b) = Exactly("mul", a, b)
  <1>1. PICK carry \in [0 .. 2 -> Nat] : ProductIs(a, b, 2, carry) BY MulBytesIs
  <1> DEFINE a1 == a[1]
             a2 == a[2]
             b1 == b[1]
             b2 == b[2]
             p11 == a1 * b1
             p12 == a1 * b2
             p21 == a2 * b1
             p22 == a2 * b2
             x == a1 + 256 * a2
             y == b1 + 256 * b2
             t == x * (y % 256) + ((x * (y \div 256)) % 256) * 256
  <1>2. /\ a1 \in Nat /\ a1 < 256 /\ b1 \in Nat /\ b1 < 256
        /\ a2 \in Nat /\ a2 < 256 /\ b2 \in Nat /\ b2 < 256
    BY ByteIs
  <1>3. p11 \in Nat /\ p12 \in Nat /\ p21 \in Nat /\ p22 \in Nat BY <1>2
  <1>4. Part(a, b, 1) = p11
    <2>1. 1 \in 1 .. 2 OBVIOUS
    <2>2. PICK sum \in [0 .. 1 -> Nat] : PartialSums(a, b, 1, sum) BY <2>1, PartIs
    <2>3. sum[0] = 0 /\ sum[1] = sum[0] + p11 /\ Part(a, b, 1) = sum[1]
      BY <2>2 DEF PartialSums
    <2> HIDE DEF p11
    <2>4. QED BY <1>3, <2>3
  <1>5. Part(a, b, 2) = p12 + p21
    <2>1. 2 \in 1 .. 2 OBVIOUS
    <2>2. PICK sum \in [0 .. 2 -> Nat] : PartialSums(a, b, 2, sum) BY <2>1, PartIs
    <2>3. sum[0] = 0 /\ sum[1] = sum[0] + p12 /\ sum[2] = sum[1] + p21 /\ Part(a, b, 2) = sum[2]
      BY <2>2 DEF PartialSums
    <2> HIDE DEF p12, p21
    <2>4. QED BY <1>3, <2>3
  <1>6. MulBytes(a, b) = <<(p11 + carry[0]) % 256, (p12 + p21 + carry[1]) % 256>>
        /\ carry[0] = 0 /\ carry[1] = (p11 + carry[0]) \div 256
    BY <1>1, <1>4, <1>5 DEF ProductIs
  <1>7. Exactly("mul", a, b) = <<(t % 65536) % 256, (t % 65536) \div 256>>
    BY DEF Exactly, Number, WordOf, BytesOf
  <1> HIDE DEF a1, a2, b1, b2
  <1>8. t = p11 + 256 * p21 + ((p12 + 256 * p22) % 256) * 256
    <2>1. y % 256 = b1 /\ y \div 256 = b2 BY <1>2
    <2>2. x * b1 = p11 + 256 * p21 /\ x * b2 = p12 + 256 * p22 BY <1>2
    <2> HIDE DEF x, y, p11, p12, p21, p22
    <2>3. QED BY <2>1, <2>2
  <1> HIDE DEF t, p11, p12, p21, p22
  <1>9. MulBytes(a, b) = <<p11 % 256, (p12 + p21 + (p11 \div 256)) % 256>> BY <1>3, <1>6
  <1>10. (p12 + 256 * p22) % 256 = p12 % 256 BY <1>3
  <1>11. t \in Nat /\ t = p11 + 256 * p21 + (p12 % 256) * 256 BY <1>3, <1>8, <1>10
  <1>12. (t % 65536) % 256 = p11 % 256 BY <1>3, <1>11
  <1>13. (t % 65536) \div 256 = (p12 + p21 + (p11 \div 256)) % 256 BY <1>3, <1>11
  <1>14. QED BY <1>7, <1>9, <1>12, <1>13

(* The chains of carries compute the sum and the product modulo the width  *)
(* of the element.                                                         *)
LEMMA WantedIs ==
  ASSUME NEW op \in {"add", "mul"}, NEW w \in {1, 2, 4, 8},
         NEW a \in [1 .. w -> Byte], NEW b \in [1 .. w -> Byte]
  PROVE  ElementOp(op, a, b) = Wanted(op, a, b)
  <1>1. Len(a) = w OBVIOUS
  <1>2. CASE w = 1
    <2>1. a \in [1 .. 1 -> Byte] /\ b \in [1 .. 1 -> Byte] BY <1>2
    <2>2. AddBytes(a, b) = Exactly("add", a, b) /\ MulBytes(a, b) = Exactly("mul", a, b)
      BY <2>1, Add1, Mul1
    <2>3. QED BY <1>1, <1>2, <2>2 DEF ElementOp, Wanted
  <1>3. CASE w = 2
    <2>1. a \in [1 .. 2 -> Byte] /\ b \in [1 .. 2 -> Byte] BY <1>3
    <2>2. AddBytes(a, b) = Exactly("add", a, b) /\ MulBytes(a, b) = Exactly("mul", a, b)
      BY <2>1, Add2, Mul2
    <2>3. QED BY <1>1, <1>3, <2>2 DEF ElementOp, Wanted
  <1>4. CASE w > 2 BY <1>1, <1>4 DEF ElementOp, Wanted
  <1>5. QED BY <1>2, <1>3, <1>4

-----------------------------------------------------------------------------
(* What vsetvli leaves: no more elements than the group of registers has   *)
(* room for; and the registers hold bytes.                                 *)
VectorTypeInv ==
    /\ vreg \in File
    /\ vtype.sew \in {8, 16, 32, 64}
    /\ vtype.lmul8 \in Lmuls \cup {8}
    /\ vl \in Nat /\ vl * vtype.sew <= VLENB * vtype.lmul8
    /\ vstart \in Nat /\ count \in Nat

(* Groups of g registers of v bytes: they divide the file, and each has    *)
(* room for vl elements of w bytes.                                        *)
Grouped(v, g, w) ==
    /\ v \in Nat \ {0} /\ g \in {1, 2, 4, 8} /\ w \in {1, 2, 4, 8}
    /\ NVPR % g = 0 /\ vl * w <= g * v

(* The configurations vsetvli leaves are of this kind.                     *)
LEMMA Groups ==
  ASSUME VectorTypeInv
  PROVE  Grouped(VLENB, GroupRegs(vtype.lmul8), vtype.sew \div 8)
  <1> DEFINE s == vtype.sew
             l == vtype.lmul8
             w == s \div 8
             g == GroupRegs(l)
  <1>1. VLENB \in Nat \ {0} /\ NVPR \in Nat \ {0} BY XperivAssumption
  <1>2. w \in {1, 2, 4, 8} /\ s = 8 * w BY DEF VectorTypeInv
  <1>3. l \in {1, 2, 4, 8, 16, 32, 64} BY VectorAssumption DEF VectorTypeInv
  <1>4. g \in {1, 2, 4, 8} /\ l <= 8 * g BY <1>3 DEF GroupRegs
  <1>5. NVPR % g = 0
    <2>1. GroupRegs(8) = 1 BY DEF GroupRegs
    <2>2. NVPR % 1 = 0 BY <1>1
    <2>3. QED BY <2>1, <2>2, VectorAssumption DEF VectorTypeInv
  <1>6. vl * w <= g * VLENB
    <2>1. vl \in Nat /\ vl * s <= VLENB * l BY DEF VectorTypeInv
    <2> HIDE DEF w, g, s, l
    <2>2. VLENB * l <= VLENB * (8 * g) BY <1>1, <1>3, <1>4
    <2>3. vl * (8 * w) <= VLENB * (8 * g)
      <3>1. vl * (8 * w) \in Int /\ VLENB * l \in Int /\ VLENB * (8 * g) \in Int
        BY <1>1, <1>2, <1>3, <1>4, <2>1
      <3>2. QED BY <1>2, <2>1, <2>2, <3>1
    <2>4. QED BY <1>1, <1>2, <1>4, <2>1, <2>3
  <1>7. QED BY <1>1, <1>2, <1>4, <1>5, <1>6 DEF Grouped

(* A group at a multiple of its size lies inside the file.                 *)
LEMMA GroupFits ==
  ASSUME NEW g, NEW w, Grouped(VLENB, g, w), NEW r \in Regs, r % g = 0
  PROVE  r * VLENB \in Nat /\ g * VLENB \in Nat /\ r * VLENB + g * VLENB <= NVPR * VLENB
  <1>1. VLENB \in Nat \ {0} /\ NVPR \in Nat \ {0} BY XperivAssumption
  <1>2. g \in {1, 2, 4, 8} /\ NVPR % g = 0 BY DEF Grouped
  <1>3. r \in Nat /\ r < NVPR BY <1>1 DEF Regs
  <1>4. r + g <= NVPR BY <1>1, <1>2, <1>3
  <1>5. (r + g) * VLENB <= NVPR * VLENB BY <1>1, <1>2, <1>3, <1>4
  <1>6. (r + g) * VLENB = r * VLENB + g * VLENB BY <1>1, <1>2, <1>3
  <1>7. r * VLENB \in Nat /\ g * VLENB \in Nat BY <1>1, <1>2, <1>3
  <1>8. QED BY <1>5, <1>6, <1>7

(* Two such groups are the same or have no register in common.             *)
LEMMA GroupsApart ==
  ASSUME NEW g, NEW w, Grouped(VLENB, g, w), NEW r \in Nat, NEW q \in Nat,
         r % g = 0, q % g = 0, r < q
  PROVE  r * VLENB + g * VLENB <= q * VLENB
  <1>1. VLENB \in Nat \ {0} BY XperivAssumption
  <1>2. g \in {1, 2, 4, 8} BY DEF Grouped
  <1>3. r + g <= q BY <1>2
  <1>4. (r + g) * VLENB <= q * VLENB BY <1>1, <1>2, <1>3
  <1>5. (r + g) * VLENB = r * VLENB + g * VLENB BY <1>1, <1>2
  <1>6. QED BY <1>4, <1>5

(* Each of the vl elements lies inside its group.                          *)
LEMMA ElementFits ==
  ASSUME NEW g, NEW w, Grouped(VLENB, g, w), vl \in Nat, NEW i \in 0 .. vl - 1
  PROVE  i * w \in Nat /\ i * w + w <= vl * w /\ vl * w \in Nat /\ vl * w <= g * VLENB
  <1>1. w \in {1, 2, 4, 8} BY DEF Grouped
  <1>2. QED BY <1>1 DEF Grouped

(* So each lies inside the file.                                           *)
LEMMA ElementInFile ==
  ASSUME NEW g, NEW w, Grouped(VLENB, g, w), vl \in Nat, NEW r \in Regs, r % g = 0,
         NEW i \in 0 .. vl - 1
  PROVE  /\ At(r, i, w) \in Nat
         /\ \A k \in 1 .. w : At(r, i, w) + k - 1 \in FileBytes
  <1> DEFINE base == r * VLENB
             off == i * w
             size == NVPR * VLENB
  <1>1. base \in Nat /\ g * VLENB \in Nat /\ base + g * VLENB <= size BY GroupFits
  <1>2. off \in Nat /\ off + w <= vl * w /\ vl * w \in Nat /\ vl * w <= g * VLENB BY ElementFits
  <1>3. At(r, i, w) = base + off BY DEF At
  <1>4. FileBytes = 0 .. size - 1 BY DEF FileBytes
  <1>5. w \in {1, 2, 4, 8} BY DEF Grouped
  <1>6. size \in Nat BY FileBytesAre
  <1> DEFINE room == g * VLENB
             used == vl * w
  <1> HIDE DEF base, off, size, room, used
  <1>7. room \in Nat /\ used \in Nat /\ used <= room /\ base + room <= size /\ off + w <= used
    BY <1>1, <1>2 DEF room, used
  <1>8. QED BY <1>1, <1>2, <1>3, <1>4, <1>5, <1>6, <1>7

(* What one element overwrites is no part of a later element, of the same  *)
(* or of another group.                                                    *)
LEMMA ElementsApart ==
  ASSUME NEW g, NEW w, Grouped(VLENB, g, w), vl \in Nat,
         NEW r \in Regs, NEW q \in Regs, r % g = 0, q % g = 0,
         NEW i \in 0 .. vl - 1, NEW j \in 0 .. vl - 1, r = q => i # j
  PROVE  At(r, i, w) + w <= At(q, j, w) \/ At(q, j, w) + w <= At(r, i, w)
  <1> DEFINE rb == r * VLENB
             qb == q * VLENB
             io == i * w
             jo == j * w
             room == g * VLENB
             used == vl * w
  <1>1. /\ io \in Nat /\ io + w <= used /\ used \in Nat /\ used <= room
        /\ jo \in Nat /\ jo + w <= used
    BY ElementFits
  <1>2. rb \in Nat /\ qb \in Nat /\ room \in Nat BY GroupFits
  <1>3. At(r, i, w) = rb + io /\ At(q, j, w) = qb + jo BY DEF At
  <1>4. r \in Nat /\ q \in Nat BY XperivAssumption DEF Regs
  <1>5. CASE r = q
    <2>1. rb = qb BY <1>5
    <2>2. w \in {1, 2, 4, 8} BY DEF Grouped
    <2>3. io + w <= jo \/ jo + w <= io
      <3>1. i < j \/ j < i BY <1>5
      <3>2. QED BY <2>2, <3>1
    <2> HIDE DEF rb, qb, io, jo
    <2>4. QED BY <1>1, <1>2, <1>3, <2>1, <2>2, <2>3
  <1>6. CASE r < q
    <2>1. rb + room <= qb BY <1>4, <1>6, GroupsApart
    <2>2. w \in {1, 2, 4, 8} BY DEF Grouped
    <2> HIDE DEF rb, qb, io, jo, room, used
    <2>3. QED BY <1>1, <1>2, <1>3, <2>1, <2>2
  <1>7. CASE q < r
    <2>1. qb + room <= rb BY <1>4, <1>7, GroupsApart
    <2>2. w \in {1, 2, 4, 8} BY DEF Grouped
    <2> HIDE DEF rb, qb, io, jo, room, used
    <2>3. QED BY <1>1, <1>2, <1>3, <2>1, <2>2
  <1>8. QED BY <1>4, <1>5, <1>6, <1>7

(* The loop, one element at a time. *)
Active(file, vm, i) == vm \/ MaskBit(file, i) = 1

ElementStep(op, vd, vs1, vs2, vm, file, i) ==
    LET w == vtype.sew \div 8
    IN  IF ~vm /\ MaskBit(file, i - 1) = 0 THEN file
        ELSE SetElt(file, vd, i - 1, ElementOp(op, Elt(file, vs1, i - 1, w, 0),
                                               Elt(file, vs2, i - 1, w, 0)))

Loop(op, vd, vs1, vs2, vm, after) ==
    /\ after[0] = vreg
    /\ \A i \in 1 .. vl : i <= vstart => after[i] = vreg
    /\ \A i \in 1 .. vl : i > vstart =>
           after[i] = ElementStep(op, vd, vs1, vs2, vm, after[i - 1], i)
    /\ VI_LOOP(op, vd, vs1, vs2, vm) = after[vl]

(* The loop keeps the bytes of the file bytes.                             *)
LEMMA ElementStepType ==
  ASSUME VectorTypeInv, NEW op, NEW vd \in Nat, NEW vs1, NEW vs2, NEW vm,
         NEW file \in File, NEW i \in Nat \ {0}
  PROVE  ElementStep(op, vd, vs1, vs2, vm, file, i) \in File
  <1> DEFINE w == vtype.sew \div 8
             bytes == ElementOp(op, Elt(file, vs1, i - 1, w, 0), Elt(file, vs2, i - 1, w, 0))
  <1>1. w \in Nat BY DEF VectorTypeInv
  <1>2. 0 \in Byte BY DEF Byte
  <1>3. ElementStep(op, vd, vs1, vs2, vm, file, i)
            = IF ~vm /\ MaskBit(file, i - 1) = 0 THEN file ELSE SetElt(file, vd, i - 1, bytes)
    BY DEF ElementStep
  <1> HIDE DEF w
  <1>4. bytes \in [1 .. w -> Byte] BY <1>1, <1>2, EltType, ElementOpType
  <1>5. i - 1 \in Nat OBVIOUS
  <1> HIDE DEF bytes
  <1>6. SetElt(file, vd, i - 1, bytes) \in File BY <1>1, <1>4, <1>5, SetEltIs
  <1>7. QED BY <1>3, <1>6

(* The loop, as the recursion over its elements.                           *)
LEMMA LoopIs ==
  ASSUME VectorTypeInv, NEW op, NEW vd \in Nat, NEW vs1, NEW vs2, NEW vm
  PROVE  \E after \in [0 .. vl -> File] : Loop(op, vd, vs1, vs2, vm, after)
  <1> DEFINE Next(file, i) == ElementStep(op, vd, vs1, vs2, vm, file, i)
             Step(file, i) == IF i <= vstart THEN vreg ELSE Next(file, i)
             Rec(g) == g = [i \in 0 .. vl |-> Step(g[i - 1], i)]
             after == CHOOSE g : Rec(g)
             F == [x \in File \X (1 .. vl) |-> Step(x[1], x[2])]
  <1>1. VI_LOOP(op, vd, vs1, vs2, vm) = after[vl]
    BY Zenon DEF VI_LOOP, ElementStep
  <1>2. vl \in Nat /\ vreg \in File /\ vstart \in Nat BY DEF VectorTypeInv
  <1>3. \A i \in 1 .. vl, file \in File : Step(file, i) \in File
    <2> SUFFICES ASSUME NEW i \in 1 .. vl, NEW file \in File PROVE Step(file, i) \in File
      OBVIOUS
    <2>1. i \in Nat \ {0} BY <1>2
    <2>2. Next(file, i) \in File BY <2>1, ElementStepType
    <2> HIDE DEF Next
    <2>3. QED BY <1>2, <2>2
  <1> HIDE DEF Next
  <1>4. F \in [File \X (1 .. vl) -> File]
    <2> HIDE DEF Step
    <2>1. QED BY <1>3
  <1>5. PICK g \in [0 .. vl -> File] : Stepwise(g, vl, vreg, F)
    <2> HIDE DEF F
    <2>1. QED BY <1>2, <1>4, StepwiseExists, Zenon
  <1>6. g[0] = vreg /\ \A i \in 1 .. vl : g[i] = Step(g[i - 1], i)
    <2>1. g[0] = vreg /\ \A i \in 1 .. vl : g[i] = F[<<g[i - 1], i>>]
      <3> HIDE DEF F
      <3>1. QED BY <1>5 DEF Stepwise
    <2>2. ASSUME NEW i \in 1 .. vl PROVE F[<<g[i - 1], i>>] = Step(g[i - 1], i)
      <3>1. g[i - 1] \in File BY <1>2
      <3> HIDE DEF Step
      <3>2. QED BY <3>1
    <2>3. QED BY <2>1, <2>2
  <1>7. Rec(g)
    <2>1. ASSUME NEW i \in 0 .. vl PROVE g[i] = Step(g[i - 1], i)
      <3>1. CASE i = 0 BY <1>2, <1>6, <3>1
      <3>2. CASE i # 0
        <4>1. i \in 1 .. vl BY <1>2, <3>2
        <4> HIDE DEF Step
        <4>2. QED BY <1>6, <4>1
      <3>3. QED BY <3>1, <3>2
    <2> HIDE DEF Step
    <2>2. QED BY <2>1
  <1>8. Rec(after)
    <2> HIDE DEF Rec
    <2>1. QED BY <1>7
  <1> HIDE DEF after, F
  <1>9. after[0] = vreg /\ \A i \in 1 .. vl : after[i] = Step(after[i - 1], i)
    <2>1. \A i \in 0 .. vl : after[i] = Step(after[i - 1], i)
      <3> HIDE DEF Step
      <3>1. QED BY <1>8
    <2>2. 0 \in 0 .. vl /\ 0 <= vstart BY <1>2
    <2>3. after[0] = vreg BY <2>1, <2>2
    <2> HIDE DEF Step
    <2>4. QED BY <1>2, <2>1, <2>3
  <1>10. \A i \in 0 .. vl : after[i] \in File
    <2>1. after[0] \in File BY <1>2, <1>9
    <2>2. \A i \in 1 .. vl : after[i - 1] \in File => after[i] \in File
      <3> HIDE DEF Step
      <3>1. QED BY <1>3, <1>9
    <2>3. QED BY <1>2, <2>1, <2>2, StaysIn
  <1>11. after \in [0 .. vl -> File]
    <2> HIDE DEF Step
    <2>1. QED BY <1>8, <1>10
  <1>12. Loop(op, vd, vs1, vs2, vm, after)
    <2>1. \A i \in 1 .. vl : i <= vstart => after[i] = vreg BY <1>9
    <2>2. \A i \in 1 .. vl : i > vstart => after[i] = Next(after[i - 1], i) BY <1>2, <1>9
    <2>3. QED BY <1>1, <1>9, <2>1, <2>2 DEF Loop, Next
  <1>13. QED BY <1>11, <1>12

(* After n elements: the active ones hold the results of the sources as    *)
(* they were, and nothing else has changed.                                *)
Width == vtype.sew \div 8

Within(b, r, i) == At(r, i, Width) <= b /\ b < At(r, i, Width) + Width

Result(op, vs1, vs2, i) == ElementOp(op, Elt(vreg, vs1, i, Width, 0), Elt(vreg, vs2, i, Width, 0))

Kept(file, vd, vm, n) ==
    \A b \in FileBytes :
        (\A i \in vstart .. n - 1 : Active(vreg, vm, i) => ~Within(b, vd, i)) => file[b] = vreg[b]

Written(file, op, vd, vs1, vs2, vm, n) ==
    \A i \in vstart .. n - 1 : Active(vreg, vm, i) =>
        \A k \in 1 .. Width : file[At(vd, i, Width) + k - 1] = Result(op, vs1, vs2, i)[k]

Checked(vd, vs1, vs2, vm) ==
    /\ Grouped(VLENB, GroupRegs(vtype.lmul8), Width)
    /\ \A r \in {vd, vs1, vs2} : r \in Regs /\ r % GroupRegs(vtype.lmul8) = 0
    /\ vm \/ vd # 0

(* An element finds its sources as they were before the instruction.       *)
LEMMA SourceKept ==
  ASSUME VectorTypeInv, NEW vd, NEW vs1, NEW vs2, NEW vm \in BOOLEAN, Checked(vd, vs1, vs2, vm),
         NEW n \in 0 .. vl - 1, NEW file \in File, Kept(file, vd, vm, n),
         NEW vs \in {vs1, vs2}
  PROVE  Elt(file, vs, n, Width, 0) = Elt(vreg, vs, n, Width, 0)
  <1> DEFINE g == GroupRegs(vtype.lmul8)
             w == Width
             a == At(vs, n, w)
  <1>1. Grouped(VLENB, g, w) /\ vd \in Regs /\ vd % g = 0 /\ vs \in Regs /\ vs % g = 0
    BY DEF Checked
  <1>2. vl \in Nat /\ vstart \in Nat BY DEF VectorTypeInv
  <1> HIDE DEF g
  <1>3. a \in Nat /\ \A k \in 1 .. w : a + k - 1 \in FileBytes BY <1>1, <1>2, ElementInFile
  <1>4. w \in {1, 2, 4, 8} BY <1>1 DEF Grouped
  <1>5. ASSUME NEW k \in 1 .. w PROVE file[a + k - 1] = vreg[a + k - 1]
    <2>1. ASSUME NEW i \in vstart .. n - 1 PROVE ~Within(a + k - 1, vd, i)
      <3>1. i \in 0 .. vl - 1 /\ i # n BY <1>2
      <3> DEFINE c == At(vd, i, w)
      <3>2. c \in Nat BY <1>1, <1>2, <3>1, ElementInFile
      <3>3. c + w <= a \/ a + w <= c BY <1>1, <1>2, <3>1, ElementsApart
      <3>4. Within(a + k - 1, vd, i) <=> c <= a + k - 1 /\ a + k - 1 < c + w BY DEF Within
      <3> HIDE DEF a, c, w
      <3>5. QED BY <1>3, <1>4, <3>2, <3>3, <3>4
    <2>2. a + k - 1 \in FileBytes BY <1>3
    <2> HIDE DEF a, w
    <2>3. QED BY <2>1, <2>2 DEF Kept
  <1> HIDE DEF w
  <1>6. Elt(file, vs, n, w, 0) = [k \in 1 .. w |-> file[a + k - 1]]
    BY <1>3 DEF Elt
  <1>7. Elt(vreg, vs, n, w, 0) = [k \in 1 .. w |-> vreg[a + k - 1]]
    BY <1>3 DEF Elt
  <1> HIDE DEF a
  <1>8. QED BY <1>5, <1>6, <1>7 DEF w

(* The mask bits of vl elements lie inside the file.                       *)
LEMMA MaskInFile ==
  ASSUME VectorTypeInv, NEW n \in 0 .. vl - 1
  PROVE  n \div 8 \in FileBytes
  <1> DEFINE g == GroupRegs(vtype.lmul8)
             w == Width
             room == g * VLENB
             size == NVPR * VLENB
  <1>1. Grouped(VLENB, g, w) BY Groups DEF Width
  <1>2. vl \in Nat BY DEF VectorTypeInv
  <1>3. VLENB \in Nat \ {0} /\ NVPR \in Nat \ {0} BY XperivAssumption
  <1>4. w \in {1, 2, 4, 8} /\ g \in {1, 2, 4, 8} /\ vl * w <= room /\ NVPR % g = 0
    BY <1>1 DEF Grouped
  <1> HIDE DEF g, w
  <1>5. room \in Nat /\ size \in Nat /\ room <= size
    <2>1. g <= NVPR BY <1>3, <1>4
    <2>2. QED BY <1>3, <1>4, <2>1
  <1>6. n < vl * w /\ vl * w \in Nat BY <1>2, <1>4
  <1> DEFINE used == vl * w
  <1> HIDE DEF room, size, used
  <1>7. n < size BY <1>2, <1>4, <1>5, <1>6 DEF used
  <1>8. n \div 8 \in 0 .. size - 1 BY <1>2, <1>5, <1>7
  <1>9. QED BY <1>8 DEF FileBytes, size

(* So with its mask bit: a masked instruction does not write v0.           *)
LEMMA MaskKept ==
  ASSUME VectorTypeInv, NEW vd, NEW vs1, NEW vs2, NEW vm \in BOOLEAN, Checked(vd, vs1, vs2, vm),
         NEW n \in 0 .. vl - 1, NEW file \in File, Kept(file, vd, vm, n), ~vm
  PROVE  MaskBit(file, n) = MaskBit(vreg, n)
  <1> DEFINE g == GroupRegs(vtype.lmul8)
             w == Width
             b == n \div 8
             room == g * VLENB
             vb == vd * VLENB
  <1>1. Grouped(VLENB, g, w) /\ vd \in Regs /\ vd % g = 0 /\ vd # 0
    BY DEF Checked
  <1>2. vl \in Nat /\ vstart \in Nat BY DEF VectorTypeInv
  <1>3. VLENB \in Nat \ {0} /\ NVPR \in Nat \ {0} BY XperivAssumption
  <1> HIDE DEF g
  <1>4. vd \in Nat /\ 0 < vd BY <1>1 DEF Regs
  <1>5. w \in {1, 2, 4, 8} /\ g \in {1, 2, 4, 8} /\ vl * w <= room BY <1>1 DEF Grouped
  <1>6. room \in Nat /\ vb \in Nat /\ room <= vb
    <2>1. 0 % g = 0 BY <1>5
    <2>2. 0 * VLENB + g * VLENB <= vd * VLENB BY <1>1, <1>4, <2>1, GroupsApart
    <2>3. 0 * VLENB = 0 /\ room \in Nat /\ vb \in Nat BY <1>3, <1>4, <1>5
    <2>4. QED BY <2>2, <2>3
  <1>7. b \in Nat /\ b < room
    <2>1. n < vl * w BY <1>2, <1>5
    <2>2. vl * w \in Nat BY <1>2, <1>5
    <2> HIDE DEF w, room
    <2>3. QED BY <1>2, <1>5, <1>6, <2>1, <2>2
  <1>8. b \in FileBytes
    <2>1. vb + room <= NVPR * VLENB BY <1>1, GroupFits
    <2>2. NVPR * VLENB \in Nat BY FileBytesAre
    <2> HIDE DEF b, room, vb
    <2>3. QED BY <1>6, <1>7, <2>1, <2>2 DEF FileBytes
  <1>9. ASSUME NEW i \in vstart .. n - 1 PROVE ~Within(b, vd, i)
    <2>1. i \in 0 .. vl - 1 BY <1>2
    <2>2. i * w \in Nat BY <1>5, <1>2, <2>1
    <2>3. At(vd, i, w) = vb + i * w BY DEF At
    <2> DEFINE off == i * w
    <2> HIDE DEF b, room, vb, off, w
    <2>4. At(vd, i, w) > b BY <1>6, <1>7, <2>2, <2>3 DEF off
    <2>5. At(vd, i, w) \in Nat BY <1>6, <2>2, <2>3
    <2>6. QED BY <1>7, <2>4, <2>5 DEF Within, w
  <1>10. file[b] = vreg[b]
    <2> HIDE DEF b
    <2>1. QED BY <1>8, <1>9 DEF Kept
  <1>11. QED BY <1>10 DEF MaskBit

(* One more element.                                                       *)
LEMMA ElementStepKeeps ==
  ASSUME VectorTypeInv, NEW op, NEW vd, NEW vs1, NEW vs2, NEW vm \in BOOLEAN,
         Checked(vd, vs1, vs2, vm), NEW n \in 0 .. vl - 1, n >= vstart, NEW file \in File,
         Kept(file, vd, vm, n), Written(file, op, vd, vs1, vs2, vm, n)
  PROVE  LET after == ElementStep(op, vd, vs1, vs2, vm, file, n + 1)
         IN  Kept(after, vd, vm, n + 1) /\ Written(after, op, vd, vs1, vs2, vm, n + 1)
  <1> DEFINE w == Width
             g == GroupRegs(vtype.lmul8)
             res == Result(op, vs1, vs2, n)
             a == At(vd, n, w)
             new == SetElt(file, vd, n, res)
             after == ElementStep(op, vd, vs1, vs2, vm, file, n + 1)
  <1>1. vl \in Nat /\ vstart \in Nat BY DEF VectorTypeInv
  <1>2. Grouped(VLENB, g, w) /\ vd \in Regs /\ vd % g = 0 BY DEF Checked
  <1>3. vd \in Nat BY <1>2 DEF Regs
  <1>4. Elt(file, vs1, n, w, 0) = Elt(vreg, vs1, n, w, 0) /\ Elt(file, vs2, n, w, 0) = Elt(vreg, vs2, n, w, 0)
    BY SourceKept
  <1>5. ~vm => MaskBit(file, n) = MaskBit(vreg, n) BY MaskKept
  <1>6. n + 1 - 1 = n BY <1>1
  <1>7. after = IF ~vm /\ MaskBit(vreg, n) = 0 THEN file ELSE new
    BY <1>4, <1>5, <1>6 DEF ElementStep, Result, Width
  <1>8. MaskBit(vreg, n) \in {0, 1} \/ vm
    <2>1. CASE vm BY <2>1
    <2>2. ASSUME ~vm PROVE MaskBit(vreg, n) \in {0, 1}
      <3>1. vreg[n \div 8] \in Nat
        <4>1. \A b \in FileBytes : vreg[b] \in Nat BY ByteIs DEF VectorTypeInv, File
        <4>2. n \div 8 \in FileBytes BY <2>2, <1>1, MaskInFile
        <4>3. QED BY <4>1, <4>2
      <3>2. 2^(n % 8) \in Nat \ {0}
        <4>1. n % 8 \in 0 .. 31 BY <1>1
        <4>2. QED BY <4>1, Powers
      <3> DEFINE x == vreg[n \div 8]
                 p == 2^(n % 8)
      <3> HIDE DEF x, p
      <3>3. (x \div p) % 2 \in {0, 1} BY <3>1, <3>2 DEF x, p
      <3>4. QED BY <3>3 DEF MaskBit, x, p
    <2>3. QED BY <2>1, <2>2
  <1>9. ~(~vm /\ MaskBit(vreg, n) = 0) <=> Active(vreg, vm, n)
    BY <1>8 DEF Active
  <1>10. \A i \in vstart .. n : i \in vstart .. n - 1 \/ i = n BY <1>1
  <1>11. n + 1 - 1 = n BY <1>1
  <1>12. CASE ~Active(vreg, vm, n)
    <2>1. after = file BY <1>7, <1>9, <1>12
    <2> HIDE DEF after
    <2>2. Kept(after, vd, vm, n + 1)
      <3>1. SUFFICES ASSUME NEW b \in FileBytes,
                           \A i \in vstart .. n : Active(vreg, vm, i) => ~Within(b, vd, i)
                    PROVE file[b] = vreg[b]
        BY <1>11, <2>1 DEF Kept
      <3>2. \A i \in vstart .. n - 1 : i \in vstart .. n BY <1>1
      <3>3. QED BY <3>1, <3>2 DEF Kept
    <2>3. Written(after, op, vd, vs1, vs2, vm, n + 1)
      BY <1>10, <1>11, <1>12, <2>1 DEF Written
    <2>4. QED BY <2>2, <2>3 DEF after
  <1>13. CASE Active(vreg, vm, n)
    <2>1. after = new BY <1>7, <1>9, <1>13
    <2>2. res \in [1 .. w -> Byte]
      <3>1. w \in Nat BY <1>2 DEF Grouped
      <3>2. vreg \in File /\ 0 \in Byte BY DEF VectorTypeInv, Byte
      <3> HIDE DEF w
      <3>3. QED BY <3>1, <3>2, EltType, ElementOpType DEF Result, w
    <2>3. w \in {1, 2, 4, 8} /\ a \in Nat /\ \A k \in 1 .. w : a + k - 1 \in FileBytes
      BY <1>1, <1>2, ElementInFile DEF Grouped
    <2>4. /\ \A b \in FileBytes : ~(a <= b /\ b < a + w) => new[b] = file[b]
          /\ \A k \in 1 .. w : new[a + k - 1] = res[k]
      <3>1. w \in Nat /\ n \in Nat BY <1>1, <2>3
      <3> HIDE DEF w, res
      <3> HIDE DEF new, after, a
      <3>2. ElementSet(file, new, a, w, res)
        BY <1>3, <2>2, <3>1, SetEltIs DEF new, a
      <3>3. QED BY <2>3, <3>2 DEF ElementSet
    <2> HIDE DEF after, new, res
    <2>5. Kept(after, vd, vm, n + 1)
      <3>1. SUFFICES ASSUME NEW b \in FileBytes,
                           \A i \in vstart .. n : Active(vreg, vm, i) => ~Within(b, vd, i)
                    PROVE new[b] = vreg[b]
        BY <1>11, <2>1 DEF Kept
      <3>2. \A i \in vstart .. n - 1 : i \in vstart .. n BY <1>1
      <3>3. file[b] = vreg[b] BY <3>1, <3>2 DEF Kept
      <3>4. n \in vstart .. n BY <1>1
      <3>5. ~Within(b, vd, n) BY <1>13, <3>1, <3>4
      <3>6. new[b] = file[b] BY <2>4, <3>5 DEF Within
      <3>7. QED BY <3>3, <3>6
    <2>6. Written(after, op, vd, vs1, vs2, vm, n + 1)
      <3>1. SUFFICES ASSUME NEW i \in vstart .. n, Active(vreg, vm, i), NEW k \in 1 .. w
                    PROVE new[At(vd, i, w) + k - 1] = Result(op, vs1, vs2, i)[k]
        BY <1>11, <2>1 DEF Written
      <3>2. CASE i = n BY <2>4, <3>2 DEF res
      <3>3. CASE i # n
        <4>1. i \in vstart .. n - 1 BY <1>1, <3>3
        <4>2. file[At(vd, i, w) + k - 1] = Result(op, vs1, vs2, i)[k] BY <3>1, <4>1 DEF Written
        <4> DEFINE c == At(vd, i, w)
        <4>3. i \in 0 .. vl - 1 BY <1>1, <4>1
        <4>4. c \in Nat /\ c + k - 1 \in FileBytes BY <1>1, <1>2, <4>3, ElementInFile
        <4>5. c + w <= a \/ a + w <= c BY <1>1, <1>2, <3>3, <4>3, ElementsApart
        <4> HIDE DEF c, a, w
        <4>6. ~(a <= c + k - 1 /\ c + k - 1 < a + w) BY <2>3, <4>4, <4>5
        <4>7. new[c + k - 1] = file[c + k - 1] BY <2>4, <4>4, <4>6
        <4>8. QED BY <4>2, <4>7 DEF c
      <3>4. QED BY <3>2, <3>3
    <2>7. QED BY <2>5, <2>6 DEF after
  <1>14. QED BY <1>12, <1>13

(* What VI_CHECK_SSS lets through satisfies all that is assumed above.     *)
LEMMA CheckedIs ==
  ASSUME VectorTypeInv, NEW vd \in Regs, NEW vs1 \in Regs, NEW vs2 \in Regs, NEW vm \in BOOLEAN,
         VI_CHECK_SSS(vd, vs1, vs2, vm)
  PROVE  Checked(vd, vs1, vs2, vm)
  <1> DEFINE l == vtype.lmul8
  <1>1. Grouped(VLENB, GroupRegs(l), Width) BY Groups DEF Width
  <1>2. l \in {1, 2, 4, 8, 16, 32, 64} BY VectorAssumption DEF VectorTypeInv
  <1>3. ASSUME NEW r \in {vd, vs1, vs2} PROVE r \in Regs /\ r % GroupRegs(l) = 0
    <2>1. r \in Regs /\ r \in Nat BY XperivAssumption DEF Regs
    <2>2. CASE l <= 8
      <3>1. GroupRegs(l) = 1 BY <2>2 DEF GroupRegs
      <3>2. r % 1 = 0 BY <2>1
      <3>3. QED BY <2>1, <3>1, <3>2
    <2>3. CASE l > 8
      <3>1. GroupRegs(l) = l \div 8 BY <1>2, <2>3 DEF GroupRegs
      <3>2. is_aligned(r, l \div 8) BY <2>3 DEF VI_CHECK_SSS
      <3>3. l \div 8 # 0 BY <1>2, <2>3
      <3>4. QED BY <2>1, <3>1, <3>2, <3>3 DEF is_aligned
    <2>4. QED BY <1>2, <2>2, <2>3
  <1>4. vm \/ vd # 0 BY DEF VI_CHECK_SSS, require_vm
  <1>5. QED BY <1>1, <1>3, <1>4 DEF Checked

(* By induction over the elements: the effect of the whole loop.           *)
LEMMA LoopEffect ==
  ASSUME VectorTypeInv, NEW op, NEW vd \in Regs, NEW vs1 \in Regs, NEW vs2 \in Regs,
         NEW vm \in BOOLEAN, VI_CHECK_SSS(vd, vs1, vs2, vm)
  PROVE  LET file == VI_LOOP(op, vd, vs1, vs2, vm)
         IN  file \in File /\ Kept(file, vd, vm, vl) /\ Written(file, op, vd, vs1, vs2, vm, vl)
  <1>1. vl \in Nat /\ vstart \in Nat /\ vreg \in File BY DEF VectorTypeInv
  <1>2. Checked(vd, vs1, vs2, vm) BY CheckedIs
  <1>3. vd \in Nat BY XperivAssumption DEF Regs
  <1>4. PICK after \in [0 .. vl -> File] : Loop(op, vd, vs1, vs2, vm, after)
    BY <1>3, LoopIs
  <1> DEFINE Good(n, file) == Kept(file, vd, vm, n) /\ Written(file, op, vd, vs1, vs2, vm, n)
             P == {n \in 0 .. vl : Good(n, after[n])}
  <1>5. \A n \in 0 .. vl : n <= vstart => Good(n, vreg)
    BY <1>1 DEF Kept, Written
  <1>6. 0 \in P
    <2>1. 0 \in 0 .. vl /\ 0 <= vstart BY <1>1
    <2>2. after[0] = vreg BY <1>4 DEF Loop
    <2> HIDE DEF Good
    <2>3. QED BY <1>5, <2>1, <2>2
  <1>7. ASSUME NEW n \in 1 .. vl, n - 1 \in P PROVE n \in P
    <2>1. CASE n <= vstart
      <3>1. after[n] = vreg BY <1>4, <2>1 DEF Loop
      <3>2. n \in 0 .. vl OBVIOUS
      <3> HIDE DEF Good
      <3>3. QED BY <1>5, <2>1, <3>1, <3>2
    <2>2. CASE n > vstart
      <3> DEFINE m == n - 1
      <3>1. m \in 0 .. vl - 1 /\ m >= vstart /\ m + 1 = n /\ m \in 0 .. vl /\ n \in 0 .. vl
        BY <1>1, <2>2
      <3>2. after[m] \in File BY <3>1
      <3>3. after[n] = ElementStep(op, vd, vs1, vs2, vm, after[m], n) BY <1>4, <2>2 DEF Loop
      <3>4. Kept(after[m], vd, vm, m) /\ Written(after[m], op, vd, vs1, vs2, vm, m) BY <1>7
      <3> HIDE DEF m
      <3>5. after[n] = ElementStep(op, vd, vs1, vs2, vm, after[m], m + 1) BY <3>1, <3>3
      <3>6. Good(m + 1, after[n]) BY <1>2, <3>1, <3>2, <3>4, <3>5, ElementStepKeeps
      <3> HIDE DEF Good
      <3>7. QED BY <3>1, <3>6
    <2>3. QED BY <1>1, <2>1, <2>2
  <1>8. vl \in P
    <2> HIDE DEF P
    <2>1. \A n \in 0 .. vl : n \in P BY <1>1, <1>6, <1>7, InductionUpTo
    <2>2. QED BY <1>1, <2>1
  <1>9. after[vl] \in File BY <1>1
  <1>10. VI_LOOP(op, vd, vs1, vs2, vm) = after[vl] BY <1>4 DEF Loop
  <1>11. QED BY <1>8, <1>9, <1>10

(* EXP, SOFTMAX and QUANT store bytes, wherever the destination lies.      *)
LEMMA StoreAllType ==
  ASSUME VectorTypeInv, NEW vd \in Nat, NEW words \in [1 .. vl -> Word]
  PROVE  StoreAll(vd, words) \in File
  <1> DEFINE base == vd * VLENB
  <1>1. base \in Nat BY XperivAssumption
  <1> HIDE DEF base
  <1>2. vl \in Nat /\ vreg \in File BY DEF VectorTypeInv
  <1>3. ASSUME NEW b \in FileBytes
        PROVE  (LET i == (b - base) \div 2
                IN  IF b >= base /\ i < vl THEN BytesOf(words[i + 1])[((b - base) % 2) + 1]
                    ELSE vreg[b]) \in Byte
    <2>1. vreg[b] \in Byte BY <1>2 DEF File
    <2>2. b \in Nat BY FileBytesAre
    <2> DEFINE i == (b - base) \div 2
               k == ((b - base) % 2) + 1
    <2>3. ASSUME b >= base, i < vl PROVE BytesOf(words[i + 1])[k] \in Byte
      <3>1. i + 1 \in 1 .. vl /\ k \in 1 .. 2 BY <1>1, <1>2, <2>2, <2>3
      <3> HIDE DEF i, k
      <3>2. words[i + 1] \in Word BY <3>1
      <3>3. BytesOf(words[i + 1]) \in [1 .. 2 -> Byte] BY <3>2, BytesOfType
      <3>4. QED BY <3>1, <3>3
    <2> HIDE DEF i, k
    <2>4. QED BY <2>1, <2>3 DEF i, k
  <1>4. QED BY <1>3 DEF StoreAll, File, base

(* Where the destination lies inside the file, its elements are the words. *)
LEMMA StoreAllIs ==
  ASSUME VectorTypeInv, NEW vd \in Nat, NEW words \in [1 .. vl -> Word],
         vd * VLENB + 2 * vl <= NVPR * VLENB
  PROVE  /\ \A i \in 0 .. vl - 1 :
               WordOf(Elt(StoreAll(vd, words), vd, i, 2, 0)) = words[i + 1]
         /\ \A b \in FileBytes \ Span(vd, 2, 0, vl) : StoreAll(vd, words)[b] = vreg[b]
  <1> DEFINE base == vd * VLENB
             size == NVPR * VLENB
             after == StoreAll(vd, words)
  <1>1. base \in Nat /\ size \in Nat BY XperivAssumption, FileBytesAre
  <1>2. vl \in Nat /\ vreg \in File BY DEF VectorTypeInv
  <1>3. base + 2 * vl <= size OBVIOUS
  <1>4. FileBytes = 0 .. size - 1 BY DEF FileBytes
  <1>5. \A b \in FileBytes :
            after[b] = IF b >= base /\ (b - base) \div 2 < vl
                       THEN BytesOf(words[((b - base) \div 2) + 1])[((b - base) % 2) + 1]
                       ELSE vreg[b]
    BY DEF StoreAll
  <1>6. ASSUME NEW i \in 0 .. vl - 1 PROVE WordOf(Elt(after, vd, i, 2, 0)) = words[i + 1]
    <2> DEFINE a == base + i * 2
               elt == Elt(after, vd, i, 2, 0)
               word == words[i + 1]
    <2>1. At(vd, i, 2) = a BY DEF At
    <2>2. a \in Nat /\ a \in FileBytes /\ a + 1 \in FileBytes
      BY <1>1, <1>2, <1>3, <1>4
    <2>3. elt[1] = after[a] /\ elt[2] = after[a + 1]
      <3> HIDE DEF after, a
      <3>1. a + 1 - 1 = a /\ a + 2 - 1 = a + 1 BY <2>2
      <3>2. QED BY <2>1, <2>2, <3>1 DEF Elt
    <2>4. /\ a >= base /\ (a - base) \div 2 = i /\ ((a - base) % 2) + 1 = 1
          /\ a + 1 >= base /\ ((a + 1) - base) \div 2 = i /\ (((a + 1) - base) % 2) + 1 = 2
      <3> HIDE DEF base
      <3>1. a - base = 2 * i /\ (a + 1) - base = 2 * i + 1 /\ i \in Nat BY <1>1, <1>2
      <3> HIDE DEF a
      <3>2. QED BY <1>1, <2>2, <3>1
    <2>5. i < vl BY <1>2
    <2> HIDE DEF a, after, base
    <2>6. after[a] = BytesOf(word)[1] /\ after[a + 1] = BytesOf(word)[2]
      <3>1. after[a] = BytesOf(words[i + 1])[1] BY <1>5, <2>2, <2>4, <2>5
      <3>2. after[a + 1] = BytesOf(words[i + 1])[2]
        <4> DEFINE c == a + 1
        <4>1. c \in FileBytes /\ c >= base /\ (c - base) \div 2 = i /\ ((c - base) % 2) + 1 = 2
          BY <2>2, <2>4
        <4> HIDE DEF c
        <4>2. after[c] = BytesOf(words[i + 1])[2] BY <1>5, <2>5, <4>1
        <4>3. QED BY <4>2 DEF c
      <3>3. QED BY <3>1, <3>2
    <2>7. word \in Word BY <1>2
    <2>8. BytesOf(word) = <<word % 256, word \div 256>> /\ WordOf(BytesOf(word)) = word
      BY <2>7, BytesOfType
    <2> HIDE DEF elt, word
    <2>9. WordOf(elt) = WordOf(BytesOf(word)) BY <2>3, <2>6 DEF WordOf
    <2>10. QED BY <2>8, <2>9 DEF elt, word
  <1>7. ASSUME NEW b \in FileBytes, b \notin Span(vd, 2, 0, vl) PROVE after[b] = vreg[b]
    <2>1. At(vd, 0, 2) = base /\ At(vd, vl, 2) = base + 2 * vl BY <1>1, <1>2 DEF At
    <2> HIDE DEF base, after
    <2>2. b \in Nat BY FileBytesAre
    <2>3. ~(b >= base /\ b < base + 2 * vl) BY <1>1, <1>2, <1>7, <2>1, <2>2 DEF Span
    <2>4. ~(b >= base /\ (b - base) \div 2 < vl) BY <1>1, <1>2, <2>2, <2>3
    <2>5. QED BY <1>5, <2>4
  <1>8. QED BY <1>6, <1>7

(* The in-place loop of EXP has a result for every pair of operands; an    *)
(* element that does not find a stored result is the exponential of its    *)
(* source.                                                                 *)
LEMMA ExpLoopIs ==
  ASSUME VectorTypeInv, NEW vd \in Nat, NEW vs1 \in Nat, NEW outside \in Byte
  PROVE  \E result \in [1 .. vl -> Word] :
            /\ ExpLoop(vd, vs1, outside) = StoreAll(vd, result)
            /\ \A i \in 1 .. vl : ~(vd > vs1 /\ i > (vd - vs1) * (VLENB \div 2))
                   => result[i] = bf16_expp(WordOf(Elt(vreg, vs1, i - 1, 2, outside)))
  <1> DEFINE ahead == (vd - vs1) * (VLENB \div 2)
             In(i) == WordOf(Elt(vreg, vs1, i - 1, 2, outside))
             Step(g, i) == bf16_expp(IF vd > vs1 /\ i > ahead THEN g[i - ahead] ELSE In(i))
             Rec(g) == g = [i \in 1 .. vl |-> Step(g, i)]
             result == CHOOSE g : Rec(g)
             first == [i \in 1 .. vl |-> bf16_expp(In(i))]
             f == [v \in Word |-> bf16_expp(v)]
             d == IF vd > vs1 THEN ahead ELSE vl + 1
  <1>1. ExpLoop(vd, vs1, outside) = StoreAll(vd, result) BY Zenon DEF ExpLoop
  <1>2. vl \in Nat /\ vreg \in File BY DEF VectorTypeInv
  <1>3. ahead \in Int /\ (vd > vs1 => ahead > 0)
    <2>1. VLENB \div 2 \in Nat \ {0}
      <3>1. VLENB \in Nat \ {0} /\ VLENB % 2 = 0 BY XperivAssumption, VectorAssumption
      <3>2. QED BY <3>1
    <2> DEFINE half == VLENB \div 2
    <2> HIDE DEF half
    <2>2. (vd - vs1) * half \in Int /\ (vd > vs1 => (vd - vs1) * half > 0) BY <2>1 DEF half
    <2>3. QED BY <2>2 DEF half
  <1> HIDE DEF ahead
  <1>4. \A i \in 1 .. vl : In(i) \in Word
    <2> SUFFICES ASSUME NEW i \in 1 .. vl PROVE In(i) \in Word
      OBVIOUS
    <2>1. Elt(vreg, vs1, i - 1, 2, outside) \in [1 .. 2 -> Byte] BY <1>2, EltType
    <2>2. QED BY <2>1, WordOfType
  <1> HIDE DEF In
  <1>5. first \in [1 .. vl -> Word] BY <1>4, ExppType
  <1>6. f \in [Word -> Word] BY ExppType
  <1>7. d \in Nat \ {0} BY <1>2, <1>3
  <1>8. PICK g \in [1 .. vl -> Word] : BackBy(g, vl, d, first, f)
    <2> HIDE DEF first, f, d
    <2>1. QED BY <1>2, <1>5, <1>6, <1>7, LookingBack
  <1>9. Rec(g)
    <2>1. ASSUME NEW i \in 1 .. vl PROVE g[i] = Step(g, i)
      <3>1. g[i] = IF i > d THEN f[g[i - d]] ELSE first[i]
        <4> HIDE DEF d, f, first
        <4>1. QED BY <1>8 DEF BackBy
      <3>2. i > d <=> vd > vs1 /\ i > ahead BY <1>2, <1>3
      <3>3. CASE vd > vs1 /\ i > ahead
        <4>1. d = ahead BY <3>3
        <4>2. i - ahead \in 1 .. vl BY <1>2, <1>3, <3>3
        <4>3. g[i - ahead] \in Word BY <4>2
        <4> HIDE DEF d
        <4>4. QED BY <3>1, <3>2, <3>3, <4>1, <4>3
      <3>4. CASE ~(vd > vs1 /\ i > ahead)
        <4> HIDE DEF d
        <4>1. QED BY <3>1, <3>2, <3>4
      <3>5. QED BY <3>3, <3>4
    <2> HIDE DEF Step
    <2>2. QED BY <2>1
  <1>10. Rec(result)
    <2> HIDE DEF Rec
    <2>1. QED BY <1>9
  <1> HIDE DEF result
  <1>11. \A i \in 1 .. vl : result[i] = Step(result, i)
    <2> HIDE DEF Step
    <2>1. QED BY <1>10
  <1>12. ASSUME NEW i \in 1 .. vl, ~(vd > vs1 /\ i > ahead) PROVE result[i] = bf16_expp(In(i))
    BY <1>11, <1>12
  <1>13. result \in [1 .. vl -> Word]
    <2> DEFINE Typed == {m \in 0 .. vl : \A j \in 1 .. m : result[j] \in Word}
    <2>1. 0 \in Typed BY <1>2
    <2>2. ASSUME NEW m \in 1 .. vl, m - 1 \in Typed PROVE m \in Typed
      <3>1. result[m] \in Word
        <4>1. CASE vd > vs1 /\ m > ahead
          <5>1. m - ahead \in 1 .. m - 1 BY <1>2, <1>3, <4>1
          <5>2. result[m - ahead] \in Word BY <2>2, <5>1
          <5>3. result[m] = bf16_expp(result[m - ahead]) BY <1>11, <4>1
          <5>4. QED BY <5>2, <5>3, ExppType
        <4>2. CASE ~(vd > vs1 /\ m > ahead)
          <5>1. In(m) \in Word BY <1>4
          <5>2. QED BY <1>12, <4>2, <5>1, ExppType
        <4>3. QED BY <4>1, <4>2
      <3>2. \A j \in 1 .. m : j \in 1 .. m - 1 \/ j = m OBVIOUS
      <3>3. QED BY <2>2, <3>1, <3>2
    <2>3. \A m \in 0 .. vl : m \in Typed
      <3> HIDE DEF Typed
      <3>1. QED BY <1>2, <2>1, <2>2, InductionUpTo
    <2>4. \A j \in 1 .. vl : result[j] \in Word BY <1>2, <2>3
    <2>5. QED BY <1>10, <2>4
  <1>14. QED BY <1>1, <1>12, <1>13 DEF ahead, In

(* A trap leaves the configuration alone. *)
Unconfigured == vtype' = vtype /\ vl' = vl /\ vstart' = vstart

(* A stored file of bytes keeps the type invariant.                        *)
LEMMA StoreKeepsTypes ==
  ASSUME VectorTypeInv, NEW op, NEW vd, NEW vs1, NEW file, file \in File,
         Store(op, vd, vs1, file), count' \in Nat
  PROVE  VectorTypeInv'
  BY DEF Store, VectorTypeInv, File, Byte, FileBytes

(* The inputs of SOFTMAX and QUANT are words.                              *)
LEMMA InputsType ==
  ASSUME VectorTypeInv, NEW vs1, NEW outside \in Byte
  PROVE  Inputs(vs1, outside) \in [1 .. vl -> Word]
  <1> DEFINE In(i) == WordOf(Elt(vreg, vs1, i - 1, 2, outside))
             f == [i \in 1 .. vl |-> In(i)]
  <1>1. vl \in Nat /\ vreg \in File BY DEF VectorTypeInv
  <1>2. ASSUME NEW i \in 1 .. vl PROVE In(i) \in Word
    <2>1. Elt(vreg, vs1, i - 1, 2, outside) \in [1 .. 2 -> Byte] BY <1>1, EltType
    <2>2. QED BY <2>1, WordOfType
  <1>3. Inputs(vs1, outside) = Evaluated(f) BY DEF Inputs
  <1> HIDE DEF In
  <1>4. f \in [1 .. vl -> Word] BY <1>2
  <1> HIDE DEF f
  <1>5. Evaluated(f) = f BY <1>1, <1>4, EvaluatedIs
  <1>6. QED BY <1>3, <1>4, <1>5

(* Every instruction keeps the type invariant.                             *)
LEMMA OperationKeepsTypes ==
  ASSUME VectorTypeInv, Operation, count' \in Nat
  PROVE  VectorTypeInv'
  <1>1. vl \in Nat /\ vreg \in File BY DEF VectorTypeInv
  <1>2. \A x \in Outside : x \in Byte BY XperivAssumption DEF Byte
  <1>3. \A r \in Regs : r \in Nat BY XperivAssumption DEF Regs
  <1>4. ASSUME NEW op, NEW vd \in Regs, NEW vs1 \in Regs, NEW vs2 \in Regs, NEW vm \in BOOLEAN,
               VI_VV_LOOP(op, vd, vs1, vs2, vm)
        PROVE  VectorTypeInv'
    <2>1. CASE VI_CHECK_SSS(vd, vs1, vs2, vm) /\ require_vector
      <3>1. VI_LOOP(op, vd, vs1, vs2, vm) \in File BY <2>1, LoopEffect
      <3>2. vreg' \in File /\ vstart' = 0 /\ vtype' = vtype /\ vl' = vl
        BY <1>4, <2>1, <3>1 DEF VI_VV_LOOP
      <3>3. QED BY <3>2 DEF VectorTypeInv, File, FileBytes, Byte
    <2>2. CASE ~(VI_CHECK_SSS(vd, vs1, vs2, vm) /\ require_vector)
      <3>1. vreg' = vreg /\ Unconfigured BY <1>4, <2>2 DEF VI_VV_LOOP, Trap, Unconfigured
      <3>2. QED BY <3>1 DEF VectorTypeInv, File, FileBytes, Byte, Unconfigured
    <2>3. QED BY <2>1, <2>2
  <1>5. ASSUME NEW vd \in Regs, NEW vs1 \in Regs, exp_impl(vd, vs1) PROVE VectorTypeInv'
    <2>1. CASE Trap("exp", vd, vs1, 0, TRUE)
      <3>1. vreg' = vreg /\ Unconfigured BY <2>1 DEF Trap, Unconfigured
      <3>2. QED BY <3>1 DEF VectorTypeInv, File, FileBytes, Byte, Unconfigured
    <2>2. ASSUME NEW outside \in Outside, Store("exp", vd, vs1, ExpLoop(vd, vs1, outside))
          PROVE  VectorTypeInv'
      <3>1. PICK result \in [1 .. vl -> Word] : ExpLoop(vd, vs1, outside) = StoreAll(vd, result)
        BY <1>2, <1>3, ExpLoopIs
      <3>2. ExpLoop(vd, vs1, outside) \in File BY <1>3, <3>1, StoreAllType
      <3>3. QED BY <2>2, <3>2, StoreKeepsTypes
    <2>3. QED BY <1>5, <2>1, <2>2 DEF exp_impl
  <1>6. ASSUME NEW vd \in Regs, NEW vs1 \in Regs, softmax_impl(vd, vs1) PROVE VectorTypeInv'
    <2>1. PICK outside \in Outside, ub \in ShiftOutcomes :
              Store("softmax", vd, vs1,
                    IF vl = 0 THEN vreg
                    ELSE StoreAll(vd, process(<<Inputs(vs1, outside)>>, ub).final_output[1]))
      BY <1>6 DEF softmax_impl
    <2> DEFINE words == process(<<Inputs(vs1, outside)>>, ub).final_output[1]
               file == IF vl = 0 THEN vreg ELSE StoreAll(vd, words)
    <2>2. ASSUME vl # 0 PROVE words \in [1 .. vl -> Word]
      BY <1>1, <1>2, <2>2, InputsType, SoftmaxType
    <2> HIDE DEF words
    <2>3. file \in File BY <1>1, <1>3, <2>2, StoreAllType
    <2>4. Store("softmax", vd, vs1, file) BY <2>1 DEF words
    <2> HIDE DEF file
    <2>5. QED BY <2>3, <2>4, StoreKeepsTypes
  <1>7. ASSUME NEW vd \in Regs, NEW vs1 \in Regs, quant_impl(vd, vs1) PROVE VectorTypeInv'
    <2>1. PICK outside \in Outside :
              Store("quant", vd, vs1,
                    IF vl = 0 THEN vreg
                    ELSE StoreAll(vd, Quant!quantize(Inputs(vs1, outside)).act))
      BY <1>7 DEF quant_impl
    <2> DEFINE words == Quant!quantize(Inputs(vs1, outside)).act
               file == IF vl = 0 THEN vreg ELSE StoreAll(vd, words)
    <2>2. ASSUME vl # 0 PROVE words \in [1 .. vl -> Word]
      <3>1. words \in [1 .. vl -> 0 .. 255] BY <1>1, <1>2, <2>2, InputsType, QuantType
      <3>2. \A x \in 0 .. 255 : x \in Word BY DEF Word
      <3> HIDE DEF words
      <3>3. QED BY <3>1, <3>2
    <2> HIDE DEF words
    <2>3. file \in File BY <1>1, <1>3, <2>2, StoreAllType
    <2>4. Store("quant", vd, vs1, file) BY <2>1 DEF words
    <2> HIDE DEF file
    <2>5. QED BY <2>3, <2>4, StoreKeepsTypes
  <1>8. QED BY <1>4, <1>5, <1>6, <1>7 DEF Operation, peri_v_add_impl, peri_v_mul_impl

(* vsetvli and the writes of vstart and mstatus keep it.                   *)
LEMMA ConfigurationKeepsTypes ==
  ASSUME VectorTypeInv, Configuration, count' \in Nat
  PROVE  VectorTypeInv'
  <1>1. CASE csrs_mstatus
    BY <1>1 DEF csrs_mstatus, VectorTypeInv, File, FileBytes, Byte
  <1>2. CASE write_vstart(1)
    BY <1>2 DEF write_vstart, VectorTypeInv, File, FileBytes, Byte
  <1>3. ASSUME NEW sew \in Sews, NEW lmul8 \in Lmuls, NEW n \in Avls, vsetvli(n, sew, lmul8)
        PROVE  VectorTypeInv'
    <2> DEFINE max == VLMAX(sew, lmul8)
               room == VLENB * lmul8
    <2>1. sew \in {8, 16, 32, 64} /\ lmul8 \in Nat /\ n \in Nat BY VectorAssumption
    <2>2. room \in Nat BY <2>1, XperivAssumption
    <2>3. max = room \div sew BY DEF VLMAX
    <2> HIDE DEF room, max
    <2>4. max \in Nat /\ \A m \in Nat : m <= max => m * sew <= room BY <2>1, <2>2, <2>3
    <2>5. vl' \in Nat /\ vl' <= max
      <3>1. vl' \in {0, n, max} /\ (vl' = n => n < max \/ n = 0 \/ n = max)
        BY <1>3 DEF vsetvli, max
      <3>2. QED BY <2>1, <2>4, <3>1
    <2>6. vreg' = vreg /\ vstart' = 0 /\ vtype'.sew = sew /\ vtype'.lmul8 = lmul8
      BY <1>3 DEF vsetvli
    <2>7. vl' * vtype'.sew <= VLENB * vtype'.lmul8 BY <2>4, <2>5, <2>6 DEF room
    <2>8. QED BY <2>1, <2>5, <2>6, <2>7 DEF VectorTypeInv, File, FileBytes, Byte
  <1>4. QED BY <1>1, <1>2, <1>3 DEF Configuration

(* xperiv.cc and vsetvli, for any size of the vector unit, any files and   *)
(* any outcome of an over-wide shift: whatever the instructions compute,   *)
(* NaN and garbage behind the file included, the registers hold bytes, and *)
(* vl elements of the configured width fit into a group.                   *)
THEOREM VectorTypes == VectorSpec => []VectorTypeInv
  <1>1. VectorInit => VectorTypeInv
    <2> SUFFICES ASSUME VectorInit, NEW file \in Files, Reset(file) PROVE VectorTypeInv
      BY DEF VectorInit
    <2>1. vreg \in File BY VectorAssumption DEF Reset, File, Byte
    <2>2. vl * 8 <= VLENB * 8 BY XperivAssumption DEF Reset
    <2>3. count = 0 BY DEF VectorInit
    <2>4. QED BY <2>1, <2>2, <2>3 DEF Reset, VectorTypeInv
  <1>2. VectorTypeInv /\ [VectorNext]_benchVars => VectorTypeInv'
    <2> SUFFICES ASSUME VectorTypeInv, [VectorNext]_benchVars PROVE VectorTypeInv'
      OBVIOUS
    <2>1. count' \in Nat BY DEF VectorTypeInv, VectorNext, benchVars
    <2>2. CASE Operation BY <2>1, <2>2, OperationKeepsTypes
    <2>3. CASE Configuration BY <2>1, <2>3, ConfigurationKeepsTypes
    <2>4. CASE UNCHANGED benchVars
      BY <2>4 DEF benchVars, vectorVars, VectorTypeInv, File, FileBytes, Byte
    <2>5. QED BY <2>2, <2>3, <2>4 DEF VectorNext
  <1>3. QED BY <1>1, <1>2, PTL DEF VectorSpec

(* What a program sees of the loop. *)
LEMMA LoopResult ==
  ASSUME VectorTypeInv, NEW op \in {"add", "mul"}, NEW vd \in Regs, NEW vs1 \in Regs,
         NEW vs2 \in Regs, NEW vm \in BOOLEAN, VI_CHECK_SSS(vd, vs1, vs2, vm),
         NEW file, file = VI_LOOP(op, vd, vs1, vs2, vm)
  PROVE  LET w == vtype.sew \div 8
             active == {i \in vstart .. vl - 1 : vm \/ MaskBit(vreg, i) = 1}
             old(reg, i) == Elt(vreg, reg, i, w, 0)
         IN  /\ \A i \in active :
                   Elt(file, vd, i, w, 0) = Wanted(op, old(vs1, i), old(vs2, i))
             /\ \A b \in DOMAIN vreg :
                   (\A i \in active : b \notin Span(vd, w, i, i + 1)) => file[b] = vreg[b]
  <1> DEFINE g == GroupRegs(vtype.lmul8)
             active == {i \in vstart .. vl - 1 : vm \/ MaskBit(vreg, i) = 1}
  <1>1. vl \in Nat /\ vstart \in Nat /\ vreg \in File BY DEF VectorTypeInv
  <1>2. Grouped(VLENB, g, Width) /\ vd % g = 0 BY CheckedIs DEF Checked
  <1>3. Width \in {1, 2, 4, 8} BY <1>2 DEF Grouped
  <1>4. Kept(file, vd, vm, vl) /\ Written(file, op, vd, vs1, vs2, vm, vl) BY LoopEffect
  <1>5. \A i \in vstart .. vl - 1 : i \in active <=> Active(vreg, vm, i) BY DEF Active
  <1> HIDE DEF g
  <1>6. ASSUME NEW i \in active
        PROVE  Elt(file, vd, i, Width, 0)
                   = Wanted(op, Elt(vreg, vs1, i, Width, 0), Elt(vreg, vs2, i, Width, 0))
    <2> DEFINE a == At(vd, i, Width)
               res == Result(op, vs1, vs2, i)
    <2>1. i \in vstart .. vl - 1 /\ i \in 0 .. vl - 1 /\ Active(vreg, vm, i) BY <1>1, <1>5
    <2>2. \A k \in 1 .. Width : file[a + k - 1] = res[k] BY <1>4, <2>1 DEF Written
    <2>3. \A k \in 1 .. Width : a + k - 1 \in FileBytes BY <1>1, <1>2, <2>1, ElementInFile
    <2>4. Width \in Nat /\ 0 \in Byte BY <1>3 DEF Byte
    <2>5. /\ Elt(vreg, vs1, i, Width, 0) \in [1 .. Width -> Byte]
          /\ Elt(vreg, vs2, i, Width, 0) \in [1 .. Width -> Byte]
      BY <1>1, <2>4, EltType
    <2>6. res = Wanted(op, Elt(vreg, vs1, i, Width, 0), Elt(vreg, vs2, i, Width, 0))
      BY <1>3, <2>5, WantedIs DEF Result
    <2>7. res \in [1 .. Width -> Byte] BY <2>4, <2>5, ElementOpType DEF Result
    <2>8. Elt(file, vd, i, Width, 0) = [k \in 1 .. Width |-> file[a + k - 1]]
      BY <2>3 DEF Elt
    <2> HIDE DEF a, res
    <2>9. QED BY <2>2, <2>6, <2>7, <2>8
  <1>7. ASSUME NEW b \in FileBytes, \A i \in active : b \notin Span(vd, Width, i, i + 1)
        PROVE  file[b] = vreg[b]
    <2>1. ASSUME NEW i \in vstart .. vl - 1, Active(vreg, vm, i) PROVE ~Within(b, vd, i)
      <3> DEFINE base == vd * VLENB
                 off == i * Width
      <3>1. i \in active /\ i \in Nat BY <1>1, <1>5, <2>1
      <3>2. base \in Nat BY <1>2, GroupFits
      <3>3. off \in Nat /\ (i + 1) * Width = off + Width BY <1>3, <3>1
      <3>4. At(vd, i, Width) = base + off /\ At(vd, i + 1, Width) = base + (i + 1) * Width BY DEF At
      <3>5. b \notin Span(vd, Width, i, i + 1) BY <1>7, <3>1
      <3>6. b \in Nat BY FileBytesAre
      <3> HIDE DEF base, off, active
      <3>7. At(vd, i + 1, Width) = At(vd, i, Width) + Width /\ At(vd, i, Width) \in Nat
        BY <1>3, <3>2, <3>3, <3>4
      <3>8. QED BY <1>3, <3>5, <3>6, <3>7 DEF Span, Within
    <2>2. QED BY <1>4, <2>1 DEF Kept
  <1>8. DOMAIN vreg = FileBytes BY <1>1 DEF File
  <1>9. QED BY <1>6, <1>7, <1>8 DEF Width

(* A trap is recorded as one.                                              *)
LEMMA TrapIs ==
  ASSUME NEW op, NEW vd, NEW vs1, NEW vs2, NEW vm, Trap(op, vd, vs1, vs2, vm)
  PROVE  insn'.op = op /\ insn'.trapped = TRUE
  BY DEF Trap, Ran

(* EXP, SOFTMAX and QUANT record their operands.                           *)
LEMMA StoreIs ==
  ASSUME NEW op, NEW vd, NEW vs1, NEW file, Store(op, vd, vs1, file)
  PROVE  /\ insn'.op = op /\ insn'.trapped = FALSE /\ insn'.vd = vd /\ insn'.vs1 = vs1
         /\ vreg' = file
         /\ insn'.outside => Reaches(vd) \/ Reaches(vs1)
  BY DEF Store, Ran

(* PERI_V_ADD or PERI_V_MUL was let through and ran its loop. *)
VvRan(op, vd, vs1, vs2, vm) ==
    /\ VI_CHECK_SSS(vd, vs1, vs2, vm)
    /\ vreg' = VI_LOOP(op, vd, vs1, vs2, vm)
    /\ insn' = Ran(op, vd, vs1, vs2, vm, FALSE)

(* An instruction that ran to its end was one of these.                    *)
LEMMA RanIs ==
  ASSUME Operation, ~insn'.trapped
  PROVE  \/ \E op \in {"add", "mul"}, vd, vs1, vs2 \in Regs, vm \in BOOLEAN :
               VvRan(op, vd, vs1, vs2, vm)
         \/ \E vd, vs1 \in Regs, outside \in Outside :
               Store("exp", vd, vs1, ExpLoop(vd, vs1, outside))
         \/ insn'.op \in {"softmax", "quant"}
  <1>1. ASSUME NEW op \in {"add", "mul"}, NEW vd \in Regs, NEW vs1 \in Regs, NEW vs2 \in Regs,
               NEW vm \in BOOLEAN, VI_VV_LOOP(op, vd, vs1, vs2, vm)
        PROVE  VvRan(op, vd, vs1, vs2, vm)
    <2>1. ~Trap(op, vd, vs1, vs2, vm) BY TrapIs
    <2>2. QED BY <1>1, <2>1 DEF VI_VV_LOOP, VvRan
  <1>2. ASSUME NEW vd \in Regs, NEW vs1 \in Regs, exp_impl(vd, vs1)
        PROVE  \E outside \in Outside : Store("exp", vd, vs1, ExpLoop(vd, vs1, outside))
    <2>1. ~Trap("exp", vd, vs1, 0, TRUE) BY TrapIs
    <2>2. QED BY <1>2, <2>1 DEF exp_impl
  <1>3. ASSUME NEW vd \in Regs, NEW vs1 \in Regs, softmax_impl(vd, vs1) \/ quant_impl(vd, vs1)
        PROVE  insn'.op \in {"softmax", "quant"}
    BY <1>3, StoreIs DEF softmax_impl, quant_impl
  <1>4. CASE \E vd, vs1, vs2 \in Regs, vm \in BOOLEAN : peri_v_add_impl(vd, vs1, vs2, vm)
    <2>1. PICK vd \in Regs, vs1 \in Regs, vs2 \in Regs, vm \in BOOLEAN : VI_VV_LOOP("add", vd, vs1, vs2, vm)
      BY <1>4 DEF peri_v_add_impl
    <2>2. VvRan("add", vd, vs1, vs2, vm) BY <1>1, <2>1
    <2>3. QED BY <2>2
  <1>5. CASE \E vd, vs1, vs2 \in Regs, vm \in BOOLEAN : peri_v_mul_impl(vd, vs1, vs2, vm)
    <2>1. PICK vd \in Regs, vs1 \in Regs, vs2 \in Regs, vm \in BOOLEAN : VI_VV_LOOP("mul", vd, vs1, vs2, vm)
      BY <1>5 DEF peri_v_mul_impl
    <2>2. VvRan("mul", vd, vs1, vs2, vm) BY <1>1, <2>1
    <2>3. QED BY <2>2
  <1>6. CASE \E vd, vs1 \in Regs : exp_impl(vd, vs1)
    BY <1>2, <1>6
  <1>7. CASE \E vd, vs1 \in Regs : softmax_impl(vd, vs1) \/ quant_impl(vd, vs1)
    BY <1>3, <1>7
  <1>8. QED BY <1>4, <1>5, <1>6, <1>7 DEF Operation

(* PERI_V_ADD and PERI_V_MUL, for any size of the vector unit, any         *)
(* operands and any mask: every active element becomes the sum or product  *)
(* of what the sources and v0 held before the instruction, and every other *)
(* byte keeps its value.                                                   *)
THEOREM VvSources == VectorSpec => VvFromOldValues
  <1> DEFINE Asked ==
         Completed({"add", "mul"}) =>
           LET w == vtype.sew \div 8
               active == {i \in vstart .. vl - 1 : insn'.vm \/ MaskBit(vreg, i) = 1}
               old(reg, i) == Elt(vreg, reg, i, w, 0)
           IN  /\ \A i \in active :
                     Elt(vreg', insn'.vd, i, w, 0)
                         = Wanted(insn'.op, old(insn'.vs1, i), old(insn'.vs2, i))
               /\ \A b \in DOMAIN vreg :
                     (\A i \in active : b \notin Span(insn'.vd, w, i, i + 1)) => vreg'[b] = vreg[b]
  <1>1. ASSUME VectorTypeInv, [VectorNext]_benchVars PROVE Asked
    <2> SUFFICES ASSUME Completed({"add", "mul"}) PROVE Asked
      OBVIOUS
    <2>1. count' # count BY DEF Completed, VectorTypeInv
    <2>2. Operation BY <1>1, <2>1 DEF VectorNext, benchVars
    <2>3. insn'.op \in {"add", "mul"} /\ ~insn'.trapped BY DEF Completed
    <2>4. PICK op \in {"add", "mul"}, vd \in Regs, vs1 \in Regs, vs2 \in Regs, vm \in BOOLEAN :
              VvRan(op, vd, vs1, vs2, vm)
      <3>1. insn'.op # "exp" /\ insn'.op \notin {"softmax", "quant"} BY <2>3
      <3>2. QED BY <2>2, <2>3, <3>1, RanIs, StoreIs
    <2>5. VI_CHECK_SSS(vd, vs1, vs2, vm) /\ vreg' = VI_LOOP(op, vd, vs1, vs2, vm)
      BY <2>4 DEF VvRan
    <2>6. insn'.op = op /\ insn'.vd = vd /\ insn'.vs1 = vs1 /\ insn'.vs2 = vs2 /\ insn'.vm = vm
      BY <2>4 DEF VvRan, Ran
    <2>7. PICK file : file = vreg' OBVIOUS
    <2>8. file = VI_LOOP(op, vd, vs1, vs2, vm) BY <2>5, <2>7
    <2>9. LET w == vtype.sew \div 8
              active == {i \in vstart .. vl - 1 : vm \/ MaskBit(vreg, i) = 1}
              old(reg, i) == Elt(vreg, reg, i, w, 0)
          IN  /\ \A i \in active :
                    Elt(file, vd, i, w, 0) = Wanted(op, old(vs1, i), old(vs2, i))
              /\ \A b \in DOMAIN vreg :
                    (\A i \in active : b \notin Span(vd, w, i, i + 1)) => file[b] = vreg[b]
      BY <1>1, <2>5, <2>8, LoopResult
    <2>10. QED BY <2>6, <2>7, <2>9
  <1>2. QED BY <1>1, VectorTypes, PTL DEF VectorSpec, VvFromOldValues

(* A group that is aligned has room for vl elements of 16 bits, and EXP    *)
(* never reads what it has written: a destination above the source starts  *)
(* behind the group.                                                       *)
LEMMA HalfwordsFit ==
  ASSUME VectorTypeInv, vtype.sew >= 16, NEW r \in Regs, r % GroupRegs(vtype.lmul8) = 0
  PROVE  /\ r * VLENB + 2 * vl <= NVPR * VLENB /\ ~Reaches(r)
         /\ \A q \in Regs : q > r /\ q % GroupRegs(vtype.lmul8) = 0
                => vl <= (q - r) * (VLENB \div 2)
  <1> DEFINE g == GroupRegs(vtype.lmul8)
             w == vtype.sew \div 8
             base == r * VLENB
             room == g * VLENB
             size == NVPR * VLENB
  <1>1. Grouped(VLENB, g, w) BY Groups
  <1>2. vl \in Nat /\ w \in {2, 4, 8} BY DEF VectorTypeInv
  <1>3. VLENB \in Nat \ {0} /\ VLENB % 2 = 0 BY XperivAssumption, VectorAssumption
  <1> HIDE DEF g, w
  <1>4. base \in Nat /\ room \in Nat /\ base + room <= size BY <1>1, GroupFits DEF g
  <1>5. 2 * vl <= room
    <2>1. vl * w <= room BY <1>1 DEF Grouped
    <2>2. 2 * vl <= vl * w BY <1>2
    <2>3. vl * w \in Nat BY <1>2
    <2> HIDE DEF room
    <2>4. QED BY <1>2, <1>4, <2>1, <2>2, <2>3
  <1>6. size \in Nat BY FileBytesAre
  <1>7. base + 2 * vl <= size
    <2> HIDE DEF base, room, size
    <2>1. QED BY <1>2, <1>4, <1>5, <1>6
  <1>8. ~Reaches(r)
    <2>1. At(r, vl, 2) = base + vl * 2 BY DEF At
    <2> HIDE DEF base, size
    <2>2. ~(At(r, vl, 2) > size) BY <1>2, <1>4, <1>6, <1>7, <2>1
    <2>3. QED BY <2>2 DEF Reaches, size
  <1>9. ASSUME NEW q \in Regs, q > r, q % g = 0 PROVE vl <= (q - r) * (VLENB \div 2)
    <2> DEFINE half == VLENB \div 2
    <2>1. r \in Nat /\ q \in Nat BY XperivAssumption DEF Regs
    <2>2. g \in {1, 2, 4, 8} BY <1>1 DEF Grouped
    <2>3. r % g = 0 BY DEF g
    <2>4. q - r >= g BY <1>9, <2>1, <2>2, <2>3
    <2>5. VLENB = 2 * half /\ half \in Nat BY <1>3
    <2> HIDE DEF half
    <2>6. room = 2 * (g * half) BY <2>2, <2>5
    <2>7. g * half <= (q - r) * half BY <2>1, <2>2, <2>4, <2>5
    <2>8. g * half \in Int /\ (q - r) * half \in Int BY <2>1, <2>2, <2>5
    <2> DEFINE x == g * half
               y == (q - r) * half
    <2> HIDE DEF x, y, room
    <2>9. vl <= y BY <1>2, <1>5, <2>6, <2>7, <2>8 DEF x, y
    <2>10. QED BY <2>9 DEF y, half
  <1>10. QED BY <1>7, <1>8, <1>9 DEF g

(* What a program sees of EXP. *)
LEMMA ExpResult ==
  ASSUME VectorTypeInv, vtype.sew >= 16, NEW vd \in Regs, NEW vs1 \in Regs,
         vd % GroupRegs(vtype.lmul8) = 0, vs1 % GroupRegs(vtype.lmul8) = 0,
         NEW outside \in Outside, NEW file, file = ExpLoop(vd, vs1, outside)
  PROVE  /\ \A i \in 0 .. vl - 1 :
               WordOf(Elt(file, vd, i, 2, 0)) = bf16_expp(WordOf(Elt(vreg, vs1, i, 2, 0)))
         /\ \A b \in DOMAIN vreg \ Span(vd, 2, 0, vl) : file[b] = vreg[b]
  <1>1. vl \in Nat /\ vreg \in File BY DEF VectorTypeInv
  <1>2. vd \in Nat /\ vs1 \in Nat BY XperivAssumption DEF Regs
  <1>3. outside \in Byte BY XperivAssumption DEF Byte
  <1>4. PICK result \in [1 .. vl -> Word] :
            /\ ExpLoop(vd, vs1, outside) = StoreAll(vd, result)
            /\ \A i \in 1 .. vl : ~(vd > vs1 /\ i > (vd - vs1) * (VLENB \div 2))
                   => result[i] = bf16_expp(WordOf(Elt(vreg, vs1, i - 1, 2, outside)))
    BY <1>2, <1>3, ExpLoopIs
  <1>5. vd * VLENB + 2 * vl <= NVPR * VLENB BY HalfwordsFit
  <1>6. /\ \A i \in 0 .. vl - 1 : WordOf(Elt(file, vd, i, 2, 0)) = result[i + 1]
        /\ \A b \in FileBytes \ Span(vd, 2, 0, vl) : file[b] = vreg[b]
    <2>1. file = StoreAll(vd, result) BY <1>4
    <2>2. QED BY <1>2, <1>5, <2>1, StoreAllIs
  <1>7. ASSUME NEW i \in 0 .. vl - 1
        PROVE  result[i + 1] = bf16_expp(WordOf(Elt(vreg, vs1, i, 2, 0)))
    <2> DEFINE ahead == (vd - vs1) * (VLENB \div 2)
    <2>1. vd > vs1 => vl <= ahead BY HalfwordsFit
    <2>2. VLENB \div 2 \in Int BY XperivAssumption
    <2>3. ahead \in Int BY <1>2, <2>2
    <2>4. i + 1 \in 1 .. vl /\ i + 1 - 1 = i BY <1>1
    <2> HIDE DEF ahead
    <2>5. ~(vd > vs1 /\ i + 1 > ahead) BY <1>1, <2>1, <2>3, <2>4
    <2>6. result[i + 1] = bf16_expp(WordOf(Elt(vreg, vs1, i, 2, outside)))
      BY <1>4, <2>4, <2>5 DEF ahead
    <2>7. Elt(vreg, vs1, i, 2, outside) = Elt(vreg, vs1, i, 2, 0)
      <3> DEFINE base == vs1 * VLENB
                 size == NVPR * VLENB
      <3>1. base + 2 * vl <= size BY HalfwordsFit
      <3>2. base \in Nat /\ size \in Nat BY <1>2, XperivAssumption, FileBytesAre
      <3>3. At(vs1, i, 2) = base + i * 2 BY DEF At
      <3>4. FileBytes = 0 .. size - 1 BY DEF FileBytes
      <3> HIDE DEF base, size
      <3>5. \A k \in 1 .. 2 : At(vs1, i, 2) + k - 1 \in FileBytes
        BY <1>1, <3>1, <3>2, <3>3, <3>4
      <3>6. QED BY <3>5 DEF Elt
    <2>8. QED BY <2>6, <2>7
  <1>8. DOMAIN vreg = FileBytes BY <1>1 DEF File
  <1>9. QED BY <1>6, <1>7, <1>8

(* EXP, for any size of the vector unit and any operands aligned to the    *)
(* group: every result is the exponential of what the source held before   *)
(* the instruction, the tail and all other registers keep their value, and *)
(* nothing outside the file is touched.                                    *)
THEOREM ExpSources == VectorSpec => AlignedExpFromOldValues
  <1> DEFINE Asked ==
         Completed({"exp"}) /\ vtype.sew >= 16
         /\ (\A r \in {insn'.vd, insn'.vs1} : r % GroupRegs(vtype.lmul8) = 0) =>
           /\ ~insn'.outside
           /\ \A i \in 0 .. vl - 1 :
                 WordOf(Elt(vreg', insn'.vd, i, 2, 0)) = bf16_expp(WordOf(Elt(vreg, insn'.vs1, i, 2, 0)))
           /\ \A b \in DOMAIN vreg \ Span(insn'.vd, 2, 0, vl) : vreg'[b] = vreg[b]
  <1>1. ASSUME VectorTypeInv, [VectorNext]_benchVars PROVE Asked
    <2> SUFFICES ASSUME Completed({"exp"}), vtype.sew >= 16,
                        \A r \in {insn'.vd, insn'.vs1} : r % GroupRegs(vtype.lmul8) = 0
                 PROVE  Asked
      OBVIOUS
    <2>1. count' # count BY <1>1 DEF Completed, VectorTypeInv
    <2>2. Operation BY <1>1, <2>1 DEF VectorNext, benchVars
    <2>3. insn'.op = "exp" /\ ~insn'.trapped BY DEF Completed
    <2>4. PICK vd \in Regs, vs1 \in Regs, outside \in Outside :
              Store("exp", vd, vs1, ExpLoop(vd, vs1, outside))
      <3>1. ASSUME NEW op \in {"add", "mul"}, NEW vd \in Regs, NEW vs1 \in Regs, NEW vs2 \in Regs,
                   NEW vm \in BOOLEAN, VvRan(op, vd, vs1, vs2, vm)
            PROVE  FALSE
        <4>1. insn'.op = op BY <3>1 DEF VvRan, Ran
        <4>2. QED BY <2>3, <4>1
      <3>2. insn'.op \notin {"softmax", "quant"} BY <2>3
      <3>3. QED BY <2>2, <2>3, <3>1, <3>2, RanIs
    <2>5. PICK file : file = ExpLoop(vd, vs1, outside) OBVIOUS
    <2>6. Store("exp", vd, vs1, file) BY <2>4, <2>5
    <2>7. insn'.vd = vd /\ insn'.vs1 = vs1 /\ vreg' = file BY <2>6, StoreIs
    <2>8. vd % GroupRegs(vtype.lmul8) = 0 /\ vs1 % GroupRegs(vtype.lmul8) = 0 BY <2>7
    <2>9. ~insn'.outside
      <3>1. ~Reaches(vd) /\ ~Reaches(vs1) BY <1>1, <2>8, HalfwordsFit
      <3>2. QED BY <2>6, <3>1, StoreIs
    <2>10. /\ \A i \in 0 .. vl - 1 :
                 WordOf(Elt(file, vd, i, 2, 0)) = bf16_expp(WordOf(Elt(vreg, vs1, i, 2, 0)))
           /\ \A b \in DOMAIN vreg \ Span(vd, 2, 0, vl) : file[b] = vreg[b]
      BY <1>1, <2>5, <2>8, ExpResult
    <2>11. QED BY <2>7, <2>9, <2>10
  <1>2. QED BY <1>1, VectorTypes, PTL DEF VectorSpec, AlignedExpFromOldValues
=============================================================================
