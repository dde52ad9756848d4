-------------------------------- MODULE BF16 --------------------------------
(***************************************************************************)
(* The bfloat16 arithmetic behind the EXP, SOFTMAX and QUANT instructions  *)
(* (custom/riscv/BF16.cpp, custom_expp.cpp).  A value is the 16-bit word   *)
(* the code handles: 1 sign, 8 exponent, 7 mantissa bits.  All operators   *)
(* are pure; words are integers and shifts are divisions, so every         *)
(* truncation of the code is here.                                         *)
(*                                                                         *)
(* A C shift by the width of its operand or more is undefined.  What the   *)
(* build makes of it is the parameter ub: ub.wraps is TRUE when the shift  *)
(* instruction takes its count modulo 32 and FALSE when all bits are       *)
(* shifted out; ub.beyond is the word found behind exp_lut, which a        *)
(* wrapped count reaches because the optimiser drops the index mask (a     *)
(* shift of at least 2 cannot, it reasons, leave an index above 63).       *)
(***************************************************************************)
EXTENDS Integers, Sequences

CONSTANT ShiftOutcomes    \* values of ub: outcomes of an over-wide shift

BIAS == 127
GUARD_BITS == 16
ONE == 16256
TWO == 16384
LOG2E == 16313
NEG_INF == 65408

Word == 0 .. 2^16 - 1

ASSUME ShiftAssumption ==
    \A ub \in ShiftOutcomes : ub.wraps \in BOOLEAN /\ ub.beyond \in Word

sign(v) == v \div 2^15
exponent(v) == (v \div 2^7) % 2^8
mantissa(v) == v % 2^7
Pack(s, e, m) == s * 2^15 + e * 2^7 + m

is_zero(v) == exponent(v) = 0 /\ mantissa(v) = 0
is_denormal(v) == exponent(v) = 0 /\ mantissa(v) # 0
is_inf(v) == exponent(v) = 255 /\ mantissa(v) = 0
is_nan(v) == exponent(v) = 255 /\ mantissa(v) # 0

make_nan == Pack(0, 255, 64)
make_inf(s) == Pack(s, 255, 0)
make_zero(s) == Pack(s, 0, 0)

(* A result whose exponent leaves 1..254 becomes infinity or zero. *)
PackRange(s, e, m) ==
    IF e >= 255 THEN make_inf(s) ELSE IF e <= 0 THEN make_zero(s) ELSE Pack(s, e, m)

(* x >> n for 0 <= x < 2^31, with the two outcomes of a count above 31. *)
Shr(x, n) == IF n > 30 THEN 0 ELSE x \div 2^n
Shr32(x, n, ub) == IF n < 32 THEN Shr(x, n) ELSE IF ub.wraps THEN Shr(x, n % 32) ELSE 0

(* Position of the leading one of x, the code's 31 - __builtin_clz(x). *)
MsbPos(x) == CHOOSE k \in 0 .. 29 : 2^k <= x /\ x < 2^(k + 1)

(* Mutant: of two operands with one exponent the first stays in front. *)
MutantAlignedSum(sa, ea, ma, sb, eb, mb, ub) ==
    LET swap == ea < eb
        big == IF swap THEN mb ELSE ma
        small == IF swap THEN ma ELSE mb
        sig_b == Shr32((128 + small) * 2^GUARD_BITS, IF swap THEN eb - ea ELSE ea - eb, ub)
        sum == (128 + big) * 2^GUARD_BITS + (IF sa # sb THEN -sig_b ELSE sig_b)
        up == MsbPos(IF sum < 0 THEN -sum ELSE sum) - (7 + GUARD_BITS)
        m == IF up < 0 THEN sum * 2^(-up) ELSE sum \div 2^up
    IN  IF sum = 0 THEN make_zero(0)
        ELSE PackRange(IF swap THEN sb ELSE sa, (IF swap THEN eb ELSE ea) + up,
                       (m \div 2^GUARD_BITS) % 128)

(***************************************************************************)
(* Addition.  The operand of larger magnitude comes first, the other is    *)
(* shifted to its exponent; denormals get the implicit one as well.  A     *)
(* negative difference (a shift count that wrapped) is the uint32_t        *)
(* 2^32 + diff, whose leading one is bit 31.                               *)
(***************************************************************************)
AlignedSum(sa, ea, ma, sb, eb, mb, ub) ==
    LET swap == ea < eb \/ (ea = eb /\ ma < mb)
        s == IF swap THEN sb ELSE sa
        e == IF swap THEN eb ELSE ea
        shift == IF swap THEN eb - ea ELSE ea - eb
        sig_a == (128 + (IF swap THEN mb ELSE ma)) * 2^GUARD_BITS
        sig_b == Shr32((128 + (IF swap THEN ma ELSE mb)) * 2^GUARD_BITS, shift, ub)
        sum == IF sa # sb THEN sig_a - sig_b ELSE sig_a + sig_b
        shift_amt == (IF sum < 0 THEN 31 ELSE MsbPos(sum)) - (7 + GUARD_BITS)
        final_sig == IF sum < 0 THEN 2^24 + sum \div 2^8
                     ELSE IF shift_amt < 0 THEN sum * 2^(-shift_amt)
                     ELSE sum \div 2^shift_amt
    IN  IF sum = 0 THEN make_zero(0)
        ELSE PackRange(s, e + shift_amt, (final_sig \div 2^GUARD_BITS) % 128)

bf16_add(a, b, sub, ub) ==
    LET sa == sign(a)
        sb == IF sub THEN 1 - sign(b) ELSE sign(b)
    IN  IF is_nan(a) \/ is_nan(b) THEN make_nan
        ELSE IF is_inf(a) /\ is_inf(b) /\ sa # sb THEN make_nan
        ELSE IF is_inf(a) THEN make_inf(sa)
        ELSE IF is_inf(b) THEN make_inf(sb)
        ELSE IF is_zero(a) /\ is_zero(b) THEN make_zero(IF sa # sb THEN 0 ELSE sa)
        ELSE IF is_zero(a) THEN Pack(sb, exponent(b), mantissa(b))
        ELSE IF is_zero(b) THEN a
        ELSE AlignedSum(sa, exponent(a), mantissa(a), sb, exponent(b), mantissa(b), ub)

(* The larger value; a NaN loses against a number. *)
bf16_max(a, b) ==
    LET a_abs_gt_b == a % 2^15 > b % 2^15
    IN  IF is_nan(a) /\ is_nan(b) THEN make_nan
        ELSE IF is_nan(a) THEN b
        ELSE IF is_nan(b) THEN a
        ELSE IF sign(a) # sign(b) THEN (IF sign(a) = 1 THEN b ELSE a)
        ELSE IF (sign(a) = 1) = a_abs_gt_b THEN b ELSE a

bf16_mul(a, b) ==
    LET s == (sign(a) + sign(b)) % 2
        flushed(v) == exponent(v) = 0
        prod == (128 + mantissa(a)) * (128 + mantissa(b))
        exp_sum == exponent(a) + exponent(b) - BIAS
    IN  IF is_nan(a) \/ is_nan(b) THEN make_nan
        ELSE IF (flushed(a) /\ is_inf(b)) \/ (is_inf(a) /\ flushed(b)) THEN make_nan
        ELSE IF is_inf(a) \/ is_inf(b) THEN make_inf(s)
        ELSE IF flushed(a) \/ flushed(b) THEN make_zero(s)
        ELSE IF prod >= 2^15 THEN PackRange(s, exp_sum + 1, (prod \div 2^8) % 128)
        ELSE PackRange(s, exp_sum, (prod \div 2^7) % 128)

(***************************************************************************)
(* The tables of init_luts: float_to_bf16 truncates, so entry i of         *)
(* recip_lut is 128/(128+i) cut to 8 significant bits, and exp_lut holds   *)
(* the mantissas of 2^(i/128) (the values std::pow returns, cut).          *)
(***************************************************************************)
MutantRecipLut(i) == IF i <= 1 THEN ONE ELSE Pack(0, 126, 32768 \div (127 + i) - 128)
recip_lut(i) == IF i = 0 THEN ONE ELSE Pack(0, 126, 32768 \div (128 + i) - 128)

exp_lut_mantissas ==
    <<0, 0, 1, 2, 2, 3, 4, 4, 5, 6, 7, 7, 8, 9, 10, 10, 11, 12, 13, 13, 14, 15, 16, 16, 17, 18,
      19, 20, 20, 21, 22, 23, 24, 25, 25, 26, 27, 28, 29, 30, 30, 31, 32, 33, 34, 35, 36, 37, 37,
      38, 39, 40, 41, 42, 43, 44, 45, 46, 47, 48, 49, 50, 51, 52, 53, 54, 54, 55, 56, 57, 58, 60,
      61, 62, 63, 64, 65, 66, 67, 68, 69, 70, 71, 72, 73, 74, 75, 77, 78, 79, 80, 81, 82, 83, 84,
      86, 87, 88, 89, 90, 91, 93, 94, 95, 96, 98, 99, 100, 101, 102, 104, 105, 106, 108, 109, 110,
      111, 113, 114, 115, 117, 118, 119, 121, 122, 123, 125, 126>>
exp_lut(i) == Pack(0, BIAS, exp_lut_mantissas[i + 1])

bf16_reciprocal(x) ==
    LET lut == recip_lut(mantissa(x))
    IN  IF exponent(x) = 0 THEN make_inf(sign(x))
        ELSE IF is_inf(x) THEN make_zero(sign(x))
        ELSE IF is_nan(x) THEN make_nan
        ELSE PackRange(sign(x), exponent(lut) + BIAS - exponent(x), mantissa(lut))

(***************************************************************************)
(* e^x as 2^(x log2 e): y = x * LOG2E is split into floor(y) and the       *)
(* fraction F, 2^F comes from exp_lut.  FloorInt is the int the code       *)
(* shifts together from floor(y): from a shift of 24 on the int overflows  *)
(* and keeps the low 32 - n bits, signed.  Only its sign and whether it    *)
(* reaches the exponent range matter then, so its weight is cut at 2^20.   *)
(***************************************************************************)
FloorInt(yf, ub) ==
    LET e == exponent(yf) - BIAS
        sig == 128 + mantissa(yf)
        n == IF e - 7 < 32 THEN e - 7 ELSE (e - 7) % 32
        low == sig % 2^(32 - n)
        kept == IF n < 24 THEN sig
                ELSE IF low >= 2^(31 - n) THEN low - 2^(32 - n) ELSE low
        negated == IF n >= 24 /\ kept = -(2^(31 - n)) THEN kept ELSE -kept
    IN  IF exponent(yf) = 0 THEN 0
        ELSE IF e < 7 THEN (IF sign(yf) = 1 THEN -1 ELSE 1) * Shr(sig, 7 - e)
        ELSE IF e - 7 >= 32 /\ ~ub.wraps THEN 0
        ELSE (IF sign(yf) = 1 THEN negated ELSE kept) * 2^(IF n < 20 THEN n ELSE 20)

(* y with its fraction bits cleared. *)
Truncate(y) ==
    LET e == exponent(y) - BIAS
    IN  IF e < 0 THEN make_zero(sign(y))
        ELSE IF e < 7 THEN y - (mantissa(y) % 2^(7 - e))
        ELSE y

(* 2^f for the fraction f, from the table; an f at or below 0 gives 1. *)
Pow2Fraction(f, ub) ==
    IF sign(f) = 1 \/ is_zero(f) THEN ONE
    ELSE IF exponent(f) = BIAS - 1 THEN exp_lut(64 + mantissa(f) \div 2)
    ELSE IF exponent(f) < BIAS - 1
         THEN LET lut_index == Shr32(128 + mantissa(f), BIAS - exponent(f), ub)
              IN  IF lut_index > 127 THEN ub.beyond ELSE exp_lut(lut_index)
    ELSE TWO

bf16_exp(x, ub) ==
    LET y == bf16_mul(x, LOG2E)
        y_trunc == Truncate(y)
        y_floor == IF sign(y) = 1 /\ y # y_trunc THEN bf16_add(y_trunc, ONE, TRUE, ub)
                   ELSE y_trunc
        pow2_F == Pow2Fraction(bf16_add(y, y_floor, TRUE, ub), ub)
    IN  IF exponent(x) = 0 THEN ONE
        ELSE IF is_inf(x) THEN (IF sign(x) = 0 THEN make_inf(0) ELSE make_zero(0))
        ELSE IF is_nan(x) THEN make_nan
        ELSE PackRange(0, FloorInt(y_floor, ub) + exponent(pow2_F), mantissa(pow2_F))

-----------------------------------------------------------------------------
(***************************************************************************)
(* BF16ExppUnit_Model::process, the approximation the EXP instruction      *)
(* runs: a fixed-point product with 1/ln 2, whose integer part becomes the *)
(* exponent and whose fraction goes through a quadratic approximation.     *)
(***************************************************************************)
LN2_FLIP == 23637

(* The low w bits of val, read as a two's complement number (util.h). *)
sign_extend(val, w) == LET r == val % 2^w IN IF r >= 2^(w - 1) THEN r - 2^w ELSE r

(* |x| / ln 2 with 7 fraction bits, rounded, in 16 bits. *)
ScaledMagnitude(x) ==
    LET prod == ((128 + mantissa(x)) * LN2_FLIP) % 2^23
        up == exponent(x) - BIAS
        shm == IF up >= 0
               THEN (IF up < 30 THEN (prod % 2^(30 - up)) * 2^up ELSE 0)
               ELSE (IF -up < 23 THEN prod \div 2^(-up) ELSE 0)
    IN  (shm \div 2^14 + ((shm \div 2^13) % 2)) % 2^16

(* The mantissa of 2^(nm/128): a quadratic on each half of [0, 1). *)
PolyMantissa(nm) ==
    LET high == nm >= 64
        add == (nm + (IF high THEN 278 ELSE 363)) % 2^9
        mul == IF high THEN ((255 - 2 * nm) * 7) % 2^11 ELSE (2 * nm * 4) % 2^11
        res == ((add * mul) \div 2^12) % 2^8
    IN  (IF high THEN 127 - res ELSE res) % 2^7

(* The words from too_large_L to too_large_H, and those of too_small. *)
too_large(x) == x >= 17074 /\ x <= 32639
too_small(x) == x >= 50054 /\ x <= 65407

(* Mutant: no bound on large positive arguments. *)
MutantExpp(x) ==
    LET magnitude == ScaledMagnitude(x)
        shm == sign_extend(IF sign(x) = 1 THEN -magnitude ELSE magnitude, 16)
        ne == sign_extend(sign_extend(shm \div 2^7, 9) + BIAS, 9)
    IN  IF exponent(x) = 0 THEN ONE
        ELSE IF is_inf(x) THEN make_inf(0)
        ELSE IF too_small(x) \/ ne <= 0 THEN make_zero(0)
        ELSE IF ne >= 255 THEN make_inf(0)
        ELSE Pack(0, ne, PolyMantissa(shm % 2^7))

bf16_expp(x) ==
    LET magnitude == ScaledMagnitude(x)
        shm == sign_extend(IF sign(x) = 1 THEN -magnitude ELSE magnitude, 16)
        ne == sign_extend(sign_extend(shm \div 2^7, 9) + BIAS, 9)
    IN  IF exponent(x) = 0 THEN ONE
        ELSE IF is_nan(x) THEN make_nan
        ELSE IF is_inf(x) THEN (IF sign(x) = 1 THEN make_zero(0) ELSE make_inf(0))
        ELSE IF too_large(x) THEN make_inf(0)
        ELSE IF too_small(x) THEN make_zero(0)
        ELSE IF ne >= 255 THEN (IF sign(x) = 1 THEN make_zero(0) ELSE make_inf(0))
        ELSE IF ne <= 0 THEN make_zero(0)
        ELSE Pack(0, ne, PolyMantissa(shm % 2^7))
=============================================================================
