---------------------------- MODULE MxFp8ActQuant ---------------------------
(***************************************************************************)
(* BF16 to MxFP8 (custom/riscv/MxFp8ActQuant.cpp): the elements of a block *)
(* share a power-of-two scale taken from the largest exponent; each one is *)
(* aligned to it and rounded to E4M3 (1 sign, 4 exponent, 3 mantissa       *)
(* bits).  float_to_fp8_e4m3 and reference_quantize_mxfp8 are the          *)
(* reference the repository's own test compares it with.                   *)
(***************************************************************************)
EXTENDS BF16, FiniteSets

MaxExponent(block) ==
    LET es == {exponent(block[i]) : i \in DOMAIN block}
    IN  CHOOSE e \in es : \A f \in es : f <= e

Scale(expMax) == IF expMax > 8 THEN expMax - 8 ELSE 7
ExpInit(expMax) == IF expMax > 8 THEN 15 ELSE expMax

(* First stage for one element: its exponent relative to the scale, and    *)
(* its mantissa shifted into the denormals where that exponent is 0.       *)
Aligned(v, expMax) ==
    LET mat == IF exponent(v) = 0 THEN mantissa(v) ELSE 128 + mantissa(v)
        amt == expMax - exponent(v)
        init == ExpInit(expMax)
        exp == IF init >= amt THEN init - amt ELSE 0
        shift == amt - init + 1
        shifted == IF init >= amt THEN (IF exp = 0 THEN mat \div 2 ELSE mat)
                   ELSE IF shift < 8 THEN mat \div 2^shift ELSE 0
    IN  [exp |-> exp, mat |-> shifted % 128]

(* Mutant: the guard bit alone rounds up, and the NaN code is delivered. *)
MutantRounded(s, a) ==
    LET rnd == a.mat \div 16 + ((a.mat \div 8) % 2)
        exp == a.exp + rnd \div 8
    IN  s * 128 + (IF exp > 15 THEN 126 ELSE exp * 8 + (rnd % 8))

(* Second stage: round to nearest even; the NaN code (15, 7) and an        *)
(* exponent above 15 saturate to the largest number (15, 6).               *)
Rounded(s, a) ==
    LET guard == (a.mat \div 8) % 2 = 1
        sticky == a.mat % 8 # 0
        up == guard /\ ((a.mat \div 16) % 2 = 1 \/ sticky)
        rnd == a.mat \div 16 + (IF up THEN 1 ELSE 0)
        nan == a.exp + rnd \div 8 >= 15 /\ rnd % 8 = 7
        mat == IF nan THEN 6 ELSE rnd
        exp == a.exp + mat \div 8
    IN  s * 128 + (IF exp > 15 THEN 126 ELSE exp * 8 + (mat % 8))

(* MxFp8ActQuant_Model::process. *)
quantize(block) ==
    LET expMax == MaxExponent(block)
    IN  [scale |-> Scale(expMax),
         act |-> [i \in DOMAIN block |-> Rounded(sign(block[i]), Aligned(block[i], expMax))]]

-----------------------------------------------------------------------------
(***************************************************************************)
(* The test's reference.  v is a finite BF16 number and scale_exp the      *)
(* power of two it is divided by: the quotient is again a float with the   *)
(* mantissa of v (or of the normalised denormal) and exponent exp.         *)
(***************************************************************************)
float_to_fp8_e4m3(s, exp, mant) ==
    LET up == (mant \div 8) % 2
        rnd == mant \div 16 + up
        e4m3 == exp + 7 + rnd \div 8
        code == IF e4m3 > 15 \/ (e4m3 = 15 /\ rnd = 7) THEN 126 ELSE e4m3 * 8 + (rnd % 8)
    IN  s * 128 + (IF exp > 8 THEN 126
                   ELSE IF exp < -9 THEN 0
                   ELSE IF exp < -6 THEN (8 + mant \div 16) \div 2^(-6 - exp)
                   ELSE code)

(* The block's exponents and mantissas as normalised floats. *)
FloatOf(v) ==
    IF is_denormal(v)
    THEN LET k == MsbPos(mantissa(v))
         IN  [exp |-> k - 133, mant |-> (mantissa(v) * 2^(7 - k)) % 128]
    ELSE [exp |-> exponent(v) - BIAS, mant |-> mantissa(v)]

reference_quantize_mxfp8(block) ==
    LET nonzero == {i \in DOMAIN block : ~is_zero(block[i])}
        exps == {FloatOf(block[i]).exp : i \in nonzero}
        exp_max == CHOOSE e \in exps : \A f \in exps : f <= e
        scale_exp == IF exp_max - 8 < -127 THEN -127 ELSE exp_max - 8
    IN  IF nonzero = {} THEN [scale |-> 0, act |-> [i \in DOMAIN block |-> 0]]
        ELSE [scale |-> scale_exp + 127,
              act |-> [i \in DOMAIN block |->
                          IF is_zero(block[i]) THEN 0
                          ELSE LET f == FloatOf(block[i])
                               IN  float_to_fp8_e4m3(sign(block[i]), f.exp - scale_exp, f.mant)]]
=============================================================================
