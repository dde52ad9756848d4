-------------------------------- MODULE Gemm --------------------------------
(***************************************************************************)
(* The MxFP8 matrix unit of custom/gemm: one call of GemmTopModel::compute *)
(* multiplies a row of 16 FP8 activations with every column of 16 weights, *)
(* adds the product to the column's partial sum and, on the last call of a *)
(* dot product (i_CfgBf16Norm), rounds the sum to BF16 and clears it.  A   *)
(* weight byte is one FP8 number (fp8fp8) or a pair of FP4 numbers, which  *)
(* feed the partial sums 1 (high nibble) and 0 (low nibble).               *)
(* Numbers are the integers the code computes with, words of more than 31  *)
(* bits are kept as records of their fields; a batch is one row.           *)
(***************************************************************************)
EXTENDS BF16, FiniteSets

CONSTANTS
    Cols,         \* the columns (COL_SIZE of the code), independent of each other
    ActRows,      \* activation rows: sequences of ROW_SIZE FP8 bytes
    WgtCols,      \* weight columns: sequences of ROW_SIZE bytes
    ScaleActs,    \* values of i_ScaleAct
    ScaleWgts,    \* values of i_ScaleWgt_lsb and i_ScaleWgt_msb
    ScaleTensors  \* float32 tensor scales, as records [exp, mat]

VARIABLES
    psum0, psum1,     \* per column the partial sum [exp, mat] between two calls
    o_Psum0, o_Psum1  \* per column the last output

gemmVars == <<psum0, psum1, o_Psum0, o_Psum1>>

ROW_SIZE == 16
MAT_WIDTH == 24
EXT_WIDTH == 4
EXP_WIDTH == 8

(* The arithmetic shift x >> n of an int64_t; from n = 64 on it is         *)
(* undefined and takes its count modulo 64 or keeps only the sign.         *)
Sar(x, n, ub) ==
    LET k == IF n >= 64 /\ ub.wraps THEN n % 64 ELSE n
    IN  IF k > 30 THEN (IF x < 0 THEN -1 ELSE 0) ELSE x \div 2^k

fp8_exp(v) == (v \div 8) % 16
fp8_mat(v) == IF fp8_exp(v) # 0 THEN 8 + (v % 8) ELSE (v % 8) * 2

(* The sum of 16 numbers of width w, divided by 16 (util.h). *)
IntAdderTree(i_psum, w) ==
    LET sum[i \in 0 .. ROW_SIZE] ==
            IF i = 0 THEN 0 ELSE sum[i - 1] + sign_extend(i_psum[i], w)
    IN  sum[ROW_SIZE] \div 16

(***************************************************************************)
(* MxFp8ActDeNorm: the activations aligned to the largest exponent.        *)
(* Multiple is one of the precomputed +-1, +-2, +-3 times an activation.   *)
(***************************************************************************)
ActDeNorm(act) ==
    LET exps == {fp8_exp(act[i]) : i \in DOMAIN act}
        exp_max == CHOOSE e \in exps : \A f \in exps : f <= e
    IN  [exp |-> exp_max,
         sign |-> [i \in DOMAIN act |-> act[i] \div 128],
         mat |-> [i \in DOMAIN act |->
                     (fp8_mat(act[i]) * 2^15) \div 2^(exp_max - fp8_exp(act[i]))]]

Multiple(mat, k, neg) == sign_extend(IF neg THEN -(k * mat) ELSE k * mat, 22)

(***************************************************************************)
(* MxFp8Product.  FP8 weights: the 4-bit mantissa is split into two 2-bit  *)
(* digits, each multiplied by selection and shifted by the low and then    *)
(* the high exponent bits.                                                 *)
(***************************************************************************)
Fp8Product(act, wgt) ==
    LET highs == {fp8_exp(wgt[i]) \div 4 : i \in DOMAIN wgt}
        exp_max == CHOOSE e \in highs : \A f \in highs : f <= e
        digit(i, d) ==
            LET neg == wgt[i] \div 128 # act.sign[i]
                low == fp8_exp(wgt[i]) % 4
                high == fp8_exp(wgt[i]) \div 4
                shifted == sign_extend(Multiple(act.mat[i], d, neg) * 2^low, 25)
            IN  (shifted \div 2^((exp_max - high) * 4 + (25 - MAT_WIDTH))) % 2^MAT_WIDTH
        msb == IntAdderTree([i \in DOMAIN wgt |-> digit(i, fp8_mat(wgt[i]) \div 4)], MAT_WIDTH)
        lsb == IntAdderTree([i \in DOMAIN wgt |-> digit(i, fp8_mat(wgt[i]) % 4)], MAT_WIDTH)
        mat == sign_extend(msb, MAT_WIDTH) + sign_extend(lsb, MAT_WIDTH) \div 4
        ovl == mat \div 2^MAT_WIDTH # mat \div 2^(MAT_WIDTH - 1)
    IN  [exp |-> act.exp + exp_max * 4 + 1 + (IF ovl THEN 1 ELSE 0),
         msb |-> 0,
         lsb |-> sign_extend(IF ovl THEN mat \div 2 ELSE mat, MAT_WIDTH)]

(* FP4 weights, the nibble's sign, exponent and mantissa as the code reads *)
(* them: the low nibble's exponent is taken from bits 4 and 3, and whether *)
(* it is a denormal from the high nibble's exponent.                       *)
Fp4Nibbles(w) ==
    LET msb_exp == (w \div 32) % 4
        implicit == IF msb_exp = 0 THEN 0 ELSE 1
        mat(bit) == IF implicit = 0 THEN bit * 2 ELSE 2 + bit
    IN  [msb |-> [sign |-> w \div 128, exp |-> msb_exp, mat |-> mat((w \div 16) % 2)],
         lsb |-> [sign |-> (w \div 8) % 2, exp |-> (w \div 8) % 4, mat |-> mat(w % 2)]]

Fp4Product(act, wgt) ==
    LET term(i, n) ==
            ((Multiple(act.mat[i], n.mat, n.sign # act.sign[i]) * 2^n.exp) % 2^25)
                \div 2^(25 - MAT_WIDTH)
    IN  [exp |-> act.exp,
         msb |-> IntAdderTree([i \in DOMAIN wgt |-> term(i, Fp4Nibbles(wgt[i]).msb)], MAT_WIDTH),
         lsb |-> IntAdderTree([i \in DOMAIN wgt |-> term(i, Fp4Nibbles(wgt[i]).lsb)], MAT_WIDTH)]

Product(fp8fp8, act, wgt) == IF fp8fp8 THEN Fp8Product(act, wgt) ELSE Fp4Product(act, wgt)

(* Mutant: the carry out of the mantissa is dropped. *)
MutantFpAdd(exp1, mat1, exp2, mat2, ub) ==
    LET sum == IF exp1 > exp2 THEN mat1 + Sar(mat2, exp1 - exp2, ub)
               ELSE Sar(mat1, exp2 - exp1, ub) + mat2
    IN  [exp |-> IF exp1 > exp2 THEN exp1 ELSE exp2,
         mat |-> sign_extend(sum \div 2^6, MAT_WIDTH - 1)]

(***************************************************************************)
(* Fp32PsumAcc.                                                            *)
(***************************************************************************)
fp_add(exp1, mat1, exp2, mat2, ub) ==
    LET sum == IF exp1 > exp2 THEN mat1 + Sar(mat2, exp1 - exp2, ub)
               ELSE Sar(mat1, exp2 - exp1, ub) + mat2
        exp == IF exp1 > exp2 THEN exp1 ELSE exp2
        overflow == (sum \div 2^(MAT_WIDTH + 5)) % 2 # (sum \div 2^(MAT_WIDTH + 4)) % 2
    IN  IF overflow THEN [exp |-> exp + 1, mat |-> sum \div 2^7]
        ELSE [exp |-> exp, mat |-> sign_extend(sum \div 2^6, MAT_WIDTH - 1)]

(* Mutant: the rounding looks one bit too low. *)
MutantRound(mat, is_normal) ==
    LET lsb == MAT_WIDTH - 10 IN (mat \div 2^lsb) % 128

(* Seven mantissa bits, rounded to nearest even; 128 is a carry. *)
round_mantissa_to_7bits(mat, is_normal) ==
    LET lsb == IF is_normal THEN MAT_WIDTH - 9 ELSE MAT_WIDTH - 8
        guard == (mat \div 2^(lsb - 1)) % 2 = 1
        sticky == mat % 2^(lsb - 1) # 0
        odd == (mat \div 2^lsb) % 2 = 1
    IN  ((mat \div 2^lsb) % 128) + (IF guard /\ (sticky \/ odd) THEN 1 ELSE 0)

to_bf16(fp32_exp, fp32_mat, fp8fp8, ub) ==
    LET s == (fp32_mat \div 2^(MAT_WIDTH - 1)) % 2
        abs_mat == (IF s = 1 THEN -fp32_mat ELSE fp32_mat) % 2^(MAT_WIDTH - 1)
        leading_zeros == MAT_WIDTH - 2 - MsbPos(abs_mat)
        mat_shifted == abs_mat * 2^leading_zeros
        max_threshold == IF fp8fp8 THEN 388 ELSE 391
        min_threshold == IF fp8fp8 THEN 134 ELSE 137
        adj_exp == fp32_exp + EXT_WIDTH - leading_zeros
        is_normal == min_threshold < adj_exp /\ adj_exp <= max_threshold
        exp_bias == IF adj_exp > max_threshold THEN 255
                    ELSE IF is_normal THEN adj_exp - min_threshold ELSE 0
        mat_bias == IF adj_exp > max_threshold THEN 0
                    ELSE IF is_normal THEN mat_shifted
                    ELSE Sar(mat_shifted, min_threshold - adj_exp, ub)
        rounded == round_mantissa_to_7bits(mat_bias, is_normal)
        carry == rounded \div 128
    IN  IF abs_mat = 0 THEN Pack(s, 0, 0)
        ELSE IF exp_bias + carry > 254 THEN Pack(s, 255, 0)
        ELSE IF carry = 0 THEN Pack(s, exp_bias, rounded)
        ELSE Pack(s, exp_bias + 1, (IF is_normal THEN 0 ELSE 64) + ((rounded \div 2) % 64))

(* acc * scale >> 24 for a scale of 24 bits, in steps of 8 bits. *)
ScaledDown24(acc, scale) ==
    LET t2 == scale \div 2^16
        t1 == (scale \div 2^8) % 2^8
        t0 == scale % 2^8
    IN  (acc * t2 + (acc * t1 + (acc * t0) \div 2^8) \div 2^8) \div 2^8

(* The scale of the weights: a power of two for FP8, an E4M3 number for    *)
(* FP4 weights.                                                            *)
WgtScale(fp8fp8, scale) ==
    IF fp8fp8 THEN [exp |-> scale, mat |-> 8]
    ELSE [exp |-> fp8_exp(scale), mat |-> fp8_mat(scale)]

(* The partial sum after adding a scaled product; (0, 0) is the empty sum. *)
Accumulated(fp8fp8, exp, mat, scaleAct, scaleWgt, psum, ub) ==
    LET w == WgtScale(fp8fp8, scaleWgt)
        product_exp == exp + scaleAct + w.exp
        product_mat == sign_extend(mat, MAT_WIDTH) * sign_extend(w.mat, 5)
    IN  IF psum = [exp |-> 0, mat |-> 0]
        THEN [exp |-> product_exp, mat |-> sign_extend(product_mat \div 2^6, MAT_WIDTH - 1)]
        ELSE fp_add(product_exp, product_mat,
                    psum.exp, sign_extend(psum.mat * 2^6, MAT_WIDTH + 5), ub)

(* The sum as BF16, after the tensor scale. *)
Normalised(fp8fp8, acc, scaleTensor, ub) ==
    LET exp == IF fp8fp8 THEN 0 ELSE scaleTensor.exp
        mat == IF fp8fp8 THEN 2^23
               ELSE IF exp # 0 THEN 2^23 + scaleTensor.mat ELSE scaleTensor.mat * 2
    IN  to_bf16(acc.exp + exp, sign_extend(ScaledDown24(acc.mat, mat), MAT_WIDTH), fp8fp8, ub)

(* What o_Psum carries between two calls: 9 exponent and 23 mantissa bits. *)
Stored(acc) ==
    [exp |-> acc.exp % 2^(EXP_WIDTH + 1), mat |-> sign_extend(acc.mat, MAT_WIDTH - 1)]

-----------------------------------------------------------------------------
EmptySum == [c \in Cols |-> [exp |-> 0, mat |-> 0]]

Init ==
    /\ psum0 = EmptySum /\ psum1 = EmptySum
    /\ o_Psum0 = EmptySum /\ o_Psum1 = EmptySum

(* GemmTopModel::compute.  wgt, wlsb and wmsb give each column its weights *)
(* and scales.  In the FP8 mode accumulator 1 is not touched.              *)
compute(fp8fp8, norm, scaleTensor, act, wgt, scaleAct, wlsb, wmsb, ub) ==
    LET row == ActDeNorm(act)
        p == [c \in Cols |-> Product(fp8fp8, row, wgt[c])]
        acc0 == [c \in Cols |-> Accumulated(fp8fp8, p[c].exp, p[c].lsb, scaleAct, wlsb[c],
                                            psum0[c], ub)]
        acc1 == [c \in Cols |-> Accumulated(fp8fp8, p[c].exp, p[c].msb, scaleAct, wmsb[c],
                                            psum1[c], ub)]
        out(acc) == [c \in Cols |-> IF norm THEN [bf16 |-> Normalised(fp8fp8, acc[c], scaleTensor, ub)]
                                    ELSE Stored(acc[c])]
        next(acc) == IF norm THEN EmptySum ELSE [c \in Cols |-> Stored(acc[c])]
    IN  /\ o_Psum0' = out(acc0)
        /\ psum0' = next(acc0)
        /\ IF fp8fp8 THEN UNCHANGED <<o_Psum1, psum1>>
           ELSE o_Psum1' = out(acc1) /\ psum1' = next(acc1)
=============================================================================
