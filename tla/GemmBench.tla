----------------------------- MODULE GemmBench ------------------------------
(***************************************************************************)
(* The matrix unit in a loop of calls, as main_gemm.cpp makes it, next to  *)
(* the exact dot products that its partial sums stand for.                 *)
(***************************************************************************)
EXTENDS Gemm

CONSTANTS
    Base,        \* the least sum of the scales of an FP8 call
    Growth,      \* how many places a partial sum may grow by
    MaxCalls     \* bound: calls of one behaviour

VARIABLES
    dot0,    \* what psum0 stands for: the exact sum of the products since it was empty
    dot1,    \* the same for psum1
    calls    \* calls made

benchSums == <<dot0, dot1, calls>>

(* The exponent of 1 in the exact sums of a mode. *)
Origin(fp8fp8) == IF fp8fp8 THEN Base ELSE Base - 3

(* Rows and columns are bytes.  The scales of the calls lie so close       *)
(* together that no number is shifted by 64 or more and the exponent of a  *)
(* partial sum fits its nine bits: outside, the code's shift is undefined  *)
(* or the exponent wraps.                                                  *)
ASSUME GemmAssumption ==
    /\ ActRows \cup WgtCols \subseteq [1 .. ROW_SIZE -> 0 .. 255]
    /\ ScaleActs \cup ScaleWgts \subseteq 0 .. 255
    /\ MaxCalls \in Nat /\ Growth \in 0 .. 20 /\ MaxCalls <= 2^Growth
    /\ Base \in 4 .. 448
    /\ \A fp8fp8 \in BOOLEAN, sa \in ScaleActs, sw \in ScaleWgts :
          sa + WgtScale(fp8fp8, sw).exp - Origin(fp8fp8) \in 0 .. 34 - Growth

(* The tensor scale is 1; the FP8 mode does not read it. *)
ASSUME TensorAssumption == ScaleTensors \subseteq {[exp |-> 127, mat |-> 0]}

-----------------------------------------------------------------------------
(* Exact reference values.  An FP8 number is +-mat * 2^exp in units of     *)
(* 2^-10, an FP4 nibble +-(2 + m) * 2^e or +-2m in units of a quarter.     *)
Fp8Value(v) == (IF v >= 128 THEN -1 ELSE 1) * (fp8_mat(v) * 2^fp8_exp(v))
Fp4Value(n) ==
    LET e == (n \div 2) % 4
    IN  (IF n >= 8 THEN -1 ELSE 1) * (IF e = 0 THEN 2 * (n % 2) ELSE (2 + (n % 2)) * 2^e)

Dot(act, values) ==
    LET sum[i \in 0 .. ROW_SIZE] == IF i = 0 THEN 0 ELSE sum[i - 1] + Fp8Value(act[i]) * values[i]
    IN  sum[ROW_SIZE]

(* Does the unit read the low nibble of w as the FP4 number it is? *)
LowNibbleAgrees(w) ==
    LET n == Fp4Nibbles(w).lsb
    IN  (IF n.sign = 1 THEN -1 ELSE 1) * (n.mat * 2^n.exp) = Fp4Value(w % 16)

(* The exact sum a partial sum stands for; place is for each column the    *)
(* exponent at which the last product was added, terms the number of       *)
(* products, clean is FALSE once the modes were mixed in one sum or a low  *)
(* nibble was misread.                                                     *)
NoDot == [sum |-> 0, place |-> [c \in Cols |-> 0], terms |-> 0, mode |-> "none",
          clean |-> TRUE, norm |-> FALSE]

Larger(a, b) == IF a > b THEN a ELSE b

Mode(fp8fp8) == IF fp8fp8 THEN "fp8" ELSE "fp4"

Extended(d, fp8fp8, term, place, agrees, norm) ==
    LET base == IF d.norm THEN NoDot ELSE d
    IN  [sum   |-> base.sum + term,
         place |-> place,
         terms |-> base.terms + 1,
         mode  |-> Mode(fp8fp8),
         clean |-> base.clean /\ agrees /\ base.mode \in {"none", Mode(fp8fp8)},
         norm  |-> norm]

-----------------------------------------------------------------------------
GemmInit ==
    /\ Init
    /\ dot0 = NoDot /\ dot1 = NoDot
    /\ calls = 0

(* A call with the same column of weights everywhere, extended by the      *)
(* exact products of the row with the FP8 numbers or with the nibbles.     *)
GemmCall(fp8fp8, norm, act, wgt, sa, sw) ==
    LET one(v) == [c \in Cols |-> v]
        w == WgtScale(fp8fp8, sw)
        exp == Product(fp8fp8, ActDeNorm(act), wgt).exp + sa + w.exp
        place(psum) == [c \in Cols |-> Larger(exp, psum[c].exp)]
        factor == IF fp8fp8 THEN 1 ELSE w.mat
        term(values) == Dot(act, values) * factor * 2^(sa + w.exp - Origin(fp8fp8))
        fp8s == [i \in 1 .. ROW_SIZE |-> Fp8Value(wgt[i])]
        lows == [i \in 1 .. ROW_SIZE |-> Fp4Value(wgt[i] % 16)]
        highs == [i \in 1 .. ROW_SIZE |-> Fp4Value(wgt[i] \div 16)]
        agrees == fp8fp8 \/ \A i \in 1 .. ROW_SIZE : LowNibbleAgrees(wgt[i])
    IN  /\ \E st \in ScaleTensors, ub \in ShiftOutcomes :
              compute(fp8fp8, norm, st, act, one(wgt), sa, one(sw), one(sw), ub)
        /\ dot0' = Extended(dot0, fp8fp8, term(IF fp8fp8 THEN fp8s ELSE lows), place(psum0), agrees,
                            norm)
        /\ dot1' = IF fp8fp8 THEN dot1
                   ELSE Extended(dot1, FALSE, term(highs), place(psum1), TRUE, norm)
        /\ calls' = calls + 1

GemmNext ==
    /\ calls < MaxCalls
    /\ \E fp8fp8, norm \in BOOLEAN, act \in ActRows, wgt \in WgtCols,
          sa \in ScaleActs, sw \in ScaleWgts : GemmCall(fp8fp8, norm, act, wgt, sa, sw)

GemmSpec == GemmInit /\ [][GemmNext]_<<gemmVars, benchSums>>

-----------------------------------------------------------------------------
Distance(x, y) == IF x < y THEN y - x ELSE x - y

(* x * 2^k for a k of either sign, rounded down. *)
Shifted(x, k) == IF k >= 0 THEN x * 2^k ELSE x \div 2^(-k)

(* The place of 1 in an exact sum, as an exponent of a partial sum. *)
Unit(mode) == IF mode = "fp8" THEN Base + 6 ELSE Base + 1

Tracks(p, d) ==
    d.clean /\ d.terms > 0 =>
        IF d.norm THEN p = [exp |-> 0, mat |-> 0]
        ELSE Distance(p.mat, Shifted(d.sum, Unit(d.mode) - p.exp)) <= 2 * d.terms + 2

(* GemmTop.cpp, Fp32PsumAcc.cpp, MxFp8Product.cpp: after any calls, in any *)
(* mix of modes, a partial sum is the exact dot product of everything      *)
(* added since the last normalisation, up to two units in the last place   *)
(* per term; nothing of an earlier dot product is left in it.  Sums that   *)
(* mixed the two modes, or read a low nibble wrongly, are excepted.        *)
PsumTracksDotProduct ==
    \A c \in Cols : Tracks(psum0[c], dot0) /\ Tracks(psum1[c], dot1)

RoundsTo(o, d, place) ==
    d.clean /\ d.norm =>
        LET e == exponent(o.bf16) + (IF d.mode = "fp8" THEN 140 ELSE 21) - Base
            tol == Shifted(2 * d.terms + 4, place + 1 - Unit(d.mode))
            got == (IF sign(o.bf16) = 1 THEN -1 ELSE 1) * Shifted(128 + mantissa(o.bf16), e)
        IN  exponent(o.bf16) \in 2 .. 254 => Distance(d.sum, got) <= Shifted(1, e) + tol + 1

(* Fp32PsumAcc.cpp, to_bf16: the number a normalising call delivers is the *)
(* exact dot product rounded to the 8 significant bits of BF16, up to the  *)
(* truncation of the partial sum: two units per product of the place that  *)
(* the sum has reached, and four.                                          *)
OutputRoundsDotProduct ==
    \A c \in Cols : RoundsTo(o_Psum0[c], dot0, dot0.place[c]) /\ RoundsTo(o_Psum1[c], dot1, dot1.place[c])
=============================================================================
