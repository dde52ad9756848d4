----------------------------- MODULE WordSweep ------------------------------
(***************************************************************************)
(* The loops over all 65536 BF16 words that the tests of the arithmetic    *)
(* make (main_expp.cpp, main_quant.cpp), and what the arithmetic promises  *)
(* for each word.                                                          *)
(***************************************************************************)
EXTENDS BF16

Quantiser == INSTANCE MxFp8ActQuant

CONSTANTS Partners,      \* second operands of the additions
          Anchors,       \* second elements of the blocks to quantise
          SweepChunk     \* bound: words of one behaviour

ASSUME SweepAssumption ==
    /\ Partners \subseteq Word /\ Anchors \subseteq Word
    /\ SweepChunk \in Nat \ {0} /\ 65536 % SweepChunk = 0

VARIABLE word    \* the loop index

SweepInit == word \in {k * SweepChunk : k \in 0 .. 65535 \div SweepChunk}

(* "for (i = 0; i <= 0xFFFF; i++)", cut into chunks of SweepChunk words. *)
SweepStep ==
    /\ (word + 1) % SweepChunk # 0
    /\ word' = word + 1

SweepSpec == SweepInit /\ [][SweepStep]_word

-----------------------------------------------------------------------------
Abs(x) == IF x < 0 THEN -x ELSE x

(* custom_expp.cpp, process: the EXP instruction is monotone.  Walking     *)
(* through the words of one sign, away from zero, its result never         *)
(* decreases for positive and never increases for negative numbers: the    *)
(* joint of the two quadratics, the carry into the exponent and the two    *)
(* saturation bounds included.                                             *)
ExpMonotone ==
    ~is_nan(word) /\ ~is_inf(word) =>
        IF sign(word) = 0 THEN bf16_expp(word) <= bf16_expp(word + 1)
        ELSE bf16_expp(word + 1) <= bf16_expp(word)

(* BF16.cpp, bf16_reciprocal: x * (1/x) is 1 within two units in the last  *)
(* place, so the 128 entries of recip_lut and the exponent match.          *)
ReciprocalAccurate ==
    exponent(word) \in 1 .. 252 =>
        bf16_mul(word, bf16_reciprocal(word)) \in ONE - 2 .. ONE

(* The exact value of a normal BF16 number in units of 2^(base - 134). *)
Exact(v, base) == (IF sign(v) = 1 THEN -1 ELSE 1) * (128 + mantissa(v)) * 2^(exponent(v) - base)

(* BF16.cpp, bf16_add: while the exponents differ by less than the 16      *)
(* guard bits, the sum is the exact one cut towards zero, whichever        *)
(* operand is larger, through cancellation and through the carry.          *)
AddTruncates ==
    \A p \in Partners, ub \in ShiftOutcomes :
        LET e == exponent(word)
            f == exponent(p)
            base == (IF e < f THEN e ELSE f) - 7
            r == bf16_add(word, p, FALSE, ub)
            sum == Exact(word, base) + Exact(p, base)
        IN  e \in 8 .. 253 /\ f \in 8 .. 253 /\ Abs(e - f) <= 14 =>
                IF sum = 0 THEN r = make_zero(0)
                ELSE /\ sign(r) = (IF sum < 0 THEN 1 ELSE 0)
                     /\ Abs(Exact(r, base)) <= Abs(sum)
                     /\ Abs(sum) < Abs(Exact(r, base)) + 2^(exponent(r) - base)

(* What an E4M3 code stands for, in units of 2^-17. *)
E4M3Value(c) ==
    LET e == (c \div 8) % 16
    IN  (IF c >= 128 THEN -1 ELSE 1) * (IF e = 0 THEN (c % 8) * 2^8 ELSE (8 + (c % 8)) * 2^(7 + e))

(* MxFp8ActQuant.cpp against the reference of test/main_quant.cpp: in any  *)
(* block of normal numbers the scales agree, no code is a NaN, and the     *)
(* quantised element is at least as close to the input as the reference's. *)
QuantNoWorse ==
    exponent(word) \in 1 .. 254 => \A a \in Anchors :
        LET hw == Quantiser!quantize(<<word, a>>)
            ref == Quantiser!reference_quantize_mxfp8(<<word, a>>)
            d == exponent(word) - hw.scale
            x == (IF sign(word) = 1 THEN -1 ELSE 1) * (128 + mantissa(word)) * 2^(10 + d)
            err(c) == Abs(E4M3Value(c) - x)
        IN  /\ hw.act[1] % 128 # 127
            /\ exponent(a) \in 9 .. 254 /\ d >= -10 =>
                  hw.scale = ref.scale /\ err(hw.act[1]) <= err(ref.act[1])
=============================================================================
