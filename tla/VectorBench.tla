----------------------------- MODULE VectorBench -----------------------------
(***************************************************************************)
(* The custom vector instructions in any order, in every configuration of  *)
(* the vector unit, with any operands: what a program of them may rely on. *)
(***************************************************************************)
EXTENDS Xperiv

CONSTANTS Sews, Lmuls, Avls,    \* what vsetvli is given
          Files,                \* the registers at the beginning
          MaxInsns              \* bound: instructions of one behaviour

(* Element widths and group sizes (in eighths of a register) are those of  *)
(* the vector extension, and groups divide the file, as they do its 32     *)
(* registers.  A register holds whole elements of 16 bits.                 *)
ASSUME VectorAssumption ==
    /\ Sews \subseteq {8, 16, 32, 64}
    /\ Lmuls \subseteq {1, 2, 4, 8, 16, 32, 64}
    /\ \A lmul8 \in Lmuls : NVPR % GroupRegs(lmul8) = 0
    /\ VLENB % 2 = 0
    /\ Avls \subseteq Nat
    /\ \A file \in Files : file \in [FileBytes -> 0 .. 255]
    /\ MaxInsns \in Nat

VARIABLE count    \* instructions run

benchVars == <<vectorVars, count>>

Regs == 0 .. NVPR - 1

VectorInit ==
    /\ \E file \in Files : Reset(file)
    /\ count = 0

Operation ==
    \/ \E vd, vs1, vs2 \in Regs, vm \in BOOLEAN : peri_v_add_impl(vd, vs1, vs2, vm)
    \/ \E vd, vs1, vs2 \in Regs, vm \in BOOLEAN : peri_v_mul_impl(vd, vs1, vs2, vm)
    \/ \E vd, vs1 \in Regs : exp_impl(vd, vs1)
    \/ \E vd, vs1 \in Regs : softmax_impl(vd, vs1)
    \/ \E vd, vs1 \in Regs : quant_impl(vd, vs1)

Configuration ==
    \/ csrs_mstatus
    \/ \E sew \in Sews, lmul8 \in Lmuls, n \in Avls : vsetvli(n, sew, lmul8)
    \/ write_vstart(1)

VectorNext ==
    /\ count < MaxInsns
    /\ \/ Operation /\ count' = count + 1
       \/ Configuration /\ count' = count

VectorSpec == VectorInit /\ [][VectorNext]_benchVars

-----------------------------------------------------------------------------
Completed(ops) == count' = count + 1 /\ ~insn'.trapped /\ insn'.op \in ops

(* The bytes of the elements lo..hi-1 of width w of register reg. *)
Span(reg, w, lo, hi) == At(reg, lo, w) .. At(reg, hi, w) - 1

(* a + b and a * b of unsigned numbers of at most 16 bits. *)
Number(bytes) == IF Len(bytes) = 1 THEN bytes[1] ELSE WordOf(bytes)
Exactly(op, a, b) ==
    LET x == Number(a)
        y == Number(b)
        sum == IF op = "add" THEN x + y ELSE x * (y % 256) + ((x * (y \div 256)) % 256) * 256
    IN  IF Len(a) = 1 THEN <<sum % 256>> ELSE BytesOf(sum % 65536)
Wanted(op, a, b) ==
    IF Len(a) <= 2 THEN Exactly(op, a, b)
    ELSE IF op = "add" THEN AddBytes(a, b) ELSE MulBytes(a, b)

(* xperiv.cc, PERI_V_ADD and PERI_V_MUL: although the loop runs in place,  *)
(* every active element becomes the sum or product of what the sources     *)
(* held before the instruction, chosen by the mask v0 held before it, and  *)
(* all other bytes of the file keep their value.  The alignment and mask   *)
(* checks of VI_CHECK_SSS are what makes it so.                            *)
VvFromOldValues ==
    [][Completed({"add", "mul"}) =>
         LET w == vtype.sew \div 8
             active == {i \in vstart .. vl - 1 : insn'.vm \/ MaskBit(vreg, i) = 1}
             old(reg, i) == Elt(vreg, reg, i, w, 0)
         IN  /\ \A i \in active :
                   Elt(vreg', insn'.vd, i, w, 0)
                       = Wanted(insn'.op, old(insn'.vs1, i), old(insn'.vs2, i))
             /\ \A b \in DOMAIN vreg :
                   (\A i \in active : b \notin Span(insn'.vd, w, i, i + 1)) => vreg'[b] = vreg[b]]_benchVars

(* xperiv.cc, exp_impl: it checks neither alignment nor (see exp_impl's    *)
(* call of is_overlapped) the overlap of groups, yet for elements of 16    *)
(* bits or more and operands aligned to the group size every result is the *)
(* exponential of what the source held before the instruction, the tail    *)
(* and all other registers keep their value, and nothing outside the       *)
(* register file is touched.                                               *)
AlignedExpFromOldValues ==
    [][Completed({"exp"}) /\ vtype.sew >= 16
       /\ (\A r \in {insn'.vd, insn'.vs1} : r % GroupRegs(vtype.lmul8) = 0) =>
         /\ ~insn'.outside
         /\ \A i \in 0 .. vl - 1 :
               WordOf(Elt(vreg', insn'.vd, i, 2, 0)) = bf16_expp(WordOf(Elt(vreg, insn'.vs1, i, 2, 0)))
         /\ \A b \in DOMAIN vreg \ Span(insn'.vd, 2, 0, vl) : vreg'[b] = vreg[b]]_benchVars

(* a <= b as BF16 numbers that are not NaN. *)
Below(a, b) ==
    LET key(v) == IF sign(v) = 1 THEN -(v % 2^15) ELSE v
    IN  key(a) <= key(b)

(* SoftmaxCore.cpp through SOFTMAX: a larger input never gets the smaller  *)
(* share, and no share is negative or above 1, although the sum may come   *)
(* out wrong (see SoftmaxNormalised).  Inputs are 0 or have exponents less *)
(* than 32 apart, as bf16_add shifts by the difference, and between 104    *)
(* and 154, so that the same holds inside bf16_exp and its int does not    *)
(* overflow.                                                               *)
SoftmaxKeepsOrder ==
    [][Completed({"softmax"}) /\ ~insn'.outside =>
         LET in(i) == WordOf(Elt(vreg, insn'.vs1, i, 2, 0))
             out(i) == WordOf(Elt(vreg', insn'.vd, i, 2, 0))
             exps == {exponent(in(i)) : i \in {k \in 0 .. vl - 1 : ~is_zero(in(k))}}
         IN  exps \subseteq 104 .. 154 /\ (\A e, f \in exps : e - f < 32) =>
             \A i, j \in 0 .. vl - 1 :
                 /\ out(i) <= ONE
                 /\ Below(in(i), in(j)) => out(i) <= out(j)]_benchVars

(* A share in units of 2^-20. *)
Share(v) == IF exponent(v) < 114 THEN 0
            ELSE (128 + mantissa(v)) * 2^(exponent(v) - 114)

Total(words) ==
    LET sum[i \in 0 .. Len(words)] == IF i = 0 THEN 0 ELSE sum[i - 1] + Share(words[i])
    IN  sum[Len(words)]

(* test/main_softmax.cpp: the shares of a softmax sum to about 1 (within   *)
(* a sixteenth).                                                           *)
SoftmaxNormalised ==
    [][Completed({"softmax"}) /\ ~insn'.outside /\ vl > 0 =>
         Total([i \in 1 .. vl |-> WordOf(Elt(vreg', insn'.vd, i - 1, 2, 0))])
             \in 2^20 - 2^16 .. 2^20 + 2^16]_benchVars
=============================================================================
