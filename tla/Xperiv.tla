------------------------------- MODULE Xperiv -------------------------------
(***************************************************************************)
(* The vector instructions of extensions/xperiv.cc on Spike's vector unit: *)
(* PERI_V_ADD and PERI_V_MUL, which go through Spike's checking loop       *)
(* macros, and EXP, SOFTMAX and QUANT, which walk the register file        *)
(* themselves.  The file is one array of bytes, as in Spike, so a group of *)
(* registers is a run of bytes, and element i of a register is found       *)
(* relative to it wherever the register ends.                              *)
(***************************************************************************)
EXTENDS SoftmaxCore

CONSTANTS
    NVPR,           \* number of vector registers
    VLENB,          \* bytes of one register
    ELEN,           \* widest element, in bits
    VstartAlu,      \* may arithmetic start at an element other than 0?
    Outside         \* bytes that may be found behind the register file

ASSUME XperivAssumption ==
    /\ NVPR \in Nat \ {0} /\ VLENB \in Nat \ {0} /\ ELEN \in {8, 16, 32, 64}
    /\ VstartAlu \in BOOLEAN
    /\ Outside \subseteq 0 .. 255

VARIABLES
    vreg,     \* the register file
    vtype,    \* element width, group size in eighths of a register, vill
    vl,       \* number of elements to process
    vstart,   \* first element to process
    vsOn,     \* is the vector unit switched on in mstatus?
    insn      \* the last instruction and what became of it

vectorVars == <<vreg, vtype, vl, vstart, vsOn, insn>>

Quant == INSTANCE MxFp8ActQuant

FileBytes == 0 .. NVPR * VLENB - 1
GroupRegs(lmul8) == IF lmul8 <= 8 THEN 1 ELSE lmul8 \div 8
VLMAX(sew, lmul8) == (VLENB * lmul8) \div sew

-----------------------------------------------------------------------------
(* Spike's elt<T>(reg, i): w bytes, counted from the start of reg. *)
At(reg, i, w) == reg * VLENB + i * w
Elt(file, reg, i, w, outside) ==
    [k \in 1 .. w |-> LET a == At(reg, i, w) + k - 1
                      IN  IF a \in FileBytes THEN file[a] ELSE outside]
SetElt(file, reg, i, bytes) ==
    LET a == At(reg, i, Len(bytes))
    IN  [b \in FileBytes |-> IF a <= b /\ b < a + Len(bytes) THEN bytes[b - a + 1] ELSE file[b]]
MaskBit(file, i) == (file[i \div 8] \div 2^(i % 8)) % 2

WordOf(bytes) == bytes[1] + 256 * bytes[2]
BytesOf(w) == <<w % 256, w \div 256>>

(* Sum and product of two elements, least significant byte first, cut to   *)
(* the width of the element.                                               *)
AddBytes(a, b) ==
    LET carry[k \in 0 .. Len(a)] == IF k = 0 THEN 0 ELSE (a[k] + b[k] + carry[k - 1]) \div 256
    IN  [k \in 1 .. Len(a) |-> (a[k] + b[k] + carry[k - 1]) % 256]
MulBytes(a, b) ==
    LET part(k) == LET sum[j \in 0 .. k] == IF j = 0 THEN 0 ELSE sum[j - 1] + a[j] * b[k + 1 - j]
                   IN  sum[k]
        carry[k \in 0 .. Len(a)] == IF k = 0 THEN 0 ELSE (part(k) + carry[k - 1]) \div 256
    IN  [k \in 1 .. Len(a) |-> (part(k) + carry[k - 1]) % 256]

-----------------------------------------------------------------------------
is_aligned(val, pos) == pos = 0 \/ val % pos = 0
is_overlapped(astart, asize, bstart, bsize) ==
    LET size(n) == IF n = 0 THEN 1 ELSE n
        aend == astart + size(asize)
        bend == bstart + size(bsize)
    IN  (IF aend > bend THEN aend ELSE bend) - (IF astart < bstart THEN astart ELSE bstart)
            < size(asize) + size(bsize)

require_vm(vd, vm) == vm \/ vd # 0
require_vector == vsOn /\ ~vtype.vill /\ (VstartAlu \/ vstart = 0)

(* Mutant: a masked instruction may overwrite its own mask. *)
MutantCheckSSS(vd, vs1, vs2, vm) ==
    vtype.lmul8 > 8 => \A r \in {vd, vs1, vs2} : is_aligned(r, vtype.lmul8 \div 8)

VI_CHECK_SSS(vd, vs1, vs2, vm) ==
    /\ require_vm(vd, vm)
    /\ vtype.lmul8 > 8 => \A r \in {vd, vs1, vs2} : is_aligned(r, vtype.lmul8 \div 8)

ElementOp(op, a, b) == IF op = "add" THEN AddBytes(a, b) ELSE MulBytes(a, b)

(* The loop, in place: an element is read after the earlier ones are       *)
(* written, and so is its mask bit.                                        *)
VI_LOOP(op, vd, vs1, vs2, vm) ==
    LET w == vtype.sew \div 8
        after[i \in 0 .. vl] ==
            IF i <= vstart THEN vreg
            ELSE LET file == after[i - 1]
                 IN  IF ~vm /\ MaskBit(file, i - 1) = 0 THEN file
                     ELSE SetElt(file, vd, i - 1, ElementOp(op, Elt(file, vs1, i - 1, w, 0),
                                                            Elt(file, vs2, i - 1, w, 0)))
    IN  after[vl]

Ran(op, vd, vs1, vs2, vm, outside) ==
    [op |-> op, vd |-> vd, vs1 |-> vs1, vs2 |-> vs2, vm |-> vm, outside |-> outside,
     trapped |-> FALSE]

Trap(op, vd, vs1, vs2, vm) ==
    /\ insn' = [Ran(op, vd, vs1, vs2, vm, FALSE) EXCEPT !.trapped = TRUE]
    /\ UNCHANGED <<vreg, vtype, vl, vstart, vsOn>>

VI_VV_LOOP(op, vd, vs1, vs2, vm) ==
    IF VI_CHECK_SSS(vd, vs1, vs2, vm) /\ require_vector
    THEN /\ vreg' = VI_LOOP(op, vd, vs1, vs2, vm)
         /\ vstart' = 0
         /\ insn' = Ran(op, vd, vs1, vs2, vm, FALSE)
         /\ UNCHANGED <<vtype, vl, vsOn>>
    ELSE Trap(op, vd, vs1, vs2, vm)

peri_v_add_impl(vd, vs1, vs2, vm) == VI_VV_LOOP("add", vd, vs1, vs2, vm)
peri_v_mul_impl(vd, vs1, vs2, vm) == VI_VV_LOOP("mul", vd, vs1, vs2, vm)

-----------------------------------------------------------------------------
(* EXP, SOFTMAX and QUANT take vl elements of 16 bits, whatever the        *)
(* element width.  They look at none of mstatus, vill, vstart and the      *)
(* mask, do not reset vstart and do not check that a group is aligned or   *)
(* inside the file.                                                        *)
Reaches(reg) == vl > 0 /\ At(reg, vl, 2) > NVPR * VLENB

Inputs(vs1, outside) ==
    Evaluated([i \in 1 .. vl |-> WordOf(Elt(vreg, vs1, i - 1, 2, outside))])

StoreAll(vd, words) ==
    [b \in FileBytes |-> LET i == (b - vd * VLENB) \div 2
                         IN  IF b >= vd * VLENB /\ i < vl
                             THEN BytesOf(words[i + 1])[((b - vd * VLENB) % 2) + 1] ELSE vreg[b]]

Store(op, vd, vs1, file) ==
    /\ vreg' = file
    /\ insn' = Ran(op, vd, vs1, 0, TRUE, Reaches(vd) \/ Reaches(vs1))
    /\ UNCHANGED <<vtype, vl, vstart, vsOn>>

(* Mutant: one element more than vl. *)
MutantExpLoop(vd, vs1, outside) ==
    LET ahead == (vd - vs1) * (VLENB \div 2)
        result[i \in 1 .. vl + 1] ==
            bf16_expp(IF vd > vs1 /\ i > ahead THEN result[i - ahead]
                      ELSE WordOf(Elt(vreg, vs1, i - 1, 2, outside)))
    IN  [b \in FileBytes |-> LET i == (b - vd * VLENB) \div 2
                             IN  IF b >= vd * VLENB /\ i <= vl
                                 THEN BytesOf(result[i + 1])[((b - vd * VLENB) % 2) + 1]
                                 ELSE vreg[b]]

(* EXP goes element by element, in place: where the destination starts     *)
(* inside the source group, element i finds what was stored for element    *)
(* i - ahead.                                                              *)
ExpLoop(vd, vs1, outside) ==
    LET ahead == (vd - vs1) * (VLENB \div 2)
        result[i \in 1 .. vl] ==
            bf16_expp(IF vd > vs1 /\ i > ahead THEN result[i - ahead]
                      ELSE WordOf(Elt(vreg, vs1, i - 1, 2, outside)))
    IN  StoreAll(vd, result)

exp_impl(vd, vs1) ==
    IF vd # vs1 /\ is_overlapped(vd, 1, vs1, 1) THEN Trap("exp", vd, vs1, 0, TRUE)
    ELSE \E outside \in Outside : Store("exp", vd, vs1, ExpLoop(vd, vs1, outside))

(* SOFTMAX and QUANT collect all inputs before they store a result. *)
softmax_impl(vd, vs1) ==
    \E outside \in Outside, ub \in ShiftOutcomes :
        Store("softmax", vd, vs1,
              IF vl = 0 THEN vreg
              ELSE StoreAll(vd, process(<<Inputs(vs1, outside)>>, ub).final_output[1]))

quant_impl(vd, vs1) ==
    \E outside \in Outside :
        Store("quant", vd, vs1,
              IF vl = 0 THEN vreg
              ELSE StoreAll(vd, Quant!quantize(Inputs(vs1, outside)).act))

-----------------------------------------------------------------------------
(* Spike's side: vsetvli, a write of vstart, and mstatus. *)
vsetvli(avl, sew, lmul8) ==
    /\ vsOn
    /\ LET vill == sew * 8 > (IF lmul8 < 8 THEN lmul8 ELSE 8) * ELEN
           max == VLMAX(sew, lmul8)
       IN  /\ vtype' = [sew |-> sew, lmul8 |-> lmul8, vill |-> vill]
           /\ vl' = IF vill THEN 0 ELSE IF avl < max THEN avl ELSE max
    /\ vstart' = 0
    /\ UNCHANGED <<vreg, vsOn, insn>>

write_vstart(i) ==
    /\ vsOn
    /\ vstart' = i
    /\ UNCHANGED <<vreg, vtype, vl, vsOn, insn>>

csrs_mstatus ==
    /\ vsOn' = TRUE
    /\ UNCHANGED <<vreg, vtype, vl, vstart, insn>>

NoInsn == [op |-> "none", vd |-> 0, vs1 |-> 0, vs2 |-> 0, vm |-> TRUE, outside |-> FALSE,
           trapped |-> FALSE]

(* Reset: vtype is illegal, the unit is off. *)
Reset(file) ==
    /\ vreg = file
    /\ vtype = [sew |-> 8, lmul8 |-> 8, vill |-> TRUE]
    /\ vl = 0 /\ vstart = 0 /\ vsOn = FALSE
    /\ insn = NoInsn
=============================================================================
