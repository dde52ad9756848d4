------------------------------ MODULE MCCustom ------------------------------
(***************************************************************************)
(* The arithmetic of custom/ on four test benches, of which a behaviour    *)
(* runs one: WordSweep; GemmBench with mixed inputs; HeavyCalls calls of   *)
(* the matrix unit with the largest products, enough for a partial sum to  *)
(* carry; and VectorBench, on a file small enough to run every overlap,    *)
(* misalignment, mask and overrun.                                         *)
(***************************************************************************)
EXTENDS GemmBench, VectorBench, WordSweep

CONSTANTS Benches, HeavyCalls

VARIABLE bench    \* the test bench: "sweep", "mixed", "heavy" or "vector"

vars == <<gemmVars, benchSums, benchVars, word, bench>>

Pad(s) == [i \in 1 .. ROW_SIZE |-> IF i <= Len(s) THEN s[i] ELSE 0]
Full(v) == [i \in 1 .. ROW_SIZE |-> v]

MCActRows == {Pad(<<60, 185, 12>>), Pad(<<8, 137, 1>>)}
MCWgtCols == {Pad(<<66, 60, 131>>), Full(18), Pad(<<74, 52, 128>>)}
MCScaleTensors == {[exp |-> 127, mat |-> 0]}
MCShiftOutcomes == [wraps : BOOLEAN, beyond : {0}]

(* The registers as words: positive and negative numbers, a denormal, and  *)
(* a v0 whose low byte (the mask) is 10100101. *)
OrdinaryWords == <<16293, 49024, 16384, 5, 16128, 49216, 16000, 16448>>
DistantWords == <<16824, 0, 16293, 49024, 0, 16384, 49216, 16128>>
FileOf(words) == [b \in FileBytes |-> BytesOf(words[b \div 2 + 1])[(b % 2) + 1]]
ZeroFile == [b \in FileBytes |-> 0]
MCFiles == {FileOf(OrdinaryWords), FileOf(DistantWords)}

-----------------------------------------------------------------------------
MCInit ==
    /\ GemmInit
    /\ bench \in Benches
    /\ IF bench = "vector" THEN VectorInit ELSE count = 0 /\ Reset(ZeroFile)
    /\ IF bench = "sweep" THEN SweepInit ELSE word = 0

MCNext ==
    \/ /\ bench = "sweep"
       /\ SweepStep
       /\ UNCHANGED <<gemmVars, benchSums, benchVars, bench>>
    \/ /\ bench = "mixed"
       /\ GemmNext
       /\ UNCHANGED <<benchVars, bench, word>>
    \/ /\ bench = "heavy" /\ calls < HeavyCalls
       /\ \E norm \in BOOLEAN, wgt \in {Full(31), Full(159)}, sw \in ScaleWgts :
             GemmCall(TRUE, norm, Full(63), wgt, 125, sw)
       /\ UNCHANGED <<benchVars, bench, word>>
    \/ /\ bench = "vector"
       /\ VectorNext
       /\ UNCHANGED <<gemmVars, benchSums, bench, word>>

MCSpec == MCInit /\ [][MCNext]_vars
=============================================================================
