---------------------------- MODULE InsnFirmware ----------------------------
(***************************************************************************)
(* The self-checking firmware firmware/insn/main.c: 16 tests, one after    *)
(* the other, of the custom instructions.  A test enables the vector unit, *)
(* sets the vector length, loads its inputs, runs the instruction, stores  *)
(* the result and compares it with a table; the first failure is reported  *)
(* through tohost and ends the program.                                    *)
(*                                                                         *)
(* "vsetvli t0, t0" takes the requested length from t0.  Only some tests   *)
(* load t0 right before; elsewhere the compiler's loops lie in between and *)
(* t0 holds whatever they left: AVL is then any number of LeftoverAvls.    *)
(***************************************************************************)
EXTENDS Xperiv, FiniteSets

CONSTANT LeftoverAvls

ASSUME LeftoverAvlsAssumption == LeftoverAvls \subseteq Nat

VARIABLES
    test,     \* number of the test case that runs; past the last one at the end
    pc,       \* "enable", "configure", "load", "execute" or "verify"
    avl,      \* the length the last vsetvli asked for
    tohost    \* 0 while running, then the report to the host

firmwareVars == <<vectorVars, test, pc, avl, tohost>>

TEST_PASS == 1
TEST_FAIL == 255
ERR_XPERIA_ADD == 16
ERR_XPERIV_ADD == 48
ERR_XPERIV_MUL == 64
ERR_EXP == 80
ERR_SOFTMAX == 96
ERR_QUANT == 112
MSTATUS_VS == 1536
AnyAvl == LeftoverAvls

From(first, n) == [i \in 1 .. n |-> first + i - 1]
Repeat(v, n) == [i \in 1 .. n |-> v]
Distance(a, b) == IF a > b THEN a - b ELSE b - a
HighByte(w) == (w \div 256) * 256

(* What a test asks of result r where the table says e, for input x. *)
ExpClose(tol) == [kind |-> "exp", tol |-> tol, signed |-> FALSE]
ExpSigned(tol) == [kind |-> "exp", tol |-> tol, signed |-> TRUE]
SoftmaxValid(min) == [kind |-> "softmax", min |-> min]
QuantValid(min) == [kind |-> "quant", min |-> min]
QuantClose(zeroTol, tol) == [kind |-> "close", zeroTol |-> zeroTol, tol |-> tol]
Equal == [kind |-> "equal"]

Case(op, err, lmul8, vd, vs1, enable, avls, inputs, expected, check) ==
    [op |-> op, err |-> err, sew |-> 16, lmul8 |-> lmul8, vd |-> vd, vs1 |-> vs1, vs2 |-> 0,
     enable |-> enable, avls |-> avls, load |-> TRUE, inputs |-> inputs, expected |-> expected,
     check |-> check]

(* Tests 2 and 3 work on 32-bit words and share the loaded v0 and v2. *)
Test2 == [Case("add", ERR_XPERIV_ADD, 8, 4, 0, TRUE, {1024}, From(1, 16),
               [i \in 1 .. 16 |-> 4 + 2 * i], Equal)
             EXCEPT !.sew = 32, !.vs2 = 2]
Test3 == [Case("mul", ERR_XPERIV_MUL, 8, 6, 0, FALSE, AnyAvl, <<>>,
               <<5, 12, 21, 32, 45, 60, 77, 96, 117, 140, 165, 192, 221, 252, 285, 320>>, Equal)
             EXCEPT !.sew = 32, !.vs2 = 2, !.load = FALSE]

Test4 ==
    Case("exp", ERR_EXP, 8, 4, 0, TRUE, {MSTATUS_VS},
         <<0, 16256, 49024, 16128, 16384, 16448, 16512, 16000, 16192, 16320, 16416, 16480,
           16160, 16288, 16400, 16496, 16224, 16352, 16432, 16464, 16144, 16272, 16408, 16488,
           16208, 16336, 16424, 16472, 16176, 16304, 16404, 16500>>,
         <<16256, 16430, 16060, 16339, 16620, 16801, 16987, 16292, 16301, 16527, 16773, 16900,
           16274, 16480, 16814, 16946, 16311, 16564, 16870, 16931, 16265, 16498, 16825, 16937,
           16297, 16539, 16851, 16924, 16282, 16509, 16819, 16954>>,
         ExpClose(1024))

Test5case1 ==
    Case("softmax", ERR_SOFTMAX, 8, 4, 0, TRUE, {MSTATUS_VS},
         <<49134, 48942, 16195, 48798, 49046, 49023, 16139, 16314, 48971, 49139, 48906, 16263,
           48954, 49082, 49097, 16261, 49110, 15952, 16004, 16249, 16374, 49039, 48698, 15768,
           16023, 15970, 16234, 16131, 16279, 16043, 48998, 16296>>,
         <<15193, 15407, 15672, 15486, 15315, 15360, 15636, 15798, 15388, 15183, 15435, 15734,
           15398, 15263, 15247, 15730, 15232, 15571, 15583, 15715, 15891, 15330, 15505, 15546,
           15590, 15577, 15701, 15631, 15755, 15601, 15372, 15774>>,
         SoftmaxValid(24))

Test5case2 ==
    Case("softmax", ERR_SOFTMAX, 8, 12, 8, FALSE, AnyAvl,
         From(48938, 32),
         <<15625, 15623, 15623, 15622, 15622, 15621, 15621, 15620, 15620, 15619, 15619, 15619,
           15618, 15617, 15616, 15616, 15615, 15614, 15614, 15613, 15612, 15610, 15610, 15609,
           15608, 15608, 15606, 15605, 15604, 15604, 15602, 15601>>,
         SoftmaxValid(24))

Test6case1 ==
    Case("quant", ERR_QUANT, 8, 4, 0, TRUE, {MSTATUS_VS},
         From(0, 32),
         Repeat(0, 17) \o Repeat(1, 15),
         QuantValid(24))

Test6case2 ==
    Case("quant", ERR_QUANT, 8, 12, 8, FALSE, AnyAvl,
         From(32, 32),
         Repeat(1, 16) \o Repeat(2, 16),
         QuantValid(24))

Test7 ==
    Case("exp", ERR_EXP, 8, 12, 8, FALSE, AnyAvl,
         <<16384, 49152, 16000, 48768, 16192, 48960, 16448, 49216, 16256, 49024, 16512, 49280,
           16128, 48896, 16640, 49408, 16064, 48832, 16160, 48928, 16224, 48992, 16264, 49032,
           16320, 49088, 16352, 49120, 16368, 49136, 16400, 49168>>,
         <<16620, 15589, 16293, 16197, 16331, 16149, 16801, 15978, 16430, 16060, 16987, 15918,
           16339, 16307, 17530, 15786, 16283, 16165, 16357, 16059, 16396, 16252, 16439, 16137,
           16500, 16183, 16564, 16156, 16601, 16142, 16717, 16114>>,
         ExpSigned(1024))

Test8 ==
    Case("exp", ERR_EXP, 16, 8, 0, TRUE, AnyAvl,
         From(544, 64),
         Repeat(16256, 64),
         ExpClose(1536))

Test9 ==
    Case("exp", ERR_EXP, 32, 12, 0, TRUE, AnyAvl,
         From(416, 128),
         Repeat(16256, 128),
         ExpClose(2048))

Test10 ==
    Case("exp", ERR_EXP, 64, 16, 0, TRUE, AnyAvl,
         From(128, 256),
         Repeat(16256, 256),
         ExpClose(2560))

Test11 ==
    Case("softmax", ERR_SOFTMAX, 8, 4, 0, TRUE, AnyAvl,
         From(48938, 8),
         <<15625, 15623, 15623, 15622, 15622, 15621, 15621, 15620>>,
         SoftmaxValid(6))

Test12 ==
    Case("softmax", ERR_SOFTMAX, 16, 8, 0, TRUE, AnyAvl,
         <<49134, 48942, 16195, 48798, 49046, 49023, 16139, 16314, 48971, 49139, 48906, 16263,
           48954, 49082, 49097, 16261>>,
         <<15193, 15407, 15672, 15486, 15315, 15360, 15636, 15798, 15388, 15183, 15435, 15734,
           15398, 15263, 15247, 15730>>,
         SoftmaxValid(12))

Test13 ==
    Case("softmax", ERR_SOFTMAX, 32, 12, 0, TRUE, AnyAvl,
         From(48938, 128),
         <<15400, 15398, 15398, 15396, 15396, 15396, 15395, 15394, 15394, 15393, 15392, 15392,
           15391, 15390, 15390, 15390, 15388, 15388, 15388, 15387, 15386, 15385, 15385, 15384,
           15384, 15384, 15382, 15382, 15381, 15381, 15380, 15380, 15379, 15379, 15378, 15377,
           15377, 15377, 15375, 15375, 15375, 15374, 15373, 15373, 15373, 15372, 15372, 15371,
           15370, 15369, 15369, 15369, 15368, 15367, 15367, 15367, 15366, 15366, 15365, 15364,
           15363, 15363, 15363, 15362, 15361, 15361, 15361, 15360, 15360, 15359, 15358, 15357,
           15357, 15356, 15354, 15354, 15353, 15352, 15350, 15350, 15348, 15346, 15345, 15345,
           15344, 15342, 15342, 15341, 15340, 15338, 15336, 15335, 15332, 15331, 15328, 15327,
           15324, 15323, 15321, 15320, 15319, 15316, 15315, 15312, 15311, 15310, 15308, 15306,
           15304, 15304, 15302, 15300, 15298, 15298, 15295, 15294, 15293, 15291, 15290, 15289,
           15287, 15285, 15285, 15282, 15281, 15279, 15278, 15277>>,
         SoftmaxValid(24))

Test14 ==
    Case("softmax", ERR_SOFTMAX, 64, 16, 0, TRUE, AnyAvl,
         From(48938, 256),
         <<15344, 15342, 15341, 15339, 15339, 15338, 15337, 15335, 15335, 15334, 15333, 15333,
           15331, 15330, 15329, 15329, 15328, 15327, 15327, 15326, 15325, 15323, 15323, 15322,
           15321, 15321, 15319, 15318, 15317, 15317, 15316, 15315, 15314, 15314, 15313, 15312,
           15312, 15311, 15309, 15308, 15308, 15307, 15306, 15306, 15305, 15304, 15304, 15302,
           15301, 15300, 15300, 15299, 15299, 15298, 15298, 15297, 15296, 15296, 15294, 15293,
           15292, 15292, 15291, 15290, 15289, 15289, 15288, 15287, 15287, 15286, 15285, 15284,
           15284, 15284, 15283, 15283, 15282, 15281, 15280, 15280, 15278, 15277, 15276, 15276,
           15275, 15274, 15274, 15273, 15272, 15271, 15269, 15269, 15267, 15266, 15264, 15263,
           15261, 15260, 15259, 15258, 15257, 15255, 15254, 15253, 15252, 15251, 15250, 15248,
           15247, 15247, 15245, 15244, 15242, 15242, 15240, 15239, 15239, 15238, 15237, 15236,
           15235, 15233, 15233, 15231, 15229, 15227, 15225, 15223, 15221, 15219, 15217, 15216,
           15216, 15213, 15211, 15210, 15207, 15206, 15203, 15202, 15200, 15199, 15197, 15195,
           15194, 15191, 15190, 15188, 15187, 15185, 15184, 15181, 15180, 15179, 15177, 15176,
           15173, 15172, 15171, 15170, 15168, 15166, 15165, 15163, 15162, 15160, 15159, 15157,
           15156, 15155, 15154, 15152, 15150, 15149, 15147, 15146, 15145, 15144, 15142, 15141,
           15140, 15139, 15138, 15136, 15135, 15133, 15132, 15130, 15130, 15128, 15127, 15126,
           15125, 15124, 15123, 15122, 15120, 15119, 15118, 15117, 15116, 15114, 15114, 15112,
           15111, 15111, 15110, 15108, 15108, 15107, 15105, 15105, 15103, 15101, 15099, 15095,
           15091, 15088, 15085, 15082, 15077, 15074, 15070, 15067, 15062, 15060, 15058, 15053,
           15051, 15046, 15044, 15041, 15038, 15034, 15032, 15030, 15027, 15025, 15020, 15018,
           15015, 15013, 15010, 15008, 15006, 15002, 15001, 14998, 14996, 14993, 14991, 14988,
           14986, 14985, 14983, 14981>>,
         SoftmaxValid(48))

Test15 ==
    Case("quant", ERR_QUANT, 8, 4, 0, TRUE, AnyAvl,
         From(96, 32),
         Repeat(3, 16) \o Repeat(4, 16),
         QuantClose(53, 48))

Test16 ==
    Case("quant", ERR_QUANT, 16, 8, 0, TRUE, AnyAvl,
         From(128, 64),
         Repeat(8, 9) \o Repeat(9, 15) \o Repeat(10, 17) \o Repeat(11, 15) \o Repeat(12, 8),
         QuantClose(64, 53))

Tests == <<Test2, Test3, Test4, Test5case1, Test5case2, Test6case1, Test6case2, Test7, Test8,
           Test9, Test10, Test11, Test12, Test13, Test14, Test15, Test16>>

-----------------------------------------------------------------------------
(* The comparisons. *)
ExpAccepted(c, x, r, e) ==
    IF c.signed /\ sign(x) = 1 THEN sign(r) = 0
    ELSE HighByte(r) = HighByte(e) \/ Distance(r, e) <= c.tol
SoftmaxAccepted(r, e) ==
    \/ HighByte(r) = HighByte(e)
    \/ /\ HighByte(r) # 0 /\ HighByte(e) # 0
       /\ Distance(HighByte(r), HighByte(e)) <= 512
CloseAccepted(c, r, e) ==
    /\ r = 0 /\ e # 0 => Distance(r, e) <= c.zeroTol
    /\ Distance(r, e) <= c.tol

Accepted(t, results) ==
    LET n == DOMAIN t.expected
        c == t.check
        valid(Ok(_, _)) == Cardinality({i \in n : Ok(results[i], t.expected[i])})
    IN  CASE c.kind = "exp" -> \A i \in n : ExpAccepted(c, t.inputs[i], results[i], t.expected[i])
          [] c.kind = "softmax" -> valid(SoftmaxAccepted) >= c.min
          [] c.kind = "quant" -> valid(LAMBDA r, e : Distance(r % 256, e) <= 1) >= c.min
          [] c.kind = "close" -> \A i \in n : CloseAccepted(c, results[i] % 256, t.expected[i])
          [] c.kind = "equal" -> \A i \in n : results[i] = t.expected[i]

(* What memory holds after the store: vl results, then the zeros the test  *)
(* wrote before.                                                           *)
Results(t) ==
    [i \in DOMAIN t.expected |->
        IF i > vl THEN 0
        ELSE LET b == Elt(vreg, t.vd, i - 1, t.sew \div 8, 0)
             IN  WordOf(b) + (IF t.sew = 32 THEN 65536 * WordOf(<<b[3], b[4]>>) ELSE 0)]

-----------------------------------------------------------------------------
Running(at) == tohost = 0 /\ pc = at

REPORT_FAILURE(error_code) ==
    /\ tohost' = error_code * 256 + TEST_FAIL
    /\ UNCHANGED <<vectorVars, test, pc, avl>>

(* Before the simulator exists there is no register file. *)
FirmwareInit ==
    /\ Reset(<<>>)
    /\ test = 0 /\ pc = "reset" /\ avl = 0 /\ tohost = 0

(* Spike makes the hart and clears its registers. *)
MakeHart ==
    /\ Running("reset")
    /\ vreg' = [b \in FileBytes |-> 0]
    /\ pc' = "execute"
    /\ UNCHANGED <<vtype, vl, vstart, vsOn, insn, test, avl, tohost>>

(* xperia.cc: rd = rs1 + rs2 in 64 bits. *)
peri_a_add_impl(rs1, rs2) == AddBytes(rs1, rs2)

Byte8(v) == <<v, 0, 0, 0, 0, 0, 0, 0>>

Test1 ==
    /\ Running("execute") /\ test = 0
    /\ IF peri_a_add_impl(Byte8(100), Byte8(23)) = Byte8(123)
       THEN test' = 1 /\ pc' = "enable" /\ UNCHANGED <<vectorVars, avl, tohost>>
       ELSE REPORT_FAILURE(ERR_XPERIA_ADD)

Enable ==
    /\ Running("enable") /\ test \in DOMAIN Tests
    /\ IF Tests[test].enable THEN csrs_mstatus ELSE UNCHANGED vectorVars
    /\ pc' = "configure"
    /\ UNCHANGED <<test, avl, tohost>>

Configure ==
    /\ Running("configure")
    /\ avl' \in Tests[test].avls
    /\ vsetvli(avl', Tests[test].sew, Tests[test].lmul8)
    /\ pc' = IF Tests[test].load THEN "load" ELSE "execute"
    /\ UNCHANGED <<test, tohost>>

(* The vector loads: vl inputs (memory behind the table holds zeros) and,  *)
(* for the destination, the zeros written before.  Test 2 loads v2         *)
(* instead, with the inputs 4 larger.                                      *)
Load ==
    /\ Running("load")
    /\ LET t == Tests[test]
           w == t.sew \div 8
           word(i) == IF i <= Len(t.inputs) THEN t.inputs[i] ELSE 0
           second == IF t.sew = 32 THEN t.vs2 ELSE t.vd
           value(reg, i) == IF reg = t.vs1 THEN word(i) ELSE IF t.sew = 32 THEN word(i) + 4 ELSE 0
           from(reg, b) == b - reg * VLENB
           byte(reg, b) == (value(reg, from(reg, b) \div w + 1) \div 256^(from(reg, b) % w)) % 256
           in(reg, b) == from(reg, b) \in 0 .. vl * w - 1
       IN  vreg' = [b \in FileBytes |-> IF in(second, b) THEN byte(second, b)
                                        ELSE IF in(t.vs1, b) THEN byte(t.vs1, b) ELSE vreg[b]]
    /\ pc' = "execute"
    /\ UNCHANGED <<vtype, vl, vstart, vsOn, insn, test, avl, tohost>>

Execute ==
    /\ Running("execute") /\ test # 0
    /\ LET t == Tests[test]
       IN  CASE t.op = "add" -> peri_v_add_impl(t.vd, t.vs1, t.vs2, TRUE)
             [] t.op = "mul" -> peri_v_mul_impl(t.vd, t.vs1, t.vs2, TRUE)
             [] t.op = "exp" -> exp_impl(t.vd, t.vs1)
             [] t.op = "softmax" -> softmax_impl(t.vd, t.vs1)
             [] t.op = "quant" -> quant_impl(t.vd, t.vs1)
    /\ pc' = "verify"
    /\ UNCHANGED <<test, avl, tohost>>

Verify ==
    /\ Running("verify")
    /\ IF Accepted(Tests[test], Results(Tests[test]))
       THEN test' = test + 1 /\ pc' = "enable" /\ UNCHANGED <<vectorVars, avl, tohost>>
       ELSE REPORT_FAILURE(Tests[test].err)

ReportSuccess ==
    /\ Running("enable") /\ test = Len(Tests) + 1
    /\ tohost' = TEST_PASS
    /\ UNCHANGED <<vectorVars, test, pc, avl>>

FirmwareNext ==
    MakeHart \/ Test1 \/ Enable \/ Configure \/ Load \/ Execute \/ Verify \/ ReportSuccess
=============================================================================
