---------------------------- MODULE SoftmaxCore -----------------------------
(***************************************************************************)
(* The softmax of custom/riscv/SoftmaxCore.cpp: e^(x - x_max) of every     *)
(* element, times the reciprocal of their sum.  Maxima and sums are taken  *)
(* inside a vector by a tree of pairs and over the vectors from the left.  *)
(***************************************************************************)
EXTENDS BF16

(* The sequence s, computed once: TLC would evaluate an element again at   *)
(* every use of it.                                                        *)
Evaluated(s) == s \o <<>>

(* The two operations a tree is built of. *)
TreeOp(op, a, b, ub) == IF op = "max" THEN bf16_max(a, b) ELSE bf16_add(a, b, FALSE, ub)

(* Mutant: an odd last node is dropped. *)
MutantTree(op, vec, ub) ==
    LET next(nodes) == Evaluated([k \in 1 .. Len(nodes) \div 2 |->
                                     TreeOp(op, nodes[2 * k - 1], nodes[2 * k], ub)])
        level[n \in 0 .. Len(vec)] ==
            IF n = 0 THEN vec ELSE LET below == level[n - 1] IN IF Len(below) = 1 THEN below ELSE next(below)
    IN  level[Len(vec)][1]

(* One level of the tree pairs the neighbours; an odd last node is carried *)
(* over.                                                                   *)
next_level_nodes(op, nodes, ub) ==
    Evaluated([k \in 1 .. (Len(nodes) + 1) \div 2 |->
                  IF 2 * k <= Len(nodes) THEN TreeOp(op, nodes[2 * k - 1], nodes[2 * k], ub)
                  ELSE nodes[2 * k - 1]])

(* The node that is left.  Every level has fewer nodes than the one below, *)
(* so Len(vec) of them are enough.                                         *)
reduction_tree_op(op, vec, ub) ==
    LET level[n \in 0 .. Len(vec)] ==
            IF n = 0 THEN vec
            ELSE LET nodes == level[n - 1]
                 IN  IF Len(nodes) = 1 THEN nodes ELSE next_level_nodes(op, nodes, ub)
    IN  level[Len(vec)][1]

(* The trees of the vectors, combined from the left. *)
OverRow(op, base, row, ub) ==
    LET running[v \in 0 .. Len(row)] ==
            IF v = 0 THEN base
            ELSE TreeOp(op, running[v - 1], reduction_tree_op(op, row[v], ub), ub)
    IN  running[Len(row)]

(* Mutant: the exponentials are delivered unscaled. *)
MutantProcess(input_row, ub) ==
    LET x_max == OverRow("max", NEG_INF, input_row, ub)
    IN  [x_max |-> x_max,
         s_inv |-> ONE,
         final_output |-> [v \in DOMAIN input_row |->
                              Evaluated([i \in DOMAIN input_row[v] |->
                                  bf16_exp(bf16_add(input_row[v][i], x_max, TRUE, ub), ub)])]]

(* SoftmaxCore_Model::process.  The row is a sequence of vectors; x_max,   *)
(* s_inv and the outputs are returned in the shape of the row, as          *)
(* vec_width is the length of every vector but the last.                   *)
process(input_row, ub) ==
    LET x_max == OverRow("max", NEG_INF, input_row, ub)
        exps == Evaluated([v \in DOMAIN input_row |->
                    Evaluated([i \in DOMAIN input_row[v] |->
                        bf16_exp(bf16_add(input_row[v][i], x_max, TRUE, ub), ub)])])
        sum_exp == OverRow("add", make_zero(0), exps, ub)
        s_inv == bf16_reciprocal(sum_exp)
    IN  [x_max |-> x_max,
         s_inv |-> s_inv,
         final_output |-> [v \in DOMAIN exps |->
                              Evaluated([i \in DOMAIN exps[v] |-> bf16_mul(exps[v][i], s_inv)])]]
=============================================================================
