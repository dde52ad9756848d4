------------------------------ MODULE MCMailbox ------------------------------
(* Instances of Mailbox for TLC. *)
EXTENDS Mailbox, TLC

CONSTANTS h1, h2

MCHosts  == {h1, h2}
OneHost  == {h1}
Symmetry == Permutations(MCHosts)

Param(t) == [r \in DataRegs |-> t[r + 1]]

(* A softmax of four bytes is accepted and one of six bytes is not; 99 is  *)
(* no command; HELLO also comes with zeros.  All four parameters of the    *)
(* two values differ, so that a torn command would show.                   *)
KnownCommands == {HELLO, SOFTMAX}
MixedCommands == {SOFTMAX, 99}
TwoDatas == {Param(<<8, 4, 1, 2>>), Param(<<7, 6, 2, 1>>)}
OneData  == {Param(<<7, 6, 2, 1>>)}
=============================================================================
