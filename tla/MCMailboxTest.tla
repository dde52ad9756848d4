---------------------------- MODULE MCMailboxTest ----------------------------
(* An instance of MailboxTest for TLC. *)
EXTENDS MailboxTest

CONSTANT h1
MCHosts == {h1}
MCCommands == {HELLO}
MCDatas == {Zeros}
=============================================================================
