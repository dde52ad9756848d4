------------------------------- MODULE MCInsn -------------------------------
(***************************************************************************)
(* The launcher, which handles any of the command lines and, with the      *)
(* default memory and one hart, runs the self-checking firmware on the     *)
(* real register file.                                                     *)
(***************************************************************************)
EXTENDS InsnFirmware, SpikeInsn

CONSTANTS Bases, Sizes, FileSizes

vars == <<firmwareVars, launcherVars>>

(* Command lines: -m with one to three regions of every alignment, the     *)
(* ones that wrap around or cover everything included; the legacy form     *)
(* with sizes that overflow; malformed pairs; and the other options in     *)
(* both orders.                                                            *)
Mem(pairs) == [opt |-> "m", legacy |-> FALSE, broken |-> FALSE, mb |-> 0, pairs |-> pairs]
Broken(pairs) == [opt |-> "m", legacy |-> FALSE, broken |-> TRUE, mb |-> 0, pairs |-> pairs]
Legacy(mb) == [opt |-> "m", legacy |-> TRUE, broken |-> FALSE, mb |-> mb, pairs |-> <<>>]
Procs(n) == [opt |-> "p", n |-> n]
Hartids(ids) == [opt |-> "hartids", ids |-> ids]
File(opt, size) == [opt |-> opt, size |-> size]
Setting(opt, name, value) == [opt |-> opt, name |-> name, value |-> value]
Named(opt, name, found) == [opt |-> opt, name |-> name, found |-> found]

(* The extensions the firmware needs. *)
Both == <<Named("extension", "peria", TRUE), Named("extension", "periv", TRUE)>>

MCSettings ==
    {Setting("help", "help", 0), Setting("flag", "dump-dts", 0), Setting("flag", "halted", 0),
     Setting("number", "triggers", -1), Setting("number", "triggers", 4), Setting("text", "ic", 1)}
    \cup {Setting("blocksz", "blocksz", b) : b \in 0 .. PGSIZE + 1}
    \cup {Named(opt, "x", found) : opt \in {"extension", "extlib", "debug-cmd", "device"}, found \in BOOLEAN}

Pairs == Bases \X Sizes

MCCommandLines ==
    {<<>>, Both, <<Procs(2)>>} \cup
    {<<o, q>> : o, q \in MCSettings} \cup
    {<<Mem(<<a>>)>> : a \in (0 .. Space - 1) \X (0 .. Space - 1)} \cup
    {<<Mem(<<a, b>>)>> : a, b \in Pairs} \cup
    {<<Mem(<<a, b, c>>)>> : a, b, c \in {0, 4, 8, 12, 20} \X {4, 8, 12, 20}} \cup
    {<<Legacy(mb)>> : mb \in 0 .. Space} \cup
    {<<Broken(<<>>)>>, <<Broken(<<<<4, 8>>>>)>>, <<Broken(<<<<0, 0>>>>)>>} \cup
    {<<Mem(<<a>>), Legacy(4)>> : a \in Pairs} \cup
    {<<File("kernel", k), Mem(<<<<0, s>>, <<12, 12>>>>), File("initrd", i)>> :
        k, i \in FileSizes, s \in {8, 12, 16, 20}} \cup
    {<<Procs(n), Hartids(ids)>> : n \in 0 .. 2, ids \in {<<>>, <<3>>, <<2, 1>>, <<1, 1>>, <<0, -1>>}} \cup
    {<<Hartids(<<2, 1>>), Procs(n)>> : n \in 0 .. 3}

MCFileSizes == {-1, 0, 1, 2, 3, 4, 5, 7, 8}
MCDefaultLayout == <<Region(8, 16)>>

MCShiftOutcomes == [wraps : BOOLEAN, beyond : {0}]

MCInit == LauncherInit /\ FirmwareInit

MCNext ==
    \/ LauncherNext /\ UNCHANGED firmwareVars
    \/ /\ mainpc = "run" /\ asked = <<>> /\ cores # <<>> /\ hartids = <<0>>
       /\ FirmwareNext
       /\ UNCHANGED launcherVars

MCSpec == MCInit /\ [][MCNext]_vars

(* firmware/insn/main.c: the instructions deliver what the firmware's      *)
(* tables say.  A test only fails when a leftover t0 gave it a vl below    *)
(* the number of elements it compares.                                     *)
FailureNeedsShortVl ==
    tohost > TEST_PASS => vl < Len(Tests[test].expected)
=============================================================================
