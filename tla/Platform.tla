------------------------------ MODULE Platform -------------------------------
(***************************************************************************)
(* What the two platforms, TurboSoc and DemoSim, have in common: a reset   *)
(* vector in memory, Spike's own bus at the lowest addresses, the test     *)
(* status register of the SoC, and a hart that runs a program of loads and *)
(* stores.                                                                 *)
(***************************************************************************)
EXTENDS ElfLoader

CONSTANTS RomBase,       \* 0x1000, where the reset vector is
          RomVector,     \* its words, without the start address
          PGSIZE,        \* addresses below it are on Spike's own bus
          ScrBase, StatusOffset,    \* sc_soc_scr and its test status register
          Loads,         \* the loads of the program: <<address, length>>
          Stores,        \* its stores: <<address, bytes>>
          MaxAccesses    \* bound: accesses of one behaviour

(* An access stays in a page, as it does when misaligned ones trap. *)
ASSUME AccessAssumption ==
    /\ RomBase \in Nat /\ RomVector \in Seq(Nat)
    /\ PGSIZE \in Nat
    /\ \A l \in Loads : /\ l[1] \in Nat /\ l[2] \in Nat
                         /\ (l[1] % PageSize) + l[2] <= PageSize
    /\ \A s \in Stores : /\ s[1] \in Nat /\ s[2] \in Seq(Nat)
                          /\ (s[1] % PageSize) + Len(s[2]) <= PageSize
=============================================================================
