------------------------------- MODULE DemoSim -------------------------------
(***************************************************************************)
(* The C++ demo: demo_core steps a hart whose accesses go over Spike's bus *)
(* to the debug module or, by the bus's fallback, to a memory_simulator,   *)
(* which main() reaches through memory_simulator_wrapper or, when built    *)
(* with USE_BRIDGE, through memory_sim_bridge.  Everything runs in one     *)
(* thread, so an access is one step.                                       *)
(***************************************************************************)
EXTENDS Platform

CONSTANTS Elfs,          \* what may be at sw/main.elf
          NoElf,         \* no file
          START_PC

(* The file holds bytes and is there or not; the reset vector is in the    *)
(* array and stays in a page.                                              *)
ASSUME DemoAssumption ==
    /\ Elfs \subseteq ElfFile /\ NoElf \notin Elfs /\ START_PC \in Nat
    /\ RomBase < SIZE /\ (RomBase % PageSize) + Len(RomVector) + 1 <= PageSize

VARIABLES
    main,        \* where main() is: "construct", "load", "boot", "step", "exit" or "abort"
    bridge,      \* built with USE_BRIDGE
    elf,         \* the file
    store,       \* sparse_arr
    start_pc,    \* memory_simulator::start_pc
    pc,          \* where the hart went from the reset vector, or -1
    buf,         \* the buffer of the hart's last load
    accesses

demoVars == <<main, bridge, elf, store, start_pc, pc, buf, accesses>>

DemoInit ==
    /\ main = "construct" /\ bridge \in BOOLEAN /\ elf \in Elfs \cup {NoElf}
    /\ store = NoPages /\ start_pc = START_PC
    /\ pc = -1 /\ buf = <<>> /\ accesses = 0

(* Mutant: the constructor leaves the last word of the vector out. *)
MutantRom(arr) == write(arr, RomBase, RomVector, <<>>)

set_rom_contents(arr) == write(arr, RomBase, Append(RomVector, start_pc), <<>>)

(* The constructors of the memory simulator, which writes the reset        *)
(* vector, of the bridge, which sets start_pc afterwards to its own        *)
(* default, and of demo_core.                                              *)
Construct ==
    /\ main = "construct"
    /\ store' = set_rom_contents(store).arr
    /\ start_pc' = START_PC
    /\ main' = "load"
    /\ UNCHANGED <<bridge, elf, pc, buf, accesses>>

(* main(): reset, the check that the file is there, load_elf_file and the  *)
(* assertion on the entry point.                                           *)
LoadElfFile ==
    /\ main = "load"
    /\ IF elf = NoElf THEN main' = "exit" /\ store' = store
       ELSE LET l == load_elf(store, elf)
            IN  /\ store' = l.arr
                /\ main' = IF l.outcome = "ok" /\ l.entry = START_PC THEN "boot" ELSE "abort"
    /\ UNCHANGED <<bridge, elf, start_pc, pc, buf, accesses>>

(* The first instructions of the hart, which are the reset vector: they    *)
(* load its last word and jump there.                                      *)
Boot ==
    /\ main = "boot"
    /\ pc' = read(store, RomBase + Len(RomVector), 1, 0).data[1]
    /\ main' = "step"
    /\ UNCHANGED <<bridge, elf, store, start_pc, buf, accesses>>

(* The bus of demo_core: the debug module is at address 0, everything else *)
(* falls back to the external simulator.                                   *)
OnDebugModule(addr) == addr < PGSIZE

(* memory_simulator::write: a test status other than zero ends the program *)
(* with an assertion.                                                      *)
sim_write(addr, data) ==
    IF addr = ScrBase + StatusOffset /\ data[1] # 0 THEN [ok |-> FALSE, arr |-> store]
    ELSE write(store, addr, data, <<>>)

(* The wrapper and the bridge hand an access on, without looking at it. *)
ext_load(addr, len) == read(store, addr, len, 0)
ext_store(addr, data) == sim_write(addr, data)

(* demo_core::mmio_load and mmio_fetch: the debug module's answer is of no *)
(* interest here.                                                          *)
DemoLoad(addr, len) ==
    /\ main = "step" /\ accesses < MaxAccesses
    /\ accesses' = accesses + 1
    /\ IF OnDebugModule(addr) THEN UNCHANGED <<main, store, buf>>
       ELSE LET r == ext_load(addr, len)
            IN  /\ main' = IF r.ok THEN main ELSE "abort"
                /\ store' = r.arr
                /\ buf' = IF r.ok THEN r.data ELSE buf
    /\ UNCHANGED <<bridge, elf, start_pc, pc>>

(* demo_core::mmio_store. *)
DemoStore(addr, data) ==
    /\ main = "step" /\ accesses < MaxAccesses
    /\ accesses' = accesses + 1
    /\ IF OnDebugModule(addr) THEN UNCHANGED <<main, store>>
       ELSE LET w == ext_store(addr, data)
            IN  /\ main' = IF w.ok THEN main ELSE "abort"
                /\ store' = w.arr
    /\ UNCHANGED <<bridge, elf, start_pc, pc, buf>>

DemoNext ==
    \/ Construct \/ LoadElfFile \/ Boot
    \/ \E l \in Loads : DemoLoad(l[1], l[2])
    \/ \E s \in Stores : DemoStore(s[1], s[2])

DemoSpec == DemoInit /\ [][DemoNext]_demoVars

-----------------------------------------------------------------------------
InRom(a) == a \in RomBase .. RomBase + Len(RomVector)

(* elfloader.h, sparse_array.h: after load_elf each byte that a segment    *)
(* puts into its first page, and that no later segment covers, is the      *)
(* file's; a byte that neither a segment nor the reset vector covers, such *)
(* as one of .bss, is zero although the loader does not clear it.  What a  *)
(* segment puts beyond its first page is not the file's, since write()     *)
(* starts again at the first byte.                                         *)
ImageLoaded ==
    main \in {"boot", "step"} /\ accesses = 0 => \A a \in 0 .. SIZE - 1 :
        /\ \A i \in DOMAIN elf.ph :
              /\ CoversFirstPage(elf.ph[i], a)
              /\ \A j \in i + 1 .. Len(elf.ph) : ~Covers(elf.ph[j], a)
              => ByteAt(store, a) = elf.ph[i].file[a - elf.ph[i].paddr + 1]
        /\ (\A i \in DOMAIN elf.ph : ~Covers(elf.ph[i], a)) /\ ~InRom(a) => ByteAt(store, a) = 0

(* main.cc, memory_simulator.cc: the hart begins at the entry point of the *)
(* file, although the reset vector is written before the file is read and  *)
(* the bridge sets start_pc after that; a segment over the reset vector    *)
(* excepted.                                                               *)
BootsAtEntry ==
    pc # -1 /\ (\A i \in DOMAIN elf.ph : \A a \in 0 .. SIZE - 1 : ~(Covers(elf.ph[i], a) /\ InRom(a)))
        => pc = elf.entry

FlatStore == [a \in 0 .. SIZE - 1 |-> ByteAt(store, a)]

LoadIsFlat(addr, len) ==
    /\ FlatStore' = FlatStore
    /\ buf' = [i \in 1 .. len |-> FlatStore[addr + i - 1]]

StoreIsFlat(addr, data) ==
    /\ buf' = buf
    /\ FlatStore' = [a \in 0 .. SIZE - 1 |->
          IF a \in addr .. addr + Len(data) - 1 THEN data[a - addr + 1] ELSE FlatStore[a]]

(* memory_simulator.cc, sparse_array.h: while the hart runs, a load fills  *)
(* its buffer with the bytes stored last and changes no byte of memory,    *)
(* although it may allocate a page, and a store changes exactly its bytes. *)
StepsAreAccesses ==
    [][main' = "step" =>
          /\ \A l \in Loads : l[1] >= PGSIZE /\ DemoLoad(l[1], l[2]) => LoadIsFlat(l[1], l[2])
          /\ \A s \in Stores : s[1] >= PGSIZE /\ DemoStore(s[1], s[2]) => StoreIsFlat(s[1], s[2])
      ]_<<store, buf, accesses>>
=============================================================================
