------------------------------ MODULE ElfLoader ------------------------------
(***************************************************************************)
(* util/elfloader.h and the loading of memory before a hart runs.  An ELF  *)
(* file is a record: header says that the assertions on the ELF header     *)
(* hold, le that it is little endian, sections that those on the section   *)
(* and symbol tables hold; ph are the program headers, of which load is    *)
(* p_type = PT_LOAD, file the bytes of the segment, inside that they are   *)
(* in the file, and memsz its size in memory.                              *)
(***************************************************************************)
EXTENDS SparseArray

(* A program header whose segment is no longer in the file than in memory, *)
(* and the files that have such headers.                                   *)
ProgramHeader ==
    {p \in [load : BOOLEAN, paddr : Nat, file : Seq(Nat), memsz : Nat, inside : BOOLEAN] :
        Len(p.file) <= p.memsz}
ElfFile == [header : BOOLEAN, le : BOOLEAN, sections : BOOLEAN, entry : Nat, ph : Seq(ProgramHeader)]

(* The bytes of a segment's file, and those of them that are in the page   *)
(* where it begins.                                                        *)
Covers(p, a) == p.load /\ a \in p.paddr .. p.paddr + Len(p.file) - 1
CoversFirstPage(p, a) == Covers(p, a) /\ a \div PageSize = p.paddr \div PageSize

(* Mutant: the headers are compared with PT_LOAD the wrong way round. *)
MutantLoadSegment(s, p) ==
    IF ~(s.ok /\ ~p.load /\ p.memsz # 0 /\ p.file # <<>>) THEN s
    ELSE write(s.arr, p.paddr, p.file, <<>>)

(* A segment's bytes are written; the rest up to memsz is left as it is,   *)
(* since the code that cleared it is commented out.                        *)
LoadSegment(s, p) ==
    IF ~(s.ok /\ p.load /\ p.memsz # 0 /\ p.file # <<>>) THEN s
    ELSE IF ~p.inside THEN [s EXCEPT !.ok = FALSE]
    ELSE write(s.arr, p.paddr, p.file, <<>>)

(* load_elf: the outcome is "ok", a failed assertion ("abort") or the      *)
(* exception for a big endian file ("throw").                              *)
load_elf(arr, elf) ==
    LET seg[i \in 0 .. Len(elf.ph)] ==
            IF i = 0 THEN [ok |-> TRUE, arr |-> arr] ELSE LoadSegment(seg[i - 1], elf.ph[i])
        last == seg[Len(elf.ph)]
    IN  IF ~elf.header THEN [outcome |-> "abort", arr |-> arr, entry |-> 0]
        ELSE IF ~elf.le THEN [outcome |-> "throw", arr |-> arr, entry |-> 0]
        ELSE [outcome |-> IF last.ok /\ elf.sections THEN "ok" ELSE "abort",
              arr |-> last.arr, entry |-> elf.entry]
=============================================================================
