----------------------------- MODULE MCPlatforms -----------------------------
(***************************************************************************)
(* The two platforms, TurboSoc and DemoSim, of which a behaviour runs one. *)
(* Memory has four pages of four bytes: addresses 0 and 1 are Spike's own, *)
(* 4 to 6 hold the reset vector, 8 and 9 are the registers of sc_soc_scr   *)
(* and 16 is behind the array.  Accesses are aligned, as they are when     *)
(* misaligned ones trap, and reach both ends of a page.                    *)
(***************************************************************************)
EXTENDS TurboSoc, DemoSim

VARIABLE program

allVars == <<program, vars, demoVars>>

Segment(load, paddr, file, memsz) ==
    [load |-> load, paddr |-> paddr, file |-> file, memsz |-> memsz, inside |-> TRUE]
File(entry, ph) == [header |-> TRUE, le |-> TRUE, sections |-> TRUE, entry |-> entry, ph |-> ph]

MCElf == File(12, <<Segment(TRUE, 12, <<1, 2>>, 3), Segment(FALSE, 2, <<9>>, 1)>>)

(* Segments that overlap, end at the end of a page, cross into the next    *)
(* page or the end of memory, cover the reset vector or hold only .bss;    *)
(* and the files that the loader's assertions refuse.                      *)
MCElfs ==
    {MCElf,
     File(12, <<Segment(TRUE, 12, <<1, 2, 3>>, 4), Segment(TRUE, 13, <<4, 5, 6>>, 3)>>),
     File(12, <<Segment(TRUE, 10, <<1, 2, 3, 4>>, 4)>>),
     File(12, <<Segment(TRUE, 14, <<1, 2, 3>>, 3)>>),
     File(12, <<Segment(TRUE, 6, <<3>>, 1), Segment(TRUE, 12, <<>>, 2)>>),
     File(13, <<Segment(TRUE, 12, <<1>>, 1)>>),
     File(12, <<[Segment(TRUE, 12, <<1>>, 1) EXCEPT !.inside = FALSE]>>),
     [MCElf EXCEPT !.header = FALSE], [MCElf EXCEPT !.le = FALSE], [MCElf EXCEPT !.sections = FALSE]}
MCNoElf == File(-1, <<>>)
MCRomVector == <<7, 7>>
MCLoads == {<<0, 1>>, <<2, 2>>, <<4, 4>>, <<6, 2>>, <<8, 1>>, <<9, 1>>, <<10, 2>>, <<12, 4>>, <<16, 1>>}
MCStores == {<<1, <<5>>>>, <<3, <<5>>>>, <<6, <<5, 6>>>>, <<8, <<5>>>>, <<9, <<5>>>>, <<9, <<0>>>>,
             <<12, <<5, 6, 8, 9>>>>, <<14, <<3, 4>>>>, <<17, <<5>>>>}
MCDelay == [e \in Queues |-> CASE e = "pend_r" -> 1 [] e = "ack_r" -> 6 [] e = "pend_w" -> 0 [] e = "ack_w" -> 5]

MCInit ==
    /\ Init /\ DemoInit
    /\ program \in {"systemc", "cpp"}
    /\ program = "systemc" => elf = NoElf /\ ~bridge

MCNext ==
    \/ program = "systemc" /\ Next /\ UNCHANGED <<program, demoVars>>
    \/ program = "cpp" /\ DemoNext /\ UNCHANGED <<program, vars>>

(* The scheduler's fairness, as in TurboSoc. *)
MCSpec == MCInit /\ [][MCNext]_allVars
          /\ WF_allVars(program = "systemc" /\ Scheduled /\ UNCHANGED <<program, demoVars>>)

=============================================================================
