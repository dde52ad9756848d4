------------------------------ MODULE SpikeInsn ------------------------------
(***************************************************************************)
(* The launcher spike_insn.cc: main() handles its options in the order of  *)
(* the command line, makes the memories, puts the kernel and the initrd    *)
(* into them, settles the hart ids and runs the simulator ("run").         *)
(*                                                                         *)
(* Space stands for 2^64, the number of values of an address or a size:    *)
(* sums wrap.  An option is a record with its name opt; a number that      *)
(* stands in the command line as text is its value here.                   *)
(***************************************************************************)
EXTENDS Integers, Sequences, SequencesExt

CONSTANTS Space, PGSIZE, DRAM_BASE,
          MiB,                           \* 1 << 20, the unit of the legacy form of -m
          DefaultLayout,                 \* cfg_t's memory layout without -m
          KernelOffset, InitrdGap,       \* 0x200000 (rv64) and 0x1000
          MinBlocksz,                    \* 16
          CommandLines                   \* sequences of options

(* The options: -m, -p, --hartids, --kernel and --initrd with the size of  *)
(* the file, and the remaining ones with their value or, where something   *)
(* is looked up, with whether it is found.                                 *)
Options ==
    [opt : {"m"}, legacy : BOOLEAN, broken : BOOLEAN, mb : Nat,
     pairs : Seq((0 .. Space - 1) \X (0 .. Space - 1))]
    \cup [opt : {"p"}, n : Nat]
    \cup [opt : {"hartids"}, ids : Seq(Int)]
    \cup [opt : {"kernel", "initrd"}, size : Int]
    \cup [opt : {"help", "flag", "number", "text", "blocksz"}, name : STRING, value : Int]
    \cup [opt : {"extension", "extlib", "debug-cmd", "device"}, name : STRING, found : BOOLEAN]

ASSUME LauncherAssumption ==
    /\ PGSIZE \in Nat \ {0} /\ Space \in Nat \ {0} /\ MiB \in Nat \ {0}
    /\ Space % PGSIZE = 0 /\ Space > PGSIZE /\ DRAM_BASE \in 0 .. Space - 1
    /\ KernelOffset \in Nat /\ InitrdGap \in Nat
    /\ DefaultLayout \in Seq([base : Nat, size : Nat]) /\ CommandLines \subseteq Seq(Options)

VARIABLES
    mainpc,      \* "options", "kernel", "initrd", "harts", "create", "run", or how main
                 \* ended before: "help", "exit", "throw", "dts"
    args,        \* the options still to be handled
    asked,       \* the layout the last -m asked for: pairs of base and size
    layout,      \* cfg.mem_layout
    nprocs,      \* the argument of -p, or 0 when it was not given
    hartids,     \* cfg.hartids, with explicit_hartids when not empty before "harts"
    files,       \* the sizes of kernel and initrd: 0 none or empty, -1 no such file
    settings,    \* what the remaining options set
    cores,       \* what every hart was given before the run
    mems,        \* the memories: base, size and what each byte holds
    initrd_bounds

launcherVars == <<mainpc, args, asked, layout, nprocs, hartids, files, settings, cores, mems,
                  initrd_bounds>>

(* mem_cfg_t: a region, its last address and the test of its constructor. *)
Region(base, size) == [base |-> base, size |-> size]
InclusiveEnd(r) == (r.base + r.size - 1) % Space
check_if_supported(base, size) ==
    /\ base % PGSIZE = 0 /\ size % PGSIZE = 0 /\ size > 0
    /\ (base + size) % Space > base \/ (base + size) % Space = 0

Unsupported == [base |-> -1, size |-> 0]

(* Mutant: the size is rounded up without what the base is rounded down by. *)
MutantCreate(base, size) ==
    LET aligned == IF size % PGSIZE = 0 THEN size ELSE size + PGSIZE - (size % PGSIZE)
    IN  IF check_if_supported(base - (base % PGSIZE), aligned % Space)
        THEN Region(base - (base % PGSIZE), aligned % Space) ELSE Unsupported

(* create_mem_region: page-aligned in 64-bit arithmetic; an unsupported    *)
(* region ends the program.                                                *)
create_mem_region(base, size) ==
    LET grown == (size + (base % PGSIZE)) % Space
        aligned == (IF grown % PGSIZE = 0 THEN grown ELSE grown + PGSIZE - (grown % PGSIZE)) % Space
        down == base - (base % PGSIZE)
    IN  IF check_if_supported(down, aligned) THEN Region(down, aligned) ELSE Unsupported

(* std::sort: a rearrangement that the order does not contradict. *)
Sort(s, Before(_, _)) ==
    LET order == CHOOSE p \in Bijection(DOMAIN s, DOMAIN s) :
                     \A i, j \in DOMAIN s : i < j => ~Before(s[p[j]], s[p[i]])
    IN  [i \in DOMAIN s |-> s[order[i]]]

sort_mem_region(a, b) == a.base < b.base \/ (a.base = b.base /\ a.size < b.size)

Least(a, b) == IF a < b THEN a ELSE b
Greatest(a, b) == IF a > b THEN a ELSE b

check_mem_overlap(L, R) ==
    Greatest(L.base, R.base) <= Least(InclusiveEnd(L), InclusiveEnd(R))

check_if_merge_covers_64bit_space(L, R) ==
    /\ check_mem_overlap(L, R)
    /\ Least(L.base, R.base) = 0
    /\ Greatest(InclusiveEnd(L), InclusiveEnd(R)) = Space - 1

merge_mem_regions(L, R) ==
    LET base == Least(L.base, R.base)
    IN  Region(base, (Greatest(InclusiveEnd(L), InclusiveEnd(R)) - base + 1) % Space)

(* One round of the loop over the sorted regions; stop is its break. *)
MergeRound(s, r) ==
    LET back == Last(s.merged)
    IN  IF s.stop THEN s
        ELSE IF ~check_mem_overlap(back, r) THEN [s EXCEPT !.merged = Append(@, r)]
        ELSE IF check_if_merge_covers_64bit_space(back, r)
        THEN [merged |-> <<Region(0, Space - PGSIZE), Region(Space - PGSIZE, PGSIZE)>>, stop |-> TRUE]
        ELSE [s EXCEPT !.merged[Len(s.merged)] = merge_mem_regions(back, r)]

merge_overlapping_memory_regions(regions) ==
    LET sorted == Sort(regions, sort_mem_region)
        round[i \in 0 .. Len(regions) - 1] ==
            IF i = 0 THEN [merged |-> <<sorted[1]>>, stop |-> FALSE]
            ELSE MergeRound(round[i - 1], sorted[i + 1])
    IN  IF regions = <<>> THEN <<>> ELSE round[Len(regions) - 1].merged

(* parse_mem_layout: a number of MiB, or pairs of base and size up to the  *)
(* end of the text or to where it is broken, which asks for help().  The   *)
(* result is a layout or the way the program ends.                         *)
parse_mem_layout(arg) ==
    LET made == [i \in DOMAIN arg.pairs |-> create_mem_region(arg.pairs[i][1], arg.pairs[i][2])]
        size == (arg.mb * MiB) % Space
    IN  IF arg.legacy
        THEN IF size \div MiB # arg.mb THEN [end |-> "throw", layout |-> <<>>]
             ELSE IF create_mem_region(DRAM_BASE, size) = Unsupported THEN [end |-> "exit", layout |-> <<>>]
             ELSE [end |-> "", layout |-> <<create_mem_region(DRAM_BASE, size)>>]
        ELSE IF \E i \in DOMAIN made : made[i] = Unsupported THEN [end |-> "exit", layout |-> <<>>]
        ELSE IF arg.broken THEN [end |-> "help", layout |-> <<>>]
        ELSE [end |-> "", layout |-> merge_overlapping_memory_regions(made)]

(* parse_hartids: sorted; the empty sequence stands for an exit. *)
parse_hartids(ids) ==
    LET sorted == Sort(ids, <)
    IN  IF \E i \in DOMAIN ids : ids[i] < 0 THEN <<>>
        ELSE IF \E i \in 1 .. Len(ids) - 1 : sorted[i] = sorted[i + 1] THEN <<>>
        ELSE sorted

-----------------------------------------------------------------------------
LauncherInit ==
    /\ mainpc = "options" /\ args \in CommandLines
    /\ asked = <<>> /\ layout = DefaultLayout
    /\ nprocs = 0 /\ hartids = <<>>
    /\ files = [kernel |-> 0, initrd |-> 0]
    /\ settings = [flags |-> {}, values |-> <<>>, extensions |-> <<>>, devices |-> <<>>]
    /\ cores = <<>> /\ mems = <<>> /\ initrd_bounds = <<>>

MemOption(o) ==
    LET r == parse_mem_layout(o)
    IN  /\ mainpc' = IF r.end = "" THEN mainpc ELSE r.end
        /\ layout' = IF r.end = "" THEN r.layout ELSE layout
        /\ asked' = IF o.legacy THEN <<<<DRAM_BASE, o.mb * MiB>>>> ELSE o.pairs
        /\ UNCHANGED <<nprocs, hartids, files, settings>>

ProcsOption(o) ==
    /\ mainpc' = IF o.n = 0 THEN "help" ELSE mainpc
    /\ nprocs' = o.n
    /\ UNCHANGED <<asked, layout, hartids, files, settings>>

HartidsOption(o) ==
    /\ mainpc' = IF parse_hartids(o.ids) = <<>> THEN "exit" ELSE mainpc
    /\ hartids' = parse_hartids(o.ids)
    /\ UNCHANGED <<asked, layout, nprocs, files, settings>>

FileOption(o) ==
    /\ files' = [files EXCEPT ![o.opt] = o.size]
    /\ UNCHANGED <<mainpc, asked, layout, nprocs, hartids, settings>>

(* How a remaining option ends the program, or "": a text where a number   *)
(* is needed (-1), a bad block size, a name that is not found.             *)
Refused(o) ==
    CASE o.opt = "help" \/ (o.opt = "number" /\ o.value = -1) -> "help"
      [] o.opt = "blocksz" /\ ~(/\ o.value \in MinBlocksz .. PGSIZE
                                /\ \E k \in 0 .. o.value : o.value = 2^k) -> "exit"
      [] o.opt \in {"extension", "extlib", "debug-cmd"} /\ ~o.found -> "exit"
      [] o.opt = "device" /\ ~o.found -> "throw"
      [] OTHER -> ""

(* The remaining options: flags, single values of which the last one       *)
(* counts, and lists.                                                      *)
SettingOption(o) ==
    /\ mainpc' = IF Refused(o) = "" THEN mainpc ELSE Refused(o)
    /\ settings' =
          CASE Refused(o) # "" -> settings
            [] o.opt = "flag" -> [settings EXCEPT !.flags = @ \cup {o.name}]
            [] o.opt \in {"number", "text", "blocksz"} ->
                  [settings EXCEPT !.values = (o.name :> o.value) @@ @]
            [] o.opt = "extension" -> [settings EXCEPT !.extensions = Append(@, o.name)]
            [] o.opt = "device" -> [settings EXCEPT !.devices = Append(@, o.name)]
            [] OTHER -> settings
    /\ UNCHANGED <<asked, layout, nprocs, hartids, files>>

(* option_parser_t runs the callback of the next option. *)
Option ==
    /\ mainpc = "options" /\ args # <<>>
    /\ args' = Tail(args)
    /\ LET o == Head(args)
       IN  \/ o.opt = "m" /\ MemOption(o)
           \/ o.opt = "p" /\ ProcsOption(o)
           \/ o.opt = "hartids" /\ HartidsOption(o)
           \/ o.opt \in {"kernel", "initrd"} /\ FileOption(o)
           \/ o.opt \notin {"m", "p", "hartids", "kernel", "initrd"} /\ SettingOption(o)
    /\ UNCHANGED <<cores, mems, initrd_bounds>>

make_mems ==
    /\ mainpc = "options" /\ args = <<>>
    /\ mems' = [i \in DOMAIN layout |->
                   [base |-> layout[i].base, size |-> layout[i].size,
                    data |-> [o \in 0 .. layout[i].size - 1 |-> "zero"]]]
    /\ mainpc' = "kernel"
    /\ UNCHANGED <<args, asked, layout, nprocs, hartids, files, settings, cores, initrd_bounds>>

(* read_file_bytes into memory i. *)
Filled(i, from, size, what) ==
    [mems EXCEPT ![i].data = [o \in DOMAIN @ |-> IF o \in from .. from + size - 1 THEN what ELSE @[o]]]

(* The first memory with more than this many bytes, for a file that is not *)
(* empty, or 0.                                                            *)
FirstFit(size, bytes) ==
    LET fits == {i \in DOMAIN mems : size > 0 /\ bytes < mems[i].size}
    IN  IF fits = {} THEN 0 ELSE CHOOSE i \in fits : \A j \in fits : i <= j

load_kernel ==
    /\ mainpc = "kernel"
    /\ LET size == files.kernel
           i == FirstFit(size, KernelOffset + size)
       IN  mems' = IF i = 0 THEN mems ELSE Filled(i, KernelOffset, size, "kernel")
    /\ mainpc' = "initrd"
    /\ UNCHANGED <<args, asked, layout, nprocs, hartids, files, settings, cores, initrd_bounds>>

(* Mutant: the gap at the end of the memory is forgotten. *)
MutantInitrd ==
    /\ mainpc = "initrd"
    /\ LET size == files.initrd
           i == FirstFit(size, size)
           end == mems[i].base + mems[i].size - InitrdGap
       IN  IF i = 0 THEN UNCHANGED <<mems, initrd_bounds>>
           ELSE /\ initrd_bounds' = <<end - size, end>>
                /\ mems' = Filled(i, end - size - mems[i].base, size, "initrd")
    /\ mainpc' = "harts"
    /\ UNCHANGED <<args, asked, layout, nprocs, hartids, files, settings, cores>>

load_initrd ==
    /\ mainpc = "initrd"
    /\ LET size == files.initrd
           i == FirstFit(size, size + InitrdGap)
           end == mems[i].base + mems[i].size - InitrdGap
       IN  IF i = 0 THEN UNCHANGED <<mems, initrd_bounds>>
           ELSE /\ initrd_bounds' = <<end - size, end>>
                /\ mems' = Filled(i, end - size - mems[i].base, size, "initrd")
    /\ mainpc' = "harts"
    /\ UNCHANGED <<args, asked, layout, nprocs, hartids, files, settings, cores>>

(* Explicit hart ids must be as many as -p says; otherwise they are 0, 1,  *)
(* and so on, for one hart when there is no -p.                            *)
set_hartids ==
    /\ mainpc = "harts"
    /\ IF hartids # <<>>
       THEN /\ mainpc' = IF nprocs # 0 /\ nprocs # Len(hartids) THEN "exit" ELSE "create"
            /\ hartids' = hartids
       ELSE /\ hartids' = [i \in 1 .. Greatest(nprocs, 1) |-> i - 1]
            /\ mainpc' = "create"
    /\ UNCHANGED <<args, asked, layout, nprocs, files, settings, cores, mems, initrd_bounds>>

(* The simulator is made.  --dump-dts ends the program; otherwise every    *)
(* hart gets the cache tracers, the extensions and the custom CSRs.        *)
create_sim ==
    /\ mainpc = "create"
    /\ IF "dump-dts" \in settings.flags THEN mainpc' = "dts" /\ UNCHANGED cores
       ELSE /\ mainpc' = "run"
            /\ cores' = [h \in DOMAIN hartids |->
                            [tracers |-> {"ic", "dc"} \cap DOMAIN settings.values,
                             extensions |-> settings.extensions, csrs |-> TRUE]]
    /\ UNCHANGED <<args, asked, layout, nprocs, hartids, files, settings, mems, initrd_bounds>>

LauncherNext == Option \/ make_mems \/ load_kernel \/ load_initrd \/ set_hartids \/ create_sim

LauncherSpec == LauncherInit /\ [][LauncherNext]_launcherVars

-----------------------------------------------------------------------------
(* The addresses of a region, and those of the pages a request touches. *)
Addresses(r) == r.base .. r.base + r.size - 1
Requested(a) == {x \in 0 .. Space - 1 : \E y \in a[1] .. a[1] + a[2] - 1 : x \div PGSIZE = y \div PGSIZE}
Fit(a) == a[2] > 0 /\ a[1] + a[2] <= Space

(* spike_insn.cc, create_mem_region and merge_overlapping_memory_regions:  *)
(* when no request is empty or wraps around, the memories are disjoint, in *)
(* order, aligned and none wraps, and together they are exactly the pages  *)
(* that were asked for, in the corner case of the whole address space too. *)
LayoutCovers ==
    mainpc = "kernel" /\ asked # <<>> /\ (\A i \in DOMAIN asked : Fit(asked[i])) =>
        /\ \A i \in DOMAIN layout : check_if_supported(layout[i].base, layout[i].size)
        /\ \A i, j \in DOMAIN layout : i < j => InclusiveEnd(layout[i]) < layout[j].base
        /\ UNION {Addresses(layout[i]) : i \in DOMAIN layout}
              = UNION {Requested(asked[i]) : i \in DOMAIN asked}

(* spike_insn.cc, main: when the simulator runs, every byte between the    *)
(* bounds of the initrd, which device tree and kernel are told of, is a    *)
(* byte of the initrd in one memory; the kernel is whole, unless the two   *)
(* files do not both fit into its memory; and there are as many harts,     *)
(* with ascending ids, as -p says.                                         *)
LaunchedAsAsked ==
    mainpc = "run" =>
        /\ initrd_bounds # <<>> => \E i \in DOMAIN mems :
              \A a \in initrd_bounds[1] .. initrd_bounds[2] - 1 :
                 a - mems[i].base \in DOMAIN mems[i].data /\ mems[i].data[a - mems[i].base] = "initrd"
        /\ files.kernel > 0 => \A i \in DOMAIN mems :
              /\ \A j \in 1 .. i - 1 : KernelOffset + files.kernel >= mems[j].size
              /\ KernelOffset + files.kernel + Greatest(files.initrd, 0) + InitrdGap <= mems[i].size
              /\ KernelOffset + files.kernel < mems[i].size
              => \A o \in KernelOffset .. KernelOffset + files.kernel - 1 : mems[i].data[o] = "kernel"
        /\ nprocs # 0 => Len(hartids) = nprocs
        /\ \A i \in 1 .. Len(hartids) - 1 : hartids[i] < hartids[i + 1]
=============================================================================
