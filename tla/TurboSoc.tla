------------------------------ MODULE TurboSoc ------------------------------
(***************************************************************************)
(* The SystemC platform: turbo_core (the hart, one SC_THREAD), the bus of  *)
(* turbo_uncore with its sc_soc_scr, and mem_module with its four ring     *)
(* buffers and event queues, under the SystemC scheduler.                  *)
(*                                                                         *)
(* A transaction object is a local variable of mmio_load or mmio_store:    *)
(* a pointer to it is the number of the access, and is valid only while    *)
(* that access waits.  Time is kept modulo the clock period; an event      *)
(* queue holds the times that its notifications still have to wait.        *)
(***************************************************************************)
EXTENDS Platform

CONSTANTS Elf,           \* sw/main.elf
          ScrSize,       \* the registers of sc_soc_scr
          ClockPeriod, StartTime,    \* sc_clock, and wait(10, SC_NS) in testbench::run
          Delay,         \* of the four event queues, in clock cycles
          RingSize       \* CIRCULAR_BUFFER_SIZE

Queues == {"pend_r", "ack_r", "pend_w", "ack_w"}

ASSUME TurboAssumption ==
    /\ ClockPeriod \in Nat \ {0} /\ StartTime \in Nat
    /\ Delay \in [Queues -> Nat]
    /\ RingSize \in Nat \ {0, 1}
    /\ MaxAccesses \in Nat

(* The file holds bytes, and the test status register is one of            *)
(* sc_soc_scr's (0x3fffb008 of 0x3fffb000 and the 0x1000 from it).         *)
ASSUME SocAssumption ==
    /\ Elf \in ElfFile
    /\ ScrBase \in Nat /\ ScrSize \in Nat /\ StatusOffset \in 0 .. ScrSize - 1

VARIABLES
    sim,       \* "running", "stopped" by sc_stop, or "aborted" by an assertion
    phase,     \* sc_time_stamp() % clock_period
    startIn,   \* time until trigger_start
    core,      \* "idle", "running" or "waiting" in wait(done_event)
    trans,     \* the transaction of the access that waits
    issued,    \* accesses made
    bytes,     \* the buffer of the hart's loads
    arr,       \* mem0, the sparse array
    q,         \* the ring buffers: pointers to transactions
    timers,    \* the event queues
    done,      \* done_event is notified for the next delta cycle
    testStatusWritten

memory == <<arr, q, timers, testStatusWritten>>
vars == <<sim, phase, startIn, core, trans, issued, bytes, memory, done>>

NoTrans == [id |-> 0]

(* A pointer in a ring buffer still points to a transaction. *)
Valid(ptr) == core = "waiting" /\ trans.id = ptr

-----------------------------------------------------------------------------
(* sc_main and the constructor of testbench.  A file that cannot be opened *)
(* ends in an assertion as one does whose header is refused.               *)
Loaded ==
    LET l == load_elf(NoPages, Elf)
        rom == write(l.arr, RomBase, Append(RomVector, l.entry), <<>>)
    IN  [ok |-> l.outcome = "ok" /\ rom.ok, arr |-> rom.arr]

(* turbo_core: run_m is not started before start_ev, no access waits. *)
CoreInit ==
    /\ core = "idle" /\ trans = NoTrans /\ issued = 0 /\ bytes = <<>>
    /\ done = FALSE

Init ==
    /\ CoreInit
    /\ sim = (IF Loaded.ok THEN "running" ELSE "aborted")
    /\ phase = 0 /\ startIn = StartTime
    /\ arr = Loaded.arr
    /\ q = [e \in Queues |-> <<>>]
    /\ timers = [e \in Queues |-> <<>>]
    /\ testStatusWritten = FALSE

(* testbench::run, start_ev and run_m, once the time has come. *)
Start ==
    /\ sim = "running" /\ core = "idle" /\ startIn = 0
    /\ core' = "running"
    /\ UNCHANGED <<sim, phase, startIn, trans, issued, bytes, memory, done>>

-----------------------------------------------------------------------------
getNextRisingClockEdge(clk_cycles) == clk_cycles * ClockPeriod + phase

(* CircularBuffer::push_back and notify.  One slot stays free. *)
Full(e) == Len(q[e]) = RingSize - 1
Push(e, ptr) ==
    /\ q' = [q EXCEPT ![e] = Append(@, ptr)]
    /\ timers' = [timers EXCEPT ![e] = Append(@, getNextRisingClockEdge(Delay[e]))]

Abort == sim' = "aborted" /\ UNCHANGED <<memory, bytes>>

(* Mutant: the request is queued and its event notified twice. *)
MutantTransport(t) ==
    LET e == IF t.cmd = "read" THEN "pend_r" ELSE "pend_w"
    IN  /\ q' = [q EXCEPT ![e] = @ \o <<t.id, t.id>>]
        /\ timers' = [timers EXCEPT ![e] = @ \o <<getNextRisingClockEdge(Delay[e]), getNextRisingClockEdge(Delay[e])>>]
        /\ UNCHANGED <<sim, arr, testStatusWritten, bytes>>

(* mem_module::transport_fw with BEGIN_REQ; END_REQ, which it sends back,  *)
(* changes nothing.                                                        *)
transport_fw(t) ==
    LET e == IF t.cmd = "read" THEN "pend_r" ELSE "pend_w"
    IN  IF Full(e) THEN Abort
        ELSE Push(e, t.id) /\ UNCHANGED <<sim, arr, testStatusWritten, bytes>>

find_device(addr) == addr \in ScrBase .. ScrBase + ScrSize - 1

(* sc_soc_scr: read leaves the buffer alone, write only looks at the test  *)
(* status; both end in assert(0) at its offset.                            *)
Device(t) ==
    IF t.addr = ScrBase + StatusOffset THEN Abort
    ELSE UNCHANGED <<sim, memory, bytes>>

(* turbo_uncore::nb_transport_fw. *)
nb_transport_fw(t) == IF find_device(t.addr) THEN Device(t) ELSE transport_fw(t)

is_spike_device_addr(addr) == addr < PGSIZE

(* turbo_core::mmio_load and mmio_store.  An access to Spike's own bus (the *)
(* debug module) is over at once, and every other one waits for            *)
(* done_event, whatever nb_transport_fw returned.                          *)
Access(t) ==
    /\ sim = "running" /\ core = "running" /\ issued < MaxAccesses
    /\ issued' = issued + 1
    /\ IF is_spike_device_addr(t.addr)
       THEN UNCHANGED <<sim, core, trans, bytes, memory>>
       ELSE /\ core' = "waiting" /\ trans' = t
            /\ nb_transport_fw(t)
    /\ UNCHANGED <<phase, startIn, done>>

mmio_load == \E l \in Loads :
    Access([id |-> issued + 1, cmd |-> "read", addr |-> l[1], len |-> l[2], data |-> <<>>])
mmio_store == \E s \in Stores :
    Access([id |-> issued + 1, cmd |-> "write", addr |-> s[1], len |-> Len(s[2]), data |-> s[2]])

-----------------------------------------------------------------------------
(* mem_module's SC_METHODs, each when its event queue fires.  *)
Fires(e) == sim = "running" /\ core # "running" /\ \E i \in DOMAIN timers[e] : timers[e][i] = 0
First0(e) == CHOOSE i \in DOMAIN timers[e] :
    timers[e][i] = 0 /\ \A j \in 1 .. i - 1 : timers[e][j] # 0
Fired(e) == [timers EXCEPT ![e] = SubSeq(@, 1, First0(e) - 1) \o SubSeq(@, First0(e) + 1, Len(@))]

(* pop_front from e and push_back to ack, with their events. *)
Move(e, ack) ==
    /\ q' = [q EXCEPT ![e] = Tail(@), ![ack] = Append(@, Head(q[e]))]
    /\ timers' = [Fired(e) EXCEPT ![ack] = Append(@, getNextRisingClockEdge(Delay[ack]))]

(* Mutant: a page that is not there yet is not read. *)
MutantRead ==
    /\ Fires("pend_r") /\ q["pend_r"] # <<>>
    /\ LET r == read(arr, trans.addr, trans.len, 0)
       IN  IF ~r.ok \/ Full("ack_r") THEN Abort
           ELSE /\ bytes' = IF trans.addr \div PageSize \in DOMAIN arr THEN r.data ELSE bytes
                /\ Move("pend_r", "ack_r")
                /\ UNCHANGED <<sim, arr, testStatusWritten>>
    /\ UNCHANGED <<phase, startIn, core, trans, issued, done>>

do_read ==
    /\ Fires("pend_r") /\ q["pend_r"] # <<>>
    /\ LET r == read(arr, trans.addr, trans.len, 0)
       IN  IF ~r.ok \/ Full("ack_r") THEN Abort
           ELSE /\ arr' = r.arr /\ bytes' = r.data
                /\ Move("pend_r", "ack_r")
                /\ UNCHANGED <<sim, testStatusWritten>>
    /\ UNCHANGED <<phase, startIn, core, trans, issued, done>>

(* A first write of the test status stops the simulation: stop_event is    *)
(* due in the next delta cycle, before the acknowledgement.                *)
do_write ==
    /\ Fires("pend_w") /\ q["pend_w"] # <<>>
    /\ LET w == write(arr, trans.addr, trans.data, <<>>)
           finish == /\ trans.addr = ScrBase + StatusOffset
                     /\ trans.data[1] # 0 /\ ~testStatusWritten
       IN  IF ~w.ok \/ Full("ack_w") THEN Abort
           ELSE /\ arr' = w.arr
                /\ Move("pend_w", "ack_w")
                /\ testStatusWritten' = (testStatusWritten \/ finish)
                /\ sim' = IF finish THEN "stopped" ELSE sim
                /\ UNCHANGED bytes
    /\ UNCHANGED <<phase, startIn, core, trans, issued, done>>

(* Mutant: BEGIN_RESP is not passed on by the uncore. *)
MutantAck(e) ==
    /\ Fires(e) /\ q[e] # <<>>
    /\ q' = [q EXCEPT ![e] = Tail(@)]
    /\ timers' = Fired(e)
    /\ UNCHANGED <<sim, phase, startIn, core, trans, issued, bytes, arr, done, testStatusWritten>>

(* ack_read and ack_write: BEGIN_RESP goes through the uncore's            *)
(* nb_transport_bw to the core's nb_transport, which notifies done_event.  *)
Ack(e) ==
    /\ Fires(e) /\ q[e] # <<>>
    /\ q' = [q EXCEPT ![e] = Tail(@)]
    /\ timers' = Fired(e)
    /\ done' = TRUE
    /\ UNCHANGED <<sim, phase, startIn, core, trans, issued, bytes, arr, testStatusWritten>>

ack_read == Ack("ack_r")
ack_write == Ack("ack_w")

(* The core returns from wait(done_event) and from the access. *)
Return ==
    /\ sim = "running" /\ done /\ core = "waiting"
    /\ done' = FALSE
    /\ core' = "running" /\ trans' = NoTrans
    /\ UNCHANGED <<sim, phase, startIn, issued, bytes, memory>>

(* Time goes on when nothing can run at the present instant. *)
Tick ==
    /\ sim = "running" /\ core # "running" /\ ~done
    /\ ~(core = "idle" /\ startIn = 0)
    /\ \A e \in Queues : ~Fires(e)
    /\ core = "idle" \/ \E e \in Queues : timers[e] # <<>>
    /\ phase' = (phase + 1) % ClockPeriod
    /\ startIn' = IF startIn > 0 THEN startIn - 1 ELSE 0
    /\ timers' = [e \in Queues |-> [i \in DOMAIN timers[e] |-> timers[e][i] - 1]]
    /\ UNCHANGED <<sim, core, trans, issued, bytes, arr, q, done, testStatusWritten>>

Scheduled == Start \/ do_read \/ do_write \/ ack_read \/ ack_write \/ Return \/ Tick

Next == Scheduled \/ mmio_load \/ mmio_store

(* The SystemC scheduler runs every process that can run and then lets     *)
(* time pass.                                                              *)
Spec == Init /\ [][Next]_vars /\ WF_vars(Scheduled)

-----------------------------------------------------------------------------
(* turbo_core.cpp, mmio_load, and memory.h, CircularBuffer: a transaction  *)
(* is a local variable of the call, and the buffers keep only its address. *)
(* No address outlives the call, and none is there twice; each buffer      *)
(* holds as many as its event queue holds notifications, so no method      *)
(* finds its buffer empty or full, and done_event is notified only for a   *)
(* call that waits and whose transaction has left the buffers.             *)
BuffersMatchCalls ==
    /\ \A e \in Queues : \A i \in DOMAIN q[e] : Valid(q[e][i])
    /\ \A d, e \in Queues : q[d] # <<>> /\ q[e] # <<>> => d = e /\ Len(q[d]) = 1
    /\ \A e \in Queues : Len(timers[e]) = Len(q[e])
    /\ done => core = "waiting" /\ \A e \in Queues : q[e] = <<>>

InMemory(t) == t # NoTrans /\ ~find_device(t.addr)

(* turbo_core.cpp, mmio_load and mmio_store: an access to memory returns,  *)
(* or the simulation ends while it is under way.                           *)
MemoryAccessReturns == InMemory(trans) /\ core = "waiting" ~> core = "running" \/ sim # "running"

(* turbo_uncore.cpp:26, "This is for now modelled as immediate R/W": every *)
(* access returns, those to devices too.                                   *)
DeviceAccessReturns == core = "waiting" ~> core = "running" \/ sim # "running"

-----------------------------------------------------------------------------
Flat == [a \in 0 .. SIZE - 1 |-> ByteAt(arr, a)]

MemoryAccesses ==
    [id : 1 .. MaxAccesses, cmd : {"read"}, addr : Nat, len : Nat, data : {<<>>}] \cup
    {[id |-> i, cmd |-> "write", addr |-> s[1], len |-> Len(s[2]), data |-> s[2]] :
        i \in 1 .. MaxAccesses, s \in Stores}

Abstract == INSTANCE HartMemory WITH
    Addr <- 0 .. SIZE - 1, Accesses <- MemoryAccesses, NoAccess <- NoTrans,
    mem <- Flat,
    req <- IF InMemory(trans) THEN trans ELSE NoTrans,
    done <- InMemory(trans) /\ q["pend_r"] = <<>> /\ q["pend_w"] = <<>> /\ sim = "running",
    bytes <- bytes

(* turbo_core.cpp, turbo_uncore.cpp, memory.h, sparse_array.h: the         *)
(* platform implements HartMemory.  Each access that is not a device's is  *)
(* performed once between its call and its return, on exactly its bytes.   *)
ImplementsHartMemory == Abstract!Spec
=============================================================================
