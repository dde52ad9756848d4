------------------------------- MODULE Mailbox -------------------------------
(***************************************************************************)
(* The mailbox between the host threads and the firmware that runs in the  *)
(* Spike thread: the registers of mailbox_t (extensions/mailbox.cc), the   *)
(* host's SpikeWrapper::send_command / mailbox_t::send_command_complete,   *)
(* and the polling loop of firmware/mailbox/main.c.                        *)
(*                                                                         *)
(* The registers are plain (non-atomic) integers that both threads access  *)
(* without a lock.  Each load and each store is a step of its own, in      *)
(* program order.  That is what the build (src/top/Makefile: -O2 -fPIC, on *)
(* x86-64) does: update_status becomes a single store of the new value,    *)
(* the test of READY and BUSY a single load, and `status_reg &= ~ERROR` a  *)
(* load and a store that another store can come between.                   *)
(***************************************************************************)
EXTENDS MailboxFirmware

CONSTANTS Hosts,     \* the host threads that send commands
          Free,      \* no thread: the owner of a free mutex
          Commands,  \* the command codes they send
          Datas      \* the values of DATA0..DATA3 they send

ASSUME InputAssumption ==
    /\ Free \notin Hosts
    /\ Commands \subseteq Nat
    /\ Datas \subseteq [DataRegs -> Nat]

VARIABLES
    status,      \* status_reg, as the set of its bits
    command,     \* command_reg
    data,        \* data0_reg .. data3_reg
    response,    \* response_reg
    mutex,       \* the thread that holds command_mutex_, or Free
    pc,          \* where each host thread is in send_command
    call,        \* the arguments of its current call
    idx,         \* the DATA register it writes next
    old,         \* the status it loaded in `status_reg &= ~MAILBOX_ERROR`
    result,      \* what its last call returned
    fpc,         \* where the firmware is in its main loop
    fcmd, fdata, \* its copies of COMMAND and DATA0..DATA3
    fidx,        \* the DATA register it reads next
    fresp,       \* the response it has computed
    sim,         \* the Spike thread: "live", "halted", or sim_ "gone"
    accepted,    \* history: the last call that wrote the registers
    execs        \* history: how often the firmware has executed it

host   == <<mutex, pc, call, idx, old, result>>
fw     == <<fpc, fcmd, fdata, fidx, fresp>>
regs   == <<status, command, data, response>>
vars   == <<regs, host, fw, sim, accepted, execs>>

StatusBits == {"READY", "BUSY", "ERROR", "VECTOR_MODE"}
Calls      == [cmd : Commands, data : Datas]
Codes      == {SUCCESS, ERR_INVALID_CMD, ERR_INVALID_PARAM}
Zeros      == [r \in DataRegs |-> 0]
NoCall     == [cmd |-> -1, data |-> Zeros]     \* before the first call

(* The labels of a host thread, in the order of the code. *)
Writing  == {"command", "data", "clear", "busy"}
Armed    == {"process", "load", "store", "trigger", "poll"}
Inside   == {"check", "ready", "send"} \cup Writing \cup Armed
                \cup {"read", "finish"}
HostPC   == {"idle", "lock"} \cup Inside
FwPC     == {"poll", "command", "data", "handle", "response", "status"}

(* Mutant: the host tests ERROR instead of READY and BUSY. *)
MutantIsReady == "ERROR" \notin status

IsReady == "READY" \in status /\ "BUSY" \notin status

-----------------------------------------------------------------------------
(* The device after mailbox_t's constructor, the host threads outside      *)
(* send_command, the firmware at the head of its loop.                     *)
Init ==
    /\ status = {"READY"} /\ command = 0 /\ data = Zeros /\ response = SUCCESS
    /\ mutex = Free
    /\ pc = [h \in Hosts |-> "idle"]
    /\ call = [h \in Hosts |-> NoCall]
    /\ idx = [h \in Hosts |-> 0]
    /\ old = [h \in Hosts |-> {"READY"}]
    /\ result = [h \in Hosts |-> FAILED]
    /\ fpc = "poll" /\ fcmd = 0 /\ fdata = Zeros /\ fidx = 0 /\ fresp = SUCCESS
    /\ sim = "live"
    /\ accepted = NoCall
    /\ execs = 0

(* update_status: the bits that are asked for and no others. *)
UpdateStatus(ready, busy, error, vector_mode) ==
    {b \in StatusBits : \/ b = "READY" /\ ready
                        \/ b = "BUSY" /\ busy
                        \/ b = "ERROR" /\ error
                        \/ b = "VECTOR_MODE" /\ vector_mode}

(* The calls that reach send_command: those made to it directly, and those *)
(* of mailbox_send_command, which passes zeros with HELLO and HI, the      *)
(* parameters with the other commands it knows, and answers 0xFFFFFFFF to  *)
(* an unknown one without touching any state.                              *)
SentCalls ==
    Calls \cup {[cmd |-> c, data |-> Zeros] : c \in Commands \cap {HELLO, HI}}

Goto(h, from, to) == pc[h] = from /\ pc' = [pc EXCEPT ![h] = to]

-----------------------------------------------------------------------------
(* Host threads *)

(* A thread calls SpikeWrapper::send_command or mailbox_send_command. *)
Invoke(h, c) ==
    /\ Goto(h, "idle", "lock")
    /\ call' = [call EXCEPT ![h] = c]
    /\ UNCHANGED <<regs, mutex, idx, old, result, fw, sim, accepted, execs>>

(* Mutant: command_mutex_ is not locked. *)
MutantLockCommandMutex(h) ==
    /\ Goto(h, "lock", "check")
    /\ mutex' = h
    /\ UNCHANGED <<regs, call, idx, old, result, fw, sim, accepted, execs>>

(* lock_guard lock(command_mutex_) *)
LockCommandMutex(h) ==
    /\ Goto(h, "lock", "check")
    /\ mutex = Free
    /\ mutex' = h
    /\ UNCHANGED <<regs, call, idx, old, result, fw, sim, accepted, execs>>

(* if (!sim_) return 0xFFFFFFFF *)
CheckSim(h) ==
    /\ pc[h] = "check"
    /\ IF sim = "gone"
       THEN /\ pc' = [pc EXCEPT ![h] = "finish"]
            /\ result' = [result EXCEPT ![h] = FAILED]
       ELSE pc' = [pc EXCEPT ![h] = "ready"] /\ UNCHANGED result
    /\ UNCHANGED <<regs, mutex, call, idx, old, fw, sim, accepted, execs>>

(* wait_for_ready sees READY and not BUSY *)
WaitForReady(h) ==
    /\ Goto(h, "ready", "send")
    /\ IsReady
    /\ UNCHANGED <<regs, mutex, call, idx, old, result, fw, sim, accepted, execs>>

(* wait_for_ready gives up *)
WaitTimeout(h) ==
    /\ Goto(h, "ready", "finish")
    /\ ~IsReady
    /\ result' = [result EXCEPT ![h] = FAILED]
    /\ UNCHANGED <<regs, mutex, call, idx, old, fw, sim, accepted, execs>>

(* mailbox_t::send_command tests the status again. *)
SendCommand(h) ==
    /\ pc[h] = "send"
    /\ IF IsReady
       THEN /\ pc' = [pc EXCEPT ![h] = "command"]
            /\ accepted' = call[h]
            /\ execs' = 0
            /\ UNCHANGED result
       ELSE /\ pc' = [pc EXCEPT ![h] = "finish"]
            /\ result' = [result EXCEPT ![h] = FAILED]
            /\ UNCHANGED <<accepted, execs>>
    /\ UNCHANGED <<regs, mutex, call, idx, old, fw, sim>>

WriteCommand(h) ==
    /\ Goto(h, "command", "data")
    /\ command' = call[h].cmd
    /\ idx' = [idx EXCEPT ![h] = 0]
    /\ UNCHANGED <<status, data, response, mutex, call, old, result, fw, sim,
                   accepted, execs>>

(* data0_reg = data0 ... data3_reg = data3, one store each *)
WriteData(h) ==
    /\ Goto(h, "data", IF idx[h] = 3 THEN "clear" ELSE "data")
    /\ data' = [data EXCEPT ![idx[h]] = call[h].data[idx[h]]]
    /\ idx' = [idx EXCEPT ![h] = IF @ = 3 THEN @ ELSE @ + 1]
    /\ UNCHANGED <<status, command, response, mutex, call, old, result, fw, sim,
                   accepted, execs>>

(* response_reg = MAILBOX_SUCCESS *)
ClearResponse(h) ==
    /\ Goto(h, "clear", "busy")
    /\ response' = SUCCESS
    /\ UNCHANGED <<status, command, data, mutex, call, idx, old, result, fw, sim,
                   accepted, execs>>

(* Mutant: the arguments ready and busy of update_status are swapped. *)
MutantStoreBusy(h, from, to) ==
    /\ Goto(h, from, to)
    /\ status' = UpdateStatus(TRUE, FALSE, FALSE, FALSE)
    /\ UNCHANGED <<command, data, response, mutex, call, idx, old, result, fw, sim,
                   accepted, execs>>

(* The stores of BUSY: update_status and process_command in send_command,  *)
(* then process_command again in the store that the trigger callback does. *)
StoreBusy(h, from, to) ==
    /\ Goto(h, from, to)
    /\ status' = UpdateStatus(FALSE, TRUE, FALSE, FALSE)
    /\ UNCHANGED <<command, data, response, mutex, call, idx, old, result, fw, sim,
                   accepted, execs>>

SetBusy(h)        == StoreBusy(h, "busy", "process")
ProcessCommand(h) == StoreBusy(h, "process", "load")
Trigger(h)        == StoreBusy(h, "trigger", "poll")

(* status_reg &= ~MAILBOX_ERROR: the load ... *)
LoadStatus(h) ==
    /\ Goto(h, "load", "store")
    /\ old' = [old EXCEPT ![h] = status]
    /\ UNCHANGED <<regs, mutex, call, idx, result, fw, sim, accepted, execs>>

(* ... and the store *)
ClearError(h) ==
    /\ Goto(h, "store", "trigger")
    /\ status' = old[h] \ {"ERROR"}
    /\ UNCHANGED <<command, data, response, mutex, call, idx, old, result, fw, sim,
                   accepted, execs>>

(* Mutant: the wait for the answer does not test BUSY. *)
MutantPollDone(h) ==
    /\ Goto(h, "poll", "read")
    /\ UNCHANGED <<regs, mutex, call, idx, old, result, fw, sim, accepted, execs>>

(* The wait for the answer sees that BUSY is clear, *)
PollDone(h) ==
    /\ Goto(h, "poll", "read")
    /\ "BUSY" \notin status
    /\ UNCHANGED <<regs, mutex, call, idx, old, result, fw, sim, accepted, execs>>

(* Mutants: a call that gives up returns RESPONSE instead of 0xFFFFFFFF; a *)
(* call waits without a timeout once the Spike thread has stopped.         *)
MutantPollTimeoutResult(h) ==
    /\ Goto(h, "poll", "finish")
    /\ "BUSY" \in status
    /\ result' = [result EXCEPT ![h] = response]
    /\ UNCHANGED <<regs, mutex, call, idx, old, fw, sim, accepted, execs>>

MutantPollTimeoutStopped(h) ==
    /\ Goto(h, "poll", "finish")
    /\ "BUSY" \in status /\ sim = "live"
    /\ result' = [result EXCEPT ![h] = FAILED]
    /\ UNCHANGED <<regs, mutex, call, idx, old, fw, sim, accepted, execs>>

(* or gives up; the command stays in the mailbox. *)
PollTimeout(h) ==
    /\ Goto(h, "poll", "finish")
    /\ "BUSY" \in status
    /\ result' = [result EXCEPT ![h] = FAILED]
    /\ UNCHANGED <<regs, mutex, call, idx, old, fw, sim, accepted, execs>>

(* response = response_reg *)
ReadResponse(h) ==
    /\ Goto(h, "read", "finish")
    /\ result' = [result EXCEPT ![h] = response]
    /\ UNCHANGED <<regs, mutex, call, idx, old, fw, sim, accepted, execs>>

(* The call returns and the lock_guard releases command_mutex_. *)
Return(h) ==
    /\ Goto(h, "finish", "idle")
    /\ mutex' = Free
    /\ UNCHANGED <<regs, call, idx, old, result, fw, sim, accepted, execs>>

HostStep(h) ==
    \/ LockCommandMutex(h) \/ CheckSim(h)
    \/ WaitForReady(h) \/ WaitTimeout(h)
    \/ SendCommand(h) \/ WriteCommand(h) \/ WriteData(h) \/ ClearResponse(h)
    \/ SetBusy(h) \/ ProcessCommand(h)
    \/ LoadStatus(h) \/ ClearError(h) \/ Trigger(h)
    \/ PollDone(h) \/ PollTimeout(h) \/ ReadResponse(h)
    \/ Return(h)

-----------------------------------------------------------------------------
(* The firmware, one step per device access.  It runs only while the Spike *)
(* thread steps the processor.                                             *)

FwGoto(from, to) == sim = "live" /\ fpc = from /\ fpc' = to

(* The poll of STATUS that finds BUSY; one that does not changes nothing.  *)
FwPoll ==
    /\ FwGoto("poll", "command")
    /\ "BUSY" \in status
    /\ UNCHANGED <<regs, host, fcmd, fdata, fidx, fresp, sim, accepted, execs>>

FwReadCommand ==
    /\ FwGoto("command", "data")
    /\ fcmd' = command
    /\ fidx' = 0
    /\ UNCHANGED <<regs, host, fdata, fresp, sim, accepted, execs>>

(* mailbox_read_data0 ... mailbox_read_data3 *)
FwReadData ==
    /\ FwGoto("data", IF fidx = 3 THEN "handle" ELSE "data")
    /\ fdata' = [fdata EXCEPT ![fidx] = data[fidx]]
    /\ fidx' = IF fidx = 3 THEN fidx ELSE fidx + 1
    /\ UNCHANGED <<regs, host, fcmd, fresp, sim, accepted, execs>>

(* The switch of handle_mailbox_command runs the handler. *)
FwHandle ==
    /\ FwGoto("handle", "response")
    /\ fresp' = Handle(fcmd, fdata)
    /\ execs' = execs + 1
    /\ UNCHANGED <<regs, host, fcmd, fdata, fidx, sim, accepted>>

(* Mutant: the command is written to RESPONSE. *)
MutantFwWriteResponse ==
    /\ FwGoto("response", "status")
    /\ response' = fcmd
    /\ UNCHANGED <<status, command, data, host, fcmd, fdata, fidx, fresp, sim,
                   accepted, execs>>

(* The store to RESPONSE: mailbox_t::store sets response_reg, *)
FwWriteResponse ==
    /\ FwGoto("response", "status")
    /\ response' = fresp
    /\ UNCHANGED <<status, command, data, host, fcmd, fdata, fidx, fresp, sim,
                   accepted, execs>>

(* Mutants: the store to RESPONSE leaves BUSY set; it sets no READY. *)
MutantFwSetReadyBusy ==
    /\ FwGoto("status", "poll")
    /\ status' = UpdateStatus(TRUE, TRUE, FALSE, "VECTOR_MODE" \in status)
    /\ UNCHANGED <<command, data, response, host, fcmd, fdata, fidx, fresp, sim,
                   accepted, execs>>

MutantFwSetReadyNone ==
    /\ FwGoto("status", "poll")
    /\ status' = UpdateStatus(FALSE, FALSE, FALSE, "VECTOR_MODE" \in status)
    /\ UNCHANGED <<command, data, response, host, fcmd, fdata, fidx, fresp, sim,
                   accepted, execs>>

(* then the status, of which only VECTOR_MODE is kept. *)
FwSetReady ==
    /\ FwGoto("status", "poll")
    /\ status' = UpdateStatus(TRUE, FALSE, FALSE, "VECTOR_MODE" \in status)
    /\ UNCHANGED <<command, data, response, host, fcmd, fdata, fidx, fresp, sim,
                   accepted, execs>>

FwStep == \/ FwPoll \/ FwReadCommand \/ FwReadData \/ FwHandle
          \/ FwWriteResponse \/ FwSetReady

(* run_spike leaves its loop: stop() was called, or the simulation is done. *)
(* It does so between two calls of proc->step, never inside a store.        *)
SimHalt ==
    /\ sim = "live" /\ fpc # "status"
    /\ sim' = "halted"
    /\ UNCHANGED <<regs, host, fw, accepted, execs>>

(* stop(): sim_.reset() after the thread has been joined *)
SimReset ==
    /\ sim = "halted"
    /\ sim' = "gone"
    /\ UNCHANGED <<regs, host, fw, accepted, execs>>

Next ==
    \/ \E h \in Hosts, c \in SentCalls : Invoke(h, c)
    \/ \E h \in Hosts : HostStep(h)
    \/ FwStep
    \/ SimHalt
    \/ SimReset

Spec == Init /\ [][Next]_vars

(* A thread inside the call keeps running, its clock advances, and the     *)
(* Spike thread keeps stepping the firmware while it is live.              *)
FairSpec ==
    /\ Spec
    /\ \A h \in Hosts : WF_vars(HostStep(h))
    /\ WF_vars(FwStep)

-----------------------------------------------------------------------------
(* Type invariant: STATUS and what a thread loaded of it are combinations  *)
(* of the bits it has, RESPONSE and the results of calls are codes, and    *)
(* every label, index and counter is one of the code's.                    *)
TypeOK ==
    /\ status \in SUBSET StatusBits
    /\ command \in Nat /\ data \in [DataRegs -> Nat] /\ response \in Codes
    /\ mutex \in Hosts \cup {Free}
    /\ pc \in [Hosts -> HostPC]
    /\ call \in [Hosts -> SentCalls \cup {NoCall}]
    /\ idx \in [Hosts -> DataRegs]
    /\ \A h \in Hosts : pc[h] # "idle" => call[h] \in SentCalls
    /\ old \in [Hosts -> SUBSET StatusBits]
    /\ result \in [Hosts -> Codes \cup {FAILED}]
    /\ fpc \in FwPC /\ fcmd \in Nat /\ fdata \in [DataRegs -> Nat]
    /\ fidx \in DataRegs /\ fresp \in Codes
    /\ sim \in {"live", "halted", "gone"}
    /\ accepted \in SentCalls \cup {NoCall}
    /\ execs \in Nat

(* No stale or foreign answer: a call that returns an answer of the         *)
(* firmware returns the one the firmware computes for that very call, after *)
(* any number of timeouts, duplicate executions and calls of other threads  *)
(* (mailbox_t::send_command_complete).                                      *)
ResponseMatchesCommand ==
    \A h \in Hosts :
        pc[h] = "finish" /\ result[h] # FAILED
            => result[h] = Handle(call[h].cmd, call[h].data)

(* The registers have one user at a time although nothing locks them: the  *)
(* host stores to COMMAND, DATA and RESPONSE only while the firmware is at *)
(* the poll of its main loop and the mailbox is READY.                     *)
RegisterExclusion ==
    \A h \in Hosts : pc[h] \in Writing => fpc = "poll" /\ status = {"READY"}

(* No torn command: what the firmware executes is the command and all four *)
(* parameters of the last accepted call, never a mixture of two calls,     *)
(* though it loads them one by one (handle_mailbox_command).               *)
NoTornCommand ==
    fpc = "handle" => accepted = [cmd |-> fcmd, data |-> fdata]

(* send_command stores BUSY twice and the trigger's store to STATUS does   *)
(* so twice more; the firmware may answer between any two of them, but     *)
(* never executes one call more than four times.                           *)
AtMostFourExecutions == execs <= 4

(* Every call that holds command_mutex_ returns, whatever becomes of the   *)
(* firmware and the Spike thread: the two waits time out.                  *)
CallReturns == \A h \in Hosts : pc[h] = "check" ~> pc[h] = "idle"

(* A command whose BUSY bit was stored is executed even when its caller    *)
(* has given up, unless the Spike thread stops: the unlocked stores to     *)
(* STATUS from two threads never lose it.                                  *)
AcceptedIsExecuted ==
    \A h \in Hosts : pc[h] = "process" ~> (execs > 0 \/ sim # "live")

(* After a timeout the mailbox becomes usable again, unless the Spike      *)
(* thread stops.                                                           *)
MailboxRecovers == "BUSY" \in status ~> (IsReady \/ sim # "live")

(* Stated by docs/rvv_mailbox_dev.md:68: the host's write to STATUS        *)
(* triggers the execution, so the firmware executes an accepted call once. *)
OneExecutionPerTrigger == execs <= 1

(* Stated by docs/rvv_mailbox_dev.md:175-177: on an error STATUS.ERROR is  *)
(* set, until the host clears it.  So a caller that was answered with one  *)
(* of the firmware's error codes still finds the bit in STATUS before it   *)
(* gives up command_mutex_.                                                *)
ErrorBitReported ==
    \A h \in Hosts :
        pc[h] = "finish" /\ result[h] \in {ERR_INVALID_CMD, ERR_INVALID_PARAM}
            => "ERROR" \in status

(* The mailbox implements CommandService.  A call is being served from the *)
(* moment it passes send_command's test until its result is known.         *)
Served == Writing \cup Armed \cup {"read"}

Client == [h \in Hosts |-> CASE pc[h] = "idle"   -> "idle"
                            [] pc[h] = "finish" -> "done"
                            [] OTHER            -> "pending"]
Owner  == IF mutex # Free /\ pc[mutex] \in Served THEN mutex ELSE Free
Ran    == execs > 0

Service == INSTANCE CommandService WITH
    Calls <- SentCalls, client <- Client, owner <- Owner, ran <- Ran

(* Refinement: every behaviour of the mailbox is one of the command        *)
(* service, so an answer is always the firmware's answer to the accepted   *)
(* call, given after it ran, and a failed call may still run later.        *)
ServiceSpec == Service!Spec

-----------------------------------------------------------------------------
(* The inductive invariant behind the safety properties. *)

(* What the calls of update_status leave of STATUS: none of them asks for  *)
(* ERROR or VECTOR_MODE, and exactly one of READY and BUSY is set.  So a   *)
(* status that is not READY is BUSY, and clearing ERROR in it changes      *)
(* nothing.                                                                *)
OneBit == /\ status \in {{"READY"}, {"BUSY"}}
          /\ old \in [Hosts -> {{"READY"}, {"BUSY"}}]

(* command_mutex_ is held by the thread that is inside the call. *)
MutexInv == \A h \in Hosts : pc[h] \in Inside <=> mutex = h

(* READY belongs to the host and BUSY to the firmware: the firmware leaves *)
(* its poll only on BUSY and stores READY as its last step, and a host     *)
(* thread that is about to store to the registers has seen READY.  A READY *)
(* that the trigger's read-modify-write loaded is still there.             *)
StatusInv ==
    /\ fpc # "poll" => status = {"BUSY"}
    /\ \A h \in Hosts :
        /\ pc[h] \in Writing \cup {"send", "read"} => status = {"READY"}
        /\ pc[h] = "store" /\ old[h] = {"READY"} => status = {"READY"}

Settled == command = accepted.cmd /\ data = accepted.data

(* The registers hold the accepted call while anyone may act on them. *)
RegsInv ==
    /\ status = {"BUSY"} => Settled /\ accepted \in SentCalls
    /\ \A h \in Hosts :
        /\ pc[h] \in Served => accepted = call[h]
        /\ pc[h] = "data" => /\ command = accepted.cmd
                             /\ \A r \in DataRegs :
                                  r < idx[h] => data[r] = accepted.data[r]
        /\ pc[h] \in {"clear", "busy", "read"} \cup Armed => Settled

Answer == Handle(accepted.cmd, accepted.data)

(* The firmware works on the accepted call, and answers it. *)
FwInv ==
    /\ fpc = "data" => /\ fcmd = accepted.cmd
                         /\ \A r \in DataRegs :
                              r < fidx => fdata[r] = accepted.data[r]
    /\ NoTornCommand
    /\ fpc = "response" => fresp = Answer /\ execs > 0
    /\ fpc = "status" => response = Answer /\ execs > 0

(* Once BUSY has been stored, READY means that the answer is there. *)
AnswerInv ==
    /\ \A h \in Hosts : pc[h] \in Armed \cup {"read"} /\ status = {"READY"}
                            => response = Answer /\ execs > 0
    /\ ResponseMatchesCommand

IInv == TypeOK /\ OneBit /\ MutexInv /\ StatusInv /\ RegsInv /\ FwInv /\ AnswerInv

(* The executions still to come: one that BUSY has started, and one for    *)
(* each store of BUSY that the call in progress has not made yet.          *)
Started == IF status = {"BUSY"} /\ fpc \in {"poll", "command", "data", "handle"}
           THEN 1 ELSE 0

StoresLeft(label) == CASE label \in Writing          -> 4
                       [] label = "process"          -> 3
                       [] label \in {"load", "store"} -> 2
                       [] label = "trigger"          -> 1
                       [] OTHER                      -> 0

ExecsInv ==
    /\ execs + Started <= 4
    /\ \A h \in Hosts : mutex = h => execs + Started + StoresLeft(pc[h]) <= 4
=============================================================================
