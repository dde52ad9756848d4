----------------------------- MODULE MailboxTest -----------------------------
(***************************************************************************)
(* The test program spike_mailbox.cc, run against the mailbox: main        *)
(* selects test cases, run_all_tests starts Spike with one of the two      *)
(* firmwares, makes the calls of the cases one after the other, stops      *)
(* Spike and turns the verdicts into the exit code.                        *)
(***************************************************************************)
EXTENDS Mailbox, FuseFirmware, Sequences

CONSTANTS
    Main,             \* the thread that runs main
    PerfIterations    \* calls of the performance test (10 in the code)

(* BufferAddress stands for 0x80001000 and InvalidCommand for 0xFFFFFFFF,  *)
(* both numbers of type uint32_t.                                          *)
BufferAddress == 32768
InvalidCommand == 255

ASSUME MailboxTestAssumption ==
    /\ Main \in Hosts /\ PerfIterations \in Nat \ {0}
    /\ BufferAddress < U32 /\ InvalidCommand < U32

VARIABLES
    image,         \* the firmware: "mailbox" or "fuse"
    prog,          \* where main is
    enabled,       \* the selected test cases
    current,       \* the test case that runs
    iter,          \* calls the performance test has made
    passed_count, total_count,
    exit,          \* the exit code, Terminated or Running
    gaveUp         \* history: a call was not answered, or start() failed

Running == -1
Terminated == -2    \* by std::terminate

testVars == <<image, prog, enabled, current, iter, passed_count, total_count, exit, gaveUp>>
allVars == <<vars, testVars>>

-----------------------------------------------------------------------------
(* The test cases: the call and the answer that passes.  A command is sent *)
(* with the address and the byte count of a buffer.                        *)
TestBuffer(size) == [r \in DataRegs |-> IF r = 0 THEN BufferAddress ELSE IF r = 1 THEN size ELSE 0]
Floats(n) == TestBuffer(4 * n)
TestCall(cmd, parameters) == [cmd |-> cmd, data |-> parameters]

test_hello_command == [call |-> TestCall(HELLO, Zeros), wanted |-> SUCCESS]
test_hi_command == [call |-> TestCall(HI, Zeros), wanted |-> SUCCESS]
test_vector_load_command == [call |-> TestCall(VECTOR_LOAD, TestBuffer(1024)), wanted |-> SUCCESS]
test_vector_store_command == [call |-> TestCall(VECTOR_STORE, TestBuffer(512)), wanted |-> SUCCESS]
test_vector_compute_command ==
    [call |-> TestCall(VECTOR_COMPUTE, TestBuffer(256)), wanted |-> SUCCESS]
test_softmax_command == [call |-> TestCall(SOFTMAX, Floats(5)), wanted |-> SUCCESS]
test_exp_command == [call |-> TestCall(EXP, Floats(5)), wanted |-> SUCCESS]
test_quant_command == [call |-> TestCall(QUANT, Floats(5)), wanted |-> SUCCESS]
test_invalid_command == [call |-> TestCall(InvalidCommand, Zeros), wanted |-> ERR_INVALID_CMD]

(* The performance test calls HELLO and ignores the answers. *)
test_performance == [call |-> TestCall(HELLO, Zeros), wanted |-> FAILED]

test_cases == <<test_hello_command, test_hi_command, test_vector_load_command,
                test_vector_store_command, test_vector_compute_command, test_softmax_command,
                test_exp_command, test_quant_command, test_invalid_command, test_performance>>
Performance == Len(test_cases)

-----------------------------------------------------------------------------
(* The fuse firmware polls only after test_insn, which does not return     *)
(* when one of its tests fails.                                            *)
TestInit ==
    /\ Init
    /\ image \in {"mailbox", "fuse"}
    /\ prog = "parse" /\ enabled = DOMAIN test_cases
    /\ current = 1 /\ iter = 0 /\ passed_count = 0 /\ total_count = 0
    /\ exit = Running /\ gaveUp = FALSE

At(p) == prog = p /\ exit = Running

(* --help and --list end the program; --test NAME leaves the cases of that *)
(* name, none if there is no such case.                                    *)
ParseArguments ==
    /\ At("parse")
    /\ \/ exit' = 0 /\ UNCHANGED <<prog, enabled>>
       \/ /\ prog' = "start"
          /\ enabled' \in {DOMAIN test_cases, {}} \cup {{t} : t \in DOMAIN test_cases}
          /\ UNCHANGED exit
    /\ UNCHANGED <<vars, image, current, iter, passed_count, total_count, gaveUp>>

(* start() may succeed without a simulator, when its creation has failed;  *)
(* run_spike then ends at once.                                            *)
StartSpike ==
    /\ At("start")
    /\ \/ /\ prog' = "run" /\ sim' \in {sim, "gone"}
          /\ fpc' = IF image = "fuse" THEN "boot" ELSE "poll"
          /\ UNCHANGED <<exit, gaveUp>>
       \/ exit' = 1 /\ gaveUp' = TRUE /\ UNCHANGED <<prog, fpc, sim>>
    /\ UNCHANGED <<regs, host, fcmd, fdata, fidx, fresp, accepted, execs,
                   image, enabled, current, iter, passed_count, total_count>>

SkipTest ==
    /\ At("run") /\ current \in DOMAIN test_cases \ enabled
    /\ current' = current + 1
    /\ UNCHANGED <<vars, image, prog, enabled, iter, passed_count, total_count, exit, gaveUp>>

BeginTest ==
    /\ At("run") /\ current \in enabled
    /\ Invoke(Main, test_cases[current].call)
    /\ prog' = "call" /\ iter' = 1 /\ total_count' = total_count + 1
    /\ UNCHANGED <<image, enabled, current, passed_count, exit, gaveUp>>

(* The performance test's next call. *)
NextIteration ==
    /\ At("call") /\ pc[Main] = "idle"
    /\ current = Performance /\ iter < PerfIterations
    /\ Invoke(Main, test_cases[current].call)
    /\ iter' = iter + 1
    /\ UNCHANGED <<image, prog, enabled, current, passed_count, total_count, exit, gaveUp>>

Passes == current = Performance \/ result[Main] = test_cases[current].wanted

EndTest ==
    /\ At("call") /\ pc[Main] = "idle"
    /\ current = Performance => iter = PerfIterations
    /\ passed_count' = passed_count + (IF Passes THEN 1 ELSE 0)
    /\ gaveUp' = (gaveUp \/ (current # Performance /\ result[Main] = FAILED))
    /\ prog' = "run" /\ current' = current + 1 /\ iter' = 0
    /\ UNCHANGED <<vars, image, enabled, total_count, exit>>

(* stop() ends a run that goes on and joins its thread.  It returns at     *)
(* once when run_spike has ended by itself and cleared running_, and the   *)
(* thread stays joinable.                                                  *)
StopSpike ==
    /\ At("run") /\ current > Len(test_cases)
    /\ \/ prog' = "stop" /\ (SimHalt \/ (sim # "live" /\ UNCHANGED vars))
       \/ prog' = "unjoined" /\ sim # "live" /\ UNCHANGED vars
    /\ UNCHANGED <<image, enabled, current, iter, passed_count, total_count, exit, gaveUp>>

(* stop(): sim_.reset(), after the join *)
ResetSpike ==
    /\ At("stop")
    /\ prog' = "report" /\ (SimReset \/ (sim = "gone" /\ UNCHANGED vars))
    /\ UNCHANGED <<image, enabled, current, iter, passed_count, total_count, exit, gaveUp>>

(* The summary and the exit code, unless the wrapper's destructor meets a  *)
(* joinable thread and std::terminate ends the program.                    *)
Report ==
    /\ \/ At("report") /\ exit' = IF passed_count = total_count THEN 0 ELSE 1
       \/ At("unjoined") /\ exit' = Terminated
    /\ UNCHANGED <<vars, image, prog, enabled, current, iter, passed_count, total_count, gaveUp>>

(* The main loop of the fuse firmware is entered after test_insn. *)
FuseBoot ==
    /\ FwGoto("boot", "poll")
    /\ UNCHANGED <<regs, host, fcmd, fdata, fidx, fresp, sim, accepted, execs>>

FuseHandleCommand ==
    /\ FwGoto("handle", "response")
    /\ fresp' = FuseHandle(fcmd, fdata)
    /\ execs' = execs + 1
    /\ UNCHANGED <<regs, host, fcmd, fdata, fidx, sim, accepted>>

Firmware ==
    /\ prog \notin {"parse", "start"}
    /\ \/ FwPoll \/ FwReadCommand \/ FwReadData \/ FwWriteResponse \/ FwSetReady
       \/ image = "mailbox" /\ FwHandle
       \/ image = "fuse" /\ FuseHandleCommand
    /\ UNCHANGED testVars

Boot == prog \notin {"parse", "start"} /\ FuseBoot /\ UNCHANGED testVars

(* The Spike thread may end at any time: the simulation is done or fails. *)
Crash == At("call") /\ SimHalt /\ UNCHANGED testVars

Call == At("call") /\ HostStep(Main) /\ UNCHANGED testVars

MainStep == ParseArguments \/ StartSpike \/ SkipTest \/ BeginTest \/ NextIteration \/ EndTest
                \/ StopSpike \/ ResetSpike \/ Report

TestNext == MainStep \/ Call \/ Firmware \/ Boot \/ Crash

(* main runs, the calls' clock advances, and a live Spike thread steps the *)
(* firmware; test_insn need not return.                                    *)
TestSpec ==
    /\ TestInit /\ [][TestNext]_allVars
    /\ WF_allVars(MainStep) /\ WF_allVars(Call) /\ WF_allVars(Firmware)

-----------------------------------------------------------------------------
(* spike_mailbox.cc: a verdict is not an accident.  HELLO's expected       *)
(* answer 0 is also what RESPONSE is cleared to before the firmware sees   *)
(* the command, yet no case but the performance test is counted as passed  *)
(* unless the firmware executed its command since the call was accepted.   *)
PassNeedsExecution ==
    [][passed_count' > passed_count /\ current # Performance =>
          execs > 0 /\ accepted = test_cases[current].call]_allVars

(* spike_mailbox.cc with firmware/mailbox and firmware/fuse: the cases'    *)
(* parameters are the ones the handlers accept.  The program fails only if *)
(* Spike did not start or a call ran into its timeout.                     *)
FailureNeedsTimeout == exit = 1 => gaveUp

(* spike_mailbox.cc: the program ends, also when the Spike thread dies     *)
(* during a call or the firmware never reaches its polling loop.           *)
ProgramEnds == <>(exit # Running)
=============================================================================
