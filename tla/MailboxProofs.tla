---------------------------- MODULE MailboxProofs ----------------------------
(***************************************************************************)
(* Proofs about Mailbox, for every set of host threads, commands and       *)
(* parameters and every width of uint32_t, and about the test program that *)
(* runs against it.                                                        *)
(***************************************************************************)
EXTENDS MailboxTest, TLAPS

-----------------------------------------------------------------------------
(* Facts about the operators the model is built from. *)

(* update_status with only BUSY asked for. *)
LEMMA UpdateStatusBusy == UpdateStatus(FALSE, TRUE, FALSE, FALSE) = {"BUSY"}
  BY DEF UpdateStatus, StatusBits

(* The three stores of BUSY differ only in where they are.                 *)
LEMMA BusyStored ==
  ASSUME NEW h, NEW from, NEW to, StoreBusy(h, from, to)
  PROVE  /\ Goto(h, from, to) /\ status' = {"BUSY"}
         /\ UNCHANGED <<command, data, response, mutex, call, idx, old, result, fw, sim,
                        accepted, execs>>
  BY UpdateStatusBusy DEF StoreBusy

(* update_status as the store to RESPONSE calls it. *)
LEMMA UpdateStatusReady ==
  ASSUME status \in {{"READY"}, {"BUSY"}}
  PROVE  UpdateStatus(TRUE, FALSE, FALSE, "VECTOR_MODE" \in status) = {"READY"}
  BY DEF UpdateStatus, StatusBits

(* The firmware always answers with one of its response codes. *)
LEMMA HandleCodes ==
  ASSUME NEW cmd, NEW d
  PROVE  Handle(cmd, d) \in Codes
  BY DEF Handle, CheckVector, Codes

(* A call as the device sees it: a command code and four parameters. *)
LEMMA SentCallType ==
  ASSUME NEW c \in SentCalls
  PROVE  c \in [cmd : Nat, data : [DataRegs -> Nat]]
  <1>1. ASSUME NEW k \in Calls PROVE k \in [cmd : Nat, data : [DataRegs -> Nat]]
    BY InputAssumption DEF Calls
  <1>2. ASSUME NEW k \in Commands
        PROVE  [cmd |-> k, data |-> Zeros] \in [cmd : Nat, data : [DataRegs -> Nat]]
    BY InputAssumption DEF Zeros
  <1>3. QED
    BY <1>1, <1>2 DEF SentCalls

-----------------------------------------------------------------------------
(* The model's variables keep their types. *)

(* The constructor's values and the threads' first labels have their types. *)
LEMMA TypeInit == Init => TypeOK
  BY InputAssumption DEF Init, TypeOK, StatusBits, Codes, HostPC, FwPC, Zeros, DataRegs,
     SUCCESS, FAILED

(* Every step keeps the types. *)
LEMMA TypeNext == TypeOK /\ [Next]_vars => TypeOK'
  <1> SUFFICES ASSUME TypeOK, [Next]_vars PROVE TypeOK'
    OBVIOUS
  <1> USE DEF TypeOK
  <1>1. ASSUME NEW h \in Hosts, NEW c \in SentCalls, Invoke(h, c) PROVE TypeOK'
    BY <1>1 DEF Invoke, Goto, regs, fw, HostPC, Inside
  <1>2. ASSUME NEW h \in Hosts, HostStep(h) PROVE TypeOK'
    <2> USE DEF Goto, regs, fw, HostPC, Inside, Writing, Armed
    <2>1. CASE LockCommandMutex(h) BY <2>1 DEF LockCommandMutex
    <2>2. CASE CheckSim(h) BY <2>2 DEF CheckSim
    <2>3. CASE WaitForReady(h) BY <2>3 DEF WaitForReady
    <2>4. CASE WaitTimeout(h) BY <2>4 DEF WaitTimeout
    <2>5. CASE SendCommand(h) BY <2>5 DEF SendCommand
    <2>6. CASE WriteCommand(h)
      BY <2>6, SentCallType DEF WriteCommand, DataRegs
    <2>7. CASE WriteData(h)
      <3>1. call[h] \in SentCalls
        BY <2>7 DEF WriteData
      <3>2. call[h].data[idx[h]] \in Nat
        BY <3>1, SentCallType
      <3>3. data' \in [DataRegs -> Nat]
        BY <2>7, <3>2 DEF WriteData
      <3>4. idx' \in [Hosts -> DataRegs]
        BY <2>7 DEF WriteData, DataRegs
      <3>5. QED
        BY <2>7, <3>3, <3>4 DEF WriteData
    <2>8. CASE ClearResponse(h) BY <2>8 DEF ClearResponse, Codes
    <2>9. CASE SetBusy(h) BY <2>9, BusyStored DEF SetBusy, StatusBits
    <2>10. CASE ProcessCommand(h) BY <2>10, BusyStored DEF ProcessCommand, StatusBits
    <2>11. CASE Trigger(h) BY <2>11, BusyStored DEF Trigger, StatusBits
    <2>12. CASE LoadStatus(h) BY <2>12 DEF LoadStatus
    <2>13. CASE ClearError(h)
      <3>1. old[h] \ {"ERROR"} \in SUBSET StatusBits
        OBVIOUS
      <3>2. QED
        BY <2>13, <3>1 DEF ClearError
    <2>14. CASE PollDone(h) BY <2>14 DEF PollDone
    <2>15. CASE PollTimeout(h) BY <2>15 DEF PollTimeout
    <2>16. CASE ReadResponse(h) BY <2>16 DEF ReadResponse
    <2>17. CASE Return(h) BY <2>17 DEF Return
    <2>18. QED
      BY <1>2, <2>1, <2>2, <2>3, <2>4, <2>5, <2>6, <2>7, <2>8, <2>9, <2>10,
         <2>11, <2>12, <2>13, <2>14, <2>15, <2>16, <2>17 DEF HostStep
  <1>3. CASE FwStep
    <2> USE DEF FwGoto, regs, host, FwPC
    <2>1. CASE FwPoll BY <2>1 DEF FwPoll
    <2>2. CASE FwReadCommand BY <2>2 DEF FwReadCommand, DataRegs
    <2>3. CASE FwReadData BY <2>3 DEF FwReadData, DataRegs
    <2>4. CASE FwHandle BY <2>4, HandleCodes DEF FwHandle
    <2>5. CASE FwWriteResponse BY <2>5 DEF FwWriteResponse
    <2>6. CASE FwSetReady BY <2>6 DEF FwSetReady, UpdateStatus
    <2>7. QED
      BY <1>3, <2>1, <2>2, <2>3, <2>4, <2>5, <2>6 DEF FwStep
  <1>4. CASE SimHalt
    BY <1>4 DEF SimHalt, regs, host, fw
  <1>5. CASE SimReset
    BY <1>5 DEF SimReset, regs, host, fw
  <1>6. CASE UNCHANGED vars
    BY <1>6 DEF vars, regs, host, fw
  <1>7. QED
    BY <1>1, <1>2, <1>3, <1>4, <1>5, <1>6 DEF Next

(* Every register and every variable of the threads keeps its type. *)
THEOREM TypeCorrect == Spec => []TypeOK
  BY TypeInit, TypeNext, PTL DEF Spec

(* Every step leaves exactly one of READY and BUSY in STATUS, no ERROR and *)
(* no VECTOR_MODE.                                                         *)
LEMMA OneBitNext == TypeOK /\ OneBit /\ [Next]_vars => OneBit'
  <1> SUFFICES ASSUME TypeOK, OneBit, [Next]_vars PROVE OneBit'
    OBVIOUS
  <1> USE DEF OneBit
  <1>1. ASSUME UNCHANGED <<status, old>> PROVE OneBit'
    BY <1>1
  <1>2. ASSUME NEW h \in Hosts, HostStep(h) PROVE OneBit'
    <2>1. CASE SetBusy(h) \/ ProcessCommand(h) \/ Trigger(h)
      BY <2>1, BusyStored DEF SetBusy, ProcessCommand, Trigger
    <2>2. CASE LoadStatus(h)
      BY <2>2 DEF LoadStatus, regs
    <2>3. CASE ClearError(h)
      <3>1. old[h] \ {"ERROR"} = old[h]
        OBVIOUS
      <3>2. QED
        BY <2>3, <3>1 DEF ClearError
    <2>4. QED
      BY <1>1, <1>2, <2>1, <2>2, <2>3 DEF HostStep, LockCommandMutex, CheckSim,
         WaitForReady, WaitTimeout, SendCommand, WriteCommand, WriteData,
         ClearResponse, PollDone, PollTimeout, ReadResponse, Return, regs
  <1>3. CASE FwSetReady
    BY <1>3, UpdateStatusReady DEF FwSetReady, host
  <1>4. CASE \/ \E h \in Hosts, c \in SentCalls : Invoke(h, c)
             \/ (FwStep /\ ~FwSetReady) \/ SimHalt \/ SimReset \/ UNCHANGED vars
    <2>1. UNCHANGED <<status, old>>
      BY <1>4 DEF Invoke, FwStep, FwPoll, FwReadCommand, FwReadData, FwHandle,
         FwWriteResponse, SimHalt, SimReset, vars, regs, host
    <2>2. QED
      BY <1>1, <2>1
  <1>5. QED
    BY <1>2, <1>3, <1>4 DEF Next, FwStep

-----------------------------------------------------------------------------
(* The mutual exclusion of the call. *)

(* Every step keeps command_mutex_ with the thread inside the call. *)
LEMMA MutexNext == TypeOK /\ MutexInv /\ [Next]_vars => MutexInv'
  <1> SUFFICES ASSUME TypeOK, MutexInv, [Next]_vars PROVE MutexInv'
    OBVIOUS
  <1> USE InputAssumption DEF TypeOK, MutexInv
  <1>1. ASSUME NEW h \in Hosts, NEW c \in SentCalls, Invoke(h, c) PROVE MutexInv'
    BY <1>1 DEF Invoke, Goto, Inside, Writing, Armed
  <1>2. ASSUME NEW h \in Hosts, HostStep(h) PROVE MutexInv'
    <2> USE DEF Goto, HostPC, Inside, Writing, Armed
    <2>1. CASE LockCommandMutex(h) BY <2>1 DEF LockCommandMutex
    <2>2. CASE CheckSim(h) BY <2>2 DEF CheckSim
    <2>3. CASE WaitForReady(h) BY <2>3 DEF WaitForReady, IsReady
    <2>4. CASE WaitTimeout(h) BY <2>4 DEF WaitTimeout
    <2>5. CASE SendCommand(h) BY <2>5 DEF SendCommand, IsReady
    <2>6. CASE WriteCommand(h) BY <2>6 DEF WriteCommand
    <2>7. CASE WriteData(h) BY <2>7 DEF WriteData
    <2>8. CASE ClearResponse(h) BY <2>8 DEF ClearResponse
    <2>9. CASE SetBusy(h) BY <2>9 DEF SetBusy, StoreBusy
    <2>10. CASE ProcessCommand(h) BY <2>10 DEF ProcessCommand, StoreBusy
    <2>11. CASE Trigger(h) BY <2>11 DEF Trigger, StoreBusy
    <2>12. CASE LoadStatus(h) BY <2>12 DEF LoadStatus
    <2>13. CASE ClearError(h) BY <2>13 DEF ClearError
    <2>14. CASE PollDone(h) BY <2>14 DEF PollDone
    <2>15. CASE PollTimeout(h) BY <2>15 DEF PollTimeout
    <2>16. CASE ReadResponse(h) BY <2>16 DEF ReadResponse
    <2>17. CASE Return(h) BY <2>17 DEF Return
    <2>18. QED
      BY <1>2, <2>1, <2>2, <2>3, <2>4, <2>5, <2>6, <2>7, <2>8, <2>9, <2>10,
         <2>11, <2>12, <2>13, <2>14, <2>15, <2>16, <2>17 DEF HostStep
  <1>3. CASE FwStep
    BY <1>3 DEF FwStep, FwPoll, FwReadCommand, FwReadData, FwHandle,
       FwWriteResponse, FwSetReady, host
  <1>4. CASE SimHalt \/ SimReset
    BY <1>4 DEF SimHalt, SimReset, host
  <1>5. CASE UNCHANGED vars
    BY <1>5 DEF vars, host
  <1>6. QED
    BY <1>1, <1>2, <1>3, <1>4, <1>5 DEF Next

(* READY is the host's and BUSY the firmware's. *)
LEMMA StatusNext == IInv /\ [Next]_vars => StatusInv'
  <1> SUFFICES ASSUME IInv, [Next]_vars PROVE StatusInv'
    OBVIOUS
  <1> USE InputAssumption DEF IInv, TypeOK, OneBit, MutexInv, StatusInv
  <1>1. ASSUME NEW h \in Hosts, NEW c \in SentCalls, Invoke(h, c) PROVE StatusInv'
    BY <1>1 DEF Invoke, Goto, Inside, Writing, Armed, Served, regs, fw
  <1>2. ASSUME NEW h \in Hosts, HostStep(h) PROVE StatusInv'
    <2> USE DEF Goto, Inside, Writing, Armed, Served, regs, fw
    <2>1. CASE LockCommandMutex(h) BY <2>1 DEF LockCommandMutex
    <2>2. CASE CheckSim(h) BY <2>2 DEF CheckSim
    <2>3. CASE WaitForReady(h) BY <2>3 DEF WaitForReady, IsReady
    <2>4. CASE WaitTimeout(h) BY <2>4 DEF WaitTimeout
    <2>5. CASE SendCommand(h) BY <2>5 DEF SendCommand, IsReady
    <2>6. CASE WriteCommand(h) BY <2>6 DEF WriteCommand
    <2>7. CASE WriteData(h) BY <2>7 DEF WriteData
    <2>8. CASE ClearResponse(h) BY <2>8 DEF ClearResponse
    <2>9. CASE SetBusy(h) BY <2>9, BusyStored DEF SetBusy
    <2>10. CASE ProcessCommand(h)
      BY <2>10, BusyStored DEF ProcessCommand
    <2>11. CASE Trigger(h) BY <2>11, BusyStored DEF Trigger
    <2>12. CASE LoadStatus(h) BY <2>12 DEF LoadStatus
    <2>13. CASE ClearError(h) BY <2>13 DEF ClearError
    <2>14. CASE PollDone(h) BY <2>14 DEF PollDone
    <2>15. CASE PollTimeout(h) BY <2>15 DEF PollTimeout
    <2>16. CASE ReadResponse(h) BY <2>16 DEF ReadResponse
    <2>17. CASE Return(h) BY <2>17 DEF Return
    <2>18. QED
      BY <1>2, <2>1, <2>2, <2>3, <2>4, <2>5, <2>6, <2>7, <2>8, <2>9, <2>10,
         <2>11, <2>12, <2>13, <2>14, <2>15, <2>16, <2>17 DEF HostStep
  <1>3. CASE FwStep
    <2> USE DEF FwGoto, regs, host, Writing, Armed, Served
    <2>1. CASE FwPoll BY <2>1 DEF FwPoll
    <2>2. CASE FwReadCommand BY <2>2 DEF FwReadCommand
    <2>3. CASE FwReadData BY <2>3 DEF FwReadData
    <2>4. CASE FwHandle BY <2>4 DEF FwHandle
    <2>5. CASE FwWriteResponse BY <2>5 DEF FwWriteResponse
    <2>6. CASE FwSetReady BY <2>6, UpdateStatusReady DEF FwSetReady
    <2>7. QED
      BY <1>3, <2>1, <2>2, <2>3, <2>4, <2>5, <2>6 DEF FwStep
  <1>4. CASE SimHalt \/ SimReset
    BY <1>4 DEF SimHalt, SimReset, regs, host, fw
  <1>5. CASE UNCHANGED vars
    BY <1>5 DEF vars, regs, host, fw
  <1>6. QED
    BY <1>1, <1>2, <1>3, <1>4, <1>5 DEF Next

(* The registers hold the accepted call. *)
LEMMA RegsNext == IInv /\ [Next]_vars => RegsInv'
  <1> SUFFICES ASSUME IInv, [Next]_vars PROVE RegsInv'
    OBVIOUS
  <1> USE InputAssumption DEF IInv, TypeOK, OneBit, MutexInv, StatusInv, RegsInv, Settled
  <1>1. ASSUME NEW h \in Hosts, NEW c \in SentCalls, Invoke(h, c) PROVE RegsInv'
    BY <1>1 DEF Invoke, Goto, Inside, Writing, Armed, Served, regs, fw
  <1>2. ASSUME NEW h \in Hosts, HostStep(h) PROVE RegsInv'
    <2> USE DEF Goto, Inside, Writing, Armed, Served, regs, fw
    <2>1. CASE LockCommandMutex(h) BY <2>1 DEF LockCommandMutex
    <2>2. CASE CheckSim(h) BY <2>2 DEF CheckSim
    <2>3. CASE WaitForReady(h) BY <2>3 DEF WaitForReady, IsReady
    <2>4. CASE WaitTimeout(h) BY <2>4 DEF WaitTimeout
    <2>5. CASE SendCommand(h) BY <2>5 DEF SendCommand, IsReady
    <2>6. CASE WriteCommand(h) BY <2>6 DEF WriteCommand, DataRegs
    <2>7. CASE WriteData(h)
      <3>1. /\ pc[h] = "data" /\ mutex = h /\ status = {"READY"}
            /\ accepted = call[h] /\ command = accepted.cmd
            /\ idx[h] \in 0 .. 3
            /\ accepted.data \in [DataRegs -> Nat]
        BY <2>7, SentCallType DEF WriteData, DataRegs
      <3>2. /\ data' \in [DataRegs -> Nat]
            /\ \A r \in DataRegs : r <= idx[h] => data'[r] = accepted.data[r]
        BY <2>7, <3>1 DEF WriteData, DataRegs
      <3>3. CASE idx[h] = 3
        <4>1. data' = accepted.data
          BY <3>1, <3>2, <3>3 DEF DataRegs
        <4>2. /\ pc' = [pc EXCEPT ![h] = "clear"]
              /\ UNCHANGED <<status, command, mutex, call, accepted>>
          BY <2>7, <3>3 DEF WriteData
        <4>3. QED
          BY <3>1, <4>1, <4>2
      <3>4. CASE idx[h] # 3
        <4>1. /\ idx' = [idx EXCEPT ![h] = idx[h] + 1]
              /\ pc' = pc
              /\ UNCHANGED <<status, command, mutex, call, accepted>>
          BY <2>7, <3>1, <3>4 DEF WriteData
        <4>2. \A r \in DataRegs : r < idx'[h] => data'[r] = accepted.data[r]
          BY <3>1, <3>2, <4>1 DEF DataRegs
        <4>3. QED
          BY <3>1, <4>1, <4>2
      <3>5. QED
        BY <3>3, <3>4
    <2>8. CASE ClearResponse(h) BY <2>8 DEF ClearResponse
    <2>9. CASE SetBusy(h) BY <2>9, BusyStored DEF SetBusy
    <2>10. CASE ProcessCommand(h)
      BY <2>10, BusyStored DEF ProcessCommand
    <2>11. CASE Trigger(h) BY <2>11, BusyStored DEF Trigger
    <2>12. CASE LoadStatus(h) BY <2>12 DEF LoadStatus
    <2>13. CASE ClearError(h) BY <2>13 DEF ClearError
    <2>14. CASE PollDone(h) BY <2>14 DEF PollDone
    <2>15. CASE PollTimeout(h) BY <2>15 DEF PollTimeout
    <2>16. CASE ReadResponse(h) BY <2>16 DEF ReadResponse
    <2>17. CASE Return(h) BY <2>17 DEF Return
    <2>18. QED
      BY <1>2, <2>1, <2>2, <2>3, <2>4, <2>5, <2>6, <2>7, <2>8, <2>9, <2>10,
         <2>11, <2>12, <2>13, <2>14, <2>15, <2>16, <2>17 DEF HostStep
  <1>3. CASE FwStep
    <2> USE DEF FwGoto, regs, host, Writing, Armed, Served
    <2>1. CASE FwPoll BY <2>1 DEF FwPoll
    <2>2. CASE FwReadCommand BY <2>2 DEF FwReadCommand
    <2>3. CASE FwReadData BY <2>3 DEF FwReadData
    <2>4. CASE FwHandle BY <2>4 DEF FwHandle
    <2>5. CASE FwWriteResponse BY <2>5 DEF FwWriteResponse
    <2>6. CASE FwSetReady BY <2>6, UpdateStatusReady DEF FwSetReady
    <2>7. QED
      BY <1>3, <2>1, <2>2, <2>3, <2>4, <2>5, <2>6 DEF FwStep
  <1>4. CASE SimHalt \/ SimReset
    BY <1>4 DEF SimHalt, SimReset, regs, host, fw
  <1>5. CASE UNCHANGED vars
    BY <1>5 DEF vars, regs, host, fw
  <1>6. QED
    BY <1>1, <1>2, <1>3, <1>4, <1>5 DEF Next

(* The firmware works on the accepted call. *)
LEMMA FwNext == IInv /\ [Next]_vars => FwInv'
  <1> SUFFICES ASSUME IInv, [Next]_vars PROVE FwInv'
    OBVIOUS
  <1> USE InputAssumption DEF IInv, TypeOK, OneBit, MutexInv, StatusInv, RegsInv,
          Settled, FwInv, NoTornCommand, Answer
  <1>1. ASSUME NEW h \in Hosts, NEW c \in SentCalls, Invoke(h, c) PROVE FwInv'
    BY <1>1 DEF Invoke, Goto, Inside, Writing, Armed, Served, regs, fw
  <1>2. ASSUME NEW h \in Hosts, HostStep(h) PROVE FwInv'
    <2> USE DEF Goto, Inside, Writing, Armed, Served, regs, fw
    <2>1. CASE LockCommandMutex(h) BY <2>1 DEF LockCommandMutex
    <2>2. CASE CheckSim(h) BY <2>2 DEF CheckSim
    <2>3. CASE WaitForReady(h) BY <2>3 DEF WaitForReady, IsReady
    <2>4. CASE WaitTimeout(h) BY <2>4 DEF WaitTimeout
    <2>5. CASE SendCommand(h) BY <2>5 DEF SendCommand, IsReady
    <2>6. CASE WriteCommand(h) BY <2>6 DEF WriteCommand
    <2>7. CASE WriteData(h) BY <2>7 DEF WriteData
    <2>8. CASE ClearResponse(h) BY <2>8 DEF ClearResponse
    <2>9. CASE SetBusy(h) BY <2>9, BusyStored DEF SetBusy
    <2>10. CASE ProcessCommand(h)
      BY <2>10, BusyStored DEF ProcessCommand
    <2>11. CASE Trigger(h) BY <2>11, BusyStored DEF Trigger
    <2>12. CASE LoadStatus(h) BY <2>12 DEF LoadStatus
    <2>13. CASE ClearError(h) BY <2>13 DEF ClearError
    <2>14. CASE PollDone(h) BY <2>14 DEF PollDone
    <2>15. CASE PollTimeout(h) BY <2>15 DEF PollTimeout
    <2>16. CASE ReadResponse(h) BY <2>16 DEF ReadResponse
    <2>17. CASE Return(h) BY <2>17 DEF Return
    <2>18. QED
      BY <1>2, <2>1, <2>2, <2>3, <2>4, <2>5, <2>6, <2>7, <2>8, <2>9, <2>10,
         <2>11, <2>12, <2>13, <2>14, <2>15, <2>16, <2>17 DEF HostStep
  <1>3. CASE FwStep
    <2> USE DEF FwGoto, regs, host, Writing, Armed, Served
    <2>1. CASE FwPoll BY <2>1 DEF FwPoll
    <2>2. CASE FwReadCommand BY <2>2 DEF FwReadCommand, DataRegs
    <2>3. CASE FwReadData
      <3>1. /\ fpc = "data" /\ status = {"BUSY"} /\ data = accepted.data
            /\ fcmd = accepted.cmd /\ fidx \in 0 .. 3
            /\ accepted = [cmd |-> accepted.cmd, data |-> accepted.data]
            /\ accepted.data \in [DataRegs -> Nat]
        BY <2>3, SentCallType DEF FwReadData, DataRegs
      <3>2. /\ fdata' \in [DataRegs -> Nat]
            /\ \A r \in DataRegs : r <= fidx => fdata'[r] = accepted.data[r]
        BY <2>3, <3>1 DEF FwReadData, DataRegs
      <3>3. CASE fidx = 3
        <4>1. fdata' = accepted.data
          BY <3>1, <3>2, <3>3 DEF DataRegs
        <4>2. QED
          BY <2>3, <3>1, <3>3, <4>1 DEF FwReadData
      <3>4. CASE fidx # 3
        BY <2>3, <3>1, <3>2, <3>4 DEF FwReadData, DataRegs
      <3>5. QED
        BY <3>3, <3>4
    <2>4. CASE FwHandle BY <2>4 DEF FwHandle
    <2>5. CASE FwWriteResponse BY <2>5 DEF FwWriteResponse
    <2>6. CASE FwSetReady BY <2>6, UpdateStatusReady DEF FwSetReady
    <2>7. QED
      BY <1>3, <2>1, <2>2, <2>3, <2>4, <2>5, <2>6 DEF FwStep
  <1>4. CASE SimHalt \/ SimReset
    BY <1>4 DEF SimHalt, SimReset, regs, host, fw
  <1>5. CASE UNCHANGED vars
    BY <1>5 DEF vars, regs, host, fw
  <1>6. QED
    BY <1>1, <1>2, <1>3, <1>4, <1>5 DEF Next

(* A READY that follows the call's BUSY comes with its answer. *)
LEMMA AnswerNext == IInv /\ [Next]_vars => AnswerInv'
  <1> SUFFICES ASSUME IInv, [Next]_vars PROVE AnswerInv'
    OBVIOUS
  <1> USE InputAssumption DEF IInv, TypeOK, OneBit, MutexInv, StatusInv, RegsInv,
          Settled, FwInv, AnswerInv, ResponseMatchesCommand, Answer
  <1>1. ASSUME NEW h \in Hosts, NEW c \in SentCalls, Invoke(h, c) PROVE AnswerInv'
    BY <1>1 DEF Invoke, Goto, Inside, Writing, Armed, Served, regs, fw
  <1>2. ASSUME NEW h \in Hosts, HostStep(h) PROVE AnswerInv'
    <2> USE DEF Goto, Inside, Writing, Armed, Served, regs, fw
    <2>1. CASE LockCommandMutex(h) BY <2>1 DEF LockCommandMutex
    <2>2. CASE CheckSim(h) BY <2>2 DEF CheckSim
    <2>3. CASE WaitForReady(h) BY <2>3 DEF WaitForReady, IsReady
    <2>4. CASE WaitTimeout(h) BY <2>4 DEF WaitTimeout
    <2>5. CASE SendCommand(h) BY <2>5 DEF SendCommand, IsReady
    <2>6. CASE WriteCommand(h) BY <2>6 DEF WriteCommand
    <2>7. CASE WriteData(h) BY <2>7 DEF WriteData
    <2>8. CASE ClearResponse(h) BY <2>8 DEF ClearResponse
    <2>9. CASE SetBusy(h) BY <2>9, UpdateStatusBusy DEF SetBusy, StoreBusy
    <2>10. CASE ProcessCommand(h)
      BY <2>10, UpdateStatusBusy DEF ProcessCommand, StoreBusy
    <2>11. CASE Trigger(h) BY <2>11, UpdateStatusBusy DEF Trigger, StoreBusy
    <2>12. CASE LoadStatus(h) BY <2>12 DEF LoadStatus
    <2>13. CASE ClearError(h) BY <2>13 DEF ClearError
    <2>14. CASE PollDone(h) BY <2>14 DEF PollDone
    <2>15. CASE PollTimeout(h) BY <2>15 DEF PollTimeout
    <2>16. CASE ReadResponse(h) BY <2>16 DEF ReadResponse
    <2>17. CASE Return(h) BY <2>17 DEF Return
    <2>18. QED
      BY <1>2, <2>1, <2>2, <2>3, <2>4, <2>5, <2>6, <2>7, <2>8, <2>9, <2>10,
         <2>11, <2>12, <2>13, <2>14, <2>15, <2>16, <2>17 DEF HostStep
  <1>3. CASE FwStep
    <2> USE DEF FwGoto, regs, host, Writing, Armed, Served
    <2>1. CASE FwPoll BY <2>1 DEF FwPoll
    <2>2. CASE FwReadCommand BY <2>2 DEF FwReadCommand
    <2>3. CASE FwReadData BY <2>3 DEF FwReadData
    <2>4. CASE FwHandle BY <2>4 DEF FwHandle
    <2>5. CASE FwWriteResponse BY <2>5 DEF FwWriteResponse
    <2>6. CASE FwSetReady BY <2>6, UpdateStatusReady DEF FwSetReady
    <2>7. QED
      BY <1>3, <2>1, <2>2, <2>3, <2>4, <2>5, <2>6 DEF FwStep
  <1>4. CASE SimHalt \/ SimReset
    BY <1>4 DEF SimHalt, SimReset, regs, host, fw
  <1>5. CASE UNCHANGED vars
    BY <1>5 DEF vars, regs, host, fw
  <1>6. QED
    BY <1>1, <1>2, <1>3, <1>4, <1>5 DEF Next

(* The invariant holds of the fresh mailbox. *)
LEMMA IInvInit == Init => IInv
  <1> SUFFICES ASSUME Init PROVE IInv
    OBVIOUS
  <1>1. TypeOK
    BY TypeInit
  <1>2. OneBit /\ MutexInv /\ StatusInv /\ RegsInv /\ FwInv /\ AnswerInv
    BY InputAssumption DEF Init, OneBit, MutexInv, StatusInv, RegsInv, FwInv, AnswerInv,
       NoTornCommand, ResponseMatchesCommand, Inside, Writing, Armed, Served
  <1>3. QED
    BY <1>1, <1>2 DEF IInv

(* The invariant that the safety properties follow from. *)
THEOREM Invariance == Spec => []IInv
  <1>1. IInv /\ [Next]_vars => IInv'
    BY TypeNext, OneBitNext, MutexNext, StatusNext, RegsNext, FwNext, AnswerNext DEF IInv
  <1>2. QED
    BY IInvInit, <1>1, PTL DEF Spec

(* send_command_complete never returns an answer to another command: what  *)
(* a call returns is 0xFFFFFFFF or the firmware's answer to that call.     *)
THEOREM ResponsesMatch == Spec => []ResponseMatchesCommand
  <1>1. IInv => ResponseMatchesCommand
    BY DEF IInv, AnswerInv
  <1>2. QED
    BY Invariance, <1>1, PTL

(* The host stores to COMMAND, DATA and RESPONSE only while the firmware   *)
(* polls, so the unlocked registers are never accessed by both at once.    *)
THEOREM RegistersExclusive == Spec => []RegisterExclusion
  <1>1. IInv => RegisterExclusion
    BY DEF IInv, StatusInv, RegisterExclusion
  <1>2. QED
    BY Invariance, <1>1, PTL

(* The firmware executes exactly the command and parameters of one call.   *)
THEOREM CommandsNotTorn == Spec => []NoTornCommand
  <1>1. IInv => NoTornCommand
    BY DEF IInv, FwInv
  <1>2. QED
    BY Invariance, <1>1, PTL

-----------------------------------------------------------------------------

(* Each of the call's four stores of BUSY starts at most one execution. *)
LEMMA ExecsNext == IInv /\ ExecsInv /\ [Next]_vars => ExecsInv'
  <1> SUFFICES ASSUME IInv, ExecsInv, [Next]_vars PROVE ExecsInv'
    OBVIOUS
  <1> USE InputAssumption DEF IInv, TypeOK, OneBit, MutexInv, StatusInv, ExecsInv,
          Started, StoresLeft
  <1>1. ASSUME NEW h \in Hosts, NEW c \in SentCalls, Invoke(h, c) PROVE ExecsInv'
    BY <1>1 DEF Invoke, Goto, Inside, Writing, Armed, Served, regs, fw
  <1>2. ASSUME NEW h \in Hosts, HostStep(h) PROVE ExecsInv'
    <2> USE DEF Goto, Inside, Writing, Armed, Served, regs, fw
    <2>1. CASE LockCommandMutex(h) BY <2>1 DEF LockCommandMutex
    <2>2. CASE CheckSim(h) BY <2>2 DEF CheckSim
    <2>3. CASE WaitForReady(h) BY <2>3 DEF WaitForReady, IsReady
    <2>4. CASE WaitTimeout(h) BY <2>4 DEF WaitTimeout
    <2>5. CASE SendCommand(h) BY <2>5 DEF SendCommand, IsReady
    <2>6. CASE WriteCommand(h) BY <2>6 DEF WriteCommand
    <2>7. CASE WriteData(h) BY <2>7 DEF WriteData
    <2>8. CASE ClearResponse(h) BY <2>8 DEF ClearResponse
    <2>9. CASE SetBusy(h) BY <2>9, BusyStored DEF SetBusy
    <2>10. CASE ProcessCommand(h)
      BY <2>10, BusyStored DEF ProcessCommand
    <2>11. CASE Trigger(h) BY <2>11, BusyStored DEF Trigger
    <2>12. CASE LoadStatus(h) BY <2>12 DEF LoadStatus
    <2>13. CASE ClearError(h) BY <2>13 DEF ClearError
    <2>14. CASE PollDone(h) BY <2>14 DEF PollDone
    <2>15. CASE PollTimeout(h) BY <2>15 DEF PollTimeout
    <2>16. CASE ReadResponse(h) BY <2>16 DEF ReadResponse
    <2>17. CASE Return(h) BY <2>17 DEF Return
    <2>18. QED
      BY <1>2, <2>1, <2>2, <2>3, <2>4, <2>5, <2>6, <2>7, <2>8, <2>9, <2>10,
         <2>11, <2>12, <2>13, <2>14, <2>15, <2>16, <2>17 DEF HostStep
  <1>3. CASE FwStep
    <2> USE DEF FwGoto, regs, host, Writing, Armed, Served
    <2>1. CASE FwPoll BY <2>1 DEF FwPoll
    <2>2. CASE FwReadCommand BY <2>2 DEF FwReadCommand
    <2>3. CASE FwReadData BY <2>3 DEF FwReadData
    <2>4. CASE FwHandle BY <2>4 DEF FwHandle
    <2>5. CASE FwWriteResponse BY <2>5 DEF FwWriteResponse
    <2>6. CASE FwSetReady BY <2>6, UpdateStatusReady DEF FwSetReady
    <2>7. QED
      BY <1>3, <2>1, <2>2, <2>3, <2>4, <2>5, <2>6 DEF FwStep
  <1>4. CASE SimHalt \/ SimReset
    BY <1>4 DEF SimHalt, SimReset, regs, host, fw
  <1>5. CASE UNCHANGED vars
    BY <1>5 DEF vars, regs, host, fw
  <1>6. QED
    BY <1>1, <1>2, <1>3, <1>4, <1>5 DEF Next

(* One call of send_command_complete makes the firmware execute its        *)
(* command at most four times.                                             *)
THEOREM ExecutionsBounded == Spec => []AtMostFourExecutions
  <1>1. Init => ExecsInv
    BY InputAssumption DEF Init, ExecsInv, Started
  <1>2. IInv /\ ExecsInv /\ [Next]_vars => ExecsInv'
    BY ExecsNext
  <1>3. IInv /\ ExecsInv => AtMostFourExecutions
    BY DEF IInv, TypeOK, OneBit, ExecsInv, Started, AtMostFourExecutions
  <1>4. QED
    BY Invariance, <1>1, <1>2, <1>3, PTL DEF Spec

-----------------------------------------------------------------------------
(* The mailbox implements the command service. *)

(* The fresh mailbox is a fresh service. *)
LEMMA ServiceInit == Init => Service!Init
  <1> SUFFICES ASSUME Init PROVE Service!Init
    OBVIOUS
  <1>1. Client = [h \in Hosts |-> "idle"] /\ Owner = Free
    BY DEF Init, Client, Owner
  <1>2. Ran = FALSE
    BY DEF Init, Ran
  <1>3. QED
    BY <1>1, <1>2 DEF Init, Service!Init

(* Moves of one thread's label and what they mean for the service. *)
LEMMA ClientMoves ==
  ASSUME TypeOK, NEW h \in Hosts, NEW to \in HostPC,
         pc' = [pc EXCEPT ![h] = to]
  PROVE  Client' = [Client EXCEPT ![h] = CASE to = "idle"   -> "idle"
                                           [] to = "finish" -> "done"
                                           [] OTHER         -> "pending"]
  BY DEF TypeOK, Client

(* A step inside the call leaves the service's view of the thread alone. *)
LEMMA SameClient ==
  ASSUME TypeOK, NEW h \in Hosts, NEW from, NEW to \in HostPC, Goto(h, from, to),
         from \notin {"idle", "finish"}, to \notin {"idle", "finish"}
  PROVE  Client' = Client
  BY DEF TypeOK, Client, Goto

(* Each step of the mailbox is a step of the service or leaves it as it is. *)
LEMMA ServiceNext == IInv /\ [Next]_vars => [Service!Next]_(Service!vars)
  <1> SUFFICES ASSUME IInv, [Next]_vars PROVE [Service!Next]_(Service!vars)
    OBVIOUS
  <1> USE InputAssumption DEF IInv, TypeOK, OneBit
  <1>1. ASSUME NEW h \in Hosts, NEW c \in SentCalls, Invoke(h, c)
        PROVE  Service!Next
    <2>2. Client[h] = "idle" /\ Client' = [Client EXCEPT ![h] = "pending"]
      BY <1>1, ClientMoves DEF Invoke, Goto, HostPC, Client
    <2>3. Owner' = Owner
      BY <1>1 DEF Invoke, Goto, Owner, MutexInv, Inside, Served,
         Writing, Armed
    <2>4. Ran' = Ran
      BY <1>1 DEF Invoke, Ran
    <2>5. Service!Invoke(h, c)
      BY <1>1, <2>2, <2>3, <2>4 DEF Invoke, Service!Invoke
    <2>6. QED
      BY <2>5 DEF Service!Next
  <1>2. ASSUME NEW h \in Hosts, SendCommand(h) PROVE Service!Next
    <2>1. IsReady
      BY <1>2 DEF SendCommand, StatusInv, IsReady
    <2>2. Client[h] = "pending" /\ Client' = Client
      BY <1>2, <2>1, SameClient DEF SendCommand, Goto, HostPC, Inside, Writing,
         Client
    <2>3. Owner = Free /\ Owner' = h
      BY <1>2, <2>1 DEF SendCommand, Owner, MutexInv, Inside, Served, Writing, Armed
    <2>4. Ran' = FALSE
      BY <1>2, <2>1 DEF SendCommand, Ran
    <2>5. Service!Accept(h)
      BY <1>2, <2>1, <2>2, <2>3, <2>4 DEF SendCommand, Service!Accept
    <2>6. QED
      BY <2>5 DEF Service!Next
  <1>3. ASSUME NEW h \in Hosts,
               \/ CheckSim(h) /\ sim = "gone"
               \/ WaitTimeout(h) \/ PollTimeout(h)
        PROVE  Service!Next
    <2>1. /\ pc' = [pc EXCEPT ![h] = "finish"]
          /\ result' = [result EXCEPT ![h] = FAILED]
          /\ pc[h] \in {"check", "ready", "poll"}
          /\ UNCHANGED <<mutex, call, accepted, execs>>
      BY <1>3 DEF CheckSim, WaitTimeout, PollTimeout, Goto
    <2>2. Client[h] = "pending" /\ Client' = [Client EXCEPT ![h] = "done"]
      BY <2>1, ClientMoves DEF HostPC, Inside, Client
    <2>3. Owner' = IF Owner = h THEN Free ELSE Owner
      BY <2>1 DEF Owner, MutexInv, Inside, Served, Writing, Armed
    <2>4. Ran' = Ran
      BY <2>1 DEF Ran
    <2>5. Service!Fail(h)
      BY <2>1, <2>2, <2>3, <2>4 DEF Service!Fail
    <2>6. QED
      BY <2>5 DEF Service!Next
  <1>4. ASSUME NEW h \in Hosts, ReadResponse(h) PROVE Service!Next
    <2>1. pc[h] = "read" /\ status = {"READY"} /\ response = Answer /\ execs > 0
      BY <1>4 DEF ReadResponse, Goto, StatusInv, AnswerInv
    <2>2. Client' = [Client EXCEPT ![h] = "done"]
      BY <1>4, ClientMoves DEF ReadResponse, Goto, HostPC, Inside
    <2>3. Owner = h /\ Owner' = Free
      BY <1>4, <2>1 DEF ReadResponse, Goto, Owner, MutexInv, Inside, Served,
         Writing, Armed
    <2>4. Ran /\ Ran' = Ran
      BY <1>4, <2>1 DEF ReadResponse, Ran
    <2>5. Service!Answer(h)
      BY <1>4, <2>1, <2>2, <2>3, <2>4 DEF ReadResponse, Answer, Service!Answer
    <2>6. QED
      BY <2>5 DEF Service!Next
  <1>5. ASSUME NEW h \in Hosts, Return(h) PROVE Service!Next
    <2>1. Client[h] = "done" /\ Client' = [Client EXCEPT ![h] = "idle"]
      BY <1>5, ClientMoves DEF Return, Goto, HostPC, Client
    <2>2. Owner' = Owner
      BY <1>5 DEF Return, Goto, Owner, MutexInv, Inside, Served,
         Writing, Armed
    <2>3. Ran' = Ran
      BY <1>5 DEF Return, Ran
    <2>4. Service!Return(h)
      BY <1>5, <2>1, <2>2, <2>3 DEF Return, Service!Return
    <2>5. QED
      BY <2>4 DEF Service!Next
  <1>6. ASSUME FwHandle PROVE Service!Next
    <2>1. accepted \in SentCalls
      BY <1>6 DEF FwHandle, FwGoto, StatusInv, RegsInv
    <2>2. accepted # NoCall
      BY <2>1, SentCallType DEF NoCall
    <2>3. Client' = Client /\ Owner' = Owner
      BY <1>6 DEF FwHandle, host, Client, Owner
    <2>4. Ran' = TRUE
      BY <1>6 DEF FwHandle, Ran
    <2>5. Service!Run
      BY <1>6, <2>2, <2>3, <2>4 DEF FwHandle, host, Service!Run
    <2>6. QED
      BY <2>5 DEF Service!Next
  <1>7. ASSUME NEW h \in Hosts, HostStep(h),
               ~SendCommand(h), ~(CheckSim(h) /\ sim = "gone"), ~WaitTimeout(h),
               ~PollTimeout(h), ~ReadResponse(h), ~Return(h)
        PROVE  UNCHANGED Service!vars
    <2>1. \E to \in Inside :
             /\ pc' = [pc EXCEPT ![h] = to]
             /\ pc[h] \notin {"idle", "finish"} /\ to # "finish"
             /\ \/ mutex' = mutex /\ (pc[h] \in Served <=> to \in Served)
                \/ mutex = Free /\ mutex' = h /\ to \notin Served
             /\ UNCHANGED <<call, result, accepted, execs>>
      BY <1>7 DEF HostStep, LockCommandMutex, CheckSim, WaitForReady, WriteCommand,
         WriteData, ClearResponse, SetBusy, ProcessCommand, Trigger, StoreBusy,
         LoadStatus, ClearError, PollDone, Goto, Inside, Served, Writing, Armed
    <2>2. Client' = Client
      BY <2>1 DEF Client, Inside, Writing, Armed
    <2>3. Owner' = Owner
      BY <2>1, <1>7 DEF Owner, MutexInv
    <2>4. Ran' = Ran
      BY <2>1 DEF Ran
    <2>5. QED
      BY <2>1, <2>2, <2>3, <2>4 DEF Service!vars
  <1>8. ASSUME FwStep \/ SimHalt \/ SimReset \/ UNCHANGED vars, ~FwHandle
        PROVE  UNCHANGED Service!vars
    <2>1. UNCHANGED <<mutex, pc, call, result, accepted, execs>>
      BY <1>8 DEF FwStep, FwPoll, FwReadCommand, FwReadData, FwWriteResponse,
         FwSetReady, SimHalt, SimReset, vars, host
    <2>2. Client' = Client /\ Owner' = Owner
      BY <2>1 DEF Client, Owner
    <2>3. Ran' = Ran
      BY <2>1 DEF Ran
    <2>4. QED
      BY <2>1, <2>2, <2>3 DEF Service!vars
  <1>9. QED
    BY <1>1, <1>2, <1>3, <1>4, <1>5, <1>6, <1>7, <1>8 DEF Next

(* Refinement: the mailbox, with its unlocked registers and its repeated   *)
(* stores of BUSY, implements the command service.                         *)
THEOREM Refinement == Spec => ServiceSpec
  BY Invariance, ServiceInit, ServiceNext, PTL DEF Spec, ServiceSpec, Service!Spec
-----------------------------------------------------------------------------
(* The test program.  Only its own thread calls, but the calls are those   *)
(* of the test cases and the firmware is either of the two.                *)

(* What the firmware answers, and what a call is. *)
Reply(c) == IF image = "mailbox" THEN Handle(c.cmd, c.data) ELSE FuseHandle(c.cmd, c.data)
CallType == [cmd : Int, data : [DataRegs -> Nat]]

TestTypes ==
    /\ status \in {{"READY"}, {"BUSY"}} /\ data \in [DataRegs -> Nat] /\ response \in Codes
    /\ pc \in [Hosts -> HostPC] /\ call \in [Hosts -> CallType] /\ idx \in [Hosts -> DataRegs]
    /\ old \in [Hosts -> {{"READY"}, {"BUSY"}}] /\ result \in [Hosts -> Codes \cup {FAILED}]
    /\ fpc \in FwPC \cup {"boot"} /\ fdata \in [DataRegs -> Nat] /\ fidx \in DataRegs /\ fresp \in Codes
    /\ accepted \in CallType /\ execs \in Nat
    /\ passed_count \in Nat /\ total_count \in Nat
    /\ enabled \subseteq DOMAIN test_cases

(* As StatusInv, RegsInv, FwInv and AnswerInv of the mailbox alone. *)
Dialogue ==
    /\ fpc \notin {"poll", "boot"} => status = {"BUSY"}
    /\ pc[Main] \in Writing \cup {"send", "read"} => status = {"READY"}
    /\ pc[Main] = "store" /\ old[Main] = {"READY"} => status = {"READY"}
    /\ status = {"BUSY"} => Settled
    /\ pc[Main] \in Served => accepted = call[Main]
    /\ pc[Main] = "data" => command = accepted.cmd
                              /\ \A r \in DataRegs : r < idx[Main] => data[r] = accepted.data[r]
    /\ pc[Main] \in {"clear", "busy", "read"} \cup Armed => Settled
    /\ fpc = "data" => fcmd = accepted.cmd
                         /\ \A r \in DataRegs : r < fidx => fdata[r] = accepted.data[r]
    /\ NoTornCommand
    /\ fpc = "response" => fresp = Reply(accepted) /\ execs > 0
    /\ fpc = "status" => response = Reply(accepted) /\ execs > 0
    /\ pc[Main] \in Armed \cup {"read"} /\ status = {"READY"} => response = Reply(accepted) /\ execs > 0

(* The result of the call that a test case has made, once it has returned. *)
Answered == result[Main] # FAILED =>
    result[Main] = Reply(call[Main]) /\ execs > 0 /\ accepted = call[Main]

(* The verdicts: until a call was not answered, every case has passed. *)
Verdicts ==
    /\ prog = "call" => current \in DOMAIN test_cases /\ call[Main] = test_cases[current].call
    /\ prog # "call" => pc[Main] = "idle"
    /\ prog \in {"parse", "start"} => fpc = "poll" /\ status = {"READY"}
    /\ ~gaveUp => total_count = passed_count + (IF prog = "call" THEN 1 ELSE 0)
    /\ FailureNeedsTimeout

TestInv == TestTypes /\ Dialogue /\ Verdicts
              /\ (prog = "call" /\ pc[Main] \in {"finish", "idle"} => Answered)

(* The parameters of the cases are the ones the two firmwares accept. *)
LEMMA CasesAreAccepted ==
  ASSUME NEW i \in DOMAIN test_cases
  PROVE  /\ test_cases[i].call \in CallType
         /\ i # Performance => /\ Reply(test_cases[i].call) = test_cases[i].wanted
                               /\ test_cases[i].wanted # FAILED
  <1>1. /\ Len(test_cases) = 10 /\ DOMAIN test_cases = 1 .. 10
        /\ test_cases[1] = test_hello_command /\ test_cases[2] = test_hi_command
        /\ test_cases[3] = test_vector_load_command /\ test_cases[4] = test_vector_store_command
        /\ test_cases[5] = test_vector_compute_command /\ test_cases[6] = test_softmax_command
        /\ test_cases[7] = test_exp_command /\ test_cases[8] = test_quant_command
        /\ test_cases[9] = test_invalid_command /\ test_cases[10] = test_performance
    BY DEF test_cases
  <1>2. ASSUME NEW n \in Nat
        PROVE  TestBuffer(n) \in [DataRegs -> Nat] /\ TestBuffer(n)[0] # 0 /\ TestBuffer(n)[1] = n
    BY DEF TestBuffer, DataRegs, BufferAddress
  <1>3. Zeros \in [DataRegs -> Nat] BY DEF Zeros
  <1>4. U32 \in Nat /\ U32 > 10 BY U32Assumption, MailboxTestAssumption DEF BufferAddress
  <1> USE DEF HELLO, HI, VECTOR_LOAD, VECTOR_STORE, VECTOR_COMPUTE, SOFTMAX, EXP, QUANT,
              SUCCESS, ERR_INVALID_CMD, FAILED, TestCall, CallType
  <1>5. CASE i \in {1, 2, 9, 10}
    BY <1>1, <1>3, <1>5 DEF test_hello_command, test_hi_command, test_invalid_command,
       test_performance, InvalidCommand, Performance, Reply, Handle, FuseHandle
  <1>6. CASE i \in {3, 4, 5}
    BY <1>1, <1>2, <1>6 DEF test_vector_load_command, test_vector_store_command,
       test_vector_compute_command, Reply, Handle, FuseHandle, handle_vector_command
  <1>7. CASE i \in {6, 7, 8}
    <2>1. Floats(5) \in [DataRegs -> Nat] /\ Floats(5)[0] # 0 /\ Floats(5)[1] = 20
      BY <1>2 DEF Floats
    <2>2. /\ 20 % 4 = 0 /\ 20 % 2 = 0 /\ 20 \div 4 = 5 /\ 20 \div 2 = 10
          /\ 5 % U32 = 5 /\ 10 % U32 = 10
      BY <1>4
    <2> HIDE DEF SUCCESS
    <2>3. /\ CheckVector(Floats(5), 4) = SUCCESS /\ CheckVector(Floats(5), 2) = SUCCESS
          /\ handle_softmax_command(Floats(5)) = SUCCESS
          /\ handle_exp_command(Floats(5)) = SUCCESS /\ handle_quant_command(Floats(5)) = SUCCESS
      BY <2>1, <2>2 DEF CheckVector, NumElements, handle_softmax_command, handle_exp_command,
         handle_quant_command
    <2>4. QED
      BY <1>1, <1>7, <2>1, <2>3 DEF test_softmax_command, test_exp_command, test_quant_command,
         Reply, Handle, FuseHandle, SUCCESS
  <1>8. QED BY <1>1, <1>5, <1>6, <1>7

LEMMA TestInvInit == TestInit => TestInv
  <1> SUFFICES ASSUME TestInit PROVE TestInv
    OBVIOUS
  <1> USE DEF TestInit, Init
  <1>1. Zeros \in [DataRegs -> Nat] BY DEF Zeros
  <1>2. TestTypes
    BY <1>1 DEF TestTypes, HostPC, FwPC, CallType, NoCall, DataRegs, Codes
  <1>3. pc[Main] = "idle" BY MailboxTestAssumption
  <1>4. Dialogue
    BY <1>1, <1>3 DEF Dialogue, Writing, Armed, Served, NoTornCommand
  <1>5. Verdicts BY <1>3 DEF Verdicts, FailureNeedsTimeout, Running
  <1>6. QED BY <1>2, <1>4, <1>5 DEF TestInv

LEMMA ReplyCodes ==
  ASSUME NEW c
  PROVE  FuseHandle(c.cmd, c.data) \in Codes
  BY DEF FuseHandle, handle_vector_command, handle_softmax_command, handle_exp_command,
     handle_quant_command, Codes

(* A step of the call. *)
LEMMA CallStep ==
  ASSUME TestInv, prog = "call", HostStep(Main), UNCHANGED testVars
  PROVE  TestInv'
  <1> USE MailboxTestAssumption DEF TestInv, TestTypes
  <1>0. UNCHANGED <<image, prog, enabled, current, passed_count, total_count, exit, gaveUp>>
    BY DEF testVars
  <1> USE DEF Goto, Inside, Writing, Armed, Served, regs, fw, HostPC
  <1>1. TestTypes'
    <2> USE <1>0
    <2>1. CASE LockCommandMutex(Main) BY <2>1 DEF LockCommandMutex
    <2>2. CASE CheckSim(Main) BY <2>2 DEF CheckSim
    <2>3. CASE WaitForReady(Main) BY <2>3 DEF WaitForReady
    <2>4. CASE WaitTimeout(Main) BY <2>4 DEF WaitTimeout
    <2>5. CASE SendCommand(Main) BY <2>5 DEF SendCommand
    <2>6. CASE WriteCommand(Main) BY <2>6 DEF WriteCommand, DataRegs
    <2>7. CASE WriteData(Main)
      <3>1. call[Main].data[idx[Main]] \in Nat BY DEF CallType
      <3>2. data' \in [DataRegs -> Nat] BY <2>7, <3>1 DEF WriteData
      <3>3. idx' \in [Hosts -> DataRegs] BY <2>7 DEF WriteData, DataRegs
      <3>4. QED BY <2>7, <3>2, <3>3 DEF WriteData
    <2>8. CASE ClearResponse(Main) BY <2>8 DEF ClearResponse, Codes
    <2>9. CASE SetBusy(Main) BY <2>9, BusyStored DEF SetBusy
    <2>10. CASE ProcessCommand(Main) BY <2>10, BusyStored DEF ProcessCommand
    <2>11. CASE Trigger(Main) BY <2>11, BusyStored DEF Trigger
    <2>12. CASE LoadStatus(Main) BY <2>12 DEF LoadStatus
    <2>13. CASE ClearError(Main)
      <3>1. old[Main] \ {"ERROR"} = old[Main] OBVIOUS
      <3>2. QED BY <2>13, <3>1 DEF ClearError
    <2>14. CASE PollDone(Main) BY <2>14 DEF PollDone
    <2>15. CASE PollTimeout(Main) BY <2>15 DEF PollTimeout
    <2>16. CASE ReadResponse(Main) BY <2>16 DEF ReadResponse
    <2>17. CASE Return(Main) BY <2>17 DEF Return
    <2>18. QED
      BY <2>1, <2>2, <2>3, <2>4, <2>5, <2>6, <2>7, <2>8, <2>9, <2>10,
         <2>11, <2>12, <2>13, <2>14, <2>15, <2>16, <2>17 DEF HostStep
  <1>2. Dialogue'
    <2> USE <1>0 DEF Dialogue, Settled, NoTornCommand, Reply
    <2>1. CASE LockCommandMutex(Main) BY <2>1 DEF LockCommandMutex
    <2>2. CASE CheckSim(Main) BY <2>2 DEF CheckSim
    <2>3. CASE WaitForReady(Main) BY <2>3 DEF WaitForReady, IsReady
    <2>4. CASE WaitTimeout(Main) BY <2>4 DEF WaitTimeout
    <2>5. CASE SendCommand(Main) BY <2>5 DEF SendCommand, IsReady
    <2>6. CASE WriteCommand(Main) BY <2>6 DEF WriteCommand, DataRegs
    <2>7. CASE WriteData(Main)
      <3>1. /\ pc[Main] = "data" /\ status = {"READY"} /\ accepted = call[Main]
            /\ command = accepted.cmd /\ idx[Main] \in 0 .. 3 /\ accepted.data \in [DataRegs -> Nat]
        BY <2>7 DEF WriteData, DataRegs, CallType
      <3>2. /\ data' \in [DataRegs -> Nat]
            /\ \A r \in DataRegs : r <= idx[Main] => data'[r] = accepted.data[r]
        BY <2>7, <3>1 DEF WriteData, DataRegs
      <3>3. CASE idx[Main] = 3
        <4>1. data' = accepted.data BY <3>1, <3>2, <3>3 DEF DataRegs
        <4>2. /\ pc' = [pc EXCEPT ![Main] = "clear"]
              /\ UNCHANGED <<status, command, call, accepted, old, result, response, fw, execs, image>>
          BY <2>7, <1>0, <3>3 DEF WriteData
        <4>3. QED BY <3>1, <4>1, <4>2 DEF fw
      <3>4. CASE idx[Main] # 3
        <4>1. /\ idx' = [idx EXCEPT ![Main] = idx[Main] + 1] /\ pc' = pc
              /\ UNCHANGED <<status, command, call, accepted, old, result, response, fw, execs, image>>
          BY <2>7, <1>0, <3>1, <3>4 DEF WriteData
        <4>2. \A r \in DataRegs : r < idx'[Main] => data'[r] = accepted.data[r]
          BY <3>1, <3>2, <4>1 DEF DataRegs
        <4>3. QED BY <3>1, <4>1, <4>2 DEF fw
      <3>5. QED BY <3>3, <3>4
    <2>8. CASE ClearResponse(Main) BY <2>8 DEF ClearResponse
    <2>9. CASE SetBusy(Main) BY <2>9, UpdateStatusBusy DEF SetBusy, StoreBusy
    <2>10. CASE ProcessCommand(Main) BY <2>10, UpdateStatusBusy DEF ProcessCommand, StoreBusy
    <2>11. CASE Trigger(Main) BY <2>11, UpdateStatusBusy DEF Trigger, StoreBusy
    <2>12. CASE LoadStatus(Main) BY <2>12 DEF LoadStatus
    <2>13. CASE ClearError(Main) BY <2>13 DEF ClearError
    <2>14. CASE PollDone(Main) BY <2>14 DEF PollDone
    <2>15. CASE PollTimeout(Main) BY <2>15 DEF PollTimeout
    <2>16. CASE ReadResponse(Main) BY <2>16 DEF ReadResponse
    <2>17. CASE Return(Main) BY <2>17 DEF Return
    <2>18. QED
      BY <2>1, <2>2, <2>3, <2>4, <2>5, <2>6, <2>7, <2>8, <2>9, <2>10,
         <2>11, <2>12, <2>13, <2>14, <2>15, <2>16, <2>17 DEF HostStep
  <1>3. pc[Main] # "idle" /\ UNCHANGED <<call, fw>>
    BY DEF HostStep, LockCommandMutex, CheckSim, WaitForReady, WaitTimeout, SendCommand, WriteCommand,
       WriteData, ClearResponse, SetBusy, ProcessCommand, Trigger, StoreBusy, LoadStatus, ClearError,
       PollDone, PollTimeout, ReadResponse, Return
  <1>4. pc'[Main] \in {"finish", "idle"} => Answered'
    <2> USE <1>0 DEF Dialogue, Answered, Reply
    <2>1. CASE CheckSim(Main) \/ WaitTimeout(Main) \/ PollTimeout(Main) \/ SendCommand(Main)
      BY <2>1 DEF CheckSim, WaitTimeout, PollTimeout, SendCommand
    <2>2. CASE ReadResponse(Main) BY <2>2 DEF ReadResponse
    <2>3. CASE Return(Main) BY <2>3 DEF Return
    <2>4. QED
      BY <2>1, <2>2, <2>3 DEF HostStep, LockCommandMutex, WaitForReady, WriteCommand, WriteData,
         ClearResponse, SetBusy, ProcessCommand, Trigger, StoreBusy, LoadStatus, ClearError, PollDone
  <1>5. Verdicts' BY <1>0, <1>3 DEF Verdicts, FailureNeedsTimeout
  <1>6. QED BY <1>0, <1>1, <1>2, <1>4, <1>5

(* A step of either firmware. *)
LEMMA FirmwareStep ==
  ASSUME TestInv, Firmware \/ Boot
  PROVE  TestInv'
  <1> USE DEF TestInv, TestTypes
  <1>0. /\ UNCHANGED <<image, prog, enabled, current, passed_count, total_count, exit, gaveUp>>
        /\ prog \notin {"parse", "start"}
    BY DEF Firmware, Boot, testVars
  <1>1. ASSUME TestTypes', Dialogue', UNCHANGED <<pc, call, result, accepted>>, execs' \in {execs, execs + 1}
        PROVE  TestInv'
    <2>1. Answered => Answered' BY <1>0, <1>1 DEF Answered, Reply
    <2>2. Verdicts' BY <1>0, <1>1 DEF Verdicts, FailureNeedsTimeout
    <2>3. QED BY <1>0, <1>1, <2>1, <2>2
  <1> USE <1>0 DEF FwGoto, regs, host, FwPC, Dialogue, Settled, NoTornCommand, Reply, Writing, Armed, Served
  <1>2. CASE FwPoll BY <1>1, <1>2 DEF FwPoll
  <1>3. CASE FwReadCommand BY <1>1, <1>3 DEF FwReadCommand, DataRegs
  <1>4. CASE FwReadData
    <2>1. /\ fpc = "data" /\ status = {"BUSY"} /\ data = accepted.data /\ fcmd = accepted.cmd
          /\ fidx \in 0 .. 3 /\ accepted = [cmd |-> accepted.cmd, data |-> accepted.data]
          /\ accepted.data \in [DataRegs -> Nat]
      BY <1>4 DEF FwReadData, DataRegs, CallType
    <2>2. /\ fdata' \in [DataRegs -> Nat]
          /\ \A r \in DataRegs : r <= fidx => fdata'[r] = accepted.data[r]
      BY <1>4, <2>1 DEF FwReadData, DataRegs
    <2>3. TestTypes' BY <1>4, <2>2 DEF FwReadData, DataRegs
    <2>4. Dialogue'
      <3>1. CASE fidx = 3
        <4>1. fdata' = accepted.data BY <2>1, <2>2, <3>1 DEF DataRegs
        <4>2. QED BY <1>4, <2>1, <3>1, <4>1 DEF FwReadData
      <3>2. CASE fidx # 3 BY <1>4, <2>1, <2>2, <3>2 DEF FwReadData, DataRegs
      <3>3. QED BY <3>1, <3>2
    <2>5. QED BY <1>1, <1>4, <2>3, <2>4 DEF FwReadData
  <1>5. CASE image = "mailbox" /\ FwHandle BY <1>1, <1>5, HandleCodes DEF FwHandle
  <1>6. CASE image = "fuse" /\ FuseHandleCommand
    <2>1. fpc = "handle" /\ accepted.cmd = fcmd /\ accepted.data = fdata BY <1>6 DEF FuseHandleCommand
    <2>2. FuseHandle(fcmd, fdata) \in Codes BY <2>1, ReplyCodes
    <2>3. QED BY <1>1, <1>6, <2>1, <2>2 DEF FuseHandleCommand
  <1>7. CASE FwWriteResponse BY <1>1, <1>7 DEF FwWriteResponse
  <1>8. CASE FwSetReady BY <1>1, <1>8, UpdateStatusReady DEF FwSetReady
  <1>9. CASE Boot BY <1>1, <1>9 DEF Boot, FuseBoot
  <1>10. QED BY <1>2, <1>3, <1>4, <1>5, <1>6, <1>7, <1>8, <1>9 DEF Firmware

(* A step of main() between its calls, which leaves the mailbox alone but  *)
(* for the start of a call.                                                *)
LEMMA MainSteps ==
  ASSUME TestInv, MainStep
  PROVE  TestInv'
  <1> USE MailboxTestAssumption DEF TestInv, TestTypes, At
  <1>1. ASSUME UNCHANGED <<regs, pc, call, idx, old, result, fcmd, fdata, fidx, fresp, accepted, execs, image>>,
               fpc' = fpc \/ (fpc = "poll" /\ fpc' = "boot")
        PROVE  Dialogue'
    BY <1>1 DEF regs, Dialogue, Settled, NoTornCommand, Reply, Writing, Armed, Served
  <1> USE DEF vars, regs, host, fw
  <1>2. CASE ParseArguments
    <2>1. Dialogue' BY <1>1, <1>2 DEF ParseArguments
    <2>2. QED BY <1>2, <2>1 DEF ParseArguments, Verdicts, FailureNeedsTimeout, Running
  <1>3. CASE StartSpike
    <2>1. Dialogue' BY <1>1, <1>3 DEF StartSpike, Verdicts
    <2>2. QED BY <1>3, <2>1 DEF StartSpike, Verdicts, FailureNeedsTimeout, FwPC
  <1>4. CASE SkipTest
    <2>1. Dialogue' BY <1>1, <1>4 DEF SkipTest
    <2>2. QED BY <1>4, <2>1 DEF SkipTest, Verdicts, FailureNeedsTimeout
  <1>5. ASSUME NEW c \in CallType, Invoke(Main, c), UNCHANGED <<image, enabled, passed_count>>,
               total_count' \in Nat
        PROVE  TestTypes' /\ Dialogue' /\ pc'[Main] = "lock" /\ call'[Main] = c /\ fpc' = fpc /\ status' = status
    <2> USE <1>5 DEF Invoke, Goto
    <2>1. pc' \in [Hosts -> HostPC] /\ call' \in [Hosts -> CallType] BY DEF HostPC
    <2>2. TestTypes' BY <2>1
    <2>3. Dialogue'
      BY DEF Dialogue, Settled, NoTornCommand, Reply, Writing, Armed, Served
    <2>4. QED BY <2>2, <2>3
  <1>6. CASE BeginTest
    <2>1. current \in DOMAIN test_cases /\ test_cases[current].call \in CallType
      BY <1>6, CasesAreAccepted DEF BeginTest
    <2>2. TestTypes' /\ Dialogue' /\ pc'[Main] = "lock" /\ call'[Main] = test_cases[current].call
      BY <1>5, <1>6, <2>1 DEF BeginTest
    <2>3. QED BY <1>6, <2>1, <2>2 DEF BeginTest, Verdicts, FailureNeedsTimeout
  <1>7. CASE NextIteration
    <2>1. current \in DOMAIN test_cases /\ test_cases[current].call \in CallType
      BY <1>7, CasesAreAccepted DEF NextIteration, Verdicts
    <2>2. TestTypes' /\ Dialogue' /\ pc'[Main] = "lock" /\ call'[Main] = test_cases[current].call
      BY <1>5, <1>7, <2>1 DEF NextIteration
    <2>3. QED BY <1>7, <2>1, <2>2 DEF NextIteration, Verdicts, FailureNeedsTimeout
  <1>8. CASE EndTest
    <2>1. Dialogue' BY <1>1, <1>8 DEF EndTest
    <2>2. ~gaveUp' => ~gaveUp /\ (current = Performance \/ result[Main] # FAILED)
      BY <1>8, Zenon DEF EndTest
    <2>3. current # Performance /\ result[Main] # FAILED => Passes
      BY <1>8, CasesAreAccepted DEF EndTest, Verdicts, Answered, Passes
    <2>4. ~gaveUp' => passed_count' = passed_count + 1 BY <1>8, <2>2, <2>3 DEF EndTest, Passes
    <2>5. passed_count' \in Nat BY <1>8 DEF EndTest
    <2>6. Verdicts'
      <3>1. ~gaveUp' => total_count' = passed_count'
        BY <1>8, <2>2, <2>4 DEF EndTest, Verdicts
      <3>2. QED BY <1>8, <3>1 DEF EndTest, Verdicts, FailureNeedsTimeout, Running
    <2>7. QED BY <1>8, <2>1, <2>5, <2>6 DEF EndTest
  <1>9. CASE StopSpike
    <2>1. Dialogue' BY <1>1, <1>9 DEF StopSpike, SimHalt, SimReset
    <2>2. QED BY <1>9, <2>1 DEF StopSpike, SimHalt, SimReset, Verdicts, FailureNeedsTimeout
  <1>10. CASE ResetSpike
    <2>1. Dialogue' BY <1>1, <1>10 DEF ResetSpike, SimReset
    <2>2. QED BY <1>10, <2>1 DEF ResetSpike, SimReset, Verdicts, FailureNeedsTimeout
  <1>11. CASE Report
    <2>1. Dialogue' BY <1>1, <1>11 DEF Report
    <2>2. QED BY <1>11, <2>1 DEF Report, Verdicts, FailureNeedsTimeout, Terminated
  <1>12. QED
    BY <1>2, <1>3, <1>4, <1>6, <1>7, <1>8, <1>9, <1>10, <1>11 DEF MainStep

LEMMA TestInvNext == TestInv /\ [TestNext]_allVars => TestInv'
  <1> SUFFICES ASSUME TestInv, [TestNext]_allVars PROVE TestInv'
    OBVIOUS
  <1>1. CASE MainStep BY <1>1, MainSteps
  <1>2. CASE Call BY <1>2, CallStep DEF Call, At
  <1>3. CASE Firmware \/ Boot BY <1>3, FirmwareStep
  <1>4. CASE Crash \/ UNCHANGED allVars
    <2>1. UNCHANGED <<regs, host, fw, accepted, execs, testVars>>
      BY <1>4 DEF Crash, SimHalt, allVars, vars
    <2> USE <2>1 DEF regs, host, fw, testVars
    <2>2. TestTypes' BY DEF TestInv, TestTypes
    <2>3. Dialogue' BY DEF TestInv, Dialogue, Settled, NoTornCommand, Reply
    <2>4. Verdicts' BY DEF TestInv, Verdicts, FailureNeedsTimeout
    <2>5. Answered => Answered' BY DEF Answered, Reply
    <2>6. QED BY <2>2, <2>3, <2>4, <2>5 DEF TestInv
  <1>5. QED BY <1>1, <1>2, <1>3, <1>4 DEF TestNext

(* spike_mailbox.cc with either firmware: exit code 1 means that Spike did *)
(* not start or that a call ran into its timeout, for any number of calls  *)
(* of the performance test.                                                *)
THEOREM FailuresAreTimeouts == TestSpec => []FailureNeedsTimeout
  <1>1. TestInv => FailureNeedsTimeout BY DEF TestInv, Verdicts
  <1>2. QED BY <1>1, TestInvInit, TestInvNext, PTL DEF TestSpec

(* spike_mailbox.cc: a case counts as passed only after the firmware has   *)
(* executed its command, although HELLO's answer is the value that         *)
(* RESPONSE is cleared to.                                                 *)
THEOREM PassesAreExecuted == TestSpec => PassNeedsExecution
  <1> DEFINE Executed == passed_count' > passed_count /\ current # Performance =>
                           execs > 0 /\ accepted = test_cases[current].call
  <1>1. TestInv /\ [TestNext]_allVars => [Executed]_allVars
    <2> SUFFICES ASSUME TestInv, TestNext, passed_count' > passed_count, current # Performance
                 PROVE  execs > 0 /\ accepted = test_cases[current].call
      OBVIOUS
    <2>1. passed_count \in Nat BY DEF TestInv, TestTypes
    <2>2. EndTest
      BY <2>1 DEF TestNext, MainStep, ParseArguments, StartSpike, SkipTest, BeginTest, NextIteration,
         StopSpike, ResetSpike, Report, Call, Firmware, Boot, Crash, testVars
    <2>3. prog = "call" /\ pc[Main] = "idle" /\ Passes
      BY <2>1, <2>2 DEF EndTest, At
    <2>4. current \in DOMAIN test_cases /\ call[Main] = test_cases[current].call /\ Answered
      BY <2>3 DEF TestInv, Verdicts
    <2>5. result[Main] # FAILED BY <2>3, <2>4, CasesAreAccepted DEF Passes
    <2>6. QED BY <2>4, <2>5 DEF Answered
  <1>2. QED BY <1>1, TestInvInit, TestInvNext, PTL DEF TestSpec, PassNeedsExecution
=============================================================================
