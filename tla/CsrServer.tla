------------------------------ MODULE CsrServer ------------------------------
(***************************************************************************)
(* The custom CSRs (extensions/custom_csr.cc) between the ZMQ server of    *)
(* spike_csr_server.cc, which serves one request of its clients at a time, *)
(* and the firmware of firmware/csr/main.c, which tests the CSRs and then  *)
(* polls them for mail in the simulation's own thread.                     *)
(*                                                                         *)
(* Each access to a CSR is a step.  The server's sleep of 500 ms before it *)
(* takes requests does not wait for the firmware's tests to end, so the    *)
(* two run side by side from the start.                                    *)
(***************************************************************************)
EXTENDS Integers, Sequences, SequencesExt

CONSTANTS Clients,    \* the clients, each with a REQ socket
          Nobody,     \* no client
          Requests    \* the requests they send

DataCsrs   == <<"data0", "data1", "data2", "data3">>
SignalCsrs == {"bo_done", "se_up", "lock"}
Csrs       == ToSet(DataCsrs) \cup SignalCsrs \cup {"valid", "count"}

(* A request with a cmd of another kind, a missing field or no JSON. *)
Bad == [cmd |-> "bad"]

RequestTypes ==
    [cmd : {"mail"}, mail : [1 .. 4 -> Nat]] \cup
    [cmd : {"read"}, csr : Csrs] \cup
    [cmd : {"write"}, csr : Csrs, value : Nat] \cup
    [cmd : {"signal"}, csr : {"bo_done", "se_up"}, wg : Nat, bar : 0 .. 63] \cup
    [cmd : {"query"}, wg : Nat, bar : 0 .. 63] \cup
    {[cmd |-> "quit"], Bad}

ASSUME RequestAssumption ==
    /\ Nobody \notin Clients
    /\ \A q \in Requests : q \in RequestTypes

VARIABLES
    csr,        \* the values of the CSRs
    request,    \* what each client has sent and not got a reply to, or Bad
    cpc,        \* "idle" or "waiting", for each client
    reply,      \* the status of the reply to its last request, once it is there
    spc,        \* where the server is
    served,     \* the client whose request it handles
    sidx,       \* the data CSR it writes next
    fpc,        \* where the firmware is
    fidx,       \* the next step of its tests, or the data CSR it reads next
    fdata,      \* the mail it has read and not done with
    clean,      \* history: the channel was at rest when the mail was begun
    taken       \* history: the firmware's loop has read that mail since then

client   == <<request, cpc, reply>>
server   == <<spc, served, sidx>>
firmware == <<fpc, fidx, fdata>>
history  == <<clean, taken>>
vars     == <<csr, client, server, firmware, history>>

Mailing == {"data", "valid", "poll"}

(* What unlogged_write keeps of a value: one bit, eleven bits or all. *)
Masked(r, v) == IF r = "valid" THEN v % 2
                ELSE IF r \in SignalCsrs THEN v % 2048
                ELSE v

WriteCsr(r, v) == csr' = [csr EXCEPT ![r] = Masked(r, v)]

(* (wg_index << 6) | bar_index, for a bar_index of six bits; a wg_index of *)
(* more than five bits is cut by the CSR.                                  *)
Signal(wg, bar) == wg * 64 + bar

-----------------------------------------------------------------------------
(* The firmware's tests, as a program of writes and of reads that compare. *)
(* One value stands for the five or seven that a register is tested with.  *)
W(r, v) == <<[op |-> "write", csr |-> r, val |-> v]>>
R(r, v) == <<[op |-> "read", csr |-> r, val |-> v]>>
Check(r, v) == W(r, v) \o R(r, Masked(r, v))

(* test_mail_data_csrs ... test_se_query_count_csr *)
TestRegisters ==
    Check("data0", 11) \o Check("data1", 12) \o Check("data2", 13)
    \o Check("data3", 14)
    \o Check("valid", 0) \o Check("valid", 1) \o Check("valid", 255)
    \o Check("bo_done", 4095) \o Check("se_up", 4095) \o Check("lock", 4095)
    \o Check("count", 65535)

(* test_mail_channel and the tests of the three signal channels *)
TestChannels ==
    W("data0", 21) \o W("data1", 22) \o W("data2", 23) \o W("data3", 24)
    \o R("data0", 21) \o R("data1", 22) \o R("data2", 23) \o R("data3", 24)
    \o Check("valid", 1) \o Check("valid", 0)
    \o Check("bo_done", Signal(5, 3)) \o Check("se_up", Signal(7, 10))
    \o Check("lock", Signal(3, 5)) \o Check("count", 5) \o Check("count", 10)

(* main() stops at the first test that fails, and goes on to its loop. *)
SelfTest == TestRegisters \o TestChannels

NoMail == [i \in 1 .. 4 |-> 0]

Init ==
    /\ csr = [r \in Csrs |-> 0]
    /\ request = [c \in Clients |-> Bad] /\ cpc = [c \in Clients |-> "idle"]
    /\ reply = [c \in Clients |-> "none"]
    /\ spc = "recv" /\ served = Nobody /\ sidx = 1
    /\ fpc = "load" /\ fidx = 1 /\ fdata = NoMail
    /\ clean = FALSE /\ taken = FALSE

-----------------------------------------------------------------------------
(* ZMQClient::send_command: the request is sent and the client waits. *)
Send(c, q) ==
    /\ cpc[c] = "idle"
    /\ cpc' = [cpc EXCEPT ![c] = "waiting"]
    /\ request' = [request EXCEPT ![c] = q]
    /\ reply' = [reply EXCEPT ![c] = "none"]
    /\ UNCHANGED <<csr, server, firmware, history>>

-----------------------------------------------------------------------------
(* The server *)

Current == request[served]
InMail  == spc \in Mailing

(* socket_.recv *)
Recv(c) ==
    /\ spc = "recv" /\ cpc[c] = "waiting"
    /\ spc' = "handle" /\ served' = c
    /\ UNCHANGED <<csr, client, sidx, firmware, history>>

(* handle_command returns and its result is sent; run() ends after QUIT. *)
Reply(status) ==
    /\ reply' = [reply EXCEPT ![served] = status]
    /\ cpc' = [cpc EXCEPT ![served] = "idle"]
    /\ request' = [request EXCEPT ![served] = Bad]
    /\ served' = Nobody
    /\ spc' = IF Current.cmd = "quit" THEN "stop" ELSE "recv"

(* Requests that touch no CSR, or only read one: read_csr, an unknown      *)
(* command, missing fields, no JSON, and QUIT.                             *)
HandleOther ==
    /\ spc = "handle" /\ Current.cmd \in {"read", "bad", "quit"}
    /\ Reply(IF Current.cmd = "bad" THEN "error" ELSE "success")
    /\ UNCHANGED <<csr, sidx, firmware, history>>

HandleWrite ==
    /\ spc = "handle" /\ Current.cmd = "write"
    /\ WriteCsr(Current.csr, Current.value)
    /\ Reply("success")
    /\ UNCHANGED <<sidx, firmware, history>>

(* CMD_BO_DONE and CMD_SE_UP *)
HandleSignal ==
    /\ spc = "handle" /\ Current.cmd = "signal"
    /\ WriteCsr(Current.csr, Signal(Current.wg, Current.bar))
    /\ Reply("success")
    /\ UNCHANGED <<sidx, firmware, history>>

(* CMD_SE_QUERY writes the lock, sleeps, *)
QueryLock ==
    /\ spc = "handle" /\ Current.cmd = "query"
    /\ WriteCsr("lock", Signal(Current.wg, Current.bar))
    /\ spc' = "count"
    /\ UNCHANGED <<client, served, sidx, firmware, history>>

(* and reads the count for its reply. *)
QueryCount ==
    /\ spc = "count"
    /\ Reply("success")
    /\ UNCHANGED <<csr, sidx, firmware, history>>

(* CMD_MAIL_CHANNEL: the fields are there *)
MailBegin ==
    /\ spc = "handle" /\ Current.cmd = "mail"
    /\ spc' = "data"
    /\ clean' = (csr["valid"] = 0 /\ fpc = "poll")
    /\ taken' = FALSE
    /\ UNCHANGED <<csr, client, served, sidx, firmware>>

(* write_csr(CSR_MAIL_DATA0 .. 3) *)
MailData ==
    /\ spc = "data"
    /\ WriteCsr(DataCsrs[sidx], Current.mail[sidx])
    /\ spc' = IF sidx = 4 THEN "valid" ELSE "data"
    /\ sidx' = IF sidx = 4 THEN 1 ELSE sidx + 1
    /\ UNCHANGED <<client, served, firmware, history>>

(* write_csr(CSR_MAIL_VALID, 1) *)
MailValid ==
    /\ spc = "valid"
    /\ WriteCsr("valid", 1)
    /\ spc' = "poll"
    /\ UNCHANGED <<client, served, sidx, firmware, history>>

(* valid == 0: "Mail sent successfully" *)
MailSent ==
    /\ spc = "poll" /\ csr["valid"] = 0
    /\ Reply("success")
    /\ clean' = FALSE /\ taken' = FALSE
    /\ UNCHANGED <<csr, sidx, firmware>>

(* Mutant: the server polls without end when the simulation has died. *)
MutantMailTimeout ==
    /\ spc = "poll" /\ csr["valid"] # 0 /\ fpc # "dead"
    /\ Reply("error")
    /\ clean' = FALSE /\ taken' = FALSE
    /\ UNCHANGED <<csr, sidx, firmware>>

(* The last of the polls: "Timeout waiting for firmware" *)
MailTimeout ==
    /\ spc = "poll" /\ csr["valid"] # 0
    /\ Reply("error")
    /\ clean' = FALSE /\ taken' = FALSE
    /\ UNCHANGED <<csr, sidx, firmware>>

(* SpikeInstance::stop, which joins the thread of sim_->run() *)
StopSpike ==
    /\ spc = "stop"
    /\ spc' = "join"
    /\ UNCHANGED <<csr, client, served, sidx, firmware, history>>

JoinSpike ==
    /\ spc = "join" /\ fpc = "dead"
    /\ spc' = "exit"
    /\ UNCHANGED <<csr, client, served, sidx, firmware, history>>

ServerStep ==
    \/ HandleOther \/ HandleWrite \/ HandleSignal \/ QueryLock \/ QueryCount
    \/ MailBegin \/ MailData \/ MailValid \/ MailSent \/ MailTimeout
    \/ StopSpike \/ JoinSpike

-----------------------------------------------------------------------------
(* The firmware *)

FwGoto(from, to) == fpc = from /\ fpc' = to

(* sim_->run() loads the program and runs it, *)
FwLoad ==
    /\ FwGoto("load", "test")
    /\ UNCHANGED <<csr, client, server, fidx, fdata, history>>

(* or throws, and the simulation's thread ends. *)
FwLoadFails ==
    /\ FwGoto("load", "dead")
    /\ UNCHANGED <<csr, client, server, fidx, fdata, history>>

(* A write of the tests ... *)
FwTestWrite ==
    /\ FwGoto("test", "test")
    /\ SelfTest[fidx].op = "write"
    /\ WriteCsr(SelfTest[fidx].csr, SelfTest[fidx].val)
    /\ fidx' = fidx + 1
    /\ UNCHANGED <<client, server, fdata, history>>

(* ... and a comparison: one that fails ends the tests. *)
FwTestRead ==
    /\ fpc = "test" /\ SelfTest[fidx].op = "read"
    /\ LET pass == csr[SelfTest[fidx].csr] = SelfTest[fidx].val
       IN  IF pass /\ fidx < Len(SelfTest)
           THEN fpc' = "test" /\ fidx' = fidx + 1
           ELSE fpc' = "poll" /\ fidx' = 1
    /\ UNCHANGED <<csr, client, server, fdata, history>>

(* Mutant: the loop clears MAIL_VALID before it reads the mail. *)
MutantFwPoll ==
    /\ FwGoto("poll", "data")
    /\ csr["valid"] = 1
    /\ WriteCsr("valid", 0)
    /\ UNCHANGED <<client, server, fidx, fdata, history>>

(* The main loop's poll of MAIL_VALID that finds a mail *)
FwPoll ==
    /\ FwGoto("poll", "data")
    /\ csr["valid"] = 1
    /\ UNCHANGED <<csr, client, server, fidx, fdata, history>>

(* csr_read(CSR_MAIL_DATA0 .. 3) *)
FwReadData ==
    /\ FwGoto("data", IF fidx = 4 THEN "clear" ELSE "data")
    /\ fdata' = [fdata EXCEPT ![fidx] = csr[DataCsrs[fidx]]]
    /\ fidx' = IF fidx = 4 THEN 1 ELSE fidx + 1
    /\ taken' = (taken \/ (fidx = 4 /\ InMail /\ fdata' = Current.mail))
    /\ UNCHANGED <<csr, client, server, clean>>

(* Mutant: the loop clears another CSR. *)
MutantFwClear ==
    /\ FwGoto("clear", "poll")
    /\ WriteCsr("bo_done", 0)
    /\ fdata' = NoMail
    /\ UNCHANGED <<client, server, fidx, history>>

(* csr_write(CSR_MAIL_VALID, 0) *)
FwClear ==
    /\ FwGoto("clear", "poll")
    /\ WriteCsr("valid", 0)
    /\ fdata' = NoMail
    /\ UNCHANGED <<client, server, fidx, history>>

FwStep == \/ FwLoad \/ FwLoadFails \/ FwTestWrite \/ FwTestRead
          \/ FwPoll \/ FwReadData \/ FwClear

Next ==
    \/ \E c \in Clients, q \in Requests : Send(c, q)
    \/ \E c \in Clients : Recv(c)
    \/ ServerStep
    \/ FwStep

Spec == Init /\ [][Next]_vars

(* The server and the simulation keep running, the number of the server's  *)
(* polls is bounded, and a REP socket takes the requests of its clients in *)
(* turn.  Clients need not send anything.                                  *)
Fairness ==
    /\ WF_vars(ServerStep) /\ WF_vars(FwStep)
    /\ \A c \in Clients : SF_vars(Recv(c))

-----------------------------------------------------------------------------
(* A mail that is begun while the channel is at rest (no mail valid, the   *)
(* firmware in its loop and not reading) and reported as sent has been     *)
(* read by the firmware, all four words of it, however many mails timed    *)
(* out before and whatever other clients wrote to the CSRs.                *)
CleanMailIsRead == [][MailSent /\ clean => taken]_vars

(* The firmware takes every mail: MAIL_VALID does not stay set, whatever   *)
(* its tests meet, unless the simulation has died.                         *)
ValidIsCleared == csr["valid"] = 1 ~> (csr["valid"] = 0 \/ fpc = "dead")

(* Every request gets a reply, with the firmware alive or dead, unless the *)
(* server has been told to quit.                                           *)
Quitting == spc \in {"stop", "join", "exit"}
RequestAnswered ==
    \A c \in Clients : cpc[c] = "waiting" ~> cpc[c] = "idle" \/ Quitting
=============================================================================
