--------------------------- MODULE CsrServerProofs ---------------------------
(***************************************************************************)
(* Proofs about CsrServer, for every set of clients and of requests.       *)
(***************************************************************************)
EXTENDS CsrServer, SequenceTheorems, TLAPS

-----------------------------------------------------------------------------
(* Facts about the registers and about the firmware's tests. *)

(* custom_csr.cc: the widths of the CSRs. *)
Fits(r, v) == /\ v \in Nat
              /\ r = "valid" => v \in {0, 1}
              /\ r \in SignalCsrs => v < 2048

(* The names of the CSRs, one by one. *)
LEMMA CsrNames ==
  /\ Csrs = {"data0", "data1", "data2", "data3", "bo_done", "se_up", "lock", "valid", "count"}
  /\ \A i \in 1 .. 4 : DataCsrs[i] \in Csrs \ (SignalCsrs \cup {"valid"})
  /\ \A i, j \in 1 .. 4 : DataCsrs[i] = DataCsrs[j] => i = j
  <1>1. ToSet(DataCsrs) = {"data0", "data1", "data2", "data3"}
    <2>1. DOMAIN DataCsrs = 1 .. 4 BY DEF DataCsrs
    <2>2. ToSet(DataCsrs) = {DataCsrs[i] : i \in 1 .. 4} BY <2>1 DEF ToSet
    <2>3. QED BY <2>2 DEF DataCsrs
  <1>2. Csrs = {"data0", "data1", "data2", "data3", "bo_done", "se_up", "lock", "valid", "count"}
    BY <1>1 DEF Csrs, SignalCsrs
  <1>3. ASSUME NEW i \in 1 .. 4, NEW j \in 1 .. 4
        PROVE  /\ DataCsrs[i] \in Csrs \ (SignalCsrs \cup {"valid"})
               /\ DataCsrs[i] = DataCsrs[j] => i = j
    BY <1>2 DEF DataCsrs, SignalCsrs
  <1>4. QED BY <1>2, <1>3

(* What a CSR keeps of a value fits into it. *)
LEMMA MaskedFits ==
  ASSUME NEW r \in Csrs, NEW v \in Nat
  PROVE  Fits(r, Masked(r, v))
  BY CsrNames DEF Fits, Masked, SignalCsrs

(* A step of the firmware's tests. *)
TestStep == [op : {"write", "read"}, csr : Csrs, val : Nat]

LEMMA CheckType ==
  ASSUME NEW r \in Csrs, NEW v \in Nat
  PROVE  /\ W(r, v) \in Seq(TestStep) /\ R(r, v) \in Seq(TestStep)
         /\ Check(r, v) \in Seq(TestStep)
         /\ Len(Check(r, v)) = 2 /\ Check(r, v)[2].op = "read"
  <1>1. Masked(r, v) \in Nat BY MaskedFits DEF Fits
  <1>2. [op |-> "write", csr |-> r, val |-> v] \in TestStep
    BY DEF TestStep
  <1>3. \A u \in Nat : [op |-> "read", csr |-> r, val |-> u] \in TestStep
    BY DEF TestStep
  <1>4. W(r, v) \in Seq(TestStep) BY <1>2 DEF W
  <1>5. \A u \in Nat : R(r, u) \in Seq(TestStep) BY <1>3 DEF R
  <1>6. Len(W(r, v)) = 1 /\ Len(R(r, Masked(r, v))) = 1 /\ R(r, Masked(r, v))[1].op = "read"
    BY DEF W, R
  <1> DEFINE a == W(r, v)
             b == R(r, Masked(r, v))
  <1>7. a \in Seq(TestStep) /\ b \in Seq(TestStep) /\ Len(a) = 1 /\ Len(b) = 1 /\ b[1].op = "read"
    BY <1>1, <1>4, <1>5, <1>6
  <1> HIDE DEF a, b
  <1>8. a \o b \in Seq(TestStep) /\ Len(a \o b) = 2 /\ (a \o b)[2] = b[1]
    <2>1. /\ a \o b \in Seq(TestStep) /\ Len(a \o b) = Len(a) + Len(b)
          /\ \A i \in 1 .. Len(a) + Len(b) : (a \o b)[i] =
                 IF i <= Len(a) THEN a[i] ELSE b[i - Len(a)]
      BY <1>7, ConcatProperties, Zenon
    <2>2. (a \o b)[2] = IF 2 <= Len(a) THEN a[2] ELSE b[2 - Len(a)]
      BY <2>1, <1>7
    <2>3. QED BY <2>1, <2>2, <1>7
  <1>9. Check(r, v) = a \o b BY DEF Check, a, b
  <1>10. QED BY <1>4, <1>5, <1>7, <1>8, <1>9

(* Appending sequences of steps, the last of which is a comparison. *)
LEMMA Appended ==
  ASSUME NEW s \in Seq(TestStep), NEW t \in Seq(TestStep),
         t # <<>>, t[Len(t)].op = "read"
  PROVE  /\ s \o t \in Seq(TestStep)
         /\ s \o t # <<>> /\ (s \o t)[Len(s \o t)].op = "read"
  OBVIOUS

LEMMA SelfTestType ==
  /\ SelfTest \in Seq(TestStep) /\ SelfTest # <<>>
  /\ SelfTest[Len(SelfTest)].op = "read"
  <1> DEFINE Tests == {s \in Seq(TestStep) : s # <<>> /\ s[Len(s)].op = "read"}
  <1>1. \A r \in Csrs, v \in Nat : Check(r, v) \in Tests /\ R(r, v) \in Tests
    <2> SUFFICES ASSUME NEW r \in Csrs, NEW v \in Nat
                 PROVE  Check(r, v) \in Tests /\ R(r, v) \in Tests
      OBVIOUS
    <2>1. Check(r, v) \in Tests
      <3> DEFINE c == Check(r, v)
      <3>1. c \in Seq(TestStep) /\ Len(c) = 2 /\ c[2].op = "read" BY CheckType
      <3> HIDE DEF c
      <3>2. c # <<>> BY <3>1
      <3>3. QED BY <3>1, <3>2 DEF c
    <2>2. R(r, v) \in Tests BY CheckType DEF R
    <2>3. QED BY <2>1, <2>2
  <1>2. \A s \in Seq(TestStep), t \in Tests : s \o t \in Tests
    BY Appended
  <1>3. \A s \in Seq(TestStep), t \in Seq(TestStep) : s \o t \in Seq(TestStep)
    OBVIOUS
  <1>4. \A r \in Csrs, v \in Nat : W(r, v) \in Seq(TestStep)
    BY CheckType
  <1> DEFINE Steps == Seq(TestStep)
  <1>5. \A t \in Tests : t \in Steps OBVIOUS
  <1>6. \A s \in Steps, t \in Steps : s \o t \in Steps BY <1>3
  <1>7. \A s \in Steps, t \in Tests : s \o t \in Tests BY <1>2
  <1>8. \A r \in Csrs, v \in Nat : W(r, v) \in Steps BY <1>4
  <1> HIDE DEF Tests, Steps
  <1>9. \A s, t, u, v \in Steps : s \o t \o u \o v \in Steps BY <1>6, Zenon
  <1>10. TestRegisters \in Steps
    <2>1. /\ Check("data0", 11) \in Steps /\ Check("data1", 12) \in Steps
          /\ Check("data2", 13) \in Steps /\ Check("data3", 14) \in Steps
          /\ Check("valid", 0) \in Steps /\ Check("valid", 1) \in Steps
          /\ Check("valid", 255) \in Steps /\ Check("bo_done", 4095) \in Steps
          /\ Check("se_up", 4095) \in Steps /\ Check("lock", 4095) \in Steps
          /\ Check("count", 65535) \in Steps
      BY <1>1, <1>5, CsrNames
    <2> DEFINE r1 == Check("data0", 11) \o Check("data1", 12) \o Check("data2", 13)
                       \o Check("data3", 14)
               r2 == r1 \o Check("valid", 0) \o Check("valid", 1) \o Check("valid", 255)
               r3 == r2 \o Check("bo_done", 4095) \o Check("se_up", 4095) \o Check("lock", 4095)
    <2>2. r1 \in Steps BY <2>1, <1>9
    <2>3. r2 \in Steps
      <3> HIDE DEF r1
      <3> QED BY <2>1, <2>2, <1>9
    <2>4. r3 \in Steps
      <3> HIDE DEF r2
      <3> QED BY <2>1, <2>3, <1>9
    <2>5. TestRegisters = r3 \o Check("count", 65535) BY DEF TestRegisters
    <2> HIDE DEF r3
    <2>6. QED BY <2>1, <2>4, <2>5, <1>6
  <1>11. TestChannels \in Tests
    <2>1. Signal(5, 3) \in Nat /\ Signal(7, 10) \in Nat /\ Signal(3, 5) \in Nat
      BY DEF Signal
    <2>2. /\ W("data0", 21) \in Steps /\ W("data1", 22) \in Steps
          /\ W("data2", 23) \in Steps /\ W("data3", 24) \in Steps
      BY <1>8, CsrNames
    <2>3. /\ R("data0", 21) \in Steps /\ R("data1", 22) \in Steps
          /\ R("data2", 23) \in Steps /\ R("data3", 24) \in Steps
      BY <1>1, <1>5, CsrNames
    <2>4. /\ Check("valid", 1) \in Steps /\ Check("valid", 0) \in Steps
          /\ Check("bo_done", Signal(5, 3)) \in Steps
          /\ Check("se_up", Signal(7, 10)) \in Steps
          /\ Check("lock", Signal(3, 5)) \in Steps /\ Check("count", 5) \in Steps
          /\ Check("count", 10) \in Tests
      BY <1>1, <1>5, <2>1, CsrNames
    <2> DEFINE r1 == W("data0", 21) \o W("data1", 22) \o W("data2", 23) \o W("data3", 24)
               r2 == r1 \o R("data0", 21) \o R("data1", 22) \o R("data2", 23)
               r3 == r2 \o R("data3", 24) \o Check("valid", 1) \o Check("valid", 0)
               r4 == r3 \o Check("bo_done", Signal(5, 3)) \o Check("se_up", Signal(7, 10))
                        \o Check("lock", Signal(3, 5))
    <2>5. r1 \in Steps BY <2>2, <1>9, Zenon
    <2>6. r2 \in Steps
      <3> HIDE DEF r1
      <3> QED BY <2>3, <2>5, <1>9, Zenon
    <2>7. r3 \in Steps
      <3> HIDE DEF r2
      <3> QED BY <2>3, <2>4, <2>6, <1>9, Zenon
    <2>8. r4 \in Steps
      <3> HIDE DEF r3
      <3> QED BY <2>4, <2>7, <1>9, Zenon
    <2>9. TestChannels = r4 \o Check("count", 5) \o Check("count", 10) BY DEF TestChannels
    <2> HIDE DEF r4
    <2>10. r4 \o Check("count", 5) \in Steps BY <2>4, <2>8, <1>6, Zenon
    <2>11. QED BY <2>4, <2>9, <2>10, <1>7, Zenon
  <1>12. SelfTest \in Tests BY <1>7, <1>10, <1>11 DEF SelfTest
  <1>13. QED BY <1>12 DEF Tests

-----------------------------------------------------------------------------
(* The types, and who is served where. *)

ServerPC == {"recv", "handle", "count", "stop", "join", "exit"} \cup Mailing
FwPC     == {"load", "test", "dead", "poll", "data", "clear"}
Handling == {"handle", "count"} \cup Mailing

(* The variables have their types, and every CSR holds a value that fits   *)
(* into it (custom_csr.cc, unlogged_write): one bit or eleven bits.        *)
TypeOK ==
    /\ csr \in [Csrs -> Nat] /\ \A r \in Csrs : Fits(r, csr[r])
    /\ request \in [Clients -> RequestTypes]
    /\ cpc \in [Clients -> {"idle", "waiting"}]
    /\ reply \in [Clients -> {"none", "success", "error"}]
    /\ spc \in ServerPC /\ served \in Clients \cup {Nobody} /\ sidx \in 1 .. 4
    /\ fpc \in FwPC /\ fidx \in Nat /\ fdata \in [1 .. 4 -> Nat]
    /\ clean \in BOOLEAN /\ taken \in BOOLEAN

(* The server is busy with one client, which waits for its reply, and only *)
(* a mail takes it to the steps of CMD_MAIL_CHANNEL; the indices of the    *)
(* loops are those of the loop that runs.                                  *)
Control ==
    /\ spc \in Handling => served \in Clients /\ cpc[served] = "waiting"
    /\ spc \in Mailing => Current.cmd = "mail"
    /\ spc # "data" => sidx = 1
    /\ fpc = "test" => fidx \in 1 .. Len(SelfTest)
    /\ fpc = "data" => fidx \in 1 .. 4
    /\ fpc \notin {"test", "data"} => fidx = 1

(* A request that is a mail, a write or a signal has its fields. *)
LEMMA RequestFields ==
  ASSUME NEW x \in RequestTypes
  PROVE  /\ x.cmd = "mail" => x.mail \in [1 .. 4 -> Nat]
         /\ x.cmd = "write" => x.csr \in Csrs /\ x.value \in Nat
         /\ x.cmd = "signal" => x.csr \in Csrs /\ x.wg \in Nat /\ x.bar \in Nat
         /\ x.cmd = "query" => x.wg \in Nat /\ x.bar \in Nat
  BY CsrNames DEF RequestTypes, Bad

(* The bits of a signal make a number. *)
LEMMA SignalType ==
  ASSUME NEW wg \in Nat, NEW bar \in Nat
  PROVE  Signal(wg, bar) \in Nat
  BY DEF Signal

LEMMA BadIsRequest == Bad \in RequestTypes
  BY DEF RequestTypes

(* A write to a CSR keeps the types of all of them. *)
LEMMA WriteCsrType ==
  ASSUME TypeOK, NEW r \in Csrs, NEW v \in Nat, WriteCsr(r, v)
  PROVE  csr' \in [Csrs -> Nat] /\ \A x \in Csrs : Fits(x, csr'[x])
  BY MaskedFits DEF TypeOK, WriteCsr, Fits

(* A reply keeps the types. *)
LEMMA ReplyType ==
  ASSUME TypeOK, served \in Clients, NEW st \in {"success", "error"}, Reply(st)
  PROVE  /\ request' \in [Clients -> RequestTypes]
         /\ cpc' \in [Clients -> {"idle", "waiting"}]
         /\ reply' \in [Clients -> {"none", "success", "error"}]
         /\ spc' \in {"recv", "stop"} /\ served' = Nobody
  BY BadIsRequest DEF TypeOK, Reply

(* The initial state has the types and the control. *)
LEMMA InitControl == Init => TypeOK /\ Control
  <1> SUFFICES ASSUME Init PROVE TypeOK /\ Control
    OBVIOUS
  <1>1. TypeOK
    <2>1. csr \in [Csrs -> Nat] /\ \A r \in Csrs : Fits(r, csr[r])
      BY DEF Init, Fits
    <2>2. /\ request \in [Clients -> RequestTypes]
          /\ cpc \in [Clients -> {"idle", "waiting"}]
          /\ reply \in [Clients -> {"none", "success", "error"}]
      BY BadIsRequest DEF Init
    <2>3. fdata \in [1 .. 4 -> Nat] /\ sidx \in 1 .. 4 /\ fidx \in Nat
      BY DEF Init, NoMail
    <2>4. clean \in BOOLEAN /\ taken \in BOOLEAN
      BY Zenon DEF Init
    <2>5. spc \in ServerPC /\ fpc \in FwPC /\ served \in Clients \cup {Nobody}
      BY DEF Init, ServerPC, FwPC
    <2>6. QED BY <2>1, <2>2, <2>3, <2>4, <2>5 DEF TypeOK
  <1>2. Control
    BY DEF Init, Control, Handling, Mailing
  <1>3. QED BY <1>1, <1>2

(* Every step keeps both. *)
LEMMA NextControl == TypeOK /\ Control /\ [Next]_vars => TypeOK' /\ Control'
  <1> SUFFICES ASSUME TypeOK, Control, [Next]_vars PROVE TypeOK' /\ Control'
    OBVIOUS
  <1> USE DEF Control, Handling, Mailing, client, server, firmware, history, Current
  <1>0. "valid" \in Csrs /\ "lock" \in Csrs BY CsrNames
  <1>1. ASSUME NEW c \in Clients, NEW x \in Requests, Send(c, x) PROVE TypeOK' /\ Control'
    BY <1>1, RequestAssumption DEF TypeOK, Send
  <1>2. ASSUME NEW c \in Clients, Recv(c) PROVE TypeOK' /\ Control'
    BY <1>2 DEF TypeOK, Recv, ServerPC
  <1>3. CASE ServerStep
    <2> USE DEF TypeOK, ServerPC
    <2>1. CASE HandleOther
      BY <2>1, ReplyType DEF HandleOther
    <2>2. CASE HandleWrite
      <3>1. request[served] \in RequestTypes BY <2>2 DEF HandleWrite
      <3>2. request[served].csr \in Csrs /\ request[served].value \in Nat
        BY <3>1, <2>2, RequestFields DEF HandleWrite
      <3>3. QED BY <2>2, <3>2, ReplyType, WriteCsrType DEF HandleWrite
    <2>3. CASE HandleSignal
      <3>1. request[served] \in RequestTypes BY <2>3 DEF HandleSignal
      <3>2. request[served].cmd = "signal" BY <2>3 DEF HandleSignal
      <3>3. /\ request[served].csr \in Csrs /\ request[served].wg \in Nat
            /\ request[served].bar \in Nat
        BY <3>1, <3>2, RequestFields, Zenon
      <3>4. Signal(request[served].wg, request[served].bar) \in Nat
        BY <3>3, SignalType
      <3>5. QED BY <2>3, <3>3, <3>4, ReplyType, WriteCsrType DEF HandleSignal
    <2>4. CASE QueryLock
      <3>1. request[served] \in RequestTypes BY <2>4 DEF QueryLock
      <3>2. request[served].cmd = "query" BY <2>4 DEF QueryLock
      <3>3. request[served].wg \in Nat /\ request[served].bar \in Nat
        BY <3>1, <3>2, RequestFields, Zenon
      <3>4. Signal(request[served].wg, request[served].bar) \in Nat
        BY <3>3, SignalType
      <3>5. QED BY <2>4, <3>4, <1>0, WriteCsrType DEF QueryLock
    <2>5. CASE QueryCount
      BY <2>5, ReplyType DEF QueryCount
    <2>6. CASE MailBegin
      BY <2>6 DEF MailBegin
    <2>7. CASE MailData
      <3>1. request[served] \in RequestTypes BY <2>7 DEF MailData
      <3>2. request[served].cmd = "mail" /\ sidx \in 1 .. 4 BY <2>7 DEF MailData
      <3>3. request[served].mail \in [1 .. 4 -> Nat] BY <3>1, <3>2, RequestFields, Zenon
      <3>4. request[served].mail[sidx] \in Nat BY <3>2, <3>3
      <3>5. DataCsrs[sidx] \in Csrs BY <3>2, CsrNames
      <3>6. csr' \in [Csrs -> Nat] /\ \A x \in Csrs : Fits(x, csr'[x])
        BY <2>7, <3>4, <3>5, WriteCsrType DEF MailData
      <3>7. QED BY <2>7, <3>2, <3>6 DEF MailData
    <2>8. CASE MailValid
      BY <2>8, <1>0, WriteCsrType DEF MailValid
    <2>9. CASE MailSent
      BY <2>9, ReplyType DEF MailSent
    <2>10. CASE MailTimeout
      BY <2>10, ReplyType DEF MailTimeout
    <2>11. CASE StopSpike BY <2>11 DEF StopSpike
    <2>12. CASE JoinSpike BY <2>12 DEF JoinSpike
    <2>13. QED
      BY <1>3, <2>1, <2>2, <2>3, <2>4, <2>5, <2>6, <2>7, <2>8, <2>9, <2>10, <2>11, <2>12
      DEF ServerStep
  <1>4. CASE FwStep
    <2> USE DEF TypeOK, FwPC, FwGoto
    <2>1. CASE FwLoad
      <3>1. Len(SelfTest) \in Nat \ {0} BY SelfTestType
      <3>2. QED BY <2>1, <3>1 DEF FwLoad
    <2>2. CASE FwLoadFails BY <2>2 DEF FwLoadFails
    <2>3. CASE FwTestWrite
      <3>1. SelfTest[fidx] \in TestStep BY <2>3, SelfTestType DEF FwTestWrite
      <3>2. SelfTest[fidx].csr \in Csrs /\ SelfTest[fidx].val \in Nat BY <3>1 DEF TestStep
      <3>3. fidx # Len(SelfTest) BY <2>3, SelfTestType DEF FwTestWrite
      <3>4. fidx + 1 \in 1 .. Len(SelfTest) BY <2>3, <3>3, SelfTestType DEF FwTestWrite
      <3>5. csr' \in [Csrs -> Nat] /\ \A x \in Csrs : Fits(x, csr'[x])
        BY <2>3, <3>2, WriteCsrType DEF FwTestWrite
      <3>6. QED BY <2>3, <3>4, <3>5 DEF FwTestWrite
    <2>4. CASE FwTestRead
      <3>1. Len(SelfTest) \in Nat BY SelfTestType
      <3>2. QED BY <2>4, <3>1 DEF FwTestRead
    <2>5. CASE FwPoll BY <2>5 DEF FwPoll
    <2>6. CASE FwReadData
      <3>1. csr[DataCsrs[fidx]] \in Nat BY <2>6, CsrNames DEF FwReadData
      <3>2. QED BY <2>6, <3>1 DEF FwReadData
    <2>7. CASE FwClear
      BY <2>7, <1>0, WriteCsrType DEF FwClear, NoMail
    <2>8. QED BY <1>4, <2>1, <2>2, <2>3, <2>4, <2>5, <2>6, <2>7 DEF FwStep
  <1>5. CASE UNCHANGED vars
    BY <1>5 DEF TypeOK, vars
  <1>6. QED BY <1>1, <1>2, <1>3, <1>4, <1>5 DEF Next

(* custom_csr.cc, spike_csr_server.cc, firmware/csr/main.c: whatever the   *)
(* clients send and the firmware's tests write, each CSR holds a value of  *)
(* its width, the server serves a client that waits, and no loop leaves    *)
(* its array.                                                              *)
THEOREM TypeCorrect == Spec => [](TypeOK /\ Control)
  BY InitControl, NextControl, PTL DEF Spec

-----------------------------------------------------------------------------
(* A mail that was begun at rest. *)

(* The words of the mail that are in the CSRs, before word n. *)
Written(n) == \A i \in 1 .. 4 : i < n => csr[DataCsrs[i]] = Current.mail[i]

(* While the server writes the words of a mail begun at rest the firmware  *)
(* keeps polling; once MAIL_VALID is set, the words stay in the CSRs, the  *)
(* firmware reads just these, and clears MAIL_VALID only after the last.   *)
CleanMail ==
    clean =>
        \/ spc = "data" /\ fpc = "poll" /\ csr["valid"] = 0 /\ Written(sidx)
        \/ spc = "valid" /\ fpc = "poll" /\ csr["valid"] = 0 /\ Written(5)
        \/ /\ spc = "poll" /\ Written(5)
           /\ \/ fpc = "poll" /\ (csr["valid"] = 1 \/ taken)
              \/ /\ fpc = "data" /\ csr["valid"] = 1
                 /\ \A i \in 1 .. 4 : i < fidx => fdata[i] = Current.mail[i]
              \/ fpc = "clear" /\ csr["valid"] = 1 /\ taken

IInv == TypeOK /\ Control /\ CleanMail

(* Every step of the clients, the server and the firmware keeps CleanMail. *)
LEMMA NextClean == IInv /\ [Next]_vars => CleanMail'
  <1> SUFFICES ASSUME TypeOK, Control, CleanMail, [Next]_vars PROVE CleanMail'
    BY DEF IInv
  <1> USE DEF CleanMail, client, server, firmware, history
  <1>1. ASSUME NEW c \in Clients, NEW x \in Requests, Send(c, x) PROVE CleanMail'
    <2>1. spc \in Mailing => request'[served] = request[served]
      BY <1>1 DEF Send, Control, Handling, TypeOK
    <2>2. QED BY <1>1, <2>1 DEF Send, Written, Current, Mailing
  <1>2. ASSUME NEW c \in Clients, Recv(c) PROVE CleanMail'
    BY <1>2 DEF Recv
  <1>3. CASE ServerStep
    <2>1. CASE HandleOther BY <2>1 DEF HandleOther
    <2>2. CASE HandleWrite BY <2>2 DEF HandleWrite
    <2>3. CASE HandleSignal BY <2>3 DEF HandleSignal
    <2>4. CASE QueryLock BY <2>4 DEF QueryLock
    <2>5. CASE QueryCount BY <2>5 DEF QueryCount
    <2>6. CASE MailBegin
      <3>1. sidx = 1 BY <2>6 DEF MailBegin, Control
      <3>2. Written(sidx)' BY <2>6, <3>1 DEF MailBegin, Written
      <3>3. clean' => csr["valid"] = 0 /\ fpc = "poll" BY <2>6, Zenon DEF MailBegin
      <3>4. spc' = "data" /\ fpc' = fpc /\ csr' = csr BY <2>6 DEF MailBegin
      <3>5. QED BY <3>2, <3>3, <3>4
    <2>7. CASE MailData
      <3>1. /\ \A i \in 1 .. 4 : csr'[DataCsrs[i]] =
                 IF i = sidx THEN Current.mail[sidx] ELSE csr[DataCsrs[i]]
            /\ csr'["valid"] = csr["valid"]
        BY <2>7, CsrNames DEF MailData, WriteCsr, Masked, TypeOK
      <3>2. Current' = Current BY <2>7 DEF MailData, Current
      <3>3. sidx \in 1 .. 4 BY DEF TypeOK
      <3>4. Written(sidx) => (\A i \in 1 .. 4 : i < sidx + 1 => csr'[DataCsrs[i]] = Current.mail[i])
        BY <3>1, <3>3 DEF Written
      <3>5. QED BY <2>7, <3>1, <3>2, <3>3, <3>4 DEF MailData, Written
    <2>8. CASE MailValid
      <3>1. /\ \A i \in 1 .. 4 : csr'[DataCsrs[i]] = csr[DataCsrs[i]]
            /\ csr'["valid"] = 1
        BY <2>8, CsrNames DEF MailValid, WriteCsr, Masked, TypeOK
      <3>2. QED BY <2>8, <3>1 DEF MailValid, Written, Current
    <2>9. CASE MailSent BY <2>9 DEF MailSent
    <2>10. CASE MailTimeout BY <2>10 DEF MailTimeout
    <2>11. CASE StopSpike BY <2>11 DEF StopSpike
    <2>12. CASE JoinSpike BY <2>12 DEF JoinSpike
    <2>13. QED
      BY <1>3, <2>1, <2>2, <2>3, <2>4, <2>5, <2>6, <2>7, <2>8, <2>9, <2>10, <2>11, <2>12
      DEF ServerStep
  <1>4. CASE FwStep
    <2> USE DEF FwGoto
    <2>1. CASE FwLoad BY <2>1 DEF FwLoad
    <2>2. CASE FwLoadFails BY <2>2 DEF FwLoadFails
    <2>3. CASE FwTestWrite BY <2>3 DEF FwTestWrite
    <2>4. CASE FwTestRead BY <2>4 DEF FwTestRead
    <2>5. CASE FwPoll
      <3>1. fidx = 1 BY <2>5 DEF FwPoll, Control
      <3>2. QED BY <2>5, <3>1 DEF FwPoll, Written, Current
    <2>6. CASE FwReadData
      <3>1. fidx \in 1 .. 4 BY <2>6 DEF FwReadData, Control
      <3>2. /\ fdata \in [1 .. 4 -> Nat]
            /\ fdata' = [fdata EXCEPT ![fidx] = csr[DataCsrs[fidx]]]
        BY <2>6 DEF FwReadData, TypeOK
      <3>3. Current' = Current /\ csr' = csr /\ spc' = spc BY <2>6 DEF FwReadData, Current
      <3> SUFFICES ASSUME clean PROVE CleanMail'
        BY <2>6 DEF FwReadData
      <3>4. /\ spc = "poll" /\ Written(5) /\ csr["valid"] = 1
            /\ \A i \in 1 .. 4 : i < fidx => fdata[i] = Current.mail[i]
        BY <2>6 DEF FwReadData
      <3>5. \A i \in 1 .. 4 : i < fidx + 1 => fdata'[i] = Current.mail[i]
        BY <3>1, <3>2, <3>4 DEF Written
      <3>6. CASE fidx = 4
        <4>1. Current.mail \in [1 .. 4 -> Nat]
          BY <3>4, RequestFields DEF Control, TypeOK, Current, Handling, Mailing
        <4>2. fdata' \in [1 .. 4 -> Nat]
          BY <3>1, <3>2, CsrNames DEF TypeOK
        <4>3. fdata' = Current.mail
          BY <3>5, <3>6, <4>1, <4>2
        <4>4. taken'
          BY <2>6, <3>4, <3>6, <4>3 DEF FwReadData, InMail, Mailing
        <4>5. QED BY <2>6, <3>3, <3>4, <3>6, <4>4 DEF FwReadData, Written
      <3>7. CASE fidx # 4
        BY <2>6, <3>1, <3>3, <3>4, <3>5, <3>7 DEF FwReadData, Written
      <3>8. QED BY <3>6, <3>7
    <2>7. CASE FwClear
      <3>1. \A i \in 1 .. 4 : csr'[DataCsrs[i]] = csr[DataCsrs[i]]
        BY <2>7, CsrNames DEF FwClear, WriteCsr, TypeOK
      <3>2. QED BY <2>7, <3>1 DEF FwClear, Written, Current
    <2>8. QED BY <1>4, <2>1, <2>2, <2>3, <2>4, <2>5, <2>6, <2>7 DEF FwStep
  <1>5. CASE UNCHANGED vars
    BY <1>5 DEF vars, Written, Current
  <1>6. QED BY <1>1, <1>2, <1>3, <1>4, <1>5 DEF Next

(* The inductive invariant holds throughout. *)
LEMMA Invariant == Spec => []IInv
  <1>1. Init => IInv BY InitControl DEF IInv, Init, CleanMail
  <1>2. IInv /\ [Next]_vars => IInv' BY NextControl, NextClean DEF IInv
  <1>3. QED BY <1>1, <1>2, PTL DEF Spec

(* spike_csr_server.cc, CMD_MAIL_CHANNEL, and firmware/csr/main.c: a mail  *)
(* that is begun while the channel is at rest and then reported as sent    *)
(* has been read by the firmware, all four words of it, whatever the       *)
(* requests of the clients and however many of them there are.             *)
THEOREM CleanMailRead == Spec => CleanMailIsRead
  <1>1. IInv /\ [Next]_vars => [MailSent /\ clean => taken]_vars
    BY DEF IInv, CleanMail, MailSent
  <1>2. QED BY <1>1, Invariant, PTL DEF Spec, CleanMailIsRead
=============================================================================
