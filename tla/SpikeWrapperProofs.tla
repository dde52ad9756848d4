------------------------- MODULE SpikeWrapperProofs -------------------------
(***************************************************************************)
(* Proofs about SpikeWrapper, for every number of starts and every set of  *)
(* waiters.  There is a lemma for each part of the inductive invariant; in *)
(* each, the steps that matter to the part stand alone and the others are  *)
(* taken together.                                                         *)
(***************************************************************************)
EXTENDS SpikeWrapper, TLAPS

-----------------------------------------------------------------------------
(* A new wrapper has no simulator, no thread and no waiter. *)
LEMMA IInvInit == Init => IInv
  <1> SUFFICES ASSUME Init PROVE IInv
    OBVIOUS
  <1> USE WrapperAssumption DEF Init, Runs
  <1>1. TypeOK
    <2>1. timed \in [Waiters -> BOOLEAN]
      OBVIOUS
    <2>2. rpc \in [Runs -> RunPC] /\ wpc \in [Waiters -> WaitPC]
      BY DEF RunPC, WaitPC
    <2>3. \A w \in Waiters : mutex = w <=> wpc[w] \in Checking
      BY DEF Checking
    <2>4. /\ mutex \in Waiters \cup {Owner, Free} /\ mutex # Owner
          /\ opc \in OwnerPC /\ opc \notin {"start"} \cup Starting
      BY DEF OwnerPC, Outside, Starting
    <2>5. starts \in 0 .. MaxStarts /\ sim \in 0 .. starts /\ thread \in 0 .. starts
      OBVIOUS
    <2>6. QED
      BY <2>1, <2>2, <2>3, <2>4, <2>5 DEF TypeOK, Starting
  <1>2. LaunchedInv /\ ThreadInv /\ FreshInv /\ RunningInv /\ JoinInv
    BY DEF LaunchedInv, ThreadInv, FreshInv, RunningInv, JoinInv, Fresh, Using,
       Starting
  <1>3. ExclusiveUse /\ NoLostWakeup /\ TerminatesOnlyAfterSelfEnd
    BY DEF ExclusiveUse, NoLostWakeup, TerminatesOnlyAfterSelfEnd, Using
  <1>4. QED
    BY <1>1, <1>2, <1>3 DEF IInv

(* Every step keeps the types, and mutex_ with the thread that locked it. *)
LEMMA TypeNext == TypeOK /\ [Next]_vars => TypeOK'
  <1> SUFFICES ASSUME TypeOK, [Next]_vars PROVE TypeOK'
    OBVIOUS
  <1> USE WrapperAssumption DEF TypeOK, Alive, ownerVars, waitVars, Runs,
     Outside, Starting, InStop, OwnerPC, Using, RunPC, Checking, WaitPC
  <1>1. CASE CallStart
    BY <1>1 DEF CallStart, Outside
  <1>2. CASE CallStop
    BY <1>2 DEF CallStop, Outside
  <1>3. CASE CallDestructor
    BY <1>3 DEF CallDestructor, Outside
  <1>4. CASE StartLock
    BY <1>4 DEF StartLock
  <1>5. CASE Create
    BY <1>5 DEF Create, OwnerGoto
  <1>6. CASE SetRunning
    BY <1>6 DEF SetRunning, OwnerGoto
  <1>7. CASE Launch
    BY <1>7 DEF Launch, OwnerGoto
  <1>8. CASE LaunchFails
    BY <1>8 DEF LaunchFails, OwnerGoto
  <1>9. CASE StopLock
    BY <1>9 DEF StopLock, AfterStop
  <1>10. CASE StopNotify
    BY <1>10 DEF StopNotify, OwnerGoto, Wake
  <1>11. CASE Join
    BY <1>11 DEF Join, OwnerGoto
  <1>12. CASE Reset
    BY <1>12 DEF Reset, OwnerGoto, AfterStop
  <1>13. CASE DestroyMembers
    BY <1>13 DEF DestroyMembers
  <1>14. ASSUME NEW r \in Runs, RunSpike(r) PROVE TypeOK'
    <2>1. CASE RunNotify(r)
      BY <2>1 DEF RunNotify, RunGoto, Wake
    <2>2. CASE RunEntry(r) BY <2>2 DEF RunEntry, RunGoto
    <2>3. CASE RunBoot(r) BY <2>3 DEF RunBoot, RunGoto
    <2>4. CASE RunBootFails(r) BY <2>4 DEF RunBootFails, RunGoto
    <2>5. CASE RunTest(r) BY <2>5 DEF RunTest, RunGoto
    <2>6. CASE RunNotDone(r) BY <2>6 DEF RunNotDone, RunGoto
    <2>7. CASE RunDone(r) BY <2>7 DEF RunDone, RunGoto
    <2>8. CASE RunStep(r) BY <2>8 DEF RunStep, RunGoto
    <2>9. CASE RunFinish(r) BY <2>9 DEF RunFinish, RunGoto
    <2>10. QED
      BY <1>14, <2>1, <2>2, <2>3, <2>4, <2>5, <2>6, <2>7, <2>8, <2>9 DEF RunSpike
  <1>15. ASSUME NEW w \in Waiters, NEW t \in BOOLEAN, CallWait(w, t)
        PROVE  TypeOK'
    BY <1>15 DEF CallWait, WaitGoto
  <1>16. ASSUME NEW w \in Waiters, Waiting(w) \/ WaitWakes(w) PROVE TypeOK'
    <2>1. CASE WaitLock(w)
      BY <2>1 DEF WaitLock, WaitGoto
    <2>2. CASE WaitTrue(w)
      BY <2>2 DEF WaitTrue, WaitGoto
    <2>3. CASE WaitSleep(w)
      BY <2>3 DEF WaitSleep, WaitGoto
    <2>4. CASE WaitFalse(w)
      BY <2>4 DEF WaitFalse, WaitGoto
    <2>5. CASE \/ WaitTest(w) \/ WaitReturn(w) \/ WaitWakes(w)
      BY <2>5 DEF WaitTest, WaitReturn, WaitWakes, WaitGoto
    <2>6. QED
      BY <1>16, <2>1, <2>2, <2>3, <2>4, <2>5 DEF Waiting
  <1>17. CASE UNCHANGED vars
    BY <1>17 DEF vars
  <1>18. QED
    BY <1>1, <1>2, <1>3, <1>4, <1>5, <1>6, <1>7, <1>8, <1>9, <1>10, <1>11,
       <1>12, <1>13, <1>14, <1>15, <1>16, <1>17 DEF Next, OwnerStep

(* A start() launches the run that bears its number, once. *)
LEMMA LaunchedNext == IInv /\ [Next]_vars => LaunchedInv'
  <1> SUFFICES ASSUME IInv, [Next]_vars PROVE LaunchedInv'
    OBVIOUS
  <1> USE WrapperAssumption DEF IInv, TypeOK, Alive, ownerVars, waitVars,
     Runs, LaunchedInv
  <1>1. CASE Create
    BY <1>1 DEF Create, OwnerGoto
  <1>2. CASE Launch
    BY <1>2 DEF Launch, OwnerGoto
  <1>3. CASE \/ CallStart \/ CallStop \/ CallDestructor \/ StartLock
             \/ SetRunning \/ LaunchFails \/ StopLock \/ StopNotify
             \/ Join \/ Reset \/ DestroyMembers
    BY <1>3 DEF CallStart, CallStop, CallDestructor, StartLock, SetRunning,
       LaunchFails, StopLock, StopNotify, Join, Reset, DestroyMembers,
       Outside, OwnerGoto, AfterStop, Wake
  <1>4. ASSUME NEW r \in Runs, RunSpike(r) PROVE LaunchedInv'
    BY <1>4 DEF RunSpike, RunEntry, RunBoot, RunBootFails, RunTest,
       RunNotDone, RunDone, RunStep, RunFinish, RunNotify, RunGoto, Wake
  <1>5. ASSUME NEW w \in Waiters, NEW t \in BOOLEAN, CallWait(w, t)
        PROVE  LaunchedInv'
    BY <1>5 DEF CallWait, WaitGoto
  <1>6. ASSUME NEW w \in Waiters, Waiting(w) \/ WaitWakes(w) PROVE LaunchedInv'
    BY <1>6 DEF Waiting, WaitLock, WaitTrue, WaitTest, WaitSleep, WaitFalse,
       WaitReturn, WaitWakes, WaitGoto
  <1>7. CASE UNCHANGED vars
    BY <1>7 DEF vars
  <1>8. QED
    BY <1>1, <1>2, <1>3, <1>4, <1>5, <1>6, <1>7 DEF Next, OwnerStep

(* Only a thread that has exited is joined, and only then is the next one *)
(* launched without terminating the process.                              *)
LEMMA ThreadNext == IInv /\ [Next]_vars => ThreadInv'
  <1> SUFFICES ASSUME IInv, [Next]_vars PROVE ThreadInv'
    OBVIOUS
  <1> USE WrapperAssumption DEF IInv, TypeOK, Alive, ownerVars, waitVars,
     Runs, ThreadInv, LaunchedInv, Outside, InStop
  <1>1. CASE Launch
    BY <1>1 DEF Launch, OwnerGoto
  <1>2. CASE Join
    BY <1>2 DEF Join, OwnerGoto
  <1>3. CASE Reset
    BY <1>3 DEF Reset, OwnerGoto, AfterStop
  <1>4. CASE DestroyMembers
    BY <1>4 DEF DestroyMembers
  <1>5. CASE \/ CallStart \/ CallStop \/ CallDestructor \/ StartLock
             \/ Create \/ SetRunning \/ LaunchFails \/ StopLock
             \/ StopNotify
    BY <1>5 DEF CallStart, CallStop, CallDestructor, StartLock, Create,
       SetRunning, LaunchFails, StopLock, StopNotify, Outside, OwnerGoto,
       AfterStop, Wake
  <1>6. ASSUME NEW r \in Runs, RunSpike(r) PROVE ThreadInv'
    BY <1>6 DEF RunSpike, RunEntry, RunBoot, RunBootFails, RunTest,
       RunNotDone, RunDone, RunStep, RunFinish, RunNotify, RunGoto, Wake
  <1>7. ASSUME NEW w \in Waiters, NEW t \in BOOLEAN, CallWait(w, t)
        PROVE  ThreadInv'
    BY <1>7 DEF CallWait, WaitGoto
  <1>8. ASSUME NEW w \in Waiters, Waiting(w) \/ WaitWakes(w) PROVE ThreadInv'
    BY <1>8 DEF Waiting, WaitLock, WaitTrue, WaitTest, WaitSleep, WaitFalse,
       WaitReturn, WaitWakes, WaitGoto
  <1>9. CASE UNCHANGED vars
    BY <1>9 DEF vars
  <1>10. QED
    BY <1>1, <1>2, <1>3, <1>4, <1>5, <1>6, <1>7, <1>8, <1>9 DEF Next,
       OwnerStep

(* start() and stop() replace and delete sim_ only when no run needs it. *)
LEMMA FreshNext == IInv /\ [Next]_vars => FreshInv'
  <1> SUFFICES ASSUME IInv, [Next]_vars PROVE FreshInv'
    OBVIOUS
  <1> USE WrapperAssumption DEF IInv, TypeOK, Alive, ownerVars, waitVars,
     Runs, FreshInv, ThreadInv, LaunchedInv, RunningInv, Fresh, Using,
     Starting, Outside
  <1>1. CASE StartLock
    BY <1>1 DEF StartLock
  <1>2. CASE Create
    BY <1>2 DEF Create, OwnerGoto
  <1>3. CASE Launch
    BY <1>3 DEF Launch, OwnerGoto
  <1>4. CASE StopLock
    BY <1>4 DEF StopLock, AfterStop
  <1>5. CASE Join
    BY <1>5 DEF Join, OwnerGoto
  <1>6. CASE Reset
    BY <1>6 DEF Reset, OwnerGoto, AfterStop
  <1>7. CASE \/ CallStart \/ CallStop \/ CallDestructor \/ SetRunning
             \/ LaunchFails \/ StopNotify \/ DestroyMembers
    BY <1>7 DEF CallStart, CallStop, CallDestructor, SetRunning,
       LaunchFails, StopNotify, DestroyMembers, Outside, OwnerGoto, Wake
  <1>8. ASSUME NEW r \in Runs, RunSpike(r) PROVE FreshInv'
    <2>1. CASE RunFinish(r)
      BY <2>1 DEF RunFinish, RunGoto
    <2>2. CASE \/ RunEntry(r) \/ RunBoot(r) \/ RunBootFails(r)
               \/ RunTest(r) \/ RunNotDone(r) \/ RunDone(r) \/ RunStep(r)
               \/ RunNotify(r)
      BY <2>2 DEF RunEntry, RunBoot, RunBootFails, RunTest, RunNotDone,
         RunDone, RunStep, RunNotify, RunGoto, Wake
    <2>3. QED
      BY <1>8, <2>1, <2>2 DEF RunSpike
  <1>9. ASSUME NEW w \in Waiters, NEW t \in BOOLEAN, CallWait(w, t)
        PROVE  FreshInv'
    BY <1>9 DEF CallWait, WaitGoto
  <1>10. ASSUME NEW w \in Waiters, Waiting(w) \/ WaitWakes(w) PROVE FreshInv'
    BY <1>10 DEF Waiting, WaitLock, WaitTrue, WaitTest, WaitSleep,
       WaitFalse, WaitReturn, WaitWakes, WaitGoto
  <1>11. CASE UNCHANGED vars
    BY <1>11 DEF vars
  <1>12. QED
    BY <1>1, <1>2, <1>3, <1>4, <1>5, <1>6, <1>7, <1>8, <1>9, <1>10, <1>11
       DEF Next, OwnerStep

(* running_ does not change while start() or wait() holds mutex_. *)
LEMMA RunningNext == IInv /\ [Next]_vars => RunningInv'
  <1> SUFFICES ASSUME IInv, [Next]_vars PROVE RunningInv'
    OBVIOUS
  <1> USE WrapperAssumption DEF IInv, TypeOK, Alive, ownerVars, waitVars,
     Runs, RunningInv, Checking, Starting, Outside
  <1>1. CASE StartLock
    BY <1>1 DEF StartLock
  <1>2. CASE SetRunning
    BY <1>2 DEF SetRunning, OwnerGoto
  <1>3. CASE StopLock
    BY <1>3 DEF StopLock, AfterStop
  <1>4. CASE \/ CallStart \/ CallStop \/ CallDestructor \/ Create
             \/ Launch \/ LaunchFails \/ StopNotify \/ Join \/ Reset
             \/ DestroyMembers
    BY <1>4 DEF CallStart, CallStop, CallDestructor, Create, Launch,
       LaunchFails, StopNotify, Join, Reset, DestroyMembers, Outside,
       OwnerGoto, Wake, AfterStop
  <1>5. ASSUME NEW r \in Runs, RunSpike(r) PROVE RunningInv'
    <2>1. CASE RunFinish(r)
      BY <2>1 DEF RunFinish, RunGoto
    <2>2. CASE \/ RunEntry(r) \/ RunBoot(r) \/ RunBootFails(r)
               \/ RunTest(r) \/ RunNotDone(r) \/ RunDone(r) \/ RunStep(r)
               \/ RunNotify(r)
      BY <2>2 DEF RunEntry, RunBoot, RunBootFails, RunTest, RunNotDone,
         RunDone, RunStep, RunNotify, RunGoto, Wake
    <2>3. QED
      BY <1>5, <2>1, <2>2 DEF RunSpike
  <1>6. ASSUME NEW w \in Waiters, NEW t \in BOOLEAN, CallWait(w, t)
        PROVE  RunningInv'
    BY <1>6 DEF CallWait, WaitGoto
  <1>7. ASSUME NEW w \in Waiters, Waiting(w) \/ WaitWakes(w) PROVE RunningInv'
    <2>1. CASE WaitTest(w)
      BY <2>1 DEF WaitTest, WaitGoto
    <2>2. CASE \/ WaitLock(w) \/ WaitTrue(w) \/ WaitSleep(w)
               \/ WaitFalse(w) \/ WaitReturn(w) \/ WaitWakes(w)
      BY <2>2 DEF WaitLock, WaitTrue, WaitSleep, WaitFalse, WaitReturn,
         WaitWakes, WaitGoto
    <2>3. QED
      BY <1>7, <2>1, <2>2 DEF Waiting
  <1>8. CASE UNCHANGED vars
    BY <1>8 DEF vars
  <1>9. QED
    BY <1>1, <1>2, <1>3, <1>4, <1>5, <1>6, <1>7, <1>8 DEF Next, OwnerStep

(* A run that ends because of stop() is joined by it. *)
LEMMA JoinNext == IInv /\ [Next]_vars => JoinInv'
  <1> SUFFICES ASSUME IInv, [Next]_vars PROVE JoinInv'
    OBVIOUS
  <1> USE WrapperAssumption DEF IInv, TypeOK, Alive, ownerVars, waitVars,
     Runs, JoinInv, FreshInv, ThreadInv, RunningInv, Fresh, Using, Outside,
     Starting
  <1>1. CASE Launch
    BY <1>1 DEF Launch, OwnerGoto
  <1>2. CASE StopLock
    BY <1>2 DEF StopLock, AfterStop
  <1>3. CASE Join
    BY <1>3 DEF Join, OwnerGoto
  <1>4. CASE \/ CallStart \/ CallStop \/ CallDestructor \/ StartLock
             \/ Create \/ SetRunning \/ LaunchFails \/ StopNotify
             \/ Reset \/ DestroyMembers
    BY <1>4 DEF CallStart, CallStop, CallDestructor, StartLock, Create,
       SetRunning, LaunchFails, StopNotify, Reset, DestroyMembers, Outside,
       OwnerGoto, Wake, AfterStop
  <1>5. ASSUME NEW r \in Runs, RunSpike(r) PROVE JoinInv'
    <2>1. CASE RunEntry(r)
      BY <2>1 DEF RunEntry, RunGoto
    <2>2. CASE RunTest(r)
      BY <2>2 DEF RunTest, RunGoto
    <2>3. CASE RunDone(r)
      BY <2>3 DEF RunDone, RunGoto
    <2>4. CASE \/ RunBoot(r) \/ RunBootFails(r) \/ RunNotDone(r)
               \/ RunStep(r) \/ RunFinish(r) \/ RunNotify(r)
      BY <2>4 DEF RunBoot, RunBootFails, RunNotDone, RunStep, RunFinish,
         RunNotify, RunGoto, Wake
    <2>5. QED
      BY <1>5, <2>1, <2>2, <2>3, <2>4 DEF RunSpike
  <1>6. ASSUME NEW w \in Waiters, NEW t \in BOOLEAN, CallWait(w, t)
        PROVE  JoinInv'
    BY <1>6 DEF CallWait, WaitGoto
  <1>7. ASSUME NEW w \in Waiters, Waiting(w) \/ WaitWakes(w) PROVE JoinInv'
    BY <1>7 DEF Waiting, WaitLock, WaitTrue, WaitTest, WaitSleep, WaitFalse,
       WaitReturn, WaitWakes, WaitGoto
  <1>8. CASE UNCHANGED vars
    BY <1>8 DEF vars
  <1>9. QED
    BY <1>1, <1>2, <1>3, <1>4, <1>5, <1>6, <1>7, <1>8 DEF Next, OwnerStep

(* A run finds its own instance when it boots and keeps it. *)
LEMMA ExclusiveNext == IInv /\ [Next]_vars => ExclusiveUse'
  <1> SUFFICES ASSUME IInv, [Next]_vars PROVE ExclusiveUse'
    OBVIOUS
  <1> USE WrapperAssumption DEF IInv, TypeOK, Alive, ownerVars, waitVars,
     Runs, ExclusiveUse, FreshInv, ThreadInv, Fresh, Using, Outside,
     Starting
  <1>1. CASE Create
    BY <1>1 DEF Create, OwnerGoto
  <1>2. CASE Launch
    BY <1>2 DEF Launch, OwnerGoto
  <1>3. CASE Join
    BY <1>3 DEF Join, OwnerGoto
  <1>4. CASE Reset
    BY <1>4 DEF Reset, OwnerGoto, AfterStop
  <1>5. CASE DestroyMembers
    BY <1>5 DEF DestroyMembers
  <1>6. CASE \/ CallStart \/ CallStop \/ CallDestructor \/ StartLock
             \/ SetRunning \/ LaunchFails \/ StopLock \/ StopNotify
    BY <1>6 DEF CallStart, CallStop, CallDestructor, StartLock, SetRunning,
       LaunchFails, StopLock, StopNotify, Outside, OwnerGoto, AfterStop,
       Wake
  <1>7. ASSUME NEW r \in Runs, RunSpike(r) PROVE ExclusiveUse'
    <2>1. CASE RunEntry(r)
      BY <2>1 DEF RunEntry, RunGoto
    <2>2. CASE \/ RunBoot(r) \/ RunBootFails(r) \/ RunTest(r)
               \/ RunNotDone(r) \/ RunDone(r) \/ RunStep(r)
               \/ RunFinish(r) \/ RunNotify(r)
      BY <2>2 DEF RunBoot, RunBootFails, RunTest, RunNotDone, RunDone,
         RunStep, RunFinish, RunNotify, RunGoto, Wake
    <2>3. QED
      BY <1>7, <2>1, <2>2 DEF RunSpike
  <1>8. ASSUME NEW w \in Waiters, NEW t \in BOOLEAN, CallWait(w, t)
        PROVE  ExclusiveUse'
    BY <1>8 DEF CallWait, WaitGoto
  <1>9. ASSUME NEW w \in Waiters, Waiting(w) \/ WaitWakes(w) PROVE ExclusiveUse'
    BY <1>9 DEF Waiting, WaitLock, WaitTrue, WaitTest, WaitSleep, WaitFalse,
       WaitReturn, WaitWakes, WaitGoto
  <1>10. CASE UNCHANGED vars
    BY <1>10 DEF vars
  <1>11. QED
    BY <1>1, <1>2, <1>3, <1>4, <1>5, <1>6, <1>7, <1>8, <1>9, <1>10 DEF Next,
       OwnerStep

(* Whoever clears running_ goes on to notify, and a waiter goes to sleep *)
(* only with running_ true.                                              *)
LEMMA WakeupNext == IInv /\ [Next]_vars => NoLostWakeup'
  <1> SUFFICES ASSUME IInv, [Next]_vars PROVE NoLostWakeup'
    OBVIOUS
  <1> USE WrapperAssumption DEF IInv, TypeOK, Alive, ownerVars, waitVars,
     Runs, NoLostWakeup, RunningInv, Outside, Starting
  <1>1. CASE StopLock
    BY <1>1 DEF StopLock, AfterStop
  <1>2. CASE StopNotify
    BY <1>2 DEF StopNotify, OwnerGoto, Wake
  <1>3. CASE \/ CallStart \/ CallStop \/ CallDestructor \/ StartLock
             \/ Create \/ SetRunning \/ Launch \/ LaunchFails \/ Join
             \/ Reset \/ DestroyMembers
    BY <1>3 DEF CallStart, CallStop, CallDestructor, StartLock, Create,
       SetRunning, Launch, LaunchFails, Join, Reset, DestroyMembers,
       Outside, OwnerGoto, AfterStop
  <1>4. ASSUME NEW r \in Runs, RunSpike(r) PROVE NoLostWakeup'
    <2>1. CASE RunFinish(r)
      BY <2>1 DEF RunFinish, RunGoto
    <2>2. CASE RunNotify(r)
      BY <2>2 DEF RunNotify, RunGoto, Wake
    <2>3. CASE \/ RunEntry(r) \/ RunBoot(r) \/ RunBootFails(r)
               \/ RunTest(r) \/ RunNotDone(r) \/ RunDone(r) \/ RunStep(r)
      BY <2>3 DEF RunEntry, RunBoot, RunBootFails, RunTest, RunNotDone,
         RunDone, RunStep, RunGoto
    <2>4. QED
      BY <1>4, <2>1, <2>2, <2>3 DEF RunSpike
  <1>5. ASSUME NEW w \in Waiters, NEW t \in BOOLEAN, CallWait(w, t)
        PROVE  NoLostWakeup'
    BY <1>5 DEF CallWait, WaitGoto
  <1>6. ASSUME NEW w \in Waiters, Waiting(w) \/ WaitWakes(w) PROVE NoLostWakeup'
    <2>1. CASE WaitSleep(w)
      BY <2>1 DEF WaitSleep, WaitGoto
    <2>2. CASE \/ WaitLock(w) \/ WaitTrue(w) \/ WaitTest(w)
               \/ WaitFalse(w) \/ WaitReturn(w) \/ WaitWakes(w)
      BY <2>2 DEF WaitLock, WaitTrue, WaitTest, WaitFalse, WaitReturn,
         WaitWakes, WaitGoto
    <2>3. QED
      BY <1>6, <2>1, <2>2 DEF Waiting
  <1>7. CASE UNCHANGED vars
    BY <1>7 DEF vars
  <1>8. QED
    BY <1>1, <1>2, <1>3, <1>4, <1>5, <1>6, <1>7 DEF Next, OwnerStep

(* A joinable thread that is assigned to or destroyed has ended by itself. *)
LEMMA TerminateNext == IInv /\ [Next]_vars => TerminatesOnlyAfterSelfEnd'
  <1> SUFFICES ASSUME IInv, [Next]_vars PROVE TerminatesOnlyAfterSelfEnd'
    OBVIOUS
  <1> USE WrapperAssumption DEF IInv, TypeOK, Alive, ownerVars, waitVars,
     Runs, TerminatesOnlyAfterSelfEnd, JoinInv, FreshInv, Fresh, Using,
     Starting, Outside
  <1>1. CASE Launch
    BY <1>1 DEF Launch, OwnerGoto
  <1>2. CASE DestroyMembers
    BY <1>2 DEF DestroyMembers
  <1>3. CASE \/ CallStart \/ CallStop \/ CallDestructor \/ StartLock
             \/ Create \/ SetRunning \/ LaunchFails \/ StopLock
             \/ StopNotify \/ Join \/ Reset
    BY <1>3 DEF CallStart, CallStop, CallDestructor, StartLock, Create,
       SetRunning, LaunchFails, StopLock, StopNotify, Join, Reset, Outside,
       OwnerGoto, AfterStop, Wake
  <1>4. ASSUME NEW r \in Runs, RunSpike(r) PROVE TerminatesOnlyAfterSelfEnd'
    BY <1>4 DEF RunSpike, RunEntry, RunBoot, RunBootFails, RunTest,
       RunNotDone, RunDone, RunStep, RunFinish, RunNotify, RunGoto, Wake
  <1>5. ASSUME NEW w \in Waiters, NEW t \in BOOLEAN, CallWait(w, t)
        PROVE  TerminatesOnlyAfterSelfEnd'
    BY <1>5 DEF CallWait, WaitGoto
  <1>6. ASSUME NEW w \in Waiters, Waiting(w) \/ WaitWakes(w)
        PROVE  TerminatesOnlyAfterSelfEnd'
    BY <1>6 DEF Waiting, WaitLock, WaitTrue, WaitTest, WaitSleep, WaitFalse,
       WaitReturn, WaitWakes, WaitGoto
  <1>7. CASE UNCHANGED vars
    BY <1>7 DEF vars
  <1>8. QED
    BY <1>1, <1>2, <1>3, <1>4, <1>5, <1>6, <1>7 DEF Next, OwnerStep

-----------------------------------------------------------------------------
(* Type correctness of the wrapper: the variables keep their types, and    *)
(* mutex_ is held only inside start() and inside wait()'s test.            *)
THEOREM TypeCorrect == Spec => []TypeOK
  <1>1. Init => TypeOK
    BY IInvInit DEF IInv
  <1>2. QED
    BY <1>1, TypeNext, PTL DEF Spec

(* The inductive invariant holds in every reachable state. *)
THEOREM Invariance == Spec => []IInv
  <1>1. IInv /\ [Next]_vars => TypeOK'
    BY TypeNext DEF IInv
  <1>2. IInv /\ [Next]_vars => IInv'
    BY <1>1, LaunchedNext, ThreadNext, FreshNext, RunningNext, JoinNext,
       ExclusiveNext, WakeupNext, TerminateNext DEF IInv
  <1>3. QED
    BY IInvInit, <1>2, PTL DEF Spec

(* No run_spike thread ever uses a simulator that was deleted or replaced  *)
(* by another start(), and no two threads step one simulator.              *)
THEOREM SimulatorExclusive == Spec => []ExclusiveUse
  BY Invariance, PTL DEF IInv

(* A waiter that sleeps after running_ was cleared is still to be notified. *)
THEOREM WakeupsKept == Spec => []NoLostWakeup
  BY Invariance, PTL DEF IInv

(* std::terminate is called only after a run that ended by itself.         *)
THEOREM TerminationCause == Spec => []TerminatesOnlyAfterSelfEnd
  BY Invariance, PTL DEF IInv

(* When the wrapper is gone, every run_spike thread has exited. *)
THEOREM ThreadsGone == Spec => []NoThreadOutlives
  <1>1. IInv => NoThreadOutlives
    BY DEF IInv, TypeOK, ThreadInv, NoThreadOutlives, Runs
  <1>2. QED
    BY Invariance, <1>1, PTL
=============================================================================
