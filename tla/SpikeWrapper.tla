----------------------------- MODULE SpikeWrapper -----------------------------
(***************************************************************************)
(* The life of a SpikeWrapper (extensions/spike_wrapper.cc): start(),      *)
(* stop() and the destructor, called by one owner thread; wait(), called   *)
(* by any number of other threads; and the run_spike threads that start()  *)
(* launches, one per successful start.                                     *)
(*                                                                         *)
(* Objects are named by the number of the start() that made them: sim_ and *)
(* spike_thread_ hold such a number, or 0 for a null pointer and a thread  *)
(* object that is not joinable.                                            *)
(***************************************************************************)
EXTENDS Integers

CONSTANTS MaxStarts,  \* bound: the calls of start() that create an instance
          Waiters,    \* the threads that call wait()
          Owner,      \* the thread that calls start(), stop() and ~SpikeWrapper
          Free        \* no thread: the owner of a free mutex

ASSUME WrapperAssumption ==
    /\ MaxStarts \in Nat
    /\ Owner \notin Waiters /\ Free \notin Waiters \cup {Owner}

VARIABLES
    running,     \* running_
    mutex,       \* the thread that holds mutex_, or Free
    sim,         \* sim_
    thread,      \* spike_thread_, as long as it is joinable
    starts,      \* how many instances start() has created
    opc,         \* where the owner is
    dying,       \* the owner is in the destructor
    rpc,         \* where each run_spike thread is
    wpc,         \* where each waiter is
    timed,       \* its wait has a timeout
    process,     \* "alive", "terminated" by std::terminate, or the wrapper
                 \* is "destroyed"
    selfEnded    \* history: a run ended although nobody called stop()

ownerVars == <<starts, opc, dying>>
waitVars  == <<wpc, timed>>
vars == <<running, mutex, sim, thread, ownerVars, rpc, waitVars, process,
          selfEnded>>

Runs == 1 .. MaxStarts

(* The owner's labels; outside the wrapper they tell what returned last. *)
Outside  == {"idle", "started", "refused", "stopped"}
Starting == {"create", "running", "launch"}      \* it holds mutex_
InStop   == {"stop", "notify", "join", "reset"}
OwnerPC  == Outside \cup {"start"} \cup Starting \cup InStop \cup {"members"}

(* A run_spike thread uses sim_ at these labels. *)
Using  == {"boot", "test", "done", "step"}
RunPC  == Using \cup {"none", "entry", "finish", "notify", "exit"}

(* A waiter holds mutex_ at the labels of Checking; "expired" and          *)
(* "lastcheck" are those of a wait whose time is up.                       *)
Checking == {"check", "tested", "lastcheck"}
WaitPC   == Checking \cup {"idle", "lock", "asleep", "woken", "expired", "waited"}

Init ==
    /\ running = FALSE /\ mutex = Free /\ sim = 0 /\ thread = 0
    /\ starts = 0 /\ opc = "idle" /\ dying = FALSE
    /\ rpc = [r \in Runs |-> "none"]
    /\ wpc = [w \in Waiters |-> "idle"] /\ timed = [w \in Waiters |-> FALSE]
    /\ process = "alive"
    /\ selfEnded = FALSE

-----------------------------------------------------------------------------
(* The owner *)

Alive == process = "alive"

OwnerGoto(from, to) == Alive /\ opc = from /\ opc' = to

(* start() is called and waits for mutex_. *)
CallStart ==
    /\ Alive /\ opc \in Outside /\ starts < MaxStarts
    /\ opc' = "start"
    /\ UNCHANGED <<running, mutex, sim, thread, starts, dying, rpc, waitVars,
                   process, selfEnded>>

(* lock_guard; if (running_) return false *)
StartLock ==
    /\ Alive /\ opc = "start" /\ mutex = Free
    /\ IF running
       THEN opc' = "refused" /\ UNCHANGED mutex
       ELSE opc' = "create" /\ mutex' = Owner
    /\ UNCHANGED <<running, sim, thread, starts, dying, rpc, waitVars, process,
                   selfEnded>>

(* sim_ = create_spike_instance(args): the new instance, or nullptr when   *)
(* its construction threw; the instance sim_ held before is deleted.       *)
Create ==
    /\ OwnerGoto("create", "running")
    /\ starts' = starts + 1
    /\ sim' \in {starts + 1, 0}
    /\ UNCHANGED <<running, mutex, thread, dying, rpc, waitVars, process,
                   selfEnded>>

(* running_ = true *)
SetRunning ==
    /\ OwnerGoto("running", "launch")
    /\ running' = TRUE
    /\ UNCHANGED <<mutex, sim, thread, starts, dying, rpc, waitVars, process,
                   selfEnded>>

(* spike_thread_ = std::thread(&Impl::run_spike, this); the assignment to  *)
(* a joinable thread object calls std::terminate.                          *)
Launch ==
    /\ OwnerGoto("launch", "started")
    /\ rpc' = [rpc EXCEPT ![starts] = "entry"]
    /\ IF thread # 0
       THEN process' = "terminated" /\ UNCHANGED thread
       ELSE thread' = starts /\ UNCHANGED process
    /\ mutex' = Free
    /\ UNCHANGED <<running, sim, starts, dying, waitVars, selfEnded>>

(* Mutant: start() does not unlock mutex_ when the launch fails. *)
MutantLaunchFails ==
    /\ OwnerGoto("launch", "refused")
    /\ UNCHANGED <<running, mutex, sim, thread, starts, dying, rpc, waitVars,
                   process, selfEnded>>

(* The constructor of std::thread throws: start() returns false. *)
LaunchFails ==
    /\ OwnerGoto("launch", "refused")
    /\ mutex' = Free
    /\ UNCHANGED <<running, sim, thread, starts, dying, rpc, waitVars, process,
                   selfEnded>>

(* stop() is called. *)
CallStop ==
    /\ Alive /\ opc \in Outside
    /\ opc' = "stop"
    /\ UNCHANGED <<running, mutex, sim, thread, starts, dying, rpc, waitVars,
                   process, selfEnded>>

(* The destructor is called, once no other thread is inside the wrapper;   *)
(* it calls stop().                                                        *)
CallDestructor ==
    /\ Alive /\ opc \in Outside /\ \A w \in Waiters : wpc[w] = "idle"
    /\ opc' = "stop"
    /\ dying' = TRUE
    /\ UNCHANGED <<running, mutex, sim, thread, starts, rpc, waitVars, process,
                   selfEnded>>

(* Where stop() returns to. *)
AfterStop == IF dying THEN "members" ELSE "stopped"

(* Mutant: stop() holds mutex_ while it joins the thread. *)
MutantStopLock ==
    /\ Alive /\ opc = "stop" /\ mutex = Free
    /\ opc' = IF running THEN "notify" ELSE AfterStop
    /\ mutex' = IF running THEN Owner ELSE Free
    /\ running' = FALSE
    /\ UNCHANGED <<sim, thread, starts, dying, rpc, waitVars, process, selfEnded>>

(* { lock_guard; if (!running_) return; running_ = false; } *)
StopLock ==
    /\ Alive /\ opc = "stop" /\ mutex = Free
    /\ opc' = IF running THEN "notify" ELSE AfterStop
    /\ running' = FALSE
    /\ UNCHANGED <<mutex, sim, thread, starts, dying, rpc, waitVars, process,
                   selfEnded>>

(* cv_.notify_all() *)
Wake == wpc' = [w \in Waiters |-> IF wpc[w] = "asleep" THEN "woken" ELSE wpc[w]]

(* Mutant: stop() does not join the thread. *)
MutantStopNotify ==
    /\ OwnerGoto("notify", "reset")
    /\ Wake
    /\ UNCHANGED <<running, mutex, sim, thread, starts, dying, rpc, timed, process,
                   selfEnded>>

StopNotify ==
    /\ OwnerGoto("notify", "join")
    /\ Wake
    /\ UNCHANGED <<running, mutex, sim, thread, starts, dying, rpc, timed, process,
                   selfEnded>>

(* Mutant: stop() detaches the thread instead of joining it. *)
MutantJoin ==
    /\ OwnerGoto("join", "reset")
    /\ thread' = 0
    /\ UNCHANGED <<running, mutex, sim, starts, dying, rpc, waitVars, process,
                   selfEnded>>

(* if (spike_thread_.joinable()) spike_thread_.join() *)
Join ==
    /\ OwnerGoto("join", "reset")
    /\ thread # 0 => rpc[thread] = "exit"
    /\ thread' = 0
    /\ UNCHANGED <<running, mutex, sim, starts, dying, rpc, waitVars, process,
                   selfEnded>>

(* sim_.reset() *)
Reset ==
    /\ OwnerGoto("reset", AfterStop)
    /\ sim' = 0
    /\ UNCHANGED <<running, mutex, thread, starts, dying, rpc, waitVars, process,
                   selfEnded>>

(* Mutant: the destructor lets go of a thread that is still joinable. *)
MutantDestroyMembers ==
    /\ Alive /\ opc = "members"
    /\ process' = "destroyed" /\ sim' = 0
    /\ UNCHANGED <<running, mutex, thread, ownerVars, rpc, waitVars, selfEnded>>

(* The destructor of the members: ~thread terminates when it is joinable,  *)
(* otherwise sim_ is deleted.                                              *)
DestroyMembers ==
    /\ Alive /\ opc = "members"
    /\ IF thread # 0
       THEN process' = "terminated" /\ UNCHANGED sim
       ELSE process' = "destroyed" /\ sim' = 0
    /\ UNCHANGED <<running, mutex, thread, ownerVars, rpc, waitVars, selfEnded>>

OwnerStep == \/ StartLock \/ Create \/ SetRunning \/ Launch \/ LaunchFails
             \/ StopLock \/ StopNotify \/ Join \/ Reset \/ DestroyMembers

-----------------------------------------------------------------------------
(* The run_spike thread of start r *)

RunGoto(r, from, to) == Alive /\ rpc[r] = from /\ rpc' = [rpc EXCEPT ![r] = to]

(* if (sim_) *)
RunEntry(r) ==
    /\ RunGoto(r, "entry", IF sim # 0 THEN "boot" ELSE "finish")
    /\ selfEnded' = (selfEnded \/ sim = 0)
    /\ UNCHANGED <<running, mutex, sim, thread, ownerVars, waitVars, process>>

(* sim_->start() loads the program, *)
RunBoot(r) ==
    /\ RunGoto(r, "boot", "test")
    /\ UNCHANGED <<running, mutex, sim, thread, ownerVars, waitVars, process,
                   selfEnded>>

(* or throws, which run_spike catches. *)
RunBootFails(r) ==
    /\ RunGoto(r, "boot", "finish")
    /\ selfEnded' = TRUE
    /\ UNCHANGED <<running, mutex, sim, thread, ownerVars, waitVars, process>>

(* while (running_ && ... *)
RunTest(r) ==
    /\ RunGoto(r, "test", IF running THEN "done" ELSE "finish")
    /\ UNCHANGED <<running, mutex, sim, thread, ownerVars, waitVars, process,
                   selfEnded>>

(* ... !sim_->done()): the simulation goes on, *)
RunNotDone(r) ==
    /\ RunGoto(r, "done", "step")
    /\ UNCHANGED <<running, mutex, sim, thread, ownerVars, waitVars, process,
                   selfEnded>>

(* or has ended by itself. *)
RunDone(r) ==
    /\ RunGoto(r, "done", "finish")
    /\ selfEnded' = TRUE
    /\ UNCHANGED <<running, mutex, sim, thread, ownerVars, waitVars, process>>

(* proc->step(100), whose exceptions are caught, and the sleep *)
RunStep(r) ==
    /\ RunGoto(r, "step", "test")
    /\ UNCHANGED <<running, mutex, sim, thread, ownerVars, waitVars, process,
                   selfEnded>>

(* Mutant: run_spike clears running_ without locking mutex_. *)
MutantRunFinish(r) ==
    /\ RunGoto(r, "finish", "notify")
    /\ running' = FALSE
    /\ UNCHANGED <<mutex, sim, thread, ownerVars, waitVars, process, selfEnded>>

(* { lock_guard; running_ = false; } *)
RunFinish(r) ==
    /\ RunGoto(r, "finish", "notify")
    /\ mutex = Free
    /\ running' = FALSE
    /\ UNCHANGED <<mutex, sim, thread, ownerVars, waitVars, process, selfEnded>>

(* Mutant: run_spike does not notify. *)
MutantRunNotify(r) ==
    /\ RunGoto(r, "notify", "exit")
    /\ UNCHANGED <<running, mutex, sim, thread, ownerVars, waitVars, process,
                   selfEnded>>

(* cv_.notify_all() *)
RunNotify(r) ==
    /\ RunGoto(r, "notify", "exit")
    /\ Wake
    /\ UNCHANGED <<running, mutex, sim, thread, ownerVars, timed, process,
                   selfEnded>>

RunSpike(r) ==
    \/ RunEntry(r) \/ RunBoot(r) \/ RunBootFails(r)
    \/ RunTest(r) \/ RunNotDone(r) \/ RunDone(r) \/ RunStep(r)
    \/ RunFinish(r) \/ RunNotify(r)

-----------------------------------------------------------------------------
(* The waiters.  cv_.wait tests its predicate under mutex_ before it sleeps *)
(* and after it wakes.                                                      *)

WaitGoto(w, from, to) == Alive /\ wpc[w] = from /\ wpc' = [wpc EXCEPT ![w] = to]

(* wait(timeout_ms) is called; 0 is no timeout. *)
CallWait(w, t) ==
    /\ WaitGoto(w, "idle", "lock") /\ ~dying
    /\ timed' = [timed EXCEPT ![w] = t]
    /\ UNCHANGED <<running, mutex, sim, thread, ownerVars, rpc, process, selfEnded>>

(* unique_lock, or the lock that cv_.wait takes again *)
WaitLock(w) ==
    /\ \/ WaitGoto(w, "lock", "check")
       \/ WaitGoto(w, "woken", "check")
       \/ WaitGoto(w, "expired", "lastcheck")
    /\ mutex = Free
    /\ mutex' = w
    /\ UNCHANGED <<running, sim, thread, ownerVars, rpc, timed, process, selfEnded>>

(* !running_: wait() returns true *)
WaitTrue(w) ==
    /\ ~running
    /\ WaitGoto(w, "check", "waited") \/ WaitGoto(w, "lastcheck", "waited")
    /\ mutex' = Free
    /\ UNCHANGED <<running, sim, thread, ownerVars, rpc, timed, process, selfEnded>>

(* running_: wait() is about to sleep, *)
WaitTest(w) ==
    /\ WaitGoto(w, "check", "tested")
    /\ running
    /\ UNCHANGED <<running, mutex, sim, thread, ownerVars, rpc, timed, process,
                   selfEnded>>

(* unlocks and sleeps in one step, *)
WaitSleep(w) ==
    /\ WaitGoto(w, "tested", "asleep")
    /\ mutex' = Free
    /\ UNCHANGED <<running, sim, thread, ownerVars, rpc, timed, process, selfEnded>>

(* or returns false because the time is up. *)
WaitFalse(w) ==
    /\ WaitGoto(w, "lastcheck", "idle")
    /\ running
    /\ mutex' = Free
    /\ UNCHANGED <<running, sim, thread, ownerVars, rpc, timed, process, selfEnded>>

(* The waiter wakes up spuriously, or its time is up. *)
WaitWakes(w) ==
    /\ \/ WaitGoto(w, "asleep", "woken")
       \/ WaitGoto(w, "asleep", "expired") /\ timed[w]
    /\ UNCHANGED <<running, mutex, sim, thread, ownerVars, rpc, timed, process,
                   selfEnded>>

WaitReturn(w) ==
    /\ WaitGoto(w, "waited", "idle")
    /\ UNCHANGED <<running, mutex, sim, thread, ownerVars, rpc, timed, process,
                   selfEnded>>

Waiting(w) == \/ WaitLock(w) \/ WaitTrue(w) \/ WaitTest(w) \/ WaitSleep(w)
              \/ WaitFalse(w) \/ WaitReturn(w)

Next ==
    \/ CallStart \/ CallStop \/ CallDestructor \/ OwnerStep
    \/ \E r \in Runs : RunSpike(r)
    \/ \E w \in Waiters, t \in BOOLEAN : CallWait(w, t)
    \/ \E w \in Waiters : Waiting(w) \/ WaitWakes(w)

Spec == Init /\ [][Next]_vars

(* Threads inside the wrapper keep running, and one that waits for mutex_  *)
(* gets it when it is free again and again (hence strong fairness); a step *)
(* of the simulation and the loading of the program come to an end.        *)
(* Nobody has to call stop(), the simulation need not end, and a sleeping  *)
(* waiter need not wake up by itself.                                      *)
FairSpec ==
    /\ Spec
    /\ SF_vars(OwnerStep)
    /\ \A r \in Runs : SF_vars(RunSpike(r))
    /\ \A w \in Waiters : SF_vars(Waiting(w))

-----------------------------------------------------------------------------
(* Type invariant: mutex_ is held by start() and by a wait that tests its  *)
(* predicate, and by nobody else between two steps.                        *)
TypeOK ==
    /\ running \in BOOLEAN /\ dying \in BOOLEAN /\ selfEnded \in BOOLEAN
    /\ mutex \in Waiters \cup {Owner, Free}
    /\ mutex = Owner <=> opc \in Starting
    /\ \A w \in Waiters : mutex = w <=> wpc[w] \in Checking
    /\ starts \in 0 .. MaxStarts
    /\ sim \in 0 .. starts /\ thread \in 0 .. starts
    /\ opc \in OwnerPC
    /\ opc \in {"start", "create"} => starts < MaxStarts
    /\ opc \in {"running", "launch"} => starts \in Runs
    /\ rpc \in [Runs -> RunPC]
    /\ wpc \in [Waiters -> WaitPC] /\ timed \in [Waiters -> BOOLEAN]
    /\ process \in {"alive", "terminated", "destroyed"}

(* No use after free: while a run_spike thread loads, tests or steps the   *)
(* simulation, sim_ is the instance that was created for it and            *)
(* spike_thread_ is that thread, through any sequence of starts, stops and *)
(* runs that end by themselves.  So no two threads step one simulation.    *)
ExclusiveUse ==
    \A r \in Runs : rpc[r] \in Using => sim = r /\ thread = r

(* No lost wakeup: when a waiter sleeps although running_ is false, a      *)
(* notify_all is still to come, from stop() or from run_spike.             *)
NoLostWakeup ==
    \A w \in Waiters : wpc[w] = "asleep" /\ ~running
        => opc = "notify" \/ \E r \in Runs : rpc[r] = "notify"

(* The process is terminated only after a run that ended by itself: a      *)
(* wrapper whose runs all last until stop() can be restarted and destroyed *)
(* safely.                                                                 *)
TerminatesOnlyAfterSelfEnd == process = "terminated" => selfEnded

(* No run_spike thread, which uses mutex_ and cv_, outlives the wrapper.   *)
NoThreadOutlives ==
    process = "destroyed" => \A r \in Runs : rpc[r] \in {"none", "exit"}

(* stop() returns: the join ends, whatever run_spike is doing. *)
StopReturns == opc = "stop" ~> (opc \notin InStop \/ process = "terminated")

(* A waiter that sleeps when the run ends leaves wait(), unless the wrapper *)
(* is started again.                                                        *)
WaitReturns ==
    \A w \in Waiters : wpc[w] = "asleep" /\ ~running
        ~> wpc[w] = "idle" \/ running \/ process # "alive"

-----------------------------------------------------------------------------
(* The inductive invariant behind the safety properties.  Its parts speak  *)
(* of a process that is alive: std::terminate may strike in the middle.    *)

Fresh == {"entry"} \cup Using     \* has not left its loop

(* A run exists only after its start() has launched it. *)
LaunchedInv ==
    /\ \A r \in Runs : rpc[r] # "none" => r <= starts
    /\ opc \in {"running", "launch"} => rpc[starts] = "none"

(* A thread that has not exited is spike_thread_, so there is at most one. *)
ThreadInv ==
    /\ process \in {"alive", "destroyed"} =>
          \A r \in Runs : rpc[r] \notin {"none", "exit"} => thread = r
    /\ opc = "reset" \/ process = "destroyed" => thread = 0

(* A fresh run finds its own instance or none, and while there is one,     *)
(* either running_ is true or stop() is on its way to join it; start()     *)
(* past its test and stop() past its join meet no fresh run.               *)
FreshInv ==
    Alive =>
      /\ \A r \in Runs : rpc[r] \in Fresh =>
            /\ sim \in {0, r}
            /\ running \/ opc \in {"notify", "join"}
            /\ opc \notin Starting \cup {"reset", "members"}
      /\ opc \in {"running", "launch"} => sim \in {0, starts}

(* running_ as start() and wait() have found or set it, under mutex_. *)
RunningInv ==
    /\ opc \in {"create", "running"} => ~running
    /\ opc = "launch" => running
    /\ \A w \in Waiters : wpc[w] = "tested" => running

(* A thread object that nobody is about to join belongs to a fresh run,    *)
(* unless some run has ended by itself.                                    *)
JoinInv ==
    Alive /\ thread # 0 /\ ~selfEnded =>
        rpc[thread] \in Fresh \/ opc \in {"notify", "join"}

IInv == /\ TypeOK /\ LaunchedInv /\ ThreadInv /\ FreshInv /\ RunningInv /\ JoinInv
        /\ ExclusiveUse /\ NoLostWakeup /\ TerminatesOnlyAfterSelfEnd
=============================================================================
