--------------------------- MODULE CommandService ---------------------------
(***************************************************************************)
(* What the mailbox promises its callers.  A call is pending until it is   *)
(* done.  The service accepts one call at a time; the firmware runs the    *)
(* accepted call at least once before the caller gets its answer, and runs *)
(* nothing else.  A call may fail at any time, and the service may still   *)
(* run it after that, until it accepts another one.                        *)
(***************************************************************************)
CONSTANTS
    Hosts, Free,     \* the threads that call, and none
    Calls, NoCall,   \* the calls they may make, and none
    FAILED,          \* the result of a call that got no answer
    Handle(_, _)     \* what the firmware answers to a command and its parameters

VARIABLES
    client,     \* "idle", "pending" or "done", for each host thread
    call,       \* its arguments
    result,     \* its result, once it is done
    owner,      \* the thread whose call is being served, or Free
    accepted,   \* the last call that was accepted
    ran         \* has the firmware run it?

vars == <<client, call, result, owner, accepted, ran>>

Init ==
    /\ client = [h \in Hosts |-> "idle"]
    /\ call = [h \in Hosts |-> NoCall]
    /\ result = [h \in Hosts |-> FAILED]
    /\ owner = Free /\ accepted = NoCall /\ ran = FALSE

Invoke(h, c) ==
    /\ client[h] = "idle"
    /\ client' = [client EXCEPT ![h] = "pending"]
    /\ call' = [call EXCEPT ![h] = c]
    /\ UNCHANGED <<result, owner, accepted, ran>>

Accept(h) ==
    /\ client[h] = "pending" /\ owner = Free
    /\ owner' = h /\ accepted' = call[h] /\ ran' = FALSE
    /\ UNCHANGED <<client, call, result>>

Run ==
    /\ accepted # NoCall
    /\ ran' = TRUE
    /\ UNCHANGED <<client, call, result, owner, accepted>>

Answer(h) ==
    /\ owner = h /\ ran
    /\ client' = [client EXCEPT ![h] = "done"]
    /\ result' = [result EXCEPT ![h] = Handle(accepted.cmd, accepted.data)]
    /\ owner' = Free
    /\ UNCHANGED <<call, accepted, ran>>

Fail(h) ==
    /\ client[h] = "pending"
    /\ client' = [client EXCEPT ![h] = "done"]
    /\ result' = [result EXCEPT ![h] = FAILED]
    /\ owner' = IF owner = h THEN Free ELSE owner
    /\ UNCHANGED <<call, accepted, ran>>

Return(h) ==
    /\ client[h] = "done"
    /\ client' = [client EXCEPT ![h] = "idle"]
    /\ UNCHANGED <<call, result, owner, accepted, ran>>

Next ==
    \/ \E h \in Hosts, c \in Calls : Invoke(h, c)
    \/ \E h \in Hosts : Accept(h) \/ Answer(h) \/ Fail(h) \/ Return(h)
    \/ Run

Spec == Init /\ [][Next]_vars
=============================================================================
