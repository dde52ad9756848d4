----------------------------- MODULE HartMemory -----------------------------
(***************************************************************************)
(* What a hart may rely on when it goes to memory through simif_t: one     *)
(* access at a time, performed once between the call and its return, a     *)
(* store changing exactly the bytes it names and a load delivering the     *)
(* bytes stored last.                                                      *)
(***************************************************************************)
EXTENDS Integers, Sequences

CONSTANTS Addr, Accesses, NoAccess

VARIABLES mem,     \* the bytes of memory
          req,     \* the access the hart waits for, or NoAccess
          done,    \* it has been performed
          bytes    \* the buffer the hart's last load filled

vars == <<mem, req, done, bytes>>

Init ==
    /\ mem \in [Addr -> Nat]
    /\ req = NoAccess /\ done = FALSE
    /\ bytes = <<>>

Request ==
    /\ req = NoAccess
    /\ req' \in Accesses
    /\ UNCHANGED <<mem, done, bytes>>

Perform ==
    /\ req # NoAccess /\ ~done
    /\ done' = TRUE
    /\ IF req.cmd = "write"
       THEN /\ mem' = [a \in Addr |-> IF a \in req.addr .. req.addr + req.len - 1
                                      THEN req.data[a - req.addr + 1] ELSE mem[a]]
            /\ bytes' = bytes
       ELSE /\ bytes' = [i \in 1 .. req.len |-> mem[req.addr + i - 1]]
            /\ mem' = mem
    /\ UNCHANGED req

Respond ==
    /\ done
    /\ done' = FALSE /\ req' = NoAccess
    /\ UNCHANGED <<mem, bytes>>

Next == Request \/ Perform \/ Respond

Spec == Init /\ [][Next]_vars
=============================================================================
