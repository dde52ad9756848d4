---------------------------- MODULE MCCsrServer ----------------------------
(***************************************************************************)
(* Two instances of CsrServer, of which a behaviour runs one: a single     *)
(* client that sends every kind of request, and two clients that compete   *)
(* for the server with a mail and QUIT.                                    *)
(***************************************************************************)
EXTENDS CsrServer

CONSTANTS c1, c2

VARIABLE scene    \* "alone" or "together"

MCClients == {c1, c2}

Mail(m) == [cmd |-> "mail", mail |-> m]

(* Two mails that differ in every word. *)
Mails == {Mail(<<1, 2, 3, 4>>), Mail(<<5, 6, 7, 8>>)}

(* With them, a client that raises MAIL_VALID by itself, a query, a signal *)
(* whose wg_index is too large for its field, a read, and the rest.        *)
AllRequests ==
    Mails \cup {[cmd |-> "write", csr |-> "valid", value |-> 3],
                [cmd |-> "read", csr |-> "data0"],
                [cmd |-> "signal", csr |-> "bo_done", wg |-> 37, bar |-> 3],
                [cmd |-> "query", wg |-> 3, bar |-> 5],
                [cmd |-> "quit"], Bad}

(* One mail, and what else changes the course of the server. *)
FewRequests == {Mail(<<1, 2, 3, 4>>), [cmd |-> "quit"]}

mcVars == <<vars, scene>>

MCInit == Init /\ scene \in {"alone", "together"}

(* Which requests are on their way; Bad also stands for none. *)
InScene ==
    IF scene = "alone" THEN cpc[c2] = "idle"
    ELSE \A c \in Clients : cpc[c] = "waiting" => request[c] \in FewRequests

MCNext == Next /\ UNCHANGED scene /\ InScene'

MCSpec == MCInit /\ [][MCNext]_mcVars /\ Fairness
=============================================================================
