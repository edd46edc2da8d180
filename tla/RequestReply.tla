---------------------------- MODULE RequestReply ----------------------------
(***************************************************************************)
(* What the server promises to its clients, without threads, queues or     *)
(* locks: the messages of one client are served in the order the client    *)
(* wrote them, each exactly once, and serving one message is a single      *)
(* indivisible step on the state all clients share.  A "KILL" is the last  *)
(* request that is ever served.  The process may die at any moment, and a  *)
(* network reset may take away messages that nobody has read yet.          *)
(*                                                                         *)
(* Dispatch implements this specification.                                 *)
(***************************************************************************)
EXTENDS Naturals, Sequences

CONSTANTS
    Clients,    \* identities of the connected clients
    Messages    \* what a client can write: records [n, kind]

VARIABLES
    alive,      \* the server process has not been terminated
    pending,    \* pending[c]: messages of c that are not served yet
    executed    \* <<client, message>> in the order they took effect

vars == <<alive, pending, executed>>

Init ==
    /\ alive = TRUE
    /\ pending = [c \in Clients |-> <<>>]
    /\ executed = <<>>

\* A request that has been served was the command to shut down.
Stopping == \E i \in 1 .. Len(executed) : executed[i][2].kind = "kill"

\* A message of c is on its way to the server.
Offer(c) ==
    /\ alive
    /\ \E m \in Messages : pending' = [pending EXCEPT ![c] = Append(@, m)]
    /\ UNCHANGED <<alive, executed>>

\* The connection of c is reset: a suffix of its messages is gone.
Discard(c) ==
    /\ alive
    /\ \E k \in 0 .. Len(pending[c]) :
          pending' = [pending EXCEPT ![c] = SubSeq(@, 1, k)]
    /\ UNCHANGED <<alive, executed>>

\* The oldest message of c takes effect; an empty message has none.
Serve(c) ==
    /\ alive
    /\ pending[c] # <<>>
    /\ pending' = [pending EXCEPT ![c] = Tail(@)]
    /\ IF Head(pending[c]).kind = "empty"
          THEN UNCHANGED executed
          ELSE /\ ~Stopping
               /\ executed' = Append(executed, <<c, Head(pending[c])>>)
    /\ UNCHANGED alive

Die ==
    /\ alive
    /\ alive' = FALSE
    /\ UNCHANGED <<pending, executed>>

Next ==
    \/ \E c \in Clients : Offer(c) \/ Discard(c) \/ Serve(c)
    \/ Die

Spec == Init /\ [][Next]_vars
=============================================================================
