------------------------------ MODULE Shutdown ------------------------------
(***************************************************************************)
(* How the server gets its clients and how it ends: the acceptor thread    *)
(* (acceptNewClients), the main thread, and shutdownServer, which runs on  *)
(* the main thread when the duration is over and on the handler thread of  *)
(* a client that sent "KILL".                                              *)
(*                                                                         *)
(* shutdownServer stops the acceptor by connecting to the server's own     *)
(* port and sending it m_shutdownID.  The acceptor holds m_runMtx from its *)
(* first step to its last and does one handshake at a time, with blocking  *)
(* reads: it greets the connection, reads the size of an id and the id,    *)
(* registers the client and sends the id back.                             *)
(*                                                                         *)
(* Of a client's two threads this module keeps what shutdownServer waits   *)
(* for: the receiver returns when the client has left.  What they do for   *)
(* the client is Dispatch.                                                 *)
(*                                                                         *)
(* An operator that stands before its correct form and is used nowhere is  *)
(* a mutant of it, a bug that one of the properties at the end catches.    *)
(***************************************************************************)
EXTENDS Naturals, Sequences

CONSTANTS
    Clients,    \* programs that may connect
    Mute,       \* those of them that may never send their id
    Main,       \* the main thread
    Self,       \* a connection made by shutdownServer
    None        \* no connection

ASSUME ShutdownAssumption ==
    /\ Mute \subseteq Clients
    /\ Main \notin Clients /\ Self \notin Clients /\ None \notin Clients
    /\ Self # None

\* Who may call shutdownServer: main, or the handler thread of a client.
Callers == Clients \cup {Main}

VARIABLES
    alive,      \* the process has not been terminated
    running,    \* m_running
    listening,  \* m_socketD has not been closed
    backlog,    \* connections not accepted yet, oldest first
    acceptor,   \* acceptNewClients: "poll", "header", "welcome", "stopped"
    current,    \* the connection it accepted, newSocketD
    client,     \* client[c]: where program c is
    said,       \* the clients that have sent their id
    registered, \* the keys of m_clients
    timedOut,   \* the duration main was given is over
    main,       \* main: "wait", "saved"
    stage,      \* stage[t]: where thread t is in shutdownServer
    joined,     \* joined[t]: the clients t is done with in its closing loop
    shutdownV   \* m_shutdownV

vars == <<alive, running, listening, backlog, acceptor, current, client, said,
          registered, timedOut, main, stage, joined, shutdownV>>

\* After start().
Init ==
    /\ alive = TRUE
    /\ running = TRUE
    /\ listening = TRUE
    /\ backlog = <<>>
    /\ acceptor = "poll"
    /\ current = None
    /\ client = [c \in Clients |-> "away"]
    /\ said = {}
    /\ registered = {}
    /\ timedOut = FALSE
    /\ main = "wait"
    /\ stage = [t \in Callers |-> "out"]
    /\ joined = [t \in Callers |-> {}]
    /\ shutdownV = FALSE

\* The acceptor's lock_guard on m_runMtx covers its whole loop.
RunMtxFree == acceptor = "stopped"

-----------------------------------------------------------------------------
(* ServerPersistencePolicy, as a program that connects *)

Connect(c) ==
    /\ alive /\ listening
    /\ client[c] = "away"
    /\ client' = [client EXCEPT ![c] = "connecting"]
    /\ backlog' = Append(backlog, c)
    /\ UNCHANGED <<alive, running, listening, acceptor, current, said,
                   registered, timedOut, main, stage, joined, shutdownV>>

\* It sends its id after it has read the list of meta managers.
Answer(c) ==
    /\ alive
    /\ client[c] = "greeted"
    /\ client' = [client EXCEPT ![c] = "answered"]
    /\ said' = said \cup {c}
    /\ UNCHANGED <<alive, running, listening, backlog, acceptor, current,
                   registered, timedOut, main, stage, joined, shutdownV>>

\* Its destructor, or the end of the program.
Leave(c) ==
    /\ alive
    /\ client[c] \notin {"away", "left"}
    /\ client' = [client EXCEPT ![c] = "left"]
    /\ UNCHANGED <<alive, running, listening, backlog, acceptor, current,
                   said, registered, timedOut, main, stage, joined, shutdownV>>

-----------------------------------------------------------------------------
(* acceptNewClients *)

\* The other side has closed the connection.
Gone(conn) == conn \in {Self} \cup {c \in Clients : client[c] = "left"}

\* accept, and the list of meta managers is sent; a send to one that is gone
\* may raise SIGPIPE.
Accept ==
    /\ alive /\ listening
    /\ acceptor = "poll"
    /\ backlog # <<>>
    /\ LET conn == Head(backlog) IN
       /\ current' = conn
       /\ backlog' = Tail(backlog)
       /\ client' = [c \in Clients |->
                        IF c = conn /\ client[c] = "connecting"
                           THEN "greeted" ELSE client[c]]
       /\ alive' \in IF Gone(conn) THEN BOOLEAN ELSE {TRUE}
    /\ acceptor' = "header"
    /\ UNCHANGED <<running, listening, said, registered, timedOut, main,
                   stage, joined, shutdownV>>

\* poll reports the closed descriptor, accept fails and m_running is true.
AcceptFails ==
    /\ alive /\ ~listening
    /\ acceptor = "poll"
    /\ running
    /\ alive' = FALSE
    /\ UNCHANGED <<running, listening, backlog, acceptor, current, client,
                   said, registered, timedOut, main, stage, joined, shutdownV>>

SizeWritten(conn) == 28

\* The size that the first eight bytes on a connection are read as.  A client
\* uses send_message; shutdownServer sends the characters of the id alone.
SizeRead(conn) == IF conn = Self THEN 0 ELSE 28

DataReadable(conn) == conn \in said \cup {Self}

\* Something to read from the connection, or its end.
Readable(conn) == conn \in said \/ Gone(conn)

AcceptAnyId ==
    /\ alive
    /\ acceptor = "header"
    /\ Readable(current)
    /\ registered' = registered \cup {current}
    /\ acceptor' = "welcome"
    /\ UNCHANGED <<alive, running, listening, backlog, current, client, said,
                   timedOut, main, stage, joined, shutdownV>>

\* size and id are read; any failure is an exception nobody catches.
ReadId ==
    /\ alive
    /\ acceptor = "header"
    /\ Readable(current)
    /\ IF SizeRead(current) # 28 \/ current \notin said \cup {Self}
          THEN /\ alive' = FALSE
               /\ UNCHANGED <<running, acceptor, registered>>
          ELSE IF current = Self
          THEN /\ running' = FALSE
               /\ acceptor' = "stopped"
               /\ UNCHANGED <<alive, registered>>
          ELSE /\ registered' = registered \cup {current}
               /\ acceptor' = "welcome"
               /\ UNCHANGED <<alive, running>>
    /\ UNCHANGED <<listening, backlog, current, client, said, timedOut, main,
                   stage, joined, shutdownV>>

\* The threads of the client run; its id is sent back.
Welcome ==
    /\ alive
    /\ acceptor = "welcome"
    /\ client' = [client EXCEPT ![current] =
                     IF @ = "answered" THEN "ready" ELSE @]
    /\ alive' \in IF Gone(current) THEN BOOLEAN ELSE {TRUE}
    /\ acceptor' = "poll"
    /\ current' = None
    /\ UNCHANGED <<running, listening, backlog, said, registered, timedOut,
                   main, stage, joined, shutdownV>>

-----------------------------------------------------------------------------
(* main and "KILL" *)

DurationOver ==
    /\ alive /\ ~timedOut
    /\ timedOut' = TRUE
    /\ UNCHANGED <<alive, running, listening, backlog, acceptor, current,
                   client, said, registered, main, stage, joined, shutdownV>>

WokenAtAll == TRUE

\* The predicate, or the timeout, of the wait in waitTillShutDown.
WaitIsOver == timedOut \/ shutdownV

\* waitTillShutDown returns, the project is saved, shutdownServer is called;
\* if save throws, main catches it and exits.
MainSaves ==
    /\ alive
    /\ main = "wait"
    /\ WaitIsOver
    /\ main' = "saved"
    /\ alive' \in BOOLEAN
    /\ stage' = [stage EXCEPT ![Main] = "connect"]
    /\ UNCHANGED <<running, listening, backlog, acceptor, current, client,
                   said, registered, timedOut, joined, shutdownV>>

\* handleMessage calls shutdownServer and keeps m_messageHandlerMtx, so that
\* no second "KILL" is handled.
Kill(c) ==
    /\ alive
    /\ client[c] = "ready"
    /\ \A d \in Clients : stage[d] = "out"
    /\ stage' = [stage EXCEPT ![c] = "connect"]
    /\ UNCHANGED <<alive, running, listening, backlog, acceptor, current,
                   client, said, registered, timedOut, main, joined, shutdownV>>

-----------------------------------------------------------------------------
(* shutdownServer, on thread t *)

ConnectToNobody == UNCHANGED backlog

ConnectToSelf == backlog' = Append(backlog, Self)

\* connect to the own port, send the id, close.
SendTerminate(t) ==
    /\ alive /\ listening
    /\ stage[t] = "connect"
    /\ ConnectToSelf
    /\ stage' = [stage EXCEPT ![t] = "waitRun"]
    /\ UNCHANGED <<alive, running, listening, acceptor, current, client, said,
                   registered, timedOut, main, joined, shutdownV>>

\* No address, no descriptor or no connection: nobody waits for the acceptor.
ConnectFails(t) ==
    /\ alive
    /\ stage[t] = "connect"
    /\ stage' = [stage EXCEPT ![t] = "failed"]
    /\ UNCHANGED <<alive, running, listening, backlog, acceptor, current,
                   client, said, registered, timedOut, main, joined, shutdownV>>

\* m_runMtx, m_runCv and the join of the acceptor are behind this thread.
AcceptorJoined(t) == stage[t] = "waitRun" /\ RunMtxFree /\ ~running

CloseSocket(t) ==
    /\ alive
    /\ stage[t] = "failed" \/ AcceptorJoined(t)
    /\ listening' = FALSE
    /\ stage' = [stage EXCEPT ![t] = "closing"]
    /\ UNCHANGED <<alive, running, backlog, acceptor, current, client, said,
                   registered, timedOut, main, joined, shutdownV>>

\* Another call of shutdownServer has joined and deleted the receiver of c.
Deleted(t, c) == \E u \in Callers \ {t} : c \in joined[u]

\* closeClientConnections: the receiver of c is joined, "" is pushed and the
\* handler notified, both without handlerMtx, and the handler is joined; a
\* thread that joins itself gets an exception.
CloseClient(t, c) ==
    /\ alive
    /\ stage[t] = "closing"
    /\ c \in registered \ joined[t]
    /\ client[c] = "left"
    /\ joined' = [joined EXCEPT ![t] = @ \cup {c}]
    /\ alive' = ~(t = c \/ Deleted(t, c))
    /\ UNCHANGED <<running, listening, backlog, acceptor, current, client,
                   said, registered, timedOut, main, stage, shutdownV>>

\* Neither join needs ever return: the receiver may spin (Dispatch), and a
\* notify between the handler's test and its wait is lost.
JoinHangs(t, c) ==
    /\ alive
    /\ stage[t] = "closing"
    /\ c \in registered \ joined[t]
    /\ client[c] = "left"
    /\ stage' = [stage EXCEPT ![t] = "stuck"]
    /\ UNCHANGED <<alive, running, listening, backlog, acceptor, current,
                   client, said, registered, timedOut, main, joined, shutdownV>>

\* delete m_acceptThread: std::terminate if it has not been joined.  Then the
\* collector and the zombie killer are joined and waitTillShutDown is told.
Finish(t) ==
    /\ alive
    /\ stage[t] = "closing"
    /\ registered = joined[t]
    /\ IF acceptor = "stopped"
          THEN /\ shutdownV' = TRUE
               /\ stage' = [stage EXCEPT ![t] = "done"]
               /\ UNCHANGED alive
          ELSE /\ alive' = FALSE
               /\ UNCHANGED <<shutdownV, stage>>
    /\ UNCHANGED <<running, listening, backlog, acceptor, current, client,
                   said, registered, timedOut, main, joined>>

-----------------------------------------------------------------------------
Acceptor == Accept \/ AcceptFails \/ ReadId \/ Welcome

ShutdownServer(t) ==
    \/ SendTerminate(t) \/ ConnectFails(t) \/ CloseSocket(t)
    \/ \E c \in Clients : CloseClient(t, c) \/ JoinHangs(t, c)
    \/ Finish(t)

Next ==
    \/ \E c \in Clients : Connect(c) \/ Answer(c) \/ Leave(c) \/ Kill(c)
    \/ Acceptor
    \/ DurationOver \/ MainSaves
    \/ \E t \in Callers : ShutdownServer(t)

Spec == Init /\ [][Next]_vars

\* The threads of the server are scheduled; a client that is not mute
\* answers the greeting or leaves.
FairSpec ==
    /\ Spec
    /\ WF_vars(Acceptor)
    /\ WF_vars(MainSaves)
    /\ \A t \in Callers : WF_vars(ShutdownServer(t))
    /\ \A c \in Clients \ Mute : WF_vars(Answer(c))

-----------------------------------------------------------------------------
(* Properties *)

TypeOK ==
    /\ alive \in BOOLEAN
    /\ running \in BOOLEAN
    /\ listening \in BOOLEAN
    /\ backlog \in Seq(Clients \cup {Self})
    /\ acceptor \in {"poll", "header", "welcome", "stopped"}
    /\ current \in Clients \cup {Self, None}
    /\ client \in [Clients -> {"away", "connecting", "greeted", "answered",
                               "ready", "left"}]
    /\ said \in SUBSET Clients
    /\ registered \in SUBSET Clients
    /\ timedOut \in BOOLEAN
    /\ main \in {"wait", "saved"}
    /\ stage \in [Callers -> {"out", "connect", "waitRun", "failed",
                              "closing", "stuck", "done"}]
    /\ joined \in [Callers -> SUBSET Clients]
    /\ shutdownV \in BOOLEAN

\* As long as the process lives m_running is true: the loops of receivers,
\* handlers, collector and zombie killer are endless (Dispatch and
\* ReleaseQueue rely on it), whatever shutdownServer does.
RunsForever == alive => running

\* main saves the project only because its duration is over: a "KILL" that
\* was answered with success never lets main get to its save.
SaveOnlyOnTimeout == main = "saved" => timedOut

\* A client that has its id back is registered, and a registered client has
\* given its id: no request can meet a missing ClientInfo.
ReadyIsRegistered ==
    /\ registered \subseteq said
    /\ \A c \in Clients : client[c] = "ready" => c \in registered

\* The acceptor is in a read that only a mute client could end.
HeldUp ==
    acceptor = "header" /\ current \in Mute /\ client[current] = "greeted"

\* A call of shutdownServer brings the process down, one way or another,
\* unless a mute client holds the acceptor up.
ShutdownEnds ==
    \A t \in Callers : stage[t] # "out" ~> ~alive \/ HeldUp

\* A client that connects gets through the handshake, with the same proviso.
HandshakeEnds ==
    \A c \in Clients :
       client[c] = "connecting" ~>
          client[c] \in {"ready", "left"} \/ ~alive \/ HeldUp

\* umlServer.cpp, in shutdownServer: "wait for thread to stop".
AcceptorStops ==
    \A t \in Callers : stage[t] = "waitRun" ~> acceptor = "stopped"
=============================================================================
