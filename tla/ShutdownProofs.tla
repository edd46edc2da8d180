--------------------------- MODULE ShutdownProofs ---------------------------
(***************************************************************************)
(* Shutdown, for every number of clients and whoever of them is mute.      *)
(***************************************************************************)
EXTENDS Shutdown, SequenceTheorems, TLAPS

\* The acceptor has not left its loop.  It would on m_shutdownID, but the
\* bytes of the terminate message are read as the size of an id first.
Accepting ==
    /\ running
    /\ acceptor # "stopped"
    /\ ~shutdownV

\* Where a handshake is, and what has been established by then.
Handshake ==
    /\ acceptor = "header" => current \in Clients \cup {Self}
    /\ acceptor = "welcome" => current \in registered
    /\ \A c \in Clients : client[c] = "answered" => c \in said

Inv ==
    TypeOK /\ Accepting /\ Handshake /\ ReadyIsRegistered /\ SaveOnlyOnTimeout

LEMMA InitInv == Init => Inv
<1> SUFFICES ASSUME Init PROVE Inv
    OBVIOUS
<1>1. backlog \in Seq(Clients \cup {Self})
      BY EmptySeq DEF Init
<1> QED BY <1>1 DEF Init, Inv, TypeOK, Accepting, Handshake,
                    ReadyIsRegistered, SaveOnlyOnTimeout

\* The programs that connect.
LEMMA ProgramStep ==
    ASSUME Inv, NEW c \in Clients, Connect(c) \/ Answer(c) \/ Leave(c)
    PROVE  Inv'
<1>1. CASE Connect(c)
      <2> USE <1>1 DEF Connect
      <2>1. backlog' \in Seq(Clients \cup {Self})
            BY AppendProperties DEF Inv, TypeOK
      <2>2. TypeOK'
            BY <2>1 DEF Inv, TypeOK
      <2> QED BY <2>2 DEF Inv, TypeOK, Accepting, Handshake,
                          ReadyIsRegistered, SaveOnlyOnTimeout
<1>2. CASE Answer(c)
      BY <1>2 DEF Answer, Inv, TypeOK, Accepting, Handshake,
                  ReadyIsRegistered, SaveOnlyOnTimeout
<1>3. CASE Leave(c)
      BY <1>3 DEF Leave, Inv, TypeOK, Accepting, Handshake,
                  ReadyIsRegistered, SaveOnlyOnTimeout
<1> QED BY <1>1, <1>2, <1>3

LEMMA AcceptStep ==
    ASSUME Inv, Accept
    PROVE  Inv'
<1> USE DEF Accept
<1>1. /\ Head(backlog) \in Clients \cup {Self}
      /\ Tail(backlog) \in Seq(Clients \cup {Self})
      BY HeadTailProperties DEF Inv, TypeOK
<1>2. TypeOK'
      BY <1>1 DEF Inv, TypeOK
<1>3. Accepting' /\ SaveOnlyOnTimeout'
      BY DEF Inv, Accepting, SaveOnlyOnTimeout
<1>4. Handshake'
      BY <1>1 DEF Inv, TypeOK, Handshake
<1>5. ReadyIsRegistered'
      BY DEF Inv, TypeOK, ReadyIsRegistered
<1> QED BY <1>2, <1>3, <1>4, <1>5 DEF Inv

\* The id of a client is the only one that is ever read to its end.
LEMMA ReadIdStep ==
    ASSUME Inv, ReadId
    PROVE  Inv'
<1> USE DEF ReadId
<1>1. current \in Clients \cup {Self}
      BY DEF Inv, Handshake
<1>2. CASE SizeRead(current) # 28 \/ current \notin said \cup {Self}
      BY <1>2 DEF Inv, TypeOK, Accepting, Handshake, ReadyIsRegistered,
                  SaveOnlyOnTimeout
<1>3. CASE ~(SizeRead(current) # 28 \/ current \notin said \cup {Self})
      <2>1. current # Self
            BY <1>3 DEF SizeRead
      <2>2. /\ current \in said
            /\ registered' = registered \cup {current}
            /\ acceptor' = "welcome"
            /\ UNCHANGED <<alive, running>>
            BY <1>3, <2>1
      <2>3. TypeOK'
            BY <2>2 DEF Inv, TypeOK
      <2> QED BY <2>2, <2>3 DEF Inv, TypeOK, Accepting, Handshake,
                                ReadyIsRegistered, SaveOnlyOnTimeout
<1> QED BY <1>2, <1>3

LEMMA WelcomeStep ==
    ASSUME Inv, Welcome
    PROVE  Inv'
<1> USE DEF Welcome
<1>1. /\ current \in registered /\ current \in Clients
      /\ client' \in [Clients -> {"away", "connecting", "greeted", "answered",
                                  "ready", "left"}]
      /\ \A c \in Clients : /\ client'[c] = "answered" => client[c] = "answered"
                            /\ client'[c] = "ready" =>
                                  c = current \/ client[c] = "ready"
      BY DEF Inv, TypeOK, Handshake
<1>2. TypeOK'
      BY <1>1 DEF Inv, TypeOK
<1> QED BY <1>1, <1>2 DEF Inv, Accepting, Handshake, ReadyIsRegistered,
                          SaveOnlyOnTimeout

\* main and the calls of shutdownServer leave the clients alone.
LEMMA CallerStep ==
    ASSUME Inv,
           \/ AcceptFails \/ DurationOver \/ MainSaves
           \/ \E c \in Clients : Kill(c)
           \/ \E t \in Callers : ShutdownServer(t)
    PROVE  Inv'
<1> DEFINE Keeps ==
              /\ UNCHANGED <<running, acceptor, current, client, said,
                             registered>>
              /\ TypeOK'
              /\ ~shutdownV'
              /\ timedOut => timedOut'
              /\ main' = main \/ timedOut
<1>1. Keeps
      <2> USE DEF Inv, TypeOK, Accepting
      <2>1. CASE AcceptFails
            BY <2>1 DEF AcceptFails
      <2>2. CASE DurationOver
            BY <2>2 DEF DurationOver
      <2>3. CASE MainSaves
            BY <2>3 DEF MainSaves, WaitIsOver, Callers
      <2>4. ASSUME NEW c \in Clients, Kill(c)
            PROVE  Keeps
            BY <2>4 DEF Kill, Callers
      <2>5. ASSUME NEW t \in Callers, SendTerminate(t)
            PROVE  Keeps
            <3>1. backlog' \in Seq(Clients \cup {Self})
                  BY <2>5, AppendProperties DEF SendTerminate, ConnectToSelf
            <3> QED BY <2>5, <3>1 DEF SendTerminate, ConnectToSelf
      <2>6. ASSUME NEW t \in Callers, ConnectFails(t)
            PROVE  Keeps
            BY <2>6 DEF ConnectFails
      <2>7. ASSUME NEW t \in Callers, CloseSocket(t)
            PROVE  Keeps
            BY <2>7 DEF CloseSocket
      <2>8. ASSUME NEW t \in Callers, NEW c \in Clients, CloseClient(t, c)
            PROVE  Keeps
            BY <2>8 DEF CloseClient
      <2>8a. ASSUME NEW t \in Callers, NEW c \in Clients, JoinHangs(t, c)
            PROVE  Keeps
            BY <2>8a DEF JoinHangs
      <2>9. ASSUME NEW t \in Callers, Finish(t)
            PROVE  Keeps
            BY <2>9 DEF Finish
      <2> QED BY <2>1, <2>2, <2>3, <2>4, <2>5, <2>6, <2>7, <2>8, <2>8a,
         <2>9
              DEF ShutdownServer
<1> QED BY <1>1 DEF Inv, Accepting, Handshake, ReadyIsRegistered,
                    SaveOnlyOnTimeout

LEMMA InvStep == Inv /\ [Next]_vars => Inv'
<1> SUFFICES ASSUME Inv, [Next]_vars
             PROVE  Inv'
    OBVIOUS
<1>1. CASE UNCHANGED vars
      BY <1>1 DEF vars, Inv, TypeOK, Accepting, Handshake, ReadyIsRegistered,
                  SaveOnlyOnTimeout
<1> QED BY <1>1, ProgramStep, AcceptStep, ReadIdStep, WelcomeStep, CallerStep
        DEF Next, Acceptor

THEOREM LifecycleInvariance == Spec => []Inv
BY InitInv, InvStep, PTL DEF Spec

\* Every variable has the type its C++ counterpart has.
THEOREM LifecycleTypeCorrect == Spec => []TypeOK
<1>1. Inv => TypeOK
      BY DEF Inv
<1> QED BY <1>1, LifecycleInvariance, PTL

\* shutdownServer never gets acceptNewClients to reset m_running.
THEOREM NeverStops == Spec => []RunsForever
<1>1. Inv => RunsForever
      BY DEF Inv, Accepting, RunsForever
<1> QED BY <1>1, LifecycleInvariance, PTL

\* main reaches its save only through the duration, never through "KILL".
THEOREM KillNeverSaves == Spec => []SaveOnlyOnTimeout
<1>1. Inv => SaveOnlyOnTimeout
      BY DEF Inv
<1> QED BY <1>1, LifecycleInvariance, PTL

\* acceptNewClients registers a client before it sends the id back.
THEOREM ServedClientsAreRegistered == Spec => []ReadyIsRegistered
<1>1. Inv => ReadyIsRegistered
      BY DEF Inv
<1> QED BY <1>1, LifecycleInvariance, PTL

-----------------------------------------------------------------------------
(* What the acceptor owes *)

\* The elements of a queue, and that no client stands in it twice.
In(s) == {s[i] : i \in 1 .. Len(s)}

OnceIn(s) ==
    \A i, j \in 1 .. Len(s) : s[i] \in Clients /\ s[i] = s[j] => i = j

\* What the acceptor finds when it is scheduled: a connection, its failure, or
\* something to read.
AcceptorRuns ==
    \/ acceptor = "poll" /\ (listening => backlog # <<>>)
    \/ acceptor = "header" /\ Readable(current)
    \/ acceptor = "welcome"

\* It reads from a client that has been greeted and has still to send its id.
AwaitsId ==
    acceptor = "header" /\ current \in Clients /\ client[current] = "greeted"

\* Nobody waits for the acceptor in vain: while a program is in its handshake,
\* or a call of shutdownServer is behind its connection to itself, the acceptor
\* can go on, or reads from a client that owes its id.
OwesNothing ==
    /\ alive
    /\ \/ \E t \in Callers : stage[t] \in {"waitRun", "closing", "stuck"}
       \/ \E c \in Clients : client[c] \in {"connecting", "answered"}
    => AcceptorRuns \/ AwaitsId

\* Where the programs are in the handshake;
InHandshake ==
    /\ OnceIn(backlog)
    /\ \A c \in Clients :
          /\ c \in In(backlog) => client[c] \in {"connecting", "left"}
          /\ client[c] = "connecting" => c \in In(backlog)
          /\ client[c] = "greeted" => current = c /\ acceptor = "header"
          /\ client[c] = "answered" =>
                current = c /\ acceptor \in {"header", "welcome"}
          /\ current = c => client[c] \in {"greeted", "answered", "left"}
          /\ c \in said => client[c] \in {"answered", "ready", "left"}

\* and the calls of shutdownServer: the connection to itself is never lost.
InShutdown ==
    \A t \in Callers :
       /\ stage[t] # "done"
       /\ stage[t] \in {"closing", "stuck"} => ~listening
       /\ stage[t] = "waitRun" /\ alive =>
             current = Self \/ Self \in In(backlog)

WInv ==
    InHandshake /\ InShutdown /\ (acceptor = "poll" => current = None)

LEMMA AppendIn ==
    ASSUME NEW S, NEW s \in Seq(S), NEW x \in S
    PROVE  /\ In(Append(s, x)) = In(s) \cup {x}
           /\ OnceIn(s) /\ (x \in Clients => x \notin In(s)) =>
                 OnceIn(Append(s, x))
<1> DEFINE u == Append(s, x)
           n == Len(s)
<1>1. /\ n \in Nat /\ Len(u) = n + 1 /\ u[n + 1] = x
      /\ \A i \in 1 .. n : u[i] = s[i]
      BY AppendProperties, LenProperties
<1> HIDE DEF u
<1>2. In(u) = In(s) \cup {x}
      <2>1. In(s) \cup {x} \subseteq In(u)
            BY <1>1 DEF In
      <2>2. ASSUME NEW i \in 1 .. n + 1 PROVE u[i] \in In(s) \cup {x}
            <3>1. i = n + 1 \/ i \in 1 .. n
                  BY <1>1
            <3> QED BY <1>1, <3>1 DEF In
      <2> QED BY <1>1, <2>1, <2>2 DEF In
<1>3. ASSUME OnceIn(s), x \in Clients => x \notin In(s) PROVE OnceIn(u)
      <2> SUFFICES ASSUME NEW i \in 1 .. n + 1, NEW j \in 1 .. n + 1,
                          u[i] \in Clients, u[i] = u[j]
                   PROVE  i = j
          BY <1>1 DEF OnceIn
      <2>1. /\ i = n + 1 \/ i \in 1 .. n
            /\ j = n + 1 \/ j \in 1 .. n
            BY <1>1
      <2>2. CASE i \in 1 .. n /\ j \in 1 .. n
            BY <1>1, <1>3, <2>2 DEF OnceIn
      <2>3. CASE i = n + 1 /\ j \in 1 .. n
            BY <1>1, <1>3, <2>3 DEF In
      <2>4. CASE i \in 1 .. n /\ j = n + 1
            BY <1>1, <1>3, <2>4 DEF In
      <2> QED BY <2>1, <2>2, <2>3, <2>4
<1> QED BY <1>2, <1>3 DEF u

LEMMA TailIn ==
    ASSUME NEW S, NEW s \in Seq(S), s # <<>>
    PROVE  /\ In(s) = {Head(s)} \cup In(Tail(s))
           /\ OnceIn(s) =>
                 /\ OnceIn(Tail(s))
                 /\ Head(s) \in Clients => Head(s) \notin In(Tail(s))
<1> DEFINE u == Tail(s)
           n == Len(u)
<1>1. /\ n \in Nat /\ Len(s) = n + 1 /\ Head(s) = s[1]
      /\ \A i \in 1 .. n : u[i] = s[i + 1]
      BY HeadTailProperties, LenProperties, EmptySeq
<1> HIDE DEF u, n
<1>2. \A i \in 1 .. n : i + 1 \in 1 .. n + 1 /\ i + 1 # 1
      BY <1>1
<1>3. \A i \in 1 .. n + 1 : i = 1 \/ (i - 1 \in 1 .. n /\ (i - 1) + 1 = i)
      BY <1>1
<1>4. Len(u) = n /\ 1 \in 1 .. n + 1
      BY <1>1 DEF n
<1>5. In(s) = {Head(s)} \cup In(u)
      <2>1. {Head(s)} \cup In(u) \subseteq In(s)
            BY <1>1, <1>2, <1>4 DEF In
      <2>2. ASSUME NEW i \in 1 .. n + 1 PROVE s[i] \in {Head(s)} \cup In(u)
            <3>1. CASE i = 1
                  BY <1>1, <3>1
            <3>2. CASE i - 1 \in 1 .. n /\ (i - 1) + 1 = i
                  <4>1. u[i - 1] = s[i]
                        BY <1>1, <3>2
                  <4>2. u[i - 1] \in In(u)
                        BY <1>4, <3>2 DEF In
                  <4> QED BY <4>1, <4>2
            <3> QED BY <1>3, <3>1, <3>2
      <2> QED BY <1>1, <2>1, <2>2 DEF In
<1>6. ASSUME OnceIn(s) PROVE OnceIn(u)
      <2> SUFFICES ASSUME NEW i \in 1 .. n, NEW j \in 1 .. n,
                          u[i] \in Clients, u[i] = u[j]
                   PROVE  i = j
          BY <1>4 DEF OnceIn
      <2>1. i + 1 = j + 1
            BY <1>1, <1>2, <1>6 DEF OnceIn
      <2> QED BY <2>1
<1>7. ASSUME OnceIn(s), Head(s) \in Clients, Head(s) \in In(u) PROVE FALSE
      <2>1. PICK i \in 1 .. n : u[i] = Head(s)
            BY <1>4, <1>7 DEF In
      <2>2. i + 1 = 1
            <3>1. i + 1 \in 1 .. n + 1 /\ 1 \in 1 .. n + 1
                  BY <1>2, <1>4
            <3>2. s[i + 1] = s[1] /\ s[1] \in Clients
                  BY <1>1, <1>7, <2>1
            <3> QED BY <1>1, <1>7, <3>1, <3>2 DEF OnceIn
      <2> QED BY <1>2, <2>2
<1> QED BY <1>5, <1>6, <1>7 DEF u

LEMMA InitWInv == Init => WInv
<1> SUFFICES ASSUME Init PROVE WInv
    OBVIOUS
<1>1. Len(backlog) = 0
      BY EmptySeq DEF Init
<1> QED BY <1>1, ShutdownAssumption
        DEF Init, WInv, InHandshake, InShutdown, OnceIn, In

\* What WInv says of the backlog stays true if the backlog does.
LEMMA SameBacklog ==
    ASSUME backlog' = backlog
    PROVE  In(backlog)' = In(backlog) /\ (OnceIn(backlog)' <=> OnceIn(backlog))
BY DEF In, OnceIn

LEMMA ProgramWInv ==
    ASSUME Inv, WInv, NEW c \in Clients,
           Connect(c) \/ Answer(c) \/ Leave(c) \/ Kill(c)
    PROVE  WInv'
<1> USE DEF Inv, TypeOK, WInv
<1>1. CASE Connect(c)
      <2>1. client[c] = "away" /\ c \notin In(backlog)
            BY <1>1 DEF Connect, InHandshake
      <2>2. In(backlog)' = In(backlog) \cup {c} /\ OnceIn(backlog)'
            <3>1. backlog' = Append(backlog, c)
                  BY <1>1 DEF Connect
            <3>2. c \in Clients \cup {Self}
                  OBVIOUS
            <3>3. In(Append(backlog, c)) = In(backlog) \cup {c}
                     /\ OnceIn(Append(backlog, c))
                  BY <2>1, <3>2, AppendIn DEF InHandshake
            <3> QED BY <3>1, <3>3 DEF In, OnceIn
      <2>3. InHandshake'
            BY <1>1, <2>1, <2>2 DEF Connect, InHandshake
      <2>4. InShutdown'
            BY <1>1, <2>2 DEF Connect, InShutdown
      <2> QED BY <1>1, <2>3, <2>4 DEF Connect
<1>2. CASE Answer(c) \/ Leave(c)
      <2>1. In(backlog)' = In(backlog) /\ (OnceIn(backlog)' <=> OnceIn(backlog))
            BY <1>2, SameBacklog DEF Answer, Leave
      <2>2. InHandshake'
            BY <1>2, <2>1 DEF Answer, Leave, InHandshake
      <2>3. InShutdown'
            BY <1>2, <2>1 DEF Answer, Leave, InShutdown
      <2> QED BY <1>2, <2>2, <2>3 DEF Answer, Leave
<1>3. CASE Kill(c)
      <2>1. In(backlog)' = In(backlog) /\ (OnceIn(backlog)' <=> OnceIn(backlog))
            BY <1>3, SameBacklog DEF Kill
      <2>2. InHandshake'
            BY <1>3, <2>1 DEF Kill, InHandshake
      <2>3. InShutdown'
            BY <1>3, <2>1 DEF Kill, InShutdown, Callers
      <2> QED BY <1>3, <2>2, <2>3 DEF Kill
<1> QED BY <1>1, <1>2, <1>3

LEMMA AcceptorWInv ==
    ASSUME Inv, WInv, Acceptor
    PROVE  WInv'
<1> USE DEF Inv, TypeOK, WInv
<1>1. CASE Accept
      <2> DEFINE conn == Head(backlog)
      <2>1. /\ conn \in Clients \cup {Self}
            /\ In(backlog) = {conn} \cup In(backlog')
            /\ OnceIn(backlog')
            /\ conn \in Clients => conn \notin In(backlog')
            <3>1. backlog' = Tail(backlog) /\ backlog # <<>>
                  BY <1>1 DEF Accept
            <3> QED BY <3>1, TailIn, HeadTailProperties DEF InHandshake
      <2>2. /\ In(backlog)' = In(backlog')
            /\ OnceIn(backlog)' <=> OnceIn(backlog')
            BY DEF In, OnceIn
      <2>3. /\ current' = conn /\ acceptor = "poll" /\ acceptor' = "header"
            /\ current = None
            /\ \A c \in Clients :
                  client'[c] = IF c = conn /\ client[c] = "connecting"
                                  THEN "greeted" ELSE client[c]
            /\ stage' = stage /\ listening' = listening /\ alive
            /\ said' = said
            BY <1>1 DEF Accept
      <2>4. conn \in Clients => client[conn] \in {"connecting", "left"}
            BY <2>1 DEF InHandshake
      <2> HIDE DEF conn
      <2>5. InHandshake'
            <3>1. OnceIn(backlog)'
                  BY <2>1, <2>2
            <3> SUFFICES ASSUME NEW c \in Clients
                         PROVE  /\ c \in In(backlog') =>
                                      client'[c] \in {"connecting", "left"}
                                /\ client'[c] = "connecting" =>
                                      c \in In(backlog')
                                /\ client'[c] = "greeted" =>
                                      current' = c /\ acceptor' = "header"
                                /\ client'[c] = "answered" =>
                                      /\ current' = c
                                      /\ acceptor' \in {"header", "welcome"}
                                /\ current' = c =>
                                      client'[c] \in
                                         {"greeted", "answered", "left"}
                                /\ c \in said' =>
                                      client'[c] \in
                                         {"answered", "ready", "left"}
                BY <2>2, <3>1 DEF InHandshake
            <3>2. CASE c = conn
                  BY <2>1, <2>3, <2>4, <3>2 DEF InHandshake
            <3>3. CASE c # conn
                  BY <2>1, <2>3, <3>3, ShutdownAssumption DEF InHandshake
            <3> QED BY <3>2, <3>3
      <2>6. InShutdown'
            BY <2>1, <2>2, <2>3, ShutdownAssumption DEF InShutdown
      <2> QED BY <2>3, <2>5, <2>6
<1>2. CASE AcceptFails
      <2>1. In(backlog)' = In(backlog) /\ (OnceIn(backlog)' <=> OnceIn(backlog))
            BY <1>2, SameBacklog DEF AcceptFails
      <2> QED BY <1>2, <2>1 DEF AcceptFails, InHandshake, InShutdown
<1>3. CASE ReadId
      <2>1. In(backlog)' = In(backlog) /\ (OnceIn(backlog)' <=> OnceIn(backlog))
            BY <1>3, SameBacklog DEF ReadId
      <2>2. CASE alive' = FALSE
            <3>1. acceptor' = acceptor
                  BY <1>3, <2>2 DEF ReadId
            <3> QED BY <1>3, <2>1, <2>2, <3>1
                    DEF ReadId, InHandshake, InShutdown
      <2>3. CASE alive' # FALSE
            <3>1. SizeRead(current) = 28 /\ current \in said \cup {Self}
                  BY <1>3, <2>3 DEF ReadId
            <3>2. current # Self /\ current \in said
                  BY <3>1 DEF SizeRead
            <3>3. acceptor' = "welcome"
                  BY <1>3, <3>1, <3>2 DEF ReadId
            <3>4. client[current] # "greeted"
                  BY <1>3, <3>2, ShutdownAssumption
                  DEF ReadId, Handshake, InHandshake
            <3>5. InHandshake'
                  BY <1>3, <2>1, <3>2, <3>3, <3>4 DEF ReadId, InHandshake
            <3>6. InShutdown'
                  BY <1>3, <2>1, <3>2 DEF ReadId, InShutdown
            <3> QED BY <1>3, <3>3, <3>5, <3>6
      <2> QED BY <2>2, <2>3
<1>4. CASE Welcome
      <2>1. In(backlog)' = In(backlog) /\ (OnceIn(backlog)' <=> OnceIn(backlog))
            BY <1>4, SameBacklog DEF Welcome
      <2>2. current \in Clients
            BY <1>4 DEF Welcome, Handshake
      <2>3. InHandshake'
            BY <1>4, <2>1, <2>2, ShutdownAssumption DEF Welcome, InHandshake
      <2>4. InShutdown'
            BY <1>4, <2>1, <2>2, ShutdownAssumption DEF Welcome, InShutdown
      <2> QED BY <1>4, <2>3, <2>4 DEF Welcome
<1> QED BY <1>1, <1>2, <1>3, <1>4 DEF Acceptor

LEMMA CallerWInv ==
    ASSUME Inv, WInv, NEW t \in Callers,
           DurationOver \/ MainSaves \/ ShutdownServer(t)
    PROVE  WInv'
<1> USE DEF Inv, TypeOK, WInv
<1>1. CASE SendTerminate(t)
      <2>1. backlog' = Append(backlog, Self) /\ Self \notin Clients
            BY <1>1, ShutdownAssumption DEF SendTerminate, ConnectToSelf
      <2>2. /\ In(Append(backlog, Self)) = In(backlog) \cup {Self}
            /\ OnceIn(Append(backlog, Self))
            <3>1. Self \in Clients \cup {Self}
                  OBVIOUS
            <3> QED BY <2>1, <3>1, AppendIn DEF InHandshake
      <2>3. In(backlog)' = In(backlog) \cup {Self} /\ OnceIn(backlog)'
            BY <2>1, <2>2 DEF In, OnceIn
      <2>4. InHandshake'
            BY <1>1, <2>1, <2>3 DEF SendTerminate, InHandshake
      <2>5. InShutdown'
            BY <1>1, <2>3 DEF SendTerminate, InShutdown
      <2> QED BY <1>1, <2>4, <2>5 DEF SendTerminate
<1>2. CASE ~SendTerminate(t)
      <2>1. /\ UNCHANGED <<backlog, acceptor, current, client, said>>
            /\ alive
            BY <1>2 DEF DurationOver, MainSaves, ShutdownServer, ConnectFails,
                       CloseSocket, CloseClient, JoinHangs, Finish
      <2>2. In(backlog)' = In(backlog) /\ (OnceIn(backlog)' <=> OnceIn(backlog))
            BY <2>1, SameBacklog
      <2>3. InHandshake'
            BY <2>1, <2>2 DEF InHandshake
      <2>4. InShutdown'
            <3>1. CASE DurationOver
                  BY <2>1, <2>2, <3>1 DEF DurationOver, InShutdown
            <3>2. CASE MainSaves
                  BY <2>1, <2>2, <3>2 DEF MainSaves, InShutdown
            <3>3. CASE ConnectFails(t) \/ CloseSocket(t)
                  BY <2>1, <2>2, <3>3 DEF ConnectFails, CloseSocket, InShutdown
            <3>4. ASSUME NEW c \in Clients, CloseClient(t, c) \/ JoinHangs(t, c)
                  PROVE  InShutdown'
                  BY <2>1, <2>2, <3>4 DEF CloseClient, JoinHangs, InShutdown
            <3>5. CASE Finish(t)
                  BY <2>1, <2>2, <3>5 DEF Finish, InShutdown, Accepting
            <3> QED BY <1>2, <3>1, <3>2, <3>3, <3>4, <3>5 DEF ShutdownServer
      <2> QED BY <2>1, <2>3, <2>4
<1> QED BY <1>1, <1>2

LEMMA WInvStep == Inv /\ WInv /\ [Next]_vars => WInv'
<1> SUFFICES ASSUME Inv, WInv, [Next]_vars PROVE WInv'
    OBVIOUS
<1>1. CASE UNCHANGED vars
      BY <1>1, SameBacklog DEF vars, WInv, InHandshake, InShutdown
<1>2. Main \in Callers
      BY DEF Callers
<1> QED BY <1>1, <1>2, ProgramWInv, AcceptorWInv, CallerWInv DEF Next

\* Whoever waits for the acceptor, a program in its handshake or a thread in
\* shutdownServer, waits for a thread that can run or for a client that has
\* been greeted: a connection is never forgotten, the one shutdownServer makes
\* to its own port included, and a closed descriptor does not go unnoticed.
THEOREM AcceptorOwesNothing == Spec => []OwesNothing
<1>1. Inv /\ WInv => OwesNothing
      <2> SUFFICES ASSUME Inv, WInv, alive, ~AcceptorRuns, ~AwaitsId
                   PROVE  /\ \A t \in Callers :
                                stage[t] \notin {"waitRun", "closing", "stuck"}
                          /\ \A c \in Clients :
                                client[c] \notin {"connecting", "answered"}
          BY DEF OwesNothing
      <2>1. acceptor \in {"poll", "header"}
            BY DEF Inv, TypeOK, Accepting, AcceptorRuns
      <2>2. acceptor = "poll"
            <3> SUFFICES ASSUME acceptor = "header" PROVE FALSE
                BY <2>1
            <3>1. current \in Clients /\ current \notin said
                     /\ client[current] # "left"
                  BY DEF AcceptorRuns, Readable, Gone, Inv, Handshake
            <3>2. client[current] = "answered"
                  BY <3>1 DEF WInv, InHandshake, AwaitsId
            <3> QED BY <3>1, <3>2 DEF Inv, Handshake
      <2>3. listening /\ backlog = <<>> /\ current = None
            BY <2>2 DEF AcceptorRuns, WInv
      <2>4. In(backlog) = {}
            BY <2>3, EmptySeq DEF In
      <2>5. current # Self /\ current \notin Clients
            BY <2>3, ShutdownAssumption
      <2> QED BY <2>3, <2>4, <2>5 DEF WInv, InHandshake, InShutdown
<1> QED BY <1>1, InitWInv, WInvStep, LifecycleInvariance, PTL DEF Spec

\* shutdownServer never gets what it waits for: acceptNewClients does not stop,
\* no call returns, and m_shutdownV stays false, whatever the number of clients
\* and whoever calls.  That AcceptorStops fails is no corner case.
THEOREM ShutdownNeverReturns ==
    Spec => [](/\ acceptor # "stopped" /\ ~shutdownV
               /\ \A t \in Callers : stage[t] # "done")
<1>1. Inv /\ WInv =>
         /\ acceptor # "stopped" /\ ~shutdownV
         /\ \A t \in Callers : stage[t] # "done"
      BY DEF Inv, Accepting, WInv, InShutdown
<1> QED BY <1>1, InitWInv, WInvStep, LifecycleInvariance, PTL DEF Spec
=============================================================================
