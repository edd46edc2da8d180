------------------------- MODULE DispatchRefinement -------------------------
(***************************************************************************)
(* Dispatch implements RequestReply: threads, queues, cursors and mutexes  *)
(* of the server cannot be told from a server that serves a message in one *)
(* indivisible step.  The last part follows the requests of one client:    *)
(* what they do to the graph, and which replies come back for them.        *)
(***************************************************************************)
EXTENDS DispatchProofs

-----------------------------------------------------------------------------
(* What is needed beyond Inv *)

\* The handler that is about to change the graph has read what is there,
Fresh == \A c \in Clients : handler[c] = "handling" => seen[c] = graph

\* and after a "KILL" took effect its handler never lets go of
\* m_messageHandlerMtx.
KillHeld ==
    Abstract!Stopping =>
       \E c \in Clients : Executed(c) /\ Head(cursor[c]).kind = "kill"

RInv == Inv /\ Fresh /\ KillHeld

\* Which steps change the graph.
LEMMA GraphChanges ==
    ASSUME NEW c \in Clients, Step(c), graph' # graph
    PROVE  Execute(c) \/ ExecuteSilent(c)
BY DEF Step, ClientStep, ReceiverStep, HandlerStep, ClientSend, ClientRead,
       ClientClose, ClientReset, ReceiverRecv, ReceiverEof, ReceiverError,
       ReceiverSpins, ReceiverDispatch, HandlerLock, SkipEmpty, EndBatch,
       BeginHandle, ExecuteThrows, SendReply, SendToGone, SpuriousWake,
       ShutdownAborts

\* What another handler has seen stays.
LEMMA SeenStays ==
    ASSUME TypeOK, NEW c \in Clients, Step(c),
           NEW d \in Clients, handler'[d] = "handling"
    PROVE  \/ seen'[d] = seen[d] /\ handler[d] = "handling"
           \/ seen'[d] = graph /\ graph' = graph
<1> USE DEF TypeOK
<1>1. CASE d # c
      <2>1. handler[d] = "handling"
            BY <1>1, Locality DEF SameFor
      <2>2. seen'[d] = seen[d]
            BY <1>1 DEF Step, ClientStep, ReceiverStep, HandlerStep,
               ClientSend, ClientRead, ClientClose, ClientReset, ReceiverRecv,
               ReceiverEof, ReceiverError, ReceiverSpins, ReceiverDispatch,
               HandlerLock, SkipEmpty, EndBatch, BeginHandle, Execute,
               ExecuteSilent, ExecuteThrows, SendReply, SendToGone,
               AfterReply, Return, SpuriousWake, ShutdownAborts
      <2> QED BY <2>1, <2>2
<1>2. CASE d = c
      <2>1. CASE BeginHandle(c)
            BY <1>2, <2>1 DEF BeginHandle
      <2>2. CASE ~BeginHandle(c)
            <3>1. ~Execute(c) /\ ~ExecuteSilent(c) /\ ~SendReply(c)
                  BY <1>2 DEF Execute, ExecuteSilent, SendReply, AfterReply,
                     Return
            <3>2. seen' = seen \/ SendToGone(c)
                  BY <2>2, <3>1 DEF Step, ClientStep, ReceiverStep, HandlerStep,
                     ClientSend, ClientRead, ClientClose, ClientReset,
                     ReceiverRecv, ReceiverEof, ReceiverError, ReceiverSpins,
                     ReceiverDispatch, HandlerLock, SkipEmpty, EndBatch,
                     ExecuteThrows, SpuriousWake, ShutdownAborts
            <3>3. ~SendToGone(c)
                  BY <1>2 DEF SendToGone, AfterReply, Return
            <3>4. handler[c] = "handling"
                  BY <1>2, <2>2, <3>1, <3>3 DEF Step, ClientStep, ReceiverStep,
                     HandlerStep, ClientSend, ClientRead, ClientClose,
                     ClientReset, ReceiverRecv, ReceiverEof, ReceiverError,
                     ReceiverSpins, ReceiverDispatch, PushBack, Notify,
                     HandlerLock, SkipEmpty, EndBatch, ExecuteThrows,
                     SpuriousWake, ShutdownAborts
            <3> QED BY <1>2, <3>2, <3>3, <3>4
      <2> QED BY <2>1, <2>2
<1> QED BY <1>1, <1>2

LEMMA FreshStep ==
    ASSUME Inv, Fresh, NEW c \in Clients, Step(c)
    PROVE  Fresh'
<1> SUFFICES ASSUME NEW d \in Clients, handler'[d] = "handling"
             PROVE  seen'[d] = graph'
    BY DEF Fresh
<1>1. CASE graph' = graph
      BY <1>1, SeenStays DEF Inv, Fresh
<1>2. CASE graph' # graph
      <2>1. /\ Execute(c) \/ ExecuteSilent(c)
            /\ handler[c] = "handling"
            BY <1>2, GraphChanges DEF Execute, ExecuteSilent
      <2>2. d # c
            BY <2>1 DEF Execute, ExecuteSilent, Return, Inv, TypeOK
      <2>3. handler[d] = "handling"
            BY <2>2, Locality DEF SameFor, Inv
      <2> QED BY <2>1, <2>2, <2>3 DEF Inv, OneHandler
<1> QED BY <1>1, <1>2

\* The graph after the request at the cursor.
LEMMA EffectIsAppend ==
    ASSUME Inv, Fresh, NEW c \in Clients, handler[c] = "handling", Effect(c)
    PROVE  /\ graph' = Append(graph, <<c, Head(cursor[c])>>)
           /\ graph \in Seq(Clients \X Message)
           /\ Head(cursor[c]) \in Message
           /\ Len(graph') = Len(graph) + 1 /\ Len(graph) \in Nat
           /\ \A i \in 1 .. Len(graph) : graph'[i] = graph[i]
           /\ graph'[Len(graph) + 1] = <<c, Head(cursor[c])>>
<1>1. /\ cursor[c] \in Seq(Message) /\ cursor[c] # <<>>
      /\ graph \in Seq(Clients \X Message)
      BY DEF Inv, Places, TypeOK
<1>2. Head(cursor[c]) \in Message
      BY <1>1, HeadTailProperties
<1>3. graph' = Append(graph, <<c, Head(cursor[c])>>)
      BY DEF Fresh, Effect
<1> QED BY <1>1, <1>2, <1>3, AppendProperties, LenProperties

\* No request begins once the "KILL" has been executed.
LEMMA NoEffectAfterKill ==
    ASSUME Inv, KillHeld, NEW c \in Clients, handler[c] = "handling"
    PROVE  ~Abstract!Stopping
BY DEF KillHeld, Inv, OneHandler, Executed

LEMMA KillHeldStep ==
    ASSUME Inv, Fresh, KillHeld, NEW c \in Clients, Step(c)
    PROVE  KillHeld'
<1> SUFFICES ASSUME Abstract!Stopping'
             PROVE  \E d \in Clients :
                       Executed(d)' /\ Head(cursor'[d]).kind = "kill"
    BY DEF KillHeld
<1>1. CASE graph' # graph
      <2>1. /\ Execute(c) \/ ExecuteSilent(c)
            /\ handler[c] = "handling" /\ Effect(c)
            BY <1>1, GraphChanges DEF Execute, ExecuteSilent
      <2>2. ~Abstract!Stopping
            BY <2>1, NoEffectAfterKill
      <2>3. Head(cursor[c]).kind = "kill"
            <3>1. PICK i \in 1 .. Len(graph') : graph'[i][2].kind = "kill"
                  BY DEF Abstract!Stopping
            <3>2. ~(i \in 1 .. Len(graph))
                  BY <2>1, <2>2, <3>1, EffectIsAppend DEF Abstract!Stopping
            <3>3. i = Len(graph) + 1
                  BY <2>1, <3>2, EffectIsAppend
            <3> QED BY <2>1, <3>1, <3>3, EffectIsAppend
      <2>4. Execute(c)
            BY <2>1, <2>3 DEF ExecuteSilent
      <2> QED BY <2>3, <2>4 DEF Execute, Executed, Inv, TypeOK
<1>2. CASE graph' = graph
      <2>1. Abstract!Stopping
            BY <1>2 DEF Abstract!Stopping
      <2>2. PICK d \in Clients : Executed(d) /\ Head(cursor[d]).kind = "kill"
            BY <2>1 DEF KillHeld
      <2>3. CASE d # c
            BY <2>2, <2>3, Locality DEF SameFor, Executed, Inv
      <2>4. CASE d = c
            <3>1. ~Return(c) => cursor'[c] = cursor[c]
                  BY <2>2, <2>4 DEF Step, ClientStep, ReceiverStep, HandlerStep,
                     ClientSend, ClientRead, ClientClose, ClientReset,
                     ReceiverRecv, ReceiverEof, ReceiverError, ReceiverSpins,
                     ReceiverDispatch, HandlerLock, SkipEmpty, EndBatch,
                     BeginHandle, Execute, ExecuteSilent, ExecuteThrows,
                     SendReply, SendToGone, AfterReply, SpuriousWake,
                     ShutdownAborts, Executed
            <3>2. /\ Executed(c)'
                  /\ cursor'[c] = cursor[c]
                  BY <2>2, <2>4, <3>1 DEF Step, ClientStep, ReceiverStep,
                     HandlerStep, ClientSend, ClientRead, ClientClose,
                     ClientReset, ReceiverRecv, ReceiverEof, ReceiverError,
                     ReceiverSpins, ReceiverDispatch, PushBack, Notify,
                     HandlerLock, SkipEmpty, EndBatch, BeginHandle, Execute,
                     ExecuteSilent, ExecuteThrows, SendReply, SendToGone,
                     AfterReply, SpuriousWake, ShutdownAborts, Executed, Inv,
                     TypeOK
            <3> QED BY <2>2, <2>4, <3>2
      <2> QED BY <2>3, <2>4
<1> QED BY <1>1, <1>2

-----------------------------------------------------------------------------
(* What the abstract server has pending of a client *)

\* What the handler of c has still to execute.
Before(c) == IF Executed(c) THEN Tail(cursor[c]) ELSE Remaining(c)

Pending == [c \in Clients |-> Outstanding(c)]

LEMMA OutstandingType ==
    ASSUME Inv, NEW c \in Clients
    PROVE  /\ Outstanding(c) = Before(c) \o inHand[c] \o wire[c]
           /\ Before(c) \in Seq(Message)
           /\ inHand[c] \in Seq(Message)
           /\ wire[c] \in Seq(Message)
           /\ Before(c) \o inHand[c] \in Seq(Message)
           /\ Outstanding(c) \in Seq(Message)
<1>1. Outstanding(c) = Before(c) \o inHand[c] \o wire[c]
      BY DEF Outstanding, Before
<1>2. Before(c) \in Seq(Message)
      <2>1. CASE Executed(c)
            <3>1. cursor[c] \in Seq(Message) /\ cursor[c] # <<>>
                  BY <2>1 DEF Executed, Inv, Places, TypeOK
            <3> QED BY <2>1, <3>1, HeadTailProperties DEF Before
      <2>2. CASE ~Executed(c)
            BY <2>2, FrontType DEF Before, Inv
      <2> QED BY <2>1, <2>2
<1>3. inHand[c] \in Seq(Message) /\ wire[c] \in Seq(Message)
      BY DEF Inv, TypeOK
<1>4. Before(c) \o inHand[c] \in Seq(Message)
      BY <1>2, <1>3, ConcatProperties
<1> QED BY <1>1, <1>2, <1>3, <1>4, ConcatProperties

\* A step of c's actors changes what is pending of c only.
LEMMA PendingStep ==
    ASSUME Inv, NEW c \in Clients, Step(c)
    PROVE  Pending' = [Pending EXCEPT ![c] = Outstanding(c)']
<1>1. ASSUME NEW d \in Clients, d # c PROVE Outstanding(d)' = Outstanding(d)
      <2>1. SameFor(d)
            BY <1>1, Locality DEF Inv
      <2> QED BY <2>1 DEF SameFor, Outstanding, Executed, Remaining,
                          HandlerMtxFree
<1> QED BY <1>1 DEF Pending

\* The first message of x \o y \o z is that of x.
StartsWith(x, y, z) ==
    /\ x \o y \o z # <<>>
    /\ Head(x \o y \o z) = Head(x)
    /\ Tail(x \o y \o z) = Tail(x) \o y \o z

LEMMA HeadTailConcat ==
    ASSUME NEW x \in Seq(Message), NEW y \in Seq(Message),
           NEW z \in Seq(Message), x # <<>>
    PROVE  StartsWith(x, y, z)
<1> DEFINE h == Head(x)  t == Tail(x)
<1>1. /\ h \in Message /\ t \in Seq(Message)
      BY HeadTailProperties
<1>2. x = <<h>> \o t /\ <<h>> \in Seq(Message)
      BY <1>1
<1> HIDE DEF h, t
<1>3. x \o y = <<h>> \o (t \o y) /\ t \o y \in Seq(Message)
      BY <1>1, <1>2, ConcatAssociative, ConcatProperties
<1>4. (x \o y) \o z = <<h>> \o ((t \o y) \o z) /\ (t \o y) \o z \in Seq(Message)
      BY <1>1, <1>2, <1>3, ConcatAssociative, ConcatProperties
<1> DEFINE r == (t \o y) \o z
<1>5. r \in Seq(Message) /\ (x \o y) \o z = <<h>> \o r
      BY <1>4
<1> HIDE DEF r
<1>6. /\ <<h>> \o r # <<>>
      /\ Head(<<h>> \o r) = h
      /\ Tail(<<h>> \o r) = r
      BY <1>1, <1>5
<1> QED BY <1>5, <1>6 DEF h, t, r, StartsWith

-----------------------------------------------------------------------------
(* The steps of the abstract server, as what they do to one client *)

Idle(c) ==
    /\ Outstanding(c)' = Outstanding(c)
    /\ graph' = graph /\ alive' = alive

Offers(c) ==
    /\ alive
    /\ \E m \in Message : Outstanding(c)' = Append(Outstanding(c), m)
    /\ graph' = graph /\ alive' = alive

Discards(c) ==
    /\ alive
    /\ \E k \in 0 .. Len(Outstanding(c)) :
          Outstanding(c)' = SubSeq(Outstanding(c), 1, k)
    /\ graph' = graph /\ alive' = alive

Serves(c) ==
    /\ alive
    /\ Outstanding(c) # <<>>
    /\ Outstanding(c)' = Tail(Outstanding(c))
    /\ IF Head(Outstanding(c)).kind = "empty" THEN graph' = graph
       ELSE /\ ~Abstract!Stopping
            /\ graph' = Append(graph, <<c, Head(Outstanding(c))>>)
    /\ alive' = alive

Dies(c) ==
    /\ alive /\ ~alive'
    /\ Outstanding(c)' = Outstanding(c) /\ graph' = graph

Maps(c) == Idle(c) \/ Offers(c) \/ Discards(c) \/ Serves(c) \/ Dies(c)

\* What is in front of the receiver, and the wire, give what is outstanding.
LEMMA SameOutstanding ==
    ASSUME NEW c \in Clients, Before(c)' = Before(c), inHand'[c] = inHand[c],
           wire'[c] = wire[c]
    PROVE  Outstanding(c)' = Outstanding(c)
BY DEF Outstanding, Before

\* A reset of the connection throws away the end of what is outstanding.
LEMMA ResetDiscards ==
    ASSUME Inv, NEW c \in Clients, alive, alive' = alive, graph' = graph,
           Before(c)' = Before(c), inHand'[c] = inHand[c],
           NEW k \in 0 .. Len(wire[c]), Reset(c, k)
    PROVE  Discards(c)
<1> DEFINE x == Before(c) \o inHand[c]  w == wire[c]  all == Outstanding(c)
           n == Len(all) - Len(w) + k
<1>1. /\ x \in Seq(Message) /\ w \in Seq(Message)
      /\ all = x \o w
      BY OutstandingType
<1>2. wire'[c] = SubSeq(w, 1, k)
      BY DEF Reset, Inv, TypeOK
<1>3. Outstanding(c)' = x \o SubSeq(w, 1, k)
      BY <1>2 DEF Outstanding, Before
<1>4. k \in 0 .. Len(w)
      OBVIOUS
<1> HIDE DEF x, w, all
<1>5. x \o SubSeq(w, 1, k) = SubSeq(all, 1, n)
      BY <1>1, <1>4, PipeCut
<1>6. Len(all) = Len(x) + Len(w) /\ Len(x) \in Nat /\ Len(w) \in Nat
      BY <1>1, ConcatProperties, LenProperties
<1>7. n \in 0 .. Len(all)
      BY <1>4, <1>6
<1> HIDE DEF n
<1>8. \E j \in 0 .. Len(all) : Outstanding(c)' = SubSeq(all, 1, j)
      BY <1>3, <1>5, <1>7
<1> QED BY <1>8 DEF Discards, all

\* The handler is done with the message at its cursor.
LEMMA AdvanceOutstanding ==
    ASSUME Inv, NEW c \in Clients, handler[c] \in {"iterate", "handling"},
           cursor[c] # <<>>, inHand'[c] = inHand[c], wire'[c] = wire[c],
           Before(c)' = Tail(cursor[c])
    PROVE  /\ Outstanding(c) # <<>>
           /\ Head(Outstanding(c)) = Head(cursor[c])
           /\ Outstanding(c)' = Tail(Outstanding(c))
<1>1. Before(c) = cursor[c]
      BY DEF Before, Executed, Remaining, HandlerMtxFree
<1>2. /\ Before(c) \in Seq(Message) /\ inHand[c] \in Seq(Message)
      /\ wire[c] \in Seq(Message)
      /\ Outstanding(c) = Before(c) \o inHand[c] \o wire[c]
      BY OutstandingType
<1>3. Outstanding(c)' = Tail(Before(c)) \o inHand[c] \o wire[c]
      BY <1>1 DEF Outstanding, Before
<1> DEFINE b == Before(c)  h == inHand[c]  w == wire[c]
<1>4. b \in Seq(Message) /\ b # <<>> /\ h \in Seq(Message) /\ w \in Seq(Message)
      BY <1>1, <1>2
<1> HIDE DEF b, h, w
<1>5. StartsWith(b, h, w)
      BY <1>4, HeadTailConcat
<1> QED BY <1>1, <1>2, <1>3, <1>5 DEF b, h, w, StartsWith

\* handleMessage returns, or goes on to shutdownServer: what comes after the
\* message at the cursor is still to be done.
LEMMA AfterReplyBefore ==
    ASSUME Inv, NEW c \in Clients, handler[c] = "replying", AfterReply(c)
    PROVE  Before(c)' = Before(c)
<1> USE DEF Inv, TypeOK
<1>1. Before(c) = Tail(cursor[c])
      BY DEF Before, Executed
<1>2. CASE Return(c)
      <2>1. handler'[c] = "iterate" /\ cursor'[c] = Tail(cursor[c])
            BY <1>2 DEF Return, Advance
      <2> QED BY <1>1, <2>1 DEF Before, Executed, Remaining, HandlerMtxFree
<1>3. CASE handler' = [handler EXCEPT ![c] = "shutdown"] /\ cursor' = cursor
      <2>1. handler'[c] = "shutdown" /\ cursor'[c] = cursor[c]
            BY <1>3
      <2> QED BY <1>1, <2>1 DEF Before, Executed
<1> QED BY <1>2, <1>3 DEF AfterReply

LEMMA ClientMaps ==
    ASSUME Inv, NEW c \in Clients, ClientStep(c)
    PROVE  Maps(c)
<1>1. CASE ClientSend(c)
      <2>1. PICK k \in Kinds :
               LET m == [n |-> Len(offered[c]) + 1, kind |-> k] IN
               wire' = [wire EXCEPT ![c] = Append(@, m)]
            BY <1>1 DEF ClientSend
      <2> DEFINE m == [n |-> Len(offered[c]) + 1, kind |-> k]
                 x == Before(c) \o inHand[c]
      <2>2. Len(offered[c]) \in Nat /\ Len(offered[c]) < MaxRequests
            BY <1>1, LenProperties DEF Inv, TypeOK, ClientSend
      <2>3. m \in Message
            BY <2>2, DispatchAssumption DEF Message
      <2>4. wire'[c] = Append(wire[c], m)
            BY <2>1 DEF Inv, TypeOK
      <2> HIDE DEF m
      <2>5. Before(c)' = Before(c) /\ inHand'[c] = inHand[c]
            BY <1>1 DEF ClientSend, Before, Executed, Remaining, HandlerMtxFree
      <2>6. /\ x \in Seq(Message) /\ wire[c] \in Seq(Message)
            /\ Outstanding(c) = x \o wire[c]
            BY OutstandingType
      <2>7. Outstanding(c)' = x \o Append(wire[c], m)
            BY <2>4, <2>5 DEF Outstanding, Before
      <2> HIDE DEF x
      <2>8. Outstanding(c)' = Append(Outstanding(c), m)
            BY <2>3, <2>6, <2>7, PipeSend
      <2> QED BY <1>1, <2>3, <2>8 DEF ClientSend, Offers, Maps
<1>2. CASE ClientRead(c)
      BY <1>2, SameOutstanding DEF ClientRead, Before, Executed, Remaining,
         HandlerMtxFree, Idle, Maps
<1>3. CASE ClientClose(c)
      BY <1>3, SameOutstanding DEF ClientClose, Before, Executed, Remaining,
         HandlerMtxFree, Idle, Maps
<1>4. CASE ClientReset(c)
      <2>1. PICK k \in 0 .. Len(wire[c]) : Reset(c, k)
            BY <1>4 DEF ClientReset
      <2>2. Before(c)' = Before(c)
            BY <1>4 DEF ClientReset, Before, Executed, Remaining, HandlerMtxFree
      <2>3. Discards(c)
            BY <1>4, <2>1, <2>2, ResetDiscards DEF ClientReset
      <2> QED BY <2>3 DEF Maps
<1> QED BY <1>1, <1>2, <1>3, <1>4 DEF ClientStep

LEMMA ReceiverMaps ==
    ASSUME Inv, NEW c \in Clients, ReceiverStep(c)
    PROVE  Maps(c)
<1> USE DEF Maps
<1>1. CASE ReceiverRecv(c)
      <2> DEFINE x == Before(c)  w == wire[c]
      <2>1. /\ inHand[c] = <<>> /\ w # <<>>
            /\ inHand'[c] = <<Head(w)>> /\ wire'[c] = Tail(w)
            BY <1>1 DEF ReceiverRecv, Inv, Places, TypeOK
      <2>2. /\ x \in Seq(Message) /\ w \in Seq(Message)
            /\ Outstanding(c) = x \o <<>> \o w
            BY <2>1, OutstandingType
      <2>3. Before(c)' = x
            BY <1>1 DEF ReceiverRecv, Before, Executed, Remaining,
               HandlerMtxFree
      <2>4. Outstanding(c)' = x \o <<Head(w)>> \o Tail(w)
            BY <2>1, <2>3 DEF Outstanding, Before
      <2> HIDE DEF x, w
      <2>5. x \o <<>> = x /\ x \o w = (x \o <<Head(w)>>) \o Tail(w)
            BY <2>1, <2>2, PipeShift, ConcatEmptySeq
      <2> QED BY <1>1, <2>2, <2>4, <2>5 DEF ReceiverRecv, Idle
<1>2. CASE ReceiverEof(c)
      BY <1>2, SameOutstanding DEF ReceiverEof, Before, Executed, Remaining,
         HandlerMtxFree, Idle
<1>3. CASE ReceiverSpins(c)
      BY <1>3, SameOutstanding DEF ReceiverSpins, Before, Executed, Remaining,
         HandlerMtxFree, Idle
<1>4. CASE ReceiverError(c)
      <2>1. Before(c)' = Before(c) /\ wire'[c] = wire[c] /\ graph' = graph
            BY <1>4 DEF ReceiverError, Before, Executed, Remaining,
               HandlerMtxFree
      <2>2. CASE alive' = FALSE /\ UNCHANGED inHand
            <3>1. Outstanding(c)' = Outstanding(c)
                  BY <2>1, <2>2, SameOutstanding
            <3> QED BY <1>4, <2>1, <2>2, <3>1 DEF ReceiverError, Dies
      <2>3. CASE /\ inHand' = [inHand EXCEPT ![c] = <<Bogus>>]
                 /\ UNCHANGED alive
            <3> DEFINE x == Before(c)
            <3>1. /\ inHand[c] = <<>> /\ wire[c] = <<>>
                  /\ inHand'[c] = <<Bogus>>
                  BY <1>4, <2>3 DEF ReceiverError, Inv, Places, TypeOK
            <3>2. x \in Seq(Message) /\ Outstanding(c) = x \o <<>> \o <<>>
                  BY <3>1, OutstandingType
            <3>3. Outstanding(c)' = x \o <<Bogus>> \o <<>>
                  BY <2>1, <3>1 DEF Outstanding, Before
            <3> HIDE DEF x
            <3>4. Bogus \in Message
                  BY DispatchAssumption DEF Bogus, Message, AllKinds
            <3>5. /\ x \o <<>> = x
                  /\ x \o <<Bogus>> \in Seq(Message)
                  /\ Append(x, Bogus) = x \o <<Bogus>>
                  BY <3>2, <3>4, ConcatEmptySeq, AppendIsConcat,
                     AppendProperties
            <3>6. (x \o <<Bogus>>) \o <<>> = x \o <<Bogus>>
                  BY <3>5, ConcatEmptySeq
            <3>7. Outstanding(c)' = Append(Outstanding(c), Bogus)
                  BY <3>2, <3>3, <3>5, <3>6
            <3> QED BY <1>4, <2>1, <2>3, <3>4, <3>7 DEF ReceiverError, Offers
      <2> QED BY <1>4, <2>2, <2>3 DEF ReceiverError
<1>5. CASE ReceiverDispatch(c)
      <2> DEFINE q == threadQueue[c]  h == inHand[c]  w == wire[c]
      <2>1. /\ Before(c) = q /\ Before(c)' = q \o h
            /\ inHand'[c] = <<>> /\ wire'[c] = w
            BY <1>5 DEF ReceiverDispatch, PushBack, Notify, Before, Executed,
               Remaining, HandlerMtxFree, Inv, TypeOK
      <2>2. /\ q \in Seq(Message) /\ h \in Seq(Message)
            /\ Outstanding(c) = q \o h \o w
            BY <2>1, OutstandingType
      <2>3. Outstanding(c)' = (q \o h) \o <<>> \o w
            BY <2>1 DEF Outstanding, Before
      <2> HIDE DEF q, h, w
      <2>4. (q \o h) \o <<>> = q \o h
            BY <2>2, ConcatProperties, ConcatEmptySeq
      <2> QED BY <1>5, <2>2, <2>3, <2>4
              DEF ReceiverDispatch, PushBack, Notify, Idle
<1> QED BY <1>1, <1>2, <1>3, <1>4, <1>5 DEF ReceiverStep

LEMMA HandlerMaps ==
    ASSUME RInv, NEW c \in Clients, HandlerStep(c)
    PROVE  Maps(c)
<1> USE DEF Maps, RInv
<1>1. CASE HandlerLock(c)
      <2>1. Before(c)' = Before(c)
            BY <1>1 DEF HandlerLock, Before, Executed, Remaining,
               HandlerMtxFree, Inv, TypeOK
      <2> QED BY <1>1, <2>1, SameOutstanding DEF HandlerLock, Idle
<1>2. CASE SkipEmpty(c)
      <2>1. /\ cursor[c] # <<>>
            /\ Before(c)' = Tail(cursor[c])
            BY <1>2 DEF SkipEmpty, Advance, Before, Executed, Remaining,
               HandlerMtxFree, Inv, TypeOK
      <2>2. /\ Outstanding(c) # <<>>
            /\ Head(Outstanding(c)) = Head(cursor[c])
            /\ Outstanding(c)' = Tail(Outstanding(c))
            BY <1>2, <2>1, AdvanceOutstanding DEF SkipEmpty
      <2> QED BY <1>2, <2>2 DEF SkipEmpty, Serves
<1>3. CASE EndBatch(c)
      <2>1. Before(c)' = Before(c)
            BY <1>3 DEF EndBatch, Before, Executed, Remaining,
               HandlerMtxFree, Inv, TypeOK
      <2> QED BY <1>3, <2>1, SameOutstanding DEF EndBatch, Idle
<1>4. CASE BeginHandle(c)
      <2>1. Before(c)' = Before(c)
            BY <1>4 DEF BeginHandle, Before, Executed, Remaining,
               HandlerMtxFree, Inv, TypeOK
      <2> QED BY <1>4, <2>1, SameOutstanding DEF BeginHandle, Idle
<1>5. CASE Execute(c) \/ ExecuteSilent(c)
      <2>1. /\ cursor[c] # <<>> /\ handler[c] = "handling" /\ alive
            /\ Effect(c) /\ alive' = alive
            /\ inHand'[c] = inHand[c] /\ wire'[c] = wire[c]
            /\ Head(cursor[c]).kind # "empty"
            BY <1>5 DEF Execute, ExecuteSilent, Inv, Places
      <2>2. Before(c)' = Tail(cursor[c])
            <3>1. CASE Execute(c)
                  BY <3>1 DEF Execute, Before, Executed, Inv, TypeOK
            <3>2. CASE ExecuteSilent(c)
                  BY <3>2 DEF ExecuteSilent, Return, Advance, Before, Executed,
                     Remaining, HandlerMtxFree, Inv, TypeOK
            <3> QED BY <1>5, <3>1, <3>2
      <2>3. /\ Outstanding(c) # <<>>
            /\ Head(Outstanding(c)) = Head(cursor[c])
            /\ Outstanding(c)' = Tail(Outstanding(c))
            BY <2>1, <2>2, AdvanceOutstanding
      <2>4. graph' = Append(graph, <<c, Head(cursor[c])>>)
            BY <2>1, EffectIsAppend
      <2>5. ~Abstract!Stopping
            BY <2>1, NoEffectAfterKill
      <2> QED BY <2>1, <2>3, <2>4, <2>5 DEF Serves
<1>6. CASE ExecuteThrows(c)
      <2>1. Outstanding(c)' = Outstanding(c)
            BY <1>6, SameOutstanding DEF ExecuteThrows, Before, Executed,
               Remaining, HandlerMtxFree
      <2> QED BY <1>6, <2>1 DEF ExecuteThrows, Dies
<1>7. CASE SendReply(c)
      <2>1. Before(c)' = Before(c)
            BY <1>7, AfterReplyBefore DEF SendReply
      <2> QED BY <1>7, <2>1, SameOutstanding DEF SendReply, Reply, Idle
<1>8. CASE SendToGone(c)
      <2>1. CASE AfterReply(c) /\ UNCHANGED alive
            <3>1. Before(c)' = Before(c) /\ inHand'[c] = inHand[c]
                  BY <1>8, <2>1, AfterReplyBefore DEF SendToGone
            <3>2. CASE \E k \in 0 .. Len(wire[c]) : Reset(c, k)
                  BY <1>8, <2>1, <3>1, <3>2, ResetDiscards DEF SendToGone
            <3>3. CASE UNCHANGED wire
                  BY <1>8, <2>1, <3>1, <3>3, SameOutstanding
                  DEF SendToGone, Idle
            <3> QED BY <1>8, <2>1, <3>2, <3>3 DEF SendToGone
      <2>2. CASE alive' = FALSE /\ UNCHANGED <<wire, handler, cursor>>
            <3>1. Outstanding(c)' = Outstanding(c)
                  BY <1>8, <2>2, SameOutstanding DEF SendToGone, Before,
                     Executed, Remaining, HandlerMtxFree
            <3> QED BY <1>8, <2>2, <3>1 DEF SendToGone, Dies
      <2> QED BY <1>8, <2>1, <2>2 DEF SendToGone
<1> QED BY <1>1, <1>2, <1>3, <1>4, <1>5, <1>6, <1>7, <1>8 DEF HandlerStep

LEMMA StepMaps ==
    ASSUME RInv, NEW c \in Clients, Step(c)
    PROVE  Maps(c)
<1>1. CASE SpuriousWake(c)
      <2>1. Before(c)' = Before(c)
            BY <1>1 DEF SpuriousWake, Before, Executed, Remaining,
               HandlerMtxFree, RInv, Inv, TypeOK
      <2> QED BY <1>1, <2>1, SameOutstanding DEF SpuriousWake, Idle, Maps
<1>2. CASE ShutdownAborts(c)
      <2>1. Outstanding(c)' = Outstanding(c)
            BY <1>2, SameOutstanding DEF ShutdownAborts, Before, Executed,
               Remaining, HandlerMtxFree
      <2> QED BY <1>2, <2>1 DEF ShutdownAborts, Dies, Maps
<1> QED BY <1>1, <1>2, ClientMaps, ReceiverMaps, HandlerMaps DEF Step, RInv

-----------------------------------------------------------------------------
(* The refinement *)

LEMMA InitRefines == Init => RInv /\ Abstract!Init
<1> SUFFICES ASSUME Init PROVE RInv /\ Abstract!Init
    OBVIOUS
<1>1. Fresh
      BY DEF Init, Fresh
<1>2. KillHeld
      BY DEF Init, KillHeld, Abstract!Stopping
<1>3. ASSUME NEW c \in Clients PROVE Outstanding(c) = <<>>
      <2> <<>> \o <<>> = <<>>
          BY EmptySeq, ConcatEmptySeq
      <2> QED BY DEF Init, Outstanding, Executed, Remaining, HandlerMtxFree
<1> QED BY <1>1, <1>2, <1>3, InitInv DEF RInv, Init, Abstract!Init

LEMMA RInvStep == RInv /\ [Next]_vars => RInv'
<1> SUFFICES ASSUME RInv, [Next]_vars PROVE RInv'
    OBVIOUS
<1>1. Inv'
      BY InvStep DEF RInv
<1>2. CASE Next
      BY <1>1, <1>2, FreshStep, KillHeldStep DEF Next, Step, RInv
<1>3. CASE UNCHANGED vars
      <2>1. Fresh'
            BY <1>3 DEF RInv, Fresh, vars
      <2>2. KillHeld'
            BY <1>3 DEF RInv, KillHeld, Executed, Abstract!Stopping, vars
      <2> QED BY <1>1, <2>1, <2>2 DEF RInv
<1> QED BY <1>2, <1>3

LEMMA NextRefines == RInv /\ [Next]_vars => [Abstract!Next]_(Abstract!vars)
<1> SUFFICES ASSUME RInv, [Next]_vars
             PROVE  Abstract!Next \/ UNCHANGED <<alive, Pending, graph>>
    BY DEF Abstract!vars, Pending
<1>1. ASSUME NEW c \in Clients, Step(c)
      PROVE  Abstract!Next \/ UNCHANGED <<alive, Pending, graph>>
      <2>1. Maps(c)
            BY <1>1, StepMaps
      <2>2. /\ Pending' = [Pending EXCEPT ![c] = Outstanding(c)']
            /\ Pending[c] = Outstanding(c)
            BY <1>1, PendingStep DEF RInv, Pending
      <2>3. Outstanding(c)' = Outstanding(c) => Pending' = Pending
            BY <2>2 DEF Pending
      <2>4. CASE Idle(c)
            BY <2>3, <2>4 DEF Idle
      <2>5. CASE Offers(c)
            <3>1. Abstract!Offer(c)
                  BY <2>2, <2>5 DEF Offers, Abstract!Offer, Pending
            <3> QED BY <3>1 DEF Abstract!Next
      <2>6. CASE Discards(c)
            <3>1. Abstract!Discard(c)
                  BY <2>2, <2>6 DEF Discards, Abstract!Discard, Pending
            <3> QED BY <3>1 DEF Abstract!Next
      <2>7. CASE Serves(c)
            <3>1. Abstract!Serve(c)
                  BY <2>2, <2>7 DEF Serves, Abstract!Serve, Pending
            <3> QED BY <3>1 DEF Abstract!Next
      <2>8. CASE Dies(c)
            <3>1. Abstract!Die
                  BY <2>3, <2>8, InvStep DEF Dies, Abstract!Die, Pending, RInv,
                     Inv, TypeOK
            <3> QED BY <3>1 DEF Abstract!Next
      <2> QED BY <2>1, <2>4, <2>5, <2>6, <2>7, <2>8 DEF Maps
<1>2. CASE UNCHANGED vars
      BY <1>2 DEF vars, Pending, Outstanding, Executed, Remaining,
         HandlerMtxFree
<1> QED BY <1>1, <1>2 DEF Next, Step

\* The server with its threads, queues and mutexes implements the server that
\* serves one message at a time: the messages of a client in order, each
\* once, each in one step on the graph, and none after a "KILL".
THEOREM Refinement == Spec => ImplementsRequestReply
<1>1. Spec => []RInv
      BY InitRefines, RInvStep, PTL DEF Spec
<1>2. RInv /\ [Next]_vars => [Abstract!Next]_(Abstract!vars)
      BY NextRefines
<1>3. Spec => Abstract!Init /\ [][Abstract!Next]_(Abstract!vars)
      BY <1>1, <1>2, InitRefines, PTL DEF Spec
<1> QED BY <1>3 DEF ImplementsRequestReply, Abstract!Spec
-----------------------------------------------------------------------------
(* The effects of the requests of a client, and the replies to them *)

\* A request is known by its place among the messages of its client.
Numbered(c) ==
    \A i \in 1 .. Len(offered[c]) :
       offered[c][i].kind # "empty" => offered[c][i].n = i

HasReply(m) == m.kind \in {"reply", "kill"}

\* A request that stays at the cursor after its branch is one with a reply.
Replying(c) == Executed(c) => HasReply(Head(cursor[c]))

\* The entries of c in the graph are the requests handled, in their order.
Effects(c) ==
    /\ \A j \in EntriesOf(c) : \E i \in 1 .. Handled(c) :
          offered[c][i].kind # "empty" /\ graph[j][2] = offered[c][i]
    /\ \A i \in 1 .. Handled(c) :
          offered[c][i].kind # "empty" =>
             \E j \in EntriesOf(c) : graph[j][2] = offered[c][i]
    /\ \A j, k \in EntriesOf(c) : j < k => graph[j][2].n < graph[k][2].n

\* The replies sent to c, read or not.
Got(c) == read[c] \o replies[c]

\* They are the numbers of the requests answered, in their order.
Answers(c) ==
    channel[c] = "open" =>
       /\ \A i \in 1 .. Len(Got(c)) : \E k \in 1 .. Answered(c) :
             HasReply(offered[c][k]) /\ Got(c)[i] = k
       /\ \A k \in 1 .. Answered(c) :
             HasReply(offered[c][k]) => \E i \in 1 .. Len(Got(c)) : Got(c)[i] = k
       /\ Increasing(Got(c))

EInv ==
    /\ Inv
    /\ Fresh
    /\ \A c \in Clients : Numbered(c) /\ Replying(c) /\ Effects(c) /\ Answers(c)

\* How much of what c offered is behind the wire, handled and answered.
LEMMA Lengths ==
    ASSUME Inv, NEW c \in Clients
    PROVE  /\ offered[c] \in Seq(Message)
           /\ Len(done[c]) \in Nat
           /\ Len(offered[c]) \in Nat
           /\ Len(Front(c)) \in Nat
           /\ Len(offered[c]) = Len(Front(c)) + Len(wire[c])
           /\ Len(wire[c]) \in Nat
           /\ Handled(c) \in Len(done[c]) .. Len(done[c]) + 1
           /\ Answered(c) \in Len(done[c]) .. Handled(c)
           /\ Handled(c) <= Len(Front(c))
<1> DEFINE d == done[c]  r == Remaining(c)  h == inHand[c]  w == wire[c]
<1>1. /\ d \in Seq(Message) /\ r \in Seq(Message) /\ h \in Seq(Message)
      /\ w \in Seq(Message) /\ offered[c] \in Seq(Message)
      /\ offered[c] = Front(c) \o w /\ Front(c) = (d \o r) \o h
      BY FrontType DEF Inv, TypeOK, Pipe, Front
<1>2. Executed(c) => r # <<>>
      BY DEF Executed, Inv, Places, Remaining, HandlerMtxFree
<1>3. /\ Handled(c) = Len(d) + (IF Executed(c) THEN 1 ELSE 0)
      /\ Answered(c) = Len(d) + (IF handler[c] = "shutdown" THEN 1 ELSE 0)
      /\ handler[c] = "shutdown" => Executed(c)
      BY DEF Handled, Answered, Executed
<1> HIDE DEF d, r, h, w
<1>4. /\ d \o r \in Seq(Message) /\ Len(d \o r) = Len(d) + Len(r)
      BY <1>1, ConcatProperties
<1>5. /\ (d \o r) \o h \in Seq(Message)
      /\ Len((d \o r) \o h) = Len(d \o r) + Len(h)
      BY <1>1, <1>4, ConcatProperties
<1>6. Len(Front(c) \o w) = Len(Front(c)) + Len(w)
      BY <1>1, <1>5, ConcatProperties
<1>7. /\ Len(d) \in Nat /\ Len(r) \in Nat /\ Len(h) \in Nat /\ Len(w) \in Nat
      /\ Executed(c) => Len(r) >= 1
      BY <1>1, <1>2, LenProperties, EmptySeq
<1>8. Len(Front(c)) = Len(d) + Len(r) + Len(h)
      BY <1>1, <1>4, <1>5
<1>9. /\ Handled(c) \in Len(d) .. Len(d) + 1
      /\ Answered(c) \in Len(d) .. Handled(c)
      /\ Handled(c) <= Len(d) + Len(r)
      <2>1. CASE Executed(c) /\ handler[c] = "shutdown"
            BY <1>3, <1>7, <2>1
      <2>2. CASE Executed(c) /\ handler[c] # "shutdown"
            BY <1>3, <1>7, <2>2
      <2>3. CASE ~Executed(c)
            BY <1>3, <1>7, <2>3
      <2> QED BY <2>1, <2>2, <2>3
<1>10. /\ Len(Front(c)) \in Nat
       /\ Len(offered[c]) = Len(Front(c)) + Len(w)
       /\ Len(offered[c]) \in Nat
       /\ Handled(c) <= Len(Front(c))
       BY <1>1, <1>6, <1>7, <1>8, <1>9
<1> QED BY <1>1, <1>7, <1>9, <1>10 DEF d, w

\* A sequence put before another keeps its elements.
LEMMA ConcatPrefix ==
    ASSUME NEW x \in Seq(Message), NEW y \in Seq(Message),
           NEW k \in 1 .. Len(x)
    PROVE  /\ x \o y \in Seq(Message)
           /\ k \in 1 .. Len(x \o y)
           /\ (x \o y)[k] = x[k]
<1>1. /\ x \o y \in Seq(Message) /\ Len(x \o y) = Len(x) + Len(y)
      /\ \A i \in 1 .. Len(x) + Len(y) :
            (x \o y)[i] = IF i <= Len(x) THEN x[i] ELSE y[i - Len(x)]
      BY ConcatProperties
<1>2. Len(x) \in Nat /\ Len(y) \in Nat
      BY LenProperties
<1> QED BY <1>1, <1>2

\* The message at the cursor comes right after those the loop has finished.
LEMMA CursorPlace ==
    ASSUME Inv, NEW c \in Clients, ~HandlerMtxFree(c), cursor[c] # <<>>
    PROVE  /\ Len(done[c]) + 1 <= Len(Front(c))
           /\ offered[c][Len(done[c]) + 1] = Head(cursor[c])
           /\ Head(cursor[c]) \in Message
<1> DEFINE d == done[c]  q == cursor[c]  h == inHand[c]  w == wire[c]
<1>1. /\ d \in Seq(Message) /\ q \in Seq(Message) /\ h \in Seq(Message)
      /\ w \in Seq(Message) /\ q # <<>>
      /\ offered[c] = ((d \o q) \o h) \o w /\ Front(c) = (d \o q) \o h
      BY DEF Inv, TypeOK, Pipe, Front, Remaining
<1>2. q[1] = Head(cursor[c]) /\ Head(cursor[c]) \in Message
      BY <1>1, HeadTailProperties
<1> HIDE DEF d, q, h, w
<1>3. /\ Len(d) \in Nat /\ Len(q) \in Nat \ {0} /\ Len(h) \in Nat
      /\ Len(w) \in Nat
      BY <1>1, LenProperties, EmptySeq
<1> DEFINE i == Len(d) + 1
<1>4. /\ d \o q \in Seq(Message) /\ Len(d \o q) = Len(d) + Len(q)
      /\ (d \o q)[i] = q[1]
      <2>1. /\ d \o q \in Seq(Message) /\ Len(d \o q) = Len(d) + Len(q)
            /\ \A k \in 1 .. Len(d) + Len(q) :
                  (d \o q)[k] = IF k <= Len(d) THEN d[k] ELSE q[k - Len(d)]
            BY <1>1, ConcatProperties
      <2>2. i \in 1 .. Len(d) + Len(q) /\ ~(i <= Len(d)) /\ i - Len(d) = 1
            BY <1>3
      <2> QED BY <2>1, <2>2
<1>5. i \in 1 .. Len(d \o q) /\ Len(d \o q) \in Nat
      BY <1>3, <1>4
<1> HIDE DEF i
<1> DEFINE x == d \o q  y == x \o h
<1>6. x \in Seq(Message) /\ i \in 1 .. Len(x) /\ x[i] = q[1]
      BY <1>4, <1>5
<1> HIDE DEF x
<1>8. y \in Seq(Message) /\ i \in 1 .. Len(y) /\ y[i] = q[1]
      BY <1>1, <1>6, ConcatPrefix
<1> HIDE DEF y
<1>9. (y \o w)[i] = q[1]
      BY <1>1, <1>8, ConcatPrefix
<1> QED BY <1>1, <1>2, <1>8, <1>9, LenProperties DEF d, i, x, y

\* What a step may do to the messages c has offered: the wire takes one more,
\* or loses its end.
Extends(c) ==
    \/ offered'[c] = offered[c]
    \/ \E m \in Message :
          /\ m.kind # "empty" => m.n = Len(offered[c]) + 1
          /\ offered'[c] = Append(offered[c], m)
    \/ \E n \in Len(Front(c)) .. Len(offered[c]) :
          offered'[c] = SubSeq(offered[c], 1, n)

LEMMA ResetExtends ==
    ASSUME Inv, NEW c \in Clients, \E k \in 0 .. Len(wire[c]) : Reset(c, k)
    PROVE  Extends(c)
<1>1. PICK k \in 0 .. Len(wire[c]) : Reset(c, k)
      OBVIOUS
<1> DEFINE n == Len(offered[c]) - Len(wire[c]) + k
<1>2. offered'[c] = SubSeq(offered[c], 1, n)
      BY <1>1 DEF Reset, Inv, TypeOK
<1>3. n \in Len(Front(c)) .. Len(offered[c])
      <2> DEFINE f == Len(Front(c))  o == Len(offered[c])  w == Len(wire[c])
      <2>1. f \in Nat /\ w \in Nat /\ o = f + w /\ k \in 0 .. w
            BY Lengths
      <2> HIDE DEF f, o, w
      <2>2. o - w + k \in f .. o
            BY <2>1
      <2> QED BY <2>2 DEF f, o, w
<1> QED BY <1>2, <1>3 DEF Extends

LEMMA OfferedStep ==
    ASSUME Inv, NEW c \in Clients, Step(c)
    PROVE  Extends(c)
<1>1. CASE ClientSend(c)
      <2>1. PICK k \in Kinds :
               offered' = [offered EXCEPT ![c] =
                             Append(@, [n |-> Len(offered[c]) + 1, kind |-> k])]
            BY <1>1 DEF ClientSend
      <2> DEFINE m == [n |-> Len(offered[c]) + 1, kind |-> k]
      <2>2. Len(offered[c]) \in Nat /\ Len(offered[c]) < MaxRequests
            BY <1>1, Lengths DEF ClientSend
      <2>3. m \in Message /\ m.n = Len(offered[c]) + 1
            BY <2>2, DispatchAssumption DEF Message
      <2>4. offered'[c] = Append(offered[c], m)
            BY <2>1 DEF Inv, TypeOK
      <2> HIDE DEF m
      <2> QED BY <2>3, <2>4 DEF Extends
<1>2. CASE ClientReset(c)
      BY <1>2, ResetExtends DEF ClientReset
<1>3. CASE ReceiverError(c)
      <2>1. \/ offered' = offered
            \/ offered' = [offered EXCEPT ![c] = Append(@, Bogus)]
            BY <1>3 DEF ReceiverError
      <2>2. Bogus \in Message /\ Bogus.kind = "empty"
            BY DispatchAssumption DEF Bogus, Message, AllKinds
      <2> QED BY <2>1, <2>2 DEF Extends, Inv, TypeOK
<1>4. CASE SendToGone(c)
      BY <1>4, ResetExtends DEF SendToGone, Extends
<1>5. CASE offered' = offered
      BY <1>5 DEF Extends
<1> QED BY <1>1, <1>2, <1>3, <1>4, <1>5 DEF Step, ClientStep, ReceiverStep,
           HandlerStep, ClientRead, ClientClose, ReceiverRecv, ReceiverEof,
           ReceiverSpins, ReceiverDispatch, HandlerLock, SkipEmpty, EndBatch,
           BeginHandle, Execute, ExecuteSilent, ExecuteThrows, SendReply,
           SpuriousWake, ShutdownAborts

\* What is behind the wire stays where it is in what c has offered.
LEMMA OfferedKept ==
    ASSUME Inv, NEW c \in Clients, Extends(c)
    PROVE  /\ \A i \in 1 .. Len(Front(c)) : offered'[c][i] = offered[c][i]
           /\ Numbered(c) => Numbered(c)'
<1> DEFINE o == offered[c]  p == offered'[c]  f == Len(Front(c))
<1>1. /\ o \in Seq(Message) /\ Len(o) \in Nat /\ f \in Nat /\ f <= Len(o)
      <2>1. /\ o \in Seq(Message) /\ Len(o) \in Nat /\ f \in Nat
            /\ Len(o) = f + Len(wire[c]) /\ Len(wire[c]) \in Nat
            BY Lengths
      <2> QED BY <2>1
<1>2. CASE p = o
      BY <1>2 DEF Numbered
<1>3. CASE \E m \in Message :
              (m.kind # "empty" => m.n = Len(o) + 1) /\ p = Append(o, m)
      <2>1. PICK m \in Message :
               (m.kind # "empty" => m.n = Len(o) + 1) /\ p = Append(o, m)
            BY <1>3
      <2>2. /\ Len(p) = Len(o) + 1 /\ p[Len(o) + 1] = m
            /\ \A i \in 1 .. Len(o) : p[i] = o[i]
            BY <1>1, <2>1, AppendProperties
      <2>3. Numbered(c) => Numbered(c)'
            <3> SUFFICES ASSUME Numbered(c), NEW i \in 1 .. Len(p),
                                p[i].kind # "empty"
                         PROVE  p[i].n = i
                BY DEF Numbered
            <3>1. i \in 1 .. Len(o) \/ i = Len(o) + 1
                  BY <1>1, <2>2
            <3> QED BY <2>1, <2>2, <3>1 DEF Numbered
      <2> HIDE DEF o, p, f
      <2>4. \A i \in 1 .. f : p[i] = o[i]
            BY <1>1, <2>2
      <2> QED BY <2>3, <2>4 DEF o, p, f
<1>4. CASE \E n \in f .. Len(o) : p = SubSeq(o, 1, n)
      <2>1. PICK n \in f .. Len(o) : p = SubSeq(o, 1, n)
            BY <1>4
      <2>2. n \in Nat /\ n <= Len(o) /\ f <= n
            BY <1>1
      <2>3. \A i \in 1 .. n : o[i] \in Message
            BY <1>1, <2>2, ElementOfSeq
      <2> HIDE DEF o, p, f
      <2>4. Len(p) = n /\ \A i \in 1 .. n : p[i] = o[i]
            BY <2>1, <2>2, <2>3, SubSeqProperties
      <2>5. \A i \in 1 .. f : p[i] = o[i]
            BY <1>1, <2>2, <2>4
      <2>6. Numbered(c) => Numbered(c)'
            <3> SUFFICES ASSUME Numbered(c), NEW i \in 1 .. Len(p),
                                p[i].kind # "empty"
                         PROVE  p[i].n = i
                BY DEF Numbered, p
            <3>1. i \in 1 .. Len(o) /\ p[i] = o[i]
                  BY <1>1, <2>2, <2>4
            <3> QED BY <3>1 DEF Numbered, o
      <2> QED BY <2>5, <2>6 DEF o, p, f
<1> QED BY <1>2, <1>3, <1>4 DEF Extends

LEMMA ReplyingStep ==
    ASSUME Inv, NEW c \in Clients, Replying(c), Step(c)
    PROVE  Replying(c)'
<1> USE DEF Replying, Executed, HasReply, Inv, TypeOK
<1>1. CASE Execute(c)
      BY <1>1 DEF Execute
<1>2. CASE SendReply(c) \/ SendToGone(c)
      BY <1>2 DEF SendReply, SendToGone, AfterReply, Return
<1>3. CASE Executed(c) /\ ~SendReply(c) /\ ~SendToGone(c)
      BY <1>3 DEF Step, ClientStep, ReceiverStep, HandlerStep, ClientSend,
         ClientRead, ClientClose, ClientReset, ReceiverRecv, ReceiverEof,
         ReceiverError, ReceiverSpins, ReceiverDispatch, Notify, HandlerLock,
         SkipEmpty, EndBatch, BeginHandle, Execute, ExecuteSilent,
         ExecuteThrows, SpuriousWake, ShutdownAborts
<1>4. CASE ~Executed(c) /\ ~Execute(c)
      BY <1>4 DEF Step, ClientStep, ReceiverStep, HandlerStep, ClientSend,
         ClientRead, ClientClose, ClientReset, ReceiverRecv, ReceiverEof,
         ReceiverError, ReceiverSpins, ReceiverDispatch, Notify, HandlerLock,
         SkipEmpty, EndBatch, BeginHandle, ExecuteSilent, Return,
         ExecuteThrows, SendReply, SendToGone, SpuriousWake, ShutdownAborts
<1> QED BY <1>1, <1>2, <1>3, <1>4

\* What a step of c's actors does to the messages handled and the graph.
HandlesNone(c) == graph' = graph /\ Handled(c)' = Handled(c)

Skips(c) ==
    /\ graph' = graph
    /\ Handled(c)' = Handled(c) + 1
    /\ offered[c][Handled(c) + 1].kind = "empty"

Handles(c) ==
    /\ Handled(c)' = Handled(c) + 1
    /\ offered[c][Handled(c) + 1].kind # "empty"
    /\ graph' = Append(graph, <<c, offered[c][Handled(c) + 1]>>)

\* A handler that leaves the message at its cursor has it done.
LEMMA AdvanceDone ==
    ASSUME Inv, NEW c \in Clients, cursor[c] # <<>>, Advance(c)
    PROVE  Len(done'[c]) = Len(done[c]) + 1
BY AdvanceLen DEF Inv

\* A message is handled when its branch executes, not when the reply is sent.
LEMMA AfterReplyCounts ==
    ASSUME Inv, NEW c \in Clients, handler[c] = "replying", AfterReply(c)
    PROVE  /\ Handled(c)' = Handled(c)
           /\ Answered(c)' = Answered(c) + 1
<1>1. Len(done[c]) \in Nat /\ cursor[c] # <<>>
      BY Lengths DEF Inv, Places
<1>2. CASE Return(c)
      <2>1. Len(done'[c]) = Len(done[c]) + 1 /\ handler'[c] = "iterate"
            BY <1>1, <1>2, AdvanceDone DEF Return, Inv, TypeOK
      <2> QED BY <1>1, <2>1 DEF Handled, Answered, Executed
<1>3. CASE handler' = [handler EXCEPT ![c] = "shutdown"] /\ done' = done
      <2>1. /\ handler'[c] = "shutdown" /\ Executed(c) /\ Executed(c)'
            /\ handler[c] # "shutdown"
            BY <1>3 DEF Executed, Inv, TypeOK
      <2>2. Handled(c)' = Handled(c)
            BY <1>3, <2>1 DEF Handled
      <2>3. Answered(c) = Len(done[c]) /\ Answered(c)' = Len(done[c]) + 1
            BY <1>1, <1>3, <2>1 DEF Answered
      <2> QED BY <2>2, <2>3
<1> QED BY <1>2, <1>3 DEF AfterReply

LEMMA HandledStep ==
    ASSUME Inv, Fresh, NEW c \in Clients, Step(c)
    PROVE  /\ HandlesNone(c) \/ Skips(c) \/ Handles(c)
           /\ ~HandlesNone(c) => Handled(c) + 1 <= Len(Front(c))
<1>1. CASE SkipEmpty(c)
      <2>1. /\ cursor[c] # <<>> /\ ~HandlerMtxFree(c) /\ ~Executed(c)
            /\ handler' = handler
            BY <1>1 DEF SkipEmpty, HandlerMtxFree, Executed
      <2>2. /\ Handled(c) = Len(done[c]) /\ Handled(c)' = Len(done'[c])
            BY <2>1, Lengths DEF Handled, Executed, Inv, TypeOK
      <2>3. Len(done'[c]) = Len(done[c]) + 1
            BY <1>1, <2>1, AdvanceDone DEF SkipEmpty
      <2> QED BY <1>1, <2>1, <2>2, <2>3, CursorPlace DEF SkipEmpty, Skips
<1>2. CASE Execute(c) \/ ExecuteSilent(c)
      <2>1. /\ cursor[c] # <<>> /\ ~HandlerMtxFree(c) /\ handler[c] = "handling"
            /\ Head(cursor[c]).kind # "empty"
            /\ Effect(c)
            BY <1>2 DEF Execute, ExecuteSilent, HandlerMtxFree, Inv, Places
      <2>2. Len(done[c]) \in Nat /\ Handled(c) = Len(done[c])
            BY <2>1, Lengths DEF Handled, Executed
      <2>3. Handled(c)' = Handled(c) + 1
            <3>1. CASE Execute(c)
                  <4>1. done' = done /\ handler'[c] = "replying"
                        BY <3>1 DEF Execute, Inv, TypeOK
                  <4> QED BY <2>2, <4>1 DEF Handled, Executed
            <3>2. CASE ExecuteSilent(c)
                  <4>1. /\ Len(done'[c]) = Len(done[c]) + 1
                        /\ handler'[c] = "iterate"
                        BY <2>1, <3>2, AdvanceDone
                        DEF ExecuteSilent, Return, Inv, TypeOK
                  <4>2. ~Executed(c)'
                        BY <4>1 DEF Executed
                  <4>3. Handled(c)' = Len(done'[c])
                        BY <2>2, <4>1, <4>2 DEF Handled
                  <4> QED BY <2>2, <4>1, <4>3
            <3> QED BY <1>2, <3>1, <3>2
      <2> QED BY <2>1, <2>2, <2>3, CursorPlace, EffectIsAppend DEF Handles
<1>3. CASE SendReply(c) \/ SendToGone(c)
      <2>1. graph' = graph /\ handler[c] = "replying"
            BY <1>3 DEF SendReply, SendToGone
      <2>2. AfterReply(c) \/ (handler' = handler /\ done' = done)
            BY <1>3 DEF SendReply, SendToGone
      <2> QED BY <2>1, <2>2, AfterReplyCounts DEF HandlesNone, Handled, Executed
<1>4. CASE /\ ~SkipEmpty(c) /\ ~Execute(c) /\ ~ExecuteSilent(c)
           /\ ~SendReply(c) /\ ~SendToGone(c)
      <2>1. done' = done /\ graph' = graph /\ (Executed(c)' <=> Executed(c))
            BY <1>4 DEF Step, ClientStep, ReceiverStep, HandlerStep, ClientSend,
               ClientRead, ClientClose, ClientReset, ReceiverRecv, ReceiverEof,
               ReceiverError, ReceiverSpins, ReceiverDispatch, Notify,
               HandlerLock, EndBatch, BeginHandle, ExecuteThrows, SpuriousWake,
               ShutdownAborts, Executed, Inv, TypeOK
      <2> QED BY <2>1 DEF HandlesNone, Handled
<1> QED BY <1>1, <1>2, <1>3, <1>4 DEF Skips, Handles, Step, HandlerStep

\* What a step of c's actors does to the messages answered and the replies.
AnswersNone(c) == Got(c)' = Got(c) /\ Answered(c)' = Answered(c)

Passes(c) ==
    /\ Got(c)' = Got(c)
    /\ Answered(c)' = Answered(c) + 1
    /\ ~HasReply(offered[c][Answered(c) + 1])

Replies(c) ==
    /\ Answered(c)' = Answered(c) + 1
    /\ HasReply(offered[c][Answered(c) + 1])
    /\ Got(c)' = Append(Got(c), Answered(c) + 1)

GotType == \A c \in Clients : Got(c) \in Seq(0 .. MaxRequests)

LEMMA GotTyped == Inv => GotType
BY ConcatProperties DEF Inv, TypeOK, Got, GotType

LEMMA ReadKeepsGot ==
    ASSUME Inv, NEW c \in Clients, ClientRead(c)
    PROVE  Got(c)' = Got(c)
<1> DEFINE x == read[c]  w == replies[c]  S == 0 .. MaxRequests
<1>1. /\ x \in Seq(S) /\ w \in Seq(S) /\ w # <<>>
      /\ read'[c] = Append(x, Head(w)) /\ replies'[c] = Tail(w)
      BY DEF ClientRead, Inv, TypeOK
<1> HIDE DEF x, w, S
<1>2. Head(w) \in S /\ Tail(w) \in Seq(S)
      BY <1>1, HeadTailProperties
<1>3. w = <<Head(w)>> \o Tail(w) /\ <<Head(w)>> \in Seq(S)
      BY <1>1, <1>2
<1>4. x \o w = (x \o <<Head(w)>>) \o Tail(w)
      <2> DEFINE h == <<Head(w)>>
                 r == Tail(w)
      <2>1. x \in Seq(S) /\ h \in Seq(S) /\ r \in Seq(S) /\ w = h \o r
            BY <1>1, <1>2, <1>3
      <2> HIDE DEF h, r
      <2>2. (x \o h) \o r = x \o (h \o r)
            BY <2>1, ConcatAssociative
      <2> QED BY <2>1, <2>2 DEF h, r
<1>5. Append(x, Head(w)) = x \o <<Head(w)>>
      BY <1>1, <1>2, AppendIsConcat
<1> QED BY <1>1, <1>4, <1>5 DEF Got, x, w

LEMMA AnsweredStep ==
    ASSUME Inv, NEW c \in Clients, Numbered(c), Replying(c), Step(c),
           channel'[c] = "open"
    PROVE  /\ channel[c] = "open"
           /\ AnswersNone(c) \/ Passes(c) \/ Replies(c)
           /\ ~AnswersNone(c) => Answered(c) + 1 <= Len(Front(c))
<1>a. channel[c] = "open" /\ ~SendToGone(c)
      <2>1. ~SendToGone(c)
            BY DEF SendToGone, Reset, Inv, TypeOK
      <2>2. CASE channel' = channel
            BY <2>1, <2>2
      <2>3. CASE channel' # channel
            BY <2>1, <2>3 DEF Step, ClientStep, ReceiverStep, HandlerStep,
               ClientSend, ClientRead, ClientClose, ClientReset, Reset,
               ReceiverRecv, ReceiverEof, ReceiverError, ReceiverSpins,
               ReceiverDispatch, HandlerLock, SkipEmpty, EndBatch, BeginHandle,
               Execute, ExecuteSilent, ExecuteThrows, SendReply, SpuriousWake,
               ShutdownAborts, Inv, TypeOK
      <2> QED BY <2>2, <2>3
<1>1. CASE SkipEmpty(c) \/ ExecuteSilent(c)
      <2>1. /\ cursor[c] # <<>> /\ ~HandlerMtxFree(c)
            /\ handler[c] # "shutdown" /\ handler'[c] # "shutdown"
            /\ Advance(c)
            /\ ~HasReply(Head(cursor[c]))
            /\ read' = read /\ replies' = replies
            BY <1>1 DEF SkipEmpty, ExecuteSilent, Return, HandlerMtxFree,
               HasReply, Inv, Places, TypeOK
      <2>2. /\ Answered(c) = Len(done[c]) /\ Answered(c)' = Len(done'[c])
            /\ Len(done'[c]) = Len(done[c]) + 1
            /\ Len(done[c]) \in Nat
            <3>1. Len(done'[c]) = Len(done[c]) + 1 /\ Len(done[c]) \in Nat
                  BY <2>1, AdvanceDone, Lengths
            <3> QED BY <2>1, <3>1 DEF Answered
      <2> QED BY <1>a, <2>1, <2>2, CursorPlace DEF Passes, Got
<1>2. CASE SendReply(c)
      <2>1. /\ handler[c] = "replying" /\ cursor[c] # <<>>
            /\ ~HandlerMtxFree(c) /\ Executed(c)
            /\ AfterReply(c) /\ read' = read
            /\ replies'[c] = Append(replies[c], Head(cursor[c]).n)
            BY <1>2 DEF SendReply, Reply, HandlerMtxFree, Executed, Inv, Places,
               TypeOK
      <2>2. Answered(c) = Len(done[c]) /\ Len(done[c]) \in Nat
            BY <2>1, Lengths DEF Answered
      <2>3. /\ HasReply(Head(cursor[c]))
            /\ offered[c][Answered(c) + 1] = Head(cursor[c])
            /\ Head(cursor[c]) \in Message
            /\ Answered(c) + 1 <= Len(Front(c))
            BY <2>1, <2>2, CursorPlace DEF Replying
      <2>4. Head(cursor[c]).n = Answered(c) + 1
            <3>1. Answered(c) + 1 \in 1 .. Len(offered[c])
                  <4>1. /\ Len(offered[c]) = Len(Front(c)) + Len(wire[c])
                        /\ Len(wire[c]) \in Nat /\ Len(Front(c)) \in Nat
                        BY Lengths
                  <4> QED BY <2>2, <2>3, <4>1
            <3> QED BY <2>3, <3>1 DEF Numbered, HasReply
      <2>5. Got(c)' = Append(Got(c), Answered(c) + 1)
            <3>1. /\ read[c] \in Seq(0 .. MaxRequests)
                  /\ replies[c] \in Seq(0 .. MaxRequests)
                  /\ Head(cursor[c]).n \in 0 .. MaxRequests
                  BY <2>3 DEF Inv, TypeOK, Message
            <3> DEFINE x == read[c]  w == replies[c]  n == Head(cursor[c]).n
                       S == 0 .. MaxRequests
            <3>2. x \in Seq(S) /\ w \in Seq(S) /\ n \in S
                  BY <3>1
            <3> HIDE DEF x, w, n, S
            <3>3. x \o Append(w, n) = Append(x \o w, n)
                  BY <3>2, PipeSend
            <3> QED BY <2>1, <2>4, <3>3 DEF Got, x, w, n
      <2> QED BY <1>a, <2>1, <2>3, <2>5, AfterReplyCounts DEF Replies
<1>3. CASE ClientRead(c)
      BY <1>a, <1>3, ReadKeepsGot DEF ClientRead, AnswersNone, Answered
<1>4. CASE /\ ~SkipEmpty(c) /\ ~ExecuteSilent(c) /\ ~SendReply(c)
           /\ ~ClientRead(c)
      <2>1. /\ done' = done /\ read' = read /\ replies'[c] = replies[c]
            /\ (handler'[c] = "shutdown" <=> handler[c] = "shutdown")
            BY <1>a, <1>4 DEF Step, ClientStep, ReceiverStep, HandlerStep,
               ClientSend, ClientClose, ClientReset, Reset, ReceiverRecv,
               ReceiverEof, ReceiverError, ReceiverSpins, ReceiverDispatch,
               Notify, HandlerLock, EndBatch, BeginHandle, Execute,
               ExecuteThrows, SpuriousWake, ShutdownAborts, Inv, TypeOK
      <2> QED BY <1>a, <2>1 DEF AnswersNone, Answered, Got
<1> QED BY <1>1, <1>2, <1>3, <1>4

\* The entries of d, when the graph takes one more entry of c.
LEMMA EntriesStep ==
    ASSUME TypeOK, NEW c \in Clients, NEW d \in Clients, NEW m \in Message,
           graph' = Append(graph, <<c, m>>)
    PROVE  /\ \A j \in EntriesOf(d) : j \in EntriesOf(d)' /\ graph'[j] = graph[j]
           /\ \A j \in EntriesOf(d)' :
                 \/ j \in EntriesOf(d) /\ graph'[j] = graph[j]
                 \/ d = c /\ j = Len(graph) + 1
           /\ Len(graph) + 1 \in EntriesOf(c)'
           /\ graph'[Len(graph) + 1] = <<c, m>>
           /\ \A j \in EntriesOf(d) : j \in Nat /\ j <= Len(graph)
           /\ Len(graph) \in Nat
<1>1. /\ graph \in Seq(Clients \X Message) /\ <<c, m>> \in Clients \X Message
      /\ Len(graph) \in Nat
      BY LenProperties DEF TypeOK
<1>2. /\ Len(graph') = Len(graph) + 1
      /\ \A j \in 1 .. Len(graph) : graph'[j] = graph[j]
      /\ graph'[Len(graph) + 1] = <<c, m>>
      BY <1>1, AppendProperties
<1>3. \A j \in 1 .. Len(graph') : j \in 1 .. Len(graph) \/ j = Len(graph) + 1
      BY <1>1, <1>2
<1>4. \A j \in 1 .. Len(graph) : j \in 1 .. Len(graph')
      BY <1>1, <1>2
<1> QED BY <1>1, <1>2, <1>3, <1>4 DEF EntriesOf

\* A step that handles nothing of d leaves its effects as they are.
LEMMA EffectsKept ==
    ASSUME NEW d \in Clients, Effects(d), Handled(d)' = Handled(d),
           \A i \in 1 .. Handled(d) : offered'[d][i] = offered[d][i],
           \A j \in EntriesOf(d) : j \in EntriesOf(d)' /\ graph'[j] = graph[j],
           \A j \in EntriesOf(d)' : j \in EntriesOf(d)
    PROVE  Effects(d)'
<1>1. ASSUME NEW j \in EntriesOf(d)'
      PROVE  \E i \in 1 .. Handled(d)' :
                offered'[d][i].kind # "empty" /\ graph'[j][2] = offered'[d][i]
      BY <1>1 DEF Effects
<1>2. ASSUME NEW i \in 1 .. Handled(d)', offered'[d][i].kind # "empty"
      PROVE  \E j \in EntriesOf(d)' : graph'[j][2] = offered'[d][i]
      BY <1>2 DEF Effects
<1>3. ASSUME NEW j \in EntriesOf(d)', NEW k \in EntriesOf(d)', j < k
      PROVE  graph'[j][2].n < graph'[k][2].n
      BY <1>3 DEF Effects
<1> QED BY <1>1, <1>2, <1>3 DEF Effects

LEMMA EffectsStep ==
    ASSUME Inv, Fresh, NEW c \in Clients, Numbered(c), Effects(c), Step(c)
    PROVE  Effects(c)'
<1> DEFINE H == Handled(c)  f == Len(Front(c))  o == offered[c]
           p == offered'[c]
<1>1. /\ H \in Nat /\ f \in Nat /\ H <= f /\ f <= Len(o) /\ Len(o) \in Nat
      /\ o \in Seq(Message)
      <2>1. /\ Len(done[c]) \in Nat /\ Len(o) \in Nat /\ f \in Nat
            /\ o \in Seq(Message) /\ Len(wire[c]) \in Nat
            /\ H \in Len(done[c]) .. Len(done[c]) + 1
            /\ H <= f /\ Len(o) = f + Len(wire[c])
            BY Lengths
      <2> HIDE DEF H, f, o
      <2> QED BY <2>1
<1>2. \A i \in 1 .. f : p[i] = o[i]
      BY OfferedStep, OfferedKept
<1>3. /\ HandlesNone(c) \/ Skips(c) \/ Handles(c)
      /\ Handled(c)' = H + 1 => H + 1 <= f
      <2>1. /\ HandlesNone(c) \/ Skips(c) \/ Handles(c)
            /\ ~HandlesNone(c) => H + 1 <= f
            BY HandledStep
      <2>2. HandlesNone(c) => Handled(c)' = H
            BY DEF HandlesNone
      <2> HIDE DEF H, f
      <2> QED BY <1>1, <2>1, <2>2
<1>4. \A i \in 1 .. H : p[i] = o[i]
      <2> HIDE DEF H, f, o, p
      <2> QED BY <1>1, <1>2
<1>5. CASE HandlesNone(c)
      <2>1. graph' = graph /\ Handled(c)' = H
            BY <1>5 DEF HandlesNone
      <2>2. EntriesOf(c)' = EntriesOf(c)
            BY <2>1 DEF EntriesOf
      <2> QED BY <1>4, <2>1, <2>2, EffectsKept
<1>6. CASE Skips(c)
      <2>1. /\ graph' = graph /\ Handled(c)' = H + 1 /\ o[H + 1].kind = "empty"
            /\ H + 1 <= f
            BY <1>3, <1>6 DEF Skips
      <2>2. EntriesOf(c)' = EntriesOf(c)
            BY <2>1 DEF EntriesOf
      <2> DEFINE H2 == Handled(c)'
      <2>3. H2 = H + 1
            BY <2>1
      <2>4. p[H + 1].kind = "empty"
            <3> HIDE DEF H, f, o, p
            <3>1. H + 1 \in 1 .. f
                  BY <1>1, <2>1
            <3> QED BY <1>2, <2>1, <3>1
      <2>5. ASSUME NEW j \in EntriesOf(c)
            PROVE  \E i \in 1 .. H2 : p[i].kind # "empty" /\ graph[j][2] = p[i]
            <3>1. PICK i \in 1 .. H : o[i].kind # "empty" /\ graph[j][2] = o[i]
                  BY DEF Effects
            <3> HIDE DEF H, H2, o, p
            <3>2. i \in 1 .. H2
                  BY <1>1, <2>3
            <3> QED BY <1>4, <3>1, <3>2
      <2>6. ASSUME NEW i \in 1 .. H2, p[i].kind # "empty"
            PROVE  \E j \in EntriesOf(c) : graph[j][2] = p[i]
            <3>1. i \in 1 .. H
                  <4> HIDE DEF H, H2, o, p
                  <4> QED BY <1>1, <2>3, <2>4, <2>6
            <3> QED BY <1>4, <2>6, <3>1 DEF Effects
      <2> QED BY <2>1, <2>2, <2>5, <2>6 DEF Effects
<1>7. CASE Handles(c)
      <2> DEFINE H2 == Handled(c)'  m == o[H + 1]  L == Len(graph) + 1
      <2>1. /\ graph' = Append(graph, <<c, m>>) /\ H2 = H + 1
            /\ m.kind # "empty"
            BY <1>7 DEF Handles
      <2>2. H + 1 \in 1 .. f /\ H + 1 \in 1 .. Len(o)
            <3>1. H + 1 <= f
                  BY <1>3, <2>1
            <3> HIDE DEF H, f, o
            <3> QED BY <1>1, <3>1
      <2>3. m \in Message /\ m.n = H + 1 /\ p[H + 1] = m
            <3>1. m \in Message /\ p[H + 1] = m
                  BY <1>1, <1>2, <2>2, ElementOfSeq
            <3>2. m.n = H + 1
                  BY <2>1, <2>2 DEF Numbered
            <3> QED BY <3>1, <3>2
      <2> HIDE DEF m
      <2>4. /\ \A j \in EntriesOf(c) :
                  j \in EntriesOf(c)' /\ graph'[j] = graph[j]
            /\ \A j \in EntriesOf(c)' :
                  (j \in EntriesOf(c) /\ graph'[j] = graph[j]) \/ j = L
            /\ L \in EntriesOf(c)' /\ graph'[L] = <<c, m>>
            /\ \A j \in EntriesOf(c) : j \in Nat /\ j < L
            <3>1. TypeOK
                  BY DEF Inv
            <3>2. /\ \A j \in EntriesOf(c) :
                        j \in EntriesOf(c)' /\ graph'[j] = graph[j]
                  /\ \A j \in EntriesOf(c)' :
                        (j \in EntriesOf(c) /\ graph'[j] = graph[j]) \/ j = L
                  /\ L \in EntriesOf(c)' /\ graph'[L] = <<c, m>>
                  BY <2>1, <2>3, <3>1, EntriesStep
            <3>3. \A j \in EntriesOf(c) : j \in Nat /\ j <= Len(graph)
                  BY <2>1, <2>3, <3>1, EntriesStep
            <3>4. Len(graph) \in Nat
                  BY <2>1, <2>3, <3>1, EntriesStep
            <3> QED BY <3>2, <3>3, <3>4
      <2>5. ASSUME NEW j \in EntriesOf(c)'
            PROVE  \E i \in 1 .. H2 :
                      p[i].kind # "empty" /\ graph'[j][2] = p[i]
            <3> HIDE DEF H2, L
            <3>1. CASE j \in EntriesOf(c) /\ graph'[j] = graph[j]
                  <4>1. PICK i \in 1 .. H :
                           o[i].kind # "empty" /\ graph[j][2] = o[i]
                        BY <3>1 DEF Effects
                  <4> HIDE DEF H, o, p
                  <4>2. i \in 1 .. H2
                        BY <1>1, <2>1
                  <4> QED BY <1>4, <3>1, <4>1, <4>2
            <3>2. CASE j = L
                  <4> HIDE DEF H, o, p
                  <4>1. H + 1 \in 1 .. H2
                        BY <1>1, <2>1
                  <4>2. graph'[j][2] = m
                        BY <2>4, <3>2
                  <4> QED BY <2>1, <2>3, <4>1, <4>2
            <3> QED BY <2>4, <3>1, <3>2
      <2>6. ASSUME NEW i \in 1 .. H2, p[i].kind # "empty"
            PROVE  \E j \in EntriesOf(c)' : graph'[j][2] = p[i]
            <3>1. i \in 1 .. H \/ i = H + 1
                  <4> HIDE DEF H, H2
                  <4> QED BY <1>1, <2>1
            <3>2. CASE i \in 1 .. H
                  <4>1. PICK j \in EntriesOf(c) : graph[j][2] = o[i]
                        BY <1>4, <2>6, <3>2 DEF Effects
                  <4> QED BY <1>4, <2>4, <3>2, <4>1
            <3>3. CASE i = H + 1
                  BY <2>3, <2>4, <3>3
            <3> QED BY <3>1, <3>2, <3>3
      <2>7. ASSUME NEW j \in EntriesOf(c)', NEW k \in EntriesOf(c)', j < k
            PROVE  graph'[j][2].n < graph'[k][2].n
            <3>1. j \in EntriesOf(c) /\ graph'[j] = graph[j]
                  <4> HIDE DEF L
                  <4>1. L \in Nat
                        BY <2>1, <2>3, EntriesStep DEF Inv, L
                  <4>2. k \in Nat /\ k <= L
                        BY <2>4, <4>1
                  <4>3. j # L
                        BY <2>7, <4>1, <4>2
                  <4> QED BY <2>4, <4>3
            <3>2. CASE k \in EntriesOf(c) /\ graph'[k] = graph[k]
                  BY <2>7, <3>1, <3>2 DEF Effects
            <3>3. CASE k = L
                  <4>1. PICK i \in 1 .. H :
                           o[i].kind # "empty" /\ graph[j][2] = o[i]
                        BY <3>1 DEF Effects
                  <4>2. i \in 1 .. Len(o) /\ i < H + 1
                        <5> HIDE DEF H, f, o
                        <5> QED BY <1>1
                  <4>3. graph'[j][2].n = i
                        BY <3>1, <4>1, <4>2 DEF Numbered
                  <4>4. graph'[k][2].n = H + 1
                        BY <2>3, <2>4, <3>3
                  <4> QED BY <4>2, <4>3, <4>4
            <3> QED BY <2>4, <3>2, <3>3
      <2> QED BY <2>5, <2>6, <2>7 DEF Effects
<1> QED BY <1>3, <1>5, <1>6, <1>7

\* The effects of another client stay as they are.
LEMMA OthersEffects ==
    ASSUME Inv, Fresh, NEW c \in Clients, Step(c),
           NEW d \in Clients, d # c, Effects(d)
    PROVE  Effects(d)'
<1>1. SameFor(d)
      BY Locality DEF Inv
<1>2. Handled(d)' = Handled(d) /\ offered'[d] = offered[d]
      BY <1>1 DEF SameFor, Handled, Executed
<1>3. CASE graph' = graph
      <2>1. EntriesOf(d)' = EntriesOf(d)
            BY <1>3 DEF EntriesOf
      <2> QED BY <1>2, <1>3, <2>1, EffectsKept
<1>4. CASE graph' # graph
      <2>1. handler[c] = "handling" /\ Effect(c)
            BY <1>4, GraphChanges DEF Execute, ExecuteSilent
      <2>2. /\ graph' = Append(graph, <<c, Head(cursor[c])>>)
            /\ Head(cursor[c]) \in Message
            BY <2>1, EffectIsAppend
      <2>3. /\ \A j \in EntriesOf(d) :
                  j \in EntriesOf(d)' /\ graph'[j] = graph[j]
            /\ \A j \in EntriesOf(d)' : j \in EntriesOf(d)
            BY <2>2, EntriesStep DEF Inv
      <2> QED BY <1>2, <2>3, EffectsKept
<1> QED BY <1>3, <1>4

\* One more reply, larger than those before it.
LEMMA AppendIncreasing ==
    ASSUME NEW S \in SUBSET Int, NEW s \in Seq(S), Increasing(s), NEW x \in S,
           \A i \in 1 .. Len(s) : s[i] < x
    PROVE  /\ Increasing(Append(s, x))
           /\ Len(Append(s, x)) = Len(s) + 1
           /\ \A i \in 1 .. Len(s) : Append(s, x)[i] = s[i]
           /\ Append(s, x)[Len(s) + 1] = x
<1> DEFINE t == Append(s, x)
<1>1. /\ Len(s) \in Nat /\ Len(t) = Len(s) + 1 /\ t[Len(s) + 1] = x
      /\ \A i \in 1 .. Len(s) : t[i] = s[i]
      BY AppendProperties, LenProperties
<1> HIDE DEF t
<1>2. ASSUME NEW i \in 1 .. Len(t), NEW j \in 1 .. Len(t), i < j
      PROVE  t[i] < t[j]
      <2>1. i \in 1 .. Len(s)
            BY <1>1, <1>2
      <2>2. j \in 1 .. Len(s) \/ j = Len(s) + 1
            BY <1>1
      <2>3. CASE j \in 1 .. Len(s)
            BY <1>1, <1>2, <2>1, <2>3 DEF Increasing
      <2>4. CASE j = Len(s) + 1
            BY <1>1, <2>1, <2>4
      <2> QED BY <2>2, <2>3, <2>4
<1>3. Increasing(t)
      BY <1>2 DEF Increasing
<1> QED BY <1>1, <1>3 DEF t

LEMMA AnswersStep ==
    ASSUME Inv, NEW c \in Clients, Numbered(c), Replying(c), Answers(c),
           Step(c)
    PROVE  Answers(c)'
<1> DEFINE A == Answered(c)  A2 == Answered(c)'  f == Len(Front(c))
           o == offered[c]  p == offered'[c]  g == Got(c)  g2 == Got(c)'
           S == 0 .. MaxRequests
<1> SUFFICES ASSUME channel'[c] = "open"
             PROVE  /\ \A i \in 1 .. Len(g2) : \E k \in 1 .. A2 :
                          HasReply(p[k]) /\ g2[i] = k
                    /\ \A k \in 1 .. A2 :
                          HasReply(p[k]) => \E i \in 1 .. Len(g2) : g2[i] = k
                    /\ Increasing(g2)
    BY DEF Answers, Increasing, HasReply
<1>1. /\ A \in Nat /\ f \in Nat /\ A <= f
      <2>1. /\ Len(done[c]) \in Nat /\ f \in Nat
            /\ Handled(c) \in Len(done[c]) .. Len(done[c]) + 1
            /\ A \in Len(done[c]) .. Handled(c) /\ Handled(c) <= f
            BY Lengths
      <2> HIDE DEF A, f
      <2> QED BY <2>1
<1>2. \A i \in 1 .. f : p[i] = o[i]
      BY OfferedStep, OfferedKept
<1>3. /\ channel[c] = "open"
      /\ AnswersNone(c) \/ Passes(c) \/ Replies(c)
      /\ A2 = A + 1 => A + 1 <= f
      <2>1. /\ channel[c] = "open"
            /\ AnswersNone(c) \/ Passes(c) \/ Replies(c)
            /\ ~AnswersNone(c) => A + 1 <= f
            BY AnsweredStep
      <2>2. AnswersNone(c) => A2 = A
            BY DEF AnswersNone
      <2> HIDE DEF A, A2, f
      <2> QED BY <1>1, <2>1, <2>2
<1>4. \A i \in 1 .. A : p[i] = o[i]
      <2> HIDE DEF A, f, o, p
      <2> QED BY <1>1, <1>2
<1>5. /\ \A i \in 1 .. Len(g) : \E k \in 1 .. A :
            HasReply(o[k]) /\ g[i] = k
      /\ \A k \in 1 .. A : HasReply(o[k]) => \E i \in 1 .. Len(g) : g[i] = k
      /\ Increasing(g)
      BY <1>3 DEF Answers
<1>6. g \in Seq(S)
      BY GotTyped DEF GotType
<1>7. CASE AnswersNone(c)
      <2>1. g2 = g /\ A2 = A
            BY <1>7 DEF AnswersNone
      <2> HIDE DEF A, A2, o, p, g, g2
      <2> QED BY <1>4, <1>5, <2>1 DEF HasReply
<1>8. CASE Passes(c)
      <2>1. g2 = g /\ A2 = A + 1 /\ ~HasReply(o[A + 1])
            BY <1>8 DEF Passes
      <2> HIDE DEF A, A2, f, o, p, g, g2
      <2>2. A + 1 \in 1 .. f
            BY <1>1, <1>3, <2>1
      <2>3. ~HasReply(p[A + 1])
            BY <1>2, <2>1, <2>2
      <2>4. \A k \in 1 .. A2 : k \in 1 .. A \/ k = A + 1
            BY <1>1, <2>1
      <2>5. \A k \in 1 .. A : k \in 1 .. A2
            BY <1>1, <2>1
      <2>6. \A k \in 1 .. A : HasReply(p[k]) <=> HasReply(o[k])
            BY <1>4
      <2> QED BY <1>5, <2>1, <2>3, <2>4, <2>5, <2>6
<1>9. CASE Replies(c)
      <2>1. A2 = A + 1 /\ HasReply(o[A + 1]) /\ g2 = Append(g, A + 1)
            BY <1>9 DEF Replies
      <2>2. A + 1 \in S
            <3>1. A + 1 \in 1 .. Len(o) /\ o \in Seq(Message)
                  <4>1. /\ o \in Seq(Message) /\ Len(o) = f + Len(wire[c])
                        /\ Len(wire[c]) \in Nat
                        BY Lengths
                  <4> HIDE DEF A, A2, f, o
                  <4> QED BY <1>1, <1>3, <2>1, <4>1
            <3>2. o[A + 1] \in Message
                  BY <3>1, ElementOfSeq
            <3>3. o[A + 1].n = A + 1
                  BY <2>1, <3>1 DEF Numbered, HasReply
            <3>4. o[A + 1].n \in S
                  BY <3>2 DEF Message
            <3> QED BY <3>3, <3>4
      <2> HIDE DEF A, A2, f, o, p, g, g2
      <2>3. A + 1 \in 1 .. f
            BY <1>1, <1>3, <2>1
      <2>4. HasReply(p[A + 1])
            BY <1>2, <2>1, <2>3
      <2>5. \A k \in 1 .. A2 : k \in 1 .. A \/ k = A + 1
            BY <1>1, <2>1
      <2>6. (\A k \in 1 .. A : k \in 1 .. A2) /\ A + 1 \in 1 .. A2
            BY <1>1, <2>1
      <2>7. \A k \in 1 .. A : HasReply(p[k]) <=> HasReply(o[k])
            BY <1>4
      <2>8. \A i \in 1 .. Len(g) : g[i] < A + 1
            BY <1>1, <1>5
      <2>9. /\ Increasing(g2) /\ Len(g2) = Len(g) + 1
            /\ \A i \in 1 .. Len(g) : g2[i] = g[i]
            /\ g2[Len(g) + 1] = A + 1
            <3> DEFINE x == A + 1
            <3>1. S \in SUBSET Int
                  BY DispatchAssumption
            <3>2. x \in S /\ g2 = Append(g, x) /\ \A i \in 1 .. Len(g) : g[i] < x
                  BY <2>1, <2>2, <2>8
            <3> HIDE DEF S, x
            <3>3. /\ Increasing(Append(g, x))
                  /\ Len(Append(g, x)) = Len(g) + 1
                  /\ \A i \in 1 .. Len(g) : Append(g, x)[i] = g[i]
                  /\ Append(g, x)[Len(g) + 1] = x
                  BY <1>5, <1>6, <3>1, <3>2, AppendIncreasing
            <3> QED BY <3>2, <3>3 DEF x
      <2>10. Len(g) \in Nat
             BY <1>6, LenProperties
      <2>11. ASSUME NEW i \in 1 .. Len(g2)
             PROVE  \E k \in 1 .. A2 : HasReply(p[k]) /\ g2[i] = k
             <3>1. i \in 1 .. Len(g) \/ i = Len(g) + 1
                   BY <2>9, <2>10
             <3>2. CASE i \in 1 .. Len(g)
                   BY <1>5, <2>6, <2>7, <2>9, <3>2
             <3>3. CASE i = Len(g) + 1
                   BY <2>4, <2>6, <2>9, <3>3
             <3> QED BY <3>1, <3>2, <3>3
      <2>12. ASSUME NEW k \in 1 .. A2, HasReply(p[k])
             PROVE  \E i \in 1 .. Len(g2) : g2[i] = k
             <3>1. CASE k \in 1 .. A
                   <4>1. PICK i \in 1 .. Len(g) : g[i] = k
                         BY <1>5, <2>7, <2>12, <3>1
                   <4>2. i \in 1 .. Len(g2)
                         BY <2>9, <2>10
                   <4> QED BY <2>9, <4>1, <4>2
             <3>2. CASE k = A + 1
                   <4>1. Len(g) + 1 \in 1 .. Len(g2)
                         BY <2>9, <2>10
                   <4> QED BY <2>9, <3>2, <4>1
             <3> QED BY <2>5, <3>1, <3>2
      <2> QED BY <2>9, <2>11, <2>12
<1> QED BY <1>3, <1>7, <1>8, <1>9

\* What is handled of another client, and its replies, stay as they are.
LEMMA OthersAnswers ==
    ASSUME NEW d \in Clients, SameFor(d), Numbered(d), Replying(d), Answers(d)
    PROVE  Numbered(d)' /\ Replying(d)' /\ Answers(d)'
<1>1. /\ offered'[d] = offered[d] /\ Got(d)' = Got(d)
      /\ Answered(d)' = Answered(d) /\ channel'[d] = channel[d]
      BY DEF SameFor, Got, Answered
<1>2. Numbered(d)'
      BY <1>1 DEF Numbered
<1>3. Replying(d)'
      BY DEF SameFor, Replying, Executed, HasReply
<1>4. Answers(d)'
      <2> DEFINE g == Got(d)  A == Answered(d)
      <2> SUFFICES ASSUME channel[d] = "open"
                   PROVE  /\ \A i \in 1 .. Len(g) : \E k \in 1 .. A :
                                HasReply(offered[d][k]) /\ g[i] = k
                          /\ \A k \in 1 .. A : HasReply(offered[d][k]) =>
                                \E i \in 1 .. Len(g) : g[i] = k
                          /\ Increasing(g)
          BY <1>1 DEF Answers, HasReply, Increasing
      <2> QED BY DEF Answers
<1> QED BY <1>2, <1>3, <1>4

LEMMA InitEInv == Init => EInv
<1> SUFFICES ASSUME Init PROVE EInv
    OBVIOUS
<1>1. Fresh
      BY DEF Init, Fresh
<1>2. ASSUME NEW c \in Clients
      PROVE  Numbered(c) /\ Replying(c) /\ Effects(c) /\ Answers(c)
      <2>1. offered[c] = <<>> /\ graph = <<>> /\ done[c] = <<>>
            BY DEF Init
      <2>2. handler[c] = "top"
            BY DEF Init
      <2>3. read[c] = <<>> /\ replies[c] = <<>>
            BY DEF Init
      <2>4. Got(c) = <<>>
            <3> <<>> \o <<>> = <<>>
                BY EmptySeq, ConcatEmptySeq
            <3> QED BY <2>3 DEF Got
      <2>5. Handled(c) = 0 /\ Answered(c) = 0
            BY <2>1, <2>2 DEF Handled, Answered, Executed
      <2>6. Numbered(c) /\ Replying(c)
            BY <2>1, <2>2 DEF Numbered, Replying, Executed
      <2>7. Effects(c)
            BY <2>1, <2>5 DEF Effects, EntriesOf
      <2>8. Answers(c)
            BY <2>4, <2>5 DEF Answers, Increasing
      <2> QED BY <2>6, <2>7, <2>8
<1> QED BY <1>1, <1>2, InitInv DEF EInv

LEMMA EInvStep == EInv /\ [Next]_vars => EInv'
<1> SUFFICES ASSUME EInv, [Next]_vars PROVE EInv'
    OBVIOUS
<1>1. Inv'
      BY InvStep DEF EInv
<1>2. ASSUME NEW c \in Clients, Step(c) PROVE EInv'
      <2>1. Fresh'
            BY <1>2, FreshStep DEF EInv
      <2>2. Numbered(c)' /\ Replying(c)' /\ Effects(c)' /\ Answers(c)'
            BY <1>2, OfferedStep, OfferedKept, ReplyingStep, EffectsStep,
               AnswersStep DEF EInv
      <2>3. ASSUME NEW d \in Clients, d # c
            PROVE  Numbered(d)' /\ Replying(d)' /\ Effects(d)' /\ Answers(d)'
            <3>1. SameFor(d)
                  BY <1>2, <2>3, Locality DEF EInv, Inv
            <3> QED BY <1>2, <2>3, <3>1, OthersAnswers, OthersEffects DEF EInv
      <2> QED BY <1>1, <2>1, <2>2, <2>3 DEF EInv
<1>3. CASE UNCHANGED vars
      <2>1. Fresh'
            BY <1>3 DEF EInv, Fresh, vars
      <2>2. ASSUME NEW d \in Clients
            PROVE  Numbered(d)' /\ Replying(d)' /\ Effects(d)' /\ Answers(d)'
            <3>1. SameFor(d) /\ graph' = graph
                  BY <1>3 DEF SameFor, vars
            <3>2. /\ Handled(d)' = Handled(d) /\ offered'[d] = offered[d]
                  /\ EntriesOf(d)' = EntriesOf(d)
                  BY <3>1 DEF SameFor, Handled, Executed, EntriesOf
            <3>3. Effects(d)'
                  BY <3>1, <3>2, EffectsKept DEF EInv
            <3> QED BY <3>1, <3>3, OthersAnswers DEF EInv
      <2> QED BY <1>1, <2>1, <2>2 DEF EInv
<1> QED BY <1>2, <1>3 DEF Next, Step

LEMMA EInvariance == Spec => []EInv
BY InitEInv, EInvStep, PTL DEF Spec

\* Every handled request of a client is in the graph, once and in the order
\* the client wrote them, and nothing else is: handleMessage under
\* m_messageHandlerMtx loses no update to another client's handler.
THEOREM UpdatesNotLost == Spec => []NoLostUpdate
<1>1. EInv => NoLostUpdate
      <2> SUFFICES ASSUME NEW c \in Clients, Effects(c)
                   PROVE  /\ {graph[j][2] : j \in EntriesOf(c)} =
                               {m \in {offered[c][i] : i \in 1 .. Handled(c)} :
                                   m.kind # "empty"}
                          /\ \A j, k \in EntriesOf(c) :
                                j < k => graph[j][2].n < graph[k][2].n
          BY DEF EInv, NoLostUpdate
      <2> QED BY DEF Effects
<1> QED BY <1>1, EInvariance, PTL

\* send_message of the handler threads: a connected client gets the replies to
\* its own requests, one each, in the order it wrote the requests.
THEOREM RepliesPairUp == Spec => []RepliesInOrder
<1>1. EInv => RepliesInOrder
      <2> SUFFICES ASSUME NEW c \in Clients, Numbered(c), Answers(c),
                          channel[c] = "open",
                          Answered(c) \in Nat, Answered(c) <= Len(offered[c]),
                          Len(offered[c]) \in Nat
                   PROVE  LET answered == {offered[c][i] : i \in 1 .. Answered(c)}
                          IN /\ {Got(c)[i] : i \in 1 .. Len(Got(c))} =
                                   {m.n : m \in {a \in answered :
                                               a.kind \in {"reply", "kill"}}}
                             /\ Increasing(Got(c))
          <3> SUFFICES ASSUME EInv, NEW c \in Clients
                       PROVE  /\ Answered(c) \in Nat
                              /\ Answered(c) <= Len(offered[c])
                              /\ Len(offered[c]) \in Nat
              BY DEF EInv, RepliesInOrder, Got
          <3> DEFINE A == Answered(c)  H == Handled(c)  f == Len(Front(c))
                     o == Len(offered[c])  w == Len(wire[c])  d == Len(done[c])
          <3>1. /\ d \in Nat /\ f \in Nat /\ o = f + w /\ w \in Nat
                /\ H \in d .. d + 1 /\ A \in d .. H /\ H <= f
                BY Lengths DEF EInv
          <3> HIDE DEF A, H, f, o, w, d
          <3>2. A \in Nat /\ A <= o /\ o \in Nat
                BY <3>1
          <3> QED BY <3>2 DEF A, o
      <2> DEFINE g == Got(c)  A == Answered(c)  o == offered[c]
                 answered == {o[i] : i \in 1 .. A}
                 due == {a \in answered : a.kind \in {"reply", "kill"}}
      <2>1. \A k \in 1 .. A : HasReply(o[k]) => o[k].n = k
            BY DEF Numbered, HasReply
      <2>2. /\ \A i \in 1 .. Len(g) : \E k \in 1 .. A :
                  HasReply(o[k]) /\ g[i] = k
            /\ \A k \in 1 .. A :
                  HasReply(o[k]) => \E i \in 1 .. Len(g) : g[i] = k
            /\ Increasing(g)
            BY DEF Answers
      <2> HIDE DEF g, A, o
      <2>3. ASSUME NEW i \in 1 .. Len(g) PROVE g[i] \in {m.n : m \in due}
            <3>1. PICK k \in 1 .. A : HasReply(o[k]) /\ g[i] = k
                  BY <2>2
            <3>2. o[k] \in due
                  BY <3>1 DEF HasReply
            <3> QED BY <2>1, <3>1, <3>2
      <2>4. ASSUME NEW m \in due PROVE m.n \in {g[i] : i \in 1 .. Len(g)}
            <3>1. PICK k \in 1 .. A : m = o[k]
                  OBVIOUS
            <3>2. HasReply(o[k])
                  BY <3>1 DEF HasReply
            <3>3. PICK i \in 1 .. Len(g) : g[i] = k
                  BY <2>2, <3>2
            <3>4. m.n = g[i]
                  BY <2>1, <3>1, <3>2, <3>3
            <3> QED BY <3>4
      <2>5. {g[i] : i \in 1 .. Len(g)} = {m.n : m \in due}
            BY <2>3, <2>4
      <2> QED BY <2>2, <2>5 DEF g, A, o
<1> QED BY <1>1, EInvariance, PTL

=============================================================================
