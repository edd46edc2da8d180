------------------------------ MODULE Dispatch ------------------------------
(***************************************************************************)
(* How UmlServer turns bytes of many clients into one sequence of handled  *)
(* requests.  Every client has two threads of the server and a ClientInfo  *)
(* record they share:                                                      *)
(*                                                                         *)
(*   client --wire--> receiveFromClient --threadQueue--> clientSubThread-  *)
(*   Handler --m_messageHandlerMtx--> handleMessage --replies--> client    *)
(*                                                                         *)
(* The wire and the replies are the kernel's socket buffers, so both are   *)
(* bounded; threadQueue is not.  The mutex handlerMtx of a client is held  *)
(* by the receiver only inside ReceiverDispatch and by the handler from    *)
(* HandlerLock to EndBatch or to the wait on handlerCv.  m_running stays   *)
(* true for as long as this module runs: Shutdown models how it ends.      *)
(*                                                                         *)
(* What a request does to the shared UML graph is abstracted to "it read   *)
(* the graph when the handler started and wrote it when it was done": the  *)
(* graph is the sequence of requests that built it.  A request's kind      *)
(* says how its branch of handleMessage leaves:                            *)
(*   reply    one reply is sent, success or error                          *)
(*   silent   the branch returns without a reply                           *)
(*   throws   an exception leaves handleMessage: std::terminate            *)
(*   kill     "KILL": a reply, then shutdownServer on this very thread     *)
(*   empty    a message of length 0, which the handler loop skips          *)
(*                                                                         *)
(* An operator that stands before its correct form and is used nowhere is  *)
(* a mutant of it, a bug that one of the properties at the end catches.    *)
(***************************************************************************)
EXTENDS Integers, Sequences

CONSTANTS
    Clients,        \* the clients that finished the handshake
    None,           \* "nobody", the owner of a free mutex
    Kinds,          \* the kinds of message the clients write
    Leavers,        \* the clients that may close or lose their connection
    MaxRequests,    \* bound: messages one client writes
    Window,         \* bound: messages a client has written and got no reply to
    WireCap,        \* messages the socket buffer towards the server holds
    ReplyCap        \* replies the socket buffer towards the client holds

AllKinds == {"reply", "silent", "throws", "kill", "empty"}

ASSUME DispatchAssumption ==
    /\ None \notin Clients
    /\ Kinds \subseteq AllKinds
    /\ Leavers \subseteq Clients
    /\ MaxRequests \in Nat
    /\ Window \in Nat
    /\ WireCap \in Nat
    /\ ReplyCap \in Nat

VARIABLES
    alive,      \* the process has not been terminated
    channel,    \* channel[c]: what the server's socket of c will report
    offered,    \* offered[c]: all that socket has to give or gave (history)
    wire,       \* wire[c]: written by c, not yet received
    receiver,   \* receiver[c]: where receiveFromClient is
    inHand,     \* inHand[c]: the message it has received, if any
    threadQueue,\* threadQueue[c] of the ClientInfo
    handler,    \* handler[c]: where clientSubThreadHandler is
    cursor,     \* cursor[c]: what its for loop has still to visit
    done,       \* done[c]: what its for loop has finished with (history)
    messageMtx, \* owner of m_messageHandlerMtx
    graph,      \* the shared graph: <<client, message>> of what changed it
    seen,       \* seen[c]: the graph as the request of c found it
    replies,    \* replies[c]: sent to c, not read yet
    read        \* read[c]: what c has read (history)

vars == <<alive, channel, offered, wire, receiver, inHand, threadQueue,
          handler, cursor, done, messageMtx, graph, seen, replies, read>>

Message == [n : 0 .. MaxRequests, kind : AllKinds]

\* What receive_message makes of a recv that fails with -1: the size of the
\* message is never written, the buffer is zeroed, the string is empty.
Bogus == [n |-> 0, kind |-> "empty"]

\* handlerMtx of c is not held by the handler thread.
HandlerMtxFree(c) == handler[c] \in {"top", "wait", "woken"}

\* The handler has executed the request at its cursor, but not left it.
Executed(c) == handler[c] \in {"replying", "shutdown"}

\* What of threadQueue the handler has still to serve.
Remaining(c) == IF HandlerMtxFree(c) THEN threadQueue[c] ELSE cursor[c]

Unread(c) == Len(offered[c]) - Len(read[c])

Init ==
    /\ alive = TRUE
    /\ channel = [c \in Clients |-> "open"]
    /\ offered = [c \in Clients |-> <<>>]
    /\ wire = [c \in Clients |-> <<>>]
    /\ receiver = [c \in Clients |-> "recv"]
    /\ inHand = [c \in Clients |-> <<>>]
    /\ threadQueue = [c \in Clients |-> <<>>]
    /\ handler = [c \in Clients |-> "top"]
    /\ cursor = [c \in Clients |-> <<>>]
    /\ done = [c \in Clients |-> <<>>]
    /\ messageMtx = None
    /\ graph = <<>>
    /\ seen = [c \in Clients |-> <<>>]
    /\ replies = [c \in Clients |-> <<>>]
    /\ read = [c \in Clients |-> <<>>]

-----------------------------------------------------------------------------
(* The clients: ServerPersistencePolicy has Window = 1, any other program   *)
(* may write several requests before it reads a reply.                      *)

ClientSend(c) ==
    /\ alive
    /\ channel[c] = "open"
    /\ Len(offered[c]) < MaxRequests
    /\ Unread(c) < Window
    /\ Len(wire[c]) < WireCap
    /\ \E k \in Kinds :
          LET m == [n |-> Len(offered[c]) + 1, kind |-> k] IN
          /\ wire' = [wire EXCEPT ![c] = Append(@, m)]
          /\ offered' = [offered EXCEPT ![c] = Append(@, m)]
    /\ UNCHANGED <<alive, channel, receiver, inHand, threadQueue, handler,
                   cursor, done, messageMtx, graph, seen, replies, read>>

ClientRead(c) ==
    /\ alive
    /\ channel[c] = "open"
    /\ replies[c] # <<>>
    /\ read' = [read EXCEPT ![c] = Append(@, Head(replies[c]))]
    /\ replies' = [replies EXCEPT ![c] = Tail(@)]
    /\ UNCHANGED <<alive, channel, offered, wire, receiver, inHand,
                   threadQueue, handler, cursor, done, messageMtx, graph, seen>>

\* ~ServerPersistencePolicy or the end of the client process.
ClientClose(c) ==
    /\ alive
    /\ c \in Leavers
    /\ channel[c] = "open"
    /\ replies[c] = <<>>
    /\ channel' = [channel EXCEPT ![c] = "closed"]
    /\ UNCHANGED <<alive, offered, wire, receiver, inHand, threadQueue,
                   handler, cursor, done, messageMtx, graph, seen, replies,
                   read>>

\* A reset of the connection of c: only the first k messages on the wire
\* can still be received, after them recv reports an error.
Reset(c, k) ==
    /\ channel' = [channel EXCEPT ![c] = "reset"]
    /\ wire' = [wire EXCEPT ![c] = SubSeq(@, 1, k)]
    /\ offered' = [offered EXCEPT
                      ![c] = SubSeq(@, 1, Len(@) - Len(wire[c]) + k)]

\* The client goes away without having read everything.
ClientReset(c) ==
    /\ alive
    /\ c \in Leavers
    /\ channel[c] = "open"
    /\ \E k \in 0 .. Len(wire[c]) : Reset(c, k)
    /\ replies' = [replies EXCEPT ![c] = <<>>]
    /\ UNCHANGED <<alive, receiver, inHand, threadQueue, handler, cursor,
                   done, messageMtx, graph, seen, read>>

-----------------------------------------------------------------------------
(* receiveFromClient *)

ReceiverRecv(c) ==
    /\ alive
    /\ receiver[c] = "recv"
    /\ wire[c] # <<>>
    /\ inHand' = [inHand EXCEPT ![c] = <<Head(wire[c])>>]
    /\ wire' = [wire EXCEPT ![c] = Tail(@)]
    /\ receiver' = [receiver EXCEPT ![c] = "dispatch"]
    /\ UNCHANGED <<alive, channel, offered, threadQueue, handler, cursor,
                   done, messageMtx, graph, seen, replies, read>>

\* recv returns 0 for the header: the thread logs and returns, the
\* ClientInfo, its socket and its handler thread stay.
ReceiverEof(c) ==
    /\ alive
    /\ receiver[c] = "recv"
    /\ wire[c] = <<>>
    /\ channel[c] \in {"closed", "drained"}
    /\ receiver' = [receiver EXCEPT ![c] = "gone"]
    /\ UNCHANGED <<alive, channel, offered, wire, inHand, threadQueue,
                   handler, cursor, done, messageMtx, graph, seen, replies,
                   read>>

\* recv returns -1, which is not <= 0 in the unsigned bytes_read: with the
\* size that happens to be on the stack the allocation fails and the process
\* dies, an empty message is received, or the thread spins (ReceiverSpins).
ReceiverError(c) ==
    /\ alive
    /\ receiver[c] = "recv"
    /\ wire[c] = <<>>
    /\ channel[c] = "reset"
    /\ channel' = [channel EXCEPT ![c] = "drained"]
    /\ \/ /\ alive' = FALSE
          /\ UNCHANGED <<offered, inHand, receiver>>
       \/ /\ offered' = [offered EXCEPT ![c] = Append(@, Bogus)]
          /\ inHand' = [inHand EXCEPT ![c] = <<Bogus>>]
          /\ receiver' = [receiver EXCEPT ![c] = "dispatch"]
          /\ UNCHANGED alive
    /\ UNCHANGED <<wire, threadQueue, handler, cursor, done, messageMtx,
                   graph, seen, replies, read>>

\* The connection ended inside a message, or recv failed with -1 and the size
\* on the stack could be allocated: from then on recv returns 0, the loop in
\* receive_message never ends, and neither does the thread.
ReceiverSpins(c) ==
    /\ alive
    /\ receiver[c] = "recv"
    /\ wire[c] = <<>>
    /\ channel[c] # "open"
    /\ receiver' = [receiver EXCEPT ![c] = "spin"]
    /\ UNCHANGED <<alive, channel, offered, wire, inHand, threadQueue, handler,
                   cursor, done, messageMtx, graph, seen, replies, read>>

PushFront(c) == threadQueue' = [threadQueue EXCEPT ![c] = inHand[c] \o @]

PushBack(c) == threadQueue' = [threadQueue EXCEPT ![c] = @ \o inHand[c]]

NotifyNobody(c) == UNCHANGED handler

\* handlerCv.notify_one
Notify(c) ==
    handler' = [handler EXCEPT ![c] = IF @ = "wait" THEN "woken" ELSE @]

DispatchUnlocked(c) ==
    /\ alive
    /\ receiver[c] = "dispatch"
    /\ PushBack(c)
    /\ Notify(c)
    /\ inHand' = [inHand EXCEPT ![c] = <<>>]
    /\ receiver' = [receiver EXCEPT ![c] = "recv"]
    /\ UNCHANGED <<alive, channel, offered, wire, cursor, done, messageMtx,
                   graph, seen, replies, read>>

\* lock handlerMtx; push_back; notify_one; unlock
ReceiverDispatch(c) ==
    /\ alive
    /\ receiver[c] = "dispatch"
    /\ HandlerMtxFree(c)
    /\ PushBack(c)
    /\ Notify(c)
    /\ inHand' = [inHand EXCEPT ![c] = <<>>]
    /\ receiver' = [receiver EXCEPT ![c] = "recv"]
    /\ UNCHANGED <<alive, channel, offered, wire, cursor, done, messageMtx,
                   graph, seen, replies, read>>

-----------------------------------------------------------------------------
(* clientSubThreadHandler *)

\* Takes handlerMtx, for the first time or out of the wait, and tests the
\* predicate: the loop over threadQueue starts, or the thread waits.
HandlerLock(c) ==
    /\ alive
    /\ handler[c] \in {"top", "woken"}
    /\ IF threadQueue[c] # <<>>
          THEN /\ cursor' = [cursor EXCEPT ![c] = threadQueue[c]]
               /\ handler' = [handler EXCEPT ![c] = "iterate"]
          ELSE /\ handler' = [handler EXCEPT ![c] = "wait"]
               /\ UNCHANGED cursor
    /\ UNCHANGED <<alive, channel, offered, wire, receiver, inHand,
                   threadQueue, done, messageMtx, graph, seen, replies, read>>

\* A condition variable may wake a thread nobody notified.
SpuriousWake(c) ==
    /\ alive
    /\ handler[c] = "wait"
    /\ handler' = [handler EXCEPT ![c] = "woken"]
    /\ UNCHANGED <<alive, channel, offered, wire, receiver, inHand,
                   threadQueue, cursor, done, messageMtx, graph, seen,
                   replies, read>>

\* The iterator of the for loop moves on.
Advance(c) ==
    /\ cursor' = [cursor EXCEPT ![c] = Tail(@)]
    /\ done' = [done EXCEPT ![c] = Append(@, Head(cursor[c]))]

SkipEmpty(c) ==
    /\ alive
    /\ handler[c] = "iterate"
    /\ cursor[c] # <<>>
    /\ Head(cursor[c]).kind = "empty"
    /\ Advance(c)
    /\ UNCHANGED <<alive, channel, offered, wire, receiver, inHand,
                   threadQueue, handler, messageMtx, graph, seen, replies,
                   read>>

\* clear(), and handlerMtx is released at the end of the loop body.
EndBatch(c) ==
    /\ alive
    /\ handler[c] = "iterate"
    /\ cursor[c] = <<>>
    /\ threadQueue' = [threadQueue EXCEPT ![c] = <<>>]
    /\ handler' = [handler EXCEPT ![c] = "top"]
    /\ UNCHANGED <<alive, channel, offered, wire, receiver, inHand, cursor,
                   done, messageMtx, graph, seen, replies, read>>

-----------------------------------------------------------------------------
(* handleMessage *)

MessageMtxIgnored == TRUE

MessageMtxFree == messageMtx = None

\* m_messageHandlerMtx is taken and the branch of the request starts.
BeginHandle(c) ==
    /\ alive
    /\ handler[c] = "iterate"
    /\ cursor[c] # <<>>
    /\ Head(cursor[c]).kind # "empty"
    /\ MessageMtxFree
    /\ messageMtx' = c
    /\ seen' = [seen EXCEPT ![c] = graph]
    /\ handler' = [handler EXCEPT ![c] = "handling"]
    /\ UNCHANGED <<alive, channel, offered, wire, receiver, inHand,
                   threadQueue, cursor, done, graph, replies, read>>

\* The request at the cursor has had its effect on what the handler saw.
Effect(c) == graph' = Append(seen[c], <<c, Head(cursor[c])>>)

ReturnLocked(c) ==
    /\ seen' = [seen EXCEPT ![c] = <<>>]
    /\ handler' = [handler EXCEPT ![c] = "iterate"]
    /\ Advance(c)
    /\ UNCHANGED messageMtx

\* handleMessage returns: m_messageHandlerMtx is released.
Return(c) ==
    /\ messageMtx' = None
    /\ seen' = [seen EXCEPT ![c] = <<>>]
    /\ handler' = [handler EXCEPT ![c] = "iterate"]
    /\ Advance(c)

\* A branch that will reply, or "KILL".
Execute(c) ==
    /\ alive
    /\ handler[c] = "handling"
    /\ Head(cursor[c]).kind \in {"reply", "kill"}
    /\ Effect(c)
    /\ handler' = [handler EXCEPT ![c] = "replying"]
    /\ UNCHANGED <<alive, channel, offered, wire, receiver, inHand,
                   threadQueue, cursor, done, messageMtx, seen, replies, read>>

\* A branch that returns without having sent anything.
ExecuteSilent(c) ==
    /\ alive
    /\ handler[c] = "handling"
    /\ Head(cursor[c]).kind = "silent"
    /\ Effect(c)
    /\ Return(c)
    /\ UNCHANGED <<alive, channel, offered, wire, receiver, inHand,
                   threadQueue, replies, read>>

\* An exception no branch catches leaves the thread function.
ExecuteThrows(c) ==
    /\ alive
    /\ handler[c] = "handling"
    /\ Head(cursor[c]).kind = "throws"
    /\ alive' = FALSE
    /\ UNCHANGED <<channel, offered, wire, receiver, inHand, threadQueue,
                   handler, cursor, done, messageMtx, graph, seen, replies,
                   read>>

\* After the reply handleMessage returns, or goes on to shutdownServer with
\* handlerMtx and m_messageHandlerMtx still held.
AfterReply(c) ==
    IF Head(cursor[c]).kind = "kill"
       THEN /\ handler' = [handler EXCEPT ![c] = "shutdown"]
            /\ UNCHANGED <<messageMtx, seen, cursor, done>>
       ELSE Return(c)

ReplyNext(c) ==
    LET n == Head(cursor[c]).n
    IN replies' = [replies EXCEPT ![c] = Append(@, n + 1)]

ReplyTwice(c) ==
    LET n == Head(cursor[c]).n
    IN replies' = [replies EXCEPT ![c] = @ \o <<n, n>>]

\* send_message; the reply is known by the number of its request.
Reply(c) == replies' = [replies EXCEPT ![c] = Append(@, Head(cursor[c]).n)]

\* send_message blocks while the buffer towards the client is full.
SendReply(c) ==
    /\ alive
    /\ handler[c] = "replying"
    /\ channel[c] = "open"
    /\ Len(replies[c]) < ReplyCap
    /\ Reply(c)
    /\ AfterReply(c)
    /\ UNCHANGED <<alive, channel, offered, wire, receiver, inHand,
                   threadQueue, graph, read>>

\* The client is gone: its host answers the reply with a reset, and a second
\* send on a connection known to be reset raises SIGPIPE.
SendToGone(c) ==
    /\ alive
    /\ handler[c] = "replying"
    /\ channel[c] # "open"
    /\ \/ /\ AfterReply(c)
          /\ IF channel[c] = "closed"
                THEN \E k \in 0 .. Len(wire[c]) : Reset(c, k)
                ELSE UNCHANGED <<channel, wire, offered>>
          /\ UNCHANGED alive
       \/ /\ alive' = FALSE
          /\ UNCHANGED <<channel, wire, offered, handler, messageMtx, seen,
                         cursor, done>>
    /\ UNCHANGED <<receiver, inHand, threadQueue, graph, replies, read>>

\* shutdownServer, called by the handler of c, ends the process (Shutdown).
ShutdownAborts(c) ==
    /\ alive
    /\ handler[c] = "shutdown"
    /\ alive' = FALSE
    /\ UNCHANGED <<channel, offered, wire, receiver, inHand, threadQueue,
                   handler, cursor, done, messageMtx, graph, seen, replies,
                   read>>

-----------------------------------------------------------------------------
ClientStep(c) ==
    ClientSend(c) \/ ClientRead(c) \/ ClientClose(c) \/ ClientReset(c)

ReceiverStep(c) ==
    \/ ReceiverRecv(c) \/ ReceiverEof(c) \/ ReceiverError(c)
    \/ ReceiverSpins(c) \/ ReceiverDispatch(c)

HandlerStep(c) ==
    \/ HandlerLock(c) \/ SkipEmpty(c) \/ EndBatch(c)
    \/ BeginHandle(c) \/ Execute(c) \/ ExecuteSilent(c) \/ ExecuteThrows(c)
    \/ SendReply(c) \/ SendToGone(c)

Next ==
    \E c \in Clients :
       \/ ClientStep(c) \/ ReceiverStep(c) \/ HandlerStep(c)
       \/ SpuriousWake(c) \/ ShutdownAborts(c)

Spec == Init /\ [][Next]_vars

\* The scheduler runs every thread that can run.  A mutex is not fair, but
\* with MaxRequests messages per client the others stop competing for it.
Fairness ==
    \A c \in Clients : WF_vars(ReceiverStep(c)) /\ WF_vars(HandlerStep(c))

FairSpec == Spec /\ Fairness

\* The same, with clients that go on reading their replies.
ReadingSpec == FairSpec /\ \A c \in Clients : WF_vars(ClientRead(c))

-----------------------------------------------------------------------------
(* Properties *)

TypeOK ==
    /\ alive \in BOOLEAN
    /\ channel \in [Clients -> {"open", "closed", "reset", "drained"}]
    /\ offered \in [Clients -> Seq(Message)]
    /\ wire \in [Clients -> Seq(Message)]
    /\ receiver \in [Clients -> {"recv", "dispatch", "gone", "spin"}]
    /\ inHand \in [Clients -> Seq(Message)]
    /\ threadQueue \in [Clients -> Seq(Message)]
    /\ handler \in [Clients -> {"top", "wait", "woken", "iterate", "handling",
                                "replying", "shutdown"}]
    /\ cursor \in [Clients -> Seq(Message)]
    /\ done \in [Clients -> Seq(Message)]
    /\ messageMtx \in Clients \cup {None}
    /\ graph \in Seq(Clients \X Message)
    /\ seen \in [Clients -> Seq(Clients \X Message)]
    /\ replies \in [Clients -> Seq(0 .. MaxRequests)]
    /\ read \in [Clients -> Seq(0 .. MaxRequests)]

\* The receive path is lossless: a message a client's socket has given is
\* finished, still to be served by the handler loop, in the receiver's hand
\* or on the wire, in this order and exactly once.  The list is iterated and
\* cleared without regard to what was appended meanwhile, so this rests on
\* handlerMtx being held through the whole batch.
Lossless ==
    \A c \in Clients :
       offered[c] = done[c] \o Remaining(c) \o inHand[c] \o wire[c]

\* A handler thread that waits and has not been notified has nothing to do:
\* between the test of the predicate and the wait no message slips in.
NoLostWakeup ==
    \A c \in Clients : handler[c] = "wait" => threadQueue[c] = <<>>

\* handleMessage is entered by one thread at a time.
OneHandler ==
    \A c \in Clients :
       handler[c] \in {"handling", "replying", "shutdown"} => messageMtx = c

\* How many messages of c the for loop has skipped or executed.
Handled(c) == Len(done[c]) + (IF Executed(c) THEN 1 ELSE 0)

\* How many of them have had the reply they get.
Answered(c) == Len(done[c]) + (IF handler[c] = "shutdown" THEN 1 ELSE 0)

\* The entries of the graph that requests of c have made.
EntriesOf(c) == {j \in 1 .. Len(graph) : graph[j][1] = c}

Increasing(s) == \A i, j \in 1 .. Len(s) : i < j => s[i] < s[j]

\* No update is lost: the graph holds the effect of every request that was
\* handled and of no other, once each, and those of one client in the order
\* the client wrote them.
NoLostUpdate ==
    \A c \in Clients :
       /\ {graph[j][2] : j \in EntriesOf(c)} =
             {m \in {offered[c][i] : i \in 1 .. Handled(c)} : m.kind # "empty"}
       /\ \A j, k \in EntriesOf(c) : j < k => graph[j][2].n < graph[k][2].n

\* The replies a connected client gets are those of its own requests, in the
\* order of the requests, one for each that has a reply.  (The client library
\* pairs the next reply it reads with the last request it wrote.)
RepliesInOrder ==
    \A c \in Clients :
       channel[c] = "open" =>
          LET got == read[c] \o replies[c]
              answered == {offered[c][i] : i \in 1 .. Answered(c)}
          IN /\ {got[i] : i \in 1 .. Len(got)} =
                   {m.n : m \in {a \in answered : a.kind \in {"reply", "kill"}}}
             /\ Increasing(got)

\* No thread is stuck in send_message while it holds m_messageHandlerMtx, and
\* with it the whole server, as long as no client has more requests
\* outstanding than the buffer towards it holds replies.
SendNeverBlocks ==
    Window <= ReplyCap =>
       \A c \in Clients :
          handler[c] = "replying" /\ channel[c] = "open" =>
             Len(replies[c]) < ReplyCap

\* The view of the clients: RequestReply, where a message is served at the
\* moment its branch of handleMessage has executed.
Outstanding(c) ==
    (IF Executed(c) THEN Tail(cursor[c]) ELSE Remaining(c))
       \o inHand[c] \o wire[c]

Abstract == INSTANCE RequestReply WITH
    Messages <- Message,
    pending <- [c \in Clients |-> Outstanding(c)],
    executed <- graph

ImplementsRequestReply == Abstract!Spec

ShuttingDown == \E c \in Clients : handler[c] = "shutdown"

\* Every message a client has written is eventually served, unless the
\* process dies, the connection is reset or the server has been killed.
\* The clients owe nothing for this when SendNeverBlocks applies.
EveryMessageServed ==
    \A c \in Clients : \A k \in 1 .. MaxRequests :
       Len(offered[c]) >= k ~>
          \/ Len(done[c]) >= k
          \/ ~alive
          \/ ShuttingDown
          \/ channel[c] \in {"reset", "drained"}
=============================================================================
