--------------------------- MODULE DispatchProofs ---------------------------
(***************************************************************************)
(* Dispatch, for every set of clients, every number of messages and every  *)
(* capacity of the socket buffers.                                         *)
(***************************************************************************)
EXTENDS Dispatch, SequenceTheorems, TLAPS

-----------------------------------------------------------------------------
(* The pipeline of a client is done \o remaining \o inHand \o wire; these    *)
(* lemmas say what the moves of a message inside it leave unchanged.        *)

\* Writing to the wire extends the pipeline.
LEMMA PipeSend ==
    ASSUME NEW S, NEW x \in Seq(S), NEW w \in Seq(S), NEW m \in S
    PROVE  x \o Append(w, m) = Append(x \o w, m)
<1>1. /\ <<m>> \in Seq(S)
      /\ Append(w, m) = w \o <<m>>
      BY AppendIsConcat
<1>2. x \o w \in Seq(S)
      BY ConcatProperties
<1>3. Append(x \o w, m) = (x \o w) \o <<m>>
      BY <1>2, AppendIsConcat
<1> QED BY <1>1, <1>3, ConcatAssociative

\* Taking the head of a sequence over to the one before it.
LEMMA PipeShift ==
    ASSUME NEW x \in Seq(Message), NEW w \in Seq(Message), w # <<>>
    PROVE  /\ x \o w = Append(x, Head(w)) \o Tail(w)
           /\ x \o w = (x \o <<Head(w)>>) \o Tail(w)
           /\ Head(w) \in Message
           /\ Tail(w) \in Seq(Message)
           /\ Len(Tail(w)) = Len(w) - 1
           /\ Len(w) \in Nat \ {0}
<1>1. /\ Head(w) \in Message
      /\ Tail(w) \in Seq(Message)
      /\ Len(Tail(w)) = Len(w) - 1
      BY HeadTailProperties
<1>2. /\ Len(w) \in Nat \ {0}
      /\ <<Head(w)>> \in Seq(Message)
      BY <1>1, EmptySeq
<1>3. w = <<Head(w)>> \o Tail(w)
      BY <1>1, <1>2
<1>4. x \o w = (x \o <<Head(w)>>) \o Tail(w)
      BY <1>1, <1>2, <1>3, ConcatAssociative
<1>5. Append(x, Head(w)) = x \o <<Head(w)>>
      BY <1>1, AppendIsConcat
<1> QED BY <1>1, <1>2, <1>4, <1>5

\* Losing all but the first k messages of the wire.
LEMMA PipeCut ==
    ASSUME NEW S, NEW x \in Seq(S), NEW w \in Seq(S), NEW k \in 0 .. Len(w)
    PROVE  /\ SubSeq(w, 1, k) \in Seq(S)
           /\ x \o SubSeq(w, 1, k) =
                 SubSeq(x \o w, 1, Len(x \o w) - Len(w) + k)
<1> DEFINE cut == SubSeq(w, 1, k)
           n == Len(x \o w) - Len(w) + k
           all == SubSeq(x \o w, 1, n)
<1>1. /\ Len(x) \in Nat /\ Len(w) \in Nat /\ k \in Nat
      /\ \A i \in 1 .. k : w[i] \in S
      BY LenProperties, ElementOfSeq
<1>2. /\ cut \in Seq(S)
      /\ Len(cut) = k
      /\ \A i \in 1 .. k : cut[i] = w[i]
      BY <1>1, SubSeqProperties
<1>3. /\ x \o w \in Seq(S)
      /\ Len(x \o w) = Len(x) + Len(w)
      /\ \A i \in 1 .. Len(x) + Len(w) :
            (x \o w)[i] = IF i <= Len(x) THEN x[i] ELSE w[i - Len(x)]
      BY ConcatProperties
<1>4. n = Len(x) + k
      BY <1>1, <1>3
<1>5. \A i \in 1 .. n : (x \o w)[i] \in S
      BY <1>1, <1>3, <1>4, ElementOfSeq
<1>6. /\ all \in Seq(S)
      /\ Len(all) = n
      /\ \A i \in 1 .. n : all[i] = (x \o w)[i]
      BY <1>1, <1>4, <1>5, SubSeqProperties
<1> HIDE DEF cut, n, all
<1>7. /\ x \o cut \in Seq(S)
      /\ Len(x \o cut) = Len(x) + Len(cut)
      /\ \A i \in 1 .. Len(x) + Len(cut) :
            (x \o cut)[i] = IF i <= Len(x) THEN x[i] ELSE cut[i - Len(x)]
      BY <1>2, ConcatProperties
<1>8. \A i \in 1 .. n : (x \o cut)[i] = all[i]
      <2> SUFFICES ASSUME NEW i \in 1 .. n
                   PROVE  (x \o cut)[i] = (x \o w)[i]
          BY <1>6
      <2>1. /\ i \in 1 .. Len(x) + Len(cut) /\ i \in 1 .. Len(x) + Len(w)
            /\ n = Len(x) + k
            BY <1>1, <1>2, <1>4
      <2>2. CASE i <= Len(x)
            BY <1>3, <1>7, <2>1, <2>2
      <2>3. CASE i > Len(x)
            <3>1. i - Len(x) \in 1 .. k
                  BY <1>1, <2>1, <2>3
            <3>2. (x \o cut)[i] = cut[i - Len(x)]
                  BY <1>1, <1>7, <2>1, <2>3
            <3>3. (x \o w)[i] = w[i - Len(x)]
                  BY <1>1, <1>3, <2>1, <2>3
            <3> QED BY <1>2, <3>1, <3>2, <3>3
      <2> QED BY <1>1, <2>1, <2>2, <2>3
<1>9. x \o cut = all
      BY <1>2, <1>4, <1>6, <1>7, <1>8, SeqEqual
<1> QED BY <1>2, <1>9 DEF cut, n, all

-----------------------------------------------------------------------------
(* The inductive invariant *)

\* What has left the wire of c, in order.
Front(c) == done[c] \o Remaining(c) \o inHand[c]

\* What holds of each client and its two threads: nothing is lost,
Pipe(c) == offered[c] = Front(c) \o wire[c]

\* where the threads are, and what they then have;
Places(c) ==
    /\ handler[c] = "wait" => threadQueue[c] = <<>>
    /\ handler[c] \in {"handling", "replying", "shutdown"} => cursor[c] # <<>>
    /\ receiver[c] # "dispatch" => inHand[c] = <<>>

\* the replies of a connected client, read or not, are those of the messages
\* done, and one more while its "KILL" is being served.
Counted(c) ==
    channel[c] = "open" =>
       /\ Unread(c) <= Window
       /\ Len(read[c]) + Len(replies[c]) <= Len(done[c]) + 1
       /\ handler[c] # "shutdown" =>
             Len(read[c]) + Len(replies[c]) <= Len(done[c])

Inv ==
    /\ TypeOK
    /\ OneHandler
    /\ \A c \in Clients : Pipe(c) /\ Places(c) /\ Counted(c)

-----------------------------------------------------------------------------
LEMMA InitInv == Init => Inv
<1> SUFFICES ASSUME Init PROVE Inv
    OBVIOUS
<1> USE DispatchAssumption DEF Init
<1>1. TypeOK
      BY DEF TypeOK
<1>2. ASSUME NEW c \in Clients PROVE Pipe(c)
      <2> <<>> \o <<>> = <<>>
          BY EmptySeq, ConcatEmptySeq
      <2> QED BY DEF Pipe, Front, Remaining, HandlerMtxFree
<1>3. ASSUME NEW c \in Clients PROVE Counted(c)
      BY DEF Counted, Unread
<1> QED BY <1>1, <1>2, <1>3 DEF Inv, OneHandler, Places

-----------------------------------------------------------------------------
(* Type correctness *)

LEMMA ResetType ==
    ASSUME TypeOK, NEW c \in Clients, NEW k \in 0 .. Len(wire[c]), Reset(c, k)
    PROVE  /\ channel' \in [Clients -> {"open", "closed", "reset", "drained"}]
           /\ wire' \in [Clients -> Seq(Message)]
           /\ offered' \in [Clients -> Seq(Message)]
<1> DEFINE o == Len(offered[c]) - Len(wire[c]) + k
<1>1. /\ wire[c] \in Seq(Message) /\ offered[c] \in Seq(Message)
      /\ Len(wire[c]) \in Nat /\ Len(offered[c]) \in Nat
      BY LenProperties DEF TypeOK
<1>2. /\ o <= Len(offered[c])
      /\ o \in Int
      BY <1>1
<1>3. \A i \in 1 .. o : offered[c][i] \in Message
      BY <1>1, <1>2, ElementOfSeq
<1>4. \A i \in 1 .. k : wire[c][i] \in Message
      BY <1>1, ElementOfSeq
<1>5. SubSeq(offered[c], 1, o) \in Seq(Message)
      BY <1>2, <1>3, SubSeqProperties
<1>6. SubSeq(wire[c], 1, k) \in Seq(Message)
      BY <1>4, SubSeqProperties
<1> QED BY <1>5, <1>6 DEF Reset, TypeOK

LEMMA AdvanceType ==
    ASSUME TypeOK, NEW c \in Clients, cursor[c] # <<>>, Advance(c)
    PROVE  /\ cursor' \in [Clients -> Seq(Message)]
           /\ done' \in [Clients -> Seq(Message)]
<1>1. /\ Head(cursor[c]) \in Message
      /\ Tail(cursor[c]) \in Seq(Message)
      BY HeadTailProperties DEF TypeOK
<1>2. Append(done[c], Head(cursor[c])) \in Seq(Message)
      BY <1>1, AppendProperties DEF TypeOK
<1> QED BY <1>1, <1>2 DEF Advance, TypeOK

LEMMA EffectType ==
    ASSUME TypeOK, NEW c \in Clients, cursor[c] # <<>>, Effect(c)
    PROVE  graph' \in Seq(Clients \X Message)
<1>1. <<c, Head(cursor[c])>> \in Clients \X Message
      BY HeadTailProperties DEF TypeOK
<1>2. seen[c] \in Seq(Clients \X Message)
      BY DEF TypeOK
<1> QED BY <1>1, <1>2, AppendProperties DEF Effect

\* The types of what handleMessage leaves behind, in the next state.
ReturnTypes ==
    /\ handler' \in [Clients -> {"top", "wait", "woken", "iterate", "handling",
                                 "replying", "shutdown"}]
    /\ messageMtx' \in Clients \cup {None}
    /\ seen' \in [Clients -> Seq(Clients \X Message)]

LEMMA ReturnType ==
    ASSUME TypeOK, NEW c \in Clients, Return(c)
    PROVE  ReturnTypes
<1>1. <<>> \in Seq(Clients \X Message)
      BY EmptySeq
<1>2. seen' \in [Clients -> Seq(Clients \X Message)]
      BY <1>1 DEF Return, TypeOK
<1>3. handler' \in [Clients -> {"top", "wait", "woken", "iterate", "handling",
                               "replying", "shutdown"}]
      BY DEF Return, TypeOK
<1> QED BY <1>2, <1>3 DEF Return, ReturnTypes

LEMMA AfterReplyType ==
    ASSUME TypeOK, NEW c \in Clients, AfterReply(c)
    PROVE  ReturnTypes
<1>1. CASE Return(c)
      BY <1>1, ReturnType
<1>2. CASE /\ handler' = [handler EXCEPT ![c] = "shutdown"]
           /\ UNCHANGED <<messageMtx, seen>>
      BY <1>2 DEF TypeOK, ReturnTypes
<1> QED BY <1>1, <1>2 DEF AfterReply

\* Inside handleMessage there is a request at the cursor.
AtCursor ==
    \A c \in Clients :
       handler[c] \in {"handling", "replying", "shutdown"} => cursor[c] # <<>>

\* A table in which the entry of one client changes, or none.
LEMMA EntryType ==
    ASSUME NEW Q, NEW f \in [Clients -> Q], NEW c \in Clients, NEW x \in Q,
           NEW g, g = [f EXCEPT ![c] = x] \/ g = f
    PROVE  g \in [Clients -> Q]
OBVIOUS

LEMMA TypeStep == Inv /\ [Next]_vars => TypeOK'
<1> SUFFICES ASSUME TypeOK, AtCursor, [Next]_vars PROVE TypeOK'
    BY DEF Inv, AtCursor, Places
<1> USE DispatchAssumption DEF TypeOK
<1>1. ASSUME NEW c \in Clients, ClientSend(c) PROVE TypeOK'
      <2>1. PICK k \in Kinds :
               LET m == [n |-> Len(offered[c]) + 1, kind |-> k] IN
               /\ wire' = [wire EXCEPT ![c] = Append(@, m)]
               /\ offered' = [offered EXCEPT ![c] = Append(@, m)]
            BY <1>1 DEF ClientSend
      <2>2. [n |-> Len(offered[c]) + 1, kind |-> k] \in Message
            BY <1>1, LenProperties DEF ClientSend, Message
      <2>3. /\ wire' \in [Clients -> Seq(Message)]
            /\ offered' \in [Clients -> Seq(Message)]
            BY <2>1, <2>2
      <2> QED BY <1>1, <2>3 DEF ClientSend
<1>2. ASSUME NEW c \in Clients, ClientRead(c) PROVE TypeOK'
      <2>1. /\ Head(replies[c]) \in 0 .. MaxRequests
            /\ Tail(replies[c]) \in Seq(0 .. MaxRequests)
            BY <1>2, HeadTailProperties DEF ClientRead
      <2>2. /\ read' \in [Clients -> Seq(0 .. MaxRequests)]
            /\ replies' \in [Clients -> Seq(0 .. MaxRequests)]
            BY <1>2, <2>1 DEF ClientRead
      <2> QED BY <1>2, <2>2 DEF ClientRead
<1>3. ASSUME NEW c \in Clients, ClientClose(c) PROVE TypeOK'
      BY <1>3 DEF ClientClose
<1>4. ASSUME NEW c \in Clients, ClientReset(c) PROVE TypeOK'
      <2>1. PICK k \in 0 .. Len(wire[c]) : Reset(c, k)
            BY <1>4 DEF ClientReset
      <2>2. /\ channel' \in [Clients -> {"open", "closed", "reset", "drained"}]
            /\ wire' \in [Clients -> Seq(Message)]
            /\ offered' \in [Clients -> Seq(Message)]
            BY <2>1, ResetType
      <2>3. replies' \in [Clients -> Seq(0 .. MaxRequests)]
            BY <1>4 DEF ClientReset
      <2> QED BY <1>4, <2>2, <2>3 DEF ClientReset
<1>5. ASSUME NEW c \in Clients, ReceiverRecv(c) PROVE TypeOK'
      <2>1. /\ Head(wire[c]) \in Message
            /\ Tail(wire[c]) \in Seq(Message)
            BY <1>5, HeadTailProperties DEF ReceiverRecv
      <2>2. /\ inHand' \in [Clients -> Seq(Message)]
            /\ wire' \in [Clients -> Seq(Message)]
            BY <1>5, <2>1 DEF ReceiverRecv
      <2> QED BY <1>5, <2>2 DEF ReceiverRecv
<1>6. ASSUME NEW c \in Clients, ReceiverEof(c) PROVE TypeOK'
      BY <1>6 DEF ReceiverEof
<1>6a. ASSUME NEW c \in Clients, ReceiverSpins(c) PROVE TypeOK'
      BY <1>6a DEF ReceiverSpins
<1>7. ASSUME NEW c \in Clients, ReceiverError(c) PROVE TypeOK'
      <2>1. Bogus \in Message
            BY DEF Bogus, Message, AllKinds
      <2>2. /\ <<Bogus>> \in Seq(Message)
            /\ Append(offered[c], Bogus) \in Seq(Message)
            BY <2>1
      <2>3. /\ offered' \in [Clients -> Seq(Message)]
            /\ inHand' \in [Clients -> Seq(Message)]
            <3>1. CASE UNCHANGED <<offered, inHand, receiver>>
                  BY <3>1
            <3>2. CASE /\ offered' = [offered EXCEPT ![c] = Append(@, Bogus)]
                       /\ inHand' = [inHand EXCEPT ![c] = <<Bogus>>]
                  BY <2>2, <3>2
            <3> QED BY <1>7, <3>1, <3>2 DEF ReceiverError
      <2>4. alive' \in BOOLEAN
            BY <1>7 DEF ReceiverError
      <2> QED BY <1>7, <2>3, <2>4 DEF ReceiverError
<1>8. ASSUME NEW c \in Clients, ReceiverDispatch(c) PROVE TypeOK'
      <2>1. threadQueue[c] \o inHand[c] \in Seq(Message)
            BY ConcatProperties
      <2>2. /\ threadQueue' \in [Clients -> Seq(Message)]
            /\ inHand' \in [Clients -> Seq(Message)]
            BY <1>8, <2>1 DEF ReceiverDispatch, PushBack, Notify
      <2> QED BY <1>8, <2>2 DEF ReceiverDispatch, PushBack, Notify
<1>9. ASSUME NEW c \in Clients, HandlerLock(c) PROVE TypeOK'
      <2>1. /\ \/ cursor' = [cursor EXCEPT ![c] = threadQueue[c]]
               \/ cursor' = cursor
            /\ \/ handler' = [handler EXCEPT ![c] = "iterate"]
               \/ handler' = [handler EXCEPT ![c] = "wait"]
            BY <1>9 DEF HandlerLock
      <2>2. /\ cursor \in [Clients -> Seq(Message)]
            /\ threadQueue[c] \in Seq(Message)
            OBVIOUS
      <2>3. cursor' \in [Clients -> Seq(Message)]
            BY <2>1, <2>2, EntryType, Zenon
      <2> QED BY <1>9, <2>1, <2>3 DEF HandlerLock
<1>10. ASSUME NEW c \in Clients, SkipEmpty(c) PROVE TypeOK'
      <2>1. cursor[c] # <<>> /\ Advance(c)
            BY <1>10 DEF SkipEmpty
      <2>2. /\ cursor' \in [Clients -> Seq(Message)]
            /\ done' \in [Clients -> Seq(Message)]
            BY <2>1, AdvanceType
      <2> QED BY <1>10, <2>2 DEF SkipEmpty
<1>11. ASSUME NEW c \in Clients, EndBatch(c) PROVE TypeOK'
      BY <1>11 DEF EndBatch
<1>12. ASSUME NEW c \in Clients, BeginHandle(c) PROVE TypeOK'
      BY <1>12 DEF BeginHandle, MessageMtxFree
<1>13. ASSUME NEW c \in Clients, Execute(c) PROVE TypeOK'
      <2>1. graph' \in Seq(Clients \X Message)
            BY <1>13, EffectType DEF Execute, AtCursor
      <2> QED BY <1>13, <2>1 DEF Execute
<1>14. ASSUME NEW c \in Clients, ExecuteSilent(c) PROVE TypeOK'
      <2>1. graph' \in Seq(Clients \X Message)
            BY <1>14, EffectType DEF ExecuteSilent, AtCursor
      <2>2. cursor[c] # <<>> /\ Advance(c)
            BY <1>14 DEF ExecuteSilent, AtCursor, Return
      <2>3. /\ cursor' \in [Clients -> Seq(Message)]
            /\ done' \in [Clients -> Seq(Message)]
            BY <2>2, AdvanceType
      <2>4. ReturnTypes
            BY <1>14, ReturnType DEF ExecuteSilent
      <2> QED BY <1>14, <2>1, <2>3, <2>4 DEF ExecuteSilent, ReturnTypes
<1>15. ASSUME NEW c \in Clients, ExecuteThrows(c) PROVE TypeOK'
      BY <1>15 DEF ExecuteThrows
<1>16. ASSUME NEW c \in Clients, SendReply(c) PROVE TypeOK'
      <2>1. /\ cursor[c] # <<>>
            /\ Advance(c) \/ UNCHANGED <<cursor, done>>
            BY <1>16 DEF SendReply, Reply, AtCursor, AfterReply, Return
      <2>4. /\ cursor' \in [Clients -> Seq(Message)]
            /\ done' \in [Clients -> Seq(Message)]
            BY <2>1, AdvanceType
      <2>5. Head(cursor[c]) \in Message
            BY <2>1, HeadTailProperties
      <2>2. Head(cursor[c]).n \in 0 .. MaxRequests
            BY <2>5 DEF Message
      <2>3. replies' \in [Clients -> Seq(0 .. MaxRequests)]
            BY <1>16, <2>2 DEF SendReply, Reply
      <2>6. ReturnTypes
            BY <1>16, AfterReplyType DEF SendReply, Reply
      <2> QED BY <1>16, <2>3, <2>4, <2>6 DEF SendReply, Reply, ReturnTypes
<1>17. ASSUME NEW c \in Clients, SendToGone(c) PROVE TypeOK'
      <2>1. /\ cursor[c] # <<>>
            /\ Advance(c) \/ UNCHANGED <<cursor, done>>
            BY <1>17 DEF SendToGone, AtCursor, AfterReply, Return
      <2>4. /\ cursor' \in [Clients -> Seq(Message)]
            /\ done' \in [Clients -> Seq(Message)]
            BY <2>1, AdvanceType
      <2>2. /\ channel' \in [Clients -> {"open", "closed", "reset", "drained"}]
            /\ wire' \in [Clients -> Seq(Message)]
            /\ offered' \in [Clients -> Seq(Message)]
            <3>1. CASE \E k \in 0 .. Len(wire[c]) : Reset(c, k)
                  BY <3>1, ResetType
            <3>2. CASE UNCHANGED <<channel, wire, offered>>
                  BY <3>2
            <3> QED BY <1>17, <3>1, <3>2 DEF SendToGone
      <2>3. ReturnTypes
            <3>1. CASE AfterReply(c)
                  BY <3>1, AfterReplyType
            <3>2. CASE UNCHANGED <<handler, messageMtx, seen>>
                  BY <3>2 DEF ReturnTypes
            <3> QED BY <1>17, <3>1, <3>2 DEF SendToGone
      <2>5. alive' \in BOOLEAN
            BY <1>17 DEF SendToGone
      <2> QED BY <1>17, <2>2, <2>3, <2>4, <2>5 DEF SendToGone, ReturnTypes
<1>18. ASSUME NEW c \in Clients, SpuriousWake(c) PROVE TypeOK'
      BY <1>18 DEF SpuriousWake
<1>19. ASSUME NEW c \in Clients, ShutdownAborts(c) PROVE TypeOK'
      BY <1>19 DEF ShutdownAborts
<1>20. CASE UNCHANGED vars
      BY <1>20 DEF vars
<1> QED
    BY <1>1, <1>2, <1>3, <1>4, <1>5, <1>6, <1>6a, <1>7, <1>8, <1>9, <1>10,
       <1>11, <1>12, <1>13, <1>14, <1>15, <1>16, <1>17, <1>18, <1>19,
       <1>20
    DEF Next, ClientStep, ReceiverStep, HandlerStep

-----------------------------------------------------------------------------
(* A step of one client's actors leaves the others alone. *)

SameFor(d) ==
    /\ channel'[d] = channel[d]
    /\ offered'[d] = offered[d]
    /\ wire'[d] = wire[d]
    /\ receiver'[d] = receiver[d]
    /\ inHand'[d] = inHand[d]
    /\ threadQueue'[d] = threadQueue[d]
    /\ handler'[d] = handler[d]
    /\ cursor'[d] = cursor[d]
    /\ done'[d] = done[d]
    /\ replies'[d] = replies[d]
    /\ read'[d] = read[d]

Step(c) ==
    ClientStep(c) \/ ReceiverStep(c) \/ HandlerStep(c)
       \/ SpuriousWake(c) \/ ShutdownAborts(c)

LEMMA Locality ==
    ASSUME TypeOK, NEW c \in Clients, Step(c), NEW d \in Clients, d # c
    PROVE  SameFor(d)
<1> USE DEF TypeOK, SameFor
<1>1. CASE ClientSend(c)
      BY <1>1 DEF ClientSend
<1>2. CASE ClientRead(c)
      BY <1>2 DEF ClientRead
<1>3. CASE ClientClose(c)
      BY <1>3 DEF ClientClose
<1>4. CASE ClientReset(c)
      BY <1>4 DEF ClientReset, Reset
<1>5. CASE ReceiverRecv(c)
      BY <1>5 DEF ReceiverRecv
<1>6. CASE ReceiverEof(c)
      BY <1>6 DEF ReceiverEof
<1>6a. CASE ReceiverSpins(c)
      BY <1>6a DEF ReceiverSpins
<1>7. CASE ReceiverError(c)
      BY <1>7 DEF ReceiverError
<1>8. CASE ReceiverDispatch(c)
      BY <1>8 DEF ReceiverDispatch, PushBack, Notify
<1>9. CASE HandlerLock(c)
      BY <1>9 DEF HandlerLock
<1>10. CASE SkipEmpty(c)
      BY <1>10 DEF SkipEmpty, Advance
<1>11. CASE EndBatch(c)
      BY <1>11 DEF EndBatch
<1>12. CASE BeginHandle(c)
      BY <1>12 DEF BeginHandle, MessageMtxFree
<1>13. CASE Execute(c)
      BY <1>13 DEF Execute
<1>14. CASE ExecuteSilent(c)
      BY <1>14 DEF ExecuteSilent, Return, Advance
<1>15. CASE ExecuteThrows(c)
      BY <1>15 DEF ExecuteThrows
<1>16. CASE SendReply(c)
      BY <1>16 DEF SendReply, Reply, AfterReply, Return, Advance
<1>17. CASE SendToGone(c)
      <2>1. /\ channel'[d] = channel[d]
            /\ offered'[d] = offered[d]
            /\ wire'[d] = wire[d]
            BY <1>17 DEF SendToGone, Reset
      <2>2. /\ handler'[d] = handler[d]
            /\ cursor'[d] = cursor[d]
            /\ done'[d] = done[d]
            BY <1>17 DEF SendToGone, AfterReply, Return, Advance
      <2> QED BY <1>17, <2>1, <2>2 DEF SendToGone
<1>18. CASE SpuriousWake(c)
      BY <1>18 DEF SpuriousWake
<1>19. CASE ShutdownAborts(c)
      BY <1>19 DEF ShutdownAborts
<1> QED
    BY <1>1, <1>2, <1>3, <1>4, <1>5, <1>6, <1>6a, <1>7, <1>8, <1>9, <1>10,
       <1>11, <1>12, <1>13, <1>14, <1>15, <1>16, <1>17, <1>18, <1>19
    DEF Step, ClientStep, ReceiverStep, HandlerStep

LEMMA OthersKeep ==
    ASSUME NEW d \in Clients, SameFor(d), Pipe(d), Places(d), Counted(d)
    PROVE  Pipe(d)' /\ Places(d)' /\ Counted(d)'
BY DEF SameFor, Pipe, Front, Remaining, HandlerMtxFree, Places, Counted,
       Unread

-----------------------------------------------------------------------------
(* Nothing is lost on the way *)

LEMMA FrontType ==
    ASSUME TypeOK, NEW c \in Clients
    PROVE  /\ Remaining(c) \in Seq(Message)
           /\ done[c] \o Remaining(c) \in Seq(Message)
           /\ Front(c) \in Seq(Message)
           /\ wire[c] \in Seq(Message)
<1>1. Remaining(c) \in Seq(Message)
      BY DEF TypeOK, Remaining
<1>2. done[c] \o Remaining(c) \in Seq(Message)
      BY <1>1, ConcatProperties DEF TypeOK
<1>3. inHand[c] \in Seq(Message) /\ wire[c] \in Seq(Message)
      BY DEF TypeOK
<1> QED BY <1>1, <1>2, <1>3, ConcatProperties DEF Front

LEMMA ResetPipe ==
    ASSUME TypeOK, NEW c \in Clients, Pipe(c), Front(c)' = Front(c),
           NEW k \in 0 .. Len(wire[c]), Reset(c, k)
    PROVE  Pipe(c)'
<1>1. /\ wire'[c] = SubSeq(wire[c], 1, k)
      /\ offered'[c] =
            SubSeq(offered[c], 1, Len(offered[c]) - Len(wire[c]) + k)
      BY DEF Reset, TypeOK
<1>2. Front(c) \o SubSeq(wire[c], 1, k) =
         SubSeq(offered[c], 1, Len(offered[c]) - Len(wire[c]) + k)
      BY FrontType, PipeCut DEF Pipe
<1> QED BY <1>1, <1>2 DEF Pipe

LEMMA AdvanceFront ==
    ASSUME TypeOK, NEW c \in Clients, cursor[c] # <<>>, Advance(c),
           ~HandlerMtxFree(c), ~HandlerMtxFree(c)', inHand' = inHand
    PROVE  Front(c)' = Front(c)
<1>1. /\ cursor'[c] = Tail(cursor[c])
      /\ done'[c] = Append(done[c], Head(cursor[c]))
      /\ done[c] \in Seq(Message) /\ cursor[c] \in Seq(Message)
      BY DEF Advance, TypeOK
<1>2. done'[c] \o cursor'[c] = done[c] \o cursor[c]
      BY <1>1, PipeShift
<1> QED BY <1>2 DEF Front, Remaining

LEMMA AfterReplyFront ==
    ASSUME TypeOK, NEW c \in Clients, Places(c), handler[c] = "replying",
           AfterReply(c), inHand' = inHand, threadQueue' = threadQueue
    PROVE  Front(c)' = Front(c)
<1>1. CASE Return(c)
      <2>1. /\ cursor[c] # <<>> /\ Advance(c)
            /\ ~HandlerMtxFree(c) /\ ~HandlerMtxFree(c)'
            BY <1>1 DEF Return, Places, HandlerMtxFree, TypeOK
      <2> QED BY <2>1, AdvanceFront
<1>2. CASE /\ handler' = [handler EXCEPT ![c] = "shutdown"]
           /\ UNCHANGED <<cursor, done>>
      <2>1. ~HandlerMtxFree(c) /\ ~HandlerMtxFree(c)'
            BY <1>2 DEF HandlerMtxFree, TypeOK
      <2> QED BY <1>2, <2>1 DEF Front, Remaining
<1> QED BY <1>1, <1>2 DEF AfterReply

LEMMA PipeStep ==
    ASSUME TypeOK, NEW c \in Clients, Pipe(c), Places(c), Step(c)
    PROVE  Pipe(c)'
<1>1. CASE ClientSend(c)
      <2>1. PICK k \in Kinds :
               LET m == [n |-> Len(offered[c]) + 1, kind |-> k] IN
               /\ wire' = [wire EXCEPT ![c] = Append(@, m)]
               /\ offered' = [offered EXCEPT ![c] = Append(@, m)]
            BY <1>1 DEF ClientSend
      <2> DEFINE m == [n |-> Len(offered[c]) + 1, kind |-> k]
      <2>2. /\ wire'[c] = Append(wire[c], m)
            /\ offered'[c] = Append(offered[c], m)
            BY <2>1 DEF TypeOK
      <2>3. Len(offered[c]) \in Nat /\ Len(offered[c]) < MaxRequests
            BY <1>1, LenProperties DEF TypeOK, ClientSend
      <2>4. m \in Message
            BY <2>3, DispatchAssumption DEF Message
      <2> HIDE DEF m
      <2>5. Front(c)' = Front(c)
            BY <1>1 DEF ClientSend, Front, Remaining, HandlerMtxFree
      <2>6. offered'[c] = Front(c) \o Append(wire[c], m)
            BY <2>2, <2>4, PipeSend DEF Pipe
      <2> QED BY <2>2, <2>5, <2>6 DEF Pipe
<1>2. CASE ClientRead(c)
      BY <1>2 DEF ClientRead, Pipe, Front, Remaining,
         HandlerMtxFree
<1>3. CASE ClientClose(c)
      BY <1>3 DEF ClientClose, Pipe, Front, Remaining,
         HandlerMtxFree
<1>4. CASE ClientReset(c)
      <2>1. PICK k \in 0 .. Len(wire[c]) : Reset(c, k)
            BY <1>4 DEF ClientReset
      <2>2. Front(c)' = Front(c)
            BY <1>4 DEF ClientReset, Front, Remaining, HandlerMtxFree
      <2> QED BY <2>1, <2>2, ResetPipe
<1>5. CASE ReceiverRecv(c)
      <2> DEFINE x == done[c] \o Remaining(c)
      <2>1. /\ inHand[c] = <<>>
            /\ wire[c] # <<>>
            /\ inHand'[c] = <<Head(wire[c])>>
            /\ wire'[c] = Tail(wire[c])
            BY <1>5 DEF ReceiverRecv, Places, TypeOK
      <2>2. x \in Seq(Message) /\ x \o <<>> = x
            BY FrontType, ConcatEmptySeq
      <2>3. x \o wire[c] = (x \o <<Head(wire[c])>>) \o Tail(wire[c])
            BY <2>1, <2>2, FrontType, PipeShift
      <2>4. Front(c) = x /\ Front(c)' = x \o <<Head(wire[c])>>
            BY <1>5, <2>1, <2>2
               DEF ReceiverRecv, Front, Remaining, HandlerMtxFree
      <2> QED BY <1>5, <2>1, <2>3, <2>4 DEF Pipe, ReceiverRecv
<1>6. CASE ReceiverEof(c)
      BY <1>6 DEF ReceiverEof, Pipe, Front, Remaining,
         HandlerMtxFree
<1>6a. CASE ReceiverSpins(c)
      BY <1>6a DEF ReceiverSpins, Pipe, Front, Remaining,
         HandlerMtxFree
<1>7. CASE ReceiverError(c)
      <2> DEFINE x == done[c] \o Remaining(c)
      <2>1. inHand[c] = <<>> /\ wire[c] = <<>>
            BY <1>7 DEF ReceiverError, Places
      <2>2. /\ x \in Seq(Message) /\ x \o <<>> = x
            /\ Front(c) = x
            BY <2>1, FrontType, ConcatEmptySeq DEF Front
      <2>3. CASE UNCHANGED <<offered, inHand, receiver>>
            BY <1>7, <2>3 DEF ReceiverError, Pipe, Front, Remaining,
               HandlerMtxFree
      <2>4. CASE /\ offered' = [offered EXCEPT ![c] = Append(@, Bogus)]
                 /\ inHand' = [inHand EXCEPT ![c] = <<Bogus>>]
            <3>1. Bogus \in Message
                  BY DispatchAssumption DEF Bogus, Message, AllKinds
            <3>2. /\ Append(x, Bogus) = x \o <<Bogus>>
                  /\ x \o <<Bogus>> \in Seq(Message)
                  BY <2>2, <3>1, AppendIsConcat, AppendProperties
            <3>3. Front(c)' = x \o <<Bogus>>
                  BY <1>7, <2>4 DEF ReceiverError, Front, Remaining,
                     HandlerMtxFree, TypeOK
            <3>4. (x \o <<Bogus>>) \o <<>> = x \o <<Bogus>>
                  BY <3>2, ConcatEmptySeq
            <3>5. offered'[c] = Append(x, Bogus) /\ wire'[c] = <<>>
                  BY <1>7, <2>1, <2>2, <2>4 DEF ReceiverError, Pipe, TypeOK
            <3> QED BY <3>2, <3>3, <3>4, <3>5 DEF Pipe
      <2> QED BY <1>7, <2>3, <2>4 DEF ReceiverError
<1>8. CASE ReceiverDispatch(c)
      <2>1. /\ Remaining(c) = threadQueue[c]
            /\ Remaining(c)' = threadQueue[c] \o inHand[c]
            /\ inHand'[c] = <<>>
            BY <1>8
               DEF ReceiverDispatch, PushBack, Notify, Remaining,
               HandlerMtxFree, TypeOK
      <2>2. /\ done[c] \in Seq(Message) /\ threadQueue[c] \in Seq(Message)
            /\ inHand[c] \in Seq(Message) /\ wire[c] \in Seq(Message)
            BY DEF TypeOK
      <2>3. done[c] \o (threadQueue[c] \o inHand[c]) =
            done[c] \o threadQueue[c] \o inHand[c]
            <3> DEFINE d == done[c]  q == threadQueue[c]  h == inHand[c]
            <3>1. d \in Seq(Message) /\ q \in Seq(Message) /\ h \in Seq(Message)
                  BY <2>2
            <3> HIDE DEF d, q, h
            <3>2. d \o (q \o h) = (d \o q) \o h
                  BY <3>1, ConcatAssociative
            <3> QED BY <3>2 DEF d, q, h
      <2>4. Front(c) \in Seq(Message) /\ Front(c) \o <<>> = Front(c)
            BY FrontType, ConcatEmptySeq
      <2>6. /\ Front(c) = done[c] \o threadQueue[c] \o inHand[c]
            /\ Front(c)' = done[c] \o (threadQueue[c] \o inHand[c]) \o <<>>
            <3>1. done'[c] = done[c]
                  BY <1>8 DEF ReceiverDispatch, PushBack, Notify
            <3> QED BY <2>1, <3>1, Zenon DEF Front
      <2>5. Front(c)' = Front(c)
            BY <2>3, <2>4, <2>6, Zenon
      <2> QED BY <1>8, <2>5 DEF ReceiverDispatch, PushBack, Notify, Pipe
<1>9. CASE HandlerLock(c)
      <2>1. Remaining(c)' = Remaining(c)
            BY <1>9 DEF HandlerLock, Remaining, HandlerMtxFree, TypeOK
      <2> QED BY <1>9, <2>1 DEF HandlerLock, Pipe, Front
<1>10. CASE SkipEmpty(c)
      <2>1. Front(c)' = Front(c)
            BY <1>10, AdvanceFront DEF SkipEmpty, HandlerMtxFree
      <2> QED BY <1>10, <2>1 DEF SkipEmpty, Pipe
<1>11. CASE EndBatch(c)
      <2>1. Remaining(c)' = Remaining(c)
            BY <1>11 DEF EndBatch, Remaining, HandlerMtxFree, TypeOK
      <2> QED BY <1>11, <2>1 DEF EndBatch, Pipe, Front
<1>12. CASE BeginHandle(c)
      <2>1. Remaining(c)' = Remaining(c)
            BY <1>12
               DEF BeginHandle, MessageMtxFree, Remaining, HandlerMtxFree,
               TypeOK
      <2> QED BY <1>12, <2>1 DEF BeginHandle, MessageMtxFree, Pipe, Front
<1>13. CASE Execute(c)
      <2>1. Remaining(c)' = Remaining(c)
            BY <1>13 DEF Execute, Remaining, HandlerMtxFree, TypeOK
      <2> QED BY <1>13, <2>1 DEF Execute, Pipe, Front
<1>14. CASE ExecuteSilent(c)
      <2>1. /\ cursor[c] # <<>> /\ Advance(c)
            /\ ~HandlerMtxFree(c) /\ ~HandlerMtxFree(c)'
            /\ inHand' = inHand
            BY <1>14 DEF ExecuteSilent, Return, Places, HandlerMtxFree, TypeOK
      <2>2. Front(c)' = Front(c)
            BY <2>1, AdvanceFront
      <2> QED BY <1>14, <2>2 DEF ExecuteSilent, Pipe
<1>15. CASE ExecuteThrows(c)
      BY <1>15 DEF ExecuteThrows, Pipe, Front, Remaining,
         HandlerMtxFree
<1>16. CASE SendReply(c)
      <2>1. Front(c)' = Front(c)
            BY <1>16, AfterReplyFront DEF SendReply, Reply
      <2> QED BY <1>16, <2>1 DEF SendReply, Reply, Pipe
<1>17. CASE SendToGone(c)
      <2>1. CASE AfterReply(c)
            <3>1. Front(c)' = Front(c)
                  BY <1>17, <2>1, AfterReplyFront DEF SendToGone
            <3>2. CASE \E k \in 0 .. Len(wire[c]) : Reset(c, k)
                  BY <3>1, <3>2, ResetPipe
            <3>3. CASE UNCHANGED <<wire, offered>>
                  BY <3>1, <3>3 DEF Pipe
            <3> QED BY <1>17, <3>2, <3>3 DEF SendToGone
      <2>2. CASE UNCHANGED <<wire, offered, handler, cursor, done>>
            BY <1>17, <2>2 DEF SendToGone, Pipe, Front, Remaining,
               HandlerMtxFree
      <2> QED BY <1>17, <2>1, <2>2 DEF SendToGone
<1>18. CASE SpuriousWake(c)
      <2>1. Remaining(c)' = Remaining(c)
            BY <1>18 DEF SpuriousWake, Remaining, HandlerMtxFree, TypeOK
      <2> QED BY <1>18, <2>1 DEF SpuriousWake, Pipe, Front
<1>19. CASE ShutdownAborts(c)
      BY <1>19 DEF ShutdownAborts, Pipe, Front, Remaining,
         HandlerMtxFree
<1> QED
    BY <1>1, <1>2, <1>3, <1>4, <1>5, <1>6, <1>6a, <1>7, <1>8, <1>9, <1>10,
       <1>11, <1>12, <1>13, <1>14, <1>15, <1>16, <1>17, <1>18, <1>19
    DEF Step, ClientStep, ReceiverStep, HandlerStep

-----------------------------------------------------------------------------
(* Where the threads are *)

LEMMA PlacesStep ==
    ASSUME TypeOK, NEW c \in Clients, Places(c), Step(c)
    PROVE  Places(c)'
<1> USE DEF Places, TypeOK
<1>1. CASE ClientSend(c)
      BY <1>1 DEF ClientSend
<1>2. CASE ClientRead(c)
      BY <1>2 DEF ClientRead
<1>3. CASE ClientClose(c)
      BY <1>3 DEF ClientClose
<1>4. CASE ClientReset(c)
      BY <1>4 DEF ClientReset
<1>5. CASE ReceiverRecv(c)
      BY <1>5 DEF ReceiverRecv
<1>6. CASE ReceiverEof(c)
      BY <1>6 DEF ReceiverEof
<1>6a. CASE ReceiverSpins(c)
      BY <1>6a DEF ReceiverSpins
<1>7. CASE ReceiverError(c)
      BY <1>7 DEF ReceiverError
<1>8. CASE ReceiverDispatch(c)
      BY <1>8 DEF ReceiverDispatch, PushBack, Notify
<1>9. CASE HandlerLock(c)
      BY <1>9 DEF HandlerLock
<1>10. CASE SkipEmpty(c)
      BY <1>10 DEF SkipEmpty, Advance
<1>11. CASE EndBatch(c)
      BY <1>11 DEF EndBatch
<1>12. CASE BeginHandle(c)
      BY <1>12 DEF BeginHandle, MessageMtxFree
<1>13. CASE Execute(c)
      BY <1>13 DEF Execute
<1>14. CASE ExecuteSilent(c)
      BY <1>14 DEF ExecuteSilent, Return, Advance
<1>15. CASE ExecuteThrows(c)
      BY <1>15 DEF ExecuteThrows
<1>16. CASE SendReply(c)
      BY <1>16 DEF SendReply, Reply, AfterReply, Return, Advance
<1>17. CASE SendToGone(c)
      BY <1>17 DEF SendToGone, AfterReply, Return, Advance
<1>18. CASE SpuriousWake(c)
      BY <1>18 DEF SpuriousWake
<1>19. CASE ShutdownAborts(c)
      BY <1>19 DEF ShutdownAborts
<1> QED
    BY <1>1, <1>2, <1>3, <1>4, <1>5, <1>6, <1>6a, <1>7, <1>8, <1>9, <1>10,
       <1>11, <1>12, <1>13, <1>14, <1>15, <1>16, <1>17, <1>18, <1>19
    DEF Step, ClientStep, ReceiverStep, HandlerStep

\* The handler of c is inside handleMessage.
Inside(c) == handler[c] \in {"handling", "replying", "shutdown"}

LEMMA OneHandlerStep ==
    ASSUME TypeOK, OneHandler, NEW c \in Clients, Step(c)
    PROVE  OneHandler'
<1> SUFFICES ASSUME NEW d \in Clients, Inside(d)' PROVE messageMtx' = d
    BY DEF OneHandler, Inside
<1>1. ASSUME Inside(d), messageMtx' # messageMtx PROVE d = c /\ Return(c)
      <2>1. messageMtx = d /\ d # None
            BY <1>1, DispatchAssumption DEF OneHandler, Inside
      <2>2. ~BeginHandle(c)
            BY <2>1 DEF BeginHandle, MessageMtxFree
      <2>3. Inside(c) /\ Return(c)
            BY <1>1, <2>2 DEF Step, ClientStep, ReceiverStep, HandlerStep,
               ClientSend, ClientRead, ClientClose, ClientReset, ReceiverRecv,
               ReceiverEof, ReceiverError, ReceiverSpins,
               ReceiverDispatch, PushBack, Notify,
               HandlerLock,
               SkipEmpty, EndBatch, Execute, ExecuteSilent, ExecuteThrows,
               SendReply, Reply, SendToGone, AfterReply, SpuriousWake,
               ShutdownAborts, Inside
      <2> QED BY <2>1, <2>3 DEF OneHandler, Inside
<1>2. CASE Inside(d) /\ messageMtx' = messageMtx
      BY <1>2 DEF OneHandler, Inside
<1>3. CASE Inside(d) /\ messageMtx' # messageMtx
      <2>1. handler'[c] = "iterate"
            BY <1>1, <1>3 DEF Return, TypeOK
      <2> QED BY <1>1, <1>3, <2>1 DEF Inside
<1>4. CASE ~Inside(d)
      <2>1. handler'[d] # handler[d]
            BY <1>4 DEF Inside
      <2>2. d = c
            BY <2>1, Locality DEF SameFor
      <2>3. BeginHandle(c)
            BY <1>4, <2>2 DEF Step, ClientStep, ReceiverStep, HandlerStep,
               ClientSend, ClientRead, ClientClose, ClientReset, ReceiverRecv,
               ReceiverEof, ReceiverError, ReceiverSpins,
               ReceiverDispatch, PushBack, Notify,
               HandlerLock,
               SkipEmpty, EndBatch, Execute, ExecuteSilent, ExecuteThrows,
               SendReply, Reply, SendToGone, SpuriousWake,
               ShutdownAborts, Inside, TypeOK
      <2> QED BY <2>2, <2>3 DEF BeginHandle, MessageMtxFree
<1> QED BY <1>2, <1>3, <1>4

-----------------------------------------------------------------------------
(* Counting the replies *)

LEMMA AdvanceLen ==
    ASSUME TypeOK, NEW c \in Clients, cursor[c] # <<>>, Advance(c)
    PROVE  Len(done'[c]) = Len(done[c]) + 1
<1>1. Head(cursor[c]) \in Message
      BY HeadTailProperties DEF TypeOK
<1>2. Len(Append(done[c], Head(cursor[c]))) = Len(done[c]) + 1
      BY <1>1, AppendProperties DEF TypeOK
<1> QED BY <1>2 DEF Advance, TypeOK

LEMMA CountedStep ==
    ASSUME TypeOK, NEW c \in Clients, Places(c), Counted(c), Step(c)
    PROVE  Counted(c)'
<1> DEFINE o == Len(offered[c])
           r == Len(read[c])
           p == Len(replies[c])
           d == Len(done[c])
           o2 == Len(offered'[c])
           r2 == Len(read'[c])
           p2 == Len(replies'[c])
           d2 == Len(done'[c])
           down == handler[c] = "shutdown"
           down2 == handler'[c] = "shutdown"
           same == o2 = o /\ r2 = r /\ p2 = p /\ d2 = d /\ (down2 <=> down)
<1>a. /\ o \in Nat /\ r \in Nat /\ p \in Nat /\ d \in Nat
      /\ Window \in Nat
      BY LenProperties, DispatchAssumption DEF TypeOK
<1>b. channel[c] = "open" =>
         o - r <= Window /\ r + p <= d + 1 /\ (~down => r + p <= d)
      BY DEF Counted, Unread
<1>c. SUFFICES ASSUME channel'[c] = "open"
               PROVE  /\ o2 - r2 <= Window
                      /\ r2 + p2 <= d2 + 1
                      /\ ~down2 => r2 + p2 <= d2
      BY DEF Counted, Unread
<1>1. CASE ClientSend(c)
      <2>1. /\ channel[c] = "open" /\ (down2 <=> down)
            /\ o2 = o + 1 /\ r2 = r /\ p2 = p /\ d2 = d
            /\ o - r < Window
            BY <1>1 DEF ClientSend, Unread, TypeOK
      <2> HIDE DEF o, r, p, d, o2, r2, p2, d2, down, down2
      <2> QED BY <1>a, <1>b, <2>1
<1>2. CASE ClientRead(c)
      <2>1. /\ channel[c] = "open" /\ (down2 <=> down)
            /\ o2 = o /\ r2 = r + 1 /\ p2 = p - 1 /\ d2 = d
            BY <1>2, HeadTailProperties DEF ClientRead, TypeOK
      <2> HIDE DEF o, r, p, d, o2, r2, p2, d2, down, down2
      <2> QED BY <1>a, <1>b, <2>1
<1>3. CASE ClientClose(c)
      BY <1>3, <1>c DEF ClientClose, TypeOK
<1>4. CASE ClientReset(c)
      BY <1>4, <1>c DEF ClientReset, Reset, TypeOK
<1>5. CASE ReceiverRecv(c)
      <2>1. channel[c] = "open" /\ same
            BY <1>5, <1>c DEF ReceiverRecv, TypeOK
      <2> HIDE DEF o, r, p, d, o2, r2, p2, d2, down, down2
      <2> QED BY <1>a, <1>b, <2>1
<1>6. CASE ReceiverEof(c)
      <2>1. channel[c] = "open" /\ same
            BY <1>6, <1>c DEF ReceiverEof, TypeOK
      <2> HIDE DEF o, r, p, d, o2, r2, p2, d2, down, down2
      <2> QED BY <1>a, <1>b, <2>1
<1>6a. CASE ReceiverSpins(c)
      BY <1>6a, <1>c DEF ReceiverSpins
<1>7. CASE ReceiverError(c)
      BY <1>7, <1>c DEF ReceiverError, TypeOK
<1>8. CASE ReceiverDispatch(c)
      <2>1. channel[c] = "open" /\ same
            BY <1>8, <1>c DEF ReceiverDispatch, PushBack, Notify, TypeOK
      <2> HIDE DEF o, r, p, d, o2, r2, p2, d2, down, down2
      <2> QED BY <1>a, <1>b, <2>1
<1>9. CASE HandlerLock(c)
      <2>1. channel[c] = "open" /\ same
            BY <1>9, <1>c DEF HandlerLock, TypeOK
      <2> HIDE DEF o, r, p, d, o2, r2, p2, d2, down, down2
      <2> QED BY <1>a, <1>b, <2>1
<1>10. CASE SkipEmpty(c)
      <2>1. d2 = d + 1
            BY <1>10, AdvanceLen DEF SkipEmpty
      <2>2. /\ channel[c] = "open" /\ (down2 <=> down)
            /\ o2 = o /\ r2 = r /\ p2 = p
            BY <1>10, <1>c DEF SkipEmpty
      <2> HIDE DEF o, r, p, d, o2, r2, p2, d2, down, down2
      <2> QED BY <1>a, <1>b, <2>1, <2>2
<1>11. CASE EndBatch(c)
      <2>1. channel[c] = "open" /\ same
            BY <1>11, <1>c DEF EndBatch, TypeOK
      <2> HIDE DEF o, r, p, d, o2, r2, p2, d2, down, down2
      <2> QED BY <1>a, <1>b, <2>1
<1>12. CASE BeginHandle(c)
      <2>1. channel[c] = "open" /\ same
            BY <1>12, <1>c DEF BeginHandle, MessageMtxFree, TypeOK
      <2> HIDE DEF o, r, p, d, o2, r2, p2, d2, down, down2
      <2> QED BY <1>a, <1>b, <2>1
<1>13. CASE Execute(c)
      <2>1. channel[c] = "open" /\ same
            BY <1>13, <1>c DEF Execute, TypeOK
      <2> HIDE DEF o, r, p, d, o2, r2, p2, d2, down, down2
      <2> QED BY <1>a, <1>b, <2>1
<1>14. CASE ExecuteSilent(c)
      <2>1. d2 = d + 1
            BY <1>14, AdvanceLen DEF ExecuteSilent, Return, Places
      <2>2. /\ channel[c] = "open" /\ ~down /\ ~down2
            /\ o2 = o /\ r2 = r /\ p2 = p
            BY <1>14, <1>c DEF ExecuteSilent, Return, TypeOK
      <2> HIDE DEF o, r, p, d, o2, r2, p2, d2, down, down2
      <2> QED BY <1>a, <1>b, <2>1, <2>2
<1>15. CASE ExecuteThrows(c)
      <2>1. channel[c] = "open" /\ same
            BY <1>15, <1>c DEF ExecuteThrows, TypeOK
      <2> HIDE DEF o, r, p, d, o2, r2, p2, d2, down, down2
      <2> QED BY <1>a, <1>b, <2>1
<1>16. CASE SendReply(c)
      <2>1. /\ handler[c] = "replying" /\ cursor[c] # <<>>
            /\ channel[c] = "open" /\ ~down /\ o2 = o /\ r2 = r
            BY <1>16 DEF SendReply, Reply, Places
      <2>2. p2 = p + 1
            <3>1. Head(cursor[c]) \in Message
                  BY <2>1, HeadTailProperties DEF TypeOK
            <3>2. Head(cursor[c]).n \in 0 .. MaxRequests
                  BY <3>1 DEF Message
            <3>3. replies'[c] = Append(replies[c], Head(cursor[c]).n)
                  BY <1>16 DEF SendReply, Reply, TypeOK
            <3> QED BY <3>2, <3>3, AppendProperties DEF TypeOK
      <2>3. \/ ~down2 /\ d2 = d + 1
            \/ down2 /\ d2 = d
            <3>1. CASE Return(c)
                  BY <2>1, <3>1, AdvanceLen DEF Return, TypeOK
            <3>2. CASE /\ handler' = [handler EXCEPT ![c] = "shutdown"]
                       /\ UNCHANGED done
                  BY <3>2 DEF TypeOK
            <3> QED BY <1>16, <3>1, <3>2 DEF SendReply, Reply, AfterReply
      <2> HIDE DEF o, r, p, d, o2, r2, p2, d2, down, down2
      <2> QED BY <1>a, <1>b, <2>1, <2>2, <2>3
<1>17. CASE SendToGone(c)
      BY <1>17, <1>c DEF SendToGone, Reset, TypeOK
<1>18. CASE SpuriousWake(c)
      <2>1. channel[c] = "open" /\ same
            BY <1>18, <1>c DEF SpuriousWake, TypeOK
      <2> HIDE DEF o, r, p, d, o2, r2, p2, d2, down, down2
      <2> QED BY <1>a, <1>b, <2>1
<1>19. CASE ShutdownAborts(c)
      <2>1. channel[c] = "open" /\ same
            BY <1>19, <1>c DEF ShutdownAborts, TypeOK
      <2> HIDE DEF o, r, p, d, o2, r2, p2, d2, down, down2
      <2> QED BY <1>a, <1>b, <2>1
<1> QED
    BY <1>1, <1>2, <1>3, <1>4, <1>5, <1>6, <1>6a, <1>7, <1>8, <1>9, <1>10,
       <1>11, <1>12, <1>13, <1>14, <1>15, <1>16, <1>17, <1>18, <1>19
    DEF Step, ClientStep, ReceiverStep, HandlerStep

-----------------------------------------------------------------------------
(* The theorems *)

LEMMA InvStep == Inv /\ [Next]_vars => Inv'
<1> SUFFICES ASSUME Inv, [Next]_vars PROVE Inv'
    OBVIOUS
<1>1. TypeOK /\ TypeOK'
      BY TypeStep DEF Inv
<1>2. ASSUME NEW c \in Clients, Step(c) PROVE Inv'
      <2>1. OneHandler'
            BY <1>1, <1>2, OneHandlerStep DEF Inv
      <2>2. Pipe(c)' /\ Places(c)' /\ Counted(c)'
            BY <1>1, <1>2, PipeStep, PlacesStep, CountedStep DEF Inv
      <2>3. ASSUME NEW d \in Clients, d # c
            PROVE  Pipe(d)' /\ Places(d)' /\ Counted(d)'
            BY <1>1, <1>2, <2>3, Locality, OthersKeep DEF Inv
      <2> QED BY <1>1, <2>1, <2>2, <2>3 DEF Inv
<1>3. CASE UNCHANGED vars
      <2>1. OneHandler'
            BY <1>3 DEF Inv, OneHandler, vars
      <2>2. ASSUME NEW d \in Clients
            PROVE  Pipe(d)' /\ Places(d)' /\ Counted(d)'
            BY <1>3, OthersKeep DEF Inv, SameFor, vars
      <2> QED BY <1>1, <2>1, <2>2 DEF Inv
<1> QED BY <1>2, <1>3 DEF Next, Step

THEOREM Invariance == Spec => []Inv
BY InitInv, InvStep, PTL DEF Spec

\* Every variable has the type its C++ counterpart has.
THEOREM TypeCorrect == Spec => []TypeOK
<1>1. Inv => TypeOK
      BY DEF Inv
<1> QED BY <1>1, Invariance, PTL

\* The receive path of receiveFromClient, threadQueue and the for loop of
\* clientSubThreadHandler neither loses, repeats nor reorders a message.
THEOREM ReceivePathLossless == Spec => []Lossless
<1>1. Inv => Lossless
      BY DEF Inv, Lossless, Pipe, Front
<1> QED BY <1>1, Invariance, PTL

\* clientSubThreadHandler never sleeps on handlerCv with work in its queue.
THEOREM WaitersAreIdle == Spec => []NoLostWakeup
<1>1. Inv => NoLostWakeup
      BY DEF Inv, NoLostWakeup, Places
<1> QED BY <1>1, Invariance, PTL

\* m_messageHandlerMtx: one thread at a time is inside handleMessage.
THEOREM HandleMessageExclusive ==
    Spec => [](\A c, d \in Clients : Inside(c) /\ Inside(d) => c = d)
<1>1. Inv => \A c, d \in Clients : Inside(c) /\ Inside(d) => c = d
      BY DEF Inv, OneHandler, Inside
<1> QED BY <1>1, Invariance, PTL

LEMMA InvSendNeverBlocks == Inv => SendNeverBlocks
<1> SUFFICES ASSUME Inv, Window <= ReplyCap, NEW c \in Clients,
                    handler[c] = "replying", channel[c] = "open"
             PROVE  Len(replies[c]) < ReplyCap
    BY DEF SendNeverBlocks
<1> DEFINE o == Len(offered[c])
           r == Len(read[c])
           p == Len(replies[c])
           d == Len(done[c])
<1>1. /\ o \in Nat /\ r \in Nat /\ p \in Nat /\ d \in Nat
      /\ Window \in Nat /\ ReplyCap \in Nat
      BY LenProperties, DispatchAssumption DEF Inv, TypeOK
<1>2. o - r <= Window /\ r + p <= d
      BY DEF Inv, Counted, Unread
<1>3. d + 1 <= o
      <2>1. cursor[c] # <<>> /\ Remaining(c) = cursor[c]
            BY DEF Inv, Places, Remaining, HandlerMtxFree
      <2>2. /\ cursor[c] \in Seq(Message) /\ inHand[c] \in Seq(Message)
            /\ wire[c] \in Seq(Message) /\ done[c] \in Seq(Message)
            /\ offered[c] = done[c] \o cursor[c] \o inHand[c] \o wire[c]
            BY <2>1 DEF Inv, TypeOK, Pipe, Front
      <2>3. /\ Len(cursor[c]) \in Nat \ {0}
            /\ Len(inHand[c]) \in Nat /\ Len(wire[c]) \in Nat
            BY <2>1, <2>2, EmptySeq, LenProperties
      <2>4. /\ done[c] \o cursor[c] \in Seq(Message)
            /\ Len(done[c] \o cursor[c]) = d + Len(cursor[c])
            BY <2>2, ConcatProperties
      <2>5. /\ done[c] \o cursor[c] \o inHand[c] \in Seq(Message)
            /\ Len(done[c] \o cursor[c] \o inHand[c]) =
                  d + Len(cursor[c]) + Len(inHand[c])
            BY <2>2, <2>4, ConcatProperties
      <2>6. o = d + Len(cursor[c]) + Len(inHand[c]) + Len(wire[c])
            BY <2>2, <2>5, ConcatProperties
      <2> DEFINE x == Len(cursor[c])
                 h == Len(inHand[c])
                 w == Len(wire[c])
      <2>7. /\ x \in Nat \ {0} /\ h \in Nat /\ w \in Nat
            /\ o = d + x + h + w
            BY <2>3, <2>6
      <2> HIDE DEF o, d, x, h, w
      <2> QED BY <1>1, <2>7
<1> HIDE DEF o, r, p, d
<1>4. p < ReplyCap
      BY <1>1, <1>2, <1>3
<1> QED BY <1>4 DEF p

\* With no more requests outstanding than replies fit the socket buffer, no
\* handler blocks in send_message while it holds m_messageHandlerMtx.
THEOREM RepliesNeverBlock == Spec => []SendNeverBlocks
BY InvSendNeverBlocks, Invariance, PTL

-----------------------------------------------------------------------------
(* The server never stalls *)

\* What the threads of c find when they are scheduled: the guards of the
\* actions of receiveFromClient and of clientSubThreadHandler.
ReceiverRuns(c) ==
    \/ receiver[c] = "recv" /\ (wire[c] # <<>> \/ channel[c] # "open")
    \/ receiver[c] = "dispatch" /\ HandlerMtxFree(c)

HandlerRuns(c) ==
    \/ handler[c] \in {"top", "woken", "shutdown"}
    \/ handler[c] = "iterate" /\ cursor[c] = <<>>
    \/ /\ handler[c] = "iterate" /\ cursor[c] # <<>>
       /\ Head(cursor[c]).kind = "empty" \/ messageMtx = None
    \/ handler[c] = "handling" /\ Head(cursor[c]).kind # "empty"
    \/ /\ handler[c] = "replying"
       /\ channel[c] # "open" \/ Len(replies[c]) < ReplyCap

\* As long as no client has more requests outstanding than the buffer towards
\* it holds replies, a living server that has not served every message has a
\* thread that can go on: the receivers and handlers of all clients, waiting
\* for messages, on handlerCv, for both mutexes and in send, never wait in a
\* circle, whatever the clients do.
NeverStalls ==
    Window <= ReplyCap =>
       \A c \in Clients :
          Len(done[c]) < Len(offered[c]) =>
             \E d \in Clients : ReceiverRuns(d) \/ HandlerRuns(d)

\* What this takes beyond Inv: m_messageHandlerMtx is held by a handler that
\* is inside handleMessage,
Owned == messageMtx # None => messageMtx \in Clients /\ Inside(messageMtx)

\* the loop enters handleMessage for messages only that have a text,
Serving(c) == handler[c] = "handling" => Head(cursor[c]).kind # "empty"

\* and a receiver ends, or spins, behind the last message.
Drained(c) ==
    receiver[c] \in {"gone", "spin"} => wire[c] = <<>> /\ channel[c] # "open"

SInv == Owned /\ \A c \in Clients : Serving(c) /\ Drained(c)

LEMMA OwnedStep ==
    ASSUME TypeOK, OneHandler, Owned, NEW c \in Clients, Step(c)
    PROVE  Owned'
<1> USE DEF TypeOK, Inside
<1>0. handler[c] = "replying" => messageMtx = c
      BY DEF OneHandler
<1>1. CASE BeginHandle(c)
      BY <1>1 DEF BeginHandle, Owned
<1>2. CASE Execute(c)
      BY <1>2 DEF Execute, Owned
<1>3. CASE ExecuteSilent(c)
      BY <1>3 DEF ExecuteSilent, Return, Owned
<1>4. CASE SendReply(c)
      BY <1>0, <1>4 DEF SendReply, AfterReply, Return, Owned
<1>5. CASE SendToGone(c)
      <2>1. CASE AfterReply(c)
            BY <1>0, <1>5, <2>1 DEF SendToGone, AfterReply, Return, Owned
      <2>2. CASE UNCHANGED <<handler, messageMtx>>
            BY <2>2 DEF Owned
      <2> QED BY <1>5, <2>1, <2>2 DEF SendToGone
<1>6. CASE messageMtx' = messageMtx /\ (Inside(c) => handler' = handler)
      <2>1. ASSUME messageMtx # None PROVE Inside(messageMtx)'
            <3>1. CASE messageMtx = c
                  BY <1>6, <2>1, <3>1 DEF Owned
            <3>2. CASE messageMtx # c
                  <4>1. messageMtx \in Clients /\ Inside(messageMtx)
                        BY <2>1 DEF Owned
                  <4>2. handler'[messageMtx] = handler[messageMtx]
                        BY <3>2, <4>1, Locality DEF SameFor
                  <4> QED BY <1>6, <4>1, <4>2
            <3> QED BY <3>1, <3>2
      <2> QED BY <1>6, <2>1 DEF Owned
<1> QED BY <1>1, <1>2, <1>3, <1>4, <1>5, <1>6
    DEF Step, ClientStep, ReceiverStep, HandlerStep, ClientSend, ClientRead,
        ClientClose, ClientReset, ReceiverRecv, ReceiverEof, ReceiverError,
        ReceiverSpins, ReceiverDispatch, Notify, HandlerLock, SkipEmpty,
        EndBatch, ExecuteThrows, SpuriousWake, ShutdownAborts

LEMMA ServingStep ==
    ASSUME TypeOK, NEW c \in Clients, Serving(c), Step(c)
    PROVE  Serving(c)'
<1> USE DEF Serving, TypeOK
<1>1. CASE BeginHandle(c)
      BY <1>1 DEF BeginHandle
<1>2. CASE handler'[c] # "handling"
      BY <1>2
<1>3. CASE UNCHANGED <<handler, cursor>>
      BY <1>3
<1>4. CASE ReceiverDispatch(c)
      BY <1>4 DEF ReceiverDispatch, Notify
<1> QED BY <1>1, <1>2, <1>3, <1>4
    DEF Step, ClientStep, ReceiverStep, HandlerStep, ClientSend, ClientRead,
        ClientClose, ClientReset, ReceiverRecv, ReceiverEof, ReceiverError,
        ReceiverSpins, HandlerLock, SkipEmpty, EndBatch, Execute,
        ExecuteSilent, ExecuteThrows, SendReply, SendToGone, AfterReply,
        Return, SpuriousWake, ShutdownAborts

LEMMA DrainedStep ==
    ASSUME TypeOK, NEW c \in Clients, Drained(c), Step(c)
    PROVE  Drained(c)'
<1> USE DEF Drained, TypeOK
<1>1. ASSUME NEW k \in 0 .. Len(wire[c]), Reset(c, k),
             receiver'[c] = receiver[c]
      PROVE  Drained(c)'
      <2>1. CASE receiver[c] \in {"gone", "spin"}
            <3>1. wire[c] = <<>> /\ k = 0
                  BY <2>1, EmptySeq
            <3>2. wire'[c] = SubSeq(<<>>, 1, 0)
                  BY <1>1, <3>1 DEF Reset
            <3>3. SubSeq(<<>>, 1, 0) = <<>>
                  BY SubSeqProperties
            <3> QED BY <1>1, <3>2, <3>3 DEF Reset
      <2> QED BY <1>1, <2>1
<1>2. CASE ClientReset(c)
      BY <1>1, <1>2 DEF ClientReset
<1>3. CASE SendToGone(c)
      BY <1>1, <1>3 DEF SendToGone
<1>4. CASE ClientSend(c) \/ ClientClose(c)
      BY <1>4 DEF ClientSend, ClientClose
<1>5. CASE ReceiverRecv(c) \/ ReceiverEof(c) \/ ReceiverError(c)
      BY <1>5 DEF ReceiverRecv, ReceiverEof, ReceiverError
<1>6. CASE ReceiverSpins(c) \/ ReceiverDispatch(c)
      BY <1>6 DEF ReceiverSpins, ReceiverDispatch
<1>7. CASE UNCHANGED <<receiver, wire, channel>>
      BY <1>7
<1> QED BY <1>2, <1>3, <1>4, <1>5, <1>6, <1>7
    DEF Step, ClientStep, ReceiverStep, HandlerStep, ClientRead, HandlerLock,
        SkipEmpty, EndBatch, BeginHandle, Execute, ExecuteSilent,
        ExecuteThrows, SendReply, SpuriousWake, ShutdownAborts

LEMMA SInvStep == Inv /\ SInv /\ [Next]_vars => SInv'
<1> SUFFICES ASSUME Inv, SInv, [Next]_vars PROVE SInv'
    OBVIOUS
<1>1. ASSUME NEW c \in Clients, Step(c) PROVE SInv'
      <2>1. Owned'
            BY <1>1, OwnedStep DEF Inv, SInv
      <2>2. Serving(c)' /\ Drained(c)'
            BY <1>1, ServingStep, DrainedStep DEF Inv, SInv
      <2>3. ASSUME NEW d \in Clients, d # c PROVE Serving(d)' /\ Drained(d)'
            BY <1>1, <2>3, Locality DEF Inv, SInv, SameFor, Serving, Drained
      <2> QED BY <2>1, <2>2, <2>3 DEF SInv
<1>2. CASE UNCHANGED vars
      BY <1>2 DEF SInv, Owned, Inside, Serving, Drained, vars
<1> QED BY <1>1, <1>2 DEF Next, Step

\* What has been offered and is not done is with the handler, in the hand of
\* the receiver or on the wire.
LEMMA OutstandingIsSomewhere ==
    ASSUME Inv, NEW c \in Clients, Len(done[c]) < Len(offered[c])
    PROVE  Remaining(c) # <<>> \/ inHand[c] # <<>> \/ wire[c] # <<>>
<1> SUFFICES ASSUME Remaining(c) = <<>>, inHand[c] = <<>>, wire[c] = <<>>
             PROVE  FALSE
    OBVIOUS
<1>1. offered[c] = done[c] \o <<>> \o <<>> \o <<>>
      BY DEF Inv, Pipe, Front
<1>2. done[c] \in Seq(Message)
      BY DEF Inv, TypeOK
<1>3. done[c] \o <<>> = done[c]
      BY <1>2, ConcatEmptySeq
<1>4. offered[c] = done[c]
      BY <1>1, <1>3
<1>5. Len(done[c]) \in Nat
      BY <1>2, LenProperties
<1> QED BY <1>4, <1>5

\* No request of any client ever waits in a server whose threads all wait for
\* each other: neither the two mutexes, nor handlerCv, nor send can lock up.
THEOREM ServerNeverStalls == Spec => []NeverStalls
<1>1. Init => SInv
      BY DEF Init, SInv, Owned, Serving, Drained
<1>2. Inv /\ SInv => NeverStalls
      <2> SUFFICES ASSUME Inv, SInv, SendNeverBlocks, Window <= ReplyCap,
                          NEW c \in Clients, Len(done[c]) < Len(offered[c])
                   PROVE  \E d \in Clients : ReceiverRuns(d) \/ HandlerRuns(d)
          BY InvSendNeverBlocks DEF NeverStalls
      <2>1. ASSUME NEW d \in Clients, Inside(d) PROVE HandlerRuns(d)
            BY <2>1 DEF Inside, HandlerRuns, SInv, Serving, SendNeverBlocks
      <2>2. CASE messageMtx # None
            BY <2>1, <2>2 DEF SInv, Owned
      <2>3. CASE messageMtx = None
            <3>1. CASE handler[c] # "wait"
                  <4>1. HandlerRuns(c) \/ Inside(c)
                        BY <2>3, <3>1 DEF HandlerRuns, Inside, Inv, TypeOK
                  <4> QED BY <2>1, <4>1
            <3>2. CASE handler[c] = "wait"
                  <4>1. Remaining(c) = <<>> /\ HandlerMtxFree(c)
                        BY <3>2 DEF Inv, Places, Remaining, HandlerMtxFree
                  <4>2. inHand[c] # <<>> \/ wire[c] # <<>>
                        BY <4>1, OutstandingIsSomewhere
                  <4>3. \/ receiver[c] = "dispatch"
                        \/ receiver[c] = "recv" /\ wire[c] # <<>>
                        BY <4>2 DEF Inv, TypeOK, Places, SInv, Drained
                  <4> QED BY <4>1, <4>3 DEF ReceiverRuns
            <3> QED BY <3>1, <3>2
      <2> QED BY <2>2, <2>3
<1> QED BY <1>1, <1>2, SInvStep, Invariance, PTL DEF Spec
=============================================================================
