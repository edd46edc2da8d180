------------------------------ MODULE Framing ------------------------------
(***************************************************************************)
(* send_message and receive_message: messages over a stream of bytes.      *)
(*                                                                         *)
(* A message is its size in eight bytes and then its text.  The connection *)
(* holds a bounded number of bytes; recv returns whatever part of what it  *)
(* was asked for has arrived, and the loops around send and recv have to   *)
(* put the parts together.  A byte is known by what it is part of:         *)
(* <<"size", k, i>> or <<"text", k, i>>, the i-th of message k.            *)
(*                                                                         *)
(* What the operating system may do is chosen in Init:                     *)
(*   os.shortSends    send may return before it has taken everything       *)
(*   os.shortHeaders  the eight bytes of a size may be sent and arrive in  *)
(*                    parts                                                *)
(*   os.breaks        the sender may close or lose the connection          *)
(*                                                                         *)
(* An operator that stands before its correct form and is used nowhere is  *)
(* a mutant of it, a bug that one of the properties at the end catches.    *)
(***************************************************************************)
EXTENDS Integers, Sequences

CONSTANTS
    Sizes,          \* the sizes of the messages, in the order they are sent
    HeaderLen,      \* sizeof(uint64_t)
    Capacity,       \* bytes the connection holds
    Systems,        \* what the operating system may do
    MaxGarbage,     \* bound: what bytes that are no size are read as
    Wrap            \* 2^64

ASSUME FramingAssumption ==
    /\ Sizes \in Seq(Nat)
    /\ HeaderLen \in Nat \ {0}
    /\ Capacity \in Nat /\ HeaderLen <= Capacity
    /\ Systems \subseteq
          [shortSends : BOOLEAN, shortHeaders : BOOLEAN, breaks : BOOLEAN]
    /\ MaxGarbage \in Nat
    /\ Wrap \in Nat /\ MaxGarbage < Wrap
    /\ \A k \in 1 .. Len(Sizes) : Sizes[k] < Wrap - 1     \* a std::string

VARIABLES
    os,         \* chosen once
    wire,       \* bytes that have been sent and not received
    channel,    \* what recv reports when the wire is empty
    sender,     \* send_message: "header", "body", "done"
    message,    \* the message it sends
    dataSize,   \* its local variables
    totalSent,  \* total_bytes_sent
    taken,      \* bytes of the current call of send on the wire already
    cut,        \* history: the first message not sent whole, or 0
    receiver,   \* receive_message: "header", "body", "ended", "dead"
    size,       \* message_size_buffer
    bytesRead,  \* bytes_read
    buffer,     \* message_buffer, up to the zeros of calloc
    received    \* the messages it has returned

vars == <<os, wire, channel, sender, message, dataSize, totalSent, taken,
          cut, receiver, size, bytesRead, buffer, received>>

\* Both with os, which neither side changes.
senderVars == <<os, sender, message, dataSize, totalSent, taken, cut>>
receiverVars == <<os, receiver, size, bytesRead, buffer, received>>

Header(k) == [i \in 1 .. HeaderLen |-> <<"size", k, i>>]
Text(k) == [i \in 1 .. Sizes[k] |-> <<"text", k, i>>]

Init ==
    /\ os \in Systems
    /\ wire = <<>>
    /\ channel = "open"
    /\ sender = IF Sizes = <<>> THEN "done" ELSE "header"
    /\ message = 1
    /\ dataSize = IF Sizes = <<>> THEN 0 ELSE Sizes[1]
    /\ totalSent = 0
    /\ taken = 0
    /\ cut = 0
    /\ receiver = "header"
    /\ size = 0
    /\ bytesRead = 0
    /\ buffer = <<>>
    /\ received = <<>>

Smallest(m, n) == IF m <= n THEN m ELSE n

-----------------------------------------------------------------------------
(* send_message *)

\* What the current call of send was asked to send.
Request ==
    CASE sender = "header" -> Header(message)
      [] sender = "body" ->
            SubSeq(Text(message), totalSent + 1,
                   Smallest(totalSent + dataSize, Sizes[message]))

\* send blocks until there is room, and takes some bytes.
SendSome(n) ==
    /\ channel = "open"
    /\ sender \in {"header", "body"}
    /\ n \in 1 .. Smallest(Len(Request) - taken, Capacity - Len(wire))
    /\ sender = "header" => n = HeaderLen \/ os.shortHeaders
    /\ wire' = wire \o SubSeq(Request, taken + 1, taken + n)
    /\ taken' = taken + n
    /\ UNCHANGED <<os, channel, sender, message, dataSize, totalSent, cut,
                   receiver, size, bytesRead, buffer, received>>

\* send may return.
Returns ==
    /\ channel = "open"
    /\ taken > 0
    /\ taken = Len(Request) \/ os.shortSends

\* send_message returns; the program calls it for its next message.
SendNext ==
    LET k == message + 1 IN
    /\ message' = k
    /\ totalSent' = 0
    /\ taken' = 0
    /\ IF k <= Len(Sizes)
          THEN sender' = "header" /\ dataSize' = Sizes[k]
          ELSE sender' = "done" /\ dataSize' = 0

\* The message may be the first that is not sent whole.
CutIf(short) == cut' = IF cut = 0 /\ short THEN message ELSE cut

\* The return value of the first send is not looked at.
HeaderSent ==
    /\ sender = "header"
    /\ Returns
    /\ IF dataSize > 0
          THEN /\ sender' = "body"
               /\ taken' = 0
               /\ UNCHANGED <<message, dataSize, totalSent>>
          ELSE SendNext
    /\ CutIf(taken < HeaderLen)
    /\ UNCHANGED <<wire, channel>> /\ UNCHANGED receiverVars

\* total_bytes_sent += bytesSent; dataSize -= bytesSent; and the test of the
\* loop, total_bytes_sent < dataSize.
BodySent ==
    /\ sender = "body"
    /\ Returns
    /\ LET total == totalSent + taken
           left == dataSize - taken
       IN IF total < left
             THEN /\ totalSent' = total
                  /\ dataSize' = left
                  /\ taken' = 0
                  /\ UNCHANGED <<sender, message, cut>>
             ELSE /\ SendNext
                  /\ CutIf(total < Sizes[message])
    /\ UNCHANGED <<wire, channel>> /\ UNCHANGED receiverVars

\* The program of the sender ends, even inside a message.
Close ==
    /\ os.breaks
    /\ channel = "open"
    /\ channel' = "closed"
    /\ UNCHANGED wire /\ UNCHANGED senderVars /\ UNCHANGED receiverVars

\* What is on the wire may be lost in a reset.
Reset ==
    /\ os.breaks
    /\ channel = "open"
    /\ channel' = "reset"
    /\ \E n \in 0 .. Len(wire) :
          /\ n > 0 /\ wire[n][1] = "size" => wire[n][3] = HeaderLen \/ os.shortHeaders
          /\ wire' = SubSeq(wire, 1, n)
    /\ UNCHANGED senderVars /\ UNCHANGED receiverVars

-----------------------------------------------------------------------------
(* receive_message *)

Garbage == (0 .. MaxGarbage) \cup {Wrap - 1}

\* The size that HeaderLen bytes are read as.
SizeOf(bytes, s) ==
    \/ \E k \in 1 .. Len(Sizes) : bytes = Header(k) /\ s = Sizes[k]
    \/ (\A k \in 1 .. Len(Sizes) : bytes # Header(k)) /\ s \in Garbage

\* calloc(message_size_buffer + 1), in 64 bits.
Allocated == (size + 1) % Wrap

\* calloc, the zero behind the end of the text, and the first test of the
\* loop.  The test for a size above SIZE_MAX is never true.  A size nobody
\* sent may be more than calloc has, and the null pointer is written to; for
\* the size 2^64 - 1 calloc is asked for nothing and the zero goes in front of
\* what it returns, which may end the process or not.
StartBody(s) ==
    /\ size' = s
    /\ bytesRead' = 0
    /\ buffer' = <<>>
    /\ \/ receiver' = "body"
       \/ receiver' = "dead" /\ \A k \in 1 .. Len(Sizes) : s # Sizes[k]

\* Less than the whole size is not noticed; the rest of message_size_buffer
\* then is what was on the stack.
RecvHeader(n) ==
    /\ receiver = "header"
    /\ n \in 1 .. Smallest(HeaderLen, Len(wire))
    /\ n = HeaderLen \/ os.shortHeaders
    /\ wire' = SubSeq(wire, n + 1, Len(wire))
    /\ \E s \in 0 .. Wrap - 1 : SizeOf(SubSeq(wire, 1, n), s) /\ StartBody(s)
    /\ UNCHANGED <<channel, received>> /\ UNCHANGED senderVars

\* recv returns 0.
RecvHeaderEof ==
    /\ receiver = "header"
    /\ wire = <<>>
    /\ channel \in {"closed", "drained"}
    /\ receiver' = "ended"
    /\ UNCHANGED <<wire, channel, size, bytesRead, buffer, received>>
    /\ UNCHANGED senderVars

\* recv returns -1, which as an unsigned number is not <= 0.
RecvHeaderError ==
    /\ receiver = "header"
    /\ wire = <<>>
    /\ channel = "reset"
    /\ channel' = "drained"
    /\ \E s \in Garbage : StartBody(s)
    /\ UNCHANGED <<wire, received>> /\ UNCHANGED senderVars

AskedAgain == size

\* The bytes recv is asked for: message_size_buffer - bytes_read.
Asked == size - bytesRead

AtStart(bytes) == bytes

\* ... and where it puts them: message_buffer + bytes_read.
Put(bytes) == buffer \o bytes

CountedSigned(n) == bytesRead + n

LastCount(n) == n

\* bytes_read += recv(...)
Counted(n) == (bytesRead + n) % Wrap

IncompleteOrFull(read) == read <= size

Incomplete(read) == read < size

\* The loop goes on while bytes_read < message_size_buffer.
Assemble(read, text) ==
    /\ bytesRead' = read
    /\ buffer' = text
    /\ IF Incomplete(read)
          THEN UNCHANGED <<receiver, received>>
          ELSE /\ receiver' = "header"
               /\ received' = Append(received, text)
    /\ UNCHANGED size

RecvBody(n) ==
    /\ receiver = "body"
    /\ n \in 1 .. Smallest(Asked, Len(wire))
    /\ wire' = SubSeq(wire, n + 1, Len(wire))
    /\ Assemble(Counted(n), Put(SubSeq(wire, 1, n)))
    /\ UNCHANGED channel /\ UNCHANGED senderVars

\* No byte was asked for: recv returns 0.
RecvNothing ==
    /\ receiver = "body"
    /\ Asked = 0
    /\ Assemble(Counted(0), buffer)
    /\ UNCHANGED <<wire, channel>> /\ UNCHANGED senderVars

\* recv returns -1.  (At the end of the connection recv returns 0, again and
\* again: the loop goes on and changes nothing.)
RecvBodyError ==
    /\ receiver = "body"
    /\ Asked > 0
    /\ wire = <<>>
    /\ channel = "reset"
    /\ channel' = "drained"
    /\ Assemble(Counted(-1), buffer)
    /\ UNCHANGED wire /\ UNCHANGED senderVars

-----------------------------------------------------------------------------
Sender == HeaderSent \/ BodySent \/ \E n \in 1 .. Capacity : SendSome(n)

Receiver ==
    \/ \E n \in 1 .. Capacity : RecvHeader(n) \/ RecvBody(n)
    \/ RecvHeaderEof \/ RecvHeaderError \/ RecvNothing \/ RecvBodyError

Next == Sender \/ Receiver \/ Close \/ Reset

Spec == Init /\ [][Next]_vars

\* The two threads are scheduled.
FairSpec == Spec /\ WF_vars(Sender) /\ WF_vars(Receiver)

-----------------------------------------------------------------------------
(* Properties *)

Byte ==
    {"size", "text"} \X (1 .. Len(Sizes)) \X Nat

TypeOK ==
    /\ os \in Systems
    /\ wire \in Seq(Byte)
    /\ channel \in {"open", "closed", "reset", "drained"}
    /\ sender \in {"header", "body", "done"}
    /\ message \in 1 .. Len(Sizes) + 1
    /\ dataSize \in Nat
    /\ totalSent \in Nat
    /\ taken \in Nat
    /\ cut \in Nat
    /\ receiver \in {"header", "body", "ended", "dead"}
    /\ size \in 0 .. Wrap - 1
    /\ bytesRead \in 0 .. Wrap - 1
    /\ buffer \in Seq(Byte)
    /\ received \in Seq(Seq(Byte))

\* What receive_message returns are the messages that were sent, whole and in
\* order, however recv cut up their texts; only after a reset it may return
\* one more.  A message that a short send ended early spoils no message before
\* it.
ReceivedIsSent ==
    ~os.shortHeaders =>
        \A i \in 1 .. Len(received) :
           \/ i <= Len(Sizes) /\ received[i] = Text(i)
           \/ i = Len(received) /\ channel = "drained"
           \/ cut # 0 /\ cut <= i

\* What recv has written, and the zero behind the end of the text, lie in
\* what calloc gave, also for a size that was read from garbage and after a
\* -1 in bytes_read: with one exception, the size 2^64 - 1, whose allocation
\* wraps to nothing and which the test of umlServer.cpp 65 lets through.
NeverOverruns ==
    size # Wrap - 1 => Len(buffer) < Allocated /\ size < Allocated

\* The loop of receive_message asks for bytes that will never come only if
\* the other side has not sent the whole message.
SpinsOnlyOnCutMessage ==
    /\ ~os.shortSends /\ ~os.shortHeaders
    /\ receiver = "body" /\ Asked > 0 /\ wire = <<>> /\ channel = "closed"
    =>
       /\ message = Len(received) + 1
       /\ \/ sender = "header"
          \/ sender = "body" /\ totalSent + taken < Sizes[message]

\* On a connection that lasts every message arrives.
AllArrive ==
    ~(os.shortSends \/ os.shortHeaders \/ os.breaks) =>
       <>(Len(received) = Len(Sizes))
=============================================================================
