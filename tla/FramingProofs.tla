--------------------------- MODULE FramingProofs ---------------------------
(***************************************************************************)
(* Theorems about Framing, for any messages, any sizes read from garbage   *)
(* and any way the connection ends: recv never writes more bytes than the  *)
(* size says, which calloc was asked for unless that is 2^64 - 1, and as   *)
(* long as sizes arrive whole what is received is what was sent.           *)
(* The argument: as long as there is something to receive, bytes_read is   *)
(* what the buffer holds; the -1 of a failed recv makes it smaller, or     *)
(* wraps it and ends the loop, but then the wire is empty for good.        *)
(***************************************************************************)
EXTENDS Framing, SequenceTheorems, TLAPS

\* There is a message to send, unless the sender is done.
HasMessage == sender # "done" => message \in 1 .. Len(Sizes)

\* After a failed recv nothing comes any more.
Drained == channel = "drained" => wire = <<>>

\* Until then bytes_read counts what the buffer holds.
InPlace ==
    receiver = "body" => bytesRead = Len(buffer) \/ channel = "drained"

\* recv writes no more than the size says, whatever calloc gave.
Within == Len(buffer) <= size

Inv == TypeOK /\ HasMessage /\ Drained /\ InPlace /\ Within

-----------------------------------------------------------------------------
(* Helpers *)

LEMMA SmallestBound ==
    ASSUME NEW m \in Int, NEW n \in Int
    PROVE  Smallest(m, n) \in Int /\ Smallest(m, n) <= m /\ Smallest(m, n) <= n
BY DEF Smallest

LEMMA SizesType == ASSUME NEW k \in 1 .. Len(Sizes) PROVE Sizes[k] \in Nat
BY FramingAssumption

\* Cutting a sequence leaves a sequence of the same bytes.
LEMMA CutType ==
    ASSUME NEW S, NEW s \in Seq(S), NEW i \in 1 .. Len(s) + 1, NEW j \in Int,
           j <= Len(s)
    PROVE  /\ SubSeq(s, i, j) \in Seq(S)
           /\ i <= j => Len(SubSeq(s, i, j)) = j - i + 1
<1>1. CASE i <= j
      BY <1>1, SubSeqProperties
<1>2. CASE i > j
      <2>1. SubSeq(s, i, j) = <<>>
            BY <1>2, SubSeqEmpty
      <2> QED BY <1>2, <2>1
<1> QED BY <1>1, <1>2

LEMMA HeaderType ==
    ASSUME NEW k \in 1 .. Len(Sizes)
    PROVE  Header(k) \in Seq(Byte) /\ Len(Header(k)) = HeaderLen
BY FramingAssumption DEF Header, Byte

LEMMA TextType ==
    ASSUME NEW k \in 1 .. Len(Sizes)
    PROVE  Text(k) \in Seq(Byte) /\ Len(Text(k)) = Sizes[k]
BY SizesType DEF Text, Byte

-----------------------------------------------------------------------------

LEMMA InitInv == Init => Inv
<1> SUFFICES ASSUME Init PROVE Inv
    OBVIOUS
<1>1. Sizes # <<>> => 1 \in 1 .. Len(Sizes)
      BY FramingAssumption, EmptySeq
<1>2. dataSize \in Nat /\ message \in 1 .. Len(Sizes) + 1
      BY <1>1, SizesType, FramingAssumption DEF Init
<1>3. TypeOK
      BY <1>2, FramingAssumption DEF Init, TypeOK
<1> QED BY <1>1, <1>3 DEF Init, Inv, HasMessage, Drained, InPlace,
                          Within

-----------------------------------------------------------------------------
(* send_message *)

\* What send is asked to send are bytes.
LEMMA RequestType ==
    ASSUME TypeOK, HasMessage, sender \in {"header", "body"}
    PROVE  Request \in Seq(Byte)
<1>1. message \in 1 .. Len(Sizes)
      BY DEF HasMessage
<1>2. CASE sender = "header"
      BY <1>1, <1>2, HeaderType DEF Request
<1>3. CASE sender = "body"
      <2> DEFINE end == Smallest(totalSent + dataSize, Sizes[message])
      <2>1. /\ Text(message) \in Seq(Byte)
            /\ Len(Text(message)) = Sizes[message]
            /\ Sizes[message] \in Nat
            BY <1>1, TextType, SizesType
      <2>2. /\ totalSent \in Nat /\ dataSize \in Nat
            BY DEF TypeOK
      <2>3. end \in Int /\ end <= Len(Text(message))
            BY <2>1, <2>2 DEF Smallest
      <2>4. Request = SubSeq(Text(message), totalSent + 1, end)
            BY <1>3 DEF Request
      <2> HIDE DEF end
      <2>5. \A i \in totalSent + 1 .. end : Text(message)[i] \in Byte
            BY <2>1, <2>2, <2>3, ElementOfSeq
      <2> QED BY <2>2, <2>3, <2>4, <2>5, SubSeqProperties
<1> QED BY <1>2, <1>3

\* A number below the modulus is its own remainder.
LEMMA SmallModulo ==
    ASSUME NEW w \in Nat, NEW k \in 0 .. w - 1
    PROVE  k % w = k
OBVIOUS

\* send_message comes to its end and is called for the next message.
LEMMA NextMessage ==
    ASSUME TypeOK, HasMessage, sender # "done", SendNext
    PROVE  /\ sender' \in {"header", "body", "done"}
           /\ message' \in 1 .. Len(Sizes) + 1
           /\ dataSize' \in Nat
           /\ totalSent' \in Nat
           /\ taken' \in Nat
           /\ HasMessage'
<1>1. /\ message \in 1 .. Len(Sizes)
      /\ Len(Sizes) \in Nat
      BY FramingAssumption, LenProperties DEF HasMessage
<1>2. message + 1 <= Len(Sizes) => Sizes[message + 1] \in Nat
      BY <1>1, SizesType
<1> QED BY <1>1, <1>2 DEF SendNext, HasMessage

LEMMA SenderStep ==
    ASSUME Inv, Sender
    PROVE  Inv'
<1> USE DEF Inv
<1>1. ASSUME NEW n \in 1 .. Capacity, SendSome(n)
      PROVE  Inv'
      <2>1. /\ Request \in Seq(Byte) /\ wire \in Seq(Byte)
            /\ taken \in Nat /\ n \in Nat \ {0}
            /\ Capacity - Len(wire) \in Int
            /\ Len(Request) - taken \in Int
            BY <1>1, RequestType, LenProperties, FramingAssumption
            DEF SendSome, TypeOK
      <2>2. taken + n <= Len(Request)
            <3>1. n <= Smallest(Len(Request) - taken, Capacity - Len(wire))
                  BY <1>1, <2>1, SmallestBound DEF SendSome
            <3> DEFINE left == Len(Request) - taken
                       room == Capacity - Len(wire)
            <3>2. left \in Int /\ room \in Int /\ n <= Smallest(left, room)
                  BY <2>1, <3>1
            <3> HIDE DEF left, room
            <3>3. n <= left
                  BY <2>1, <3>2 DEF Smallest
            <3>4. Len(Request) \in Nat
                  BY <2>1, LenProperties
            <3> QED BY <2>1, <3>3, <3>4 DEF left
      <2>3. SubSeq(Request, taken + 1, taken + n) \in Seq(Byte)
            BY <2>1, <2>2, CutType, LenProperties
      <2>4. wire' \in Seq(Byte) /\ taken' \in Nat
            <3>1. wire \o SubSeq(Request, taken + 1, taken + n) \in Seq(Byte)
                  BY <2>1, <2>3, ConcatProperties
            <3>2. taken + n \in Nat
                  BY <2>1
            <3> QED BY <1>1, <3>1, <3>2 DEF SendSome
      <2> QED BY <1>1, <2>4 DEF SendSome, TypeOK, HasMessage, Drained,
                                InPlace, Within
<1>2. ASSUME HeaderSent \/ BodySent
      PROVE  Inv'
      <2>1. sender # "done" /\ channel # "drained"
            /\ UNCHANGED <<wire, channel>> /\ UNCHANGED receiverVars
            BY <1>2 DEF HeaderSent, BodySent, Returns
      <2>2. cut' \in Nat
            <3>1. message \in Nat /\ cut \in Nat
                  BY LenProperties, FramingAssumption DEF TypeOK
            <3> QED BY <1>2, <3>1 DEF HeaderSent, BodySent, CutIf
      <2>3. CASE SendNext
            BY <2>1, <2>2, <2>3, NextMessage
            DEF TypeOK, Drained, InPlace, Within, receiverVars
      <2>4. CASE ~SendNext
            <3>1. /\ sender' \in {"header", "body"} /\ message' = message
                  /\ taken' = 0 /\ dataSize' \in Nat /\ totalSent' \in Nat
                  BY <1>2, <2>4 DEF HeaderSent, BodySent, TypeOK
            <3> QED BY <2>1, <2>2, <3>1 DEF TypeOK, HasMessage, Drained, InPlace,
                                      Within, receiverVars
      <2> QED BY <2>3, <2>4
<1> QED BY <1>1, <1>2 DEF Sender

LEMMA BreakStep ==
    ASSUME Inv, Close \/ Reset
    PROVE  Inv'
<1>1. wire' \in Seq(Byte)
      <2>1. ASSUME NEW n \in 0 .. Len(wire)
            PROVE  SubSeq(wire, 1, n) \in Seq(Byte)
            <3>1. wire \in Seq(Byte) /\ Len(wire) \in Nat
                  BY LenProperties DEF Inv, TypeOK
            <3> QED BY <3>1, CutType
      <2> QED BY <2>1 DEF Close, Reset, Inv, TypeOK
<1>2. channel' \in {"closed", "reset"} /\ channel = "open"
      BY DEF Close, Reset
<1>3. UNCHANGED senderVars /\ UNCHANGED receiverVars
      BY DEF Close, Reset
<1> QED BY <1>1, <1>2, <1>3 DEF Inv, TypeOK, HasMessage, Drained, InPlace,
                                Within, senderVars, receiverVars

-----------------------------------------------------------------------------
(* receive_message *)

LEMMA HeaderStep ==
    ASSUME Inv,
           \/ \E n \in 1 .. Capacity : RecvHeader(n)
           \/ RecvHeaderEof
           \/ RecvHeaderError
    PROVE  Inv'
<1> USE DEF Inv
<1>1. ASSUME NEW n \in 1 .. Capacity, RecvHeader(n)
      PROVE  Inv'
      <2>1. wire \in Seq(Byte) /\ Len(wire) \in Nat
            BY LenProperties DEF TypeOK
      <2>2. n \in Nat /\ n <= Len(wire)
            <3>1. n \in 1 .. Smallest(HeaderLen, Len(wire))
                  BY <1>1 DEF RecvHeader
            <3> QED BY <2>1, <3>1, FramingAssumption DEF Smallest
      <2>3. wire' \in Seq(Byte)
            BY <1>1, <2>1, <2>2, CutType DEF RecvHeader
      <2>4. /\ size' \in 0 .. Wrap - 1 /\ bytesRead' = 0 /\ buffer' = <<>>
            /\ receiver' \in {"body", "dead"} /\ Len(buffer') = 0
            BY <1>1, EmptySeq DEF RecvHeader, StartBody
      <2>5. channel # "drained" \/ wire' = <<>>
            BY <1>1, <2>1, <2>2 DEF RecvHeader, Drained
      <2> QED BY <1>1, <2>3, <2>4, <2>5, FramingAssumption
              DEF RecvHeader, TypeOK, HasMessage, Drained, InPlace,
                  Within, senderVars
<1>2. ASSUME RecvHeaderEof
      PROVE  Inv'
      BY <1>2 DEF RecvHeaderEof, TypeOK, HasMessage, Drained, InPlace,
                  Within, senderVars
<1>3. ASSUME RecvHeaderError
      PROVE  Inv'
      <2>1. /\ size' \in 0 .. Wrap - 1 /\ bytesRead' = 0 /\ buffer' = <<>>
            /\ receiver' \in {"body", "dead"} /\ Len(buffer') = 0
            <3>1. Garbage \subseteq 0 .. Wrap - 1
                  BY FramingAssumption DEF Garbage
            <3> QED BY <1>3, <3>1, EmptySeq DEF RecvHeaderError, StartBody
      <2> QED BY <1>3, <2>1, FramingAssumption
              DEF RecvHeaderError, TypeOK, HasMessage, Drained, InPlace,
                  Within, senderVars
<1> QED BY <1>1, <1>2, <1>3

\* One round of the loop, after a recv that brought the bytes of text.
LEMMA AssembleKeeps ==
    ASSUME Inv, NEW read \in 0 .. Wrap - 1, NEW text \in Seq(Byte),
           Assemble(read, text), Len(text) <= size, receiver = "body",
           wire' \in Seq(Byte),
           channel' \in {"open", "closed", "reset", "drained"},
           read = Len(text) \/ channel' = "drained",
           channel' = "drained" => wire' = <<>>,
           UNCHANGED senderVars
    PROVE  Inv'
<1>1. received' \in Seq(Seq(Byte))
      <2>1. received \in Seq(Seq(Byte))
            BY DEF Inv, TypeOK
      <2>2. received' = received \/ received' = Append(received, text)
            BY DEF Assemble
      <2>3. Append(received, text) \in Seq(Seq(Byte))
            BY <2>1, AppendProperties
      <2> QED BY <2>1, <2>2, <2>3
<1> QED BY <1>1 DEF Inv, Assemble, TypeOK, HasMessage, Drained, InPlace,
                    Within, senderVars

LEMMA BodyStep ==
    ASSUME Inv,
           \/ \E n \in 1 .. Capacity : RecvBody(n)
           \/ RecvNothing
           \/ RecvBodyError
    PROVE  Inv'
<1>1. /\ wire \in Seq(Byte) /\ Len(wire) \in Nat
      /\ buffer \in Seq(Byte) /\ Len(buffer) \in Nat
      /\ size \in 0 .. Wrap - 1 /\ bytesRead \in 0 .. Wrap - 1
      /\ Wrap \in Nat /\ Len(buffer) <= size
      /\ channel \in {"open", "closed", "reset", "drained"}
      BY LenProperties, FramingAssumption DEF Inv, TypeOK, Within
<1>2. ASSUME NEW n \in 1 .. Capacity, RecvBody(n)
      PROVE  Inv'
      <2>1. n \in Nat /\ 1 <= n /\ n <= Len(wire) /\ n <= size - bytesRead
            <3>1. n \in 1 .. Smallest(size - bytesRead, Len(wire))
                  BY <1>2 DEF RecvBody, Asked
            <3> DEFINE asked == size - bytesRead
            <3>2. asked \in Int /\ n \in 1 .. Smallest(asked, Len(wire))
                  BY <1>1, <3>1
            <3> HIDE DEF asked
            <3>3. n \in Nat /\ 1 <= n /\ n <= Len(wire) /\ n <= asked
                  BY <1>1, <3>2 DEF Smallest
            <3> QED BY <3>3 DEF asked
      <2>2. wire # <<>> /\ channel # "drained"
            BY <1>1, <2>1, EmptySeq DEF Inv, Drained
      <2>3. bytesRead = Len(buffer)
            BY <1>2, <2>2 DEF Inv, InPlace, RecvBody
      <2>4. /\ SubSeq(wire, 1, n) \in Seq(Byte)
            /\ Len(SubSeq(wire, 1, n)) = n
            /\ SubSeq(wire, n + 1, Len(wire)) \in Seq(Byte)
            BY <1>1, <2>1, CutType
      <2>5. /\ Put(SubSeq(wire, 1, n)) \in Seq(Byte)
            /\ Len(Put(SubSeq(wire, 1, n))) = bytesRead + n
            BY <1>1, <2>3, <2>4, ConcatProperties DEF Put
      <2>6. bytesRead + n <= size
            BY <1>1, <2>1
      <2>7. Counted(n) = bytesRead + n /\ Counted(n) \in 0 .. Wrap - 1
            <3>1. bytesRead + n \in 0 .. Wrap - 1
                  BY <1>1, <2>1, <2>6
            <3> QED BY <1>1, <3>1, SmallModulo DEF Counted
      <2>8. /\ Assemble(Counted(n), Put(SubSeq(wire, 1, n)))
            /\ receiver = "body" /\ wire' \in Seq(Byte)
            /\ channel' = channel /\ UNCHANGED senderVars
            BY <1>2, <2>4 DEF RecvBody
      <2> QED BY <1>1, <2>2, <2>5, <2>6, <2>7, <2>8, AssembleKeeps
<1>3. ASSUME RecvNothing
      PROVE  Inv'
      <2>1. Counted(0) = bytesRead
            BY <1>1 DEF Counted
      <2> QED BY <1>1, <1>3, <2>1, AssembleKeeps
              DEF RecvNothing, Inv, InPlace, Drained
<1>4. ASSUME RecvBodyError
      PROVE  Inv'
      <2>1. Counted(-1) \in 0 .. Wrap - 1
            BY <1>1 DEF Counted
      <2> QED BY <1>1, <1>4, <2>1, AssembleKeeps DEF RecvBodyError
<1> QED BY <1>2, <1>3, <1>4

-----------------------------------------------------------------------------

LEMMA InvStep == Inv /\ [Next]_vars => Inv'
<1> SUFFICES ASSUME Inv, [Next]_vars PROVE Inv'
    OBVIOUS
<1>1. CASE UNCHANGED vars
      BY <1>1 DEF vars, Inv, TypeOK, HasMessage, Drained, InPlace,
                  Within
<1> QED BY <1>1, SenderStep, BreakStep, HeaderStep, BodyStep
        DEF Next, Receiver

\* The inductive invariant: what bytes_read and the buffer have to do with
\* each other.
THEOREM FramingInvariance == Spec => []Inv
BY InitInv, InvStep, PTL DEF Spec

\* Every variable has the type its C++ counterpart has.
THEOREM FramingTypeCorrect == Spec => []TypeOK
<1>1. Inv => TypeOK
      BY DEF Inv
<1> QED BY <1>1, FramingInvariance, PTL

\* Unless the size it has read is 2^64 - 1, receive_message never writes past
\* what calloc gave it: not where the size was read from garbage, however the
\* text comes and however the connection ends.  For that size calloc(size + 1)
\* is calloc(0), and every byte it writes is outside.
THEOREM BufferIsLargeEnough == Spec => []NeverOverruns
<1>1. Inv => NeverOverruns
      <2> SUFFICES ASSUME Inv, size # Wrap - 1
                   PROVE  Len(buffer) < Allocated /\ size < Allocated
          BY DEF NeverOverruns
      <2>1. /\ size \in 0 .. Wrap - 1 /\ Wrap \in Nat
            /\ Len(buffer) \in Nat /\ Len(buffer) <= size
            BY LenProperties, FramingAssumption DEF Inv, TypeOK, Within
      <2>2. size + 1 \in 0 .. Wrap - 1
            BY <2>1
      <2>3. Allocated = size + 1
            BY <2>1, <2>2, SmallModulo DEF Allocated
      <2> QED BY <2>1, <2>3
<1> QED BY <1>1, FramingInvariance, PTL

-----------------------------------------------------------------------------
(* What is delivered.  The bytes on the wire and the byte send will take    *)
(* next, if the connection still takes any, are a line in which every byte  *)
(* is followed by the rest of its part and then by the next part, up to the *)
(* first message that was cut; and the line begins with the byte that       *)
(* receive_message expects.                                                 *)

\* The bytes a part of message k has, and the byte that comes after it.
PartLen(p, k) == IF p = "size" THEN HeaderLen ELSE Sizes[k]

After(p, k) ==
    IF p = "size" /\ Sizes[k] > 0 THEN <<"text", k, 1>> ELSE <<"size", k + 1, 1>>

\* Byte d of a part, or the first one after it.
ByteAt(p, k, d) == IF d <= PartLen(p, k) THEN <<p, k, d>> ELSE After(p, k)

\* The byte that is sent next, and the one that is to be received next.
ToSend ==
    CASE sender = "header" -> ByteAt("size", message, taken + 1)
      [] sender = "body" -> ByteAt("text", message, totalSent + taken + 1)
      [] OTHER -> <<"size", message, 1>>

ToReceive ==
    IF receiver = "header" THEN <<"size", Len(received) + 1, 1>>
    ELSE ByteAt("text", Len(received) + 1, bytesRead + 1)

\* The wire, and behind it the byte that is sent next if it can be.
ReachOf(w, ch) == IF ch \in {"open", "closed"} THEN Len(w) + 1 ELSE Len(w)

LineOf(w, ch, next) ==
    [i \in 1 .. ReachOf(w, ch) |-> IF i <= Len(w) THEN w[i] ELSE next]

Reach == ReachOf(wire, channel)

Line == LineOf(wire, channel, ToSend)

\* Nothing is missing up to message k, if message c was the first to be cut.
Intact(k, c) == c = 0 \/ k < c

\* A byte is followed by the rest of its part, and that by the next part.
Follows(f, i, j, c) ==
    LET d == f[i][3] + (j - i)
    IN Intact(f[i][2], c) /\ d <= PartLen(f[i][1], f[i][2]) + 1
          => f[j] = ByteAt(f[i][1], f[i][2], d)

Ordered(f, n, c) == \A i, j \in 1 .. n : i < j => Follows(f, i, j, c)

\* How far send_message has come with its message.
SenderAt ==
    /\ sender = "header" => taken \in {0, HeaderLen} /\ totalSent = 0
    /\ sender = "header" => dataSize = Sizes[message]
    /\ sender = "body" => totalSent + dataSize = Sizes[message]
    /\ sender = "body" => taken <= dataSize
    /\ cut < message
    /\ ~os.shortSends => cut = 0 /\ totalSent = 0

\* What comes next is what receive_message expects.
InStep ==
    Intact(Len(received) + 1, cut) /\ Reach > 0 /\ receiver \in {"header", "body"}
       => Line[1] = ToReceive

\* What it has of the text it is receiving.
Filling ==
    LET k == Len(received) + 1
    IN Intact(k, cut) /\ channel # "drained" /\ receiver = "body" =>
          /\ k <= Len(Sizes) /\ size = Sizes[k]
          /\ bytesRead < size \/ size = 0
          /\ \A i \in 1 .. Len(buffer) : buffer[i] = <<"text", k, i>>

Delivered ==
    \A i \in 1 .. Len(received) :
       \/ i <= Len(Sizes) /\ received[i] = Text(i)
       \/ ~Intact(i, cut)
       \/ i = Len(received) /\ channel = "drained" /\ receiver # "body"

Delivery ==
    ~os.shortHeaders =>
       SenderAt /\ Ordered(Line, Reach, cut) /\ InStep /\ Filling /\ Delivered

-----------------------------------------------------------------------------
(* Lines of bytes *)

\* Bytes that were received are gone from the front of the line.
LEMMA OrderedShift ==
    ASSUME NEW f, NEW g, NEW n \in Nat, NEW m \in 0 .. n, NEW c,
           Ordered(f, n, c),
           \A i \in 1 .. n - m : g[i] = f[i + m]
    PROVE  Ordered(g, n - m, c)
<1> SUFFICES ASSUME NEW i \in 1 .. n - m, NEW j \in 1 .. n - m, i < j
             PROVE  Follows(g, i, j, c)
    BY DEF Ordered
<1>1. /\ i + m \in 1 .. n /\ j + m \in 1 .. n /\ i + m < j + m
      /\ (j + m) - (i + m) = j - i
      OBVIOUS
<1>2. Follows(f, i + m, j + m, c)
      BY <1>1 DEF Ordered
<1>3. g[i] = f[i + m] /\ g[j] = f[j + m]
      OBVIOUS
<1> QED BY <1>1, <1>2, <1>3 DEF Follows

\* A reset takes bytes from its end.
LEMMA OrderedCut ==
    ASSUME NEW f, NEW g, NEW n \in Nat, NEW m \in 0 .. n, NEW c,
           Ordered(f, n, c), \A i \in 1 .. m : g[i] = f[i]
    PROVE  Ordered(g, m, c)
<1> SUFFICES ASSUME NEW i \in 1 .. m, NEW j \in 1 .. m, i < j
             PROVE  Follows(g, i, j, c)
    BY DEF Ordered
<1>1. i \in 1 .. n /\ j \in 1 .. n /\ g[i] = f[i] /\ g[j] = f[j]
      OBVIOUS
<1> QED BY <1>1 DEF Ordered, Follows

\* The lengths of the parts are numbers.
LEMMA PartLenType ==
    ASSUME NEW p \in {"size", "text"}, NEW k \in 1 .. Len(Sizes)
    PROVE  PartLen(p, k) \in Nat
BY SizesType, FramingAssumption DEF PartLen

\* What follows a byte in its part follows it from wherever it was counted.
LEMMA Onward ==
    ASSUME NEW q \in {"size", "text"}, NEW r \in 1 .. Len(Sizes),
           NEW e \in Int, NEW h \in Int, e < h, h <= PartLen(q, r) + 1,
           NEW p, NEW k, NEW m, ByteAt(q, r, e) = <<p, k, m>>
    PROVE  ByteAt(q, r, h) = ByteAt(p, k, m + (h - e))
<1>1. e <= PartLen(q, r)
      BY PartLenType
<1>2. <<p, k, m>> = <<q, r, e>>
      BY <1>1 DEF ByteAt
<1>3. p = q /\ k = r /\ m = e
      BY <1>2
<1>4. e + (h - e) = h
      OBVIOUS
<1> QED BY <1>3, <1>4

\* What is sent goes on where the line ends.
LEMMA OrderedExtend ==
    ASSUME NEW f, NEW g, NEW l \in Nat, NEW n \in Nat \ {0}, NEW c,
           NEW p \in {"size", "text"}, NEW k \in 1 .. Len(Sizes),
           NEW m \in Nat \ {0}, m + n - 1 <= PartLen(p, k),
           Ordered(f, l + 1, c),
           f[l + 1] = <<p, k, m>>,
           \A i \in 1 .. l : f[i] \in Byte,
           \A i \in 1 .. l : g[i] = f[i],
           \A i \in l + 1 .. l + n + 1 : g[i] = ByteAt(p, k, m + (i - (l + 1)))
    PROVE  Ordered(g, l + n + 1, c)
<1> SUFFICES ASSUME NEW i \in 1 .. l + n + 1, NEW j \in 1 .. l + n + 1, i < j
             PROVE  Follows(g, i, j, c)
    BY DEF Ordered
<1>1. PartLen(p, k) \in Nat
      BY PartLenType
<1>2. CASE j <= l
      <2>1. /\ i \in 1 .. l + 1 /\ j \in 1 .. l + 1
            /\ g[i] = f[i] /\ g[j] = f[j]
            BY <1>2
      <2> QED BY <2>1 DEF Ordered, Follows
<1>3. CASE i <= l /\ j > l
      <2>1. i \in 1 .. l + 1 /\ l + 1 \in 1 .. l + 1 /\ i < l + 1 /\ i \in 1 .. l
            BY <1>3
      <2>2. Follows(f, i, l + 1, c)
            BY <2>1 DEF Ordered
      <2>3. PICK q \in {"size", "text"}, r \in 1 .. Len(Sizes), d \in Nat :
                    f[i] = <<q, r, d>>
            BY <2>1 DEF Byte
      <2>4. g[i] = <<q, r, d>> /\ g[j] = ByteAt(p, k, m + (j - (l + 1)))
            <3>1. j \in l + 1 .. l + n + 1
                  BY <1>3
            <3> QED BY <2>1, <2>3, <3>1
      <2> DEFINE e == d + (l + 1 - i)  h == d + (j - i)
      <2>5. e \in Int /\ h \in Int /\ e <= h /\ h - e = j - (l + 1)
            BY <1>3
      <2>6. Intact(r, c) /\ e <= PartLen(q, r) + 1
               => <<p, k, m>> = ByteAt(q, r, e)
            BY <2>2, <2>3 DEF Follows
      <2>7. Follows(g, i, j, c) <=>
               (Intact(r, c) /\ h <= PartLen(q, r) + 1
                   => ByteAt(p, k, m + (j - (l + 1))) = ByteAt(q, r, h))
            BY <2>4 DEF Follows
      <2>8. PartLen(q, r) \in Nat
            BY PartLenType
      <2> HIDE DEF e, h
      <2>9. SUFFICES ASSUME Intact(r, c), h <= PartLen(q, r) + 1
                     PROVE  ByteAt(p, k, m + (j - (l + 1))) = ByteAt(q, r, h)
            BY <2>7
      <2>10. <<p, k, m>> = ByteAt(q, r, e)
            BY <2>5, <2>6, <2>8, <2>9
      <2>11. CASE e = h
            <3>1. m + (j - (l + 1)) = m
                  BY <2>5, <2>11
            <3>2. ByteAt(p, k, m) = <<p, k, m>>
                  <4>1. m <= PartLen(p, k)
                        BY <1>1
                  <4> QED BY <4>1 DEF ByteAt
            <3> QED BY <2>10, <2>11, <3>1, <3>2
      <2>12. CASE e < h
            <3>1. ByteAt(q, r, h) = ByteAt(p, k, m + (h - e))
                  BY <2>5, <2>9, <2>10, <2>12, Onward
            <3> QED BY <2>5, <3>1
      <2> QED BY <2>5, <2>11, <2>12
<1>4. CASE i > l
      <2> DEFINE d == m + (i - (l + 1))  h == m + (j - (l + 1))
      <2>1. d <= PartLen(p, k) /\ d \in Int /\ h = d + (j - i)
            BY <1>1, <1>4
      <2>2. g[i] = ByteAt(p, k, d) /\ g[j] = ByteAt(p, k, h)
            <3>1. i \in l + 1 .. l + n + 1 /\ j \in l + 1 .. l + n + 1
                  BY <1>4
            <3> QED BY <3>1
      <2> HIDE DEF d, h
      <2>3. g[i] = <<p, k, d>>
            BY <2>1, <2>2 DEF ByteAt
      <2> QED BY <2>1, <2>2, <2>3 DEF Follows
<1> QED BY <1>2, <1>3, <1>4

\* The line is the wire and perhaps one byte more.
LEMMA LineIs ==
    ASSUME NEW w \in Seq(Byte), NEW ch, NEW next
    PROVE  /\ Len(w) \in Nat /\ ReachOf(w, ch) \in Nat
           /\ Len(w) <= ReachOf(w, ch)
           /\ \A i \in 1 .. Len(w) :
                 LineOf(w, ch, next)[i] = w[i] /\ w[i] \in Byte
           /\ ch \in {"open", "closed"} =>
                 /\ ReachOf(w, ch) = Len(w) + 1
                 /\ LineOf(w, ch, next)[Len(w) + 1] = next
           /\ ch \notin {"open", "closed"} => ReachOf(w, ch) = Len(w)
<1>1. Len(w) \in Nat
      BY LenProperties
<1>2. \A i \in 1 .. Len(w) : w[i] \in Byte
      BY ElementOfSeq
<1> QED BY <1>1, <1>2 DEF LineOf, ReachOf

LEMMA LineNow ==
    ASSUME TypeOK
    PROVE  /\ wire \in Seq(Byte) /\ Len(wire) \in Nat
           /\ Reach = IF channel \in {"open", "closed"} THEN Len(wire) + 1
                      ELSE Len(wire)
           /\ \A i \in 1 .. Len(wire) : Line[i] = wire[i] /\ wire[i] \in Byte
           /\ channel \in {"open", "closed"} => Line[Len(wire) + 1] = ToSend
<1>1. wire \in Seq(Byte) /\ Len(wire) \in Nat
      BY LenProperties DEF TypeOK
<1>2. Line = LineOf(wire, channel, ToSend) /\ Reach = ReachOf(wire, channel)
      BY DEF Line, Reach
<1> QED BY <1>1, <1>2, LineIs

\* What comes behind a byte at the front of the line.
LEMMA FrontOfLine ==
    ASSUME NEW f, NEW n \in Nat, NEW c, Ordered(f, n, c),
           NEW p \in {"size", "text"}, NEW k \in 1 .. Len(Sizes), NEW m \in Nat,
           Intact(k, c), f[1] = ByteAt(p, k, m), m <= PartLen(p, k)
    PROVE  \A j \in 1 .. n : m + (j - 1) <= PartLen(p, k) + 1
                                => f[j] = ByteAt(p, k, m + (j - 1))
<1> SUFFICES ASSUME NEW j \in 1 .. n, m + (j - 1) <= PartLen(p, k) + 1
             PROVE  f[j] = ByteAt(p, k, m + (j - 1))
    OBVIOUS
<1>1. CASE j = 1
      <2>1. m + (j - 1) = m
            BY <1>1
      <2> QED BY <1>1, <2>1
<1>2. CASE j > 1
      <2>1. Follows(f, 1, j, c)
            BY <1>2 DEF Ordered
      <2>2. f[1] = <<p, k, m>>
            BY DEF ByteAt
      <2>3. f[1][1] = p /\ f[1][2] = k /\ f[1][3] = m
            BY <2>2
      <2> QED BY <2>1, <2>3 DEF Follows
<1> QED BY <1>1, <1>2

-----------------------------------------------------------------------------
(* send_message keeps the order *)

\* The part that is being sent, and what of it earlier calls of send took.
Part == IF sender = "header" THEN "size" ELSE "text"

Before == IF sender = "header" THEN 0 ELSE totalSent

LEMMA SendingPart ==
    ASSUME Inv, SenderAt, sender \in {"header", "body"}
    PROVE  /\ message \in 1 .. Len(Sizes) /\ Part \in {"size", "text"}
           /\ Before \in Nat /\ taken \in Nat
           /\ Request \in Seq(Byte)
           /\ Len(Request) = PartLen(Part, message) - Before
           /\ \A i \in 1 .. Len(Request) :
                 Request[i] = <<Part, message, Before + i>>
           /\ ToSend = ByteAt(Part, message, Before + taken + 1)
<1>1. /\ message \in 1 .. Len(Sizes) /\ Part \in {"size", "text"}
      /\ Before \in Nat /\ taken \in Nat /\ totalSent \in Nat /\ dataSize \in Nat
      /\ Request \in Seq(Byte)
      BY RequestType DEF Inv, TypeOK, HasMessage, Part, Before
<1>2. CASE sender = "header"
      <2>1. Request = Header(message) /\ Part = "size" /\ Before = 0
            BY <1>2 DEF Request, Part, Before
      <2>2. ToSend = ByteAt("size", message, taken + 1)
            BY <1>2 DEF ToSend
      <2>3. /\ Len(Header(message)) = HeaderLen
            /\ \A i \in 1 .. HeaderLen : Header(message)[i] = <<"size", message, i>>
            BY <1>1, HeaderType DEF Header
      <2> QED BY <1>1, <2>1, <2>2, <2>3, FramingAssumption DEF PartLen
<1>3. CASE sender = "body"
      <2>1. /\ totalSent + dataSize = Sizes[message] /\ Part = "text"
            /\ Before = totalSent
            BY <1>3 DEF SenderAt, Part, Before
      <2>2. ToSend = ByteAt("text", message, totalSent + taken + 1)
            BY <1>3 DEF ToSend
      <2>3. /\ Text(message) \in Seq(Byte) /\ Len(Text(message)) = Sizes[message]
            /\ \A i \in 1 .. Sizes[message] :
                  Text(message)[i] = <<"text", message, i>>
            BY <1>1, TextType DEF Text
      <2>4. Request = SubSeq(Text(message), totalSent + 1, Sizes[message])
            BY <1>1, <1>3, <2>1 DEF Request, Smallest
      <2>5. Len(Request) = dataSize
            BY <1>1, <2>1, <2>3, <2>4, SubSeqProperties
      <2>6. ASSUME NEW i \in 1 .. dataSize
            PROVE  Request[i] = <<"text", message, totalSent + i>>
            <3>1. totalSent + i \in 1 .. Sizes[message]
                  BY <1>1, <2>1
            <3>2. Request[i] = Text(message)[totalSent + i]
                  BY <1>1, <2>1, <2>3, <2>4, <2>6, SubSeqProperties
            <3> QED BY <2>3, <3>1, <3>2
      <2> QED BY <1>1, <2>1, <2>2, <2>5, <2>6 DEF PartLen
<1> QED BY <1>2, <1>3

\* The sender leaves what the receiver has alone.
LEMMA ReceiverUntouched ==
    ASSUME TypeOK, Filling, Delivered, UNCHANGED receiverVars,
           channel # "drained", channel' # "drained",
           \A k \in Nat : Intact(k, cut') => Intact(k, cut)
    PROVE  Filling' /\ Delivered'
<1>1. Len(received) \in Nat
      BY LenProperties DEF TypeOK
<1>2. Filling'
      BY <1>1 DEF Filling, receiverVars
<1>3. Delivered'
      BY <1>1 DEF Delivered, receiverVars
<1> QED BY <1>2, <1>3

LEMMA SendSomeKeeps ==
    ASSUME Inv, ~os.shortHeaders, Delivery, NEW n \in 1 .. Capacity, SendSome(n)
    PROVE  Delivery'
<1>0. SenderAt /\ Ordered(Line, Reach, cut) /\ InStep /\ Filling /\ Delivered
      BY DEF Delivery
<1>1. /\ channel = "open" /\ sender \in {"header", "body"}
      /\ wire' = wire \o SubSeq(Request, taken + 1, taken + n)
      /\ taken' = taken + n
      /\ UNCHANGED <<os, channel, sender, message, dataSize, totalSent, cut>>
      /\ UNCHANGED receiverVars
      BY DEF SendSome, receiverVars
<1> DEFINE p == Part  k == message  b == Before  l == Len(wire)
           r == Request  t == taken
<1>2. /\ k \in 1 .. Len(Sizes) /\ p \in {"size", "text"}
      /\ b \in Nat /\ t \in Nat /\ r \in Seq(Byte)
      /\ Len(r) = PartLen(p, k) - b
      /\ \A i \in 1 .. Len(r) : r[i] = <<p, k, b + i>>
      /\ ToSend = ByteAt(p, k, b + t + 1)
      BY <1>0, <1>1, SendingPart
<1>3. wire \in Seq(Byte) /\ l \in Nat /\ n \in Nat \ {0} /\ Len(r) \in Nat
      BY <1>2, LenProperties, FramingAssumption DEF Inv, TypeOK
<1>4. t + n <= Len(r)
      <2> DEFINE left == Len(r) - t  room == Capacity - l
      <2>1. n \in 1 .. Smallest(left, room)
            BY DEF SendSome
      <2>2. left \in Int /\ room \in Int
            BY <1>2, <1>3, FramingAssumption
      <2> HIDE DEF left, room
      <2>3. n <= left
            BY <1>3, <2>1, <2>2 DEF Smallest
      <2> QED BY <1>2, <1>3, <2>3 DEF left
<1>e. PartLen(p, k) = Len(r) + b
      <2> DEFINE whole == PartLen(p, k)  piece == Len(r)
      <2>1. /\ whole \in Nat /\ piece \in Nat /\ b \in Nat
            /\ piece = whole - b
            BY <1>2, <1>3, PartLenType
      <2> HIDE DEF whole, piece, b
      <2>2. whole = piece + b
            BY <2>1
      <2> QED BY <2>2 DEF whole, piece
<1> DEFINE x == SubSeq(r, t + 1, t + n)
<1>5. /\ x \in Seq(Byte) /\ Len(x) = n
      /\ \A i \in 1 .. n : x[i] = r[t + i]
      BY <1>2, <1>3, <1>4, CutType, SubSeqProperties
<1>6. ToSend' = ByteAt(p, k, b + (t + n) + 1)
      <2>1. CASE sender = "header"
            <3>1. p = "size" /\ b + (t + n) + 1 = (t + n) + 1
                  BY <1>2, <1>3, <2>1 DEF Part, Before
            <3> QED BY <1>1, <2>1, <3>1 DEF ToSend
      <2>2. CASE sender = "body"
            <3>1. p = "text" /\ b + (t + n) + 1 = totalSent + (t + n) + 1
                  BY <1>2, <1>3, <2>2 DEF Part, Before
            <3> QED BY <1>1, <2>2, <3>1 DEF ToSend
      <2> QED BY <1>1, <2>1, <2>2
<1>7. SenderAt'
      <2>1. CASE sender = "header"
            <3>1. PartLen(p, k) = HeaderLen /\ b = 0
                  BY <2>1 DEF PartLen, Part, Before
            <3>2. n = HeaderLen
                  BY <2>1 DEF SendSome
            <3>3. t = 0
                  BY <1>0, <1>2, <1>3, <1>4, <2>1, <3>1, <3>2, FramingAssumption
                  DEF SenderAt
            <3> QED BY <1>0, <1>1, <2>1, <3>2, <3>3, FramingAssumption
                    DEF SenderAt
      <2>2. CASE sender = "body"
            <3>1. PartLen(p, k) = Sizes[k] /\ b = totalSent
                  BY <2>2 DEF PartLen, Part, Before
            <3>2. totalSent + dataSize = Sizes[k] /\ dataSize \in Nat
                  BY <1>0, <2>2 DEF SenderAt, Inv, TypeOK
            <3>3. t + n <= dataSize
                  BY <1>2, <1>4, <3>1, <3>2
            <3> QED BY <1>0, <1>1, <2>2, <3>3 DEF SenderAt
      <2> QED BY <1>1, <2>1, <2>2
<1> HIDE DEF p, k, b, r, t, x
<1>8. /\ wire' = wire \o x /\ wire' \in Seq(Byte) /\ Len(wire') = l + n
      /\ \A i \in 1 .. l : wire'[i] = wire[i]
      /\ \A i \in l + 1 .. l + n : wire'[i] = x[i - l]
      <2>1. wire' = wire \o x
            BY <1>1 DEF x, r, t
      <2>2. /\ wire \o x \in Seq(Byte) /\ Len(wire \o x) = Len(wire) + Len(x)
            /\ \A i \in 1 .. Len(wire) + Len(x) :
                  (wire \o x)[i] = IF i <= Len(wire) THEN wire[i]
                                   ELSE x[i - Len(wire)]
            BY <1>3, <1>5, ConcatProperties
      <2> QED BY <1>3, <1>5, <2>1, <2>2
<1> DEFINE g == LineOf(wire', channel', ToSend')
<1>9. /\ Reach = l + 1
      /\ \A i \in 1 .. l : Line[i] = wire[i] /\ Line[i] \in Byte
      /\ Line[l + 1] = ToSend
      BY <1>1, <1>3, LineIs DEF Line, Reach
<1>10. /\ Reach' = l + n + 1 /\ Line' = g
       /\ \A i \in 1 .. l + n : g[i] = wire'[i]
       /\ g[l + n + 1] = ToSend'
       <2>1. channel' = "open"
             BY <1>1
       <2>2. /\ ReachOf(wire', channel') = Len(wire') + 1
             /\ \A i \in 1 .. Len(wire') : g[i] = wire'[i]
             /\ g[Len(wire') + 1] = ToSend'
             <3> DEFINE w == wire'  ch == channel'  next == ToSend'
             <3>1. w \in Seq(Byte) /\ ch \in {"open", "closed"}
                   BY <1>8, <2>1
             <3> HIDE DEF w, ch, next
             <3>2. /\ ReachOf(w, ch) = Len(w) + 1
                   /\ \A i \in 1 .. Len(w) : LineOf(w, ch, next)[i] = w[i]
                   /\ LineOf(w, ch, next)[Len(w) + 1] = next
                   BY <3>1, LineIs
             <3> QED BY <3>2 DEF w, ch, next
       <2> QED BY <1>8, <2>2 DEF Line, Reach
<1> HIDE DEF l, g
<1>11. ToSend = <<p, k, b + t + 1>>
       <2>1. b + t + 1 <= PartLen(p, k)
             BY <1>2, <1>3, <1>4, <1>e
       <2> QED BY <1>2, <2>1 DEF ByteAt
<1>12. \A i \in 1 .. l : g[i] = Line[i]
       <2>1. l <= l + n
             BY <1>3
       <2> QED BY <1>3, <1>8, <1>9, <1>10, <2>1
<1>13. ASSUME NEW i \in l + 1 .. l + n + 1
       PROVE  g[i] = ByteAt(p, k, (b + t + 1) + (i - (l + 1)))
       <2>1. CASE i = l + n + 1
             <3>1. (b + t + 1) + (i - (l + 1)) = b + (t + n) + 1
                   BY <1>2, <1>3, <2>1
             <3> QED BY <1>6, <1>10, <2>1, <3>1
       <2>2. CASE i <= l + n
             <3> DEFINE e == i - l
             <3>1. e \in 1 .. n /\ t + e \in 1 .. Len(r) /\ i \in l + 1 .. l + n
                   /\ i \in 1 .. l + n
                   BY <1>2, <1>3, <1>4, <2>2
             <3>2. g[i] = x[e]
                   BY <1>8, <1>10, <3>1
             <3>3. (b + t + 1) + (i - (l + 1)) = b + (t + e)
                   BY <1>2, <1>3
             <3>4. b + (t + e) <= PartLen(p, k)
                   BY <1>2, <1>3, <1>e, <3>1
             <3> HIDE DEF e
             <3>5. g[i] = <<p, k, b + (t + e)>>
                   BY <1>2, <1>5, <3>1, <3>2
             <3> QED BY <3>3, <3>4, <3>5 DEF ByteAt
       <2> QED BY <1>3, <2>1, <2>2
<1>14. Ordered(Line', Reach', cut')
       <2>1. (b + t + 1) + n - 1 <= PartLen(p, k) /\ b + t + 1 \in Nat \ {0}
             <3>1. PartLen(p, k) = Len(r) + b
                   BY <1>2, <1>3, PartLenType
             <3> QED BY <1>2, <1>3, <1>4, <3>1
       <2> DEFINE f == Line  c == cut  m == b + t + 1
       <2>2. /\ Ordered(f, l + 1, c) /\ f[l + 1] = <<p, k, m>>
             /\ \A i \in 1 .. l : f[i] \in Byte
             /\ \A i \in 1 .. l : g[i] = f[i]
             /\ \A i \in l + 1 .. l + n + 1 :
                   g[i] = ByteAt(p, k, m + (i - (l + 1)))
             BY <1>0, <1>9, <1>11, <1>12, <1>13
       <2>3. m + n - 1 <= PartLen(p, k) /\ m \in Nat \ {0}
             BY <2>1
       <2> HIDE DEF f, c, m
       <2>4. Ordered(g, l + n + 1, c)
             BY <1>2, <1>3, <2>2, <2>3, OrderedExtend
       <2>5. cut' = c
             BY <1>1 DEF c
       <2> QED BY <1>10, <2>4, <2>5
<1>15. InStep'
       <2>1. g[1] = Line[1]
             <3>1. CASE l > 0
                   BY <1>3, <1>12, <3>1
             <3>2. CASE l = 0
                   <4>1. g[1] = ByteAt(p, k, b + t + 1)
                         <5>1. (b + t + 1) + (1 - (l + 1)) = b + t + 1
                               BY <1>2, <3>2
                         <5>2. 1 \in l + 1 .. l + n + 1
                               BY <1>3, <3>2
                         <5> QED BY <1>13, <5>1, <5>2
                   <4> QED BY <1>2, <1>9, <3>2, <4>1
             <3> QED BY <1>3, <3>1, <3>2
       <2>2. Reach > 0
             BY <1>3, <1>9
       <2>3. ToReceive' = ToReceive
             BY <1>1 DEF ToReceive, receiverVars
       <2> QED BY <1>0, <1>1, <1>10, <2>1, <2>2, <2>3 DEF InStep, receiverVars
<1>16. Filling' /\ Delivered'
       BY <1>0, <1>1, ReceiverUntouched DEF Inv
<1> QED BY <1>7, <1>14, <1>15, <1>16 DEF Delivery

\* When a message is cut nothing before it was to be followed by what is
\* not sent.
LEMMA OrderedAfterCut ==
    ASSUME NEW f, NEW g, NEW l \in Nat, NEW c, NEW d, NEW k \in Nat, NEW m,
           Ordered(f, l + 1, c), f[l + 1] = <<"text", k, m>>,
           \A i \in 1 .. l : g[i] = f[i] /\ f[i] \in Byte,
           d \in 1 .. k, c = 0 \/ d = c
    PROVE  Ordered(g, l + 1, d)
<1> SUFFICES ASSUME NEW i \in 1 .. l + 1, NEW j \in 1 .. l + 1, i < j
             PROVE  Follows(g, i, j, d)
    BY DEF Ordered
<1>1. i \in 1 .. l /\ g[i] = f[i] /\ f[i] \in Byte
      OBVIOUS
<1>2. Follows(f, i, j, c)
      BY DEF Ordered
<1>3. PICK q \in {"size", "text"}, r \in 1 .. Len(Sizes), e \in Nat :
              f[i] = <<q, r, e>>
      <2>1. f[i] \in Byte
            BY <1>1
      <2> QED BY <2>1 DEF Byte
<1>4. f[i][1] = q /\ f[i][2] = r /\ f[i][3] = e
      BY <1>3
<1>5. r \in Nat /\ (Intact(r, d) => Intact(r, c) /\ r < d)
      BY DEF Intact
<1>6. CASE j <= l
      <2>1. g[j] = f[j]
            BY <1>6
      <2> QED BY <1>1, <1>2, <1>4, <1>5, <2>1 DEF Follows
<1>7. CASE j = l + 1
      <2>1. SUFFICES ASSUME Intact(r, d), e + (j - i) <= PartLen(q, r) + 1
                     PROVE  FALSE
            BY <1>1, <1>4 DEF Follows
      <2>2. <<"text", k, m>> = ByteAt(q, r, e + (j - i))
            BY <1>2, <1>4, <1>5, <1>7, <2>1 DEF Follows
      <2>3. k = r
            BY <2>2 DEF ByteAt, After
      <2> QED BY <1>5, <2>1, <2>3
<1> QED BY <1>6, <1>7

\* The header is sent whole and its text follows, or the next header.
LEMMA HeaderSentNext ==
    ASSUME Inv, ~os.shortHeaders, SenderAt, HeaderSent
    PROVE  SenderAt' /\ ToSend' = ToSend /\ cut' = cut
<1>1. /\ sender = "header" /\ taken > 0 /\ os' = os /\ cut' = cut
      /\ message \in 1 .. Len(Sizes) /\ cut \in Nat
      <2>1. /\ sender = "header" /\ taken > 0 /\ os' = os
            /\ CutIf(taken < HeaderLen)
            BY DEF HeaderSent, Returns, receiverVars
      <2>2. taken = HeaderLen /\ HeaderLen \in Nat \ {0}
            BY <2>1, FramingAssumption DEF SenderAt
      <2>3. cut' = cut
            BY <2>1, <2>2 DEF CutIf
      <2> QED BY <2>1, <2>3 DEF Inv, HasMessage, TypeOK
<1>2. /\ taken = HeaderLen /\ totalSent = 0 /\ dataSize = Sizes[message]
      /\ HeaderLen \in Nat \ {0} /\ Sizes[message] \in Nat /\ cut < message
      BY <1>1, FramingAssumption, SizesType DEF SenderAt
<1>3. ToSend = After("size", message)
      <2>1. ~(HeaderLen + 1 <= PartLen("size", message))
            BY <1>2 DEF PartLen
      <2> QED BY <1>1, <1>2, <2>1 DEF ToSend, ByteAt
<1>4. CASE dataSize > 0
      <2>1. /\ sender' = "body" /\ taken' = 0
            /\ UNCHANGED <<message, dataSize, totalSent>>
            BY <1>4 DEF HeaderSent
      <2>2. ToSend' = <<"text", message, 1>>
            <3>1. 0 + 0 + 1 <= PartLen("text", message) /\ 0 + 0 + 1 = 1
                  BY <1>2, <1>4 DEF PartLen
            <3> QED BY <1>2, <2>1, <3>1 DEF ToSend, ByteAt
      <2>3. SenderAt'
            BY <1>1, <1>2, <1>4, <2>1 DEF SenderAt
      <2> QED BY <1>1, <1>2, <1>3, <1>4, <2>2, <2>3 DEF After
<1>5. CASE ~(dataSize > 0)
      <2>1. SendNext
            BY <1>5 DEF HeaderSent
      <2>2. ToSend' = <<"size", message + 1, 1>>
            <3>1. 0 + 1 <= PartLen("size", message + 1) /\ 0 + 1 = 1
                  BY <1>2 DEF PartLen
            <3> QED BY <2>1, <3>1 DEF SendNext, ToSend, ByteAt
      <2>3. SenderAt'
            BY <1>1, <1>2, <2>1 DEF SendNext, SenderAt
      <2> QED BY <1>1, <1>2, <1>3, <1>5, <2>2, <2>3 DEF After
<1> QED BY <1>4, <1>5

\* The text is sent on, or whole, or it is cut here.
LEMMA BodySentNext ==
    ASSUME Inv, ~os.shortHeaders, SenderAt, BodySent
    PROVE  /\ SenderAt'
           /\ \/ ToSend' = ToSend /\ cut' = cut
              \/ /\ ToSend = <<"text", message, totalSent + taken + 1>>
                 /\ cut' \in 1 .. message
                 /\ cut = 0 \/ cut' = cut
<1>1. /\ sender = "body" /\ taken > 0 /\ os' = os
      /\ taken = Len(Request) \/ os.shortSends
      /\ message \in 1 .. Len(Sizes) /\ cut \in Nat
      /\ totalSent \in Nat /\ taken \in Nat /\ dataSize \in Nat
      BY DEF BodySent, Returns, receiverVars, Inv, HasMessage, TypeOK
<1>2. /\ totalSent + dataSize = Sizes[message] /\ taken <= dataSize
      /\ Sizes[message] \in Nat /\ cut < message /\ message \in Nat
      /\ ~os.shortSends => cut = 0 /\ totalSent = 0
      BY <1>1, SizesType DEF SenderAt
<1>3. Len(Request) = dataSize
      <2>1. Len(Request) = PartLen(Part, message) - Before
            BY <1>1, SendingPart
      <2>2. Len(Request) = Sizes[message] - totalSent
            BY <1>1, <2>1 DEF PartLen, Part, Before
      <2> QED BY <1>1, <1>2, <2>2
<1>4. ToSend = ByteAt("text", message, totalSent + taken + 1)
      BY <1>1 DEF ToSend
<1> DEFINE total == totalSent + taken  left == dataSize - taken
<1>5. CASE total < left
      <2>1. /\ totalSent' = total /\ dataSize' = left /\ taken' = 0
            /\ UNCHANGED <<sender, message, cut>>
            BY <1>5 DEF BodySent
      <2>2. SenderAt'
            BY <1>1, <1>2, <1>3, <1>5, <2>1 DEF SenderAt
      <2>3. ToSend' = ToSend
            <3>1. total + 0 + 1 = totalSent + taken + 1
                  BY <1>1
            <3>2. ToSend' = ByteAt("text", message, total + 0 + 1)
                  BY <1>1, <2>1 DEF ToSend
            <3> QED BY <1>4, <3>1, <3>2
      <2> QED BY <2>1, <2>2, <2>3
<1>6. CASE ~(total < left)
      <2>1. /\ SendNext
            /\ cut' = IF cut = 0 /\ total < Sizes[message] THEN message ELSE cut
            BY <1>6 DEF BodySent, CutIf
      <2>2. ~os.shortSends => total = Sizes[message]
            BY <1>1, <1>2, <1>3
      <2>3. SenderAt'
            BY <1>1, <1>2, <2>1, <2>2 DEF SendNext, SenderAt
      <2>4. CASE total < Sizes[message]
            <3>1. ToSend = <<"text", message, totalSent + taken + 1>>
                  <4>1. totalSent + taken + 1 <= PartLen("text", message)
                        BY <1>1, <1>2, <2>4 DEF PartLen
                  <4> QED BY <1>4, <4>1 DEF ByteAt
            <3>2. cut' \in 1 .. message /\ (cut = 0 \/ cut' = cut)
                  BY <1>1, <1>2, <2>1, <2>4
            <3> QED BY <2>3, <3>1, <3>2
      <2>5. CASE ~(total < Sizes[message])
            <3>1. ToSend = <<"size", message + 1, 1>>
                  <4>1. ~(totalSent + taken + 1 <= PartLen("text", message))
                        BY <1>1, <1>2, <2>5 DEF PartLen
                  <4> QED BY <1>4, <4>1 DEF ByteAt, After
            <3>2. ToSend' = <<"size", message + 1, 1>>
                  <4>1. 0 + 1 <= PartLen("size", message + 1) /\ 0 + 1 = 1
                        BY FramingAssumption DEF PartLen
                  <4> QED BY <2>1, <4>1 DEF SendNext, ToSend, ByteAt
            <3> QED BY <2>1, <2>3, <2>5, <3>1, <3>2
      <2> QED BY <2>4, <2>5
<1> QED BY <1>5, <1>6

LEMMA ReturnKeeps ==
    ASSUME Inv, ~os.shortHeaders, Delivery, HeaderSent \/ BodySent
    PROVE  Delivery'
<1>1. SenderAt /\ Ordered(Line, Reach, cut) /\ InStep /\ Filling /\ Delivered
      BY DEF Delivery
<1>2. /\ channel = "open" /\ wire' = wire /\ channel' = channel
      /\ UNCHANGED receiverVars
      BY DEF HeaderSent, BodySent, Returns
<1>3. ToReceive' = ToReceive
      BY <1>2 DEF ToReceive, receiverVars
<1>4. Reach' = Reach
      BY <1>2 DEF Reach
<1>5. CASE ToSend' = ToSend /\ cut' = cut
      <2>1. Line' = Line
            BY <1>2, <1>5 DEF Line
      <2>2. InStep'
            BY <1>1, <1>2, <1>3, <1>4, <1>5, <2>1 DEF InStep, receiverVars
      <2>3. Ordered(Line', Reach', cut')
            BY <1>1, <1>4, <1>5, <2>1
      <2>4. Filling' /\ Delivered'
            BY <1>1, <1>2, <1>5, ReceiverUntouched DEF Inv
      <2>5. SenderAt'
            BY <1>1, HeaderSentNext, BodySentNext
      <2> QED BY <2>2, <2>3, <2>4, <2>5 DEF Delivery
<1>6. CASE ~(ToSend' = ToSend /\ cut' = cut)
      <2>1. /\ SenderAt'
            /\ ToSend = <<"text", message, totalSent + taken + 1>>
            /\ cut' \in 1 .. message
            /\ cut = 0 \/ cut' = cut
            BY <1>1, <1>6, HeaderSentNext, BodySentNext
      <2> DEFINE l == Len(wire)  f == Line  g == Line'  k == message
                 m == totalSent + taken + 1  c == cut  d == cut'
      <2>2. /\ l \in Nat /\ Reach = l + 1 /\ f[l + 1] = ToSend
            /\ \A i \in 1 .. l : f[i] = wire[i] /\ wire[i] \in Byte
            BY <1>2, LineIs DEF Line, Reach, Inv, TypeOK
      <2>3. g = LineOf(wire, channel, ToSend')
            BY <1>2 DEF Line
      <2>4. \A i \in 1 .. l : g[i] = wire[i]
            <3> DEFINE next == ToSend'  w == wire
            <3>1. w \in Seq(Byte)
                  BY DEF Inv, TypeOK
            <3> HIDE DEF next, w
            <3>2. \A i \in 1 .. Len(w) : LineOf(w, channel, next)[i] = w[i]
                  BY <3>1, LineIs
            <3> QED BY <2>3, <3>2 DEF next, w
      <2>5. k \in Nat /\ Len(received) \in Nat /\ c \in Nat
            BY LenProperties, FramingAssumption DEF Inv, TypeOK
      <2>6. Ordered(g, l + 1, d)
            <3>1. /\ Ordered(f, l + 1, c) /\ f[l + 1] = <<"text", k, m>>
                  /\ \A i \in 1 .. l : g[i] = f[i] /\ f[i] \in Byte
                  /\ d \in 1 .. k /\ (c = 0 \/ d = c)
                  BY <1>1, <2>1, <2>2, <2>4
            <3> HIDE DEF f, g, l, k, m, c, d
            <3> QED BY <2>2, <2>5, <3>1, OrderedAfterCut
      <2>7. \A i \in Nat : Intact(i, cut') => Intact(i, cut) /\ i < message
            BY <2>1, <2>5 DEF Intact
      <2>8. InStep'
            <3>1. CASE l > 0
                  <4>1. g[1] = f[1]
                        BY <2>2, <2>4, <3>1
                  <4>2. Len(received) + 1 \in Nat
                        BY <2>5
                  <4> QED BY <1>1, <1>2, <1>3, <1>4, <2>7, <4>1, <4>2
                          DEF InStep, receiverVars
            <3>2. CASE l = 0
                  <4>1. SUFFICES ASSUME Intact(Len(received) + 1, cut'),
                                        receiver \in {"header", "body"}
                                 PROVE  FALSE
                        BY <1>2 DEF InStep, receiverVars
                  <4>2. Intact(Len(received) + 1, cut) /\ Len(received) + 1 < k
                        BY <2>5, <2>7, <4>1
                  <4>3. ToSend = ToReceive
                        BY <1>1, <2>2, <3>2, <4>1, <4>2 DEF InStep
                  <4>4. Len(received) + 1 = k
                        BY <2>1, <4>3 DEF ToReceive, ByteAt, After
                  <4> QED BY <2>5, <4>2, <4>4
            <3> QED BY <2>2, <3>1, <3>2
      <2>9. Filling' /\ Delivered'
            BY <1>1, <1>2, <2>7, ReceiverUntouched DEF Inv
      <2> QED BY <1>4, <2>1, <2>2, <2>6, <2>8, <2>9 DEF Delivery
<1> QED BY <1>5, <1>6

\* The connection ends: the line stays, or loses bytes from its end.
LEMMA BreakKeeps ==
    ASSUME Inv, ~os.shortHeaders, Delivery, Close \/ Reset
    PROVE  Delivery'
<1>1. SenderAt /\ Ordered(Line, Reach, cut) /\ InStep /\ Filling /\ Delivered
      BY DEF Delivery
<1>2. /\ channel = "open" /\ channel' \in {"closed", "reset"}
      /\ UNCHANGED senderVars /\ UNCHANGED receiverVars
      BY DEF Close, Reset
<1>3. /\ ToSend' = ToSend /\ ToReceive' = ToReceive /\ cut' = cut
      /\ received' = received /\ receiver' = receiver
      BY <1>2 DEF ToSend, ToReceive, senderVars, receiverVars
<1>4. SenderAt'
      BY <1>1, <1>2 DEF SenderAt, senderVars
<1>5. Filling' /\ Delivered'
      BY <1>1, <1>2, <1>3, ReceiverUntouched DEF Inv
<1>6. CASE Close
      <2>1. wire' = wire /\ channel' = "closed"
            BY <1>6 DEF Close
      <2>2. Reach' = Reach
            BY <1>2, <2>1 DEF Reach, ReachOf
      <2>3. Line' = Line
            BY <1>2, <1>3, <2>1 DEF Line, LineOf, ReachOf
      <2> QED BY <1>1, <1>3, <1>4, <1>5, <2>2, <2>3 DEF Delivery, InStep
<1>7. CASE Reset
      <2>1. PICK n \in 0 .. Len(wire) : wire' = SubSeq(wire, 1, n)
            BY <1>7 DEF Reset
      <2> DEFINE l == Len(wire)  f == Line  g == Line'  c == cut
      <2>2. /\ l \in Nat /\ Reach = l + 1 /\ wire \in Seq(Byte)
            /\ \A i \in 1 .. l : f[i] = wire[i]
            BY <1>2, LineNow DEF Inv
      <2>3. /\ wire' \in Seq(Byte) /\ Len(wire') = n /\ n \in 0 .. l
            /\ \A i \in 1 .. n : wire'[i] = wire[i]
            <3>1. /\ SubSeq(wire, 1, n) \in Seq(Byte)
                  /\ Len(SubSeq(wire, 1, n)) = n
                  BY <2>2, CutType, SubSeqProperties
            <3>2. \A i \in 1 .. n : SubSeq(wire, 1, n)[i] = wire[i]
                  BY <2>2, SubSeqProperties
            <3> QED BY <2>1, <2>2, <3>1, <3>2
      <2>4. Reach' = n /\ \A i \in 1 .. n : g[i] = wire'[i]
            <3> DEFINE w == wire'  next == ToSend'  ch == channel'
            <3>1. w \in Seq(Byte) /\ ch = "reset"
                  BY <1>7, <2>3 DEF Reset
            <3> HIDE DEF w, next, ch
            <3>2. \A i \in 1 .. Len(w) : LineOf(w, ch, next)[i] = w[i]
                  BY <3>1, LineIs
            <3>3. ReachOf(w, ch) = Len(w)
                  BY <3>1 DEF ReachOf
            <3> QED BY <2>3, <3>2, <3>3 DEF Line, Reach, w, next, ch
      <2>5. \A i \in 1 .. n : g[i] = f[i]
            BY <2>2, <2>3, <2>4
      <2>6. Ordered(g, n, c)
            <3>1. Ordered(f, l + 1, c) /\ n \in 0 .. l + 1 /\ l + 1 \in Nat
                  BY <1>1, <2>2, <2>3
            <3> HIDE DEF f, g, l, c
            <3> QED BY <2>5, <3>1, OrderedCut
      <2>7. InStep'
            <3>1. n > 0 => g[1] = f[1]
                  BY <2>2, <2>3, <2>5
            <3> QED BY <1>1, <1>3, <2>2, <2>4, <3>1 DEF InStep
      <2> QED BY <1>3, <1>4, <1>5, <2>4, <2>6, <2>7 DEF Delivery
<1> QED BY <1>6, <1>7

-----------------------------------------------------------------------------
(* receive_message is given what it expects *)

\* What is received is the front of the line.
LEMMA Received ==
    ASSUME Inv, Delivery, ~os.shortHeaders, NEW n \in Nat, n <= Len(wire),
           wire' = SubSeq(wire, n + 1, Len(wire)),
           channel' = channel, UNCHANGED senderVars
    PROVE  /\ SenderAt' /\ cut' = cut /\ os' = os
           /\ Ordered(Line', Reach', cut')
           /\ Reach \in Nat /\ n <= Reach /\ Reach' = Reach - n
           /\ \A i \in 1 .. Reach - n : Line'[i] = Line[i + n]
           /\ \A i \in 1 .. n : Line[i] = wire[i] /\ wire[i] \in Byte
<1>1. SenderAt /\ Ordered(Line, Reach, cut)
      BY DEF Delivery
<1>2. SenderAt' /\ cut' = cut /\ os' = os /\ ToSend' = ToSend
      BY <1>1 DEF SenderAt, ToSend, senderVars
<1> DEFINE l == Len(wire)  f == Line  g == Line'  c == cut  k == Reach
           v == wire  w == wire'
<1>3. /\ l \in Nat /\ v \in Seq(Byte) /\ l = Len(v)
      /\ k = IF channel \in {"open", "closed"} THEN l + 1 ELSE l
      /\ \A i \in 1 .. l : f[i] = v[i] /\ v[i] \in Byte
      /\ channel \in {"open", "closed"} => f[l + 1] = ToSend
      BY LineNow DEF Inv
<1>4. /\ w \in Seq(Byte) /\ Len(w) = l - n
      /\ \A i \in 1 .. l - n : w[i] = v[i + n]
      <2>1. /\ SubSeq(v, n + 1, l) \in Seq(Byte)
            /\ Len(SubSeq(v, n + 1, l)) = l - n
            BY <1>3, CutType, SubSeqProperties
      <2>2. ASSUME NEW i \in 1 .. l - n
            PROVE  SubSeq(v, n + 1, l)[i] = v[i + n]
            <3>1. SubSeq(v, n + 1, l)[i] = v[(n + 1) + i - 1]
                  BY <1>3, <2>2, SubSeqProperties
            <3>2. (n + 1) + i - 1 = i + n
                  BY <2>2, <1>3
            <3> QED BY <3>1, <3>2
      <2> QED BY <2>1, <2>2
<1>5. /\ Reach' = IF channel \in {"open", "closed"} THEN (l - n) + 1 ELSE l - n
      /\ \A i \in 1 .. l - n : g[i] = w[i]
      /\ channel \in {"open", "closed"} => g[(l - n) + 1] = ToSend
      <2> DEFINE next == ToSend'
      <2>1. g = LineOf(w, channel, next) /\ Reach' = ReachOf(w, channel)
            BY DEF Line, Reach
      <2> HIDE DEF w, next
      <2>2. /\ ReachOf(w, channel) =
                  IF channel \in {"open", "closed"} THEN Len(w) + 1 ELSE Len(w)
            /\ \A i \in 1 .. Len(w) : LineOf(w, channel, next)[i] = w[i]
            /\ channel \in {"open", "closed"} =>
                  LineOf(w, channel, next)[Len(w) + 1] = next
            BY <1>4, LineIs
      <2> QED BY <1>2, <1>4, <2>1, <2>2 DEF next
<1>6. k \in Nat /\ n <= k /\ Reach' = k - n
      BY <1>3, <1>5
<1>7. \A i \in 1 .. k - n : g[i] = f[i + n]
      <2> SUFFICES ASSUME NEW i \in 1 .. k - n PROVE g[i] = f[i + n]
          OBVIOUS
      <2> HIDE DEF f, g, k, l, v, w
      <2>1. CASE i <= l - n
            <3>1. i \in 1 .. l - n /\ i + n \in 1 .. l
                  BY <1>3, <1>6, <2>1
            <3> QED BY <1>3, <1>4, <1>5, <3>1
      <2>2. CASE i > l - n
            <3>1. channel \in {"open", "closed"} /\ i = (l - n) + 1
                  BY <1>3, <1>6, <2>2
            <3>2. i + n = l + 1
                  BY <1>3, <3>1
            <3> QED BY <1>3, <1>5, <3>1, <3>2
      <2> QED BY <1>3, <1>6, <2>1, <2>2
<1>8. Ordered(g, k - n, c)
      <2>1. Ordered(f, k, c) /\ n \in 0 .. k
            BY <1>1, <1>6
      <2> HIDE DEF f, g, k, c
      <2> QED BY <1>6, <1>7, <2>1, OrderedShift
<1> QED BY <1>2, <1>3, <1>6, <1>7, <1>8

\* Where sizes arrive whole and no message was cut, the eight bytes that recv
\* takes are the header of the message whose turn it is.
LEMMA HeaderIsRead ==
    ASSUME Inv, ~os.shortHeaders, Delivery, NEW n \in 1 .. Capacity,
           RecvHeader(n), Intact(Len(received) + 1, cut)
    PROVE  /\ Len(received) + 1 \in 1 .. Len(Sizes)
           /\ size' = Sizes[Len(received) + 1]
           /\ \A j \in 1 .. Reach :
                 j <= HeaderLen + 1 =>
                    Line[j] = ByteAt("size", Len(received) + 1, j)
<1> DEFINE k == Len(received) + 1  f == Line  c == cut
<1>1. SenderAt /\ Ordered(Line, Reach, cut) /\ InStep /\ Filling /\ Delivered
      BY DEF Delivery
<1>2. /\ wire \in Seq(Byte) /\ Len(wire) \in Nat /\ k \in Nat
      /\ HeaderLen \in Nat \ {0}
      BY LenProperties, FramingAssumption DEF Inv, TypeOK
<1>3. n = HeaderLen /\ n <= Len(wire) /\ channel # "drained"
      <2>1. n = HeaderLen /\ n \in 1 .. Smallest(HeaderLen, Len(wire))
            BY DEF RecvHeader
      <2>2. n <= Len(wire)
            BY <1>2, <2>1 DEF Smallest
      <2>3. wire # <<>>
            BY <1>2, <2>1, <2>2, EmptySeq
      <2> QED BY <2>1, <2>2, <2>3 DEF Inv, Drained
<1>4. /\ receiver = "header" /\ receiver' \in {"body", "dead"}
      /\ bytesRead' = 0 /\ buffer' = <<>>
      /\ received' = received /\ channel' = channel /\ UNCHANGED senderVars
      /\ wire' = SubSeq(wire, n + 1, Len(wire))
      BY DEF RecvHeader, StartBody
<1>5. /\ SenderAt' /\ cut' = cut
      /\ Ordered(Line', Reach', cut')
      /\ Reach \in Nat /\ n <= Reach /\ Reach' = Reach - n
      /\ \A i \in 1 .. Reach - n : Line'[i] = Line[i + n]
      /\ \A i \in 1 .. n : Line[i] = wire[i] /\ wire[i] \in Byte
      BY <1>2, <1>3, <1>4, Received
<1>6. f[1] = <<"size", k, 1>>
      BY <1>1, <1>2, <1>3, <1>4, <1>5 DEF InStep, ToReceive
<1>7. k \in 1 .. Len(Sizes)
      <2>1. 1 \in 1 .. n
            BY <1>2, <1>3
      <2>2. <<"size", k, 1>> \in Byte
            BY <1>5, <1>6, <2>1
      <2> QED BY <2>2 DEF Byte
<1>8. ASSUME NEW j \in 1 .. Reach, j <= HeaderLen + 1
      PROVE  f[j] = ByteAt("size", k, j)
      <2>1. 1 + (j - 1) = j
            BY <1>5
      <2>2. PartLen("size", k) = HeaderLen /\ Reach \in Nat
            BY <1>5 DEF PartLen
      <2>3. f[1] = ByteAt("size", k, 1)
            BY <1>2, <1>6, <2>2 DEF ByteAt
      <2>4. Ordered(f, Reach, c) /\ Intact(k, c)
            BY <1>1
      <2> HIDE DEF f, c, k
      <2>5. f[j] = ByteAt("size", k, 1 + (j - 1))
            BY <1>2, <1>7, <1>8, <2>2, <2>3, <2>4, FrontOfLine
      <2> QED BY <2>1, <2>5
<1>9. SubSeq(wire, 1, n) = Header(k)
      <2>1. /\ SubSeq(wire, 1, n) \in Seq(Byte)
            /\ Len(SubSeq(wire, 1, n)) = n
            /\ \A i \in 1 .. n : SubSeq(wire, 1, n)[i] = wire[i]
            BY <1>2, <1>3, CutType, SubSeqProperties
      <2>2. Header(k) \in Seq(Byte) /\ Len(Header(k)) = n
            BY <1>3, <1>7, HeaderType
      <2>3. ASSUME NEW i \in 1 .. n
            PROVE  SubSeq(wire, 1, n)[i] = Header(k)[i]
            <3>1. i \in 1 .. Reach /\ i <= HeaderLen + 1 /\ i <= HeaderLen
                  BY <1>2, <1>3, <1>5
            <3>2. wire[i] = ByteAt("size", k, i)
                  BY <1>5, <1>8, <3>1
            <3>3. ByteAt("size", k, i) = <<"size", k, i>>
                  BY <3>1 DEF ByteAt, PartLen
            <3>4. Header(k)[i] = <<"size", k, i>>
                  BY <1>3 DEF Header
            <3> QED BY <2>1, <3>2, <3>3, <3>4
      <2> QED BY <2>1, <2>2, <2>3, SeqEqual
<1>10. size' = Sizes[k]
      <2>1. SizeOf(Header(k), size')
            BY <1>9 DEF RecvHeader, StartBody
      <2>2. PICK j \in 1 .. Len(Sizes) :
                    Header(k) = Header(j) /\ size' = Sizes[j]
            BY <1>7, <2>1 DEF SizeOf
      <2>3. Header(k)[1] = <<"size", k, 1>> /\ Header(j)[1] = <<"size", j, 1>>
            BY <1>2 DEF Header
      <2>4. k = j
            BY <2>2, <2>3
      <2> QED BY <2>2, <2>4
<1> QED BY <1>7, <1>8, <1>10

LEMMA RecvHeaderKeeps ==
    ASSUME Inv, ~os.shortHeaders, Delivery, NEW n \in 1 .. Capacity,
           RecvHeader(n)
    PROVE  Delivery'
<1> DEFINE k == Len(received) + 1
<1>1. SenderAt /\ Ordered(Line, Reach, cut) /\ InStep /\ Filling /\ Delivered
      BY DEF Delivery
<1>2. /\ wire \in Seq(Byte) /\ Len(wire) \in Nat /\ k \in Nat
      /\ HeaderLen \in Nat \ {0}
      BY LenProperties, FramingAssumption DEF Inv, TypeOK
<1>3. n = HeaderLen /\ n <= Len(wire) /\ channel # "drained"
      <2>1. n = HeaderLen /\ n \in 1 .. Smallest(HeaderLen, Len(wire))
            BY DEF RecvHeader
      <2>2. n <= Len(wire)
            BY <1>2, <2>1 DEF Smallest
      <2>3. wire # <<>>
            BY <1>2, <2>1, <2>2, EmptySeq
      <2> QED BY <2>1, <2>2, <2>3 DEF Inv, Drained
<1>4. /\ receiver = "header" /\ receiver' \in {"body", "dead"}
      /\ bytesRead' = 0 /\ buffer' = <<>>
      /\ received' = received /\ channel' = channel /\ UNCHANGED senderVars
      /\ wire' = SubSeq(wire, n + 1, Len(wire))
      BY DEF RecvHeader, StartBody
<1>5. /\ SenderAt' /\ cut' = cut
      /\ Ordered(Line', Reach', cut')
      /\ Reach \in Nat /\ n <= Reach /\ Reach' = Reach - n
      /\ \A i \in 1 .. Reach - n : Line'[i] = Line[i + n]
      /\ \A i \in 1 .. n : Line[i] = wire[i] /\ wire[i] \in Byte
      BY <1>2, <1>3, <1>4, Received
<1>6. Delivered'
      BY <1>1, <1>3, <1>4, <1>5 DEF Delivered
<1>7. CASE ~Intact(k, cut)
      <2>1. Filling' /\ InStep'
            BY <1>4, <1>5, <1>7 DEF Filling, InStep
      <2> QED BY <1>5, <1>6, <2>1 DEF Delivery
<1>8. CASE Intact(k, cut)
      <2>1. k \in 1 .. Len(Sizes) /\ size' = Sizes[k]
            BY <1>8, HeaderIsRead
      <2>2. \A j \in 1 .. Reach :
               j <= HeaderLen + 1 => Line[j] = ByteAt("size", k, j)
            BY <1>8, HeaderIsRead
      <2>3. Sizes[k] \in Nat
            BY <2>1, SizesType
      <2>4. Filling'
            <3>1. Len(buffer') = 0
                  BY <1>4, EmptySeq
            <3>2. bytesRead' < size' \/ size' = 0
                  BY <1>4, <2>1, <2>3
            <3> QED BY <1>4, <2>1, <3>1, <3>2 DEF Filling
      <2>5. ByteAt("size", k, HeaderLen + 1) = ByteAt("text", k, 1)
            <3>1. ByteAt("size", k, HeaderLen + 1) = After("size", k)
                  BY <1>2 DEF ByteAt, PartLen
            <3>2. ByteAt("text", k, 1) =
                     IF Sizes[k] > 0 THEN <<"text", k, 1>> ELSE <<"size", k + 1, 1>>
                  BY <2>3 DEF ByteAt, PartLen, After
            <3> QED BY <3>1, <3>2 DEF After
      <2>6. InStep'
            <3>1. ToReceive' = ByteAt("text", k, 0 + 1)
                  BY <1>4 DEF ToReceive
            <3>2. ASSUME Reach' > 0
                  PROVE  Line'[1] = ByteAt("size", k, HeaderLen + 1)
                  <4>1. 1 \in 1 .. Reach - n /\ 1 + n = HeaderLen + 1
                        BY <1>2, <1>3, <1>5, <3>2
                  <4>2. HeaderLen + 1 \in 1 .. Reach
                        BY <1>2, <1>3, <1>5, <4>1
                  <4> QED BY <1>2, <1>5, <2>2, <4>1, <4>2
            <3>3. 0 + 1 = 1
                  OBVIOUS
            <3> QED BY <2>5, <3>1, <3>2, <3>3 DEF InStep
      <2> QED BY <1>5, <1>6, <2>4, <2>6 DEF Delivery
<1> QED BY <1>7, <1>8

\* Nothing is on the wire any more, nor will be.
LEMMA LostKeeps ==
    ASSUME Inv, ~os.shortHeaders, Delivery, RecvHeaderEof \/ RecvHeaderError
    PROVE  Delivery'
<1>1. SenderAt /\ Ordered(Line, Reach, cut) /\ InStep /\ Filling /\ Delivered
      BY DEF Delivery
<1>2. UNCHANGED senderVars /\ received' = received /\ wire' = wire /\ wire = <<>>
      BY DEF RecvHeaderEof, RecvHeaderError
<1>3. SenderAt' /\ cut' = cut /\ ToSend' = ToSend
      BY <1>1, <1>2 DEF SenderAt, ToSend, senderVars
<1>4. CASE RecvHeaderEof
      <2>1. receiver = "header" /\ receiver' = "ended" /\ channel' = channel
            BY <1>4 DEF RecvHeaderEof
      <2>2. Reach' = Reach /\ Line' = Line
            BY <1>2, <1>3, <2>1 DEF Reach, Line
      <2>3. InStep' /\ Filling' /\ Delivered'
            BY <1>1, <1>2, <1>3, <2>1 DEF InStep, Filling, Delivered
      <2> QED BY <1>1, <1>3, <2>2, <2>3 DEF Delivery
<1>5. CASE RecvHeaderError
      <2>1. channel = "reset" /\ channel' = "drained"
            BY <1>5 DEF RecvHeaderError
      <2>2. Reach' = 0
            BY <1>2, <2>1, EmptySeq DEF Reach, ReachOf
      <2>3. InStep' /\ Ordered(Line', Reach', cut')
            BY <2>2 DEF InStep, Ordered
      <2>4. Filling' /\ Delivered'
            BY <1>1, <1>2, <1>3, <2>1 DEF Filling, Delivered
      <2> QED BY <1>3, <2>3, <2>4 DEF Delivery
<1> QED BY <1>4, <1>5

\* The text of message k is whole when all its bytes are there.
LEMMA WholeText ==
    ASSUME NEW k \in 1 .. Len(Sizes), NEW text \in Seq(Byte),
           Len(text) = Sizes[k],
           \A i \in 1 .. Len(text) : text[i] = <<"text", k, i>>
    PROVE  text = Text(k)
<1>1. Text(k) \in Seq(Byte) /\ Len(Text(k)) = Sizes[k] /\ Sizes[k] \in Nat
      BY TextType, SizesType
<1>2. \A i \in 1 .. Sizes[k] : Text(k)[i] = <<"text", k, i>>
      BY DEF Text
<1> QED BY <1>1, <1>2, SeqEqual

\* One more message was received.
LEMMA DeliveredOne ==
    ASSUME received \in Seq(Seq(Byte)), NEW text \in Seq(Byte),
           Delivered, receiver = "body", UNCHANGED <<channel, cut>>,
           received' = Append(received, text), receiver' = "header",
           LET k == Len(received) + 1
           IN \/ k <= Len(Sizes) /\ text = Text(k)
              \/ ~Intact(k, cut)
              \/ channel = "drained"
    PROVE  Delivered' /\ Len(received') = Len(received) + 1
<1> DEFINE k == Len(received) + 1  r == received  s == Append(received, text)
<1>1. /\ Len(r) \in Nat /\ Len(s) = k /\ s[k] = text
      /\ \A i \in 1 .. Len(r) : s[i] = r[i]
      BY LenProperties, AppendProperties
<1>2. ASSUME NEW i \in 1 .. k
      PROVE  \/ i <= Len(Sizes) /\ s[i] = Text(i)
             \/ ~Intact(i, cut)
             \/ i = k /\ channel = "drained"
      <2>1. CASE i = k
            BY <1>1, <2>1
      <2>2. CASE i < k
            <3>1. i \in 1 .. Len(r)
                  BY <1>1, <2>2
            <3>2. (i <= Len(Sizes) /\ r[i] = Text(i)) \/ ~Intact(i, cut)
                  BY <3>1 DEF Delivered
            <3> QED BY <1>1, <3>1, <3>2
      <2> QED BY <1>1, <2>1, <2>2
<1> QED BY <1>1, <1>2 DEF Delivered

LEMMA RecvBodyKeeps ==
    ASSUME Inv, ~os.shortHeaders, Delivery, NEW n \in 1 .. Capacity, RecvBody(n)
    PROVE  Delivery'
<1> DEFINE k == Len(received) + 1  f == Line  c == cut  b == bytesRead
           x == SubSeq(wire, 1, n)  text == Put(x)
<1>1. SenderAt /\ Ordered(Line, Reach, cut) /\ InStep /\ Filling /\ Delivered
      BY DEF Delivery
<1>2. /\ wire \in Seq(Byte) /\ Len(wire) \in Nat /\ k \in Nat /\ n \in Nat \ {0}
      /\ buffer \in Seq(Byte) /\ Len(buffer) \in Nat
      /\ size \in 0 .. Wrap - 1 /\ b \in 0 .. Wrap - 1 /\ Wrap \in Nat
      /\ received \in Seq(Seq(Byte))
      BY LenProperties, FramingAssumption DEF Inv, TypeOK
<1>3. n <= Len(wire) /\ n <= size - b
      <2> DEFINE asked == size - b
      <2>1. asked \in Int /\ n \in 1 .. Smallest(asked, Len(wire))
            BY <1>2 DEF RecvBody, Asked
      <2> HIDE DEF asked, b
      <2>2. n <= Len(wire) /\ n <= asked
            BY <1>2, <2>1 DEF Smallest
      <2> QED BY <2>2 DEF asked
<1>4. channel # "drained" /\ b = Len(buffer)
      <2>1. wire # <<>>
            BY <1>2, <1>3, EmptySeq
      <2> QED BY <2>1 DEF Inv, Drained, InPlace, RecvBody
<1>5. Counted(n) = b + n
      <2>1. b + n \in 0 .. Wrap - 1
            BY <1>2, <1>3
      <2> QED BY <1>2, <2>1, SmallModulo DEF Counted
<1>6. /\ receiver = "body" /\ channel' = channel /\ UNCHANGED senderVars
      /\ wire' = SubSeq(wire, n + 1, Len(wire))
      /\ Assemble(b + n, text)
      BY <1>5 DEF RecvBody
<1>7. /\ SenderAt' /\ cut' = cut
      /\ Ordered(Line', Reach', cut')
      /\ Reach \in Nat /\ n <= Reach /\ Reach' = Reach - n
      /\ \A i \in 1 .. Reach - n : Line'[i] = Line[i + n]
      /\ \A i \in 1 .. n : Line[i] = wire[i] /\ wire[i] \in Byte
      BY <1>2, <1>3, <1>6, Received
<1>8. /\ text \in Seq(Byte) /\ Len(text) = b + n
      /\ \A i \in 1 .. b : text[i] = buffer[i]
      /\ \A i \in b + 1 .. b + n : text[i] = wire[i - b]
      <2>1. /\ x \in Seq(Byte) /\ Len(x) = n
            /\ \A i \in 1 .. n : x[i] = wire[i]
            BY <1>2, <1>3, CutType, SubSeqProperties
      <2> HIDE DEF x
      <2>2. /\ buffer \o x \in Seq(Byte)
            /\ Len(buffer \o x) = Len(buffer) + Len(x)
            /\ \A i \in 1 .. Len(buffer) + Len(x) :
                  (buffer \o x)[i] = IF i <= Len(buffer) THEN buffer[i]
                                     ELSE x[i - Len(buffer)]
            BY <1>2, <2>1, ConcatProperties
      <2> QED BY <1>2, <1>4, <2>1, <2>2 DEF Put
<1> HIDE DEF x, text
<1>9. ASSUME Intact(k, cut)
      PROVE  /\ k \in 1 .. Len(Sizes) /\ size = Sizes[k] /\ Sizes[k] \in Nat
             /\ \A i \in 1 .. Len(text) : text[i] = <<"text", k, i>>
             /\ n + 1 <= Reach => Line[n + 1] = ByteAt("text", k, b + n + 1)
      <2>1. /\ k \in 1 .. Len(Sizes) /\ size = Sizes[k]
            /\ \A i \in 1 .. Len(buffer) : buffer[i] = <<"text", k, i>>
            BY <1>1, <1>2, <1>4, <1>6, <1>9 DEF Filling
      <2>2. Sizes[k] \in Nat /\ PartLen("text", k) = Sizes[k]
            BY <2>1, SizesType DEF PartLen
      <2>3. f[1] = ByteAt("text", k, b + 1)
            BY <1>1, <1>2, <1>6, <1>7, <1>9 DEF InStep, ToReceive
      <2>4. ASSUME NEW j \in 1 .. Reach, j <= n + 1
            PROVE  f[j] = ByteAt("text", k, b + j)
            <3>1. (b + 1) + (j - 1) = b + j
                  BY <1>2, <1>7
            <3> DEFINE m == b + 1
            <3>2. /\ m \in Nat /\ m <= PartLen("text", k)
                  /\ m + (j - 1) <= PartLen("text", k) + 1
                  BY <1>2, <1>3, <1>7, <2>1, <2>2, <2>4
            <3>3. f[1] = ByteAt("text", k, m) /\ Ordered(f, Reach, c)
                  /\ Intact(k, c) /\ Reach \in Nat
                  BY <1>1, <1>7, <1>9, <2>3
            <3> HIDE DEF f, c, k, m, b
            <3>4. f[j] = ByteAt("text", k, m + (j - 1))
                  BY <2>1, <2>4, <3>2, <3>3, FrontOfLine
            <3> QED BY <3>1, <3>4 DEF m
      <2>5. ASSUME NEW i \in 1 .. Len(text)
            PROVE  text[i] = <<"text", k, i>>
            <3>1. CASE i <= b
                  <4>1. i \in 1 .. b /\ i \in 1 .. Len(buffer)
                        BY <1>2, <1>4, <1>8, <3>1
                  <4> QED BY <1>8, <2>1, <4>1
            <3>2. CASE i > b
                  <4> DEFINE j == i - b
                  <4>1. /\ j \in 1 .. n /\ j \in 1 .. Reach /\ j <= n + 1
                        /\ i \in b + 1 .. b + n /\ b + j = i /\ i <= Sizes[k]
                        BY <1>2, <1>3, <1>7, <1>8, <2>1, <3>2
                  <4> HIDE DEF j
                  <4>2. wire[j] = ByteAt("text", k, b + j)
                        BY <1>7, <2>4, <4>1
                  <4>3. ByteAt("text", k, i) = <<"text", k, i>>
                        BY <2>2, <4>1 DEF ByteAt
                  <4>4. text[i] = wire[j]
                        BY <1>8, <4>1 DEF j
                  <4> QED BY <4>1, <4>2, <4>3, <4>4
            <3> QED BY <1>2, <1>8, <3>1, <3>2
      <2>6. n + 1 <= Reach => f[n + 1] = ByteAt("text", k, b + (n + 1))
            BY <1>2, <1>7, <2>4
      <2>7. b + (n + 1) = b + n + 1
            BY <1>2
      <2> QED BY <2>1, <2>2, <2>5, <2>6, <2>7
<1>10. \A i \in Nat : Intact(i + 1, cut) => Intact(i, cut)
       <2>1. cut \in Nat
             BY DEF Inv, TypeOK
       <2> QED BY <2>1 DEF Intact
<1>11. ASSUME Reach' > 0
       PROVE  n + 1 <= Reach /\ Line'[1] = Line[n + 1]
       <2>1. 1 \in 1 .. Reach - n /\ 1 + n = n + 1 /\ n + 1 <= Reach
             BY <1>2, <1>7, <1>11
       <2> QED BY <1>7, <2>1
<1>12. CASE Incomplete(b + n)
       <2>1. /\ bytesRead' = b + n /\ buffer' = text /\ size' = size
             /\ receiver' = receiver /\ received' = received
             BY <1>6, <1>12 DEF Assemble
       <2>2. Delivered'
             BY <1>1, <1>4, <1>6, <1>7, <2>1 DEF Delivered
       <2>3. Filling'
             BY <1>6, <1>7, <1>9, <1>12, <2>1 DEF Filling, Incomplete
       <2>4. InStep'
             <3>1. ToReceive' = ByteAt("text", k, b + n + 1)
                   BY <1>6, <2>1 DEF ToReceive
             <3> QED BY <1>7, <1>9, <1>11, <2>1, <3>1 DEF InStep
       <2> QED BY <1>7, <2>2, <2>3, <2>4 DEF Delivery
<1>13. CASE ~Incomplete(b + n)
       <2>1. /\ receiver' = "header" /\ received' = Append(received, text)
             BY <1>6, <1>13 DEF Assemble
       <2>2. b + n = size
             BY <1>2, <1>3, <1>13 DEF Incomplete
       <2>3. Intact(k, cut) => k <= Len(Sizes) /\ text = Text(k)
             BY <1>8, <1>9, <2>2, WholeText
       <2>4. Delivered' /\ Len(received') = k
             BY <1>1, <1>2, <1>6, <1>7, <1>8, <2>1, <2>3, DeliveredOne
       <2>5. Filling'
             BY <2>1 DEF Filling
       <2>6. InStep'
             <3>1. SUFFICES ASSUME Intact(k + 1, cut), Reach' > 0
                            PROVE  Line'[1] = <<"size", k + 1, 1>>
                   BY <1>7, <2>1, <2>4 DEF InStep, ToReceive
             <3>2. Intact(k, cut)
                   BY <1>2, <1>10, <3>1
             <3>3. Line'[1] = ByteAt("text", k, b + n + 1)
                   BY <1>9, <1>11, <3>1, <3>2
             <3>4. ~(b + n + 1 <= PartLen("text", k))
                   BY <1>2, <1>9, <2>2, <3>2 DEF PartLen
             <3> QED BY <3>3, <3>4 DEF ByteAt, After
       <2> QED BY <1>7, <2>4, <2>5, <2>6 DEF Delivery
<1> QED BY <1>12, <1>13

LEMMA RecvNothingKeeps ==
    ASSUME Inv, ~os.shortHeaders, Delivery, RecvNothing
    PROVE  Delivery'
<1> DEFINE k == Len(received) + 1
<1>1. SenderAt /\ Ordered(Line, Reach, cut) /\ InStep /\ Filling /\ Delivered
      BY DEF Delivery
<1>2. /\ k \in Nat /\ buffer \in Seq(Byte) /\ Len(buffer) \in Nat
      /\ size \in 0 .. Wrap - 1 /\ bytesRead \in 0 .. Wrap - 1 /\ Wrap \in Nat
      /\ received \in Seq(Seq(Byte)) /\ cut \in Nat
      BY LenProperties, FramingAssumption DEF Inv, TypeOK
<1>3. /\ receiver = "body" /\ bytesRead = size
      /\ UNCHANGED <<wire, channel>> /\ UNCHANGED senderVars
      BY <1>2 DEF RecvNothing, Asked
<1>4. Assemble(bytesRead, buffer)
      <2>1. Counted(0) = bytesRead
            BY <1>2 DEF Counted
      <2> QED BY <2>1 DEF RecvNothing
<1>5. receiver' = "header" /\ received' = Append(received, buffer)
      BY <1>2, <1>3, <1>4 DEF Assemble, Incomplete
<1>6. /\ SenderAt' /\ cut' = cut /\ ToSend' = ToSend
      /\ Line' = Line /\ Reach' = Reach
      BY <1>1, <1>3 DEF SenderAt, ToSend, Line, Reach, senderVars
<1>7. ASSUME Intact(k, cut), channel # "drained"
      PROVE  /\ k \in 1 .. Len(Sizes) /\ Sizes[k] = 0 /\ bytesRead = 0
             /\ buffer = Text(k)
      <2>1. /\ k \in 1 .. Len(Sizes) /\ size = Sizes[k] /\ size = 0
            /\ \A i \in 1 .. Len(buffer) : buffer[i] = <<"text", k, i>>
            BY <1>1, <1>2, <1>3, <1>7 DEF Filling
      <2>2. Len(buffer) = 0
            BY <1>2, <2>1 DEF Inv, Within
      <2>3. buffer = Text(k)
            BY <1>2, <2>1, <2>2, WholeText
      <2> QED BY <1>3, <2>1, <2>3
<1>8. Delivered' /\ Len(received') = k
      <2>1. \/ k <= Len(Sizes) /\ buffer = Text(k)
            \/ ~Intact(k, cut)
            \/ channel = "drained"
            BY <1>7
      <2> QED BY <1>1, <1>2, <1>3, <1>5, <1>6, <2>1, DeliveredOne
<1>9. Filling'
      BY <1>5 DEF Filling
<1>10. InStep'
      <2>1. SUFFICES ASSUME Intact(k + 1, cut), Reach > 0
                     PROVE  Line[1] = <<"size", k + 1, 1>>
            BY <1>5, <1>6, <1>8 DEF InStep, ToReceive
      <2>2. Intact(k, cut)
            BY <1>2, <2>1 DEF Intact
      <2>3. channel # "drained"
            BY <2>1, EmptySeq DEF Reach, ReachOf, Inv, Drained
      <2>4. Line[1] = ByteAt("text", k, 0 + 1)
            BY <1>1, <1>3, <1>7, <2>1, <2>2, <2>3 DEF InStep, ToReceive
      <2>5. ~(0 + 1 <= PartLen("text", k))
            BY <1>7, <2>2, <2>3 DEF PartLen
      <2> QED BY <1>7, <2>2, <2>3, <2>4, <2>5 DEF ByteAt, After
<1> QED BY <1>1, <1>6, <1>8, <1>9, <1>10 DEF Delivery

LEMMA RecvBodyErrorKeeps ==
    ASSUME Inv, ~os.shortHeaders, Delivery, RecvBodyError
    PROVE  Delivery'
<1>1. SenderAt /\ Delivered
      BY DEF Delivery
<1>2. /\ receiver = "body" /\ channel = "reset" /\ channel' = "drained"
      /\ wire' = wire /\ wire = <<>> /\ UNCHANGED senderVars
      BY DEF RecvBodyError
<1>3. SenderAt' /\ cut' = cut
      BY <1>1, <1>2 DEF SenderAt, senderVars
<1>4. Reach' = 0
      BY <1>2, EmptySeq DEF Reach, ReachOf
<1>5. InStep' /\ Ordered(Line', Reach', cut') /\ Filling'
      BY <1>2, <1>4 DEF InStep, Ordered, Filling
<1>6. Delivered'
      <2>1. \/ received' = received
            \/ receiver' = "header" /\ received' = Append(received, buffer)
            BY DEF RecvBodyError, Assemble
      <2>2. received \in Seq(Seq(Byte)) /\ buffer \in Seq(Byte)
            BY DEF Inv, TypeOK
      <2>3. \A i \in 1 .. Len(received) :
               (i <= Len(Sizes) /\ received[i] = Text(i)) \/ ~Intact(i, cut)
            BY <1>1, <1>2 DEF Delivered
      <2>4. CASE received' = received
            BY <1>3, <2>3, <2>4 DEF Delivered
      <2>5. CASE receiver' = "header" /\ received' = Append(received, buffer)
            <3> DEFINE r == received  s == Append(received, buffer)
            <3>1. /\ Len(r) \in Nat /\ Len(s) = Len(r) + 1
                  /\ \A i \in 1 .. Len(r) : s[i] = r[i]
                  BY <2>2, LenProperties, AppendProperties
            <3>2. ASSUME NEW i \in 1 .. Len(s)
                  PROVE  \/ i <= Len(Sizes) /\ s[i] = Text(i)
                         \/ ~Intact(i, cut)
                         \/ i = Len(s)
                  BY <2>3, <3>1
            <3> QED BY <1>2, <1>3, <2>5, <3>2 DEF Delivered
      <2> QED BY <2>1, <2>4, <2>5
<1> QED BY <1>3, <1>5, <1>6 DEF Delivery

-----------------------------------------------------------------------------

LEMMA InitDelivery == Init => Delivery
<1> SUFFICES ASSUME Init, ~os.shortHeaders PROVE Delivery
    BY DEF Delivery
<1>1. wire = <<>> /\ channel = "open" /\ received = <<>> /\ cut = 0
      BY DEF Init
<1>2. Len(wire) = 0 /\ Len(received) = 0 /\ Reach = 1
      BY <1>1, EmptySeq DEF Reach, ReachOf
<1>3. Line[1] = ToSend
      BY <1>1, <1>2 DEF Line, LineOf, Reach
<1>4. SenderAt
      BY DEF Init, SenderAt
<1>5. InStep
      <2>1. PartLen("size", 1) = HeaderLen /\ 0 + 1 <= HeaderLen /\ 0 + 1 = 1
            BY FramingAssumption DEF PartLen
      <2>2. ToSend = <<"size", 1, 1>>
            BY <2>1 DEF Init, ToSend, ByteAt
      <2>3. ToReceive = <<"size", 1, 1>>
            BY <1>2 DEF Init, ToReceive
      <2> QED BY <1>3, <2>2, <2>3 DEF InStep
<1>6. Ordered(Line, Reach, cut)
      BY <1>2 DEF Ordered
<1>7. Filling /\ Delivered
      BY <1>2 DEF Init, Filling, Delivered
<1> QED BY <1>4, <1>5, <1>6, <1>7 DEF Delivery

LEMMA DeliveryStep == Inv /\ Delivery /\ [Next]_vars => Delivery'
<1> SUFFICES ASSUME Inv, Delivery, [Next]_vars, ~os'.shortHeaders
             PROVE  Delivery'
    BY DEF Delivery
<1>1. CASE UNCHANGED vars
      BY <1>1 DEF vars, Delivery, SenderAt, Line, Reach, ToSend, InStep,
                  ToReceive, Filling, Delivered
<1>2. CASE Next
      <2>1. ~os.shortHeaders
            BY <1>2 DEF Next, Sender, Receiver, HeaderSent, BodySent, SendSome,
                        RecvHeader, RecvBody, RecvHeaderEof, RecvHeaderError,
                        RecvNothing, RecvBodyError, Close, Reset, senderVars,
                        receiverVars
      <2> QED BY <1>2, <2>1, SendSomeKeeps, ReturnKeeps, BreakKeeps,
                 RecvHeaderKeeps, LostKeeps, RecvBodyKeeps, RecvNothingKeeps,
                 RecvBodyErrorKeeps
              DEF Next, Sender, Receiver
<1> QED BY <1>1, <1>2

LEMMA FramingDelivery == Spec => []Delivery
BY InitInv, InvStep, InitDelivery, DeliveryStep, PTL DEF Spec

\* Every message receive_message returns is one that was sent, whole and in
\* its place, however send and recv cut up the texts, until a reset or until
\* send_message itself has cut a message.
THEOREM MessagesAreDelivered == Spec => []ReceivedIsSent
<1>1. Inv /\ Delivery => ReceivedIsSent
      <2> SUFFICES ASSUME Inv, Delivery, ~os.shortHeaders,
                          NEW i \in 1 .. Len(received)
                   PROVE  \/ i <= Len(Sizes) /\ received[i] = Text(i)
                          \/ i = Len(received) /\ channel = "drained"
                          \/ cut # 0 /\ cut <= i
          BY DEF ReceivedIsSent
      <2>1. cut \in Nat /\ Len(received) \in Nat
            BY LenProperties DEF Inv, TypeOK
      <2> QED BY <2>1 DEF Delivery, Delivered, Intact
<1> QED BY <1>1, FramingInvariance, FramingDelivery, PTL

\* Where neither send nor the arrival of a size is ever short, receive_message
\* loops for bytes that will never come only inside the message that the other
\* side was sending when it closed the connection.
THEOREM SpinMeansCutMessage == Spec => []SpinsOnlyOnCutMessage
<1>1. Inv /\ Delivery => SpinsOnlyOnCutMessage
      <2> DEFINE k == Len(received) + 1
      <2>1. SUFFICES ASSUME Inv, Delivery, ~os.shortSends, ~os.shortHeaders,
                            receiver = "body", Asked > 0, wire = <<>>,
                            channel = "closed"
                     PROVE  /\ message = k
                            /\ \/ sender = "header"
                               \/ /\ sender = "body"
                                  /\ totalSent + taken < Sizes[message]
            BY DEF SpinsOnlyOnCutMessage
      <2>2. SenderAt /\ InStep /\ Filling /\ cut = 0
            BY <2>1 DEF Delivery, SenderAt
      <2>3. Intact(k, cut)
            BY <2>2 DEF Intact
      <2>4. Reach = 1 /\ Line[1] = ToSend
            <3>1. Len(wire) = 0
                  BY <2>1, EmptySeq
            <3> QED BY <2>1, <3>1, LineNow DEF Inv
      <2>5. /\ size = Sizes[k] /\ size \in Nat /\ bytesRead \in Nat
            /\ Wrap \in Nat /\ k \in Nat /\ bytesRead < size
            BY <2>1, <2>2, <2>3, LenProperties, FramingAssumption
            DEF Filling, Asked, Inv, TypeOK
      <2>6. ToSend = <<"text", k, bytesRead + 1>>
            <3>1. ToSend = ByteAt("text", k, bytesRead + 1)
                  BY <2>1, <2>2, <2>3, <2>4 DEF InStep, ToReceive
            <3>2. bytesRead + 1 <= PartLen("text", k)
                  BY <2>5 DEF PartLen
            <3> QED BY <3>1, <3>2 DEF ByteAt
      <2>7. CASE sender = "header"
            BY <2>6, <2>7 DEF ToSend, ByteAt, After
      <2>8. CASE sender = "body"
            <3>1. ToSend = ByteAt("text", message, totalSent + taken + 1)
                  BY <2>8 DEF ToSend
            <3>2. totalSent + taken + 1 <= PartLen("text", message)
                  BY <2>6, <3>1 DEF ByteAt, After
            <3>3. message = k
                  BY <2>6, <3>1, <3>2 DEF ByteAt
            <3>4. totalSent \in Nat /\ taken \in Nat /\ Sizes[message] \in Nat
                  BY <2>1, <2>8, SizesType DEF Inv, TypeOK, HasMessage
            <3> QED BY <2>8, <3>2, <3>3, <3>4 DEF PartLen
      <2>9. CASE sender = "done"
            BY <2>6, <2>9 DEF ToSend
      <2> QED BY <2>1, <2>7, <2>8, <2>9 DEF Inv, TypeOK
<1> QED BY <1>1, FramingInvariance, FramingDelivery, PTL

-----------------------------------------------------------------------------
(* The connection never stalls *)

\* What the two sides find when they are scheduled: room on the connection,
\* the end of what send was asked for, a size, or bytes of the text.
SenderRuns ==
    /\ sender # "done"
    /\ \/ taken > 0 /\ taken = Len(Request)
       \/ /\ taken < Len(Request)
          /\ Len(wire) < Capacity
          /\ sender = "header" => Len(wire) + HeaderLen <= Capacity

ReceiverRuns ==
    \/ receiver = "header" /\ HeaderLen <= Len(wire)
    \/ receiver = "body" /\ Asked > 0 /\ wire # <<>>
    \/ receiver = "body" /\ Asked = 0

\* As long as the connection lasts and no message was cut, send and recv do not
\* wait for each other: one of them can go on, or every message was received.
GoesOn ==
    ~os.shortHeaders /\ cut = 0 /\ channel = "open" =>
       \/ SenderRuns \/ ReceiverRuns
       \/ sender = "done" /\ Len(received) = Len(Sizes)

\* What this takes of the program counters.
AtWork ==
    /\ sender = "body" => dataSize > 0
    /\ sender = "done" => message = Len(Sizes) + 1
    /\ channel = "open" /\ cut = 0 /\ ~os.shortHeaders =>
          receiver \in {"header", "body"}

LEMMA AtWorkStep == Inv /\ Delivery /\ AtWork /\ [Next]_vars => AtWork'
<1> SUFFICES ASSUME Inv, Delivery, AtWork, [Next]_vars PROVE AtWork'
    OBVIOUS
<1> USE DEF AtWork
<1>1. CASE UNCHANGED vars
      BY <1>1 DEF vars
<1>2. ASSUME NEW n \in 1 .. Capacity, SendSome(n) PROVE AtWork'
      BY <1>2 DEF SendSome
<1>3. ASSUME sender # "done", SendNext
      PROVE  sender' # "body" /\ (sender' = "done" => message' = Len(Sizes) + 1)
      <2>1. CASE sender' = "done"
            <3>1. message \in 1 .. Len(Sizes) /\ Len(Sizes) \in Nat
                  BY <1>3, LenProperties, FramingAssumption
                  DEF Inv, HasMessage
            <3>2. ~(message + 1 <= Len(Sizes)) /\ message' = message + 1
                  BY <1>3, <2>1 DEF SendNext
            <3> QED BY <2>1, <3>1, <3>2
      <2> QED BY <1>3, <2>1 DEF SendNext
<1>10. message >= 1
       BY FramingAssumption, LenProperties DEF Inv, TypeOK
<1>4. CASE HeaderSent
      BY <1>3, <1>4, <1>10 DEF HeaderSent, CutIf, receiverVars
<1>5. CASE BodySent
      <2>1. CASE SendNext
            BY <1>3, <1>5, <1>10, <2>1 DEF BodySent, CutIf, receiverVars
      <2>2. CASE ~SendNext
            <3>1. /\ totalSent + taken < dataSize - taken
                  /\ dataSize' = dataSize - taken /\ sender' = sender
                  /\ sender = "body" /\ channel' = channel
                  /\ receiver' = receiver /\ os' = os /\ cut' = cut
                  BY <1>5, <2>2 DEF BodySent, receiverVars
            <3>2. totalSent \in Nat /\ taken \in Nat /\ dataSize \in Nat
                  BY DEF Inv, TypeOK
            <3> QED BY <3>1, <3>2
      <2> QED BY <2>1, <2>2
<1>6. CASE Close \/ Reset
      BY <1>6 DEF Close, Reset, senderVars
<1>7. ASSUME NEW n \in 1 .. Capacity, RecvHeader(n) \/ RecvBody(n)
      PROVE  AtWork'
      <2>1. UNCHANGED <<channel, sender, message, dataSize, os, cut>>
            BY <1>7 DEF RecvHeader, RecvBody, senderVars
      <2>2. CASE RecvBody(n)
            BY <2>1, <2>2 DEF RecvBody, Assemble
      <2>3. CASE RecvHeader(n) /\ ~(cut = 0 /\ ~os.shortHeaders)
            BY <2>1, <2>3
      <2>4. CASE RecvHeader(n) /\ cut = 0 /\ ~os.shortHeaders
            <3>1. \E k \in 1 .. Len(Sizes) : size' = Sizes[k]
                  BY <2>4, HeaderIsRead DEF Intact
            <3>2. receiver' \in {"header", "body"}
                  BY <2>4, <3>1 DEF RecvHeader, StartBody
            <3> QED BY <2>1, <3>2
      <2> QED BY <1>7, <2>2, <2>3, <2>4
<1>8. CASE RecvHeaderEof \/ RecvHeaderError
      BY <1>8 DEF RecvHeaderEof, RecvHeaderError, StartBody, senderVars
<1>9. CASE RecvNothing \/ RecvBodyError
      BY <1>9 DEF RecvNothing, RecvBodyError, Assemble, senderVars
<1> QED BY <1>1, <1>2, <1>4, <1>5, <1>6, <1>7, <1>8, <1>9
        DEF Next, Sender, Receiver

\* A size that has begun to arrive has arrived.
LEMMA SizesArriveWhole ==
    ASSUME Inv, Delivery, AtWork, ~os.shortHeaders, cut = 0, channel = "open",
           receiver = "header", wire # <<>>
    PROVE  HeaderLen <= Len(wire)
<1> DEFINE k == Len(received) + 1
           f == Line
           n == Len(wire) + 1
<1>1. SenderAt /\ Ordered(f, Reach, 0) /\ InStep
      BY DEF Delivery
<1>2. /\ Len(wire) \in Nat \ {0} /\ Reach = n /\ n \in Nat
      /\ f[n] = ToSend /\ f[1] = wire[1] /\ wire[1] \in Byte
      <2>1. Len(wire) \in Nat \ {0}
            BY LenProperties, EmptySeq DEF Inv, TypeOK
      <2>2. 1 \in 1 .. Len(wire)
            BY <2>1
      <2> QED BY <2>1, <2>2, LineNow DEF Inv
<1>3. Intact(k, 0) /\ HeaderLen \in Nat \ {0} /\ PartLen("size", k) = HeaderLen
      BY FramingAssumption DEF Intact, PartLen
<1>4. f[1] = <<"size", k, 1>>
      BY <1>1, <1>2, <1>3 DEF InStep, ToReceive
<1>5. k \in 1 .. Len(Sizes)
      BY <1>2, <1>4 DEF Byte
<1>6. f[1] = ByteAt("size", k, 1)
      BY <1>3, <1>4 DEF ByteAt
<1>7. SUFFICES ASSUME Len(wire) < HeaderLen PROVE FALSE
      BY <1>2, <1>3
<1>8. f[n] = ByteAt("size", k, 1 + (n - 1))
      <2>1. /\ n \in 1 .. Reach /\ 1 <= PartLen("size", k)
            /\ 1 + (n - 1) <= PartLen("size", k) + 1
            BY <1>2, <1>3, <1>7
      <2>2. Ordered(f, Reach, 0) /\ Reach \in Nat
            BY <1>1, <1>2
      <2> HIDE DEF f, n, k
      <2> QED BY <1>3, <1>5, <1>6, <2>1, <2>2, FrontOfLine
<1>9. ToSend = <<"size", k, n>> /\ n > 1 /\ n <= HeaderLen
      BY <1>2, <1>3, <1>7, <1>8 DEF ByteAt
<1>10. CASE sender = "header"
       <2>1. taken \in {0, HeaderLen} /\ ToSend = ByteAt("size", message, taken + 1)
             BY <1>1, <1>10 DEF SenderAt, ToSend
       <2>2. CASE taken = 0
             BY <1>3, <1>9, <2>1, <2>2 DEF ByteAt, PartLen
       <2>3. CASE taken = HeaderLen
             <3>1. ToSend = After("size", message)
                   BY <1>3, <2>1, <2>3 DEF ByteAt, PartLen
             <3> QED BY <1>9, <3>1 DEF After
       <2> QED BY <2>1, <2>2, <2>3
<1>11. CASE sender = "body"
       <2>1. \/ ToSend = <<"text", message, totalSent + taken + 1>>
             \/ ToSend = After("text", message)
             BY <1>11 DEF ToSend, ByteAt
       <2> QED BY <1>9, <2>1 DEF After
<1>12. CASE sender = "done"
       BY <1>9, <1>12 DEF ToSend
<1> QED BY <1>10, <1>11, <1>12 DEF Inv, TypeOK

\* What recv is asked for is never less than nothing.
LEMMA AskedType ==
    ASSUME Inv, Delivery, ~os.shortHeaders, cut = 0, channel = "open",
           receiver = "body"
    PROVE  Asked \in Nat
<1>1. bytesRead \in Nat /\ size \in Nat /\ Len(buffer) \in Nat
      BY LenProperties, FramingAssumption DEF Inv, TypeOK
<1>2. bytesRead = Len(buffer) /\ Len(buffer) <= size
      BY DEF Inv, InPlace, Within
<1> QED BY <1>1, <1>2 DEF Asked

\* send and recv over a connection that lasts never wait for each other, even
\* where the connection holds less than a message: the size of a message is
\* enough.
THEOREM ConnectionNeverStalls == Spec => []GoesOn
<1>1. Init => AtWork
      BY EmptySeq, LenProperties, FramingAssumption DEF Init, AtWork
<1>2. Inv /\ Delivery /\ AtWork => GoesOn
      <2> SUFFICES ASSUME Inv, Delivery, AtWork, ~os.shortHeaders, cut = 0,
                          channel = "open", ~ReceiverRuns, ~SenderRuns
                   PROVE  sender = "done" /\ Len(received) = Len(Sizes)
          BY DEF GoesOn
      <2>1. SenderAt /\ InStep /\ Filling
            BY DEF Delivery
      <2>2. receiver \in {"header", "body"}
            BY DEF AtWork
      <2>3. receiver = "body" => Asked > 0
            BY AskedType DEF ReceiverRuns
      <2>4. wire = <<>>
            BY <2>2, <2>3, SizesArriveWhole DEF ReceiverRuns
      <2>5. Len(wire) = 0 /\ Capacity \in Nat /\ HeaderLen \in Nat \ {0}
               /\ HeaderLen <= Capacity
            BY <2>4, EmptySeq, FramingAssumption
      <2>6. sender = "done"
            <3> SUFFICES ASSUME sender \in {"header", "body"} PROVE FALSE
                BY DEF Inv, TypeOK
            <3>1. /\ message \in 1 .. Len(Sizes)
                  /\ Len(Request) = PartLen(Part, message) - Before
                  BY <2>1, SendingPart
            <3>2. taken \in Nat /\ dataSize \in Nat /\ totalSent \in Nat
                  BY DEF Inv, TypeOK
            <3>3. Len(Request) \in Nat \ {0} /\ taken <= Len(Request)
                  <4>1. CASE sender = "header"
                        BY <2>1, <2>5, <3>1, <4>1
                        DEF SenderAt, PartLen, Part, Before
                  <4>2. CASE sender = "body"
                        BY <2>1, <3>1, <3>2, <4>2
                        DEF SenderAt, AtWork, PartLen, Part, Before
                  <4> QED BY <4>1, <4>2
            <3> QED BY <2>5, <3>2, <3>3 DEF SenderRuns
      <2>7. Reach = 1 /\ Line[1] = ToSend /\ ToSend = <<"size", message, 1>>
            BY <2>5, <2>6, LineNow DEF Inv, ToSend
      <2>8. Intact(Len(received) + 1, cut) /\ ToReceive = ToSend
            BY <2>2, <2>7 DEF InStep, Intact, Delivery
      <2>9. receiver = "header"
            <3> SUFFICES ASSUME receiver = "body" PROVE FALSE
                BY <2>2
            <3>1. /\ size = Sizes[Len(received) + 1] /\ bytesRead < size
                  /\ bytesRead \in Nat /\ size \in Nat
                  BY <2>1, <2>3, <2>8, FramingAssumption
                  DEF Filling, Asked, Inv, TypeOK
            <3>2. bytesRead + 1 <= PartLen("text", Len(received) + 1)
                  BY <3>1 DEF PartLen
            <3>3. ToReceive = <<"text", Len(received) + 1, bytesRead + 1>>
                  BY <3>2 DEF ToReceive, ByteAt
            <3> QED BY <2>7, <2>8, <3>3
      <2>10. Len(received) + 1 = message
             BY <2>7, <2>8, <2>9 DEF ToReceive
      <2> QED BY <2>6, <2>10, LenProperties, FramingAssumption
              DEF AtWork, Inv, TypeOK
<1> QED BY <1>1, <1>2, AtWorkStep, FramingInvariance, FramingDelivery, PTL
        DEF Spec
=============================================================================
