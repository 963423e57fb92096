------------------------------- MODULE Codec -------------------------------
(***************************************************************************)
(* Two RpcCodecs and the bytes between them (packages/protocol/src:        *)
(* codec.ts, packet.ts, buffer-queue.ts).  The sender encodes messages and *)
(* writes the frames to a socket; TCP hands their bytes to the receiver in *)
(* order, in chunks cut anywhere; push() puts a chunk into the BufferQueue *)
(* and takes frames out of it, one step of its loop per action.  A codec   *)
(* whose push() has thrown gets no more chunks: the server destroys the    *)
(* socket, and in a client nobody catches the exception.                   *)
(*                                                                         *)
(* A byte is its position in the stream.  Lengths are scaled down, and the *)
(* lengths of a message, serialized and compressed, are constants.         *)
(***************************************************************************)
EXTENDS Naturals, FiniteSets, SequencesExt, Serializers

CONSTANTS
  Messages,         \* messages the sender may be asked to send
  Size,             \* the serialized length of each message
  Zipped,           \* the length of its compressed form, longer for some
  Options,          \* RpcCodecOptions a codec may be made with, and its PROTOCOL_VERSION
  Off,              \* an option that is not given
  HeaderLength,     \* HEADER_LENGTH
  MaxPacketLength,  \* MAX_PACKET_LENGTH
  MaxFrames         \* bound: frames sent

ASSUME LengthsAssumption ==
  /\ Size \in [Messages -> Nat \ {0}] /\ Zipped \in [Messages -> Nat \ {0}]
  /\ {HeaderLength, MaxPacketLength} \subseteq Nat \ {0}
ASSUME MessagesAssumption ==
  \A m \in Messages : m.type \in MessageTypes /\ DOMAIN m = Fields(m.type)
ASSUME OptionsAssumption ==
  \A o \in Options :
    /\ o.serializer \in SerializerNames /\ o.serializers \subseteq SerializerNames
    /\ {o.thresholdBytes, o.maxBodyLength, o.maxDecompressedBodyLength} \subseteq Nat \cup {Off}
    /\ o.version \in Nat

VARIABLES
  sender,       \* the options of the sending codec
  receiver,     \* the options of the receiving codec
  frames,       \* the frames written, in order
  arrived,      \* bytes of them that have arrived
  chunks,       \* BufferQueue.chunks
  totalLength,  \* BufferQueue.totalLength
  push,         \* push() of the receiver: "returned", "running" or "threw"
  messages,     \* what push() has decoded so far
  received,     \* all that push() has returned
  handled       \* history: the bytes that had arrived when it last returned

codecs == <<sender, receiver>>
queue == <<chunks, totalLength>>
vars == <<codecs, frames, arrived, queue, push, messages, received, handled>>

Init ==
  /\ sender \in Options /\ receiver \in Options
  /\ frames = <<>> /\ arrived = 0
  /\ chunks = <<>> /\ totalLength = 0
  /\ push = "returned" /\ messages = <<>> /\ received = <<>> /\ handled = 0

-----------------------------------------------------------------------------
(* The options, as the constructor takes them.  With a limit that is not   *)
(* positive and finite it throws, and there is no codec; a fraction is     *)
(* cut off.                                                                *)

NormalizeLimit(value, fallback) == IF value = Off THEN fallback ELSE value
MaxBody(o) == NormalizeLimit(o.maxBodyLength, MaxPacketLength)
MaxDecompressed(o) == NormalizeLimit(o.maxDecompressedBodyLength, MaxBody(o))
Registered(o) == {o.serializer} \cup o.serializers
Compresses(o) == o.thresholdBytes # Off

-----------------------------------------------------------------------------
(* Plausible slips, one per helper they would replace.                     *)

WaitsForMore(f) == totalLength > HeaderLength + f.bodyLength
DropsTheChunk(n) == Tail(chunks)
LimitsTheBodySent(m) == IF Compresses(sender) /\ Size[m] >= sender.thresholdBytes
                        THEN Zipped[m] <= MaxBody(sender)
                        ELSE Size[m] <= MaxBody(sender)

-----------------------------------------------------------------------------
(* encode().                                                               *)

ShouldCompress(m) == Compresses(sender) /\ Size[m] >= sender.thresholdBytes
BodyLength(m) == IF ShouldCompress(m) THEN Zipped[m] ELSE Size[m]
WithinLimit(m) == Size[m] <= MaxBody(sender)

\* The end of a frame in the stream, and of the stream.
End(f) == f.at + HeaderLength + f.bodyLength
Sent == IF frames = <<>> THEN 0 ELSE End(Last(frames))

\* encodePacket: the frame of m when it begins at a position of the stream.
Packet(at, m) ==
  [at |-> at, version |-> sender.version, bodyLength |-> BodyLength(m),
   compressed |-> ShouldCompress(m), serializer |-> sender.serializer, messageType |-> m.type,
   body |-> Serialize(sender.serializer, m), of |-> m]

\* A message is encoded and its frame written.  (A message that cannot be
\* serialized, is too long, or has too long a packet makes encode() throw.)
Encode(m) ==
  /\ push # "running" /\ Len(frames) < MaxFrames
  /\ Serializable(sender.serializer, m)
  /\ WithinLimit(m)
  /\ BodyLength(m) <= MaxPacketLength
  /\ frames' = Append(frames, Packet(Sent, m))
  /\ UNCHANGED <<codecs, arrived, queue, push, messages, received, handled>>

-----------------------------------------------------------------------------
(* The BufferQueue.                                                        *)

\* The n bytes after position from.
Positions(from, n) == [i \in 1 .. n |-> from + i]

TotalOf(q) == Len(FlattenSeq(q))

\* copy(length, false).
Peek(n) == SubSeq(FlattenSeq(chunks), 1, n)

\* The chunks after copy(n, true): those used up are shifted out and the next one
\* is cut.
ChunksAfter(n) ==
  LET used == CHOOSE i \in 0 .. Len(chunks) :
                /\ TotalOf(SubSeq(chunks, 1, i)) <= n
                /\ i < Len(chunks) => TotalOf(SubSeq(chunks, 1, i + 1)) > n
      rest == SubSeq(chunks, used + 1, Len(chunks))
      cut == n - TotalOf(SubSeq(chunks, 1, used))
  IN IF cut = 0 THEN rest ELSE <<SubSeq(rest[1], cut + 1, Len(rest[1]))>> \o Tail(rest)

-----------------------------------------------------------------------------
(* push().                                                                 *)

\* The next n bytes arrive.
Push(n) ==
  /\ push = "returned"
  /\ arrived + n <= Sent
  /\ arrived' = arrived + n
  /\ chunks' = Append(chunks, Positions(arrived, n))
  /\ totalLength' = totalLength + n
  /\ push' = "running"
  /\ UNCHANGED <<codecs, frames, messages, received, handled>>

\* decodePacketHeader: the frame whose header these bytes are.  Any other bytes have
\* no magic number where it should be.
HeadersAt(bytes) ==
  {f \in Range(frames) : /\ bytes = Positions(f.at, HeaderLength)
                         /\ f.version = receiver.version}

Whole(f) == totalLength >= HeaderLength + f.bodyLength

\* The length of the payload, decompressed if it is compressed.
PayloadLength(f) == IF f.compressed THEN Size[f.of] ELSE f.bodyLength

Acceptable(f) ==
  /\ f.bodyLength <= MaxBody(receiver)
  /\ f.serializer \in Registered(receiver)
  /\ f.compressed => Compresses(receiver)
  /\ PayloadLength(f) <= MaxDecompressed(receiver)
  /\ Deserialize(f.serializer, f.body).type = f.messageType

\* A whole frame is taken out of the queue and decoded, or makes push() throw.
DecodeFrame ==
  /\ push = "running" /\ totalLength >= HeaderLength
  /\ \E f \in HeadersAt(Peek(HeaderLength)) :
       /\ Whole(f)
       /\ chunks' = ChunksAfter(HeaderLength + f.bodyLength)
       /\ totalLength' = totalLength - (HeaderLength + f.bodyLength)
       /\ IF Acceptable(f)
          THEN /\ messages' = Append(messages, Deserialize(f.serializer, f.body))
               /\ UNCHANGED push
          ELSE push' = "threw" /\ messages' = <<>>
  /\ UNCHANGED <<codecs, frames, arrived, received, handled>>

\* decodePacketHeader throws: the bytes stay in the queue.
BadHeader ==
  /\ push = "running" /\ totalLength >= HeaderLength
  /\ HeadersAt(Peek(HeaderLength)) = {}
  /\ push' = "threw" /\ messages' = <<>>
  /\ UNCHANGED <<codecs, frames, arrived, queue, received, handled>>

\* No whole frame is left: push() returns what it has decoded.
Return ==
  /\ push = "running"
  /\ \/ totalLength < HeaderLength
     \/ totalLength >= HeaderLength /\ \E f \in HeadersAt(Peek(HeaderLength)) : ~Whole(f)
  /\ push' = "returned"
  /\ received' = received \o messages
  /\ messages' = <<>>
  /\ handled' = arrived
  /\ UNCHANGED <<codecs, frames, arrived, queue>>

Next ==
  \/ \E m \in Messages : Encode(m)
  \/ \E n \in 1 .. Sent - arrived : Push(n)
  \/ DecodeFrame \/ BadHeader \/ Return

Spec == Init /\ [][Next]_vars

-----------------------------------------------------------------------------
TypeOK ==
  /\ {sender, receiver} \subseteq Options
  /\ \A f \in Range(frames) : f.of \in Messages /\ f.bodyLength \in 1 .. MaxPacketLength
  /\ arrived \in 0 .. Sent /\ handled \in 0 .. arrived
  /\ \A chunk \in Range(chunks) : chunk # <<>> /\ Range(chunk) \subseteq 1 .. arrived
  /\ totalLength = TotalOf(chunks)
  /\ push \in {"returned", "running", "threw"}

\* What a receiver is to understand of m, whatever the serializer: an undefined
\* param is null, and metadata without entries is no metadata.
Meaning(m) ==
  [f \in DOMAIN m |->
     CASE f = "params" -> [i \in DOMAIN m.params |->
                             IF m.params[i] = Undefined THEN Null ELSE m.params[i]]
       [] f = "metadata" -> IF m.metadata = Empty THEN Undefined ELSE m.metadata
       [] OTHER -> m[f]]

\* However TCP cuts and joins the bytes, push() has returned exactly the messages
\* of the frames that were complete when it last returned, in order, each meaning
\* what was sent: none is held back, and an exception loses those of its own chunk
\* only.
InOrderWhole ==
  /\ Len(received) <= Len(frames)
  /\ \A i \in DOMAIN frames : i \in DOMAIN received <=> End(frames[i]) <= handled
  /\ \A i \in DOMAIN received : Meaning(received[i]) = Meaning(frames[i].of)

\* Peers with the same options accept what the other may send, as long as the limit
\* after decompression is not the smaller one, except for a frame that compression
\* has made longer than maxBodyLength: encode() limits the length before it.
SameOptionsAgree ==
  (push = "threw" /\ sender = receiver /\ MaxDecompressed(sender) >= MaxBody(sender))
    => \E f \in Range(frames) : f.compressed /\ f.bodyLength > MaxBody(sender) /\ f.bodyLength > Size[f.of]

=============================================================================
