-------------------------------- MODULE Wire --------------------------------
(***************************************************************************)
(* wire.rs, byte for byte: a peer writes its handshake and then messages,  *)
(* each behind its length; the other one cuts the stream and reads them.   *)
(* A stranger may write any frame.  When bytes arrive, how they are        *)
(* grouped, and which frames are too long, is PeerStream's subject.        *)
(***************************************************************************)
EXTENDS Naturals, SequencesExt

CONSTANTS
  ByteBase,    \* 256
  WordLen,     \* bytes of a u32, 4
  HashLen,     \* bytes of an info hash or a peer id, 20
  Protocol,    \* PROTOCOL
  Handshakes,  \* what peers introduce themselves with
  Messages,    \* what they say
  Frames,      \* what a stranger puts behind a length
  MaxSaid      \* bound: messages said

VARIABLES
  greeted,  \* the bytes of the handshake, what was read in them, and the refusal
  said,     \* the messages written
  stream,   \* the bytes written and not read yet
  frame,    \* the last frame that was cut from it
  heard     \* the messages read, the last of them may be an error

vars == <<greeted, said, stream, frame, heard>>

HalfLen == WordLen \div 2
ReservedLen == 2
HandshakeLen == 1 + Len(Protocol) + ReservedLen + HashLen + HashLen

Id ==
  [Choke |-> 0, Unchoke |-> 1, Interested |-> 2, NotInterested |-> 3, Have |-> 4,
   Bitfield |-> 5, Request |-> 6, Piece |-> 7, Cancel |-> 8, Port |-> 9, Extended |-> 20]

\* The widths of the numbers that begin the payload, and who has more behind.
Fields ==
  [kind \in DOMAIN Id |->
     CASE kind = "Have" -> <<WordLen>>
       [] kind \in {"Request", "Cancel"} -> <<WordLen, WordLen, WordLen>>
       [] kind = "Piece" -> <<WordLen, WordLen>>
       [] kind = "Port" -> <<HalfLen>>
       [] kind = "Extended" -> <<1>>
       [] OTHER -> <<>>]

HasTail == {"Bitfield", "Piece", "Extended"}

Message(kind, fields, tail) == [kind |-> kind, fields |-> fields, tail |-> tail]
Refusal(error) == Message(error, <<>>, <<>>)
KeepAlive == Message("KeepAlive", <<>>, <<>>)

\* One more byte of a number, before those that are there.
Shift(number, k) ==
  [left |-> number.left \div ByteBase, bytes |-> <<number.left % ByteBase>> \o number.bytes]

BigEndian(n, width) ==
  FoldLeft(Shift, [left |-> n, bytes |-> <<>>], [k \in 1..width |-> k]).bytes

Value(bytes) == FoldLeft(LAMBDA n, b : n * ByteBase + b, 0, bytes)

\* The numbers of a width.
Unsigned(width) == {Value(bytes) : bytes \in [1..width -> 0..ByteBase - 1]}

\* Mutant of Declared: the block's header is forgotten.
DeclaredShort(m) == 1 + Len(m.tail)

\* The length that is written before a message.
Declared(m) ==
  CASE m.kind = "KeepAlive" -> 0
    [] m.kind = "Have" -> 1 + WordLen
    [] m.kind \in {"Request", "Cancel"} -> 1 + 3 * WordLen
    [] m.kind = "Piece" -> 1 + 2 * WordLen + Len(m.tail)
    [] m.kind = "Port" -> 1 + HalfLen
    [] m.kind = "Extended" -> 2 + Len(m.tail)
    [] OTHER -> 1 + Len(m.tail)

\* Message::encode, what follows the length
Encode(m) ==
  IF m = KeepAlive THEN <<>>
  ELSE <<Id[m.kind]>>
         \o FlattenSeq([k \in DOMAIN m.fields |-> BigEndian(m.fields[k], Fields[m.kind][k])])
         \o m.tail

Starts(kind, k) == FoldLeft(+, 0, SubSeq(Fields[kind], 1, k - 1))

\* Of a known kind: the numbers, then what is left if the kind has a use for it.
DecodePayload(kind, p) ==
  LET header == Starts(kind, Len(Fields[kind]) + 1)
      field(k) == Value(SubSeq(p, Starts(kind, k) + 1, Starts(kind, k + 1)))
  IN IF Len(p) < header THEN Refusal("BadPayload")
     ELSE Message(kind, [k \in DOMAIN Fields[kind] |-> field(k)],
                  IF kind \in HasTail THEN SubSeq(p, header + 1, Len(p)) ELSE <<>>)

\* Message::decode
Decode(f) ==
  IF f = <<>> THEN KeepAlive
  ELSE IF \A kind \in DOMAIN Id : Id[kind] # f[1] THEN Refusal("BadMsgId")
  ELSE DecodePayload(CHOOSE kind \in DOMAIN Id : Id[kind] = f[1], Tail(f))

EncodeHandshake(h) ==
  <<Len(Protocol)>> \o Protocol \o h.reserved \o h.infoHash \o h.peerId

\* The handshake at the beginning of a buffer, if there is one.
DecodeHandshake(buf) ==
  LET at == 1 + Len(Protocol)
      part(from, len) == SubSeq(buf, at + from + 1, at + from + len)
  IN {h \in {[reserved |-> part(0, ReservedLen), infoHash |-> part(ReservedLen, HashLen),
              peerId |-> part(ReservedLen + HashLen, HashLen)]} :
        /\ Len(buf) >= HandshakeLen
        /\ SubSeq(buf, 1, at) = <<Len(Protocol)>> \o Protocol}

\* The bytes of h, or with one of them changed.
Greeting(h, k) ==
  LET bytes == EncodeHandshake(h)
  IN IF k = 0 THEN bytes ELSE [bytes EXCEPT ![k] = (@ + 1) % ByteBase]

\* A peer that follows the protocol, or one that begins with anything.
Init ==
  /\ said = <<>> /\ frame = <<>> /\ heard = <<>>
  /\ \E h \in Handshakes, k \in 0..HandshakeLen :
       /\ greeted = [written |-> Greeting(h, k), read |-> {}, refused |-> FALSE]
       /\ \/ stream = Greeting(h, k)
          \/ k = 0 /\ \E f \in Frames : stream = Greeting(h, k) \o BigEndian(Len(f), WordLen) \o f

FollowsProtocol == Len(stream) = HandshakeLen \/ said # <<>>

Say(m) ==
  /\ Len(said) < MaxSaid /\ FollowsProtocol
  /\ greeted.read = {} /\ ~greeted.refused
  /\ said' = Append(said, m)
  /\ stream' = stream \o BigEndian(Declared(m), WordLen) \o Encode(m)
  /\ UNCHANGED <<greeted, frame, heard>>

Greet ==
  /\ greeted.read = {} /\ ~greeted.refused
  /\ LET read == DecodeHandshake(SubSeq(stream, 1, HandshakeLen))
     IN greeted' = [greeted EXCEPT !.read = read, !.refused = (read = {})]
  /\ stream' = SubSeq(stream, HandshakeLen + 1, Len(stream))
  /\ UNCHANGED <<said, frame, heard>>

FrameEnd == WordLen + Value(SubSeq(stream, 1, WordLen))
Complete == Len(stream) >= WordLen /\ Len(stream) >= FrameEnd

\* MessageDecoder::pop, where a frame is complete: one that no message has the
\* id of is skipped.
Pop ==
  /\ greeted.read # {} /\ Complete
  /\ LET f == SubSeq(stream, WordLen + 1, FrameEnd)
     IN /\ frame' = f
        /\ stream' = SubSeq(stream, FrameEnd + 1, Len(stream))
        /\ heard' = IF Decode(f) = Refusal("BadMsgId") THEN heard
                    ELSE Append(heard, Decode(f))
  /\ UNCHANGED <<greeted, said>>

Rests == greeted.refused \/ (greeted.read # {} /\ ~Complete)

Waits == Rests /\ UNCHANGED vars

Next == (\E m \in Messages : Say(m)) \/ Greet \/ Pop \/ Waits

(***************************************************************************)
(* Properties.                                                             *)
(***************************************************************************)

\* What was read last, written again.
Echo == IF heard = <<>> THEN <<>> ELSE Encode(Last(heard))

\* What a peer says is heard: its handshake and the same messages in the same
\* order, none of them cut short by the length written before another.  Of a
\* stranger's frame, as much is heard as a message of its kind can say, and it
\* is refused only where that much is not there (wire.rs:196-198).
SaidIsHeard ==
  /\ \A h \in greeted.read : EncodeHandshake(h) = greeted.written
  /\ greeted.refused => \A h \in Handshakes : EncodeHandshake(h) # greeted.written
  /\ said # <<>> => IsPrefix(heard, said)
  /\ said # <<>> /\ greeted.read # {} /\ ~Complete => heard = said
  /\ heard # <<>> =>
       IF Last(heard) = Refusal("BadPayload")
       THEN \A m \in Messages : m # KeepAlive /\ Id[m.kind] = frame[1] => Len(Encode(m)) > Len(frame)
       ELSE IsPrefix(Echo, frame) /\ (Last(heard).kind \in HasTail => Echo = frame)

=============================================================================
