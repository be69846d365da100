----------------------------- MODULE UtMetadata -----------------------------
(***************************************************************************)
(* The messages of the ut_metadata extension (extension.rs): a bencoded    *)
(* header and, in Data, the bytes of a piece right behind it, which are    *)
(* found by where the header's value ends (Bencode).  A dict is a list     *)
(* here, and its keys are left out.                                        *)
(***************************************************************************)
EXTENDS Bencode

CONSTANT MaxMessage  \* MAX_MESSAGE_SIZE

MsgType == [Request |-> 0, Data |-> 1, Reject |-> 2]

Digits(n) ==
  LET digit(d) == CHOOSE b \in DOMAIN Digit : Digit[b] = d
  IN IF n < Base THEN <<digit(n)>> ELSE <<digit(n \div Base), digit(n % Base)>>

Integer(n) == <<"i">> \o Digits(n) \o <<"e">>

\* serde_bencode::to_bytes of a UtMetadataHeader
HeaderBytes(h) ==
  <<"l">> \o Integer(h.msg_type) \o Integer(h.piece)
    \o FlattenSeq(SetToSeq({Integer(n) : n \in h.total_size})) \o <<"e">>

Header == [msg_type : 0..Base, piece : 0..2, total_size : {{}, {0}, {2}, {Base}}]

\* UtMetadataMessage::encode: Request and Reject say nothing of the size, and
\* data follows in Data alone.
HeaderOf(m) ==
  [msg_type |-> MsgType[m.type], piece |-> m.piece,
   total_size |-> IF m.type = "Data" THEN {m.total_size} ELSE {}]

Encode(m) == HeaderBytes(HeaderOf(m)) \o m.data

\* decode_bounded, of a buffer that ends at k: whether serde gets to see it.
DecodeBounded(k, maxLen) == k <= maxLen /\ state = "some" /\ i = k

\* UtMetadataMessage::decode, once value_end has answered.
Decode ==
  IF ~DecodeBounded(i, MaxMessage) THEN {}
  ELSE UNION {
    {[type |-> type, piece |-> h.piece,
      total_size |-> IF type = "Data" /\ h.total_size # {} THEN CHOOSE n \in h.total_size : TRUE ELSE 0,
      data |-> IF type = "Data" THEN SubSeq(buf, i + 1, Len(buf)) ELSE <<>>] :
        type \in {t \in DOMAIN MsgType : MsgType[t] = h.msg_type}} :
    h \in {g \in Header : HeaderBytes(g) = SubSeq(buf, 1, i)}}

\* A buffer that begins with a header.
UtInit(data) ==
  /\ \E h \in Header, d \in data : buf = HeaderBytes(h) \o d
  /\ i = 0 /\ depth = 0 /\ state = "value"

(***************************************************************************)
(* Properties.                                                             *)
(***************************************************************************)

\* A message means what it was made of, whatever a piece's bytes look like: the
\* data begins where the header ends, and a header is only read if it is within
\* the limit.  What serde is given to read whole, as a handshake or an info
\* dict, has nothing behind its value (extension.rs:57-60).
UtIsUnderstood ==
  state \in {"some", "none"} =>
    /\ \A h \in Header :
         LET text == HeaderBytes(h)
         IN IsPrefix(text, buf) =>
              /\ h.msg_type < Base /\ Len(text) <= MaxMessage <=> Decode # {}
              /\ \A m \in Decode :
                   /\ m.piece = h.piece
                   /\ m.type = "Data" => text \o m.data = buf
                   /\ h = HeaderOf(m) /\ m.data = <<>> => Encode(m) = text
    /\ \A k \in 1..Len(buf) : DecodeBounded(k, Len(buf)) => i = k

=============================================================================
