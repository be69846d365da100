----------------------------- MODULE PeerStream -----------------------------
(***************************************************************************)
(* How the messages of a peer get from its data channel to run_peer: chunks*)
(* of any size go through a bounded channel (peer.rs); run_peer collects   *)
(* the handshake from the first of them and hands the rest to the          *)
(* MessageDecoder (wire.rs), which cuts frames out of the bytes.           *)
(*                                                                         *)
(* Bytes are named by their position in what the peer sends: a handshake,  *)
(* then frames, each a length prefix and a body.  The decoder does not know*)
(* where frames begin: what it reads as a prefix elsewhere says anything.  *)
(***************************************************************************)
EXTENDS Naturals, Sequences

CONSTANTS
  Frames,        \* the peer sends frames 1..Frames
  Body,          \* length of the body of each
  Kind,          \* what Message::decode makes of it
  Start,         \* position of each, and of the end of the stream
  HandshakeLen,  \* HANDSHAKE_LEN, 68
  PrefixLen,     \* 4
  MaxFrame,      \* MAX_FRAME_LEN
  Capacity,      \* of the channel between on_message and recv, 256
  MaxChunk       \* bound: largest chunk

\* Payloads are not modelled: a doubtful message may turn out to be malformed.
Kinds == {"known", "unknown", "doubtful"}

ASSUME StreamAssumption ==
  /\ Frames \in Nat /\ HandshakeLen \in Nat \ {0} /\ PrefixLen \in Nat \ {0}
  /\ MaxFrame \in Nat /\ Capacity \in Nat \ {0} /\ MaxChunk \in Nat

ASSUME LayoutAssumption ==
  /\ Body \in [1..Frames -> Nat]
  /\ Kind \in [1..Frames -> Kinds]
  /\ Start \in [1..Frames + 1 -> Nat]
  /\ Start[1] = HandshakeLen
  /\ \A f \in 1..Frames : Start[f + 1] = Start[f] + PrefixLen + Body[f]

VARIABLES
  chunks,    \* the chunks in the channel, each by the position where it ends
  written,   \* position up to which the stream has been put into it
  closed,    \* the data channel was closed: the sender is dropped
  received,  \* position up to which run_peer has taken it out
  at,        \* position of the first byte in the decoder's buffer
  out,       \* frames that run_peer was given
  stage      \* where run_peer is

wireVars == <<chunks, written, closed>>
streamVars == <<wireVars, received, at, out, stage>>

\* "refused": what the peer said was wrong; "failed": the decoder gave up.
Stage == {"greeting", "decoding", "receiving", "done", "refused", "failed", "closed"}

StreamTypeOK ==
  /\ chunks \in Seq(Nat) /\ Len(chunks) <= Capacity
  /\ written \in Nat /\ received \in Nat /\ at \in Nat
  /\ closed \in BOOLEAN
  /\ out \in Seq(1..Frames)
  /\ stage \in Stage

StreamInit ==
  /\ chunks = <<>> /\ written = 0 /\ closed = FALSE
  /\ received = 0 /\ at = 0
  /\ out = <<>>
  /\ stage = "greeting"

(***************************************************************************)
(* The data channel.                                                       *)
(***************************************************************************)

HasRoom == Len(chunks) < Capacity

\* on_message: the next chunk, of any size; a full channel holds up the rest.
Arrive ==
  /\ ~closed /\ HasRoom
  /\ \E n \in 0..MaxChunk :
       /\ written + n <= Start[Frames + 1]
       /\ written' = written + n
       /\ chunks' = Append(chunks, written')
  /\ UNCHANGED <<closed, received, at, out, stage>>

\* on_close, perhaps in the middle of a frame
Close ==
  /\ ~closed /\ closed' = TRUE
  /\ UNCHANGED <<chunks, written, received, at, out, stage>>

(***************************************************************************)
(* run_peer.                                                               *)
(***************************************************************************)

TakeChunk ==
  /\ chunks # <<>>
  /\ chunks' = Tail(chunks)
  /\ received' = Head(chunks)
  /\ UNCHANGED <<written, closed>>

\* Mutant of Decoded: the bytes after the handshake are thrown away.
DecodedLater(r) == r

\* Where the decoder begins, r bytes having been received.
Decoded(r) == HandshakeLen

\* Handshake::decode, and whether the peer has the torrent and the extension
\* protocol
Greeted == {"decoding", "refused"}

Greet ==
  /\ stage = "greeting"
  /\ TakeChunk
  /\ IF received' < HandshakeLen
     THEN UNCHANGED <<at, stage>>
     ELSE at' = Decoded(received') /\ stage' \in Greeted
  /\ UNCHANGED out

\* decoder.push
Receive ==
  /\ stage = "receiving"
  /\ TakeChunk
  /\ stage' = "decoding"
  /\ UNCHANGED <<at, out>>

\* Mutant of SenderGone: what is still in the channel is not looked at.
SenderGoneNow == closed

SenderGone == closed /\ chunks = <<>>

\* recv() == None
PeerClosed ==
  /\ stage \in {"greeting", "receiving"} /\ SenderGone
  /\ stage' = "closed"
  /\ UNCHANGED <<wireVars, received, at, out>>

Buffered == received - at

FrameAt(p) == {f \in 1..Frames : Start[f] = p}

\* The length prefix at a position: junk where no frame begins.
LengthAt(p) == IF FrameAt(p) = {} THEN 0..MaxFrame + 1 ELSE {Body[f] : f \in FrameAt(p)}

\* Mutant of TooLarge.
TooLargeAtLimit(len) == len >= MaxFrame

TooLarge(len) == len > MaxFrame

\* Ok(None)
PopNone ==
  /\ stage = "decoding"
  /\ \/ Buffered < PrefixLen
     \/ /\ Buffered >= PrefixLen
        /\ \E len \in LengthAt(at) : ~TooLarge(len) /\ Buffered < PrefixLen + len
  /\ stage' = "receiving"
  /\ UNCHANGED <<wireVars, received, at, out>>

PopTooLarge ==
  /\ stage = "decoding" /\ Buffered >= PrefixLen
  /\ \E len \in LengthAt(at) : TooLarge(len)
  /\ stage' = "failed"
  /\ UNCHANGED <<wireVars, received, at, out>>

Advance ==
  /\ stage = "decoding" /\ Buffered >= PrefixLen
  /\ \E len \in LengthAt(at) :
       /\ ~TooLarge(len) /\ Buffered >= PrefixLen + len
       /\ at' = at + PrefixLen + len
  /\ UNCHANGED <<wireVars, received>>

\* A message; handling it may end the conversation, either way.
PopMessage ==
  /\ Advance
  /\ \E f \in FrameAt(at) : Kind[f] # "unknown" /\ out' = Append(out, f)
  /\ stage' \in {"decoding", "done", "refused"}

PopMalformed ==
  /\ Advance
  /\ \E f \in FrameAt(at) : Kind[f] = "doubtful"
  /\ stage' = "failed"
  /\ UNCHANGED out

\* Mutant of AfterSkip: an unknown id ends the pop instead of the turn.
AfterSkipReceive == "receiving"

AfterSkip == "decoding"

\* An id we do not know, or junk that looks like one.
SkipUnknown ==
  /\ Advance
  /\ \A f \in FrameAt(at) : Kind[f] = "unknown"
  /\ stage' = AfterSkip
  /\ UNCHANGED out

ReadStream ==
  Greet \/ Receive \/ PeerClosed \/ PopNone \/ PopTooLarge
    \/ PopMessage \/ PopMalformed \/ SkipUnknown

StreamNext == Arrive \/ Close \/ ReadStream

StreamSpec == StreamInit /\ [][StreamNext]_streamVars

(***************************************************************************)
(* Properties.                                                             *)
(***************************************************************************)

Known == {f \in 1..Frames : Kind[f] # "unknown"}
Over == stage \in {"done", "refused", "failed", "closed"}

Ordered == INSTANCE InOrderDelivery WITH over <- Over

\* However the bytes are cut into chunks, run_peer gets the messages in order,
\* each once, with unknown ids left out (wire.rs:3-6, 290).
DeliversInOrder == Ordered!Spec

Handed(f) == \E i \in DOMAIN out : out[i] = f

\* run_peer never waits for more bytes while a message is complete in what it
\* has received, the bytes that came along with the handshake included; and it
\* leaves at a close only after every message that was complete in what arrived
\* before it.
NothingLeftBehind ==
  \A f \in Known :
    /\ stage = "receiving" /\ Start[f + 1] <= received => Handed(f)
    /\ stage = "closed" /\ Start[f + 1] <= written => Handed(f)

\* The decoder gives a peer up where a frame over the limit begins or a
\* malformed one ends, and nowhere else (wire.rs:17-19, 298).
FailureHasCause ==
  stage = "failed" => \E f \in 1..Frames :
    \/ Body[f] > MaxFrame /\ at = Start[f]
    \/ Kind[f] = "doubtful" /\ at = Start[f + 1]

=============================================================================
