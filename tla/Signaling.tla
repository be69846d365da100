----------------------------- MODULE Signaling -----------------------------
(***************************************************************************)
(* The text that goes through the tracker (tracker.rs): a client announces *)
(* with offers or answers one, the tracker passes it on to another client, *)
(* which reads it.  The tracker may also say anything else.                *)
(* A text is its bytes in UTF-8; an id travels as a text with a character  *)
(* for each byte.  A key that is left out is a set that holds nothing, as  *)
(* None is.                                                                *)
(***************************************************************************)
EXTENDS Naturals, SequencesExt

CONSTANTS
  ByteBase,   \* 256; the characters of the upper half take two bytes
  HashLen,    \* bytes of an info hash, a peer id or an offer id, 20
  Announces,  \* AnnounceParams, with the offers among them
  Answers,    \* what Cmd::SendAnswer carries
  Texts       \* anything else a tracker says, as a ServerMessage

VARIABLES
  sent,      \* the text on its way from a client, and what it was made of
  received,  \* a set of at most one text at the other client
  event      \* a set of at most one event that was read in it

vars == <<sent, received, event>>

Half == ByteBase \div 2

\* A character in UTF-8: one byte, or the first and the second of two.
Utf8(c) == IF c < Half THEN <<c>> ELSE <<2 * Half + (c \div Half), Half + (c % Half)>>

\* What a String can hold: a lead byte with its continuation, and none of them
\* alone.
IsUtf8(text) ==
  /\ text \in Seq(Nat)
  /\ \A k \in DOMAIN text :
       /\ text[k] >= 2 * Half =>
            text[k] > 2 * Half /\ k < Len(text) /\ text[k + 1] \in Half..2 * Half - 1
       /\ text[k] \in Half..2 * Half - 1 => k > 1 /\ text[k - 1] >= 2 * Half

\* binary_hash::serialize: the character of each byte
ToText(bytes) == FlattenSeq([k \in DOMAIN bytes |-> Utf8(bytes[k])])

\* The characters of a text.
Chars(text) ==
  FoldLeft(LAMBDA cs, b :
             CASE b < Half -> Append(cs, b)
               [] b >= 2 * Half -> Append(cs, b - 2 * Half)
               [] OTHER -> Append(Front(cs), Last(cs) * Half + (b - Half)),
           <<>>, text)

\* Mutant of CharCount: the bytes are counted.
CharCountBytes(text) == Len(text)

CharCount(text) == Len(Chars(text))

\* decode_binary_20
DecodeBinary(text) ==
  {bytes \in {Chars(text)} : CharCount(text) = HashLen /\ \A c \in ToSet(bytes) : c < ByteBase}

AsStr(kind) == {kind} \ {"update"}

Sdp(kind, sdp) == [type |-> kind, sdp |-> sdp]

\* AnnounceWire, without the counters; `left` and `event` are as optional there.
AnnounceWire(p) ==
  [info_hash |-> ToText(p.info_hash), peer_id |-> ToText(p.peer_id),
   left |-> p.left, event |-> AsStr(p.event),
   offers |-> [k \in DOMAIN p.offers |->
     [offer_id |-> ToText(p.offers[k].offer_id), offer |-> Sdp("offer", p.offers[k].sdp)]]]

AnswerWire(a) ==
  [info_hash |-> ToText(a.info_hash), peer_id |-> ToText(a.peer_id),
   to_peer_id |-> ToText(a.to_peer_id), offer_id |-> ToText(a.offer_id),
   answer |-> Sdp("answer", a.sdp)]

Nothing ==
  [peer_id |-> {}, offer_id |-> {}, interval |-> {}, complete |-> {}, incomplete |-> {},
   offer |-> {}, answer |-> {}]

None == [kind |-> "none"]

Init ==
  /\ sent = [by |-> None, text |-> None]
  /\ received \in {{}} \cup {{t} : t \in Texts}
  /\ event = {}

Announce ==
  /\ received = {} /\ sent.by = None
  /\ \E p \in Announces : sent' = [by |-> p, text |-> AnnounceWire(p)]
  /\ UNCHANGED <<received, event>>

SendAnswer ==
  /\ received = {} /\ sent.by = None
  /\ \E a \in Answers : sent' = [by |-> a, text |-> AnswerWire(a)]
  /\ UNCHANGED <<received, event>>

\* The tracker hands an offer to a peer of the same torrent, and an answer to
\* the peer it is for; to who announces, it says how many there are: who has
\* nothing left is complete, and who does not say has everything left.
Pass ==
  /\ received = {} /\ sent.by # None
  /\ IF sent.by.kind = "answer"
     THEN received' = {[Nothing EXCEPT !.peer_id = {sent.text.peer_id},
                          !.offer_id = {sent.text.offer_id}, !.answer = {sent.text.answer}]}
     ELSE \/ \E k \in DOMAIN sent.text.offers :
               received' = {[Nothing EXCEPT !.peer_id = {sent.text.peer_id},
                               !.offer_id = {sent.text.offers[k].offer_id},
                               !.offer = {sent.text.offers[k].offer}]}
          \/ received' = {[Nothing EXCEPT !.interval = {1},
                             !.complete = IF sent.text.left = {0} THEN {1} ELSE {0},
                             !.incomplete = IF sent.text.left = {0} THEN {0} ELSE {1}]}
  /\ UNCHANGED <<sent, event>>

\* A signal is only heard with both its ids.
Signal(kind, t, sdp) ==
  {[kind |-> kind, peer_id |-> p, offer_id |-> o, sdp |-> sdp.sdp] :
     p \in UNION {DecodeBinary(id) : id \in t.peer_id},
     o \in UNION {DecodeBinary(id) : id \in t.offer_id}}

OrElse(option, default) == IF option = {} THEN default ELSE CHOOSE x \in option : TRUE

\* parse_event
ParseEvent(t) ==
  IF t.offer # {} THEN UNION {Signal("PeerOffer", t, sdp) : sdp \in t.offer}
  ELSE IF t.answer # {} THEN UNION {Signal("PeerAnswer", t, sdp) : sdp \in t.answer}
  ELSE IF t.complete \cup t.incomplete \cup t.interval = {} THEN {}
  ELSE {[kind |-> "Stats", complete |-> OrElse(t.complete, 0),
         incomplete |-> OrElse(t.incomplete, 0), interval |-> OrElse(t.interval, 120)]}

Hear ==
  /\ \E t \in received : event' = ParseEvent(t)
  /\ UNCHANGED <<sent, received>>

Next == Announce \/ SendAnswer \/ Pass \/ Hear

(***************************************************************************)
(* Properties.                                                             *)
(***************************************************************************)

\* What the other client can have been told.
Told(by) ==
  IF by.kind = "answer"
  THEN {[kind |-> "PeerAnswer", peer_id |-> by.peer_id, offer_id |-> by.offer_id, sdp |-> by.sdp]}
  ELSE {[kind |-> "PeerOffer", peer_id |-> by.peer_id, offer_id |-> o.offer_id, sdp |-> o.sdp] :
          o \in ToSet(by.offers)}

\* A signal that a client sent is what the other one hears: with the ids it had,
\* whatever bytes are in them, and with its own SDP (tracker.rs:4-8).  A client
\* that does not know the size is not counted among those who have everything
\* (tracker.rs:97-99).  Whatever a tracker says, ids are what it said.
SignalIsHeard ==
  \A t \in received :
    /\ sent.by # None /\ t.interval = {} => ParseEvent(t) # {} /\ ParseEvent(t) \subseteq Told(sent.by)
    /\ sent.by # None /\ sent.by.kind = "announce" /\ sent.by.left = {} => t.complete \in {{}, {0}}
    /\ \A e \in event :
         IF e.kind = "Stats" THEN t.offer \cup t.answer = {}
         ELSE {ToText(e.peer_id)} = t.peer_id /\ {ToText(e.offer_id)} = t.offer_id

=============================================================================
