------------------------------- MODULE Magnet -------------------------------
(***************************************************************************)
(* MagnetLink::parse (magnet.rs), one parameter of the link at a time; its *)
(* info hash in hex or base32; writing the link again (Display); and the   *)
(* trackers the engine asks for it.                                        *)
(* A character is the value it stands for in the encoding, whichever its   *)
(* case.  form_urlencoded has taken the link apart.                        *)
(***************************************************************************)
EXTENDS Naturals, SequencesExt

CONSTANTS
  Links,           \* the links to read, a sequence of parameters each
  NibbleBits,      \* of a hex digit, 4
  CharBits,        \* of a base32 character, 5
  HashLen,         \* bytes of an info hash, 20
  WsTracker,       \* the tracker URLs with a WebSocket scheme
  DefaultTrackers  \* DEFAULT_WS_TRACKERS

ByteBits == 2 * NibbleBits
HexLen == 2 * HashLen
Base32Len == (HashLen * ByteBits) \div CharBits

VARIABLES
  link,         \* the parameters of the link
  rest,         \* those still to be read
  infoHash,     \* the info hash: a set of at most one, as Option is
  displayName,  \* likewise
  trackers,
  outcome,        \* reading, or what parse returned
  shared,       \* the link was written by Display
  urls          \* what resolve_trackers made of the link

vars == <<link, rest, infoHash, displayName, trackers, outcome, shared, urls>>

\* What follows the prefix; without it, a text is not a magnet link.
Init ==
  /\ link \in Links /\ rest = link /\ outcome = "reading"
  /\ infoHash = {} /\ displayName = {} /\ trackers = <<>>
  /\ shared = FALSE /\ urls = <<>>

\* Bytes that were decoded, or none if the text is refused.
DecodeHex(text) ==
  IF \A k \in 1..HexLen : text[k] < 2^NibbleBits
  THEN {[k \in 1..HashLen |-> text[2 * k - 1] * 2^NibbleBits + text[2 * k]]}
  ELSE {}

\* Mutant of Full: a byte is only taken out when a bit is left over.
FullAfter(bits) == bits > ByteBits

Full(bits) == bits >= ByteBits

\* One character into buf; with enough bits in it, one byte out of it.
Shift(acc, c) ==
  LET buf == acc.buf * 2^CharBits + c
      bits == acc.bits + CharBits
      left == bits - ByteBits
  IN IF Full(bits)
     THEN [buf |-> buf % 2^left, bits |-> left,
           out |-> Append(acc.out, (buf \div 2^left) % 2^ByteBits)]
     ELSE [acc EXCEPT !.buf = buf, !.bits = bits]

DecodeBase32(text) ==
  IF \A k \in 1..Base32Len : text[k] < 2^CharBits
  THEN LET all == FoldLeft(Shift, [buf |-> 0, bits |-> 0, out |-> <<>>], text)
       IN {bytes \in {all.out} : Len(bytes) = HashLen}
  ELSE {}

DecodeInfoHash(text) ==
  CASE Len(text) = HexLen -> DecodeHex(text)
    [] Len(text) = Base32Len -> DecodeBase32(text)
    [] OTHER -> {}

Hex(bytes) ==
  [k \in 1..HexLen |->
     LET b == bytes[(k + 1) \div 2]
     IN IF k % 2 = 1 THEN b \div 2^NibbleBits ELSE b % 2^NibbleBits]

Key == {"btih", "dn", "tr", "other"}

Reading(key) ==
  /\ outcome = "reading" /\ rest # <<>> /\ Head(rest).key = key
  /\ rest' = Tail(rest)
  /\ UNCHANGED <<link, shared, urls>>

\* xt=urn:btih:
ReadInfoHash ==
  /\ Reading("btih")
  /\ LET hash == DecodeInfoHash(Head(rest).value)
     IN IF hash = {}
        THEN outcome' = "InvalidInfoHash" /\ UNCHANGED infoHash
        ELSE infoHash' = hash /\ UNCHANGED outcome
  /\ UNCHANGED <<displayName, trackers>>

ReadName ==
  /\ Reading("dn")
  /\ displayName' = {Head(rest).value}
  /\ UNCHANGED <<infoHash, trackers, outcome>>

ReadTracker ==
  /\ Reading("tr")
  /\ trackers' = Append(trackers, Head(rest).value)
  /\ UNCHANGED <<infoHash, displayName, outcome>>

\* Another xt, or another key.
ReadOther ==
  /\ Reading("other")
  /\ UNCHANGED <<infoHash, displayName, trackers, outcome>>

ReadAll ==
  /\ outcome = "reading" /\ rest = <<>>
  /\ outcome' = IF infoHash = {} THEN "MissingInfoHash" ELSE "parsed"
  /\ UNCHANGED <<link, rest, infoHash, displayName, trackers, shared, urls>>

\* ws_trackers
WsTrackers(ts) ==
  FoldLeft(LAMBDA ws, t : IF t \in WsTracker THEN Append(ws, t) ELSE ws, <<>>, ts)

Known(t, seen) == t \in ToSet(seen)

\* The WebSocket trackers of the link, then the default ones, each once.
ResolveTrackers ==
  FoldLeft(LAMBDA seen, t : IF Known(t, seen) THEN seen ELSE Append(seen, t), <<>>,
           WsTrackers(trackers) \o DefaultTrackers)

FetchMetadata ==
  /\ outcome = "parsed" /\ urls = <<>>
  /\ urls' = ResolveTrackers
  /\ UNCHANGED <<link, rest, infoHash, displayName, trackers, outcome, shared>>

\* Display
Written ==
  SetToSeq({[key |-> "btih", value |-> Hex(h)] : h \in infoHash})
    \o SetToSeq({[key |-> "dn", value |-> n] : n \in displayName})
    \o [k \in DOMAIN trackers |-> [key |-> "tr", value |-> trackers[k]]]

\* The link that was read is written, and that is read.
Share ==
  /\ outcome = "parsed" /\ urls # <<>> /\ ~shared
  /\ rest' = Written
  /\ outcome' = "reading" /\ shared' = TRUE
  /\ infoHash' = {} /\ displayName' = {} /\ trackers' = <<>>
  /\ UNCHANGED <<link, urls>>

Done ==
  /\ outcome \in {"InvalidInfoHash", "MissingInfoHash"} \/ (outcome = "parsed" /\ shared)
  /\ UNCHANGED vars

Next ==
  \/ ReadInfoHash \/ ReadName \/ ReadTracker \/ ReadOther \/ ReadAll
  \/ FetchMetadata \/ Share \/ Done

(***************************************************************************)
(* What is right: a text of digits and the bytes are one number.           *)
(***************************************************************************)

\* What each key is given, in the order of the parameters.
ValuesIn(params) ==
  FoldLeft(LAMBDA values, p : [values EXCEPT ![p.key] = Append(@, p.value)],
           [key \in Key |-> <<>>], params)

Values(key) == ValuesIn(link)[key]

LastOf(s) == IF s = <<>> THEN {} ELSE {Last(s)}

ValueOf(digits, bits) == FoldLeft(LAMBDA n, d : n * 2^bits + d, 0, digits)

WellFormed(text) ==
  \/ Len(text) = HexLen /\ \A c \in ToSet(text) : c < 2^NibbleBits
  \/ Len(text) = Base32Len /\ \A c \in ToSet(text) : c < 2^CharBits

InfoHashNumber(text) ==
  ValueOf(text, IF Len(text) = HexLen THEN NibbleBits ELSE CharBits)

AllWellFormed == \A text \in ToSet(Values("btih")) : WellFormed(text)

ParsedRightly ==
  /\ AllWellFormed
  /\ \A h \in infoHash : h \in [1..HashLen -> 0..2^ByteBits - 1]
  /\ {ValueOf(h, ByteBits) : h \in infoHash} =
       {InfoHashNumber(text) : text \in LastOf(Values("btih"))}
  /\ displayName = LastOf(Values("dn"))
  /\ trackers = Values("tr")

\* What to ask, as often and in the order it is named.
Named == WsTrackers(Values("tr")) \o DefaultTrackers

FirstNamed(t) == CHOOSE k \in DOMAIN Named :
  Named[k] = t /\ \A m \in 1..k - 1 : Named[m] # t

(***************************************************************************)
(* Properties.                                                             *)
(***************************************************************************)

\* A link means the number its last info hash is, in either encoding, its last
\* name and all its trackers; it is refused for an info hash that is none, or
\* for want of one, and for nothing else.  A link that was written from what
\* another one meant means the same (magnet.rs:253-258, roundtrip_display).
LinkIsUnderstood ==
  /\ outcome = "parsed" => infoHash # {} /\ ParsedRightly
  /\ outcome = "InvalidInfoHash" => ~AllWellFormed
  /\ outcome = "MissingInfoHash" => Values("btih") = <<>>

\* The engine asks each WebSocket tracker of the link and of the defaults once,
\* in the order in which they are first named (engine.rs:74-75).
TrackersAskedOnce ==
  urls # <<>> =>
    /\ ToSet(urls) = ToSet(Named)
    /\ \A k, m \in DOMAIN urls : k < m => FirstNamed(urls[k]) < FirstNamed(urls[m])

=============================================================================
