------------------------------- MODULE Inputs -------------------------------
(***************************************************************************)
(* What others hand over as text, bytes and numbers, one reader at a time: *)
(* a magnet link (Magnet), a bencoded buffer and the ut_metadata message   *)
(* it may be (Bencode, UtMetadata), what a peer writes (Wire), what goes   *)
(* through a tracker (Signaling), the names in an info dict (InfoPaths)    *)
(* and the numbers in the settings (Preferences).                          *)
(***************************************************************************)
EXTENDS UtMetadata

CONSTANTS
  Links, NibbleBits, CharBits, HashLen, WsTracker, DefaultTrackers,
  ByteBase, WordLen, Protocol, Handshakes, Messages, Frames, MaxSaid,
  Pieces, Announces, Answers, Texts, Components, BaseDir, MaxFiles, MaxParts,
  Fraction, MaxRate, MaxU32, MinRate, Numbers

ASSUME InputAssumption ==
  /\ NibbleBits \in Nat \ {0} /\ CharBits \in Nat \ {0} /\ HashLen \in Nat \ {0}
  /\ (HashLen * 2 * NibbleBits) % CharBits = 0 /\ CharBits # NibbleBits
  /\ CharBits <= 2 * NibbleBits
  /\ DefaultTrackers \in Seq(WsTracker) \ {<<>>}
  /\ ByteBase \in Nat /\ ByteBase > 20 /\ ByteBase % 2 = 0 /\ WordLen \in Nat \ {0} /\ WordLen % 2 = 0
  /\ Fraction \in Nat \ {0} /\ MaxRate \in Nat /\ MaxU32 \in Nat
  /\ MaxRate \div Fraction <= MaxU32 /\ MinRate \in 1..MaxU32 /\ Numbers \subseteq Int

VARIABLES
  reader,
  link, rest, infoHash, displayName, trackers, outcome, shared, urls,
  greeted, said, stream, frame, heard,
  sent, received, event,
  name, files, checked, verdict,
  settings, saved, attached, limits

Link == INSTANCE Magnet
Peer == INSTANCE Wire
Tracker == INSTANCE Signaling
Paths == INSTANCE InfoPaths
Prefs == INSTANCE Preferences

\* A link is a sequence of parameters.
ASSUME LinkAssumption ==
  \A params \in Links :
    /\ params \in Seq(ToSet(params))
    /\ \A p \in ToSet(params) :
         /\ p = [key |-> p.key, value |-> p.value] /\ p.key \in Link!Key
         /\ p.key = "btih" => p.value \in Seq(Nat)

\* An id is a 20-byte array, and what a tracker says is a String.
ASSUME SignalAssumption ==
  LET Bytes == [1..HashLen -> 0..ByteBase - 1]
  IN /\ \A p \in Announces :
          /\ p.kind = "announce" /\ p.peer_id \in Bytes
          /\ \A k \in DOMAIN p.offers : p.offers[k].offer_id \in Bytes
     /\ \A a \in Answers : a.kind = "answer" /\ {a.peer_id, a.offer_id} \subseteq Bytes
     /\ \A t \in Texts :
          /\ \A id \in t.peer_id \cup t.offer_id : Tracker!IsUtf8(id)
          /\ \A x, y \in t.peer_id : x = y
          /\ \A x, y \in t.offer_id : x = y

\* The fields of a message are a u32, a u16 or a u8 each, its length fits the u32
\* before it, and that of PROTOCOL the byte before it.
ASSUME WireAssumption ==
  LET Bytes == 0..ByteBase - 1
  IN /\ Protocol \in Seq(Bytes) /\ Len(Protocol) \in Bytes
     /\ Handshakes \subseteq [reserved : [1..Peer!ReservedLen -> Bytes],
                              infoHash : [1..HashLen -> Bytes], peerId : [1..HashLen -> Bytes]]
     /\ \A m \in Messages :
          /\ \/ m = Peer!KeepAlive
             \/ /\ m = Peer!Message(m.kind, m.fields, m.tail) /\ m.kind \in DOMAIN Peer!Id
                /\ m.fields = [k \in DOMAIN Peer!Fields[m.kind] |-> m.fields[k]]
                /\ \A k \in DOMAIN m.fields : m.fields[k] \in Peer!Unsigned(Peer!Fields[m.kind][k])
                /\ m.tail \in Seq(Bytes) /\ (m.kind \notin Peer!HasTail => m.tail = <<>>)
          /\ Peer!Declared(m) \in Peer!Unsigned(WordLen)
     /\ \A f \in Frames : f \in Seq(Bytes) /\ Len(f) \in Peer!Unsigned(WordLen)

\* Names are sequences of characters, and a folder is a sequence of names.
ASSUME PathAssumption ==
  /\ \A c \in Components : c \in Seq(ToSet(c))
  /\ BaseDir \in Seq(ToSet(BaseDir)) /\ MaxFiles \in Nat /\ MaxParts \in Nat

linkVars == <<link, rest, infoHash, displayName, trackers, outcome, shared, urls>>
peerVars == <<greeted, said, stream, frame, heard>>
trackerVars == <<sent, received, event>>
pathVars == <<name, files, checked, verdict>>
prefVars == <<settings, saved, attached, limits>>

inputVars == <<reader, vars, linkVars, peerVars, trackerVars, pathVars, prefVars>>

\* What the others hold meanwhile.
NoBuffer == buf = 0 /\ i = 0 /\ depth = 0 /\ state = 0
NoLink ==
  /\ link = 0 /\ rest = 0 /\ infoHash = 0 /\ displayName = 0
  /\ trackers = 0 /\ outcome = 0 /\ shared = 0 /\ urls = 0
NoPeer == greeted = 0 /\ said = 0 /\ stream = 0 /\ frame = 0 /\ heard = 0
NoTracker == sent = 0 /\ received = 0 /\ event = 0
NoPaths == name = 0 /\ files = 0 /\ checked = 0 /\ verdict = 0
NoPrefs == settings = 0 /\ saved = 0 /\ attached = 0 /\ limits = 0

InputInit ==
  /\ reader \in {"buffer", "link", "peer", "tracker", "paths", "prefs"}
  /\ IF reader = "buffer" THEN Init \/ UtInit(Pieces) ELSE NoBuffer
  /\ IF reader = "link" THEN Link!Init ELSE NoLink
  /\ IF reader = "peer" THEN Peer!Init ELSE NoPeer
  /\ IF reader = "tracker" THEN Tracker!Init ELSE NoTracker
  /\ IF reader = "paths" THEN Paths!Init ELSE NoPaths
  /\ IF reader = "prefs" THEN Prefs!Init ELSE NoPrefs

ReadBuffer ==
  /\ reader = "buffer" /\ Next
  /\ UNCHANGED <<linkVars, peerVars, trackerVars, pathVars, prefVars>>
ReadLink ==
  /\ reader = "link" /\ Link!Next
  /\ UNCHANGED <<vars, peerVars, trackerVars, pathVars, prefVars>>
ReadPeer ==
  /\ reader = "peer" /\ Peer!Next
  /\ UNCHANGED <<vars, linkVars, trackerVars, pathVars, prefVars>>
ReadTracker ==
  /\ reader = "tracker" /\ Tracker!Next
  /\ UNCHANGED <<vars, linkVars, peerVars, pathVars, prefVars>>
ReadPaths ==
  /\ reader = "paths" /\ Paths!Next
  /\ UNCHANGED <<vars, linkVars, peerVars, trackerVars, prefVars>>
ReadPrefs ==
  /\ reader = "prefs" /\ Prefs!Next
  /\ UNCHANGED <<vars, linkVars, peerVars, trackerVars, pathVars>>

InputNext ==
  /\ ReadBuffer \/ ReadLink \/ ReadPeer \/ ReadTracker \/ ReadPaths \/ ReadPrefs
  /\ UNCHANGED reader

InputSpec == InputInit /\ [][InputNext]_inputVars

(***************************************************************************)
(* Properties.                                                             *)
(***************************************************************************)

\* No byte is read outside the buffer, what is returned is the end of a value,
\* if one begins the buffer, and what is behind it is a piece's data; see
\* Bencode and UtMetadata.
BufferIsUnderstood ==
  reader = "buffer" =>
    /\ TypeOK
    /\ Len(buf) <= MaxLen => AgreesWithGrammar
    /\ UtIsUnderstood

\* A link means what it says, and the trackers it names are asked once; see
\* Magnet.
LinkIsUnderstood ==
  reader = "link" => Link!LinkIsUnderstood /\ Link!TrackersAskedOnce

\* What a peer writes is what the other one reads; see Wire.
SaidIsHeard == reader = "peer" => Peer!SaidIsHeard

\* A signal goes through the tracker unchanged; see Signaling.
SignalIsHeard == reader = "tracker" => Tracker!SignalIsHeard

\* The files of a torrent stay in its folder; see InfoPaths.
PathsStayInside == reader = "paths" => Paths!PathsStayInside

\* The engine keeps to the rates that are set; see Preferences.
LimitsFollow == reader = "prefs" => Prefs!LimitsFollow

=============================================================================
