------------------------------ MODULE MCInputs ------------------------------
(***************************************************************************)
(* Inputs on every buffer of a few bytes and every ut_metadata message,    *)
(* every text of the length of an info hash and every link of a few        *)
(* parameters, pairs of messages of every kind and a stranger's frame, ids *)
(* of all bytes, names with dots and separators, and rates on both sides   *)
(* of each bound.                                                          *)
(***************************************************************************)
EXTENDS Inputs

CONSTANTS ws1, ws2, udp, n1, n2, sdp1, sdp2

MCPieces == UNION {[1..n -> Byte] : n \in 0..2}

MCDefaultTrackers == <<ws1>>

HashTexts == [1..4 -> 0..8] \cup [1..6 -> 0..4] \cup [1..5 -> {0}]

InfoHash(text) == [key |-> "btih", value |-> text]

Parameter ==
  {InfoHash(<<7, 0, 5, 1>>), InfoHash(<<0, 1, 2, 3, 3, 2>>), InfoHash(<<8, 8, 8, 8>>)}
    \cup {[key |-> "dn", value |-> v] : v \in {n1, n2}}
    \cup {[key |-> "tr", value |-> v] : v \in {ws1, ws2, udp}}
    \cup {[key |-> "other", value |-> n1]}

MCLinks == {<<InfoHash(t)>> : t \in HashTexts} \cup UNION {[1..n -> Parameter] : n \in 0..4}

MCProtocol == <<3, 5>>

MCHandshakes ==
  {[reserved |-> r, infoHash |-> h, peerId |-> p] :
     r \in {<<0, 0>>, <<0, 16>>}, h \in {<<0, 1, 21>>}, p \in {<<0, 1, 21>>, <<9, 9, 0>>}}

\* Words with either byte, and with both; blocks that look like frames.
Word == {0, 22, 21}
Block == {<<>>, <<0>>, <<0, 1, 0>>}

Kinds(kinds, fields, tails) ==
  {[kind |-> k, fields |-> f, tail |-> t] : k \in kinds, f \in fields, t \in tails}

MCMessages ==
  Kinds({"KeepAlive", "Choke", "Unchoke", "Interested", "NotInterested"}, {<<>>}, {<<>>})
    \cup Kinds({"Have"}, [1..1 -> Word], {<<>>})
    \cup Kinds({"Bitfield"}, {<<>>}, Block)
    \cup Kinds({"Request", "Cancel"}, {<<0, 22, 21>>, <<22, 0, 0>>}, {<<>>})
    \cup Kinds({"Piece"}, [1..2 -> Word], Block)
    \cup Kinds({"Port"}, {<<0>>, <<21>>}, {<<>>})
    \cup Kinds({"Extended"}, {<<0>>, <<1>>}, Block)

\* Too short, just enough and too long for each kind, and ids of no kind.
MCFrames ==
  {<<>>} \cup {<<id>> \o payload :
              id \in 0..10 \cup {20, 21}, payload \in UNION {[1..n -> 0..1] : n \in 0..7}}

MCIds == [1..3 -> {0, 10, 11, 21}]
Ids == {<<0, 10, 11>>, <<21, 21, 21>>}

MCAnnounces ==
  {[kind |-> "announce", info_hash |-> <<0, 0, 11>>, peer_id |-> p, left |-> l, event |-> e,
    offers |-> o] :
     p \in Ids, l \in {{}, {0}, {1}}, e \in {"started", "stopped", "completed", "update"},
     o \in {<<>>} \cup {<<[offer_id |-> id, sdp |-> sdp1]>> : id \in MCIds}
        \cup {<<[offer_id |-> id, sdp |-> sdp1], [offer_id |-> <<1, 1, 1>>, sdp |-> sdp2]>> : id \in Ids}}

MCAnswers ==
  {[kind |-> "answer", info_hash |-> <<0, 0, 11>>, peer_id |-> p, to_peer_id |-> to, offer_id |-> id,
    sdp |-> sdp1] : p \in MCIds, to \in Ids, id \in Ids}

\* Ids in UTF-8, a character from 11 on in two bytes: missing, of three
\* characters, too short, too long, and with a character beyond a byte (22).
TextIds ==
  {{}} \cup {{text} :
             text \in {<<0, 10, 23, 21>>, <<23, 21, 23, 11, 23, 11>>, <<0, 10>>, <<23, 11, 0>>,
                       <<0, 10, 0, 0>>, <<0, 24, 11, 0>>, <<>>}}

MCTexts ==
  [peer_id : TextIds, offer_id : TextIds, interval : {{}, {0}, {3}}, complete : {{}, {2}},
   incomplete : {{}, {1}}, offer : {{}, {[type |-> "offer", sdp |-> sdp1]}, {[type |-> "answer", sdp |-> sdp2]}},
   answer : {{}, {[type |-> "answer", sdp |-> sdp2]}}]

Dot == "."
MCComponents ==
  {<<>>, <<Dot>>, <<Dot, Dot>>, <<Dot, Dot, Dot>>, <<"/">>, <<"\\">>, <<"x">>, <<"y">>, <<Dot, "x">>,
   <<Dot, Dot, "x">>, <<"/", "x">>, <<"x", "/">>, <<Dot, Dot, "/">>, <<Dot, Dot, "\\", "x">>,
   <<"x", "/", Dot, Dot>>, <<"x", "\\", "y">>}

MCBaseDir == <<<<"h">>, <<"d">>>>

MCNumbers == -1..18

=============================================================================
