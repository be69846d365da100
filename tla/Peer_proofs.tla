----------------------------- MODULE Peer_proofs -----------------------------
(***************************************************************************)
(* What the fetch gets from one peer.  Its bytes (PeerStream), for every   *)
(* stream of frames, every way of cutting it into chunks and every         *)
(* capacity: between two messages the decoder stands where a frame begins, *)
(* every message before that place has been handed out, and none behind    *)
(* it.  Its pieces of an info dict (MetadataExchange), for every size of a *)
(* dict and of a piece, every channel and any number of messages.          *)
(***************************************************************************)
EXTENDS PeerStream, MetadataExchange, WellFoundedInduction, TLAPS

(***************************************************************************)
(* The bytes.                                                              *)
(***************************************************************************)

\* The channel holds what was written and not received yet, in order.
InChannel ==
  /\ received <= written /\ written <= Start[Frames + 1]
  /\ \A i \in DOMAIN chunks : received <= chunks[i] /\ chunks[i] <= written
  /\ \A i, j \in DOMAIN chunks : i < j => chunks[i] <= chunks[j]
  /\ IF chunks = <<>> THEN received = written ELSE chunks[Len(chunks)] = written

\* Frames 1..n have been dealt with.
DealtWith(n) ==
  /\ at = Start[n + 1]
  /\ at <= received
  /\ \A i \in DOMAIN out : out[i] \in Known /\ out[i] <= n
  /\ \A f \in Known : f <= n => Handed(f) /\ f <= Ordered!Last

Greeting == at = 0 /\ out = <<>> /\ received < HandshakeLen

\* Nothing complete is in the buffer.
Drained(n) == n < Frames => received < Start[n + 2]

Waiting == \E n \in 0..Frames : DealtWith(n) /\ Drained(n)

Progress ==
  /\ stage = "greeting" => Greeting
  /\ stage = "decoding" => \E n \in 0..Frames : DealtWith(n)
  /\ stage = "receiving" => Waiting
  /\ stage = "closed" => closed /\ (Greeting \/ Waiting) /\ received = written
  /\ FailureHasCause

StreamIInv == StreamTypeOK /\ InChannel /\ Progress

\* A set of natural numbers that is not empty has a least element.
LEMMA LeastNat ==
  ASSUME NEW T, T \subseteq Nat, T # {}
  PROVE  \E x \in T : \A y \in T : x <= y
<1>. DEFINE R == OpToRel(<, Nat)
<1>1. IsWellFoundedOn(R, Nat)  BY NatLessThanWellFounded
<1>2. \A x, y \in Nat : x < y => <<x, y>> \in R  BY Zenon DEF OpToRel
<1>. HIDE DEF R
<1>3. PICK x \in T : \A y \in T : ~(<<y, x>> \in R)  BY <1>1, WFMin
<1>4. ASSUME NEW y \in T PROVE x <= y
  <2>1. x \in Nat /\ y \in Nat  OBVIOUS
  <2>2. ~(y < x)  BY <1>2, <1>3, <2>1
  <2>. QED BY <2>1, <2>2
<1>. QED BY <1>4

\* Frames follow each other, so that a later one begins later: by induction,
\* for there is no first one that does not.
LEMMA StartsIncrease ==
  ASSUME NEW f \in 1..Frames + 1, NEW g \in 1..Frames + 1, f < g
  PROVE  Start[f] < Start[g]
<1>. SUFFICES ASSUME ~(Start[f] < Start[g]) PROVE FALSE  OBVIOUS
<1>. DEFINE T == {h \in f + 1..Frames + 1 : ~(Start[f] < Start[h])}
<1>1. T \subseteq Nat /\ T # {}  BY StreamAssumption
<1>2. PICK h \in T : \A k \in T : h <= k  BY <1>1, LeastNat
<1>3. h \in f + 1..Frames + 1 /\ h - 1 \in f..Frames /\ h - 1 \notin T
  BY <1>2, StreamAssumption
<1>4. /\ Start[h] = Start[h - 1] + PrefixLen + Body[h - 1]
      /\ Start[h - 1] \in Nat /\ Body[h - 1] \in Nat /\ Start[f] \in Nat /\ Start[h] \in Nat
  <2>1. h - 1 \in 1..Frames /\ (h - 1) + 1 = h  BY <1>3, StreamAssumption
  <2>2. h \in 1..Frames + 1 /\ h - 1 \in 1..Frames + 1  BY <1>3, StreamAssumption
  <2>. DEFINE k == h - 1
  <2>3. k \in 1..Frames /\ k + 1 = h  BY <2>1
  <2>. HIDE DEF k
  <2>4. Start[k + 1] = Start[k] + PrefixLen + Body[k] /\ Body[k] \in Nat
    BY <2>3, LayoutAssumption
  <2>5. Start[h] \in Nat /\ Start[h - 1] \in Nat /\ Start[f] \in Nat
    BY <2>2, LayoutAssumption
  <2>6. Start[h] = Start[k] + PrefixLen + Body[k]  BY <2>3, <2>4
  <2>. QED BY <2>4, <2>5, <2>6 DEF k
<1>5. Start[f] <= Start[h - 1]
  <2>1. CASE h - 1 = f  BY <1>4, <2>1
  <2>2. CASE h - 1 # f
    <3>1. h - 1 \in f + 1..Frames + 1  BY <1>3, <2>2, StreamAssumption
    <3>2. Start[f] < Start[h - 1]  BY <1>3, <3>1
    <3>. QED BY <1>4, <3>2
  <2>. QED BY <2>1, <2>2
<1>6. Start[f] < Start[h]  BY <1>4, <1>5, StreamAssumption
<1>. QED BY <1>6

\* A frame is found where it begins and nowhere else.
LEMMA FrameAtStart ==
  ASSUME NEW n \in 0..Frames
  PROVE  FrameAt(Start[n + 1]) = IF n < Frames THEN {n + 1} ELSE {}
<1>1. ASSUME NEW f \in 1..Frames, Start[f] = Start[n + 1] PROVE f = n + 1
  <2>1. f \in 1..Frames + 1 /\ n + 1 \in 1..Frames + 1  BY StreamAssumption
  <2>2. Start[f] \in Nat /\ Start[n + 1] \in Nat  BY <2>1, LayoutAssumption
  <2>3. f < n + 1 => Start[f] < Start[n + 1]
    BY <2>1, StartsIncrease
  <2>4. n + 1 < f => Start[n + 1] < Start[f]
    BY <2>1, StartsIncrease
  <2>. QED BY <1>1, <2>1, <2>2, <2>3, <2>4
<1>. QED BY <1>1, StreamAssumption DEF FrameAt

\* What the first chunk in the channel says and leaves.
LEMMA TakeInChannel ==
  ASSUME StreamTypeOK, InChannel, TakeChunk
  PROVE  /\ InChannel'
         /\ received' \in Nat /\ received <= received' /\ received' <= written
         /\ chunks' \in Seq(Nat) /\ Len(chunks') <= Capacity
<1>1. chunks \in Seq(Nat) /\ chunks # <<>> /\ Len(chunks) \in Nat \ {0}
  BY DEF StreamTypeOK, TakeChunk
<1>2. /\ chunks' = Tail(chunks) /\ Len(chunks') = Len(chunks) - 1
      /\ chunks' \in Seq(Nat)
      /\ \A i \in 1..Len(chunks) - 1 : chunks'[i] = chunks[i + 1]
      /\ received' = chunks[1] /\ written' = written
  BY <1>1 DEF TakeChunk
<1>3. received' \in Nat /\ received <= received' /\ received' <= written
  BY <1>1, <1>2 DEF InChannel
<1>4. DOMAIN chunks = 1..Len(chunks) /\ DOMAIN chunks' = 1..Len(chunks) - 1
  BY <1>1, <1>2
<1>5. \A i \in DOMAIN chunks' : received' <= chunks'[i] /\ chunks'[i] <= written'
  <2>. SUFFICES ASSUME NEW i \in 1..Len(chunks) - 1
                PROVE  chunks[1] <= chunks[i + 1] /\ chunks[i + 1] <= written
    BY <1>2, <1>4
  <2>. 1 \in DOMAIN chunks /\ i + 1 \in DOMAIN chunks /\ 1 < i + 1  BY <1>1, <1>4
  <2>. QED BY DEF InChannel
<1>6. \A i, j \in DOMAIN chunks' : i < j => chunks'[i] <= chunks'[j]
  <2>1. ASSUME NEW i \in 1..Len(chunks) - 1, NEW j \in 1..Len(chunks) - 1, i < j
        PROVE  chunks[i + 1] <= chunks[j + 1]
    <3>. i + 1 \in DOMAIN chunks /\ j + 1 \in DOMAIN chunks /\ i + 1 < j + 1  BY <2>1, <1>1, <1>4
    <3>. QED BY DEF InChannel
  <2>2. TAKE i, j \in DOMAIN chunks'
  <2>3. i \in 1..Len(chunks) - 1 /\ j \in 1..Len(chunks) - 1  BY <1>4
  <2>4. chunks'[i] = chunks[i + 1] /\ chunks'[j] = chunks[j + 1]  BY <2>3, <1>2
  <2>. QED BY <2>1, <2>3, <2>4
<1>7. IF chunks' = <<>> THEN received' = written' ELSE chunks'[Len(chunks')] = written'
  <2>1. CASE Len(chunks) = 1
    <3>. chunks' = <<>>  BY <2>1, <1>1, <1>2
    <3>. QED BY <2>1, <1>1, <1>2 DEF InChannel
  <2>2. CASE Len(chunks) # 1
    <3>1. Len(chunks') \in 1..Len(chunks) - 1 /\ Len(chunks') + 1 = Len(chunks)
      BY <2>2, <1>1, <1>2
    <3>2. chunks'[Len(chunks')] = chunks[Len(chunks)]  BY <3>1, <1>2
    <3>3. chunks' # <<>>  BY <3>1
    <3>. QED BY <3>2, <3>3, <1>1, <1>2 DEF InChannel
  <2>. QED BY <2>1, <2>2
<1>8. InChannel'
  BY <1>2, <1>3, <1>5, <1>6, <1>7 DEF InChannel
<1>9. Len(chunks') <= Capacity
  BY <1>1, <1>2, StreamAssumption DEF StreamTypeOK
<1>. QED BY <1>2, <1>3, <1>8, <1>9

\* The invariant holds at first.
LEMMA InitStream == StreamInit => StreamIInv
<1>. SUFFICES ASSUME StreamInit PROVE StreamIInv  OBVIOUS
<1>1. StreamTypeOK
  <2>1. chunks \in Seq(Nat) /\ Len(chunks) <= Capacity /\ out \in Seq(1..Frames)
    BY StreamAssumption DEF StreamInit
  <2>2. closed \in BOOLEAN  BY DEF StreamInit
  <2>. QED BY <2>1, <2>2 DEF StreamInit, StreamTypeOK, Stage
<1>2. InChannel
  <2>1. Start[Frames + 1] \in Nat  BY StreamAssumption, LayoutAssumption
  <2>. QED BY <2>1 DEF StreamInit, InChannel
<1>3. Progress
  BY StreamAssumption DEF StreamInit, Progress, Greeting, FailureHasCause
<1>. QED BY <1>1, <1>2, <1>3 DEF StreamIInv

\* Where the decoder stands decides what it reads as a length.
LEMMA LengthHere ==
  ASSUME NEW n \in 0..Frames, at = Start[n + 1], n < Frames
  PROVE  /\ LengthAt(at) = {Body[n + 1]} /\ FrameAt(at) = {n + 1}
         /\ Body[n + 1] \in Nat
         /\ Start[n + 2] = at + PrefixLen + Body[n + 1]
<1>1. FrameAt(at) = {n + 1}  BY FrameAtStart
<1>2. n + 1 \in 1..Frames /\ (n + 1) + 1 = n + 2  BY StreamAssumption
<1>. QED BY <1>1, <1>2, LayoutAssumption DEF LengthAt

\* One step of any kind keeps the types.
LEMMA StreamTypeStep ==
  ASSUME StreamTypeOK, [StreamNext]_streamVars
  PROVE  StreamTypeOK'
<1>1. CASE Arrive
  <2>. PICK n \in 0..MaxChunk : written' = written + n /\ chunks' = Append(chunks, written')
    BY <1>1 DEF Arrive
  <2>1. written' \in Nat  BY StreamAssumption DEF StreamTypeOK
  <2>2. chunks' \in Seq(Nat) /\ Len(chunks') = Len(chunks) + 1  BY <2>1 DEF StreamTypeOK
  <2>3. Len(chunks') <= Capacity  BY <2>2, <1>1, StreamAssumption DEF StreamTypeOK, Arrive, HasRoom
  <2>. QED BY <2>1, <2>2, <2>3, <1>1 DEF StreamTypeOK, Arrive
<1>2. CASE Close
  BY <1>2 DEF StreamTypeOK, Close
<1>3. CASE TakeChunk /\ UNCHANGED out /\ at' \in Nat /\ stage' \in Stage
  <2>1. chunks # <<>> /\ chunks \in Seq(Nat)  BY <1>3 DEF StreamTypeOK, TakeChunk
  <2>2. chunks' \in Seq(Nat) /\ Len(chunks') <= Capacity /\ received' \in Nat
    BY <1>3, <2>1, StreamAssumption DEF StreamTypeOK, TakeChunk
  <2>. QED BY <1>3, <2>2 DEF StreamTypeOK, TakeChunk
<1>4. Greet => TakeChunk /\ UNCHANGED out /\ at' \in Nat /\ stage' \in Stage
  BY StreamAssumption DEF StreamTypeOK, Greet, Decoded, Greeted, Stage
<1>5. Receive => TakeChunk /\ UNCHANGED out /\ at' \in Nat /\ stage' \in Stage
  BY DEF StreamTypeOK, Receive, Stage
<1>6. CASE PeerClosed \/ PopNone \/ PopTooLarge
  BY <1>6 DEF StreamTypeOK, PeerClosed, PopNone, PopTooLarge, wireVars, Stage
<1>7. CASE Advance /\ out' \in Seq(1..Frames) /\ stage' \in Stage
  <2>1. at' \in Nat
    <3>. PICK len \in LengthAt(at) : at' = at + PrefixLen + len  BY <1>7 DEF Advance
    <3>1. len \in Nat  BY StreamAssumption, LayoutAssumption DEF LengthAt, FrameAt
    <3>. QED BY <3>1, StreamAssumption DEF StreamTypeOK
  <2>. QED BY <1>7, <2>1 DEF StreamTypeOK, Advance, wireVars
<1>8. PopMessage => Advance /\ out' \in Seq(1..Frames) /\ stage' \in Stage
  BY DEF StreamTypeOK, PopMessage, FrameAt, Stage
<1>9. PopMalformed \/ SkipUnknown => Advance /\ out' \in Seq(1..Frames) /\ stage' \in Stage
  BY DEF StreamTypeOK, PopMalformed, SkipUnknown, AfterSkip, Stage
<1>10. CASE UNCHANGED streamVars
  BY <1>10 DEF StreamTypeOK, streamVars, wireVars
<1>. QED
  BY <1>1, <1>2, <1>3, <1>4, <1>5, <1>6, <1>7, <1>8, <1>9, <1>10 DEF StreamNext, ReadStream

LEMMA InChannelStep ==
  ASSUME StreamTypeOK, InChannel, [StreamNext]_streamVars
  PROVE  InChannel'
<1>1. CASE Arrive
  <2>. PICK n \in 0..MaxChunk :
         /\ written' = written + n /\ chunks' = Append(chunks, written')
         /\ written + n <= Start[Frames + 1]
    BY <1>1 DEF Arrive
  <2>1. /\ written' \in Nat /\ written <= written' /\ received' = received
        /\ written' <= Start[Frames + 1]
    BY <1>1, StreamAssumption DEF StreamTypeOK, Arrive
  <2>2. /\ chunks \in Seq(Nat) /\ Len(chunks) \in Nat /\ DOMAIN chunks = 1..Len(chunks)
        /\ DOMAIN chunks' = 1..Len(chunks) + 1 /\ Len(chunks') = Len(chunks) + 1
        /\ \A i \in 1..Len(chunks) : chunks'[i] = chunks[i]
        /\ chunks'[Len(chunks) + 1] = written'
    BY <2>1 DEF StreamTypeOK
  <2>3. \A i \in 1..Len(chunks) : chunks[i] \in Nat /\ received <= chunks[i] /\ chunks[i] <= written
    BY <2>2, SMTT(60) DEF InChannel
  <2>4. received <= written /\ received \in Nat /\ written \in Nat  BY DEF InChannel, StreamTypeOK
  <2>5. \A i \in DOMAIN chunks' :
          i \in 1..Len(chunks) \/ (i = Len(chunks) + 1 /\ chunks'[i] = written')
    BY <2>2
  <2>6. \A i \in DOMAIN chunks' : received' <= chunks'[i] /\ chunks'[i] <= written'
    BY <2>1, <2>2, <2>3, <2>4, <2>5
  <2>7. \A i, j \in DOMAIN chunks' : i < j => chunks'[i] <= chunks'[j]
    <3>. SUFFICES ASSUME NEW i \in DOMAIN chunks', NEW j \in DOMAIN chunks', i < j
                  PROVE  chunks'[i] <= chunks'[j]
      OBVIOUS
    <3>1. i \in 1..Len(chunks)  BY <2>2
    <3>2. CASE j \in 1..Len(chunks)
      BY <3>1, <3>2, <2>2 DEF InChannel
    <3>3. CASE chunks'[j] = written'
      BY <3>1, <3>3, <2>6
    <3>. QED BY <3>2, <3>3, <2>5
  <2>8. chunks' # <<>>  BY <2>2
  <2>. QED BY <2>1, <2>2, <2>4, <2>6, <2>7, <2>8, SMTT(60) DEF InChannel
<1>2. CASE Greet \/ Receive
  BY <1>2, TakeInChannel DEF Greet, Receive
<1>3. CASE UNCHANGED <<chunks, written, received>>
  BY <1>3 DEF InChannel
<1>. QED
  BY <1>1, <1>2, <1>3 DEF StreamNext, ReadStream, streamVars, wireVars, Close, PeerClosed, PopNone, PopTooLarge,
     PopMessage, PopMalformed, SkipUnknown, Advance

\* More bytes do not undo what was dealt with.
LEMMA StillDealtWith ==
  ASSUME StreamTypeOK, NEW n \in 0..Frames, DealtWith(n),
         received' \in Nat, received <= received', UNCHANGED <<at, out>>
  PROVE  DealtWith(n)'
BY DEF StreamTypeOK, DealtWith, Handed, Ordered!Last

LEMMA ProgressKept ==
  ASSUME Progress, UNCHANGED <<received, at, out, stage>>, stage = "closed" => UNCHANGED <<written, closed>>
  PROVE  Progress'
BY DEF Progress, Greeting, Waiting, Drained, DealtWith, Handed, Ordered!Last, FailureHasCause

\* Whoever reads a length prefix reads that of the next frame.
LEMMA PrefixRead ==
  ASSUME StreamTypeOK, InChannel, NEW n \in 0..Frames, DealtWith(n), Buffered >= PrefixLen
  PROVE  /\ n + 1 \in 1..Frames
         /\ LengthAt(at) = {Body[n + 1]} /\ FrameAt(at) = {n + 1}
         /\ Start[n + 2] = at + PrefixLen + Body[n + 1]
         /\ Body[n + 1] \in Nat
<1>1. n # Frames
  <2>. SUFFICES ASSUME n = Frames PROVE FALSE  OBVIOUS
  <2>1. at = Start[Frames + 1] /\ Start[Frames + 1] \in Nat
    BY StreamAssumption, LayoutAssumption DEF DealtWith
  <2>2. received <= Start[Frames + 1]  BY <2>1 DEF InChannel, StreamTypeOK
  <2>. QED BY <2>1, <2>2, StreamAssumption DEF Buffered, StreamTypeOK
<1>2. at = Start[n + 1]  BY DEF DealtWith
<1>. QED BY <1>1, <1>2, LengthHere, StreamAssumption

\* A frame taken out of the buffer is dealt with, whether run_peer sees it or not.
LEMMA AdvanceStep ==
  ASSUME StreamTypeOK, InChannel, NEW n \in 0..Frames, DealtWith(n), Advance,
         \/ Kind[n + 1] # "unknown" /\ out' = Append(out, n + 1)
         \/ Kind[n + 1] = "unknown" /\ UNCHANGED out
  PROVE  n + 1 \in 1..Frames /\ at' = Start[n + 2] /\ DealtWith(n + 1)'
<1>1. /\ n + 1 \in 1..Frames /\ Body[n + 1] \in Nat
      /\ LengthAt(at) = {Body[n + 1]} /\ Start[n + 2] = at + PrefixLen + Body[n + 1]
  BY PrefixRead DEF Advance
<1>2. /\ at' = Start[n + 2] /\ received' = received
      /\ received - at >= PrefixLen + Body[n + 1]
  BY <1>1 DEF Advance, Buffered
<1>3. at' <= received'
  BY <1>1, <1>2, StreamAssumption, SMTT(60) DEF StreamTypeOK
<1>4. (n + 1) + 1 = n + 2  OBVIOUS
<1>5. CASE Kind[n + 1] # "unknown" /\ out' = Append(out, n + 1)
  <2>1. /\ DOMAIN out = 1..Len(out) /\ Len(out) \in Nat
        /\ DOMAIN out' = 1..Len(out) + 1 /\ Len(out') = Len(out) + 1
        /\ \A i \in 1..Len(out) : out'[i] = out[i]
        /\ out'[Len(out) + 1] = n + 1
    BY <1>5, <1>1 DEF StreamTypeOK
  <2>2. n + 1 \in Known  BY <1>5, <1>1 DEF Known
  <2>3. \A i \in DOMAIN out' : out'[i] \in Known /\ out'[i] <= n + 1
    <3>. SUFFICES ASSUME NEW i \in DOMAIN out' PROVE out'[i] \in Known /\ out'[i] <= n + 1
      OBVIOUS
    <3>1. CASE i \in 1..Len(out)
      <4>1. out'[i] = out[i] /\ out[i] \in Known /\ out[i] <= n
        BY <3>1, <2>1 DEF DealtWith
      <4>. QED BY <4>1 DEF Known
    <3>2. CASE i = Len(out) + 1
      BY <3>2, <2>1, <2>2
    <3>. QED BY <3>1, <3>2, <2>1
  <2>4. Ordered!Last' = n + 1
    <3>. out' # <<>>  BY <2>1
    <3>. QED BY <2>1 DEF Ordered!Last
  <2>5. ASSUME NEW f \in Known, f <= n + 1 PROVE Handed(f)' /\ f <= Ordered!Last'
    <3>1. CASE f = n + 1
      <4>. Len(out) + 1 \in DOMAIN out' /\ out'[Len(out) + 1] = f  BY <3>1, <2>1
      <4>. QED BY <2>4, <2>5 DEF Handed
    <3>2. CASE f # n + 1
      <4>1. f <= n  BY <3>2, <2>5 DEF Known
      <4>2. PICK i \in DOMAIN out : out[i] = f  BY <4>1 DEF DealtWith, Handed
      <4>3. i \in DOMAIN out' /\ out'[i] = f  BY <4>2, <2>1
      <4>. QED BY <4>3, <2>4, <2>5 DEF Handed
    <3>. QED BY <3>1, <3>2
  <2>. QED BY <1>1, <1>2, <1>3, <1>4, <2>3, <2>5 DEF DealtWith
<1>6. CASE Kind[n + 1] = "unknown" /\ UNCHANGED out
  <2>1. n + 1 \notin Known  BY <1>6 DEF Known
  <2>2. Ordered!Last' = Ordered!Last  BY <1>6 DEF Ordered!Last
  <2>3. ASSUME NEW f \in Known, f <= n + 1 PROVE Handed(f)' /\ f <= Ordered!Last'
    <3>1. f <= n  BY <2>1, <2>3 DEF Known
    <3>. QED BY <3>1, <2>2, <1>6 DEF DealtWith, Handed
  <2>4. \A i \in DOMAIN out' : out'[i] \in Known /\ out'[i] <= n + 1
    BY <1>6 DEF DealtWith, Known
  <2>. QED BY <1>1, <1>2, <1>3, <1>4, <2>3, <2>4 DEF DealtWith
<1>. QED BY <1>1, <1>2, <1>5, <1>6

LEMMA ProgressStep ==
  ASSUME StreamTypeOK, StreamTypeOK', InChannel, Progress, [StreamNext]_streamVars
  PROVE  Progress'
<1>1. CASE Arrive \/ Close \/ UNCHANGED streamVars
  BY <1>1, ProgressKept DEF Progress, Arrive, Close, streamVars, wireVars
<1>2. CASE Greet
  <2>1. Greeting /\ UNCHANGED out  BY <1>2 DEF Greet, Progress
  <2>2. CASE received' < HandshakeLen
    BY <2>1, <2>2, <1>2 DEF Greet, Greeting, Progress, FailureHasCause
  <2>3. CASE ~(received' < HandshakeLen)
    <3>1. at' = HandshakeLen /\ stage' \in {"decoding", "refused"} /\ out' = <<>>
      BY <2>1, <2>3, <1>2 DEF Greet, Greeting, Decoded, Greeted
    <3>2. 0 \in 0..Frames /\ at' = Start[0 + 1] /\ at' <= received'
      BY <3>1, <2>3, StreamAssumption, LayoutAssumption DEF StreamTypeOK
    <3>3. DealtWith(0)'
      <4>1. \A f \in Known : ~(f <= 0)  BY StreamAssumption DEF Known
      <4>. QED BY <3>1, <3>2, <4>1 DEF DealtWith
    <3>. QED BY <3>1, <3>2, <3>3 DEF Progress, FailureHasCause
  <2>. QED BY <2>2, <2>3
<1>3. CASE Receive
  <2>. PICK n \in 0..Frames : DealtWith(n)  BY <1>3 DEF Receive, Progress, Waiting
  <2>1. DealtWith(n)'
    BY <1>3, TakeInChannel, StillDealtWith DEF Receive
  <2>. QED BY <1>3, <2>1 DEF Receive, Progress, FailureHasCause
<1>4. CASE PeerClosed
  <2>1. Greeting \/ Waiting  BY <1>4 DEF PeerClosed, Progress
  <2>2. (Greeting \/ Waiting)'
    BY <2>1, <1>4 DEF PeerClosed, wireVars, Greeting, Waiting, Drained, DealtWith, Handed, Ordered!Last
  <2>3. closed' /\ received' = written'
    BY <1>4 DEF PeerClosed, SenderGone, InChannel, wireVars
  <2>. QED BY <1>4, <2>2, <2>3 DEF PeerClosed, Progress, FailureHasCause
<1>5. CASE PopNone
  <2>. PICK n \in 0..Frames : DealtWith(n)  BY <1>5 DEF PopNone, Progress
  <2>1. Drained(n)
    <3>. SUFFICES ASSUME n < Frames PROVE received < Start[n + 2]  BY DEF Drained
    <3>1. at = Start[n + 1]  BY DEF DealtWith
    <3>2. /\ LengthAt(at) = {Body[n + 1]} /\ Body[n + 1] \in Nat
          /\ Start[n + 2] = at + PrefixLen + Body[n + 1]
      BY <3>1, LengthHere
    <3>3. Buffered < PrefixLen + Body[n + 1]
      BY <1>5, <3>2, StreamAssumption, SMTT(60) DEF PopNone, Buffered, StreamTypeOK
    <3>4. at \in Nat /\ received \in Nat  BY DEF StreamTypeOK
    <3>5. received - at < PrefixLen + Body[n + 1]  BY <3>3 DEF Buffered
    <3>6. received < at + PrefixLen + Body[n + 1]  BY <3>2, <3>4, <3>5, StreamAssumption
    <3>. QED BY <3>2, <3>6
  <2>2. Waiting'
    BY <2>1, <1>5 DEF PopNone, wireVars, Waiting, Drained, DealtWith, Handed, Ordered!Last
  <2>. QED BY <1>5, <2>2 DEF PopNone, Progress, FailureHasCause
<1>6. CASE PopTooLarge
  <2>. PICK n \in 0..Frames : DealtWith(n)  BY <1>6 DEF PopTooLarge, Progress
  <2>1. n + 1 \in 1..Frames /\ Body[n + 1] > MaxFrame
    BY <1>6, PrefixRead DEF PopTooLarge, TooLarge
  <2>2. at' = Start[n + 1]  BY <1>6 DEF PopTooLarge, DealtWith
  <2>. QED BY <1>6, <2>1, <2>2 DEF PopTooLarge, Progress, FailureHasCause
<1>7. CASE PopMessage
  <2>. PICK n \in 0..Frames : DealtWith(n)  BY <1>7 DEF PopMessage, Advance, Progress
  <2>1. FrameAt(at) = {n + 1}  BY <1>7, PrefixRead DEF PopMessage, Advance
  <2>2. Kind[n + 1] # "unknown" /\ out' = Append(out, n + 1)  BY <1>7, <2>1 DEF PopMessage
  <2>3. n + 1 \in 0..Frames /\ DealtWith(n + 1)'
    BY <1>7, <2>2, AdvanceStep DEF PopMessage
  <2>. QED BY <1>7, <2>3 DEF PopMessage, Progress, FailureHasCause
<1>8. CASE PopMalformed
  <2>. PICK n \in 0..Frames : DealtWith(n)  BY <1>8 DEF PopMalformed, Advance, Progress
  <2>1. FrameAt(at) = {n + 1}  BY <1>8, PrefixRead DEF PopMalformed, Advance
  <2>2. Kind[n + 1] = "doubtful"  BY <1>8, <2>1 DEF PopMalformed
  <2>3. n + 1 \in 1..Frames /\ at' = Start[n + 2]
    BY <1>8, PrefixRead DEF PopMalformed, Advance
  <2>4. (n + 1) + 1 = n + 2  OBVIOUS
  <2>. QED BY <1>8, <2>2, <2>3, <2>4 DEF PopMalformed, Progress, FailureHasCause
<1>9. CASE SkipUnknown
  <2>. PICK n \in 0..Frames : DealtWith(n)  BY <1>9 DEF SkipUnknown, Advance, Progress
  <2>1. FrameAt(at) = {n + 1}  BY <1>9, PrefixRead DEF SkipUnknown, Advance
  <2>2. Kind[n + 1] = "unknown" /\ UNCHANGED out  BY <1>9, <2>1 DEF SkipUnknown
  <2>3. n + 1 \in 0..Frames /\ DealtWith(n + 1)'
    BY <1>9, <2>2, AdvanceStep DEF SkipUnknown
  <2>. QED BY <1>9, <2>3 DEF SkipUnknown, AfterSkip, Progress, FailureHasCause
<1>. QED
  BY <1>1, <1>2, <1>3, <1>4, <1>5, <1>6, <1>7, <1>8, <1>9 DEF StreamNext, ReadStream

-----------------------------------------------------------------------------

\* The inductive invariant holds always.
THEOREM StreamInvariance == StreamSpec => []StreamIInv
<1>1. StreamIInv /\ [StreamNext]_streamVars => StreamIInv'
  BY StreamTypeStep, InChannelStep, ProgressStep DEF StreamIInv
<1>. QED BY <1>1, InitStream, PTL DEF StreamSpec

\* Types, and a channel that never holds more than its capacity.
THEOREM StreamTypeCorrect == StreamSpec => []StreamTypeOK
BY StreamInvariance, PTL DEF StreamIInv

\* A close is noticed after everything that arrived before it.
LEMMA ClosedIsLast == StreamIInv /\ stage = "closed" => received = written
  BY DEF StreamIInv, Progress

\* However the bytes are cut into chunks, run_peer does not wait for more of
\* them while a message is complete in what it has,
\* nor leaves at a close before it has seen them all.
THEOREM NothingIsLeftBehind == StreamSpec => []NothingLeftBehind
<1>1. StreamIInv => NothingLeftBehind
  <2>. SUFFICES ASSUME StreamIInv, stage \in {"receiving", "closed"},
                       NEW f \in Known, Start[f + 1] <= received
                PROVE  Handed(f)
    BY ClosedIsLast DEF NothingLeftBehind
  <2>1. f \in 1..Frames /\ f + 1 \in 1..Frames + 1 /\ f \in Nat /\ 1 \in 1..Frames + 1
    BY StreamAssumption DEF Known
  <2>2. CASE Greeting
    <3>. Start[1] = HandshakeLen /\ Start[1] < Start[f + 1] /\ Start[f + 1] \in Nat
      BY <2>1, StartsIncrease, LayoutAssumption
    <3>. QED BY <2>2, StreamAssumption DEF Greeting, StreamIInv, StreamTypeOK
  <2>3. ASSUME NEW n \in 0..Frames, DealtWith(n), Drained(n) PROVE Handed(f)
    <3>1. CASE f <= n
      BY <3>1, <2>3 DEF DealtWith
    <3>2. CASE ~(f <= n)
      <4>1. n < Frames /\ n + 2 \in 1..Frames + 1 /\ n + 2 <= f + 1
        BY <3>2, <2>1, StreamAssumption
      <4>2. Start[n + 2] <= Start[f + 1] /\ Start[n + 2] \in Nat /\ Start[f + 1] \in Nat
        <5>1. CASE n + 2 = f + 1
          BY <5>1, <2>1, LayoutAssumption
        <5>2. CASE n + 2 < f + 1
          <6>1. Start[n + 2] < Start[f + 1]  BY <5>2, <4>1, <2>1, StartsIncrease
          <6>. QED BY <6>1, <4>1, <2>1, LayoutAssumption
        <5>. QED BY <5>1, <5>2, <4>1, <2>1
      <4>3. received < Start[n + 2]  BY <4>1, <2>3 DEF Drained
      <4>. QED BY <4>2, <4>3 DEF StreamIInv, StreamTypeOK
    <3>. QED BY <3>1, <3>2
  <2>. QED BY <2>2, <2>3 DEF StreamIInv, Progress, Waiting
<1>. QED BY <1>1, StreamInvariance, PTL

\* The decoder gives up only for a frame it must refuse.
THEOREM FailureIsJustified == StreamSpec => []FailureHasCause
<1>1. StreamIInv => FailureHasCause
  BY DEF StreamIInv, Progress
<1>. QED BY <1>1, StreamInvariance, PTL
\* run_peer sees what InOrderDelivery promises: the messages it knows, each
\* once, in order, none left out.
THEOREM StreamRefinement == StreamSpec => DeliversInOrder
<1>1. StreamInit => Ordered!Init
  BY DEF StreamInit, Ordered!Init, Over
<1>2. ASSUME StreamIInv, [StreamNext]_streamVars
      PROVE  [Ordered!Next]_<<out, Over>>
  <2>. StreamTypeOK /\ InChannel /\ Progress  BY <1>2 DEF StreamIInv
  <2>1. CASE PopMessage
    <3>. PICK n \in 0..Frames : DealtWith(n)  BY <2>1 DEF PopMessage, Advance, Progress
    <3>1. n + 1 \in 1..Frames /\ FrameAt(at) = {n + 1}
      BY <2>1, PrefixRead DEF PopMessage, Advance
    <3>2. n + 1 \in Known /\ out' = Append(out, n + 1)
      BY <2>1, <3>1 DEF PopMessage, Known
    <3>3. Ordered!Last < n + 1
      <4>1. CASE out = <<>>
        BY <4>1 DEF Ordered!Last
      <4>2. CASE out # <<>>
        <5>. Len(out) \in DOMAIN out  BY <4>2 DEF StreamTypeOK
        <5>1. out[Len(out)] \in Known /\ out[Len(out)] <= n  BY DEF DealtWith
        <5>. QED BY <4>2, <5>1 DEF Ordered!Last, Known
      <4>. QED BY <4>1, <4>2
    <3>4. \A g \in Known : g <= Ordered!Last \/ n + 1 <= g
      <4>. SUFFICES ASSUME NEW g \in Known, ~(n + 1 <= g) PROVE g <= Ordered!Last  OBVIOUS
      <4>1. g <= n  BY DEF Known
      <4>. QED BY <4>1 DEF DealtWith
    <3>5. ~Over /\ Over' \in BOOLEAN  BY <2>1 DEF PopMessage, Advance, Over
    <3>. QED BY <3>2, <3>3, <3>4, <3>5 DEF Ordered!Next, Ordered!Deliver
  <2>2. CASE UNCHANGED <<out, stage>>
    BY <2>2 DEF Over
  <2>3. CASE UNCHANGED out /\ ~Over
    BY <2>3 DEF Ordered!Next, Ordered!End, Over
  <2>. QED
    BY <1>2, <2>1, <2>2, <2>3 DEF StreamNext, ReadStream, Arrive, Close, Greet, Receive, PeerClosed, PopNone,
       PopTooLarge, PopMalformed, SkipUnknown, Advance, streamVars, Over
<1>. QED BY <1>1, <1>2, StreamInvariance, PTL DEF StreamSpec, DeliversInOrder, Ordered!Spec

(***************************************************************************)
(* The pieces.                                                             *)
(***************************************************************************)

\* A peer that has the info dict says one size, and nothing that cannot be read.
Polite ==
  honest => \A k \in DOMAIN inbox :
              /\ inbox[k].type \in {"size", "other", "data"}
              /\ inbox[k].type = "size" => inbox[k].size = TrueSize

IInv == TypeOK /\ Polite /\ NothingForgotten

\* s pieces of one byte are as many as there can be; this many are enough, and
\* one less is not.
LEMMA PieceCount ==
  ASSUME NEW s \in Nat
  PROVE  /\ NumPieces(s) \in Nat
         /\ \A i \in Nat : i < NumPieces(s) <=> i * PieceSize < s
         /\ \A i \in Indices(s) : Expected(s, i) \in 1..PieceSize
<1>. DEFINE n == NumPieces(s)
            r == (s + PieceSize - 1) % PieceSize
<1>1. PieceSize \in Nat \ {0}
  BY SizeAssumption
<1>2. n \in Nat /\ r \in 0..PieceSize - 1 /\ s + PieceSize - 1 = PieceSize * n + r
  BY <1>1 DEF NumPieces
<1>. HIDE DEF n, r
<1>3. ASSUME NEW i \in Nat
      PROVE  i < n <=> i * PieceSize < s
  <2>1. i * PieceSize \in Nat /\ n * PieceSize \in Nat
    BY <1>1, <1>2
  <2>2. ASSUME i < n PROVE i * PieceSize < s
    <3>1. (i + 1) * PieceSize <= n * PieceSize
      BY <1>1, <1>2, <2>2
    <3>2. (i + 1) * PieceSize = i * PieceSize + PieceSize
      BY <1>1
    <3>. QED BY <1>1, <1>2, <2>1, <3>1, <3>2
  <2>3. ASSUME n <= i PROVE s <= i * PieceSize
    <3>1. n * PieceSize <= i * PieceSize
      BY <1>1, <1>2, <2>3
    <3>. QED BY <1>1, <1>2, <2>1, <3>1
  <2>. QED BY <1>1, <1>2, <2>1, <2>2, <2>3
<1>4. ASSUME NEW i \in Indices(s) PROVE Expected(s, i) \in 1..PieceSize
  <2>1. i \in Nat /\ i * PieceSize < s /\ i * PieceSize \in Nat
    BY <1>1, <1>3 DEF Indices, n
  <2>. QED BY <1>1, <2>1 DEF Expected
<1>. QED BY <1>2, <1>3, <1>4 DEF n

LEMMA NoPieces == Indices(0) = {}
<1>1. \A i \in Nat : i < NumPieces(0) <=> i * PieceSize < 0
  BY PieceCount
<1>2. 0 * PieceSize = 0
  BY SizeAssumption
<1>. QED BY <1>1, <1>2 DEF Indices

\* A smaller size has no more pieces.
LEMMA SmallerSize ==
  ASSUME NEW s \in Nat, NEW t \in Nat, s <= t
  PROVE  Indices(s) \subseteq Indices(t)
<1>. SUFFICES ASSUME NEW i \in Indices(s) PROVE i \in Indices(t)
  OBVIOUS
<1>1. i \in Nat /\ i \in 0..s /\ i * PieceSize < s /\ i * PieceSize \in Nat
  BY PieceCount, SizeAssumption DEF Indices
<1>2. i < NumPieces(t)
  BY <1>1, PieceCount
<1>. QED BY <1>1, <1>2 DEF Indices

\* What is said of a message is what a message of that type has.
LEMMA MessageFields ==
  ASSUME NEW m \in Message
  PROVE  /\ m.type = "size" => m.size \in Sizes
         /\ m.type = "data" => /\ m.piece \in 0..LargestPiece /\ m.len \in 0..PieceSize
                               /\ m.true \in BOOLEAN
BY DEF Message

LEMMA InitIInv == Init => IInv
<1>. SUFFICES ASSUME Init PROVE IInv
  OBVIOUS
<1>1. Indices(0) = {}
  BY NoPieces
<1>2. TypeOK
  <2>1. inbox \in Seq(Message) /\ budget \in 0..MaxMessages /\ size = 0 /\ size <= MaxSize
    BY SizeAssumption DEF Init
  <2>2. pieces \in [Indices(size) -> {"missing", "true", "junk"}] /\ asked \subseteq Indices(MaxSize)
    BY DEF Init
  <2>. QED BY <2>1, <2>2 DEF Init, TypeOK
<1>3. Polite /\ NothingForgotten
  BY <1>1 DEF Init, Polite, NothingForgotten
<1>. QED BY <1>2, <1>3 DEF IInv

\* The first message leaves the inbox, and those behind it stay.
LEMMA TakeStep ==
  ASSUME IInv, NEW type, Take(type)
  PROVE  /\ Head(inbox) \in Message /\ Head(inbox).type = type /\ task = "running"
         /\ inbox' \in Seq(Message) /\ Polite'
         /\ honest => type \in {"size", "other", "data"}
         /\ honest /\ type = "size" => Head(inbox).size = TrueSize
         /\ honest' = honest /\ budget' = budget
         /\ \A k \in DOMAIN inbox : k # 1 => \E j \in DOMAIN inbox' : inbox'[j] = inbox[k]
<1>1. /\ inbox \in Seq(Message) /\ inbox # <<>> /\ inbox' = Tail(inbox)
      /\ UNCHANGED <<honest, budget>> /\ Head(inbox).type = type /\ task = "running"
  BY DEF IInv, TypeOK, Take
<1>2. /\ Head(inbox) = inbox[1] /\ 1 \in DOMAIN inbox /\ Head(inbox) \in Message
      /\ inbox' \in Seq(Message) /\ Len(inbox) \in Nat /\ Len(inbox') = Len(inbox) - 1
      /\ \A j \in 1..Len(inbox) - 1 : inbox'[j] = inbox[j + 1]
  BY <1>1
<1>3. DOMAIN inbox = 1..Len(inbox) /\ DOMAIN inbox' = 1..Len(inbox) - 1
  BY <1>1, <1>2
<1>4. \A k \in DOMAIN inbox : k # 1 => \E j \in DOMAIN inbox' : inbox'[j] = inbox[k]
  <2>. SUFFICES ASSUME NEW k \in 1..Len(inbox), k # 1
                PROVE  \E j \in DOMAIN inbox' : inbox'[j] = inbox[k]
    BY <1>3
  <2>1. k - 1 \in 1..Len(inbox) - 1 /\ inbox'[k - 1] = inbox[k]
    BY <1>2
  <2>. QED BY <1>3, <2>1
<1>5. Polite'
  <2>. SUFFICES ASSUME honest, NEW j \in 1..Len(inbox) - 1
                PROVE  /\ inbox'[j].type \in {"size", "other", "data"}
                       /\ inbox'[j].type = "size" => inbox'[j].size = TrueSize
    BY <1>1, <1>3 DEF Polite
  <2>1. inbox'[j] = inbox[j + 1] /\ j + 1 \in DOMAIN inbox
    BY <1>2, <1>3
  <2>. QED BY <2>1 DEF IInv, Polite
<1>6. honest => /\ Head(inbox).type \in {"size", "other", "data"}
                /\ Head(inbox).type = "size" => Head(inbox).size = TrueSize
  BY <1>2 DEF IInv, Polite
<1>. QED BY <1>1, <1>2, <1>4, <1>5, <1>6

LEMMA PutStep ==
  ASSUME IInv, NEW m \in Message, Put(m), UNCHANGED honest,
         honest => /\ m.type \in {"size", "other", "data"}
                   /\ m.type = "size" => m.size = TrueSize
  PROVE  /\ inbox' \in Seq(Message) /\ Polite'
         /\ \A k \in DOMAIN inbox : \E j \in DOMAIN inbox' : inbox'[j] = inbox[k]
         /\ \E j \in DOMAIN inbox' : inbox'[j] = m
<1>1. inbox \in Seq(Message) /\ inbox' = Append(inbox, m)
  BY DEF IInv, TypeOK, Put
<1>2. /\ inbox' \in Seq(Message) /\ Len(inbox) \in Nat /\ Len(inbox') = Len(inbox) + 1
      /\ \A k \in 1..Len(inbox) : inbox'[k] = inbox[k]
      /\ inbox'[Len(inbox) + 1] = m
  BY <1>1
<1>3. DOMAIN inbox = 1..Len(inbox) /\ DOMAIN inbox' = 1..Len(inbox) + 1
  BY <1>1, <1>2
<1>4. Polite'
  <2>. SUFFICES ASSUME honest, NEW k \in 1..Len(inbox) + 1
                PROVE  /\ inbox'[k].type \in {"size", "other", "data"}
                       /\ inbox'[k].type = "size" => inbox'[k].size = TrueSize
    BY <1>3 DEF Polite
  <2>1. CASE k = Len(inbox) + 1
    BY <1>2, <2>1
  <2>2. CASE k \in 1..Len(inbox)
    BY <1>2, <1>3, <2>2 DEF IInv, Polite
  <2>. QED BY <1>2, <2>1, <2>2
<1>5. Len(inbox) + 1 \in DOMAIN inbox'
  BY <1>2, <1>3
<1>6. ASSUME NEW k \in DOMAIN inbox PROVE k \in DOMAIN inbox' /\ inbox'[k] = inbox[k]
  BY <1>2, <1>3
<1>. QED BY <1>2, <1>4, <1>5, <1>6

LEMMA HandleSizeStep == IInv /\ HandleSize => IInv'
<1>. SUFFICES ASSUME IInv, HandleSize PROVE IInv'
  OBVIOUS
<1>. DEFINE s == Head(inbox).size
<1>1. Take("size")
  BY DEF HandleSize
<1>2. /\ inbox' \in Seq(Message) /\ Polite' /\ honest' = honest /\ budget' = budget
      /\ s \in Sizes /\ Head(inbox).type = "size"
      /\ \A k \in DOMAIN inbox : k # 1 => \E j \in DOMAIN inbox' : inbox'[j] = inbox[k]
  BY <1>1, TakeStep, MessageFields
<1>. HIDE DEF s
<1>3. CASE UNCHANGED <<asked, asmVars>> /\ task' \in {task, "failed"}
  <2>1. TypeOK'
    BY <1>2, <1>3 DEF IInv, TypeOK, asmVars
  <2>2. NothingForgotten'
    <3>. SUFFICES ASSUME honest, task = "running", NEW i \in Indices(size), pieces[i] = "missing",
                         i \notin asked
                  PROVE  \E j \in DOMAIN inbox' : inbox'[j].type = "data" /\ inbox'[j].piece = i
      BY <1>2, <1>3 DEF NothingForgotten, asmVars, IInv, TypeOK
    <3>1. PICK k \in DOMAIN inbox : inbox[k].type = "data" /\ inbox[k].piece = i
      BY DEF IInv, NothingForgotten
    <3>2. k # 1
      BY <1>2, <3>1
    <3>. QED BY <1>2, <3>1, <3>2
  <2>. QED BY <1>2, <2>1, <2>2 DEF IInv
<1>4. CASE /\ SizeOk(s) /\ size' = s /\ pieces' = [i \in Indices(s) |-> "missing"]
           /\ asked' = asked \cup Requested(s) /\ UNCHANGED task
  <2>1. Indices(s) \subseteq Indices(MaxSize)
    BY <1>4, SmallerSize, SizeAssumption DEF SizeOk
  <2>2. TypeOK'
    BY <1>2, <1>4, <2>1 DEF IInv, TypeOK, SizeOk, Requested
  <2>3. NothingForgotten'
    BY <1>4 DEF NothingForgotten, Requested
  <2>. QED BY <1>2, <2>2, <2>3 DEF IInv
<1>. QED BY <1>3, <1>4 DEF HandleSize, s

LEMMA HandleDataStep == IInv /\ HandleData => IInv'
<1>. SUFFICES ASSUME IInv, HandleData PROVE IInv'
  OBVIOUS
<1>. DEFINE d == Head(inbox)
<1>1. Take("data") /\ UNCHANGED asked
  BY DEF HandleData
<1>2. /\ inbox' \in Seq(Message) /\ Polite' /\ honest' = honest /\ budget' = budget
      /\ d = inbox[1] /\ task = "running"
      /\ \A k \in DOMAIN inbox : k # 1 => \E j \in DOMAIN inbox' : inbox'[j] = inbox[k]
  <2>. inbox \in Seq(Message) /\ inbox # <<>>
    BY <1>1 DEF Take, IInv, TypeOK
  <2>. QED BY <1>1, TakeStep
<1>. HIDE DEF d
\* A piece that was on its way either still is or is the one that has come.
<1>3. ASSUME honest, NEW i \in Indices(size), pieces[i] = "missing"
      PROVE  \/ i \in asked \/ i = d.piece
             \/ \E j \in DOMAIN inbox' : inbox'[j].type = "data" /\ inbox'[j].piece = i
  <2>. SUFFICES ASSUME i \notin asked, i # d.piece
                PROVE  \E j \in DOMAIN inbox' : inbox'[j].type = "data" /\ inbox'[j].piece = i
    OBVIOUS
  <2>1. PICK k \in DOMAIN inbox : inbox[k].type = "data" /\ inbox[k].piece = i
    BY <1>2, <1>3 DEF IInv, NothingForgotten
  <2>. QED BY <1>2, <2>1
<1>4. CASE size = 0 \/ d.piece \notin Indices(size)
  <2>1. UNCHANGED <<asmVars, task>>
    BY <1>4 DEF HandleData, d
  <2>2. TypeOK'
    BY <1>1, <1>2, <2>1 DEF IInv, TypeOK, asmVars
  <2>3. Indices(0) = {}
    BY NoPieces
  <2>4. NothingForgotten'
    BY <1>1, <1>2, <1>3, <1>4, <2>1, <2>3 DEF NothingForgotten, asmVars
  <2>. QED BY <1>2, <2>2, <2>4 DEF IInv
<1>5. CASE d.piece \in Indices(size) /\ task' = "failed" /\ UNCHANGED asmVars
  BY <1>1, <1>2, <1>5 DEF IInv, TypeOK, NothingForgotten, asmVars
<1>6. CASE /\ d.piece \in Indices(size)
           /\ pieces' = [pieces EXCEPT ![d.piece] = IF d.true THEN "true" ELSE "junk"]
           /\ task' \in {task, "delivered", "failed"} /\ UNCHANGED size
  <2>1. TypeOK'
    BY <1>1, <1>2, <1>6 DEF IInv, TypeOK
  <2>2. pieces'[d.piece] # "missing" /\ \A i \in Indices(size) : i # d.piece => pieces'[i] = pieces[i]
    BY <1>6 DEF IInv, TypeOK
  <2>3. NothingForgotten'
    BY <1>1, <1>2, <1>3, <1>6, <2>2 DEF NothingForgotten
  <2>. QED BY <1>2, <2>1, <2>3 DEF IInv
<1>7. \/ size = 0 \/ d.piece \notin Indices(size)
      \/ d.piece \in Indices(size) /\ task' = "failed" /\ UNCHANGED asmVars
      \/ /\ d.piece \in Indices(size)
         /\ pieces' = [pieces EXCEPT ![d.piece] = IF d.true THEN "true" ELSE "junk"]
         /\ task' \in {task, "delivered", "failed"} /\ UNCHANGED size
  BY DEF HandleData, d, Verdict
<1>. QED BY <1>4, <1>5, <1>6, <1>7

\* What a peer sends of its own accord.
LEMMA SendStep ==
  ASSUME IInv, NEW m \in Message, Send(m),
         honest => /\ m.type \in {"size", "other", "data"}
                   /\ m.type = "size" => m.size = TrueSize
  PROVE  IInv'
<1>1. /\ budget' \in 0..MaxMessages /\ Put(m)
      /\ UNCHANGED <<honest, asked, asmVars, task>>
  BY SizeAssumption DEF Send, IInv, TypeOK
<1>2. /\ inbox' \in Seq(Message) /\ Polite'
      /\ \A k \in DOMAIN inbox : \E j \in DOMAIN inbox' : inbox'[j] = inbox[k]
  BY <1>1, PutStep
<1>3. TypeOK'
  BY <1>1, <1>2 DEF IInv, TypeOK, asmVars
<1>4. NothingForgotten'
  <2>. SUFFICES ASSUME honest, task = "running", NEW i \in Indices(size), pieces[i] = "missing",
                       i \notin asked
                PROVE  \E j \in DOMAIN inbox' : inbox'[j].type = "data" /\ inbox'[j].piece = i
    BY <1>1 DEF NothingForgotten, asmVars
  <2>1. PICK k \in DOMAIN inbox : inbox[k].type = "data" /\ inbox[k].piece = i
    BY DEF IInv, NothingForgotten
  <2>. QED BY <1>2, <2>1
<1>. QED BY <1>2, <1>3, <1>4 DEF IInv

LEMMA ServeStep == ASSUME IInv, NEW p \in asked, Serve(p) PROVE IInv'
<1>. DEFINE len == IF (p + 1) * PieceSize <= TrueSize THEN PieceSize ELSE TrueSize % PieceSize
            m == [type |-> "data", piece |-> p, true |-> TRUE, len |-> len]
<1>1. /\ Put(m) /\ asked' = asked \ {p} /\ UNCHANGED <<honest, budget, asmVars, task>>
  BY DEF Serve
<1>2. m \in Message
  <2>1. len \in 0..PieceSize
    BY SizeAssumption
  <2>2. p \in 0..LargestPiece
    <3>1. p \in Indices(MaxSize) /\ NumPieces(MaxSize) \in Nat
      BY PieceCount, SizeAssumption DEF IInv, TypeOK
    <3>. QED BY <3>1 DEF Indices, LargestPiece
  <2>. HIDE DEF len
  <2>. QED BY <2>1, <2>2 DEF Message
<1>. HIDE DEF len
<1>3. /\ inbox' \in Seq(Message) /\ Polite'
      /\ \A k \in DOMAIN inbox : \E j \in DOMAIN inbox' : inbox'[j] = inbox[k]
      /\ \E j \in DOMAIN inbox' : inbox'[j] = m
  BY <1>1, <1>2, PutStep
<1>4. TypeOK'
  BY <1>1, <1>3 DEF IInv, TypeOK, asmVars
<1>5. NothingForgotten'
  <2>. SUFFICES ASSUME honest, task = "running", NEW i \in Indices(size), pieces[i] = "missing",
                       i \notin asked'
                PROVE  \E j \in DOMAIN inbox' : inbox'[j].type = "data" /\ inbox'[j].piece = i
    BY <1>1 DEF NothingForgotten, asmVars
  <2>1. CASE i = p
    BY <1>3, <2>1
  <2>2. CASE i # p
    <3>1. PICK k \in DOMAIN inbox : inbox[k].type = "data" /\ inbox[k].piece = i
      BY <1>1, <2>2 DEF IInv, NothingForgotten
    <3>. QED BY <1>3, <3>1
  <2>. QED BY <2>1, <2>2
<1>. QED BY <1>3, <1>4, <1>5 DEF IInv

LEMMA StepIInv == IInv /\ [Next]_vars => IInv'
<1>. SUFFICES ASSUME IInv, [Next]_vars PROVE IInv'
  OBVIOUS
<1>1. CASE UNCHANGED vars
  BY <1>1 DEF vars, peerVars, asmVars, IInv, TypeOK, Polite, NothingForgotten
<1>2. CASE HandleSize
  BY <1>2, HandleSizeStep
<1>3. CASE HandleData
  BY <1>3, HandleDataStep
<1>4. CASE HandleBare
  <2>1. /\ inbox' \in Seq(Message) /\ Polite' /\ ~honest /\ honest' = honest /\ budget' = budget
        /\ task = "running"
    BY <1>4, TakeStep DEF HandleBare
  <2>. QED BY <1>4, <2>1 DEF HandleBare, IInv, TypeOK, NothingForgotten, asmVars
<1>5. CASE HandleOther
  <2>1. /\ inbox' \in Seq(Message) /\ Polite' /\ Head(inbox).type = "other"
        /\ honest' = honest /\ budget' = budget /\ task = "running"
        /\ \A k \in DOMAIN inbox : k # 1 => \E j \in DOMAIN inbox' : inbox'[j] = inbox[k]
    BY <1>5, TakeStep DEF HandleOther
  <2>2. TypeOK'
    BY <1>5, <2>1 DEF HandleOther, IInv, TypeOK, asmVars
  <2>3. NothingForgotten'
    <3>. SUFFICES ASSUME honest, task = "running", NEW i \in Indices(size), pieces[i] = "missing",
                         i \notin asked
                  PROVE  \E j \in DOMAIN inbox' : inbox'[j].type = "data" /\ inbox'[j].piece = i
      BY <1>5, <2>1 DEF HandleOther, NothingForgotten, asmVars
    <3>1. PICK k \in DOMAIN inbox : inbox[k].type = "data" /\ inbox[k].piece = i
      BY DEF IInv, NothingForgotten
    <3>2. inbox \in Seq(Message) /\ k = 1 => inbox[k] = Head(inbox)
      BY <3>1
    <3>3. k # 1
      BY <2>1, <3>1, <3>2 DEF IInv, TypeOK
    <3>. QED BY <2>1, <3>1, <3>3
  <2>. QED BY <2>1, <2>2, <2>3 DEF IInv
<1>6. CASE HandleGarbled
  <2>1. inbox' \in Seq(Message) /\ Polite' /\ honest' = honest /\ budget' = budget
    BY <1>6, TakeStep DEF HandleGarbled
  <2>. QED BY <1>6, <2>1 DEF HandleGarbled, IInv, TypeOK, NothingForgotten, asmVars
<1>7. CASE AnyPeer
  BY <1>7, SendStep DEF AnyPeer
<1>8. CASE honest /\ (Announce \/ Chat)
  <2>1. [type |-> "size", size |-> TrueSize] \in Message /\ [type |-> "other"] \in Message
    BY SizeAssumption DEF Message
  <2>. QED BY <1>8, <2>1, SendStep DEF Announce, Chat
<1>9. CASE \E p \in asked : Serve(p)
  BY <1>9, ServeStep
<1>. QED
  BY <1>1, <1>2, <1>3, <1>4, <1>5, <1>6, <1>7, <1>8, <1>9 DEF Next, RunPeer, HonestPeer

LEMMA Invariant == Spec => []IInv
BY InitIInv, StepIInv, PTL DEF Spec

LEMMA PiecesCover ==
  ASSUME size \in Nat
  PROVE  PiecesCoverSize
<1>1. /\ PieceSize \in Nat \ {0}
      /\ \A i \in Indices(size) : /\ Expected(size, i) \in 1..PieceSize
                                  /\ i \in Nat /\ i * PieceSize \in Nat /\ i * PieceSize < size
  BY PieceCount, SizeAssumption DEF Indices
<1>2. ASSUME NEW b \in 0..size, NEW i \in Indices(size), Covers(i, b)
      PROVE  b < size
  BY <1>1, <1>2 DEF Covers, Expected
<1>3. ASSUME NEW b \in 0..size, b < size
      PROVE  \E i \in Indices(size) : Covers(i, b)
  <2> DEFINE i == b \div PieceSize
             r == b % PieceSize
  <2>1. /\ i \in Nat /\ r \in 0..PieceSize - 1 /\ b = PieceSize * i + r
        /\ b \in Nat
    BY <1>1
  <2>2. i * PieceSize = PieceSize * i /\ i * PieceSize \in Nat  BY <1>1, <2>1
  <2>. HIDE DEF i, r
  <2>3. i * PieceSize <= b /\ b < i * PieceSize + PieceSize  BY <1>1, <2>1, <2>2
  <2>4. i \in Indices(size)
    <3>1. i < NumPieces(size)  BY <1>3, <2>1, <2>2, <2>3, PieceCount
    <3>2. i <= i * PieceSize  BY <1>1, <2>1
    <3>. QED BY <1>3, <2>1, <2>2, <2>3, <3>1, <3>2 DEF Indices
  <2>5. Covers(i, b)  BY <1>1, <1>3, <2>1, <2>2, <2>3 DEF Covers, Expected
  <2>. QED BY <2>4, <2>5
<1>. QED BY <1>1, <1>2, <1>3 DEF PiecesCoverSize

\* Whatever a peer sends, the assembler keeps to the sizes that are allowed, the
\* pieces it looks for are the info dict and nothing else (the subtraction in the
\* length of the last one stays above zero: MetadataAssembler::new,
\* expected_len), and what is missing of an honest peer's is under way.
THEOREM AssemblyIsSound == Spec => []Inv
<1>1. IInv => Inv
  <2>1. IInv => size \in Nat  BY SizeAssumption DEF IInv, TypeOK
  <2>. QED BY <2>1, PiecesCover DEF IInv, Inv
<1>. QED BY <1>1, Invariant, PTL

\* An honest peer's answers are not lost: a piece that is missing is owed or on
\* its way, however often the peer says its size again (start_assembly).
THEOREM NothingIsForgotten == Spec => []NothingForgotten
<1>1. IInv => NothingForgotten
  BY DEF IInv
<1>. QED BY <1>1, Invariant, PTL

\* A handshake that says the same size again keeps what is there, and no other
\* message makes a piece missing (start_assembly, record).
THEOREM ProgressIsKept == Spec => KeepsProgress
<1>. DEFINE Kept == size' = size => \A i \in Indices(size) : pieces[i] # "missing" => pieces'[i] # "missing"
<1>1. IInv /\ [Next]_vars => [Kept]_vars
  <2>. SUFFICES ASSUME IInv, Next, size' = size, NEW i \in Indices(size), pieces[i] # "missing"
                PROVE  pieces'[i] # "missing"
    BY DEF vars
  <2>1. CASE HandleSize
    BY <2>1 DEF HandleSize, asmVars, SizeOk, InProgress
  <2>2. CASE HandleData
    BY <2>2 DEF HandleData, asmVars, IInv, TypeOK
  <2>3. CASE UNCHANGED asmVars
    BY <2>3 DEF asmVars
  <2>. QED
    BY <2>1, <2>2, <2>3 DEF Next, RunPeer, HandleBare, HandleOther, HandleGarbled,
       AnyPeer, HonestPeer, Announce, Chat, Send, Serve
<1>. QED BY <1>1, Invariant, PTL DEF Spec, KeepsProgress

=============================================================================
