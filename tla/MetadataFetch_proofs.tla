------------------------ MODULE MetadataFetch_proofs ------------------------
(***************************************************************************)
(* MetadataFetch for any trackers and offers and any capacity of the       *)
(* channels, in five invariants, each resting on ones before: the types;   *)
(* the life of the tasks; what may be in the channels when a task leaves;  *)
(* where the message that makes a peer can be; the order of the commands   *)
(* in a client's channel.                                                  *)
(***************************************************************************)
EXTENDS MetadataFetch, TLAPS

\* A peer task has a tracker task that owns it.
Owned == \A s \in Source : stage[s] # "none" => via[s] \in Tracker

TypeInv == TypeOK /\ Owned

\* Exhaustion is found when nobody can deliver any more, and so it stays.
NobodyLeft == result = "exhausted" => cancel /\ Ended = Tracker /\ Alive = {} /\ ~meta

\* A tracker has peers once it has served; one that stops has seen the
\* cancellation, which comes when the race is over.
LifeInv ==
  /\ cancel <=> fetch # "racing"
  /\ \A t \in Tracker :
       /\ tracker[t] \in {"connecting", "starting"} => PeersOf(t) = {}
       /\ tracker[t] \in {"stopping", "closing"} => cancel
  /\ PeersSurviveTracker /\ NobodyLeft

\* Until the fetch is called off: before `started` went out no answer and no
\* offer comes in, Closed is the last event of a connection that is over, and
\* a tracker task leaves its loop when the connection is over and its channel
\* is empty.
HeardBy(t) ==
  /\ tracker[t] = "connecting" => ws[t] = "none" /\ evts[t] = <<>>
  /\ tracker[t] \in {"connecting", "starting"} =>
       /\ "started" \notin sent[t]
       /\ \A i \in DOMAIN cmds[t] : cmds[t][i] # "started"
       /\ wsEvent[t] \notin Source
       /\ \A i \in DOMAIN evts[t] : evts[t][i] \notin Source
  /\ tracker[t] \in {"draining", "ended"} => ws[t] # "open" /\ evts[t] = <<>>
  /\ \A i \in DOMAIN evts[t] : evts[t][i] = "closed" => i = Len(evts[t]) /\ ws[t] # "open"

HeardInv == ~cancel => unheard = {} /\ \A t \in Tracker : HeardBy(t)

\* What still makes a peer of an offer finds it unused: ours while it is in
\* the pool, the offer of another while it is in a channel, where it is once.
OfferInv ==
  /\ \A o \in offerPool : stage[o] = "none"
  /\ \A t \in Tracker :
       /\ wsEvent[t] \in Remote => stage[wsEvent[t]] = "none"
       /\ \A i \in DOMAIN evts[t] : evts[t][i] \in Remote => stage[evts[t][i]] = "none"
  /\ \A t, u \in Tracker :
       /\ wsEvent[t] \in Remote /\ wsEvent[u] = wsEvent[t] => t = u
       /\ wsEvent[t] \in Remote => \A j \in DOMAIN evts[u] : evts[u][j] # wsEvent[t]
       /\ \A i \in DOMAIN evts[t], j \in DOMAIN evts[u] :
            evts[t][i] \in Remote /\ evts[t][i] = evts[u][j] => t = u /\ i = j

\* A tracker task hands over `stopped`, then Shutdown, then nothing.
CmdInv ==
  \A t \in Tracker :
    /\ \A i \in DOMAIN cmds[t] :
         /\ cmds[t][i] = "stopped" => tracker[t] \in {"closing", "ended"}
         /\ cmds[t][i] = "shutdown" => tracker[t] = "ended"
    /\ \A i, j \in DOMAIN cmds[t] :
         i < j /\ cmds[t][i] = "shutdown" => cmds[t][j] # "stopped"

(***************************************************************************)
(* Types.                                                                  *)
(***************************************************************************)

\* Room for a command is left before it is put there.
LEMMA EnqueueTypes ==
  ASSUME TypeOK, NEW t \in Tracker, NEW c \in Cmd, Enqueue(t, c)
  PROVE  /\ cmds' \in [Tracker -> Seq(Cmd)]
         /\ \A u \in Tracker : Len(cmds'[u]) <= CmdCap
<1>1. /\ cmds \in [Tracker -> Seq(Cmd)]
      /\ \A u \in Tracker : cmds[u] \in Seq(Cmd) /\ Len(cmds[u]) <= CmdCap
  BY DEF TypeOK
<1>2. cmds' = [cmds EXCEPT ![t] = Append(cmds[t], c)] /\ Len(cmds[t]) < CmdCap
  BY DEF Enqueue
<1>3. Append(cmds[t], c) \in Seq(Cmd) /\ Len(Append(cmds[t], c)) <= CmdCap
  BY <1>1, <1>2, CapAssumption
<1>. QED BY <1>1, <1>2, <1>3

\* The first command is taken out.
LEMMA TakeTypes ==
  ASSUME TypeOK, NEW t \in Tracker, cmds[t] # <<>>
  PROVE  /\ [cmds EXCEPT ![t] = Tail(cmds[t])] \in [Tracker -> Seq(Cmd)]
         /\ \A u \in Tracker : Len([cmds EXCEPT ![t] = Tail(cmds[t])][u]) <= CmdCap
         /\ Head(cmds[t]) \in Cmd
<1>1. /\ cmds \in [Tracker -> Seq(Cmd)]
      /\ \A u \in Tracker : cmds[u] \in Seq(Cmd) /\ Len(cmds[u]) <= CmdCap
  BY DEF TypeOK
<1>2. Tail(cmds[t]) \in Seq(Cmd) /\ Len(Tail(cmds[t])) <= CmdCap /\ Head(cmds[t]) \in Cmd
  BY <1>1, CapAssumption
<1>. QED BY <1>1, <1>2

\* Whatever an event channel becomes: nothing, its tail, or one event longer.
LEMMA EventTypes ==
  ASSUME TypeOK, NEW t \in Tracker, NEW q, evts' = [evts EXCEPT ![t] = q],
         \/ q = <<>>
         \/ evts[t] # <<>> /\ q = Tail(evts[t])
         \/ Len(evts[t]) < EvtCap /\ \E e \in Event : q = Append(evts[t], e)
  PROVE  /\ evts' \in [Tracker -> Seq(Event)]
         /\ \A u \in Tracker : Len(evts'[u]) <= EvtCap
<1>1. /\ evts \in [Tracker -> Seq(Event)]
      /\ \A u \in Tracker : evts[u] \in Seq(Event) /\ Len(evts[u]) <= EvtCap
  BY DEF TypeOK
<1>2. q \in Seq(Event) /\ Len(q) <= EvtCap
  <2>1. CASE q = <<>>  BY <2>1, CapAssumption
  <2>2. CASE evts[t] # <<>> /\ q = Tail(evts[t])  BY <2>2, <1>1, CapAssumption
  <2>3. CASE Len(evts[t]) < EvtCap /\ \E e \in Event : q = Append(evts[t], e)
    BY <2>3, <1>1, CapAssumption
  <2>. QED BY <2>1, <2>2, <2>3
<1>. QED BY <1>1, <1>2

LEMMA InitTypes == Init => TypeOK
<1>. SUFFICES ASSUME Init PROVE TypeOK  OBVIOUS
<1>1. cmds \in [Tracker -> Seq(Cmd)] /\ \A t \in Tracker : Len(cmds[t]) <= CmdCap
  BY CapAssumption DEF Init
<1>2. evts \in [Tracker -> Seq(Event)] /\ \A t \in Tracker : Len(evts[t]) <= EvtCap
  BY CapAssumption DEF Init
<1>3. cancel \in BOOLEAN /\ meta \in BOOLEAN  BY DEF Init
<1>. QED
  BY <1>1, <1>2, <1>3, CapAssumption
  DEF Init, TypeOK, OffersMade, TrackerState, WsState, Stage

LEMMA UnheardTypes ==
  ASSUME TypeOK, NEW S, Unheard(S)
  PROVE  unheard' \subseteq Source
BY DEF TypeOK, Unheard

\* What a step of fetch_from changes has its type.
LEMMA FetchTypes ==
  ASSUME TypeOK, FetchStep \/ Drop
  PROVE  TypeOK'
<1>1. /\ fetch' \in {"racing", "grace", "returned", "expired", "dropped"}
      /\ result' \in {"none", "metadata", "exhausted", "timeout"}
      /\ UNCHANGED <<tracker, offerPool, cmds, evts, ws, wsEvent, sent, budget, stage, via,
                     unheard>>
  BY DEF TypeOK, FetchStep, ReceiveMetadata, Exhaust, TimeOut, Return, Decide, Drop,
     wsVars, peerVars
<1>2. cancel' \in BOOLEAN /\ meta' \in BOOLEAN
  BY Zenon
  DEF TypeOK, FetchStep, ReceiveMetadata, Exhaust, TimeOut, Return, Decide, Drop
<1>. QED BY <1>1, <1>2 DEF TypeOK

\* A tracker task on its way, without an event.
LEMMA TrackerTypes ==
  ASSUME TypeOK, NEW t \in Tracker, NEW from, NEW to \in TrackerState,
         Become(t, from, to),
         \/ UNCHANGED <<cmds, evts, unheard>>
         \/ (\E c \in Cmd : Enqueue(t, c)) /\ UNCHANGED <<evts, unheard>>
         \/ UNCHANGED cmds /\ DropEvents(t)
         \/ (\E c \in Cmd : Enqueue(t, c)) /\ DropEvents(t),
         ws' = ws \/ ws' = [ws EXCEPT ![t] = "open"],
         UNCHANGED <<offerPool, wsEvent, sent, budget, stage, via>>
  PROVE  TypeOK'
<1>1. fetch' = fetch /\ result' = result /\ cancel' = cancel /\ meta' = meta
      /\ tracker' \in [Tracker -> TrackerState]
  BY DEF TypeOK, Become, fetchVars
<1>2. cancel' \in BOOLEAN /\ meta' \in BOOLEAN  BY <1>1, Zenon DEF TypeOK
<1>3. cmds' \in [Tracker -> Seq(Cmd)] /\ \A u \in Tracker : Len(cmds'[u]) <= CmdCap
  <2>1. CASE UNCHANGED cmds  BY <2>1 DEF TypeOK
  <2>2. CASE \E c \in Cmd : Enqueue(t, c)  BY <2>2, EnqueueTypes
  <2>. QED BY <2>1, <2>2
<1>4. evts' \in [Tracker -> Seq(Event)] /\ \A u \in Tracker : Len(evts'[u]) <= EvtCap
  <2>1. CASE UNCHANGED evts  BY <2>1 DEF TypeOK
  <2>2. CASE DropEvents(t)  BY <2>2, EventTypes DEF DropEvents
  <2>. QED BY <2>1, <2>2
<1>5. ws' \in [Tracker -> WsState]  BY DEF TypeOK, WsState
<1>6. unheard' \subseteq Source
  <2>1. CASE UNCHANGED unheard  BY <2>1 DEF TypeOK
  <2>2. CASE DropEvents(t)  BY <2>2, UnheardTypes DEF DropEvents
  <2>. QED BY <2>1, <2>2
<1>. QED BY <1>1, <1>2, <1>3, <1>4, <1>5, <1>6 DEF TypeOK

\* An event is taken: it makes a peer of an offer of ours or of another, or
\* has no effect on any.
Spawns(t, e, first) ==
  /\ stage' = [stage EXCEPT ![e] = first] /\ via' = [via EXCEPT ![e] = t]
  /\ tracker' = tracker

LEMMA ServeEffect ==
  ASSUME TypeOK, NEW t \in Tracker, ServeEvent(t)
  PROVE  /\ tracker[t] = "serving"
         /\ evts[t] # <<>> /\ evts' = [evts EXCEPT ![t] = Tail(evts[t])]
         /\ cmds' = cmds /\ ws' = ws /\ wsEvent' = wsEvent /\ sent' = sent /\ budget' = budget
         /\ fetch' = fetch /\ result' = result /\ cancel' = cancel /\ meta' = meta
         /\ unheard' = unheard
         /\ \E e \in Event :
              /\ e = Head(evts[t])
              /\ \/ /\ e \in offerPool /\ offerPool' = offerPool \ {e}
                    /\ Spawns(t, e, "connecting")
                 \/ e \in Remote /\ offerPool' = offerPool /\ Spawns(t, e, "answering")
                 \/ /\ offerPool' = offerPool /\ stage' = stage /\ via' = via
                    /\ tracker' = tracker \/ tracker' = [tracker EXCEPT ![t] = "draining"]
<1>1. /\ tracker[t] = "serving"
      /\ evts[t] # <<>> /\ evts' = [evts EXCEPT ![t] = Tail(evts[t])]
      /\ cmds' = cmds /\ ws' = ws /\ wsEvent' = wsEvent /\ sent' = sent /\ budget' = budget
      /\ fetch' = fetch /\ result' = result /\ unheard' = unheard
  BY DEF ServeEvent, fetchVars, wsVars
<1>2. cancel' = cancel /\ meta' = meta  BY Zenon DEF ServeEvent, fetchVars
<1>3. Head(evts[t]) \in Event  BY <1>1 DEF TypeOK
<1>4. PICK e \in Event : e = Head(evts[t])  BY <1>3
<1>5. \/ e \in Offer /\ TakeOffer(e) /\ SpawnPeer(t, e, "connecting") /\ tracker' = tracker
      \/ /\ e \in Remote /\ SpawnPeer(t, e, "answering")
         /\ tracker' = tracker /\ offerPool' = offerPool
      \/ /\ offerPool' = offerPool /\ stage' = stage /\ via' = via
         /\ tracker' = tracker \/ tracker' = [tracker EXCEPT ![t] = "draining"]
  BY <1>4 DEF ServeEvent, peerVars
<1>. QED BY <1>1, <1>2, <1>4, <1>5 DEF Spawns, TakeOffer, SpawnPeer

LEMMA TrackerStepTypes ==
  ASSUME TypeOK, NEW t \in Tracker, TrackerStep(t) \/ Connect(t) \/ NotConnected(t)
  PROVE  TypeOK'
<1>. USE DEF wsVars, peerVars, TrackerState, Cmd
<1>1. CASE CancelConnect(t) \/ NotConnected(t)
  BY <1>1, TrackerTypes DEF CancelConnect, NotConnected
<1>2. CASE AnnounceStarted(t)
  BY <1>2, TrackerTypes DEF AnnounceStarted
<1>3. CASE ServeCancel(t) \/ ServeNone(t) \/ Connect(t)
  BY <1>3, TrackerTypes DEF ServeCancel, ServeNone, Connect
<1>4. CASE AnnounceStopped(t) \/ Shutdown(t)
  BY <1>4, TrackerTypes DEF AnnounceStopped, Shutdown
<1>5. CASE Drain(t) \/ TrackerAborted(t)
  BY <1>5, TrackerTypes DEF Drain, TrackerAborted
<1>6. CASE ServeEvent(t)
  <2>1. /\ evts[t] # <<>> /\ evts' = [evts EXCEPT ![t] = Tail(evts[t])]
        /\ cmds' = cmds /\ ws' = ws /\ wsEvent' = wsEvent /\ sent' = sent /\ budget' = budget
        /\ fetch' = fetch /\ result' = result /\ cancel' = cancel /\ meta' = meta
        /\ unheard' = unheard
    BY <1>6, ServeEffect
  <2>2. cancel' \in BOOLEAN /\ meta' \in BOOLEAN  BY <2>1, Zenon DEF TypeOK
  <2>3. /\ tracker' \in [Tracker -> TrackerState] /\ offerPool' \subseteq Offer
        /\ stage' \in [Source -> Stage] /\ via' \in [Source -> Tracker \cup {"none"}]
    <3>1. /\ tracker \in [Tracker -> TrackerState] /\ offerPool \subseteq Offer
          /\ stage \in [Source -> Stage] /\ via \in [Source -> Tracker \cup {"none"}]
      BY DEF TypeOK
    <3>. QED BY <3>1, <1>6, ServeEffect DEF Spawns, Stage, Source
  <2>4. evts' \in [Tracker -> Seq(Event)] /\ \A u \in Tracker : Len(evts'[u]) <= EvtCap
    BY <2>1, EventTypes
  <2>. QED BY <2>1, <2>2, <2>3, <2>4 DEF TypeOK
<1>. QED BY <1>1, <1>2, <1>3, <1>4, <1>5, <1>6 DEF TrackerStep

\* The steps of a WebSocket task: nothing but its channels and its own state.
WsEffect(t) ==
  /\ ws[t] = "open"
  /\ UNCHANGED <<fetch, result, cancel, meta, tracker, offerPool, stage, via>>

LEMMA WsStepTypes ==
  ASSUME TypeOK, NEW t \in Tracker, WsStep(t) \/ \E e \in Event : WsReceive(t, e)
  PROVE  TypeOK' /\ WsEffect(t)
<1>0. WsEffect(t)
  <2>1. /\ ws[t] = "open"
        /\ UNCHANGED <<fetch, result, tracker, offerPool, stage, via>>
    BY DEF WsStep, WsCommand, WsDropped, WsDeliver, WsReceive, fetchVars, peerVars
  <2>2. cancel' = cancel /\ meta' = meta
    BY Zenon DEF WsStep, WsCommand, WsDropped, WsDeliver, WsReceive, fetchVars
  <2>. QED BY <2>1, <2>2 DEF WsEffect
<1>1. /\ UNCHANGED <<fetch, result, tracker, offerPool, stage, via>>
      /\ cancel' \in BOOLEAN /\ meta' \in BOOLEAN
  <2>1. cancel' = cancel /\ meta' = meta  BY <1>0, Zenon DEF WsEffect
  <2>2. cancel' \in BOOLEAN /\ meta' \in BOOLEAN  BY <2>1, Zenon DEF TypeOK
  <2>. QED BY <1>0, <2>2 DEF WsEffect
<1>2. ASSUME /\ ws' \in [Tracker -> WsState]
             /\ wsEvent' \in [Tracker -> Event \cup {"none"}]
             /\ sent' \in [Tracker -> SUBSET {"started", "stopped"}]
             /\ budget' \in [Tracker -> 0..MaxMessages]
             /\ cmds' \in [Tracker -> Seq(Cmd)] /\ \A u \in Tracker : Len(cmds'[u]) <= CmdCap
             /\ evts' \in [Tracker -> Seq(Event)]
             /\ \A u \in Tracker : Len(evts'[u]) <= EvtCap
      PROVE  TypeOK'
  <2>1. unheard' \subseteq Source
    <3>1. UNCHANGED unheard \/ Unheard({wsEvent[t]})
      BY DEF WsStep, WsCommand, WsDropped, WsDeliver, WsReceive
    <3>. QED BY <3>1, UnheardTypes DEF TypeOK
  <2>. QED BY <1>1, <1>2, <2>1 DEF TypeOK
<1>3. CASE WsCommand(t)
  <2>1. /\ cmds[t] # <<>> /\ cmds' = [cmds EXCEPT ![t] = Tail(cmds[t])]
        /\ evts' = evts /\ budget' = budget
    BY <1>3 DEF WsCommand
  <2>2. /\ cmds' \in [Tracker -> Seq(Cmd)] /\ \A u \in Tracker : Len(cmds'[u]) <= CmdCap
        /\ Head(cmds[t]) \in Cmd
    BY <2>1, TakeTypes
  <2>3. ws' \in [Tracker -> WsState] /\ wsEvent' \in [Tracker -> Event \cup {"none"}]
    BY <1>3 DEF WsCommand, TypeOK, LeaveWs, WsState
  <2>4. sent' \in [Tracker -> SUBSET {"started", "stopped"}]
    <3>1. \A c \in Cmd \ {"shutdown"} : {c} \ {"answer"} \subseteq {"started", "stopped"}
      BY DEF Cmd
    <3>2. CASE UNCHANGED sent  BY <3>2 DEF TypeOK
    <3>3. CASE /\ Head(cmds[t]) # "shutdown"
               /\ sent' = [sent EXCEPT ![t] = @ \cup ({Head(cmds[t])} \ {"answer"})]
      BY <3>1, <3>3, <2>2 DEF TypeOK
    <3>. QED BY <1>3, <3>2, <3>3 DEF WsCommand
  <2>. QED BY <2>1, <2>2, <2>3, <2>4, <1>0, <1>2 DEF TypeOK
<1>4. CASE WsDropped(t)
  BY <1>4, <1>0, <1>2 DEF WsDropped, LeaveWs, TypeOK, WsState
<1>5. ASSUME NEW e \in Event, WsReceive(t, e) PROVE TypeOK'
  <2>1. budget' \in [Tracker -> 0..MaxMessages]
    BY <1>5, CapAssumption DEF WsReceive, TypeOK
  <2>. QED BY <2>1, <1>5, <1>0, <1>2 DEF WsReceive, TypeOK
<1>6. CASE WsDeliver(t)
  <2>1. ws' \in [Tracker -> WsState] /\ wsEvent' \in [Tracker -> Event \cup {"none"}]
    BY <1>6 DEF WsDeliver, LeaveWs, TypeOK, WsState
  <2>2. wsEvent[t] \in Event  BY <1>6 DEF WsDeliver, TypeOK
  <2>3. \/ evts' = evts
        \/ Len(evts[t]) < EvtCap /\ evts' = [evts EXCEPT ![t] = Append(evts[t], wsEvent[t])]
    BY <1>6 DEF WsDeliver
  <2>4. evts' \in [Tracker -> Seq(Event)] /\ \A u \in Tracker : Len(evts'[u]) <= EvtCap
    <3>1. CASE evts' = evts  BY <3>1 DEF TypeOK
    <3>2. CASE Len(evts[t]) < EvtCap /\ evts' = [evts EXCEPT ![t] = Append(evts[t], wsEvent[t])]
      BY <3>2, <2>2, EventTypes
    <3>. QED BY <2>3, <3>1, <3>2
  <2>. QED BY <2>1, <2>4, <1>6, <1>0, <1>2 DEF WsDeliver, TypeOK
<1>. QED BY <1>0, <1>3, <1>4, <1>5, <1>6 DEF WsStep

\* The steps of a peer task: it goes on by itself, and its last step may leave
\* the info dict.
PeerEffect(s) ==
  /\ s \in Alive
  /\ \E to \in Stage : stage' = [stage EXCEPT ![s] = to] /\ Order[to] > Order[stage[s]]
  /\ UNCHANGED <<fetch, result, cancel, tracker, offerPool, evts, ws, wsEvent, sent, budget, via,
                 unheard>>
  /\ cmds' = cmds \/ Enqueue(via[s], "answer")

AnyPeerStep(s) ==
  PeerStep(s) \/ PeerAnswers(s) \/ PeerConnects(s) \/ PeerFails(s) \/ PeerDelivers(s)

LEMMA StageOrder ==
  /\ Order["none"] = 0 /\ Order["answering"] = 1 /\ Order["replying"] = 2
  /\ Order["connecting"] = 3 /\ Order["exchanging"] = 4 /\ Order["done"] = 5
BY DEF Order, Stage

LEMMA PeerStepEffect ==
  ASSUME TypeOK, NEW s \in Source, AnyPeerStep(s)
  PROVE  PeerEffect(s) /\ meta' \in BOOLEAN
<1>1. ASSUME NEW from, NEW to \in Stage, PeerBecomes(s, from, to),
             from \notin {"none", "done"}, Order[to] > Order[from],
             cmds' = cmds \/ Enqueue(via[s], "answer")
      PROVE  PeerEffect(s)
  <2>1. cancel' = cancel  BY <1>1, Zenon DEF PeerBecomes, fetchVars
  <2>. QED BY <1>1, <2>1 DEF PeerBecomes, PeerEffect, Alive, fetchVars, wsVars
<1>8. meta' \in BOOLEAN
  BY Zenon DEF AnyPeerStep, PeerStep, PeerAnswers, PeerReplies, PeerConnects, PeerTimesOut,
     PeerFails, PeerDelivers, PeerAborted, TypeOK
<1>. SUFFICES PeerEffect(s)  BY <1>8
<1>2. CASE PeerAnswers(s)
  BY <1>1, <1>2, StageOrder DEF PeerAnswers, Stage
<1>3. CASE PeerReplies(s)
  BY <1>1, <1>3, StageOrder DEF PeerReplies, Stage
<1>4. CASE PeerConnects(s) \/ PeerTimesOut(s)
  BY <1>1, <1>4, StageOrder DEF PeerConnects, PeerTimesOut, Stage
<1>5. CASE PeerFails(s)
  BY <1>1, <1>5, StageOrder DEF PeerFails, Stage
<1>6. CASE PeerDelivers(s)
  BY <1>1, <1>6, StageOrder DEF PeerDelivers, Stage
<1>7. CASE PeerAborted(s)
  <2>1. stage[s] \in {"answering", "replying", "connecting", "exchanging"}
    BY <1>7 DEF PeerAborted, Alive, TypeOK, Stage
  <2>. QED BY <1>1, <1>7, <2>1, StageOrder DEF PeerAborted, Stage
<1>. QED BY <1>2, <1>3, <1>4, <1>5, <1>6, <1>7 DEF AnyPeerStep, PeerStep

LEMMA PeerStepTypes ==
  ASSUME TypeInv, NEW s \in Source, AnyPeerStep(s)
  PROVE  TypeInv'
<1>1. PeerEffect(s) /\ meta' \in BOOLEAN /\ TypeOK /\ via[s] \in Tracker
  BY PeerStepEffect DEF TypeInv, Owned, PeerEffect, Alive
<1>2. cancel' \in BOOLEAN
  <2>1. cancel' = cancel  BY <1>1, Zenon DEF PeerEffect
  <2>. QED BY <1>1, <2>1, Zenon DEF TypeOK
<1>3. cmds' \in [Tracker -> Seq(Cmd)] /\ \A u \in Tracker : Len(cmds'[u]) <= CmdCap
  <2>1. CASE cmds' = cmds  BY <1>1, <2>1 DEF TypeOK
  <2>2. CASE Enqueue(via[s], "answer")  BY <1>1, <2>2, EnqueueTypes DEF Cmd
  <2>. QED BY <1>1, <2>1, <2>2 DEF PeerEffect
<1>4. stage' \in [Source -> Stage] /\ Owned'
  BY <1>1 DEF PeerEffect, TypeInv, TypeOK, Owned, Alive
<1>. QED BY <1>1, <1>2, <1>3, <1>4 DEF PeerEffect, TypeInv, TypeOK

\* Every step, by the task that takes it.
LEMMA StepCases ==
  ASSUME Next
  PROVE  \/ FetchStep \/ Drop
         \/ \E t \in Tracker : TrackerStep(t) \/ Connect(t) \/ NotConnected(t)
         \/ \E t \in Tracker : WsStep(t) \/ \E e \in Event : WsReceive(t, e)
         \/ \E s \in Source : AnyPeerStep(s)
BY DEF Next, Network, AnyPeerStep

\* Tracker tasks spawn peers in ServeEvent, and otherwise leave them alone.
TrackerMoves(t) ==
  /\ \E to \in TrackerState :
       /\ tracker' = [tracker EXCEPT ![t] = to] /\ tracker[t] # "ended"
       /\ to \in {"connecting", "starting"} => tracker[t] = "connecting"
       /\ to \in {"stopping", "closing"} => cancel \/ tracker[t] = "stopping"
       /\ to = "ended" =>
            \/ tracker[t] \in {"connecting", "starting", "closing"}
            \/ FetchOver \/ cancel \/ PeersOf(t) = {}
  /\ UNCHANGED <<fetch, result, cancel, meta, offerPool, stage, via>>

LEMMA TrackerStepEffect ==
  ASSUME NEW t \in Tracker, TrackerStep(t) \/ Connect(t) \/ NotConnected(t)
  PROVE  TrackerMoves(t) \/ ServeEvent(t)
<1>. SUFFICES ASSUME ~ServeEvent(t) PROVE TrackerMoves(t)  OBVIOUS
<1>1. ASSUME NEW from, NEW to \in TrackerState, Become(t, from, to),
             UNCHANGED <<offerPool, stage, via>>,
             from # "ended",
             to \in {"connecting", "starting"} => from = "connecting",
             to \in {"stopping", "closing"} => cancel \/ from = "stopping",
             to = "ended" =>
               \/ from \in {"connecting", "starting", "closing"}
               \/ FetchOver \/ cancel \/ PeersOf(t) = {}
      PROVE  TrackerMoves(t)
  <2>1. cancel' = cancel /\ meta' = meta  BY <1>1, Zenon DEF Become, fetchVars
  <2>. QED BY <1>1, <2>1 DEF Become, TrackerMoves, fetchVars
<1>. USE DEF TrackerState, peerVars
<1>2. CASE CancelConnect(t) \/ NotConnected(t)
  BY <1>1, <1>2 DEF CancelConnect, NotConnected
<1>3. CASE AnnounceStarted(t)
  BY <1>1, <1>3 DEF AnnounceStarted
<1>4. CASE ServeCancel(t) \/ ServeNone(t) \/ Connect(t)
  BY <1>1, <1>4 DEF ServeCancel, ServeNone, Connect
<1>5. CASE AnnounceStopped(t) \/ Shutdown(t)
  BY <1>1, <1>5 DEF AnnounceStopped, Shutdown
<1>6. CASE Drain(t)
  BY <1>1, <1>6 DEF Drain, Drained
<1>7. CASE TrackerAborted(t)
  BY <1>1, <1>7 DEF TrackerAborted
<1>. QED BY <1>2, <1>3, <1>4, <1>5, <1>6, <1>7 DEF TrackerStep

LEMMA TypeStep == TypeInv /\ [Next]_vars => TypeInv'
<1>. SUFFICES ASSUME TypeInv, [Next]_vars PROVE TypeInv'
  OBVIOUS
<1>. USE DEF TypeInv
<1>1. CASE FetchStep \/ Drop
  <2>1. UNCHANGED <<stage, via>>
    BY <1>1 DEF FetchStep, ReceiveMetadata, Exhaust, TimeOut, Return, Decide, Drop, peerVars
  <2>. QED BY <1>1, <2>1, FetchTypes DEF Owned
<1>2. ASSUME NEW t \in Tracker, TrackerStep(t) \/ Connect(t) \/ NotConnected(t) PROVE TypeInv'
  <2>1. CASE TrackerMoves(t)
    BY <1>2, <2>1, TrackerStepTypes DEF TrackerMoves, Owned
  <2>2. CASE ServeEvent(t)
    <3>1. Owned'
      <4>1. stage \in [Source -> Stage] /\ via \in [Source -> Tracker \cup {"none"}]
        BY DEF TypeOK
      <4>. QED BY <4>1, <2>2, ServeEffect DEF Spawns, Owned
    <3>. QED BY <1>2, <3>1, TrackerStepTypes
  <2>. QED BY <1>2, <2>1, <2>2, TrackerStepEffect
<1>3. ASSUME NEW t \in Tracker, WsStep(t) \/ \E e \in Event : WsReceive(t, e) PROVE TypeInv'
  BY <1>3, WsStepTypes DEF WsEffect, Owned
<1>4. ASSUME NEW s \in Source, AnyPeerStep(s) PROVE TypeInv'
  BY <1>4, PeerStepTypes
<1>5. CASE UNCHANGED vars
  <2>1. UNCHANGED <<fetch, result, tracker, offerPool, cmds, evts, ws, wsEvent, sent, budget, stage, via,
                  unheard>>
    BY <1>5 DEF vars, fetchVars, wsVars, peerVars
  <2>2. cancel' = cancel /\ meta' = meta  BY <1>5, Zenon DEF vars, fetchVars
  <2>3. cancel' \in BOOLEAN /\ meta' \in BOOLEAN  BY <2>2, Zenon DEF TypeOK
  <2>. QED BY <2>1, <2>3 DEF TypeOK, Owned
<1>. QED BY <1>1, <1>2, <1>3, <1>4, <1>5, StepCases

\* The types, for every value of the constants: no channel ever holds more than
\* its capacity.
THEOREM TypeCorrect == Spec => []TypeInv
<1>1. Init => Owned  BY DEF Init, Owned
<1>2. Init => TypeInv  BY <1>1, InitTypes DEF TypeInv
<1>. QED BY <1>2, TypeStep, PTL DEF Spec

(***************************************************************************)
(* The life of the tasks.                                                  *)
(***************************************************************************)

LEMMA FetchLife ==
  ASSUME TypeInv, LifeInv, FetchStep \/ Drop
  PROVE  LifeInv'
<1>1. UNCHANGED <<tracker, stage, via>>
  BY DEF FetchStep, ReceiveMetadata, Exhaust, TimeOut, Return, Decide, Drop, peerVars
<1>2. Alive' = Alive /\ Ended' = Ended /\ \A t \in Tracker : PeersOf(t)' = PeersOf(t)
  BY <1>1 DEF Alive, Ended, PeersOf
<1>3. fetch' # "racing" /\ cancel'
  <2>1. CASE ReceiveMetadata \/ Exhaust \/ TimeOut
    BY <2>1 DEF ReceiveMetadata, Exhaust, TimeOut, Decide
  <2>2. CASE Drop  BY <2>2 DEF Drop
  <2>3. CASE Return
    <3>1. fetch = "grace" /\ fetch' \in {"expired", "returned"}  BY <2>3 DEF Return
    <3>2. cancel' = cancel  BY <2>3, Zenon DEF Return
    <3>. QED BY <3>1, <3>2 DEF LifeInv
  <2>. QED BY <2>1, <2>2, <2>3 DEF FetchStep
<1>4. NobodyLeft'
  <2>1. CASE Exhaust
    <3>1. ~meta /\ SendersDropped /\ UNCHANGED meta  BY <2>1, Zenon DEF Exhaust
    <3>. QED BY <3>1, <1>2, <1>3 DEF NobodyLeft, SendersDropped
  <2>2. CASE ReceiveMetadata \/ TimeOut
    BY <2>2 DEF ReceiveMetadata, TimeOut, Decide, NobodyLeft
  <2>3. CASE Return \/ Drop
    <3>1. result' = result /\ meta' = meta  BY <2>3, Zenon DEF Return, Drop
    <3>. QED BY <3>1, <1>2, <1>3 DEF NobodyLeft, LifeInv
  <2>. QED BY <2>1, <2>2, <2>3 DEF FetchStep
<1>. QED BY <1>1, <1>2, <1>3, <1>4 DEF LifeInv, PeersSurviveTracker

LEMMA TrackerLife ==
  ASSUME TypeInv, LifeInv, NEW t \in Tracker, TrackerMoves(t)
  PROVE  LifeInv'
<1>1. PICK to \in TrackerState :
        /\ tracker' = [tracker EXCEPT ![t] = to] /\ tracker[t] # "ended"
        /\ to \in {"connecting", "starting"} => tracker[t] = "connecting"
        /\ to \in {"stopping", "closing"} => cancel \/ tracker[t] = "stopping"
        /\ to = "ended" =>
             \/ tracker[t] \in {"connecting", "starting", "closing"}
             \/ FetchOver \/ cancel \/ PeersOf(t) = {}
  BY DEF TrackerMoves
<1>2. /\ fetch' = fetch /\ result' = result /\ stage' = stage /\ via' = via
      /\ (cancel' <=> cancel) /\ (meta' <=> meta)
  BY DEF TrackerMoves
<1>3. tracker \in [Tracker -> TrackerState]  BY DEF TypeInv, TypeOK
<1>4. Alive' = Alive /\ \A u \in Tracker : PeersOf(u)' = PeersOf(u)
  BY <1>2 DEF Alive, PeersOf
<1>5. t \notin Ended  BY <1>1 DEF Ended
<1>6. result # "exhausted"  BY <1>5 DEF LifeInv, NobodyLeft
<1>7. (tracker[t] = "closing" => cancel) /\ (tracker[t] = "stopping" => cancel) /\ (FetchOver => cancel)
  BY DEF LifeInv, FetchOver
<1>8. to = "ended" => cancel \/ PeersOf(t) = {}
  BY <1>1, <1>7 DEF LifeInv
<1>9. PeersSurviveTracker'
  <2>. SUFFICES ASSUME NEW s \in Alive, ~cancel PROVE tracker'[via[s]] # "ended"
    BY <1>2, <1>4 DEF PeersSurviveTracker
  <2>1. via[s] \in Tracker /\ tracker[via[s]] # "ended"
    BY DEF LifeInv, PeersSurviveTracker, TypeInv, Owned, Alive
  <2>2. via[s] = t => s \in PeersOf(t)  BY DEF PeersOf
  <2>. QED BY <2>1, <2>2, <1>1, <1>3, <1>8
<1>10. \A u \in Tracker :
         /\ tracker'[u] \in {"connecting", "starting"} => PeersOf(u) = {}
         /\ tracker'[u] \in {"stopping", "closing"} => cancel
  BY <1>1, <1>3, <1>7 DEF LifeInv
<1>. QED BY <1>2, <1>4, <1>6, <1>9, <1>10 DEF LifeInv, NobodyLeft

LEMMA ServeLife ==
  ASSUME TypeInv, LifeInv, NEW t \in Tracker, ServeEvent(t)
  PROVE  LifeInv'
<1>1. /\ tracker[t] = "serving" /\ tracker \in [Tracker -> TrackerState]
      /\ stage \in [Source -> Stage] /\ via \in [Source -> Tracker \cup {"none"}]
      /\ offerPool \subseteq Offer
  BY ServeEffect DEF TypeInv, TypeOK
<1>2. fetch' = fetch /\ result' = result /\ (cancel' <=> cancel)
  BY ServeEffect DEF TypeInv
<1>3. result # "exhausted"
  BY <1>1 DEF LifeInv, NobodyLeft, Ended
<1>4. tracker' = tracker \/ tracker' = [tracker EXCEPT ![t] = "draining"]
  BY ServeEffect DEF TypeInv, Spawns
<1>5. \/ stage' = stage /\ via' = via
      \/ \E e \in Source, first \in {"connecting", "answering"} :
           stage' = [stage EXCEPT ![e] = first] /\ via' = [via EXCEPT ![e] = t]
  BY <1>1, ServeEffect DEF TypeInv, Spawns, Source
<1>6. \A s \in Alive' : via'[s] = t \/ (s \in Alive /\ via'[s] = via[s])
  BY <1>1, <1>5 DEF Alive
<1>7. \A u \in Tracker : u # t => PeersOf(u)' \subseteq PeersOf(u)
  BY <1>6 DEF PeersOf
<1>8. \A u \in Tracker :
         /\ tracker'[u] \in {"connecting", "starting"} => PeersOf(u)' = {}
         /\ tracker'[u] \in {"stopping", "closing"} => cancel
  BY <1>1, <1>4, <1>7 DEF LifeInv
<1>9. PeersSurviveTracker'
  <2>. SUFFICES ASSUME NEW s \in Alive', ~cancel PROVE tracker'[via'[s]] # "ended"
    BY <1>2 DEF PeersSurviveTracker
  <2>1. s \in Alive => via[s] \in Tracker /\ tracker[via[s]] # "ended"
    BY DEF LifeInv, PeersSurviveTracker, TypeInv, Owned, Alive
  <2>. QED BY <2>1, <1>1, <1>4, <1>6
<1>. QED BY <1>2, <1>3, <1>8, <1>9 DEF LifeInv, NobodyLeft

LEMMA PeerLife ==
  ASSUME TypeInv, LifeInv, NEW s \in Source, AnyPeerStep(s)
  PROVE  LifeInv'
<1>1. /\ s \in Alive
      /\ fetch' = fetch /\ result' = result /\ tracker' = tracker /\ via' = via
      /\ (cancel' <=> cancel)
  BY PeerStepEffect DEF PeerEffect, TypeInv
<1>2. Alive' \subseteq Alive
  BY <1>1, PeerStepEffect DEF PeerEffect, TypeInv, TypeOK, Alive
<1>3. \A u \in Tracker : PeersOf(u)' \subseteq PeersOf(u)
  BY <1>1, <1>2 DEF PeersOf
<1>4. result # "exhausted"  BY <1>1 DEF LifeInv, NobodyLeft
<1>. QED BY <1>1, <1>2, <1>3, <1>4 DEF LifeInv, PeersSurviveTracker, NobodyLeft

LEMMA SameLife ==
  ASSUME LifeInv, UNCHANGED <<fetch, result, cancel, meta, tracker, stage, via>>
  PROVE  LifeInv'
<1>1. /\ fetch' = fetch /\ result' = result /\ tracker' = tracker /\ stage' = stage /\ via' = via
      /\ (cancel' <=> cancel) /\ (meta' <=> meta)
  OBVIOUS
<1>2. Alive' = Alive /\ Ended' = Ended /\ \A u \in Tracker : PeersOf(u)' = PeersOf(u)
  BY <1>1 DEF Alive, PeersOf, Ended
<1>. QED BY <1>1, <1>2 DEF LifeInv, PeersSurviveTracker, NobodyLeft

LEMMA LifeStep == TypeInv /\ LifeInv /\ [Next]_vars => LifeInv'
<1>. SUFFICES ASSUME TypeInv, LifeInv, [Next]_vars PROVE LifeInv'
  OBVIOUS
<1>1. CASE FetchStep \/ Drop  BY <1>1, FetchLife
<1>2. ASSUME NEW t \in Tracker, TrackerStep(t) \/ Connect(t) \/ NotConnected(t) PROVE LifeInv'
  BY <1>2, TrackerStepEffect, TrackerLife, ServeLife
<1>3. ASSUME NEW t \in Tracker, WsStep(t) \/ \E e \in Event : WsReceive(t, e) PROVE LifeInv'
  BY <1>3, WsStepTypes, SameLife DEF WsEffect, TypeInv
<1>4. ASSUME NEW s \in Source, AnyPeerStep(s) PROVE LifeInv'
  BY <1>4, PeerLife
<1>5. CASE UNCHANGED vars
  <2>1. UNCHANGED <<fetch, result, cancel, meta, tracker, stage, via>>
    BY <1>5, Zenon DEF vars, fetchVars, peerVars
  <2>. QED BY <2>1, SameLife
<1>. QED BY <1>1, <1>2, <1>3, <1>4, <1>5, StepCases

LEMMA InitLife == Init => LifeInv
<1>. SUFFICES ASSUME Init PROVE LifeInv  OBVIOUS
<1>1. Alive = {}  BY DEF Init, Alive
<1>2. (cancel <=> FALSE) /\ fetch = "racing" /\ result = "none"  BY DEF Init
<1>. QED BY <1>1, <1>2 DEF Init, LifeInv, PeersOf, PeersSurviveTracker, NobodyLeft

\* Tasks live and end as they should.
THEOREM Life == Spec => [](TypeInv /\ LifeInv)
<1>1. TypeInv /\ [Next]_vars => TypeInv'  BY TypeStep
<1>2. TypeInv /\ LifeInv /\ [Next]_vars => LifeInv'  BY LifeStep
<1>. QED BY <1>2, TypeCorrect, InitLife, PTL DEF Spec

\* MetadataFetch!Inv: channels within their capacity, and no peer goes with its
\* tracker before the fetch is over.
THEOREM PeersSurvive == Spec => []Inv
<1>1. TypeInv /\ LifeInv => Inv  BY DEF TypeInv, LifeInv, Inv
<1>. QED BY <1>1, Life, PTL

(***************************************************************************)
(* What a task has not heard.                                              *)
(***************************************************************************)

\* A step of one tracker, or of what belongs to it.
LEMMA OneHeard ==
  ASSUME HeardInv, ~cancel, unheard' = {}, NEW t \in Tracker, HeardBy(t)',
         \A u \in Tracker : u # t =>
           /\ tracker'[u] = tracker[u] /\ ws'[u] = ws[u] /\ wsEvent'[u] = wsEvent[u]
           /\ sent'[u] = sent[u] /\ cmds'[u] = cmds[u] /\ evts'[u] = evts[u]
  PROVE  HeardInv'
<1>1. ASSUME NEW u \in Tracker, u # t PROVE HeardBy(u)'
  <2>1. HeardBy(u)  BY DEF HeardInv
  <2>. QED BY <1>1, <2>1 DEF HeardBy
<1>. QED BY <1>1 DEF HeardInv

\* A task that goes on with an empty channel, or drops nothing it should have
\* heard.
LEMMA TrackerHeard ==
  ASSUME TypeInv, LifeInv, HeardInv, ~cancel, NEW t \in Tracker,
         TrackerStep(t) \/ Connect(t) \/ NotConnected(t)
  PROVE  HeardInv'
<1>1. /\ tracker \in [Tracker -> TrackerState] /\ ws \in [Tracker -> WsState]
      /\ cmds \in [Tracker -> Seq(Cmd)] /\ evts \in [Tracker -> Seq(Event)]
      /\ cmds[t] \in Seq(Cmd) /\ evts[t] \in Seq(Event)
  BY DEF TypeInv, TypeOK
<1>2. unheard = {} /\ HeardBy(t)  BY DEF HeardInv
<1>3. ~FetchOver /\ tracker[t] \notin {"stopping", "closing"}
  BY DEF LifeInv, FetchOver
<1>4. CASE Connect(t)
  <2>1. /\ tracker[t] = "connecting" /\ tracker' = [tracker EXCEPT ![t] = "starting"]
        /\ ws' = [ws EXCEPT ![t] = "open"]
        /\ UNCHANGED <<cmds, evts, wsEvent, sent, unheard>>
    BY <1>4 DEF Connect, Become
  <2>2. HeardBy(t)'  BY <1>1, <1>2, <2>1 DEF HeardBy
  <2>. QED BY <1>1, <1>2, <2>1, <2>2, OneHeard
<1>5. CASE NotConnected(t) \/ CancelConnect(t)
  <2>1. /\ tracker[t] = "connecting" /\ tracker' = [tracker EXCEPT ![t] = "ended"]
        /\ UNCHANGED <<cmds, evts, ws, wsEvent, sent, unheard>>
    BY <1>5 DEF CancelConnect, NotConnected, Become, wsVars
  <2>2. HeardBy(t)'  BY <1>1, <1>2, <2>1 DEF HeardBy
  <2>. QED BY <1>1, <1>2, <2>1, <2>2, OneHeard
<1>6. CASE AnnounceStarted(t)
  <2>0. tracker[t] = "starting" /\ UNCHANGED <<ws, wsEvent, sent>>
    BY <1>6 DEF AnnounceStarted, Become, wsVars
  <2>1. CASE Enqueue(t, "started") /\ Become(t, "starting", "serving") /\ UNCHANGED <<evts, unheard>>
    <3>1. /\ tracker' = [tracker EXCEPT ![t] = "serving"]
          /\ cmds' = [cmds EXCEPT ![t] = Append(cmds[t], "started")]
      BY <2>1 DEF Become, Enqueue
    <3>2. HeardBy(t)'  BY <1>1, <1>2, <2>0, <2>1, <3>1 DEF HeardBy
    <3>. QED BY <1>1, <1>2, <2>0, <2>1, <3>1, <3>2, OneHeard
  <2>2. CASE ClientGone(t) /\ Become(t, "starting", "ended") /\ DropEvents(t) /\ UNCHANGED cmds
    <3>1. /\ tracker' = [tracker EXCEPT ![t] = "ended"] /\ evts' = [evts EXCEPT ![t] = <<>>]
          /\ ws[t] # "open"
      BY <2>2 DEF Become, DropEvents, ClientGone
    <3>2. unheard' = {}
      BY <1>2, <2>0, <2>2 DEF DropEvents, Unheard, HeardBy
    <3>3. HeardBy(t)'  BY <1>1, <2>0, <3>1 DEF HeardBy
    <3>. QED BY <1>1, <2>0, <2>2, <3>1, <3>2, <3>3, OneHeard
  <2>. QED BY <1>6, <2>1, <2>2 DEF AnnounceStarted
<1>7. CASE ServeNone(t)
  <2>1. /\ tracker' = [tracker EXCEPT ![t] = "draining"] /\ evts[t] = <<>> /\ ws[t] # "open"
        /\ UNCHANGED <<cmds, evts, ws, wsEvent, sent, unheard>>
    BY <1>7 DEF ServeNone, Become, ClientGone, wsVars
  <2>2. HeardBy(t)'  BY <1>1, <2>1 DEF HeardBy
  <2>. QED BY <1>1, <1>2, <2>1, <2>2, OneHeard
<1>8. CASE ServeEvent(t)
  <2>1. /\ tracker[t] = "serving" /\ evts[t] # <<>> /\ evts' = [evts EXCEPT ![t] = Tail(evts[t])]
        /\ UNCHANGED <<cmds, ws, wsEvent, sent, unheard>>
    BY <1>8 DEF ServeEvent, wsVars
  <2>2. \/ tracker' = tracker
        \/ tracker' = [tracker EXCEPT ![t] = "draining"] /\ Head(evts[t]) = "closed"
    BY <1>8 DEF ServeEvent, peerVars
  <2>3. /\ Head(evts[t]) = evts[t][1] /\ 1 \in DOMAIN evts[t]
        /\ evts'[t] = Tail(evts[t]) /\ Len(evts'[t]) = Len(evts[t]) - 1
        /\ \A i \in DOMAIN evts'[t] : i + 1 \in DOMAIN evts[t] /\ evts'[t][i] = evts[t][i + 1]
        /\ \A i \in DOMAIN evts'[t] : i \in Nat
    BY <1>1, <2>1
  <2>4. \A i \in DOMAIN evts'[t] : evts'[t][i] = "closed" => i = Len(evts'[t]) /\ ws'[t] # "open"
    BY <1>1, <1>2, <2>1, <2>3 DEF HeardBy
  <2>5. HeardBy(t)'
    <3>1. CASE tracker' = tracker  BY <2>1, <2>4, <3>1 DEF HeardBy
    <3>2. CASE tracker' = [tracker EXCEPT ![t] = "draining"] /\ Head(evts[t]) = "closed"
      <4>1. Len(evts[t]) = 1 /\ ws[t] # "open"  BY <1>2, <2>3, <3>2 DEF HeardBy
      <4>2. evts'[t] = <<>>  BY <1>1, <2>3, <4>1
      <4>3. tracker'[t] = "draining" /\ ws'[t] # "open"  BY <1>1, <2>1, <3>2, <4>1
      <4>. QED BY <4>2, <4>3, <2>4 DEF HeardBy
    <3>. QED BY <2>2, <3>1, <3>2
  <2>. QED BY <1>1, <1>2, <2>1, <2>2, <2>5, OneHeard
<1>9. CASE Drain(t)
  <2>1. /\ tracker[t] = "draining" /\ tracker' = [tracker EXCEPT ![t] = "ended"]
        /\ evts' = [evts EXCEPT ![t] = <<>>]
        /\ UNCHANGED <<cmds, ws, wsEvent, sent>>
    BY <1>9 DEF Drain, Become, DropEvents, wsVars
  <2>2. evts[t] = <<>> /\ ws[t] # "open"  BY <1>2, <2>1 DEF HeardBy
  <2>3. unheard' = {}
    <3>1. {evts[t][i] : i \in DOMAIN evts[t]} = {}  BY <2>2
    <3>. QED BY <1>2, <1>9, <3>1 DEF Drain, DropEvents, Unheard
  <2>4. HeardBy(t)'  BY <1>1, <2>1, <2>2 DEF HeardBy
  <2>. QED BY <1>1, <2>1, <2>3, <2>4, OneHeard
<1>10. ~ServeCancel(t) /\ ~AnnounceStopped(t) /\ ~Shutdown(t) /\ ~TrackerAborted(t)
  BY <1>3 DEF ServeCancel, AnnounceStopped, Shutdown, TrackerAborted, Become
<1>. QED BY <1>4, <1>5, <1>6, <1>7, <1>8, <1>9, <1>10 DEF TrackerStep

\* The WebSocket task: events come after `started`, and Closed is the last.
LEMMA WsHeard ==
  ASSUME TypeInv, HeardInv, ~cancel, NEW t \in Tracker,
         WsStep(t) \/ \E e \in Event : WsReceive(t, e)
  PROVE  HeardInv'
<1>1. /\ ws \in [Tracker -> WsState] /\ wsEvent \in [Tracker -> Event \cup {"none"}]
      /\ sent \in [Tracker -> SUBSET {"started", "stopped"}]
      /\ cmds \in [Tracker -> Seq(Cmd)] /\ evts \in [Tracker -> Seq(Event)]
      /\ cmds[t] \in Seq(Cmd) /\ evts[t] \in Seq(Event)
      /\ "none" \notin Source /\ "closed" \notin Source
  BY SourceAssumption DEF TypeInv, TypeOK, Source
<1>2. unheard = {} /\ HeardBy(t)  BY DEF HeardInv
<1>3. ws[t] = "open" /\ tracker' = tracker
  BY WsStepTypes DEF TypeInv, WsEffect
<1>4. tracker[t] \notin {"connecting", "draining", "ended"}  BY <1>2, <1>3 DEF HeardBy
<1>5. \A i \in DOMAIN evts[t] : evts[t][i] # "closed"  BY <1>2, <1>3 DEF HeardBy
<1>6. CASE WsCommand(t)
  <2>1. /\ cmds[t] # <<>> /\ cmds' = [cmds EXCEPT ![t] = Tail(cmds[t])]
        /\ UNCHANGED <<evts, unheard>>
    BY <1>6 DEF WsCommand
  <2>2. /\ \A i \in DOMAIN cmds'[t] : i + 1 \in DOMAIN cmds[t] /\ cmds'[t][i] = cmds[t][i + 1]
        /\ 1 \in DOMAIN cmds[t] /\ Head(cmds[t]) = cmds[t][1]
    BY <1>1, <2>1
  <2>3. \/ sent' = [sent EXCEPT ![t] = @ \cup ({Head(cmds[t])} \ {"answer"})]
        \/ UNCHANGED sent
    BY <1>6 DEF WsCommand
  <2>4. \/ UNCHANGED <<ws, wsEvent>>
        \/ \E how : LeaveWs(t, how)
    BY <1>6 DEF WsCommand
  <2>5. wsEvent'[t] = wsEvent[t] \/ wsEvent'[t] = "none"
    BY <1>1, <2>4 DEF LeaveWs
  <2>6. tracker[t] = "starting" => "started" \notin sent'[t]
    BY <1>1, <1>2, <2>2, <2>3 DEF HeardBy
  <2>7. HeardBy(t)'
    BY <1>1, <1>2, <1>3, <1>4, <1>5, <2>1, <2>2, <2>5, <2>6 DEF HeardBy
  <2>8. \A u \in Tracker : u # t =>
          ws'[u] = ws[u] /\ wsEvent'[u] = wsEvent[u] /\ sent'[u] = sent[u] /\ cmds'[u] = cmds[u]
    BY <1>1, <2>1, <2>3, <2>4 DEF LeaveWs
  <2>. QED BY <1>2, <1>3, <2>1, <2>7, <2>8, OneHeard
<1>7. CASE WsDropped(t)
  BY <1>4, <1>7 DEF WsDropped
<1>8. CASE WsDeliver(t)
  <2>1. /\ evts' = [evts EXCEPT ![t] = Append(evts[t], wsEvent[t])]
        /\ wsEvent' = [wsEvent EXCEPT ![t] = "none"]
        /\ ws' = [ws EXCEPT ![t] = IF wsEvent[t] = "closed" THEN "lost" ELSE "open"]
        /\ UNCHANGED <<cmds, sent, unheard>>
    BY <1>3, <1>4, <1>8 DEF WsDeliver, ListenerGone
  <2>2. /\ Len(evts'[t]) = Len(evts[t]) + 1 /\ DOMAIN evts'[t] = 1..(Len(evts[t]) + 1)
        /\ evts'[t][Len(evts[t]) + 1] = wsEvent[t]
        /\ \A i \in 1..(Len(evts[t]) + 1) :
             i # Len(evts[t]) + 1 => i \in DOMAIN evts[t] /\ evts'[t][i] = evts[t][i]
    BY <1>1, <2>1
  <2>3. /\ wsEvent'[t] = "none"
        /\ ws'[t] = IF wsEvent[t] = "closed" THEN "lost" ELSE "open"
    BY <1>1, <2>1
  <2>4. \A i \in DOMAIN evts'[t] : evts'[t][i] = "closed" => i = Len(evts'[t]) /\ ws'[t] # "open"
    BY <1>5, <2>2, <2>3
  <2>5. tracker[t] = "starting" => \A i \in DOMAIN evts'[t] : evts'[t][i] \notin Source
    BY <1>2, <2>2 DEF HeardBy
  <2>6. HeardBy(t)'
    BY <1>1, <1>2, <1>3, <1>4, <2>1, <2>3, <2>4, <2>5 DEF HeardBy
  <2>. QED BY <1>1, <1>2, <1>3, <2>1, <2>6, OneHeard
<1>9. ASSUME NEW e \in Event, WsReceive(t, e) PROVE HeardInv'
  <2>1. /\ wsEvent' = [wsEvent EXCEPT ![t] = e] /\ (e \in Source => "started" \in sent[t])
        /\ UNCHANGED <<cmds, evts, ws, sent, unheard>>
    BY <1>9 DEF WsReceive
  <2>2. wsEvent'[t] = e  BY <1>1, <2>1
  <2>3. HeardBy(t)'  BY <1>2, <1>3, <1>4, <2>1, <2>2 DEF HeardBy
  <2>. QED BY <1>1, <1>2, <1>3, <2>1, <2>3, OneHeard
<1>. QED BY <1>6, <1>7, <1>8, <1>9 DEF WsStep

\* A peer task only ever queues an answer.
LEMMA PeerHeard ==
  ASSUME TypeInv, HeardInv, ~cancel, NEW s \in Source, AnyPeerStep(s)
  PROVE  HeardInv'
<1>1. PeerEffect(s) /\ via[s] \in Tracker
  BY PeerStepEffect DEF TypeInv, Owned, PeerEffect, Alive
<1>2. UNCHANGED <<tracker, ws, wsEvent, sent, evts, unheard>>
  BY <1>1 DEF PeerEffect
<1>3. PICK t \in Tracker : t = via[s]  BY <1>1
<1>4. cmds \in [Tracker -> Seq(Cmd)] /\ cmds[t] \in Seq(Cmd)  BY DEF TypeInv, TypeOK
<1>5. cmds' = cmds \/ cmds' = [cmds EXCEPT ![t] = Append(cmds[t], "answer")]
  BY <1>1, <1>3 DEF PeerEffect, Enqueue
<1>6. \A i \in DOMAIN cmds'[t] :
        \/ i \in DOMAIN cmds[t] /\ cmds'[t][i] = cmds[t][i]
        \/ cmds'[t][i] = "answer"
  <2>1. CASE cmds' = cmds  BY <2>1
  <2>2. CASE cmds' = [cmds EXCEPT ![t] = Append(cmds[t], "answer")]
    <3>1. cmds'[t] = Append(cmds[t], "answer")  BY <1>4, <2>2
    <3>. QED BY <1>4, <3>1
  <2>. QED BY <1>5, <2>1, <2>2
<1>7. unheard = {} /\ HeardBy(t)  BY DEF HeardInv
<1>8. HeardBy(t)'  BY <1>2, <1>6, <1>7 DEF HeardBy
<1>. QED BY <1>2, <1>4, <1>5, <1>7, <1>8, OneHeard

LEMMA HeardStep == TypeInv /\ LifeInv /\ HeardInv /\ [Next]_vars => HeardInv'
<1>. SUFFICES ASSUME TypeInv, LifeInv, HeardInv, [Next]_vars PROVE HeardInv'
  OBVIOUS
<1>0. LifeInv'  BY LifeStep
<1>1. CASE FetchStep \/ Drop
  <2>1. fetch' # "racing"
    BY <1>1 DEF FetchStep, ReceiveMetadata, Exhaust, TimeOut, Return, Decide, Drop
  <2>2. cancel'  BY <1>0, <2>1 DEF LifeInv
  <2>. QED BY <2>2 DEF HeardInv
<1>. SUFFICES ASSUME ~(FetchStep \/ Drop) PROVE HeardInv'  BY <1>1
<1>6. CASE cancel
  <2>1. fetch # "racing"  BY <1>6 DEF LifeInv
  <2>2. fetch' = fetch
    <3>1. ASSUME NEW t \in Tracker, TrackerStep(t) \/ Connect(t) \/ NotConnected(t) PROVE fetch' = fetch
      BY <3>1, TrackerStepEffect, ServeEffect DEF TrackerMoves, TypeInv
    <3>2. ASSUME NEW t \in Tracker, WsStep(t) \/ \E e \in Event : WsReceive(t, e) PROVE fetch' = fetch
      BY <3>2, WsStepTypes DEF TypeInv, WsEffect
    <3>3. ASSUME NEW s \in Source, AnyPeerStep(s) PROVE fetch' = fetch
      BY <3>3, PeerStepEffect DEF TypeInv, PeerEffect
    <3>4. UNCHANGED vars => fetch' = fetch  BY DEF vars, fetchVars
    <3>. QED BY <3>1, <3>2, <3>3, <3>4, StepCases
  <2>3. cancel'  BY <1>0, <2>1, <2>2 DEF LifeInv
  <2>. QED BY <2>3 DEF HeardInv
<1>. SUFFICES ASSUME ~cancel PROVE HeardInv'  BY <1>6
<1>2. ASSUME NEW t \in Tracker, TrackerStep(t) \/ Connect(t) \/ NotConnected(t) PROVE HeardInv'
  BY <1>2, TrackerHeard
<1>3. ASSUME NEW t \in Tracker, WsStep(t) \/ \E e \in Event : WsReceive(t, e) PROVE HeardInv'
  BY <1>3, WsHeard
<1>4. ASSUME NEW s \in Source, AnyPeerStep(s) PROVE HeardInv'
  BY <1>4, PeerHeard
<1>5. CASE UNCHANGED vars
  BY <1>5 DEF vars, fetchVars, wsVars, HeardInv, HeardBy
<1>. QED BY <1>2, <1>3, <1>4, <1>5, StepCases

\* Nobody is left who could take it back.
LEMMA ExhaustedStep ==
  TypeInv /\ LifeInv /\ HeardInv /\ ExhaustedIsTrue /\ [Next]_vars => ExhaustedIsTrue'
<1>. SUFFICES ASSUME TypeInv, LifeInv, HeardInv, ExhaustedIsTrue, [Next]_vars PROVE ExhaustedIsTrue'
  OBVIOUS
<1>1. CASE FetchStep \/ Drop
  <2>1. UNCHANGED <<ws, unheard>>
    BY <1>1 DEF FetchStep, ReceiveMetadata, Exhaust, TimeOut, Return, Decide, Drop, wsVars
  <2>2. CASE Exhaust
    <3>1. fetch = "racing" /\ Ended = Tracker  BY <2>2 DEF Exhaust, Decide, SendersDropped
    <3>2. unheard = {} /\ \A t \in Tracker : ws[t] # "open"
      BY <3>1 DEF LifeInv, HeardInv, HeardBy, Ended
    <3>. QED BY <2>1, <3>2 DEF ExhaustedIsTrue
  <2>3. CASE ~Exhaust
    <3>1. result' = result \/ result' \in {"metadata", "timeout"}
      BY <1>1, <2>3 DEF FetchStep, ReceiveMetadata, TimeOut, Return, Decide, Drop
    <3>. QED BY <2>1, <3>1 DEF ExhaustedIsTrue
  <2>. QED BY <2>2, <2>3
<1>. SUFFICES ASSUME ~(FetchStep \/ Drop) PROVE ExhaustedIsTrue'  BY <1>1
<1>2. ASSUME NEW t \in Tracker, TrackerStep(t) \/ Connect(t) \/ NotConnected(t)
      PROVE  ExhaustedIsTrue'
  <2>1. tracker[t] # "ended" /\ result' = result
    BY <1>2, TrackerStepEffect, ServeEffect DEF TrackerMoves, TypeInv
  <2>2. result # "exhausted"  BY <2>1 DEF LifeInv, NobodyLeft, Ended
  <2>. QED BY <2>1, <2>2 DEF ExhaustedIsTrue
<1>3. ASSUME NEW t \in Tracker, WsStep(t) \/ \E e \in Event : WsReceive(t, e)
      PROVE  ExhaustedIsTrue'
  <2>1. ws[t] = "open" /\ result' = result
    BY <1>3, WsStepTypes DEF TypeInv, WsEffect
  <2>. QED BY <2>1 DEF ExhaustedIsTrue
<1>4. ASSUME NEW s \in Source, AnyPeerStep(s) PROVE ExhaustedIsTrue'
  <2>1. s \in Alive /\ result' = result
    BY <1>4, PeerStepEffect DEF TypeInv, PeerEffect
  <2>. QED BY <2>1 DEF ExhaustedIsTrue, LifeInv, NobodyLeft
<1>5. CASE UNCHANGED vars
  BY <1>5 DEF vars, fetchVars, wsVars, ExhaustedIsTrue
<1>. QED BY <1>2, <1>3, <1>4, <1>5, StepCases

\* MetadataFetch!ExhaustedIsTrue: the fetch never reports that everybody gave
\* up while a connection is still open, or after an answer or an offer came
\* that no run_tracker looked at (engine.rs:155, 205-266).
THEOREM ExhaustionIsTrue == Spec => []ExhaustedIsTrue
<1>1. Init => HeardInv /\ ExhaustedIsTrue
  <2>. SUFFICES ASSUME Init PROVE HeardInv /\ ExhaustedIsTrue  OBVIOUS
  <2>1. unheard = {} /\ \A t \in Tracker : HeardBy(t)
    BY SourceAssumption DEF Init, HeardBy, Source
  <2>. QED BY <2>1 DEF Init, HeardInv, ExhaustedIsTrue
<1>2. TypeInv /\ LifeInv /\ HeardInv /\ ExhaustedIsTrue /\ [Next]_vars => HeardInv' /\ ExhaustedIsTrue'
  BY HeardStep, ExhaustedStep
<1>. QED BY <1>1, <1>2, Life, PTL DEF Spec

(***************************************************************************)
(* Offers.                                                                 *)
(***************************************************************************)

\* Events that are dropped, and peers that go on, leave the invariant alone.
LEMMA OffersKept ==
  ASSUME TypeInv, OfferInv,
         offerPool' = offerPool,
         \A s \in Source : stage[s] = "none" => stage'[s] = "none",
         \A t \in Tracker : wsEvent'[t] = wsEvent[t] \/ wsEvent'[t] = "none",
         \A t \in Tracker : evts'[t] = evts[t] \/ evts'[t] = <<>>
  PROVE  OfferInv'
<1>1. offerPool \subseteq Source /\ Remote \subseteq Source /\ "none" \notin Remote
  BY SourceAssumption DEF TypeInv, TypeOK, Source
<1>2. \A t \in Tracker : wsEvent'[t] \in Remote => wsEvent'[t] = wsEvent[t]
  BY <1>1
<1>3. \A t \in Tracker : \A i \in DOMAIN evts'[t] : evts'[t] = evts[t]
  OBVIOUS
<1>4. \A o \in offerPool' : stage'[o] = "none"  BY <1>1 DEF OfferInv
<1>5. ASSUME NEW t \in Tracker
      PROVE  /\ wsEvent'[t] \in Remote => stage'[wsEvent'[t]] = "none"
             /\ \A i \in DOMAIN evts'[t] : evts'[t][i] \in Remote => stage'[evts'[t][i]] = "none"
  BY <1>1, <1>2, <1>3 DEF OfferInv
<1>6. ASSUME NEW t \in Tracker, NEW u \in Tracker
      PROVE  /\ wsEvent'[t] \in Remote /\ wsEvent'[u] = wsEvent'[t] => t = u
             /\ wsEvent'[t] \in Remote => \A j \in DOMAIN evts'[u] : evts'[u][j] # wsEvent'[t]
             /\ \A i \in DOMAIN evts'[t], j \in DOMAIN evts'[u] :
                  evts'[t][i] \in Remote /\ evts'[t][i] = evts'[u][j] => t = u /\ i = j
  <2>1. wsEvent'[t] \in Remote /\ wsEvent'[u] = wsEvent'[t] => t = u
    BY <1>2 DEF OfferInv
  <2>2. wsEvent'[t] \in Remote => \A j \in DOMAIN evts'[u] : evts'[u][j] # wsEvent'[t]
    BY <1>2, <1>3 DEF OfferInv
  <2>3. \A i \in DOMAIN evts'[t], j \in DOMAIN evts'[u] :
          evts'[t][i] \in Remote /\ evts'[t][i] = evts'[u][j] => t = u /\ i = j
    BY <1>3 DEF OfferInv
  <2>. QED BY <2>1, <2>2, <2>3
<1>. QED BY <1>4, <1>5, <1>6 DEF OfferInv

\* A tracker's message: the offer of another is not under way anywhere.
LEMMA ReceiveOffers ==
  ASSUME TypeInv, OfferInv, NEW t \in Tracker, NEW e \in Event, WsReceive(t, e)
  PROVE  OfferInv'
<1>1. /\ wsEvent' = [wsEvent EXCEPT ![t] = e] /\ evts' = evts
      /\ stage' = stage /\ offerPool' = offerPool
      /\ e \in Remote => stage[e] = "none" /\ ~InFlight(e)
      /\ wsEvent \in [Tracker -> Event \cup {"none"}]
  BY DEF WsReceive, peerVars, TypeInv, TypeOK
<1>2. ASSUME e \in Remote, NEW u \in Tracker
      PROVE  wsEvent[u] # e /\ \A j \in DOMAIN evts[u] : evts[u][j] # e
  BY <1>1, <1>2 DEF InFlight
<1>3. \A u \in Tracker : wsEvent'[u] = IF u = t THEN e ELSE wsEvent[u]
  BY <1>1
<1>4. ASSUME NEW u \in Tracker, NEW v \in Tracker
      PROVE  /\ wsEvent'[u] \in Remote /\ wsEvent'[v] = wsEvent'[u] => u = v
             /\ wsEvent'[u] \in Remote => \A j \in DOMAIN evts[v] : evts[v][j] # wsEvent'[u]
  BY <1>2, <1>3 DEF OfferInv
<1>. QED BY <1>1, <1>3, <1>4 DEF OfferInv

\* The event goes from the WebSocket task into the channel.
LEMMA DeliverOffers ==
  ASSUME TypeInv, OfferInv, NEW t \in Tracker, WsDeliver(t), ~ListenerGone(t)
  PROVE  OfferInv'
<1> DEFINE e == wsEvent[t]
           n == Len(evts[t]) + 1
<1>1. /\ wsEvent' = [wsEvent EXCEPT ![t] = "none"]
      /\ evts' = [evts EXCEPT ![t] = Append(evts[t], e)]
      /\ stage' = stage /\ offerPool' = offerPool
      /\ wsEvent \in [Tracker -> Event \cup {"none"}] /\ e # "none"
      /\ evts \in [Tracker -> Seq(Event)]
  BY DEF WsDeliver, peerVars, TypeInv, TypeOK
<1>2. /\ \A u \in Tracker : u # t => evts'[u] = evts[u] /\ wsEvent'[u] = wsEvent[u]
      /\ wsEvent'[t] = "none"
      /\ DOMAIN evts'[t] = 1..n /\ evts'[t][n] = e
      /\ \A i \in 1..n : i # n => i \in DOMAIN evts[t] /\ evts'[t][i] = evts[t][i]
  <2>1. evts[t] \in Seq(Event) /\ e \in Event /\ evts'[t] = Append(evts[t], e)  BY <1>1
  <2>. QED BY <1>1, <2>1
<1>3. "none" \notin Remote  BY SourceAssumption
<1>. HIDE DEF e, n
\* Where an event in a channel was before.
<1>4. ASSUME NEW u \in Tracker, NEW i \in DOMAIN evts'[u]
      PROVE  \/ u = t /\ i = n /\ evts'[u][i] = e
             \/ /\ i \in DOMAIN evts[u] /\ evts'[u][i] = evts[u][i]
                /\ ~(u = t /\ i = n)
  BY <1>2
<1>5. \A u \in Tracker :
        /\ e \in Remote => stage[e] = "none"
        /\ e \in Remote => \A j \in DOMAIN evts[u] : evts[u][j] # e
        /\ e \in Remote /\ wsEvent[u] = e => u = t
  BY DEF OfferInv, e
<1>6. \A u \in Tracker : \A i \in DOMAIN evts'[u] :
        evts'[u][i] \in Remote => stage[evts'[u][i]] = "none"
  BY <1>4, <1>5 DEF OfferInv
<1>7. ASSUME NEW u \in Tracker, NEW v \in Tracker,
             NEW i \in DOMAIN evts'[u], NEW j \in DOMAIN evts'[v],
             evts'[u][i] \in Remote, evts'[u][i] = evts'[v][j]
      PROVE  u = v /\ i = j
  <2>1. CASE u = t /\ i = n /\ evts'[u][i] = e
    <3>1. evts'[v][j] = e /\ e \in Remote  BY <1>7, <2>1
    <3>2. v = t /\ j = n
      <4>. SUFFICES ASSUME j \in DOMAIN evts[v], evts'[v][j] = evts[v][j] PROVE FALSE
        BY <1>4
      <4>. QED BY <3>1, <1>5
    <3>. QED BY <2>1, <3>2
  <2>2. CASE v = t /\ j = n /\ evts'[v][j] = e
    <3>1. evts'[u][i] = e /\ e \in Remote  BY <1>7, <2>2
    <3>2. u = t /\ i = n
      <4>. SUFFICES ASSUME i \in DOMAIN evts[u], evts'[u][i] = evts[u][i] PROVE FALSE
        BY <1>4
      <4>. QED BY <3>1, <1>5
    <3>. QED BY <2>2, <3>2
  <2>3. CASE /\ i \in DOMAIN evts[u] /\ evts'[u][i] = evts[u][i]
             /\ j \in DOMAIN evts[v] /\ evts'[v][j] = evts[v][j]
    <3>1. evts[u][i] \in Remote /\ evts[u][i] = evts[v][j]  BY <1>7, <2>3
    <3>. QED BY <3>1, <2>3 DEF OfferInv
  <2>. QED BY <1>4, <2>1, <2>2, <2>3
<1>8. \A u \in Tracker : wsEvent'[u] \in Remote => u # t /\ wsEvent'[u] = wsEvent[u]
  BY <1>2, <1>3
<1>9. ASSUME NEW u \in Tracker, NEW v \in Tracker, wsEvent'[u] \in Remote
      PROVE  /\ wsEvent'[v] = wsEvent'[u] => u = v
             /\ \A j \in DOMAIN evts'[v] : evts'[v][j] # wsEvent'[u]
  BY <1>9, <1>8, <1>4, <1>5 DEF OfferInv
<1>. QED BY <1>1, <1>6, <1>7, <1>8, <1>9 DEF OfferInv

\* An event is taken, and with it goes the last chance of its offer.
LEMMA ServeOffers ==
  ASSUME TypeInv, OfferInv, NEW t \in Tracker, ServeEvent(t)
  PROVE  /\ OfferInv'
         /\ \A s \in Source : stage'[s] # stage[s] => stage[s] = "none"
<1>1. /\ evts[t] # <<>> /\ evts' = [evts EXCEPT ![t] = Tail(evts[t])]
      /\ wsEvent' = wsEvent
      /\ evts \in [Tracker -> Seq(Event)] /\ stage \in [Source -> Stage]
      /\ offerPool \subseteq Offer
  BY ServeEffect DEF TypeInv, TypeOK
<1>2. PICK e \in Event :
        /\ e = Head(evts[t])
        /\ \/ /\ e \in offerPool /\ offerPool' = offerPool \ {e}
              /\ Spawns(t, e, "connecting")
           \/ e \in Remote /\ offerPool' = offerPool /\ Spawns(t, e, "answering")
           \/ offerPool' = offerPool /\ stage' = stage
  BY ServeEffect DEF TypeInv
<1>3. 1 \in DOMAIN evts[t] /\ evts[t][1] = e  BY <1>1, <1>2
<1> DEFINE Before(u, i) == IF u = t THEN i + 1 ELSE i
<1>4. ASSUME NEW u \in Tracker, NEW i \in DOMAIN evts'[u]
      PROVE  /\ Before(u, i) \in DOMAIN evts[u] /\ evts'[u][i] = evts[u][Before(u, i)]
             /\ u = t => Before(u, i) # 1
             /\ i \in Nat
  <2>1. CASE u = t
    <3>1. evts'[u] = Tail(evts[t]) /\ evts[t] \in Seq(Event)  BY <2>1, <1>1
    <3>. QED BY <3>1, <2>1, <1>1
  <2>2. CASE u # t
    <3>1. evts'[u] = evts[u] /\ evts[u] \in Seq(Event)  BY <2>2, <1>1
    <3>. QED BY <3>1, <2>2
  <2>. QED BY <2>1, <2>2
<1>5. \A u, v \in Tracker : \A i \in DOMAIN evts'[u], j \in DOMAIN evts'[v] :
        u = v /\ Before(u, i) = Before(v, j) => i = j
  BY <1>4
<1>. HIDE DEF Before
\* The one place of a remote offer was the head of the channel.
<1>6. ASSUME e \in Remote
      PROVE  /\ stage[e] = "none"
             /\ \A u \in Tracker : wsEvent[u] # e
             /\ \A u \in Tracker : \A i \in DOMAIN evts'[u] : evts'[u][i] # e
  <2>1. stage[e] = "none" /\ \A u \in Tracker : wsEvent[u] # e
    BY <1>6, <1>3 DEF OfferInv
  <2>2. ASSUME NEW u \in Tracker, NEW i \in DOMAIN evts'[u], evts'[u][i] = e PROVE FALSE
    BY <1>6, <2>2, <1>3, <1>4 DEF OfferInv
  <2>. QED BY <2>1, <2>2
<1>7. e \in offerPool => stage[e] = "none" /\ e \notin Remote
  BY <1>1, SourceAssumption DEF OfferInv
\* Which offers have a peer now.
<1>8. \A s \in Source :
        \/ stage'[s] = stage[s]
        \/ s = e /\ stage[s] = "none" /\ s \in offerPool \cup Remote /\ s \notin offerPool'
  <2>1. CASE e \in offerPool /\ offerPool' = offerPool \ {e} /\ Spawns(t, e, "connecting")
    BY <2>1, <1>1, <1>7 DEF Spawns
  <2>2. CASE e \in Remote /\ offerPool' = offerPool /\ Spawns(t, e, "answering")
    BY <2>2, <1>1, <1>6, SourceAssumption DEF Spawns
  <2>3. CASE offerPool' = offerPool /\ stage' = stage
    BY <2>3
  <2>. QED BY <1>2, <2>1, <2>2, <2>3
<1>9. offerPool' \subseteq offerPool /\ offerPool \subseteq Source /\ Remote \subseteq Source
  BY <1>1, <1>2 DEF Source
<1>10. \A o \in offerPool' : stage'[o] = "none"  BY <1>8, <1>9 DEF OfferInv
<1>11. ASSUME NEW r \in Remote, stage[r] = "none", r # e PROVE stage'[r] = "none"
  BY <1>11, <1>8, <1>9
<1>12. ASSUME NEW u \in Tracker
       PROVE  /\ wsEvent[u] \in Remote => stage'[wsEvent[u]] = "none"
              /\ \A i \in DOMAIN evts'[u] : evts'[u][i] \in Remote => stage'[evts'[u][i]] = "none"
  BY <1>4, <1>6, <1>11 DEF OfferInv
<1>13. ASSUME NEW u \in Tracker, NEW v \in Tracker
       PROVE  /\ wsEvent[u] \in Remote => \A j \in DOMAIN evts'[v] : evts'[v][j] # wsEvent[u]
              /\ \A i \in DOMAIN evts'[u], j \in DOMAIN evts'[v] :
                   evts'[u][i] \in Remote /\ evts'[u][i] = evts'[v][j] => u = v /\ i = j
  BY <1>4, <1>5 DEF OfferInv
<1>14. \A u, v \in Tracker : wsEvent[u] \in Remote /\ wsEvent[v] = wsEvent[u] => u = v
  BY DEF OfferInv
<1>15. OfferInv'
  BY <1>1, <1>10, <1>12, <1>13, <1>14 DEF OfferInv
<1>. QED BY <1>8, <1>15

\* The other steps, and that peers only go forward in every step.
Forward == \A s \in Source : stage'[s] # stage[s] => Order[stage'[s]] > Order[stage[s]]

LEMMA OfferStep == TypeInv /\ OfferInv /\ [Next]_vars => OfferInv' /\ Forward
<1>. SUFFICES ASSUME TypeInv, OfferInv, [Next]_vars PROVE OfferInv' /\ Forward
  OBVIOUS
<1>1. /\ wsEvent \in [Tracker -> Event \cup {"none"}] /\ evts \in [Tracker -> Seq(Event)]
      /\ stage \in [Source -> Stage]
  BY DEF TypeInv, TypeOK
<1>2. ASSUME offerPool' = offerPool, stage' = stage, wsEvent' = wsEvent,
             evts' = evts \/ \E t \in Tracker : DropEvents(t)
      PROVE  OfferInv' /\ Forward
  <2>1. \A t \in Tracker : evts'[t] = evts[t] \/ evts'[t] = <<>>
    BY <1>1, <1>2 DEF DropEvents
  <2>2. Forward  BY <1>2 DEF Forward
  <2>. QED BY <1>2, <2>1, <2>2, OffersKept
<1>3. CASE FetchStep \/ Drop
  BY <1>2, <1>3
  DEF FetchStep, ReceiveMetadata, Exhaust, TimeOut, Return, Decide, Drop, wsVars, peerVars
<1>4. ASSUME NEW t \in Tracker, TrackerStep(t) \/ Connect(t) \/ NotConnected(t)
      PROVE  OfferInv' /\ Forward
  <2>1. CASE ServeEvent(t)
    <3>1. OfferInv'  BY <2>1, ServeOffers
    <3>2. Forward
      <4>. SUFFICES ASSUME NEW s \in Source, stage'[s] # stage[s]
                    PROVE  Order[stage'[s]] > Order[stage[s]]
        BY DEF Forward
      <4>1. stage[s] = "none"  BY <2>1, ServeOffers
      <4>2. stage'[s] \in {"connecting", "answering"}
        BY <1>1, <2>1, ServeEffect DEF TypeInv, Spawns
      <4>. QED BY <4>1, <4>2, StageOrder
    <3>. QED BY <3>1, <3>2
  <2>2. CASE ~ServeEvent(t)
    <3>1. /\ offerPool' = offerPool /\ stage' = stage /\ wsEvent' = wsEvent
          /\ evts' = evts \/ DropEvents(t)
      BY <1>4, <2>2
      DEF TrackerStep, CancelConnect, NotConnected, AnnounceStarted, ServeCancel, ServeNone,
          AnnounceStopped, Shutdown, Drain, TrackerAborted, Connect, wsVars, peerVars
    <3>. QED BY <1>2, <3>1
  <2>. QED BY <2>1, <2>2
<1>5. ASSUME NEW t \in Tracker, WsStep(t) PROVE OfferInv' /\ Forward
  <2>1. offerPool' = offerPool /\ stage' = stage /\ Forward
    BY <1>5, WsStepTypes DEF TypeInv, WsEffect, Forward
  <2>2. CASE WsDeliver(t) /\ ~ListenerGone(t)
    BY <2>1, <2>2, DeliverOffers
  <2>3. CASE WsCommand(t) \/ WsDropped(t) \/ (WsDeliver(t) /\ ListenerGone(t))
    <3>1. evts' = evts /\ (wsEvent' = wsEvent \/ wsEvent' = [wsEvent EXCEPT ![t] = "none"])
      BY <2>3 DEF WsCommand, WsDropped, WsDeliver, LeaveWs
    <3>2. \A u \in Tracker : wsEvent'[u] = wsEvent[u] \/ wsEvent'[u] = "none"
      BY <1>1, <3>1
    <3>. QED BY <2>1, <3>1, <3>2, OffersKept
  <2>. QED BY <1>5, <2>2, <2>3 DEF WsStep
<1>6. ASSUME NEW t \in Tracker, NEW e \in Event, WsReceive(t, e) PROVE OfferInv' /\ Forward
  <2>1. stage' = stage  BY <1>6 DEF WsReceive, peerVars
  <2>. QED BY <1>6, <2>1, ReceiveOffers DEF Forward
<1>7. ASSUME NEW s \in Source, AnyPeerStep(s) PROVE OfferInv' /\ Forward
  <2>1. PeerEffect(s)  BY <1>7, PeerStepEffect DEF TypeInv
  <2>2. PICK to \in Stage : stage' = [stage EXCEPT ![s] = to] /\ Order[to] > Order[stage[s]]
    BY <2>1 DEF PeerEffect
  <2>3. Forward  BY <1>1, <2>2 DEF Forward
  <2>4. \A r \in Source : stage[r] = "none" => stage'[r] = "none"
    BY <1>1, <2>1, <2>2 DEF PeerEffect, Alive
  <2>. QED BY <2>1, <2>3, <2>4, OffersKept DEF PeerEffect
<1>8. CASE UNCHANGED vars
  BY <1>2, <1>8 DEF vars, wsVars, peerVars
<1>. QED BY <1>3, <1>4, <1>5, <1>6, <1>7, <1>8, StepCases

LEMMA InitOffers == Init => OfferInv
<1>. SUFFICES ASSUME Init PROVE OfferInv  OBVIOUS
<1>1. /\ offerPool = Offer /\ Offer \subseteq Source
      /\ \A s \in Source : stage[s] = "none"
      /\ \A t \in Tracker : evts[t] = <<>> /\ wsEvent[t] = "none"
      /\ "none" \notin Remote
  BY SourceAssumption DEF Init, OffersMade, Source
<1>. QED BY <1>1 DEF OfferInv

THEOREM Offers == Spec => [](TypeInv /\ OfferInv)
<1>1. TypeInv /\ OfferInv /\ [Next]_vars => OfferInv'  BY OfferStep
<1>. QED BY <1>1, TypeCorrect, InitOffers, PTL DEF Spec

\* An offer makes at most one peer, whichever trackers deliver answers to it,
\* however full the channels: no step takes a peer task back.
THEOREM OffersAreUsedOnce == Spec => OfferUsedOnce
<1>1. TypeInv /\ OfferInv /\ [Next]_vars
        => [\A s \in Source : stage'[s] # stage[s] => Order[stage'[s]] > Order[stage[s]]]_vars
  BY OfferStep DEF Forward
<1>. QED BY <1>1, Offers, PTL DEF Spec, OfferUsedOnce

(***************************************************************************)
(* Commands.                                                               *)
(***************************************************************************)

\* A command other than `stopped` and Shutdown, or one of these in its turn.
LEMMA EnqueueOrder ==
  ASSUME TypeInv, CmdInv, NEW t \in Tracker, NEW c \in Cmd, Enqueue(t, c),
         \A u \in Tracker : tracker[u] \in {"closing", "ended"} =>
           tracker'[u] \in {tracker[u], "ended"},
         c = "stopped" => tracker[t] = "stopping" /\ tracker'[t] = "closing",
         c = "shutdown" => tracker'[t] = "ended"
  PROVE  CmdInv'
<1> DEFINE n == Len(cmds[t]) + 1
<1>1. /\ cmds \in [Tracker -> Seq(Cmd)] /\ cmds[t] \in Seq(Cmd)
      /\ cmds' = [cmds EXCEPT ![t] = Append(cmds[t], c)]
  BY DEF TypeInv, TypeOK, Enqueue
<1>2. /\ \A u \in Tracker : u # t => cmds'[u] = cmds[u]
      /\ DOMAIN cmds'[t] = 1..n /\ cmds'[t][n] = c /\ n \in Nat
      /\ \A i \in 1..n : i # n => i \in DOMAIN cmds[t] /\ i < n /\ cmds'[t][i] = cmds[t][i]
  BY <1>1
<1>. HIDE DEF n
<1>3. ASSUME NEW u \in Tracker, NEW i \in DOMAIN cmds'[u]
      PROVE  /\ cmds'[u][i] = "stopped" => tracker'[u] \in {"closing", "ended"}
             /\ cmds'[u][i] = "shutdown" => tracker'[u] = "ended"
  <2>1. CASE u = t /\ i = n  BY <2>1, <1>2
  <2>2. CASE ~(u = t /\ i = n)
    <3>1. i \in DOMAIN cmds[u] /\ cmds'[u][i] = cmds[u][i]  BY <2>2, <1>2
    <3>. QED BY <3>1 DEF CmdInv
  <2>. QED BY <2>1, <2>2
<1>4. ASSUME NEW u \in Tracker, NEW i \in DOMAIN cmds'[u], NEW j \in DOMAIN cmds'[u],
             i < j, cmds'[u][i] = "shutdown"
      PROVE  cmds'[u][j] # "stopped"
  <2>1. i # n \/ u # t  BY <1>2, <1>4
  <2>2. i \in DOMAIN cmds[u] /\ cmds[u][i] = "shutdown"  BY <2>1, <1>2, <1>4
  <2>3. tracker[u] = "ended"  BY <2>2 DEF CmdInv
  <2>4. CASE u = t /\ j = n  BY <2>3, <2>4, <1>2
  <2>5. CASE ~(u = t /\ j = n)
    <3>1. j \in DOMAIN cmds[u] /\ cmds'[u][j] = cmds[u][j]  BY <2>5, <1>2
    <3>. QED BY <2>2, <3>1, <1>4 DEF CmdInv
  <2>. QED BY <2>4, <2>5
<1>. QED BY <1>3, <1>4 DEF CmdInv

\* Taking a command.
LEMMA TakeOrder ==
  ASSUME TypeInv, CmdInv, NEW t \in Tracker, WsCommand(t)
  PROVE  CmdInv'
<1>1. /\ cmds \in [Tracker -> Seq(Cmd)] /\ cmds[t] \in Seq(Cmd) /\ cmds[t] # <<>>
      /\ cmds' = [cmds EXCEPT ![t] = Tail(cmds[t])] /\ tracker' = tracker
  BY DEF TypeInv, TypeOK, WsCommand
<1>2. /\ \A u \in Tracker : u # t => cmds'[u] = cmds[u]
      /\ \A i \in DOMAIN cmds'[t] :
           i \in Nat /\ i + 1 \in DOMAIN cmds[t] /\ cmds'[t][i] = cmds[t][i + 1]
  BY <1>1
<1>3. \A i \in DOMAIN cmds'[t], j \in DOMAIN cmds'[t] : i < j => i + 1 < j + 1
  BY <1>2
<1>4. ASSUME NEW u \in Tracker
      PROVE  /\ \A i \in DOMAIN cmds'[u] :
                  /\ cmds'[u][i] = "stopped" => tracker[u] \in {"closing", "ended"}
                  /\ cmds'[u][i] = "shutdown" => tracker[u] = "ended"
             /\ \A i, j \in DOMAIN cmds'[u] :
                  i < j /\ cmds'[u][i] = "shutdown" => cmds'[u][j] # "stopped"
  <2>1. CASE u = t  BY <2>1, <1>2, <1>3 DEF CmdInv
  <2>2. CASE u # t  BY <2>2, <1>2 DEF CmdInv
  <2>. QED BY <2>1, <2>2
<1>. QED BY <1>1, <1>4 DEF CmdInv

LEMMA SameOrder ==
  ASSUME CmdInv, cmds' = cmds,
         \A u \in Tracker : tracker[u] \in {"closing", "ended"} =>
           tracker'[u] \in {tracker[u], "ended"}
  PROVE  CmdInv'
BY DEF CmdInv

LEMMA CmdStep == TypeInv /\ CmdInv /\ [Next]_vars => CmdInv'
<1>. SUFFICES ASSUME TypeInv, CmdInv, [Next]_vars PROVE CmdInv'
  OBVIOUS
<1>1. tracker \in [Tracker -> TrackerState]  BY DEF TypeInv, TypeOK
<1>2. CASE FetchStep \/ Drop
  <2>1. tracker' = tracker /\ cmds' = cmds
    BY <1>2 DEF FetchStep, ReceiveMetadata, Exhaust, TimeOut, Return, Decide, Drop
  <2>. QED BY <2>1, SameOrder
<1>3. ASSUME NEW t \in Tracker, TrackerStep(t) \/ Connect(t) \/ NotConnected(t) PROVE CmdInv'
  <2>1. ASSUME NEW from, NEW to, Become(t, from, to),
               cmds' = cmds, from \notin {"closing", "ended"} \/ to = "ended"
        PROVE  CmdInv'
    BY <2>1, <1>1, SameOrder DEF Become
  <2>2. CASE CancelConnect(t) \/ NotConnected(t)
    BY <2>1, <2>2 DEF CancelConnect, NotConnected
  <2>3. CASE AnnounceStarted(t)
    <3>1. CASE Enqueue(t, "started") /\ Become(t, "starting", "serving")
      BY <3>1, <1>1, EnqueueOrder DEF Become, Cmd
    <3>2. CASE Become(t, "starting", "ended") /\ UNCHANGED cmds
      BY <3>2, <2>1
    <3>. QED BY <2>3, <3>1, <3>2 DEF AnnounceStarted
  <2>4. CASE ServeCancel(t) \/ ServeNone(t) \/ Connect(t)
    BY <2>1, <2>4 DEF ServeCancel, ServeNone, Connect
  <2>5. CASE AnnounceStopped(t)
    <3>1. CASE Enqueue(t, "stopped") /\ Become(t, "stopping", "closing")
      BY <3>1, <1>1, EnqueueOrder DEF Become, Cmd
    <3>2. CASE Become(t, "stopping", "closing") /\ UNCHANGED cmds
      BY <3>2, <2>1
    <3>. QED BY <2>5, <3>1, <3>2 DEF AnnounceStopped
  <2>6. CASE Shutdown(t)
    <3>1. CASE Enqueue(t, "shutdown") /\ Become(t, "closing", "ended")
      BY <3>1, <1>1, EnqueueOrder DEF Become, Cmd
    <3>2. CASE Become(t, "closing", "ended") /\ UNCHANGED cmds
      BY <3>2, <2>1
    <3>. QED BY <2>6, <3>1, <3>2 DEF Shutdown
  <2>7. CASE Drain(t) \/ TrackerAborted(t)
    BY <2>1, <2>7 DEF Drain, TrackerAborted
  <2>8. CASE ServeEvent(t)
    <3>1. /\ tracker[t] = "serving" /\ cmds' = cmds
          /\ tracker' = tracker \/ tracker' = [tracker EXCEPT ![t] = "draining"]
      BY <2>8, ServeEffect DEF TypeInv, Spawns
    <3>. QED BY <3>1, <1>1, SameOrder
  <2>. QED BY <1>3, <2>2, <2>3, <2>4, <2>5, <2>6, <2>7, <2>8 DEF TrackerStep
<1>4. ASSUME NEW t \in Tracker, WsStep(t) \/ \E e \in Event : WsReceive(t, e) PROVE CmdInv'
  <2>1. CASE WsCommand(t)  BY <2>1, TakeOrder
  <2>2. CASE ~WsCommand(t)
    <3>1. cmds' = cmds /\ tracker' = tracker
      BY <1>4, <2>2 DEF WsStep, WsDropped, WsDeliver, WsReceive
    <3>. QED BY <3>1, SameOrder
  <2>. QED BY <2>1, <2>2
<1>5. ASSUME NEW s \in Source, AnyPeerStep(s) PROVE CmdInv'
  <2>1. PeerEffect(s) /\ via[s] \in Tracker /\ tracker' = tracker
    BY <1>5, PeerStepEffect DEF TypeInv, PeerEffect, Owned, Alive
  <2>2. CASE cmds' = cmds  BY <2>1, <2>2, SameOrder
  <2>3. CASE Enqueue(via[s], "answer")
    BY <2>1, <2>3, EnqueueOrder DEF Cmd
  <2>. QED BY <2>1, <2>2, <2>3 DEF PeerEffect
<1>6. CASE UNCHANGED vars
  BY <1>6, SameOrder DEF vars
<1>. QED BY <1>2, <1>3, <1>4, <1>5, <1>6, StepCases

THEOREM Commands == Spec => [](TypeInv /\ CmdInv)
<1>1. TypeInv /\ CmdInv /\ [Next]_vars => CmdInv'  BY CmdStep
<1>2. Init => CmdInv  BY DEF Init, CmdInv
<1>. QED BY <1>1, <1>2, TypeCorrect, PTL DEF Spec

\* A client leaves of its own accord with `stopped` still in its channel only
\* because the tracker said something when nobody listened any more.
LEMMA LeavesWithReason ==
  ASSUME TypeInv, CmdInv, Next, NEW t \in Tracker, StoppedQueued(t), ws'[t] = "ended"
  PROVE  SaidTooLate(t)
<1>1. /\ ws[t] = "open" /\ ws \in [Tracker -> WsState]
      /\ cmds[t] \in Seq(Cmd) /\ \E i \in DOMAIN cmds[t] : cmds[t][i] = "stopped"
  BY DEF StoppedQueued, TypeInv, TypeOK
<1>2. CASE FetchStep \/ Drop
  <2>1. ws' = ws
    BY <1>2 DEF FetchStep, ReceiveMetadata, Exhaust, TimeOut, Return, Decide, Drop, wsVars
  <2>. QED BY <1>1, <2>1
<1>3. ASSUME NEW u \in Tracker, TrackerStep(u) \/ Connect(u) \/ NotConnected(u) PROVE FALSE
  <2>1. ws' = ws \/ ws' = [ws EXCEPT ![u] = "open"]
    BY <1>3
    DEF TrackerStep, CancelConnect, NotConnected, AnnounceStarted, ServeCancel, ServeEvent,
        ServeNone, AnnounceStopped, Shutdown, Drain, TrackerAborted, Connect, wsVars
  <2>. QED BY <1>1, <2>1
<1>4. ASSUME NEW u \in Tracker, WsStep(u) \/ \E e \in Event : WsReceive(u, e)
      PROVE  SaidTooLate(t)
  <2>1. CASE WsCommand(u)
    <3>1. \/ ws' = ws \/ ws' = [ws EXCEPT ![u] = "lost"]
          \/ ws' = [ws EXCEPT ![u] = "ended"] /\ Head(cmds[u]) = "shutdown" /\ cmds[u] # <<>>
      BY <2>1 DEF WsCommand, LeaveWs
    <3>2. u = t /\ cmds[t][1] = "shutdown" /\ 1 \in DOMAIN cmds[t]
      <4>1. u = t /\ Head(cmds[t]) = "shutdown" /\ cmds[t] # <<>>  BY <3>1, <1>1
      <4>. QED BY <4>1, <1>1
    <3>3. PICK i \in DOMAIN cmds[t] : cmds[t][i] = "stopped"  BY <1>1
    <3>4. i = 1 \/ 1 < i  BY <1>1, <3>3
    <3>5. ~(1 < i)  BY <3>2, <3>3 DEF CmdInv
    <3>. QED BY <3>2, <3>3, <3>4, <3>5
  <2>2. CASE WsDropped(u)
    BY <2>2, <1>1 DEF WsDropped, LeaveWs
  <2>3. CASE WsDeliver(u)
    BY <2>3, <1>1 DEF WsDeliver, LeaveWs, SaidTooLate
  <2>4. CASE \E e \in Event : WsReceive(u, e)
    BY <2>4, <1>1 DEF WsReceive
  <2>. QED BY <1>4, <2>1, <2>2, <2>3, <2>4 DEF WsStep
<1>5. ASSUME NEW s \in Source, AnyPeerStep(s) PROVE FALSE
  <2>1. ws' = ws  BY <1>5, PeerStepEffect DEF TypeInv, PeerEffect
  <2>. QED BY <1>1, <2>1
<1>. QED BY <1>2, <1>3, <1>4, <1>5, StepCases

\* The action property, for every capacity of the channels.
THEOREM StoppedIsLostOnlyLate == Spec => StoppedLostOnlyLate
<1>1. TypeInv /\ CmdInv /\ [Next]_vars
        => [\A t \in Tracker : StoppedQueued(t) /\ ws'[t] = "ended" => SaidTooLate(t)]_vars
  BY LeavesWithReason
<1>. QED BY <1>1, Commands, PTL DEF Spec, StoppedLostOnlyLate

=============================================================================
