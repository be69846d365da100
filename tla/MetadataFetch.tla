--------------------------- MODULE MetadataFetch ---------------------------
(***************************************************************************)
(* fetch_metadata (engine.rs) over TrackerClient (tracker.rs): one tracker *)
(* task per URL, each with a WebSocket task of its own behind two bounded  *)
(* channels, and the peer tasks the tracker tasks spawn.  What a peer task *)
(* says to its peer is in MetadataExchange; here it delivers or gives up.  *)
(*                                                                         *)
(* A task runs from one await to the next in one step.  An abort is seen   *)
(* at the next await, so an aborted task may still take steps.             *)
(***************************************************************************)
EXTENDS Naturals, Sequences, FiniteSets

CONSTANTS
  Tracker,      \* tracker URLs
  Offer,        \* the offers we made (NUM_OFFERS)
  Remote,       \* offers of other peers, one peer each
  AnswerSlots,  \* MAX_ANSWERING_PEERS
  CmdCap,       \* capacity of a client's command channel (32)
  EvtCap,       \* capacity of a client's event channel (64)
  MaxMessages   \* bound: messages a tracker sends, Close not counted

ASSUME CapAssumption ==
  AnswerSlots \in Nat /\ CmdCap \in Nat \ {0} /\ EvtCap \in Nat \ {0} /\ MaxMessages \in Nat

\* Variants of TrackerEvent are not confused with each other, or with none.
ASSUME SourceAssumption ==
  Offer \cap Remote = {} /\ {"stats", "closed", "none"} \cap (Offer \cup Remote) = {}

VARIABLES
  fetch,      \* fetch_from: racing, in its shutdown grace, or over in some way
  result,     \* what it returns
  meta,       \* meta_tx/meta_rx hold an info dict
  cancel,     \* the watch channel says cancelled, or its sender is gone
  tracker,    \* where each run_tracker is
  offerPool,  \* our offers nobody has answered
  cmds,       \* command channel of each client
  evts,       \* event channel of each client
  ws,         \* each client's WebSocket task
  wsEvent,    \* the event it is about to put into the channel
  sent,       \* announces that went out on each connection
  budget,     \* messages each tracker may still send, for the bound
  stage,      \* peer tasks, by the offer they came from
  via,        \* the tracker task that owns a peer task
  unheard     \* history: answers and offers that came before the fetch was
              \* called off and that no run_tracker has looked at

fetchVars == <<fetch, result, cancel>>
wsVars == <<ws, wsEvent, sent, budget>>
peerVars == <<stage, via>>
vars == <<fetchVars, meta, tracker, offerPool, cmds, evts, wsVars, peerVars, unheard>>

Source == Offer \cup Remote

\* An answer is written as our offer it answers, an incoming offer as itself.
Event == Source \cup {"stats", "closed"}
Cmd == {"started", "stopped", "answer", "shutdown"}

\* "stopping": cancelled, `stopped` not in the command channel yet;
\* "closing": Shutdown not in it yet; "draining": the tracker went first.
TrackerState == {"connecting", "starting", "serving", "stopping", "closing", "draining", "ended"}

\* "lost": the connection failed or was closed; "ended": left by our side.
WsState == {"none", "open", "lost", "ended"}

\* A peer from a remote offer first makes an answer and sends it.
Stage == {"none", "answering", "replying", "connecting", "exchanging", "done"}

TypeOK ==
  /\ fetch \in {"racing", "grace", "returned", "expired", "dropped"}
  /\ result \in {"none", "metadata", "exhausted", "timeout"}
  /\ meta \in BOOLEAN /\ cancel \in BOOLEAN
  /\ tracker \in [Tracker -> TrackerState]
  /\ offerPool \subseteq Offer
  /\ cmds \in [Tracker -> Seq(Cmd)] /\ \A t \in Tracker : Len(cmds[t]) <= CmdCap
  /\ evts \in [Tracker -> Seq(Event)] /\ \A t \in Tracker : Len(evts[t]) <= EvtCap
  /\ ws \in [Tracker -> WsState]
  /\ wsEvent \in [Tracker -> Event \cup {"none"}]
  /\ sent \in [Tracker -> SUBSET {"started", "stopped"}]
  /\ budget \in [Tracker -> 0..MaxMessages]
  /\ stage \in [Source -> Stage]
  /\ via \in [Source -> Tracker \cup {"none"}]
  /\ unheard \subseteq Source

\* create_offer, NUM_OFFERS times: one that fails ends the fetch before it has
\* any task.
OffersMade == Offer

Init ==
  /\ fetch = "racing" /\ result = "none" /\ cancel = FALSE /\ meta = FALSE
  /\ tracker = [t \in Tracker |-> "connecting"]
  /\ offerPool = OffersMade
  /\ cmds = [t \in Tracker |-> <<>>] /\ evts = [t \in Tracker |-> <<>>]
  /\ ws = [t \in Tracker |-> "none"] /\ wsEvent = [t \in Tracker |-> "none"]
  /\ sent = [t \in Tracker |-> {}] /\ budget = [t \in Tracker |-> MaxMessages]
  /\ stage = [s \in Source |-> "none"] /\ via = [s \in Source |-> "none"]
  /\ unheard = {}

Alive == {s \in Source : stage[s] \notin {"none", "done"}}
PeersOf(t) == {s \in Alive : via[s] = t}
Ended == {t \in Tracker : tracker[t] = "ended"}

\* The peer tasks that hold a permit of answer_slots, until they end.
Answering == {s \in Alive : s \in Remote}

FetchOver == fetch \in {"returned", "expired", "dropped"}

\* Receivers live in the task at the other end.
ClientGone(t) == ws[t] \in {"lost", "ended"}
ListenerGone(t) == tracker[t] = "ended"

(***************************************************************************)
(* fetch_from.                                                             *)
(***************************************************************************)

\* meta_rx.recv() has nothing more to wait for.
SendersDropped == Ended = Tracker /\ Alive = {}

Decide(r) ==
  /\ fetch = "racing"
  /\ fetch' = "grace"
  /\ result' = r
  /\ cancel' = TRUE
  /\ UNCHANGED <<tracker, offerPool, cmds, evts, wsVars, peerVars, unheard>>

ReceiveMetadata == meta /\ meta' = FALSE /\ Decide("metadata")

Exhaust == ~meta /\ SendersDropped /\ UNCHANGED meta /\ Decide("exhausted")

\* tokio's timeout looks at the receiver before it looks at the timer.
TimeOut == ~meta /\ UNCHANGED meta /\ Decide("timeout")

\* All tracker tasks are joined, or SHUTDOWN_GRACE is over and the rest is
\* aborted.
Return ==
  /\ fetch = "grace"
  /\ fetch' \in {"expired"} \cup (IF Ended = Tracker THEN {"returned"} ELSE {})
  /\ UNCHANGED <<result, cancel, meta, tracker, offerPool, cmds, evts, wsVars, peerVars,
                 unheard>>

\* The caller drops the future; the watch sender goes with it.
Drop ==
  /\ fetch \in {"racing", "grace"}
  /\ fetch' = "dropped"
  /\ cancel' = TRUE
  /\ UNCHANGED <<result, meta, tracker, offerPool, cmds, evts, wsVars, peerVars, unheard>>

(***************************************************************************)
(* run_tracker.                                                            *)
(***************************************************************************)

\* The task of t goes from one state to another.
Become(t, from, to) ==
  /\ tracker[t] = from
  /\ tracker' = [tracker EXCEPT ![t] = to]
  /\ UNCHANGED <<fetchVars, meta>>

\* Events that nobody will look at.
Unheard(S) == unheard' = IF cancel THEN unheard ELSE unheard \cup (S \cap Source)

\* What a finished task had not received is dropped with its receiver.
DropEvents(t) ==
  /\ evts' = [evts EXCEPT ![t] = <<>>]
  /\ Unheard({evts[t][i] : i \in DOMAIN evts[t]})

Connect(t) ==
  /\ Become(t, "connecting", "starting")
  /\ ws' = [ws EXCEPT ![t] = "open"]
  /\ UNCHANGED <<offerPool, cmds, evts, wsEvent, sent, budget, peerVars, unheard>>

NotConnected(t) ==
  /\ Become(t, "connecting", "ended")
  /\ UNCHANGED <<offerPool, cmds, evts, wsVars, peerVars, unheard>>

CancelConnect(t) == cancel /\ NotConnected(t)

\* cmd_tx.send: waits for room, fails once the client is gone.
Enqueue(t, cmd) ==
  /\ Len(cmds[t]) < CmdCap
  /\ ~ClientGone(t)
  /\ cmds' = [cmds EXCEPT ![t] = Append(@, cmd)]

AnnounceStarted(t) ==
  /\ \/ Enqueue(t, "started") /\ Become(t, "starting", "serving") /\ UNCHANGED <<evts, unheard>>
     \/ ClientGone(t) /\ Become(t, "starting", "ended") /\ DropEvents(t) /\ UNCHANGED cmds
  /\ UNCHANGED <<offerPool, wsVars, peerVars>>

ServeCancel(t) ==
  /\ cancel
  /\ Become(t, "serving", "stopping")
  /\ UNCHANGED <<offerPool, cmds, evts, wsVars, peerVars, unheard>>

SpawnPeer(t, s, first) ==
  /\ stage' = [stage EXCEPT ![s] = first]
  /\ via' = [via EXCEPT ![s] = t]

\* Mutant of TakeOffer: the offer is looked up, not removed.
TakeOfferKept(o) == o \in offerPool /\ UNCHANGED offerPool

TakeOffer(o) == o \in offerPool /\ offerPool' = offerPool \ {o}

\* Mutant of SlotRefused: wait for a slot instead of dropping the offer.
SlotRefusedNever == FALSE

SlotRefused == Cardinality(Answering) >= AnswerSlots

ServeEvent(t) ==
  /\ tracker[t] = "serving" /\ evts[t] # <<>>
  /\ evts' = [evts EXCEPT ![t] = Tail(@)]
  /\ LET e == Head(evts[t]) IN
     \/ e \in Offer /\ TakeOffer(e) /\ SpawnPeer(t, e, "connecting") /\ UNCHANGED tracker
     \/ e \in Offer \ offerPool /\ UNCHANGED <<tracker, offerPool, peerVars>>
     \/ /\ e \in Remote /\ Cardinality(Answering) < AnswerSlots
        /\ SpawnPeer(t, e, "answering") /\ UNCHANGED <<tracker, offerPool>>
     \/ e \in Remote /\ SlotRefused /\ UNCHANGED <<tracker, offerPool, peerVars>>
     \/ e = "stats" /\ UNCHANGED <<tracker, offerPool, peerVars>>
     \/ /\ e = "closed" /\ tracker' = [tracker EXCEPT ![t] = "draining"]
        /\ UNCHANGED <<offerPool, peerVars>>
  /\ UNCHANGED <<fetchVars, meta, cmds, wsVars, unheard>>

\* Mutant of ServeNone: the end of the connection is noticed before what came
\* over it.
ServeNoneUnread(t) ==
  /\ ClientGone(t)
  /\ Become(t, "serving", "draining")
  /\ UNCHANGED <<offerPool, cmds, evts, wsVars, peerVars, unheard>>

\* events.recv() == None
ServeNone(t) ==
  /\ evts[t] = <<>> /\ ClientGone(t)
  /\ Become(t, "serving", "draining")
  /\ UNCHANGED <<offerPool, cmds, evts, wsVars, peerVars, unheard>>

AnnounceStopped(t) ==
  /\ Become(t, "stopping", "closing")
  /\ Enqueue(t, "stopped") \/ (ClientGone(t) /\ UNCHANGED cmds)
  /\ UNCHANGED <<offerPool, evts, wsVars, peerVars, unheard>>

Shutdown(t) ==
  /\ Become(t, "closing", "ended")
  /\ Enqueue(t, "shutdown") \/ (ClientGone(t) /\ UNCHANGED cmds)
  /\ DropEvents(t)
  /\ UNCHANGED <<offerPool, wsVars, peerVars>>

\* Mutant of Drained: a tracker that is gone takes its peers along.
DrainedAtOnce(t) == TRUE

Drained(t) == cancel \/ PeersOf(t) = {}

Drain(t) ==
  /\ Drained(t)
  /\ Become(t, "draining", "ended")
  /\ DropEvents(t)
  /\ UNCHANGED <<offerPool, cmds, wsVars, peerVars>>

\* The JoinSet of fetch_from is dropped.
TrackerAborted(t) ==
  /\ FetchOver
  /\ tracker[t] # "ended"
  /\ Become(t, tracker[t], "ended")
  /\ DropEvents(t)
  /\ UNCHANGED <<offerPool, cmds, wsVars, peerVars>>

(***************************************************************************)
(* The task of TrackerClient::connect.                                     *)
(***************************************************************************)

LeaveWs(t, how) ==
  /\ ws' = [ws EXCEPT ![t] = how]
  /\ wsEvent' = [wsEvent EXCEPT ![t] = "none"]

\* It takes a command and writes it to the socket, which may fail.
WsCommand(t) ==
  /\ ws[t] = "open" /\ wsEvent[t] = "none" /\ cmds[t] # <<>>
  /\ cmds' = [cmds EXCEPT ![t] = Tail(@)]
  /\ LET c == Head(cmds[t]) IN
     \/ /\ c # "shutdown"
        /\ sent' = [sent EXCEPT ![t] = @ \cup ({c} \ {"answer"})]
        /\ UNCHANGED <<ws, wsEvent>>
     \/ c # "shutdown" /\ LeaveWs(t, "lost") /\ UNCHANGED sent
     \/ c = "shutdown" /\ LeaveWs(t, "ended") /\ UNCHANGED sent
  /\ UNCHANGED <<fetchVars, meta, tracker, offerPool, evts, budget, peerVars, unheard>>

\* Mutant of WsDropped: a closed command channel is not the end.
WsDroppedNever(t) == FALSE /\ UNCHANGED vars

\* Mutant of WsDropped: it leaves without looking into its channel.
WsDroppedAtOnce(t) ==
  /\ ws[t] = "open" /\ wsEvent[t] = "none"
  /\ tracker[t] = "ended" /\ PeersOf(t) \cap Remote = {}
  /\ LeaveWs(t, "ended")
  /\ UNCHANGED <<fetchVars, meta, tracker, offerPool, cmds, evts, sent, budget, peerVars,
                 unheard>>

\* cmd_rx.recv() == None: the tracker task and the peers that answer through
\* the client are gone.
WsDropped(t) ==
  /\ ws[t] = "open" /\ wsEvent[t] = "none" /\ cmds[t] = <<>>
  /\ tracker[t] = "ended" /\ PeersOf(t) \cap Remote = {}
  /\ LeaveWs(t, "ended")
  /\ UNCHANGED <<fetchVars, meta, tracker, offerPool, cmds, evts, sent, budget, peerVars,
                 unheard>>

InFlight(e) == \E t \in Tracker : wsEvent[t] = e \/ \E i \in DOMAIN evts[t] : evts[t][i] = e

\* A message of the tracker: answers and offers come after our announce, and
\* a remote offer makes one peer.
WsReceive(t, e) ==
  /\ ws[t] = "open" /\ wsEvent[t] = "none"
  /\ e \in Source => "started" \in sent[t]
  /\ e \in Remote => stage[e] = "none" /\ ~InFlight(e)
  /\ IF e = "closed" THEN UNCHANGED budget
     ELSE budget[t] > 0 /\ budget' = [budget EXCEPT ![t] = @ - 1]
  /\ wsEvent' = [wsEvent EXCEPT ![t] = e]
  /\ UNCHANGED <<fetchVars, meta, tracker, offerPool, cmds, evts, ws, sent, peerVars, unheard>>

\* evt_tx.send: waits for room; without a receiver the task ends.
WsDeliver(t) ==
  /\ ws[t] = "open" /\ wsEvent[t] # "none"
  /\ IF ListenerGone(t)
     THEN /\ LeaveWs(t, IF wsEvent[t] = "closed" THEN "lost" ELSE "ended")
          /\ Unheard({wsEvent[t]})
          /\ UNCHANGED evts
     ELSE /\ Len(evts[t]) < EvtCap
          /\ evts' = [evts EXCEPT ![t] = Append(@, wsEvent[t])]
          /\ wsEvent' = [wsEvent EXCEPT ![t] = "none"]
          /\ ws' = [ws EXCEPT ![t] = IF wsEvent[t] = "closed" THEN "lost" ELSE @]
          /\ UNCHANGED unheard
  /\ UNCHANGED <<fetchVars, meta, tracker, offerPool, cmds, sent, budget, peerVars>>

(***************************************************************************)
(* Peer tasks.                                                             *)
(***************************************************************************)

PeerBecomes(s, from, to) ==
  /\ stage[s] = from
  /\ stage' = [stage EXCEPT ![s] = to]
  /\ UNCHANGED <<fetchVars, tracker, offerPool, evts, wsVars, via, unheard>>

\* answer_offer
PeerAnswers(s) == PeerBecomes(s, "answering", "replying") /\ UNCHANGED <<meta, cmds>>

\* send_answer, or its failure
PeerReplies(s) ==
  /\ UNCHANGED meta
  /\ \/ /\ stage[s] = "replying" /\ Enqueue(via[s], "answer")
        /\ PeerBecomes(s, "replying", "connecting")
     \/ /\ stage[s] = "replying" /\ ClientGone(via[s])
        /\ PeerBecomes(s, "replying", "done") /\ UNCHANGED cmds

\* complete() and wait_open(): the data channel opens, or 20 s are over.
PeerConnects(s) == PeerBecomes(s, "connecting", "exchanging") /\ UNCHANGED <<meta, cmds>>
PeerTimesOut(s) == PeerBecomes(s, "connecting", "done") /\ UNCHANGED <<meta, cmds>>

\* Any other failure.
PeerFails(s) ==
  /\ stage[s] \in {"answering", "exchanging"}
  /\ PeerBecomes(s, stage[s], "done")
  /\ UNCHANGED <<meta, cmds>>

\* run_peer has the info dict: try_send into the channel of one.
PeerDelivers(s) ==
  /\ PeerBecomes(s, "exchanging", "done")
  /\ meta' = (meta \/ ~FetchOver)
  /\ UNCHANGED cmds

\* The JoinSet of its tracker task is dropped.
PeerAborted(s) ==
  /\ s \in Alive /\ tracker[via[s]] = "ended"
  /\ PeerBecomes(s, stage[s], "done")
  /\ UNCHANGED <<meta, cmds>>

-----------------------------------------------------------------------------

FetchStep == ReceiveMetadata \/ Exhaust \/ TimeOut \/ Return

TrackerStep(t) ==
  \/ CancelConnect(t) \/ AnnounceStarted(t)
  \/ ServeCancel(t) \/ ServeEvent(t) \/ ServeNone(t)
  \/ AnnounceStopped(t) \/ Shutdown(t) \/ Drain(t)
  \/ TrackerAborted(t)

WsStep(t) == WsCommand(t) \/ WsDropped(t) \/ WsDeliver(t)

PeerStep(s) == PeerReplies(s) \/ PeerTimesOut(s) \/ PeerAborted(s)

Network ==
  \/ \E t \in Tracker :
       Connect(t) \/ NotConnected(t) \/ \E e \in Event : WsReceive(t, e)
  \/ \E s \in Source : PeerAnswers(s) \/ PeerConnects(s) \/ PeerFails(s) \/ PeerDelivers(s)

Next ==
  \/ FetchStep \/ Drop
  \/ \E t \in Tracker : TrackerStep(t) \/ WsStep(t)
  \/ \E s \in Source : PeerStep(s)
  \/ Network

Spec == Init /\ [][Next]_vars

\* Tasks run, the 20 s of a connection and the shutdown grace pass, the socket
\* takes or refuses what is written.  What the network brings, and when, is
\* not fair; the overall timeout is not either, so that nothing is resolved
\* only by giving up.
Fairness ==
  /\ WF_vars(Return)
  /\ \A t \in Tracker : WF_vars(TrackerStep(t)) /\ WF_vars(WsStep(t))
  /\ \A s \in Source : WF_vars(PeerStep(s))
FairSpec == Spec /\ Fairness

(***************************************************************************)
(* Properties.                                                             *)
(***************************************************************************)

\* An offer makes at most one peer, whichever trackers deliver answers to it:
\* a peer task only ever goes forward (engine.rs:6-8, 212).
Order == [x \in Stage |->
  CASE x = "none" -> 0 [] x = "answering" -> 1 [] x = "replying" -> 2
    [] x = "connecting" -> 3 [] x = "exchanging" -> 4 [] x = "done" -> 5]
OfferUsedOnce ==
  [][\A s \in Source : stage'[s] # stage[s] => Order[stage'[s]] > Order[stage[s]]]_vars

\* "every tracker and peer gave up before metadata arrived" (engine.rs:68) is
\* only said when nothing could still have come of it: every connection is
\* over, and each answer and each offer that came was looked at, though the
\* tasks that end drop what is left in their channels (engine.rs:155, 249,
\* 266; tracker.rs:321-332).
ExhaustedIsTrue ==
  result = "exhausted" => unheard = {} /\ \A t \in Tracker : ws[t] # "open"

\* A tracker that goes away does not take its peers along: until the fetch is
\* over, peer tasks are not aborted (engine.rs:260).
PeersSurviveTracker == \A s \in Alive : ~cancel => tracker[via[s]] # "ended"

\* The types, with channels that never hold more than their capacity, and: no
\* peer goes with its tracker.
Inv == TypeOK /\ PeersSurviveTracker

\* Nothing outlives the fetch: "every tracker task (and through it, every
\* peer task) is owned by the fetch_metadata future, so they are all aborted
\* when it returns or is dropped" (engine.rs:17-18), and the WebSocket tasks,
\* which nobody owns, end with them, full channels or not.
NothingOutlivesFetch ==
  FetchOver
    ~> (Ended = Tracker /\ Alive = {} /\ \A t \in Tracker : ws[t] # "open")

\* A peer that has its answer gets it into the command channel: the tracker
\* task never stops taking events, so the WebSocket task never stops taking
\* commands (engine.rs:224-226 drops an offer instead of waiting).
AnswersGoOut == \A s \in Source : stage[s] = "replying" ~> stage[s] # "replying"

\* A `stopped` that the tracker task has handed to its client is written to
\* the socket before the client leaves of its own accord ("How long tracker
\* tasks get to send `stopped` before being aborted", engine.rs:47), however
\* full the channels and whoever is aborted; unless the tracker said something
\* when nobody listened any more, which makes the client leave at once
\* (tracker.rs:323).
StoppedQueued(t) == ws[t] = "open" /\ \E i \in DOMAIN cmds[t] : cmds[t][i] = "stopped"
SaidTooLate(t) == ListenerGone(t) /\ wsEvent[t] # "none"
StoppedLostOnlyLate ==
  [][\A t \in Tracker : StoppedQueued(t) /\ ws'[t] = "ended" => SaidTooLate(t)]_vars

\* The same, without the exception, and in the end.
StoppedIsSent ==
  \A t \in Tracker :
    StoppedQueued(t)
      ~> ("stopped" \in sent[t] \/ ws[t] = "lost" \/ fetch \in {"expired", "dropped"})

=============================================================================
