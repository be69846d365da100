---------------------------- MODULE TorrentStore ----------------------------
(***************************************************************************)
(* TorrentStore (TorrentStore.swift): the main-actor view of the engine.   *)
(* It polls the engine off the main actor, publishes the newest result,    *)
(* posts completion notifications, pauses torrents that reached the seed   *)
(* ratio, and passes pause, resume and remove on to the engine.            *)
(*                                                                         *)
(* The engine is environment: what librqbit does to a torrent, as far as   *)
(* the snapshots of session.rs:433-461 show it.                            *)
(***************************************************************************)
EXTENDS Naturals, FiniteSets

CONSTANTS
  Id,         \* torrent ids of one launch (never reused, see AddTorrent)
  Slot,       \* refresh() calls that may be in flight at once
  Loop,       \* the slot of the poll loop
  Gone,       \* no torrent, or no list taken yet
  MaxUserOps  \* bound: pause, resume and remove requests of the user

ASSUME IdAssumption == IsFiniteSet(Id)
ASSUME SlotAssumption == Loop \in Slot
ASSUME BoundAssumption == MaxUserOps \in Nat

VARIABLES
  engine,         \* the engine's torrents
  unused,         \* ids the engine has not given to a torrent yet
  completions,    \* history: downloads the engine completed in this launch
  everFailed,     \* history: torrents that were in error in this launch
  version,        \* history: number of changes of the engine's list
  rows,           \* torrents: what the store shows
  refreshes,      \* per slot: nothing, or the refresh in flight
  latest,         \* the slot with generation == refreshGeneration
  removingIDs,
  notified,       \* notifiedFinishedIDs
  ratioPausedIDs,
  lastBadge,      \* the number on the dock icon, 0 for none
  sleepActivity,  \* idle sleep is prevented
  ops,            \* engine calls in flight
  refreshDue,     \* perform() calls past their action, before refresh()
  userOps,        \* requests of the user so far, for the bound
  shownVersion,   \* history: version of the list behind rows
  notices,        \* history: completion notifications per torrent
  ratioPauses,    \* history: automatic pauses per torrent
  pauseRefused,   \* history: ids whose automatic pause the engine refused
  removeRefused   \* history: ids whose removal the engine refused

engineVars == <<engine, unused, completions, everFailed, version>>
storeVars == <<rows, latest, removingIDs, notified, ratioPausedIDs, lastBadge,
               sleepActivity>>
history == <<shownVersion, notices, ratioPauses, pauseRefused, removeRefused>>
vars == <<engineVars, storeVars, refreshes, ops, refreshDue, userOps, history>>

State == {"initializing", "live", "paused", "error"}
Torrent == [state : State, complete : BOOLEAN, seeded : BOOLEAN]

\* `seeded` stands for uploaded / total >= seedRatioLimit.
Snapshot == [state : State, isFinished : BOOLEAN, seeded : BOOLEAN]

\* TorrentSnapshot: a torrent that is being checked, or has no data to look at
\* because of an error, reports unfinished.
Report(t) == [state |-> t.state,
              isFinished |-> t.complete /\ t.state \notin {"initializing", "error"},
              seeded |-> t.seeded]

List == [Id -> Snapshot \cup {Gone}]
Ids(list) == {i \in Id : list[i] # Gone}
EngineList == [i \in Id |-> IF engine[i] = Gone THEN Gone ELSE Report(engine[i])]

\* A refresh in flight: its list once taken, and the version of that list.
Refresh == [list : List \cup {Gone}, at : Nat]
Op == [id : Id, kind : {"pause", "resume"}, by : {"user", "ratio"}]
        \cup [id : Id, kind : {"remove", "removed"}, by : {"user"}]

TypeOK ==
  /\ engine \in [Id -> Torrent \cup {Gone}]
  /\ unused \subseteq Id /\ everFailed \subseteq Id
  /\ completions \in [Id -> Nat]
  /\ version \in Nat
  /\ rows \in List
  /\ refreshes \in [Slot -> Refresh \cup {Gone}]
  /\ latest \in Slot
  /\ removingIDs \subseteq Id /\ notified \subseteq Id /\ ratioPausedIDs \subseteq Id
  /\ lastBadge \in Nat /\ sleepActivity \in BOOLEAN
  /\ ops \subseteq Op
  /\ refreshDue \in Nat /\ userOps \in Nat
  /\ shownVersion \in Nat
  /\ notices \in [Id -> Nat] /\ ratioPauses \in [Id -> Nat]
  /\ pauseRefused \subseteq Id /\ removeRefused \subseteq Id

\* Torrents restored at launch are checked first, except paused ones.
Init ==
  /\ engine \in [Id -> [state : {"initializing", "paused"}, complete : BOOLEAN,
                        seeded : {FALSE}] \cup {Gone}]
  /\ unused = {i \in Id : engine[i] = Gone}
  /\ completions = [i \in Id |-> 0] /\ everFailed = {} /\ version = 0
  /\ rows = [i \in Id |-> Gone]
  /\ refreshes = [s \in Slot |-> Gone]
  /\ latest = Loop
  /\ removingIDs = {} /\ notified = {} /\ ratioPausedIDs = {}
  /\ lastBadge = 0 /\ sleepActivity = FALSE
  /\ ops = {} /\ refreshDue = 0 /\ userOps = 0
  /\ shownVersion = 0
  /\ notices = [i \in Id |-> 0] /\ ratioPauses = [i \in Id |-> 0]
  /\ pauseRefused = {} /\ removeRefused = {}

(***************************************************************************)
(* The engine on its own.                                                  *)
(***************************************************************************)

Become(i, t) ==
  /\ engine' = [engine EXCEPT ![i] = t]
  /\ version' = version + 1
  /\ UNCHANGED <<storeVars, refreshes, ops, refreshDue, userOps, history>>

\* An add (AddTorrent) gives the torrent an id of its own and checks its files.
Added(i) ==
  /\ i \in unused
  /\ unused' = unused \ {i}
  /\ Become(i, [state |-> "initializing", complete |-> FALSE, seeded |-> FALSE])
  /\ UNCHANGED <<completions, everFailed>>

\* The check may find that data is missing.
CheckDone(i) ==
  /\ engine[i] # Gone /\ engine[i].state = "initializing"
  /\ \E ok \in BOOLEAN :
       Become(i, [engine[i] EXCEPT !.state = "live", !.complete = @ /\ ok])
  /\ UNCHANGED <<unused, completions, everFailed>>

Complete(i) ==
  /\ engine[i] # Gone /\ engine[i].state = "live" /\ ~engine[i].complete
  /\ Become(i, [engine[i] EXCEPT !.complete = TRUE])
  /\ completions' = [completions EXCEPT ![i] = @ + 1]
  /\ UNCHANGED <<unused, everFailed>>

ReachRatio(i) ==
  /\ engine[i] # Gone /\ engine[i].state = "live" /\ engine[i].complete /\ ~engine[i].seeded
  /\ Become(i, [engine[i] EXCEPT !.seeded = TRUE])
  /\ UNCHANGED <<unused, completions, everFailed>>

Fail(i) ==
  /\ engine[i] # Gone /\ engine[i].state \in {"initializing", "live"}
  /\ Become(i, [engine[i] EXCEPT !.state = "error"])
  /\ everFailed' = everFailed \cup {i}
  /\ UNCHANGED <<unused, completions>>

EngineStep ==
  \E i \in Id : Added(i) \/ CheckDone(i) \/ Complete(i) \/ ReachRatio(i) \/ Fail(i)

(***************************************************************************)
(* refresh(): takes the list off the main actor; only the refresh that     *)
(* started last publishes it.                                              *)
(***************************************************************************)

\* From the poll loop, whose refreshes follow one another, or from perform().
RefreshStart(s) ==
  /\ refreshes[s] = Gone
  /\ IF s = Loop THEN UNCHANGED refreshDue
     ELSE refreshDue > 0 /\ refreshDue' = refreshDue - 1
  /\ refreshes' = [refreshes EXCEPT ![s] = [list |-> Gone, at |-> 0]]
  /\ latest' = s
  /\ UNCHANGED <<engineVars, rows, removingIDs, notified, ratioPausedIDs, lastBadge,
                 sleepActivity, ops, userOps, history>>

RefreshList(s) ==
  /\ refreshes[s] # Gone /\ refreshes[s].list = Gone
  /\ refreshes' = [refreshes EXCEPT ![s] = [list |-> EngineList, at |-> version]]
  /\ UNCHANGED <<engineVars, storeVars, ops, refreshDue, userOps, history>>

\* Mutant of MayPublish: whatever arrives is published.
MayPublishAlways(s) == TRUE

\* guard generation == refreshGeneration
MayPublish(s) == s = latest

\* Mutant of Shown: rows being removed come back with the next list.
ShownUnfiltered(list) == list

\* The list without the torrents being removed.
Shown(list) == [i \in Id |-> IF i \in removingIDs THEN Gone ELSE list[i]]
Finished(list) == {i \in Ids(list) : list[i].isFinished}

\* Mutants of JustCompleted: the end of a check counts as well; a torrent
\* paused since it completed does not.
JustCompletedOrChecked(list) ==
  {i \in Finished(list) \ notified : rows[i] # Gone /\ ~rows[i].isFinished}
JustCompletedLive(list) ==
  {i \in Finished(list) \ notified :
     /\ rows[i] # Gone /\ ~rows[i].isFinished /\ rows[i].state # "initializing"
     /\ list[i].state = "live"}

\* Finished torrents that the previous rows had still downloading.
JustCompleted(list) ==
  {i \in Finished(list) \ notified :
     rows[i] # Gone /\ ~rows[i].isFinished /\ rows[i].state # "initializing"}

Downloading(list) == {i \in Ids(list) : list[i].state = "live" /\ ~list[i].isFinished}

\* Mutants of OverRatio: forget who was paused before; only look at torrents
\* that have just completed.
OverRatioAgain(list) ==
  {i \in Ids(list) : list[i].isFinished /\ list[i].state = "live" /\ list[i].seeded}
OverRatioOfCompleted(list) ==
  {i \in Ids(list) \ (ratioPausedIDs \cup notified) :
     list[i].isFinished /\ list[i].state = "live" /\ list[i].seeded}

\* enforceSeedRatio() over the rows just published.
OverRatio(list) ==
  {i \in Ids(list) \ ratioPausedIDs :
     list[i].isFinished /\ list[i].state = "live" /\ list[i].seeded}

Bump(count, S) == [i \in Id |-> IF i \in S THEN count[i] + 1 ELSE count[i]]

\* postCompletionNotification
Notify(completed) == notices' = Bump(notices, completed)

\* updateDockBadge
ShowBadge(list) == lastBadge' = Cardinality(Downloading(list))

\* updateSleepPrevention, with the preference on
PreventSleep(list) == sleepActivity' = (Downloading(list) # {})

Publish(list) ==
  /\ Notify(JustCompleted(list))
  /\ notified' = notified \cup Finished(list)
  /\ rows' = Shown(list)
  /\ LET paused == OverRatio(rows')
     IN  /\ ratioPausedIDs' = ratioPausedIDs \cup paused
         /\ ratioPauses' = Bump(ratioPauses, paused)
         /\ ops' = ops \cup {[id |-> i, kind |-> "pause", by |-> "ratio"] : i \in paused}
  /\ ShowBadge(rows')
  /\ PreventSleep(rows')

RefreshApply(s) ==
  /\ refreshes[s] # Gone /\ refreshes[s].list # Gone
  /\ refreshes' = [refreshes EXCEPT ![s] = Gone]
  /\ IF MayPublish(s)
     THEN Publish(refreshes[s].list) /\ shownVersion' = refreshes[s].at
     ELSE UNCHANGED <<rows, notified, ratioPausedIDs, lastBadge, sleepActivity, ops,
                      notices, ratioPauses, shownVersion>>
  /\ UNCHANGED <<engineVars, latest, removingIDs, refreshDue, userOps, pauseRefused,
                 removeRefused>>

(***************************************************************************)
(* The user's requests, on the main actor.                                 *)
(***************************************************************************)

Request(op) ==
  /\ userOps < MaxUserOps
  /\ userOps' = userOps + 1
  /\ op \notin ops
  /\ ops' = ops \cup {op}

\* pause(id:), resume(id:): perform() starts a Task for the engine call.
Perform(i, kind) ==
  /\ rows[i] # Gone
  /\ Request([id |-> i, kind |-> kind, by |-> "user"])
  /\ UNCHANGED <<engineVars, storeVars, refreshes, refreshDue, history>>

Remove(i) ==
  /\ rows[i] # Gone
  /\ Request([id |-> i, kind |-> "remove", by |-> "user"])
  /\ removingIDs' = removingIDs \cup {i}
  /\ rows' = [rows EXCEPT ![i] = Gone]
  /\ notified' = notified \ {i}
  /\ ratioPausedIDs' = ratioPausedIDs \ {i}
  /\ UNCHANGED <<engineVars, refreshes, latest, lastBadge, sleepActivity, refreshDue,
                 history>>

(***************************************************************************)
(* Their effect in the engine, in any order, and the return to the main    *)
(* actor.                                                                  *)
(***************************************************************************)

\* A user's pause or resume goes on to refresh(), failed or not; an automatic
\* pause does not.
OpEnds(op) ==
  /\ ops' = ops \ {op}
  /\ refreshDue' = IF op.by = "user" THEN refreshDue + 1 ELSE refreshDue
  /\ UNCHANGED <<storeVars, refreshes, userOps, shownVersion, notices, ratioPauses,
                 removeRefused>>

Pause(op) ==
  /\ op \in ops /\ op.kind = "pause"
  /\ OpEnds(op)
  /\ UNCHANGED <<unused, completions, everFailed, pauseRefused>>
  /\ IF engine[op.id] # Gone /\ engine[op.id].state # "paused"
     THEN /\ engine' = [engine EXCEPT ![op.id].state = "paused"]
          /\ version' = version + 1
     ELSE UNCHANGED <<engine, version>>

\* The data is checked again before the torrent goes live.
Resume(op) ==
  /\ op \in ops /\ op.kind = "resume"
  /\ OpEnds(op)
  /\ UNCHANGED <<unused, completions, everFailed, pauseRefused>>
  /\ IF engine[op.id] # Gone /\ engine[op.id].state \in {"paused", "error"}
     THEN /\ engine' = [engine EXCEPT ![op.id].state = "initializing"]
          /\ version' = version + 1
     ELSE UNCHANGED <<engine, version>>

\* The error is only shown: an automatic pause is not tried again.
OpFails(op) ==
  /\ op \in ops /\ op.kind \in {"pause", "resume"}
  /\ OpEnds(op)
  /\ pauseRefused' = IF op.by = "ratio" THEN pauseRefused \cup {op.id} ELSE pauseRefused
  /\ UNCHANGED engineVars

\* session.remove succeeds or throws; either way its Task clears removingIDs.
RemoveInEngine(op) ==
  /\ op \in ops /\ op.kind = "remove"
  /\ ops' = (ops \ {op}) \cup {[op EXCEPT !.kind = "removed"]}
  /\ \/ /\ engine' = [engine EXCEPT ![op.id] = Gone]
        /\ version' = version + 1
        /\ UNCHANGED removeRefused
     \/ /\ removeRefused' = removeRefused \cup {op.id}
        /\ UNCHANGED <<engine, version>>
  /\ UNCHANGED <<unused, completions, everFailed, storeVars, refreshes, refreshDue, userOps,
                 shownVersion, notices, ratioPauses, pauseRefused>>

\* Mutant of RemoveReturns: after a refusal the id stays in removingIDs.
RemoveReturnsIfRemoved(op) ==
  /\ op \in ops /\ op.kind = "removed"
  /\ ops' = ops \ {op}
  /\ removingIDs' = IF engine[op.id] = Gone THEN removingIDs \ {op.id} ELSE removingIDs
  /\ UNCHANGED <<engineVars, rows, latest, notified, ratioPausedIDs, lastBadge,
                 sleepActivity, refreshes, refreshDue, userOps, history>>

RemoveReturns(op) ==
  /\ op \in ops /\ op.kind = "removed"
  /\ ops' = ops \ {op}
  /\ removingIDs' = removingIDs \ {op.id}
  /\ UNCHANGED <<engineVars, rows, latest, notified, ratioPausedIDs, lastBadge,
                 sleepActivity, refreshes, refreshDue, userOps, history>>

-----------------------------------------------------------------------------

OpStep == \E op \in ops :
  Pause(op) \/ Resume(op) \/ OpFails(op) \/ RemoveInEngine(op) \/ RemoveReturns(op)

RefreshStep(s) == RefreshStart(s) \/ RefreshList(s) \/ RefreshApply(s)

Next ==
  \/ EngineStep
  \/ \E s \in Slot : RefreshStep(s)
  \/ \E i \in Id : Perform(i, "pause") \/ Perform(i, "resume") \/ Remove(i)
  \/ OpStep

Spec == Init /\ [][Next]_vars

\* The poll loop, the tasks of perform() and remove(), and the engine calls
\* they await all come to an end; what the engine does by itself and what
\* the user asks is not fair.
Fairness == (\A s \in Slot : WF_vars(RefreshStep(s))) /\ WF_vars(OpStep)
FairSpec == Spec /\ Fairness

(***************************************************************************)
(* Properties.                                                             *)
(***************************************************************************)

\* A row never shows a torrent whose removal the user has asked for and that
\* has not come back (TorrentStore.swift:124, 158-159), even when a list
\* taken before the request is published after it.
RemovingIsHidden == \A i \in removingIDs : rows[i] = Gone

\* The types, and the rows: no removal under way is shown.
Inv == TypeOK /\ RemovingIsHidden

\* Each "Download complete" answers a download completed in this launch, one
\* for one: the end of a check, of restored torrents above all, announces
\* nothing, and neither do stale lists, refused removals and lost data
\* (TorrentStore.swift:114-122). Torrents that were in error are left out:
\* their check may begin and end between two polls.
NoticesMatchCompletions ==
  \A i \in Id \ everFailed : notices[i] <= completions[i]

\* "Each torrent is paused at most once per launch, so resuming it by hand
\* keeps it seeding." (TorrentStore.swift:272-274)
RatioPausedOnce == \A i \in Id : engine[i] # Gone => ratioPauses[i] <= 1

\* The same, except where the engine has refused a removal.
RatioPausedOnceUnlessRefused ==
  \A i \in Id : engine[i] # Gone /\ ratioPauses[i] > 1 => i \in removeRefused

\* What is published is never older than what is shown: lists taken by
\* overlapping refreshes do not overtake one another
\* (TorrentStore.swift:65-72).
NeverOlder == [][shownVersion' >= shownVersion]_vars

\* Once the engine and the user are quiet, the store shows what the engine
\* has, its badge counts what is downloading, and sleep is prevented exactly
\* while something is, although remove() refreshes none of them and lists may
\* be stale or dropped (TorrentStore.swift:72, 124, 153-171, 288-306).
Converges ==
  <>[](/\ rows = EngineList
       /\ lastBadge = Cardinality(Downloading(EngineList))
       /\ sleepActivity <=> Downloading(EngineList) # {})

\* A download that completes while its row says it is downloading is
\* announced, however polls, pauses and dropped refreshes fall, unless it is
\* removed, fails or is checked again first, or a list from before the end of
\* its last check still comes in (TorrentStore.swift:114-122).
CompletionNoticed ==
  \A i \in Id :
    ( /\ engine[i] # Gone /\ engine[i].state = "live" /\ engine[i].complete
      /\ rows[i] # Gone /\ rows[i].state = "live" /\ ~rows[i].isFinished
      /\ i \notin notified )
    ~> ( \/ notices[i] > 0
         \/ i \in removingIDs \/ engine[i] = Gone
         \/ engine[i].state \in {"initializing", "error"}
         \/ rows[i] # Gone /\ rows[i].state = "initializing" )

SeedsPastRatio(i) ==
  engine[i] # Gone /\ engine[i].state = "live" /\ engine[i].complete /\ engine[i].seeded

\* A torrent that seeds past the ratio, and has not been paused for it in this
\* launch, stops seeding ("Pauses a completed torrent once it has uploaded this
\* many times its size", SettingsView.swift:139), unless the engine refuses the
\* one pause it is asked for: the id stays in ratioPausedIDs and nothing tries
\* again (TorrentStore.swift:275-286).
RatioEnforced ==
  \A i \in Id :
    SeedsPastRatio(i) /\ i \notin ratioPausedIDs ~> ~SeedsPastRatio(i) \/ i \in pauseRefused

=============================================================================
