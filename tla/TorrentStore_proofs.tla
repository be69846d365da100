------------------------ MODULE TorrentStore_proofs ------------------------
(***************************************************************************)
(* TorrentStore for any number of torrents, of refreshes in flight and of  *)
(* requests.  Four arguments: a list that may be published is not older    *)
(* than what is shown; an id the engine has not used is nowhere; a torrent *)
(* that was paused for its ratio is remembered, or is being removed, until *)
(* the engine has forgotten it or refused to; and where a torrent is seen  *)
(* to download that a later list, or the engine, has complete, there was a *)
(* completion that nobody has announced.                                   *)
(***************************************************************************)
EXTENDS TorrentStore, FiniteSetTheorems, TLAPS

Taken(s) == refreshes[s] # Gone /\ refreshes[s].list # Gone

NotBehind ==
  /\ shownVersion <= version
  /\ \A s \in Slot : Taken(s) => refreshes[s].at <= version
  /\ Taken(latest) => shownVersion <= refreshes[latest].at

UnusedIsNowhere ==
  \A i \in unused :
    /\ engine[i] = Gone /\ rows[i] = Gone /\ ratioPauses[i] = 0
    /\ \A s \in Slot : Taken(s) => refreshes[s].list[i] = Gone
    /\ \A op \in ops : op.id # i

PausedIsRemembered ==
  \A i \in Id : engine[i] # Gone /\ i \notin removeRefused =>
    \/ ratioPauses[i] = 0
    \/ ratioPauses[i] = 1 /\ i \in ratioPausedIDs \cup removingIDs

RemovedIsGone ==
  \A op \in ops : op.kind = "removed" => engine[op.id] = Gone \/ op.id \in removeRefused

IInv ==
  /\ TypeOK /\ RemovingIsHidden
  /\ NotBehind /\ UnusedIsNowhere /\ PausedIsRemembered /\ RemovedIsGone

LEMMA InitIInv == Init => IInv
<1>. SUFFICES ASSUME Init PROVE IInv
  OBVIOUS
<1>1. TypeOK
  <2>1. engine \in [Id -> Torrent \cup {Gone}]
    BY DEF Init, Torrent, State
  <2>2. unused \subseteq Id
    BY DEF Init
  <2>. QED BY <2>1, <2>2, SlotAssumption DEF Init, TypeOK, List
<1>2. NotBehind /\ Taken(latest) = FALSE
  BY SlotAssumption DEF Init, NotBehind, Taken
<1>3. RemovingIsHidden /\ UnusedIsNowhere /\ PausedIsRemembered /\ RemovedIsGone
  BY DEF Init, RemovingIsHidden, UnusedIsNowhere, Taken, PausedIsRemembered, RemovedIsGone
<1>. QED BY <1>1, <1>2, <1>3 DEF IInv

\* Bump counts what it is given, once.
LEMMA BumpCounts ==
  ASSUME NEW count \in [Id -> Nat], NEW S
  PROVE  /\ Bump(count, S) \in [Id -> Nat]
         /\ \A i \in Id : Bump(count, S)[i] = IF i \in S THEN count[i] + 1 ELSE count[i]
BY DEF Bump

\* A change of one torrent the engine has.
LEMMA BecomeStep ==
  ASSUME IInv, NEW i \in Id, NEW t \in Torrent, Become(i, t),
         engine[i] # Gone, UNCHANGED unused,
         completions' \in [Id -> Nat], everFailed' \subseteq Id
  PROVE  IInv'
<1>1. /\ engine' \in [Id -> Torrent \cup {Gone}] /\ version' = version + 1
      /\ engine' = [engine EXCEPT ![i] = t]
      /\ UNCHANGED <<rows, latest, removingIDs, notified, ratioPausedIDs, lastBadge, sleepActivity,
                     refreshes, ops, refreshDue, userOps,
                     shownVersion, notices, ratioPauses, pauseRefused, removeRefused>>
  BY DEF Become, storeVars, history, IInv, TypeOK
<1>2. \A k \in Id : k # i => engine'[k] = engine[k]
  BY <1>1 DEF IInv, TypeOK
<1>3. TypeOK' /\ RemovingIsHidden'
  BY <1>1 DEF IInv, TypeOK, RemovingIsHidden
<1>4. NotBehind'
  <2>1. \A s \in Slot : Taken(s) => refreshes[s].at \in Nat
    BY DEF IInv, TypeOK, Taken, Refresh
  <2>2. version \in Nat /\ shownVersion \in Nat
    BY DEF IInv, TypeOK
  <2>. QED BY <1>1, <2>1, <2>2 DEF IInv, NotBehind, Taken
<1>5. UnusedIsNowhere'
  <2>1. i \notin unused /\ unused \subseteq Id
    BY DEF IInv, TypeOK, UnusedIsNowhere
  <2>. QED BY <1>1, <1>2, <2>1 DEF IInv, UnusedIsNowhere, Taken
<1>6. PausedIsRemembered'
  BY <1>1, <1>2 DEF IInv, PausedIsRemembered
<1>7. RemovedIsGone'
  <2>1. \A op \in ops : op.id \in Id
    BY DEF IInv, TypeOK, Op
  <2>. QED BY <1>1, <1>2, <2>1 DEF IInv, RemovedIsGone
<1>. QED BY <1>3, <1>4, <1>5, <1>6, <1>7 DEF IInv

\* A torrent is given an id that is nowhere yet.
LEMMA AddedStep == ASSUME IInv, NEW i \in Id, Added(i) PROVE IInv'
<1>. DEFINE t == [state |-> "initializing", complete |-> FALSE, seeded |-> FALSE]
<1>1. /\ i \in unused /\ unused' = unused \ {i} /\ engine[i] = Gone /\ ratioPauses[i] = 0
      /\ \A op \in ops : op.id # i
      /\ t \in Torrent
  BY DEF Added, IInv, UnusedIsNowhere, Torrent, State
<1>2. /\ engine' \in [Id -> Torrent \cup {Gone}] /\ version' = version + 1
      /\ engine' = [engine EXCEPT ![i] = t]
      /\ UNCHANGED <<rows, latest, removingIDs, notified, ratioPausedIDs, lastBadge, sleepActivity,
                     refreshes, ops, refreshDue, userOps, completions, everFailed,
                     shownVersion, notices, ratioPauses, pauseRefused, removeRefused>>
  BY <1>1 DEF Added, Become, storeVars, history, IInv, TypeOK
<1>3. \A k \in Id : k # i => engine'[k] = engine[k]
  BY <1>2 DEF IInv, TypeOK
<1>4. TypeOK' /\ RemovingIsHidden'
  BY <1>1, <1>2 DEF IInv, TypeOK, RemovingIsHidden
<1>5. NotBehind'
  <2>1. \A s \in Slot : Taken(s) => refreshes[s].at \in Nat
    BY DEF IInv, TypeOK, Taken, Refresh
  <2>2. version \in Nat /\ shownVersion \in Nat
    BY DEF IInv, TypeOK
  <2>. QED BY <1>2, <2>1, <2>2 DEF IInv, NotBehind, Taken
<1>6. UnusedIsNowhere'
  BY <1>1, <1>2, <1>3 DEF IInv, TypeOK, UnusedIsNowhere, Taken
<1>7. PausedIsRemembered'
  BY <1>1, <1>2, <1>3 DEF IInv, PausedIsRemembered
<1>8. RemovedIsGone'
  <2>1. \A op \in ops : op.id \in Id
    BY DEF IInv, TypeOK, Op
  <2>. QED BY <1>1, <1>2, <1>3, <2>1 DEF IInv, RemovedIsGone
<1>. QED BY <1>4, <1>5, <1>6, <1>7, <1>8 DEF IInv

LEMMA EngineStepIInv == IInv /\ EngineStep => IInv'
<1>. SUFFICES ASSUME IInv, NEW i \in Id,
                     Added(i) \/ CheckDone(i) \/ Complete(i) \/ ReachRatio(i) \/ Fail(i)
              PROVE  IInv'
  BY DEF EngineStep
<1>1. CASE Added(i)
  BY <1>1, AddedStep
<1>. SUFFICES ASSUME CheckDone(i) \/ Complete(i) \/ ReachRatio(i) \/ Fail(i) PROVE IInv'
  BY <1>1
<1>2. engine[i] # Gone /\ engine[i] \in Torrent
  BY DEF CheckDone, Complete, ReachRatio, Fail, IInv, TypeOK
<1>3. UNCHANGED unused /\ completions' \in [Id -> Nat] /\ everFailed' \subseteq Id
  <2>1. /\ UNCHANGED unused
        /\ completions' = completions \/ completions' = [completions EXCEPT ![i] = @ + 1]
        /\ everFailed' = everFailed \/ everFailed' = everFailed \cup {i}
    BY DEF CheckDone, Complete, ReachRatio, Fail
  <2>2. completions \in [Id -> Nat] /\ everFailed \subseteq Id
    BY DEF IInv, TypeOK
  <2>. QED BY <2>1, <2>2
<1>4. \E t \in Torrent : Become(i, t)
  <2>1. CASE CheckDone(i)
    <3>1. PICK ok \in BOOLEAN :
            Become(i, [engine[i] EXCEPT !.state = "live", !.complete = @ /\ ok])
      BY <2>1 DEF CheckDone
    <3>2. (engine[i].complete /\ ok) \in BOOLEAN
      BY Zenon
    <3>3. [engine[i] EXCEPT !.state = "live", !.complete = @ /\ ok] \in Torrent
      BY <1>2, <3>2 DEF Torrent, State
    <3>. QED BY <3>1, <3>3
  <2>2. CASE Complete(i)
    BY <1>2, <2>2 DEF Complete, Torrent
  <2>3. CASE ReachRatio(i)
    BY <1>2, <2>3 DEF ReachRatio, Torrent
  <2>4. CASE Fail(i)
    BY <1>2, <2>4 DEF Fail, Torrent, State
  <2>. QED BY <2>1, <2>2, <2>3, <2>4
<1>. QED BY <1>2, <1>3, <1>4, BecomeStep

(***************************************************************************)
(* refresh().                                                              *)
(***************************************************************************)

LEMMA RefreshStartStep == ASSUME IInv, NEW s \in Slot, RefreshStart(s) PROVE IInv'
<1>1. /\ latest' = s /\ refreshDue' \in Nat
      /\ refreshes' = [refreshes EXCEPT ![s] = [list |-> Gone, at |-> 0]]
      /\ UNCHANGED <<engine, unused, completions, everFailed, version, rows, removingIDs,
                     notified, ratioPausedIDs, lastBadge, sleepActivity, ops, userOps,
                     shownVersion, notices, ratioPauses, pauseRefused, removeRefused>>
  BY DEF RefreshStart, IInv, TypeOK, engineVars, history
<1>2. refreshes' \in [Slot -> Refresh \cup {Gone}]
  BY <1>1 DEF IInv, TypeOK, Refresh
<1>3. ~Taken(s)' /\ \A r \in Slot : r # s => refreshes'[r] = refreshes[r]
  BY <1>1 DEF IInv, TypeOK, Taken
<1>4. TypeOK' /\ RemovingIsHidden' /\ PausedIsRemembered' /\ RemovedIsGone'
  BY <1>1, <1>2 DEF IInv, TypeOK, RemovingIsHidden, PausedIsRemembered, RemovedIsGone
<1>5. NotBehind'
  BY <1>1, <1>3 DEF IInv, NotBehind, Taken
<1>6. UnusedIsNowhere'
  BY <1>1, <1>3 DEF IInv, UnusedIsNowhere, Taken
<1>. QED BY <1>4, <1>5, <1>6 DEF IInv

LEMMA RefreshListStep == ASSUME IInv, NEW s \in Slot, RefreshList(s) PROVE IInv'
<1>1. /\ refreshes' = [refreshes EXCEPT ![s] = [list |-> EngineList, at |-> version]]
      /\ UNCHANGED <<engine, unused, completions, everFailed, version, rows, latest, removingIDs,
                     notified, ratioPausedIDs, lastBadge, sleepActivity, ops, refreshDue, userOps,
                     shownVersion, notices, ratioPauses, pauseRefused, removeRefused>>
  BY DEF RefreshList, engineVars, storeVars, history
<1>2. EngineList \in List
  <2>1. ASSUME NEW i \in Id, engine[i] # Gone PROVE Report(engine[i]) \in Snapshot
    <3>1. engine[i] \in Torrent
      BY <2>1 DEF IInv, TypeOK
    <3>2. engine[i].state \in State /\ engine[i].seeded \in BOOLEAN
      BY <3>1 DEF Torrent
    <3>3. (engine[i].complete /\ engine[i].state \notin {"initializing", "error"}) \in BOOLEAN
      BY Zenon
    <3>. QED BY <3>2, <3>3 DEF Report, Snapshot
  <2>. QED BY <2>1 DEF EngineList, List
<1>3. refreshes' \in [Slot -> Refresh \cup {Gone}]
  BY <1>1, <1>2 DEF IInv, TypeOK, Refresh
<1>4. /\ refreshes'[s] = [list |-> EngineList, at |-> version]
      /\ \A r \in Slot : r # s => refreshes'[r] = refreshes[r]
  BY <1>1 DEF IInv, TypeOK
<1>5. TypeOK' /\ RemovingIsHidden' /\ PausedIsRemembered' /\ RemovedIsGone'
  BY <1>1, <1>3 DEF IInv, TypeOK, RemovingIsHidden, PausedIsRemembered, RemovedIsGone
<1>6. NotBehind'
  BY <1>1, <1>4 DEF IInv, TypeOK, NotBehind, Taken
<1>7. \A i \in unused : EngineList[i] = Gone
  BY DEF EngineList, IInv, TypeOK, UnusedIsNowhere
<1>8. UnusedIsNowhere'
  BY <1>1, <1>4, <1>7 DEF IInv, UnusedIsNowhere, Taken
<1>. QED BY <1>5, <1>6, <1>8 DEF IInv

\* What is published shows no removal, and pauses whom it has not paused.
LEMMA PublishStep ==
  ASSUME IInv, NEW list \in List, Publish(list), UNCHANGED <<removingIDs, removeRefused, engine, unused>>,
         \A i \in unused : list[i] = Gone
  PROVE  /\ rows' \in List /\ lastBadge' \in Nat /\ sleepActivity' \in BOOLEAN /\ notices' \in [Id -> Nat]
         /\ ratioPauses' \in [Id -> Nat] /\ notified' \subseteq Id /\ ratioPausedIDs' \subseteq Id
         /\ ops' \subseteq Op
         /\ RemovingIsHidden' /\ PausedIsRemembered' /\ RemovedIsGone'
         /\ \A i \in unused : rows'[i] = Gone /\ ratioPauses'[i] = 0 /\ \A op \in ops' : op.id # i
<1>. DEFINE paused == OverRatio(rows')
<1>1. /\ rows' = Shown(list) /\ notices' = Bump(notices, JustCompleted(list))
      /\ notified' = notified \cup Finished(list)
      /\ ratioPausedIDs' = ratioPausedIDs \cup paused /\ ratioPauses' = Bump(ratioPauses, paused)
      /\ ops' = ops \cup {[id |-> i, kind |-> "pause", by |-> "ratio"] : i \in paused}
  BY DEF Publish, Notify
<1>2. rows' \in List /\ \A i \in Id : rows'[i] = IF i \in removingIDs THEN Gone ELSE list[i]
  BY <1>1 DEF Shown, List
<1>3. /\ paused \subseteq Id \ (ratioPausedIDs \cup removingIDs)
      /\ \A i \in unused : i \notin paused
  BY <1>2 DEF OverRatio, Ids, IInv, TypeOK
<1>. HIDE DEF paused
<1>4. lastBadge' \in Nat /\ sleepActivity' \in BOOLEAN
  <2>1. sleepActivity' \in BOOLEAN
    BY Zenon DEF Publish, PreventSleep
  <2>2. IsFiniteSet(Downloading(rows'))
    BY IdAssumption, FS_Subset DEF Downloading, Ids
  <2>. QED BY <2>1, <2>2, FS_CardinalityType DEF Publish, ShowBadge
<1>5. notices' \in [Id -> Nat] /\ notified' \subseteq Id
  BY <1>1, BumpCounts DEF IInv, TypeOK, Finished, Ids
<1>6. /\ ratioPauses' \in [Id -> Nat] /\ ratioPausedIDs' \subseteq Id
      /\ \A i \in Id : ratioPauses'[i] = IF i \in paused THEN ratioPauses[i] + 1 ELSE ratioPauses[i]
  BY <1>1, <1>3, BumpCounts DEF IInv, TypeOK
<1>7. ops' \subseteq Op
  BY <1>1, <1>3 DEF IInv, TypeOK, Op
<1>8. RemovingIsHidden'
  BY <1>2 DEF RemovingIsHidden, IInv, TypeOK
<1>9. PausedIsRemembered'
  BY <1>1, <1>3, <1>6 DEF IInv, TypeOK, PausedIsRemembered
<1>10. RemovedIsGone'
  BY <1>1 DEF IInv, RemovedIsGone
<1>11. \A i \in unused : rows'[i] = Gone /\ ratioPauses'[i] = 0 /\ \A op \in ops' : op.id # i
  BY <1>1, <1>2, <1>3, <1>6 DEF IInv, TypeOK, UnusedIsNowhere
<1>. QED BY <1>2, <1>4, <1>5, <1>6, <1>7, <1>8, <1>9, <1>10, <1>11

LEMMA RefreshApplyStep == ASSUME IInv, NEW s \in Slot, RefreshApply(s) PROVE IInv'
<1>1. /\ Taken(s) /\ refreshes' = [refreshes EXCEPT ![s] = Gone]
      /\ UNCHANGED <<engine, unused, completions, everFailed, version, latest, removingIDs,
                     refreshDue, userOps, pauseRefused, removeRefused>>
  BY DEF RefreshApply, engineVars, Taken
<1>2. /\ refreshes' \in [Slot -> Refresh \cup {Gone}] /\ ~Taken(s)'
      /\ \A r \in Slot : r # s => refreshes'[r] = refreshes[r]
  BY <1>1 DEF IInv, TypeOK, Taken
<1>3. /\ refreshes[s].list \in List /\ refreshes[s].at \in Nat
      /\ \A i \in unused : refreshes[s].list[i] = Gone
  BY <1>1 DEF IInv, TypeOK, Taken, Refresh, UnusedIsNowhere
<1>4. CASE s = latest /\ Publish(refreshes[s].list) /\ shownVersion' = refreshes[s].at
  <2>1. /\ rows' \in List /\ lastBadge' \in Nat /\ sleepActivity' \in BOOLEAN /\ notices' \in [Id -> Nat]
        /\ ratioPauses' \in [Id -> Nat] /\ notified' \subseteq Id /\ ratioPausedIDs' \subseteq Id
        /\ ops' \subseteq Op
        /\ RemovingIsHidden' /\ PausedIsRemembered' /\ RemovedIsGone'
        /\ \A i \in unused : rows'[i] = Gone /\ ratioPauses'[i] = 0 /\ \A op \in ops' : op.id # i
    BY <1>1, <1>3, <1>4, PublishStep
  <2>2. shownVersion' \in Nat /\ shownVersion' <= version
    BY <1>1, <1>3, <1>4 DEF IInv, NotBehind
  <2>3. TypeOK'
    BY <1>1, <1>2, <2>1, <2>2 DEF IInv, TypeOK
  <2>4. NotBehind'
    BY <1>1, <1>2, <1>4, <2>2 DEF IInv, NotBehind, Taken
  <2>5. UnusedIsNowhere'
    BY <1>1, <1>2, <2>1 DEF IInv, UnusedIsNowhere, Taken
  <2>. QED BY <2>1, <2>3, <2>4, <2>5 DEF IInv
<1>5. CASE UNCHANGED <<rows, notified, ratioPausedIDs, lastBadge, sleepActivity, ops,
                      notices, ratioPauses, shownVersion>>
  <2>1. TypeOK' /\ RemovingIsHidden' /\ PausedIsRemembered' /\ RemovedIsGone'
    BY <1>1, <1>2, <1>5 DEF IInv, TypeOK, RemovingIsHidden, PausedIsRemembered, RemovedIsGone
  <2>2. NotBehind' /\ UnusedIsNowhere'
    BY <1>1, <1>2, <1>5 DEF IInv, TypeOK, NotBehind, UnusedIsNowhere, Taken
  <2>. QED BY <2>1, <2>2 DEF IInv
<1>. QED BY <1>4, <1>5 DEF RefreshApply, MayPublish

(***************************************************************************)
(* The user's requests and what comes of them.                             *)
(***************************************************************************)

LEMMA RequestStep ==
  ASSUME IInv, NEW i \in Id, rows[i] # Gone,
         Perform(i, "pause") \/ Perform(i, "resume") \/ Remove(i)
  PROVE  IInv'
<1>1. i \notin unused
  BY DEF IInv, UnusedIsNowhere
<1>2. ASSUME NEW kind \in {"pause", "resume"}, Perform(i, kind) PROVE IInv'
  <2>1. /\ userOps' \in Nat /\ ops' = ops \cup {[id |-> i, kind |-> kind, by |-> "user"]}
        /\ UNCHANGED <<engine, unused, completions, everFailed, version, rows, latest, removingIDs,
                       notified, ratioPausedIDs, lastBadge, sleepActivity, refreshes, refreshDue,
                       shownVersion, notices, ratioPauses, pauseRefused, removeRefused>>
    BY <1>2 DEF Perform, Request, IInv, TypeOK, engineVars, storeVars, history
  <2>2. ops' \subseteq Op
    BY <2>1 DEF Op, IInv, TypeOK
  <2>3. TypeOK' /\ RemovingIsHidden' /\ PausedIsRemembered' /\ RemovedIsGone'
    BY <2>1, <2>2 DEF IInv, TypeOK, RemovingIsHidden, PausedIsRemembered, RemovedIsGone
  <2>4. NotBehind' /\ UnusedIsNowhere'
    BY <1>1, <2>1 DEF IInv, NotBehind, UnusedIsNowhere, Taken
  <2>. QED BY <2>3, <2>4 DEF IInv
<1>3. CASE Remove(i)
  <2>1. /\ userOps' \in Nat /\ ops' = ops \cup {[id |-> i, kind |-> "remove", by |-> "user"]}
        /\ removingIDs' = removingIDs \cup {i} /\ rows' = [rows EXCEPT ![i] = Gone]
        /\ notified' = notified \ {i} /\ ratioPausedIDs' = ratioPausedIDs \ {i}
        /\ UNCHANGED <<engine, unused, completions, everFailed, version, latest, lastBadge, sleepActivity,
                       refreshes, refreshDue, shownVersion, notices, ratioPauses, pauseRefused,
                       removeRefused>>
    BY <1>3 DEF Remove, Request, IInv, TypeOK, engineVars, history
  <2>2. ops' \subseteq Op /\ rows' \in List
    BY <2>1 DEF Op, List, IInv, TypeOK
  <2>3. TypeOK'
    BY <2>1, <2>2 DEF IInv, TypeOK
  <2>4. RemovingIsHidden'
    BY <2>1 DEF IInv, TypeOK, List, RemovingIsHidden
  <2>5. NotBehind' /\ UnusedIsNowhere'
    BY <1>1, <2>1 DEF IInv, TypeOK, List, NotBehind, UnusedIsNowhere, Taken
  <2>6. PausedIsRemembered' /\ RemovedIsGone'
    BY <2>1 DEF IInv, PausedIsRemembered, RemovedIsGone
  <2>. QED BY <2>3, <2>4, <2>5, <2>6 DEF IInv
<1>. QED BY <1>2, <1>3

\* Pause and resume, in the engine or refused: no torrent comes or goes.
LEMMA OpEndsStep ==
  ASSUME IInv, NEW op \in ops, op.kind \in {"pause", "resume"}, OpEnds(op),
         UNCHANGED <<unused, completions, everFailed>>, pauseRefused' \subseteq Id,
         \/ UNCHANGED <<engine, version>>
         \/ /\ engine[op.id] # Gone /\ version' = version + 1
            /\ \E state \in State : engine' = [engine EXCEPT ![op.id].state = state]
  PROVE  IInv'
<1>1. /\ ops' = ops \ {op} /\ refreshDue' \in Nat
      /\ UNCHANGED <<rows, latest, removingIDs, notified, ratioPausedIDs, lastBadge, sleepActivity,
                     refreshes, userOps, shownVersion, notices, ratioPauses, removeRefused>>
  BY DEF OpEnds, storeVars, IInv, TypeOK
<1>2. op.id \in Id /\ (\A o \in ops : o.id \in Id) /\ op.id \notin unused
  BY DEF IInv, TypeOK, Op, UnusedIsNowhere
<1>3. /\ engine' \in [Id -> Torrent \cup {Gone}] /\ version' \in Nat /\ version <= version'
      /\ \A i \in Id : i # op.id => engine'[i] = engine[i]
      /\ engine[op.id] # Gone \/ engine'[op.id] = Gone
  <2>1. CASE UNCHANGED <<engine, version>>
    BY <1>2, <2>1 DEF IInv, TypeOK
  <2>2. CASE /\ engine[op.id] # Gone /\ version' = version + 1
             /\ \E state \in State : engine' = [engine EXCEPT ![op.id].state = state]
    <3>1. engine[op.id] \in Torrent
      BY <1>2, <2>2 DEF IInv, TypeOK
    <3>2. \A state \in State : [engine[op.id] EXCEPT !.state = state] \in Torrent
      BY <3>1 DEF Torrent
    <3>. QED BY <1>2, <2>2, <3>2 DEF IInv, TypeOK
  <2>. QED BY <2>1, <2>2
<1>4. TypeOK' /\ RemovingIsHidden'
  BY <1>1, <1>3 DEF IInv, TypeOK, RemovingIsHidden
<1>5. NotBehind'
  <2>1. \A s \in Slot : Taken(s) => refreshes[s].at \in Nat
    BY DEF IInv, TypeOK, Taken, Refresh
  <2>2. version \in Nat /\ shownVersion \in Nat
    BY DEF IInv, TypeOK
  <2>. QED BY <1>1, <1>3, <2>1, <2>2 DEF IInv, NotBehind, Taken
<1>6. UnusedIsNowhere'
  BY <1>1, <1>2, <1>3 DEF IInv, TypeOK, UnusedIsNowhere, Taken
<1>7. PausedIsRemembered'
  BY <1>1, <1>2, <1>3 DEF IInv, PausedIsRemembered
<1>8. RemovedIsGone'
  BY <1>1, <1>2, <1>3 DEF IInv, RemovedIsGone
<1>. QED BY <1>4, <1>5, <1>6, <1>7, <1>8 DEF IInv

LEMMA RemoveInEngineStep == ASSUME IInv, NEW op \in ops, RemoveInEngine(op) PROVE IInv'
<1>. DEFINE removed == [op EXCEPT !.kind = "removed"]
<1>1. /\ op.kind = "remove" /\ ops' = (ops \ {op}) \cup {removed}
      /\ UNCHANGED <<unused, completions, everFailed, rows, latest, removingIDs, notified,
                     ratioPausedIDs, lastBadge, sleepActivity, refreshes, refreshDue, userOps,
                     shownVersion, notices, ratioPauses, pauseRefused>>
      /\ \/ /\ engine' = [engine EXCEPT ![op.id] = Gone] /\ version' = version + 1
            /\ UNCHANGED removeRefused
         \/ removeRefused' = removeRefused \cup {op.id} /\ UNCHANGED <<engine, version>>
  BY DEF RemoveInEngine, storeVars
<1>2. op.id \in Id /\ (\A o \in ops : o.id \in Id) /\ op.id \notin unused
  BY DEF IInv, TypeOK, Op, UnusedIsNowhere
<1>3. removed \in Op /\ removed.id = op.id
  BY <1>1 DEF IInv, TypeOK, Op
<1>. HIDE DEF removed
<1>4. /\ engine' \in [Id -> Torrent \cup {Gone}] /\ version' \in Nat /\ version <= version'
      /\ removeRefused' \subseteq Id /\ removeRefused \subseteq removeRefused'
      /\ \A i \in Id : engine'[i] = engine[i] \/ engine'[i] = Gone
      /\ engine'[op.id] = Gone \/ op.id \in removeRefused'
  BY <1>1, <1>2 DEF IInv, TypeOK
<1>5. TypeOK' /\ RemovingIsHidden'
  BY <1>1, <1>3, <1>4 DEF IInv, TypeOK, RemovingIsHidden
<1>6. NotBehind'
  <2>1. \A s \in Slot : Taken(s) => refreshes[s].at \in Nat
    BY DEF IInv, TypeOK, Taken, Refresh
  <2>2. version \in Nat /\ shownVersion \in Nat
    BY DEF IInv, TypeOK
  <2>. QED BY <1>1, <1>4, <2>1, <2>2 DEF IInv, NotBehind, Taken
<1>7. UnusedIsNowhere'
  BY <1>1, <1>2, <1>3, <1>4 DEF IInv, TypeOK, UnusedIsNowhere, Taken
<1>8. PausedIsRemembered'
  BY <1>1, <1>4 DEF IInv, PausedIsRemembered
<1>9. RemovedIsGone'
  BY <1>1, <1>2, <1>3, <1>4 DEF IInv, RemovedIsGone
<1>. QED BY <1>5, <1>6, <1>7, <1>8, <1>9 DEF IInv

\* Who may be shown again is gone, or was not let go.
LEMMA RemoveReturnsStep == ASSUME IInv, NEW op \in ops, RemoveReturns(op) PROVE IInv'
<1>1. /\ op.kind = "removed" /\ ops' = ops \ {op} /\ removingIDs' = removingIDs \ {op.id}
      /\ UNCHANGED <<engine, unused, completions, everFailed, version, rows, latest, notified,
                     ratioPausedIDs, lastBadge, sleepActivity, refreshes, refreshDue, userOps,
                     shownVersion, notices, ratioPauses, pauseRefused, removeRefused>>
  BY DEF RemoveReturns, engineVars, history
<1>2. engine[op.id] = Gone \/ op.id \in removeRefused
  BY <1>1 DEF IInv, RemovedIsGone
<1>3. TypeOK' /\ RemovingIsHidden' /\ RemovedIsGone'
  BY <1>1 DEF IInv, TypeOK, RemovingIsHidden, RemovedIsGone
<1>4. NotBehind' /\ UnusedIsNowhere'
  BY <1>1 DEF IInv, NotBehind, UnusedIsNowhere, Taken
<1>5. PausedIsRemembered'
  BY <1>1, <1>2 DEF IInv, PausedIsRemembered
<1>. QED BY <1>3, <1>4, <1>5 DEF IInv

LEMMA OpStepIInv == IInv /\ OpStep => IInv'
<1>. SUFFICES ASSUME IInv, NEW op \in ops,
                     Pause(op) \/ Resume(op) \/ OpFails(op) \/ RemoveInEngine(op) \/ RemoveReturns(op)
              PROVE  IInv'
  BY DEF OpStep
<1>1. CASE Pause(op)
  <2>1. pauseRefused' \subseteq Id
    BY <1>1 DEF Pause, IInv, TypeOK
  <2>. QED BY <1>1, <2>1, OpEndsStep DEF Pause, State
<1>2. CASE Resume(op)
  <2>1. pauseRefused' \subseteq Id
    BY <1>2 DEF Resume, IInv, TypeOK
  <2>. QED BY <1>2, <2>1, OpEndsStep DEF Resume, State
<1>3. CASE OpFails(op)
  <2>1. pauseRefused' \subseteq Id
    BY <1>3 DEF OpFails, IInv, TypeOK, Op
  <2>. QED BY <1>3, <2>1, OpEndsStep DEF OpFails, engineVars
<1>4. CASE RemoveInEngine(op)
  BY <1>4, RemoveInEngineStep
<1>5. CASE RemoveReturns(op)
  BY <1>5, RemoveReturnsStep
<1>. QED BY <1>1, <1>2, <1>3, <1>4, <1>5

LEMMA StepIInv == IInv /\ [Next]_vars => IInv'
<1>. SUFFICES ASSUME IInv, [Next]_vars PROVE IInv'
  OBVIOUS
<1>1. CASE UNCHANGED vars
  BY <1>1 DEF vars, engineVars, storeVars, history, IInv, TypeOK, RemovingIsHidden, NotBehind,
     UnusedIsNowhere, PausedIsRemembered, RemovedIsGone, Taken
<1>2. CASE EngineStep
  BY <1>2, EngineStepIInv
<1>3. CASE \E s \in Slot : RefreshStep(s)
  BY <1>3, RefreshStartStep, RefreshListStep, RefreshApplyStep DEF RefreshStep
<1>4. CASE \E i \in Id : Perform(i, "pause") \/ Perform(i, "resume") \/ Remove(i)
  BY <1>4, RequestStep DEF Perform, Remove
<1>5. CASE OpStep
  BY <1>5, OpStepIInv
<1>. QED BY <1>1, <1>2, <1>3, <1>4, <1>5 DEF Next

LEMMA Invariant == Spec => []IInv
BY InitIInv, StepIInv, PTL DEF Spec

\* No row of a torrent whose removal is under way, however many lists that were
\* taken before are published after (TorrentStore.remove, apply).
THEOREM RemovalsAreHidden == Spec => []Inv
<1>1. IInv => Inv
  BY DEF IInv, Inv
<1>. QED BY <1>1, Invariant, PTL

\* Each torrent is paused for its ratio at most once per launch, unless the
\* engine has refused to remove it (TorrentStore.enforceSeedRatio).
THEOREM RatioPausesOnce == Spec => []RatioPausedOnceUnlessRefused
<1>1. IInv => RatioPausedOnceUnlessRefused
  BY DEF IInv, TypeOK, PausedIsRemembered, RatioPausedOnceUnlessRefused
<1>. QED BY <1>1, Invariant, PTL

\* What is shown never gets older, however many refreshes overlap
\* (TorrentStore.refresh).
THEOREM RowsNeverOlder == Spec => NeverOlder
<1>1. IInv /\ [Next]_vars => [shownVersion' >= shownVersion]_vars
  <2>. SUFFICES ASSUME IInv, Next PROVE shownVersion' >= shownVersion
    BY DEF vars
  <2>1. shownVersion \in Nat
    BY DEF IInv, TypeOK
  <2>2. ASSUME NEW s \in Slot, RefreshApply(s) PROVE shownVersion' >= shownVersion
    <3>1. refreshes[s].at \in Nat
      BY <2>2 DEF RefreshApply, IInv, TypeOK, Refresh
    <3>. QED BY <2>1, <2>2, <3>1 DEF RefreshApply, MayPublish, IInv, NotBehind, Taken
  <2>3. CASE UNCHANGED shownVersion
    BY <2>1, <2>3
  <2>4. \/ UNCHANGED shownVersion
        \/ \E s \in Slot : RefreshApply(s)
    <3>1. EngineStep => UNCHANGED shownVersion
      BY DEF EngineStep, Added, CheckDone, Complete, ReachRatio, Fail, Become, history
    <3>2. OpStep => UNCHANGED shownVersion
      BY DEF OpStep, Pause, Resume, OpFails, OpEnds, RemoveInEngine, RemoveReturns, history
    <3>3. ASSUME NEW s \in Slot, RefreshStart(s) \/ RefreshList(s) PROVE UNCHANGED shownVersion
      BY <3>3 DEF RefreshStart, RefreshList, history
    <3>4. ASSUME NEW i \in Id, Perform(i, "pause") \/ Perform(i, "resume") \/ Remove(i)
          PROVE  UNCHANGED shownVersion
      BY <3>4 DEF Perform, Remove, history
    <3>. QED BY <3>1, <3>2, <3>3, <3>4 DEF Next, RefreshStep
  <2>. QED BY <2>2, <2>3, <2>4
<1>. QED BY <1>1, Invariant, PTL DEF Spec, NeverOlder

(***************************************************************************)
(* Notices.  The list that may be published lies between the rows and the  *)
(* engine.  Wherever the earlier of two of them has a torrent under way    *)
(* and the later one has it complete, a completion is still to be          *)
(* announced.                                                              *)
(***************************************************************************)

UnderWay(snapshot) ==
  snapshot # Gone /\ ~snapshot.isFinished /\ snapshot.state # "initializing"
IsComplete(i) == engine[i] # Gone /\ engine[i].complete
Owed(i) == notices[i] + 1 <= completions[i]

\* An error reports unfinished whatever there is, so it is left out for ever.
EarnedBy(i) ==
  /\ engine[i] # Gone => engine[i].state # "error"
  /\ notices[i] <= completions[i]
  /\ UnderWay(rows[i]) /\ IsComplete(i) => Owed(i)
  /\ Taken(latest) =>
       LET list == refreshes[latest].list
       IN  /\ UnderWay(list[i]) /\ IsComplete(i) => Owed(i)
           /\ UnderWay(rows[i]) /\ i \in Finished(list) => Owed(i)

NoticesEarned == \A i \in Id \ everFailed : EarnedBy(i)

LEMMA InitEarned == Init => NoticesEarned
<1>. SUFFICES ASSUME Init, NEW i \in Id PROVE EarnedBy(i)
  BY DEF NoticesEarned
<1>1. notices[i] = 0 /\ completions[i] = 0 /\ rows[i] = Gone /\ ~Taken(latest)
  BY SlotAssumption DEF Init, Taken
<1>2. engine[i] # Gone => engine[i].state # "error"
  BY DEF Init
<1>. QED BY <1>1, <1>2 DEF EarnedBy, UnderWay

\* Steps that make nothing complete and publish nothing.
LEMMA QuietStep ==
  ASSUME IInv, NoticesEarned, UNCHANGED <<notices, completions>>,
         everFailed \subseteq everFailed',
         \A i \in Id : rows'[i] = rows[i] \/ rows'[i] = Gone,
         \A i \in Id : IsComplete(i)' => IsComplete(i),
         \A i \in Id \ everFailed' : engine'[i] # Gone => engine'[i].state # "error",
         Taken(latest)' => Taken(latest) /\ (refreshes[latest].list)' = refreshes[latest].list
  PROVE  NoticesEarned'
<1>. SUFFICES ASSUME NEW i \in Id \ everFailed' PROVE EarnedBy(i)'
  BY DEF NoticesEarned
<1>1. EarnedBy(i)
  BY DEF NoticesEarned
<1>2. Owed(i)' <=> Owed(i)
  BY DEF Owed
<1>3. UnderWay(rows[i])' => UnderWay(rows[i])
  BY DEF UnderWay
<1>4. ASSUME Taken(latest)'
      PROVE  /\ UnderWay(refreshes[latest].list[i])' <=> UnderWay(refreshes[latest].list[i])
             /\ (i \in Finished(refreshes[latest].list))' <=> i \in Finished(refreshes[latest].list)
  BY <1>4 DEF UnderWay, Finished, Ids
<1>. QED BY <1>1, <1>2, <1>3, <1>4 DEF EarnedBy

LEMMA CompleteEarned ==
  ASSUME IInv, NoticesEarned, NEW k \in Id, Complete(k) PROVE NoticesEarned'
<1>1. /\ engine' = [engine EXCEPT ![k] = [engine[k] EXCEPT !.complete = TRUE]]
      /\ completions' = [completions EXCEPT ![k] = @ + 1]
      /\ engine[k] # Gone /\ engine[k].state = "live"
      /\ UNCHANGED <<everFailed, rows, refreshes, latest, notices>>
  BY DEF Complete, Become, storeVars, history
<1>. SUFFICES ASSUME NEW i \in Id \ everFailed PROVE EarnedBy(i)'
  BY <1>1 DEF NoticesEarned
<1>2. EarnedBy(i) /\ notices[i] \in Nat /\ completions[i] \in Nat
  BY DEF NoticesEarned, IInv, TypeOK
<1>3. Taken(latest)' <=> Taken(latest)
  BY <1>1 DEF Taken
<1>4. CASE i # k
  <2>1. engine'[i] = engine[i] /\ completions'[i] = completions[i]
    BY <1>1, <1>4 DEF IInv, TypeOK
  <2>. QED BY <1>1, <1>2, <1>3, <2>1 DEF EarnedBy, Owed, IsComplete, UnderWay, Finished, Ids
<1>5. CASE i = k
  <2>1. /\ engine'[i] # Gone => engine'[i].state # "error"
        /\ completions'[i] = completions[i] + 1
    BY <1>1, <1>5 DEF IInv, TypeOK, Torrent
  <2>2. notices'[i] <= completions'[i] /\ Owed(i)'
    BY <1>1, <1>2, <2>1 DEF EarnedBy, Owed
  <2>. QED BY <1>3, <2>1, <2>2 DEF EarnedBy
<1>. QED BY <1>4, <1>5

\* The list is what the engine has.
LEMMA ListEarned ==
  ASSUME IInv, NoticesEarned, NEW s \in Slot, RefreshList(s) PROVE NoticesEarned'
<1>1. /\ refreshes' = [refreshes EXCEPT ![s] = [list |-> EngineList, at |-> version]]
      /\ UNCHANGED <<engine, everFailed, completions, rows, latest, notices>>
  BY DEF RefreshList, engineVars, storeVars, history
<1>2. CASE s # latest
  <2>1. refreshes'[latest] = refreshes[latest]
    BY <1>1, <1>2 DEF IInv, TypeOK
  <2>. QED BY <1>1, <2>1 DEF NoticesEarned, EarnedBy, Taken, Owed, IsComplete, UnderWay, Finished, Ids
<1>3. CASE s = latest
  <2>. SUFFICES ASSUME NEW i \in Id \ everFailed PROVE EarnedBy(i)'
    BY <1>1 DEF NoticesEarned
  <2>1. refreshes'[latest'].list = EngineList
    BY <1>1, <1>3 DEF IInv, TypeOK
  <2>2. EarnedBy(i) /\ engine[i] \in Torrent \cup {Gone}
    BY DEF NoticesEarned, IInv, TypeOK
  <2>3. UnderWay(EngineList[i]) => ~IsComplete(i)
    BY <2>2 DEF EarnedBy, UnderWay, EngineList, Report, IsComplete, Torrent
  <2>4. i \in Finished(EngineList) => IsComplete(i)
    BY <2>2 DEF Finished, Ids, EngineList, Report, IsComplete
  <2>5. EarnedBy(i)' <=>
          /\ engine[i] # Gone => engine[i].state # "error"
          /\ notices[i] <= completions[i]
          /\ UnderWay(rows[i]) /\ IsComplete(i) => Owed(i)
          /\ Taken(latest)' =>
               /\ UnderWay(EngineList[i]) /\ IsComplete(i) => Owed(i)
               /\ UnderWay(rows[i]) /\ i \in Finished(EngineList) => Owed(i)
    BY <1>1, <2>1 DEF EarnedBy, Owed, IsComplete, UnderWay, Finished, Ids
  <2>. QED BY <2>2, <2>3, <2>4, <2>5 DEF EarnedBy
<1>. QED BY <1>2, <1>3

\* What is announced was under way in the rows and is finished in the list.
LEMMA ApplyEarned ==
  ASSUME IInv, NoticesEarned, NEW s \in Slot, RefreshApply(s) PROVE NoticesEarned'
<1>1. /\ refreshes' = [refreshes EXCEPT ![s] = Gone]
      /\ UNCHANGED <<engine, everFailed, completions, latest>>
  BY DEF RefreshApply, engineVars
<1>2. CASE s # latest
  <2>1. refreshes'[latest] = refreshes[latest] /\ UNCHANGED <<rows, notices>>
    BY <1>1, <1>2 DEF RefreshApply, MayPublish, IInv, TypeOK
  <2>. QED BY <1>1, <2>1 DEF NoticesEarned, EarnedBy, Taken, Owed, IsComplete, UnderWay, Finished, Ids
<1>3. CASE s = latest
  <2>. DEFINE list == refreshes[latest].list
  <2>1. Taken(latest) /\ Publish(list)
    BY <1>3 DEF RefreshApply, MayPublish, Taken
  <2>2. ~Taken(latest)'
    BY <1>1, <1>3 DEF Taken, IInv, TypeOK
  <2>. SUFFICES ASSUME NEW i \in Id \ everFailed PROVE EarnedBy(i)'
    BY <1>1 DEF NoticesEarned
  <2>3. EarnedBy(i) /\ notices[i] \in Nat /\ completions[i] \in Nat /\ notices \in [Id -> Nat]
    BY DEF NoticesEarned, IInv, TypeOK
  <2>4. notices'[i] = IF i \in JustCompleted(list) THEN notices[i] + 1 ELSE notices[i]
    BY <2>1, <2>3, BumpCounts DEF Publish, Notify
  <2>5. i \in JustCompleted(list) => UnderWay(rows[i]) /\ i \in Finished(list)
    BY DEF JustCompleted, UnderWay
  <2>6. notices'[i] <= completions'[i]
    BY <1>1, <2>1, <2>3, <2>4, <2>5 DEF EarnedBy, Owed
  <2>7. rows'[i] = Gone \/ rows'[i] = list[i]
    BY <2>1 DEF Publish, Shown
  <2>8. ASSUME UnderWay(rows[i])', IsComplete(i)' PROVE Owed(i)'
    <3>1. UnderWay(list[i]) /\ IsComplete(i)
      BY <1>1, <2>7, <2>8 DEF UnderWay, IsComplete
    <3>2. i \notin Finished(list)
      BY <3>1 DEF UnderWay, Finished
    <3>3. notices'[i] = notices[i]
      BY <2>4, <2>5, <3>2
    <3>4. Owed(i)
      BY <2>1, <2>3, <3>1 DEF EarnedBy
    <3>. QED BY <1>1, <3>3, <3>4 DEF Owed
  <2>. QED BY <1>1, <2>2, <2>3, <2>6, <2>8 DEF EarnedBy
<1>. QED BY <1>2, <1>3

LEMMA StepEarned == IInv /\ NoticesEarned /\ [Next]_vars => NoticesEarned'
<1>. SUFFICES ASSUME IInv, NoticesEarned, [Next]_vars PROVE NoticesEarned'
  OBVIOUS
<1>. DEFINE NoError == \A i \in Id \ everFailed : engine[i] # Gone => engine[i].state # "error"
<1>0. NoError
  BY DEF NoticesEarned, EarnedBy
<1>1. CASE UNCHANGED vars
  BY <1>0, <1>1, QuietStep DEF vars, engineVars, storeVars, history, IsComplete, Taken
<1>2. CASE EngineStep
  <2>. SUFFICES ASSUME NEW k \in Id,
                       Added(k) \/ CheckDone(k) \/ Complete(k) \/ ReachRatio(k) \/ Fail(k)
                PROVE  NoticesEarned'
    BY <1>2 DEF EngineStep
  <2>1. CASE Complete(k)
    BY <2>1, CompleteEarned
  <2>. SUFFICES ASSUME Added(k) \/ CheckDone(k) \/ ReachRatio(k) \/ Fail(k) PROVE NoticesEarned'
    BY <2>1
  <2>2. UNCHANGED <<rows, refreshes, latest, notices, completions>> /\ everFailed \subseteq everFailed'
    BY DEF Added, CheckDone, ReachRatio, Fail, Become, storeVars, history
  <2>3. \A i \in Id : i # k => engine'[i] = engine[i]
    BY DEF Added, CheckDone, ReachRatio, Fail, Become, IInv, TypeOK
  <2>4. /\ IsComplete(k)' => IsComplete(k)
        /\ k \notin everFailed' => engine'[k].state # "error"
    <3>1. CASE Added(k)
      <4>1. engine'[k] = [state |-> "initializing", complete |-> FALSE, seeded |-> FALSE]
        BY <3>1 DEF Added, Become, IInv, TypeOK
      <4>. QED BY <4>1 DEF IsComplete
    <3>2. CASE CheckDone(k)
      <4>1. PICK ok \in BOOLEAN :
              engine' = [engine EXCEPT ![k] = [engine[k] EXCEPT !.state = "live", !.complete = @ /\ ok]]
        BY <3>2 DEF CheckDone, Become
      <4>2. /\ engine[k] # Gone /\ engine'[k].state = "live"
            /\ engine'[k].complete = (engine[k].complete /\ ok)
        BY <3>2, <4>1 DEF CheckDone, IInv, TypeOK, Torrent
      <4>. QED BY <4>2 DEF IsComplete
    <3>3. CASE ReachRatio(k)
      <4>1. engine[k] # Gone /\ engine[k].complete /\ engine'[k].state = "live"
        BY <3>3 DEF ReachRatio, Become, IInv, TypeOK, Torrent
      <4>. QED BY <4>1 DEF IsComplete
    <3>4. CASE Fail(k)
      <4>1. engine[k] # Gone /\ k \in everFailed' /\ engine'[k].complete = engine[k].complete
        BY <3>4 DEF Fail, Become, IInv, TypeOK, Torrent
      <4>. QED BY <4>1 DEF IsComplete
    <3>. QED BY <3>1, <3>2, <3>3, <3>4
  <2>6. \A i \in Id : IsComplete(i)' => IsComplete(i)
    BY <2>3, <2>4 DEF IsComplete
  <2>7. \A i \in Id \ everFailed' : engine'[i] # Gone => engine'[i].state # "error"
    BY <1>0, <2>2, <2>3, <2>4
  <2>. QED BY <2>2, <2>6, <2>7, QuietStep DEF Taken
<1>3. ASSUME NEW s \in Slot, RefreshStep(s) PROVE NoticesEarned'
  <2>1. CASE RefreshStart(s)
    <3>1. /\ UNCHANGED <<engine, everFailed, completions, rows, notices>>
          /\ latest' = s /\ refreshes' = [refreshes EXCEPT ![s] = [list |-> Gone, at |-> 0]]
      BY <2>1 DEF RefreshStart, engineVars, history
    <3>2. ~Taken(latest)'
      BY <3>1 DEF Taken, IInv, TypeOK
    <3>. QED BY <1>0, <3>1, <3>2, QuietStep DEF IsComplete
  <2>. QED BY <1>3, <2>1, ListEarned, ApplyEarned DEF RefreshStep
<1>4. ASSUME NEW k \in Id, Perform(k, "pause") \/ Perform(k, "resume") \/ Remove(k)
      PROVE  NoticesEarned'
  <2>1. UNCHANGED <<engine, everFailed, completions, refreshes, latest, notices>>
    BY <1>4 DEF Perform, Remove, engineVars, storeVars, history
  <2>2. \A i \in Id : rows'[i] = rows[i] \/ rows'[i] = Gone
    BY <1>4 DEF Perform, Remove, storeVars, IInv, TypeOK, List
  <2>. QED BY <1>0, <2>1, <2>2, QuietStep DEF IsComplete, Taken
<1>5. ASSUME NEW op \in ops,
             Pause(op) \/ Resume(op) \/ OpFails(op) \/ RemoveInEngine(op) \/ RemoveReturns(op)
      PROVE  NoticesEarned'
  <2>1. UNCHANGED <<rows, refreshes, latest, notices, completions, everFailed>>
    BY <1>5 DEF Pause, Resume, OpFails, OpEnds, RemoveInEngine, RemoveReturns, engineVars,
       storeVars, history
  <2>2. \A i \in Id :
          \/ engine'[i] = engine[i] \/ engine'[i] = Gone
          \/ /\ engine[i] # Gone /\ engine'[i] # Gone /\ engine'[i].complete = engine[i].complete
             /\ engine'[i].state \in {"paused", "initializing"}
    BY <1>5 DEF Pause, Resume, OpFails, OpEnds, RemoveInEngine, RemoveReturns, engineVars, IInv,
       TypeOK, Torrent
  <2>3. \A i \in Id : IsComplete(i)' => IsComplete(i)
    BY <2>2 DEF IsComplete
  <2>4. \A i \in Id \ everFailed' : engine'[i] # Gone => engine'[i].state # "error"
    BY <1>0, <2>1, <2>2
  <2>. QED BY <2>1, <2>3, <2>4, QuietStep DEF Taken
<1>. QED BY <1>1, <1>2, <1>3, <1>4, <1>5 DEF Next, OpStep

\* "Download complete" is said no more often than downloads completed, for every
\* torrent that was never in error, however polls, dropped lists, checks, lost
\* data and refused removals fall (TorrentStore.apply).
THEOREM NoticesAreEarned == Spec => []NoticesMatchCompletions
<1>1. Spec => []NoticesEarned
  BY InitEarned, StepEarned, Invariant, PTL DEF Spec
<1>2. NoticesEarned => NoticesMatchCompletions
  BY DEF NoticesEarned, EarnedBy, NoticesMatchCompletions
<1>. QED BY <1>1, <1>2, PTL

=============================================================================
