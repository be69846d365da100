----------------------------- MODULE AddTorrent -----------------------------
(***************************************************************************)
(* How a torrent gets into the list: SessionHolder (main actor, Swift) adds*)
(* URIs through NeoTorrentSession.add_torrent / cancel_add (FFI, Rust), the*)
(* core session resolves and inserts them, and the poll of TorrentStore    *)
(* reconciles pending rows against the engine's list.                      *)
(*                                                                         *)
(* Grain of atomicity: a main-actor job runs up to its next `await`; the   *)
(* FFI future, the tokio task, librqbit's delete and the poll run on other *)
(* threads, so every hand-over between them is a step of its own.          *)
(***************************************************************************)
EXTENDS CoreSession

CONSTANTS
  NoUri,      \* no URI
  User,       \* origin of a removal the user asked for on a listed row
  NoPoll,     \* no poll in flight
  MaxLaunches \* bound: launches of the app a behaviour may contain

ASSUME SentinelAssumption == NoUri \notin Uri /\ User \notin Token
ASSUME BoundAssumption == MaxLaunches \in Nat

VARIABLES
  launch,         \* how many launches there have been, for the bound
  session,        \* SessionHolder.session / isStarting
  preStartQueue,  \* URIs opened while there was no session
  queued,         \* URIs whose Task { add(uri) } has not begun
  pendingAdds,    \* tokens with a PendingTorrent entry
  uriOf,          \* PendingTorrent.uri (and the argument of the call)
  torrentID,      \* PendingTorrent.torrentID
  pendingURIs,    \* UserDefaults "pendingURIs": survives a crash
  resumed,        \* URIs read from it at startup and not begun since
  call,           \* where the call of each token stands
  adds,           \* NeoTorrentSession.adds: tokens with an AbortHandle
  removals,       \* session.remove calls in flight, with who asked
  poll,           \* ids listed by the poll in flight
  rows,           \* ids in TorrentStore.torrents
  cancelled,      \* history: tokens the user cancelled in this launch
  refused         \* history: ids whose deletion librqbit refused

appVars == <<launch, session, preStartQueue, queued, pendingAdds, uriOf, torrentID,
             pendingURIs, resumed, call, adds>>
storeVars == <<removals, poll, rows>>
history == <<cancelled, refused>>
vars == <<coreVars, appVars, storeVars, history>>

\* "calling": entry made, FFI future not polled yet; "spawned": tokio task
\* spawned, abort handle not stored yet; "awaiting": stored; "returned":
\* result on its way back to the main actor; "undoing": compensating remove.
InFFI   == {"calling", "spawned", "awaiting", "returned"}
Settled == {"added", "alreadyAdded", "failed", "cancelled"}
CallState == {"idle", "undoing", "lost"} \cup InFFI \cup Settled

Removal == [id : Nat, by : Token \cup {User}]

TypeOK ==
  /\ CoreTypeOK
  /\ launch \in Nat
  /\ session \in {"none", "starting", "running"}
  /\ preStartQueue \subseteq Uri
  /\ queued \subseteq Uri
  /\ pendingAdds \subseteq Token
  /\ uriOf \in [Token -> Uri \cup {NoUri}]
  /\ torrentID \in [Token -> Nat \cup {NoId}]
  /\ pendingURIs \subseteq Uri
  /\ resumed \subseteq Uri
  /\ call \in [Token -> CallState]
  /\ adds \subseteq Token
  /\ removals \subseteq Removal
  /\ poll = NoPoll \/ poll \in SUBSET Nat
  /\ rows \subseteq Nat
  /\ cancelled \subseteq Token
  /\ refused \subseteq Nat

Init ==
  /\ CoreInit
  /\ launch = 1
  /\ session = "none"
  /\ preStartQueue = {} /\ queued = {} /\ pendingAdds = {}
  /\ uriOf = [e \in Token |-> NoUri]
  /\ torrentID = [e \in Token |-> NoId]
  /\ pendingURIs = {} /\ resumed = {}
  /\ call = [e \in Token |-> "idle"]
  /\ adds = {}
  /\ removals = {} /\ poll = NoPoll /\ rows = {}
  /\ cancelled = {} /\ refused = {}

(***************************************************************************)
(* SessionHolder.start: at launch, and again from the Retry button.        *)
(***************************************************************************)

StartEngine ==
  /\ session = "none"
  /\ session' = "starting"
  /\ UNCHANGED <<coreVars, launch, preStartQueue, queued, pendingAdds, uriOf, torrentID,
                 pendingURIs, resumed, call, adds, storeVars, history>>

EngineFailed ==
  /\ session = "starting"
  /\ session' = "none"
  /\ UNCHANGED <<coreVars, launch, preStartQueue, queued, pendingAdds, uriOf, torrentID,
                 pendingURIs, resumed, call, adds, storeVars, history>>

\* One Task per distinct URI of the saved list and the pre-start queue.
EngineStarted ==
  /\ session = "starting"
  /\ session' = "running"
  /\ CoreStart
  /\ queued' = queued \cup pendingURIs \cup preStartQueue
  /\ preStartQueue' = {}
  /\ resumed' = pendingURIs
  /\ UNCHANGED <<launch, pendingAdds, uriOf, torrentID, pendingURIs, call, adds,
                 storeVars, history>>

(***************************************************************************)
(* SessionHolder.add.                                                      *)
(***************************************************************************)

\* add(uris:), from a drop, the clipboard, the file panel or an opened URL.
\* A second Task for a URI that is still queued can as well be queued after
\* the first has begun, so a set is enough.
OpenUri(u) ==
  /\ u \notin queued
  /\ queued' = queued \cup {u}
  /\ UNCHANGED <<coreVars, launch, session, preStartQueue, pendingAdds, uriOf, torrentID,
                 pendingURIs, resumed, call, adds, storeVars, history>>

\* persistPending(): the URIs of the entries still without an id.
Unresolved(P, ids) == {p \in P : ids[p] = NoId}

\* Mutant of Persist: entries that already have their id are saved as well.
PersistAll == pendingURIs' = {uriOf'[p] : p \in pendingAdds'}

Persist == pendingURIs' = {uriOf'[p] : p \in Unresolved(pendingAdds', torrentID')}

\* Entries leave pendingAdds, and their ids with them.
Discard(P) ==
  /\ pendingAdds' = pendingAdds \ P
  /\ torrentID' = [e \in Token |-> IF e \in P THEN NoId ELSE torrentID[e]]

\* Mutant of Duplicates: only entries that are still resolving are looked at.
DuplicatesResolving(u) ==
  {p \in Unresolved(pendingAdds, torrentID) :
     u \in Magnet /\ uriOf[p] \in Magnet /\ HashOf[uriOf[p]] = HashOf[u]}

\* The pending entry, if any, that already has the info hash of u.
Duplicates(u) ==
  {p \in pendingAdds : u \in Magnet /\ uriOf[p] \in Magnet /\ HashOf[uriOf[p]] = HashOf[u]}

BeginTask(u) ==
  /\ u \in queued
  /\ queued' = queued \ {u}
  /\ resumed' = resumed \ {u}

\* add(uri:) before there is a session.
AddBeforeStart(u) ==
  /\ BeginTask(u)
  /\ session # "running"
  /\ preStartQueue' = preStartQueue \cup {u}
  /\ UNCHANGED <<coreVars, launch, session, pendingAdds, uriOf, torrentID, pendingURIs,
                 call, adds, storeVars, history>>

\* throw AddTorrentError.alreadyAdding
AddRefused(u) ==
  /\ BeginTask(u)
  /\ session = "running"
  /\ Duplicates(u) # {}
  /\ UNCHANGED <<coreVars, launch, session, preStartQueue, pendingAdds, uriOf, torrentID,
                 pendingURIs, call, adds, storeVars, history>>

\* Register the entry, save the list, call the FFI.
AddBegin(u, e) ==
  /\ BeginTask(u)
  /\ session = "running"
  /\ Duplicates(u) = {}
  /\ call[e] = "idle"
  /\ pendingAdds' = pendingAdds \cup {e}
  /\ uriOf' = [uriOf EXCEPT ![e] = u]
  /\ call' = [call EXCEPT ![e] = "calling"]
  /\ UNCHANGED torrentID
  /\ Persist
  /\ UNCHANGED <<coreVars, launch, session, preStartQueue, adds, storeVars, history>>

(***************************************************************************)
(* NeoTorrentSession.add_torrent, off the main actor.                      *)
(***************************************************************************)

FfiSpawn(e) ==
  /\ call[e] = "calling"
  /\ call' = [call EXCEPT ![e] = "spawned"]
  /\ Spawn(e)
  /\ UNCHANGED <<launch, session, preStartQueue, queued, pendingAdds, uriOf, torrentID,
                 pendingURIs, resumed, adds, storeVars, history>>

FfiRegister(e) ==
  /\ call[e] = "spawned"
  /\ call' = [call EXCEPT ![e] = "awaiting"]
  /\ adds' = adds \cup {e}
  /\ UNCHANGED <<coreVars, launch, session, preStartQueue, queued, pendingAdds, uriOf, torrentID,
                 pendingURIs, resumed, storeVars, history>>

FfiReturn(e) ==
  /\ call[e] = "awaiting"
  /\ task[e] \in Finished
  /\ call' = [call EXCEPT ![e] = "returned"]
  /\ adds' = adds \ {e}
  /\ UNCHANGED <<coreVars, launch, session, preStartQueue, queued, pendingAdds, uriOf, torrentID,
                 pendingURIs, resumed, storeVars, history>>

\* The steps of the spawned task.
TaskStep(e) ==
  /\ \/ TaskCheck(e, uriOf[e])
     \/ TaskListed(e)
     \/ TaskInsert(e, uriOf[e])
     \/ TaskFail(e)
  /\ UNCHANGED <<appVars, storeVars, history>>

AbortLands(e) == TaskAborted(e) /\ UNCHANGED <<appVars, storeVars, history>>

(***************************************************************************)
(* Back on the main actor: the rest of SessionHolder.add after the await.  *)
(***************************************************************************)

\* Mutants of MustUndo: undo whatever happened, undo a torrent that was
\* there before, never undo.
MustUndoManaged(e) == task[e] \in {"added", "managed"}
MustUndoNever(e) == FALSE

\* The entry was cancelled meanwhile; a torrent this call inserted has to go.
MustUndo(e) == task[e] = "added"

ResumeCancelled(e) ==
  /\ e \notin pendingAdds
  /\ UNCHANGED <<pendingAdds, torrentID>>
  /\ IF MustUndo(e)
     THEN /\ call' = [call EXCEPT ![e] = "undoing"]
          /\ removals' = removals \cup {[id |-> taskID[e], by |-> e]}
     ELSE /\ call' = [call EXCEPT ![e] = "cancelled"]
          /\ UNCHANGED removals

ResumeAdded(e) ==
  /\ e \in pendingAdds
  /\ task[e] = "added"
  /\ torrentID' = [torrentID EXCEPT ![e] = taskID[e]]
  /\ call' = [call EXCEPT ![e] = "added"]
  /\ UNCHANGED <<pendingAdds, removals>>

\* throw AddTorrentError.alreadyAdded
ResumeManaged(e) ==
  /\ e \in pendingAdds
  /\ task[e] = "managed"
  /\ Discard({e})
  /\ call' = [call EXCEPT ![e] = "alreadyAdded"]
  /\ UNCHANGED removals

\* An error other than Cancelled drops the entry, even if already dropped.
ResumeFailed(e) ==
  /\ Discard({e})
  /\ call' = [call EXCEPT ![e] = "failed"]
  /\ UNCHANGED removals

Resume(e) ==
  /\ call[e] = "returned"
  /\ \/ task[e] \in {"added", "managed"}
        /\ (ResumeCancelled(e) \/ ResumeAdded(e) \/ ResumeManaged(e))
     \/ task[e] = "failed" /\ ResumeFailed(e)
     \/ task[e] = "aborted" /\ ResumeCancelled(e)
  /\ Release(e)
  /\ UNCHANGED <<launch, session, preStartQueue, queued, uriOf, resumed, adds,
                 poll, rows, history>>
  /\ Persist

\* `try? await session.remove` is over, whatever came of it.
UndoReturns(e) ==
  /\ call[e] = "undoing"
  /\ \A r \in removals : r.by # e
  /\ call' = [call EXCEPT ![e] = "cancelled"]
  /\ UNCHANGED <<coreVars, launch, session, preStartQueue, queued, pendingAdds, uriOf, torrentID,
                 resumed, adds, storeVars, history>>
  /\ Persist

(***************************************************************************)
(* SessionHolder.cancelPending.  An entry exists only while there is a     *)
(* session, so its `guard let session` never stops it.                     *)
(***************************************************************************)

\* NeoTorrentSession.cancel_add
CancelAdd(e) ==
  /\ adds' = adds \ {e}
  /\ IF e \in adds THEN Abort(e) ELSE UNCHANGED aborting
  /\ UNCHANGED <<torrents, nextId, task, taskID>>

CancelPending(e) ==
  /\ e \in pendingAdds
  /\ Discard({e})
  /\ cancelled' = cancelled \cup {e}
  /\ UNCHANGED uriOf
  /\ Persist
  /\ IF torrentID[e] # NoId
     THEN /\ removals' = removals \cup {[id |-> torrentID[e], by |-> e]}
          /\ UNCHANGED <<coreVars, adds>>
     ELSE CancelAdd(e) /\ UNCHANGED removals
  /\ UNCHANGED <<launch, session, preStartQueue, queued, resumed, call, poll, rows, refused>>

(***************************************************************************)
(* The parts of TorrentStore the adds depend on.                           *)
(***************************************************************************)

\* refresh(): the list is taken off the main actor ...
PollList ==
  /\ session = "running"
  /\ poll = NoPoll
  /\ poll' = TorrentIDs
  /\ UNCHANGED <<coreVars, appVars, removals, rows, history>>

RemovingIDs == {r.id : r \in {x \in removals : x.by = User}}

\* Mutant of Reconcile: only torrents that were not shown before count.
ReconcileNew(ids) == Discard({p \in pendingAdds : torrentID[p] \in ids \ rows})

Reconcile(ids) == Discard({p \in pendingAdds : torrentID[p] \in ids})

\* ... and applied on it: rows, then reconcilePending (which saves nothing).
PollApply ==
  /\ poll # NoPoll
  /\ rows' = poll \ RemovingIDs
  /\ Reconcile(poll)
  /\ poll' = NoPoll
  /\ UNCHANGED <<coreVars, launch, session, preStartQueue, queued, uriOf, pendingURIs,
                 resumed, call, adds, removals, history>>

\* remove(id:) on a visible row.
UserRemove(id) ==
  /\ id \in rows
  /\ rows' = rows \ {id}
  /\ removals' = removals \cup {[id |-> id, by |-> User]}
  /\ UNCHANGED <<coreVars, appVars, poll, history>>

\* NeoTorrentSession.remove runs on the runtime; librqbit may refuse.
RemoveDone(r) ==
  /\ r \in removals
  /\ removals' = removals \ {r}
  /\ Delete(r.id)
  /\ UNCHANGED <<appVars, poll, rows, history>>

RemoveRefused(r) ==
  /\ r \in removals
  /\ r.id \in TorrentIDs
  /\ removals' = removals \ {r}
  /\ refused' = refused \cup {r.id}
  /\ UNCHANGED <<coreVars, appVars, poll, rows, cancelled>>

(***************************************************************************)
(* The process ends, at any point: memory is lost, session.json and the    *)
(* saved pending URIs stay.                                                *)
(***************************************************************************)
Crash ==
  /\ launch < MaxLaunches
  /\ launch' = launch + 1
  /\ session' = "none"
  /\ CoreCrash
  /\ preStartQueue' = {} /\ queued' = {} /\ pendingAdds' = {} /\ resumed' = {}
  /\ uriOf' = [e \in Token |-> NoUri]
  /\ torrentID' = [e \in Token |-> NoId]
  /\ call' = [e \in Token |-> IF call[e] = "idle" THEN "idle" ELSE "lost"]
  /\ adds' = {}
  /\ removals' = {} /\ poll' = NoPoll /\ rows' = {}
  /\ cancelled' = {} /\ refused' = {}
  /\ UNCHANGED pendingURIs

-----------------------------------------------------------------------------

Engine ==
  \/ StartEngine \/ EngineFailed \/ EngineStarted
  \/ \E e \in Token : FfiSpawn(e) \/ FfiRegister(e) \/ FfiReturn(e) \/ TaskStep(e) \/ AbortLands(e)
  \/ \E r \in removals : RemoveDone(r) \/ RemoveRefused(r)

MainActor ==
  \/ \E u \in Uri : AddBeforeStart(u) \/ AddRefused(u) \/ \E e \in Token : AddBegin(u, e)
  \/ \E e \in Token : Resume(e) \/ UndoReturns(e)
  \/ PollList \/ PollApply

UserAction ==
  \/ \E u \in Uri : OpenUri(u)
  \/ \E e \in Token : CancelPending(e)
  \/ \E id \in rows : UserRemove(id)

Next == Engine \/ MainActor \/ UserAction \/ Crash

Spec == Init /\ [][Next]_vars

\* What carries a call forward always runs: the FFI future, the main actor,
\* the runtime's delete, the poll loop.  Resolving metadata takes as long as
\* it takes, and the user does what the user does.
CallFairness ==
  /\ \A e \in Token :
       /\ WF_vars(FfiSpawn(e)) /\ WF_vars(FfiRegister(e)) /\ WF_vars(FfiReturn(e))
       /\ WF_vars(AbortLands(e))
       /\ WF_vars(Resume(e)) /\ WF_vars(UndoReturns(e))
  /\ \A b \in Token \cup {User} :
       WF_vars(\E r \in removals : r.by = b /\ (RemoveDone(r) \/ RemoveRefused(r)))
PollFairness == WF_vars(PollList) /\ WF_vars(PollApply)

FairSpec == Spec /\ CallFairness /\ PollFairness

(***************************************************************************)
(* Properties.                                                             *)
(***************************************************************************)

SavedURIs == {uriOf[p] : p \in Unresolved(pendingAdds, torrentID)}

\* What the process would resume after a crash is what it is still adding:
\* the saved list is exactly the URIs of the unresolved entries
\* (persistPending, NeoTorrentApp.swift:442-445, at each of its call sites),
\* or still the last launch's because no entry was made in this one.
DiskMatchesPending ==
  session = "running" =>
    \/ pendingURIs = SavedURIs
    \/ pendingAdds = {} /\ pendingURIs = resumed

\* A removal issued for a cancelled add (the compensation after the await,
\* or cancelPending on an entry that already has its id) only ever hits the
\* torrent that very call inserted: never one that an earlier or a
\* concurrent add of the same torrent brought in.
UndoOnlyOwn ==
  \A r \in removals : r.by # User =>
    \A t \in torrents : t.id = r.id => t.by = r.by

\* Whoever will still take care of the torrent that cancelled call e inserted.
BeingUndone(e, t) ==
  \/ call[e] \in {"spawned", "awaiting", "returned"}
  \/ [id |-> t.id, by |-> e] \in removals
  \/ t.id \in refused

\* A cancel, however it races with the FFI, the runtime and the engine,
\* leaves no torrent behind that nobody is going to remove
\* (NeoTorrentApp.swift:328-334 and 352-362 together).
NoOrphan ==
  \A t \in torrents : t.by \in cancelled => BeingUndone(t.by, t)

\* No two pending entries are known to be the same torrent: the check of
\* NeoTorrentApp.swift:315-317 and the append are one main-actor job.
OnePendingPerHash ==
  \A p, q \in pendingAdds :
    uriOf[p] \in Magnet /\ uriOf[q] \in Magnet /\ HashOf[uriOf[p]] = HashOf[uriOf[q]] => p = q

\* An id denotes one torrent, across restarts and concurrent adds: no two
\* torrents share one, and an id an add holds for its insertion is neither
\* in the table nor held by another add (session.rs:126-128, 209).
IdsUnambiguous ==
  /\ \A t, v \in torrents : t.id = v.id => t = v
  /\ \A e \in Token : task[e] = "adding" =>
       /\ taskID[e] \notin TorrentIDs
       /\ \A f \in Token \ {e} : task[f] = "adding" => taskID[f] # taskID[e]

\* What has become of each request, and whose removal the user waits for.
Request == [e \in Token |->
  CASE e \in cancelled -> "cancelled"
    [] e \notin cancelled /\ call[e] = "idle" -> "new"
    [] e \in pendingAdds /\ torrentID[e] = NoId -> "open"
    [] e \in pendingAdds /\ torrentID[e] # NoId -> "ready"
    [] OTHER -> "over"]

Listed == {[by |-> t.by, hash |-> t.hash] : t \in torrents}
Doomed == {t.by : t \in {x \in torrents : [id |-> x.id, by |-> User] \in removals}}

Promise == INSTANCE Adding WITH
  request <- Request, list <- Listed, doomed <- Doomed, saved <- pendingURIs

\* All of it keeps what Adding promises, whatever is cancelled, removed,
\* refused or lost in a crash, in whatever order the threads come to it.
KeepsPromise == Promise!Spec

\* "X is already being added" is only said of an add that still is: its call
\* is under way, or its torrent is in the engine (NeoTorrentApp.swift:201-202).
AlreadyAddingIsTrue ==
  [][\A u \in Uri : AddRefused(u) =>
       \E p \in Duplicates(u) : call[p] \in InFFI \/ torrentID[p] \in TorrentIDs]_vars

\* "X is already in your list" is never said of a torrent that the user has
\* cancelled and that is about to go (NeoTorrentApp.swift:201, 335-338).
AlreadyAddedIsTrue ==
  [][\A e \in Token : Resume(e) /\ call'[e] = "alreadyAdded" =>
       \A t \in torrents : t.id = taskID[e] => t.by \notin cancelled]_vars

\* Cancelling an add whose task is in flight aborts it (lib.rs:227).
CancelReachesTask ==
  \A e \in cancelled : task[e] \in Running => e \in aborting

\* A URI of the last launch stays saved until its Task has begun.
ResumedStaysSaved == session = "running" => resumed \subseteq pendingURIs

\* Nothing a cancelled add inserted stays, unless the engine refuses.
CancelledIsUndone ==
  \A e \in Token :
    (\E t \in torrents : e \in cancelled /\ t.by = e)
      ~> (e \notin cancelled \/ \A t \in torrents : t.by = e => t.id \in refused)

\* An entry with an id leaves the pending list once a poll has seen its
\* torrent, unless the torrent went away first.
ResolvedLeavesPending ==
  \A e \in Token :
    (e \in pendingAdds /\ torrentID[e] # NoId)
      ~> (e \notin pendingAdds \/ torrentID[e] \notin TorrentIDs)

-----------------------------------------------------------------------------
(***************************************************************************)
(* The inductive invariant behind the safety properties.                   *)
(***************************************************************************)

\* Nothing of a launch exists before its session does.
NothingBeforeStart ==
  session # "running" =>
    /\ pendingAdds = {} /\ removals = {} /\ cancelled = {} /\ rows = {} /\ poll = NoPoll
    /\ \A e \in Token : call[e] \in {"idle", "lost"}

\* Every call of this launch has its URI.
CallHasUri == \A e \in Token : call[e] \notin {"idle", "lost"} => uriOf[e] \in Uri

\* A task lives from the spawn until the main actor has taken its result.
CallHasTask ==
  \A e \in Token :
    /\ task[e] # "none" <=> call[e] \in {"spawned", "awaiting", "returned"}
    /\ call[e] = "returned" => task[e] \in Finished
    /\ task[e] \in {"adding", "added"} => taskID[e] \in Nat

\* An entry is there for a call in the FFI, without an id, or for an added
\* torrent, with its id; a cancelled one is gone for good.
EntryHasCall ==
  \A e \in Token :
    /\ e \in pendingAdds => call[e] \in InFFI \cup {"added"}
    /\ torrentID[e] # NoId <=> (e \in pendingAdds /\ call[e] = "added")
    /\ e \in cancelled => e \notin pendingAdds /\ call[e] # "idle"

\* Which calls may have a torrent in the table, and under which id.
OwnerKnown ==
  /\ \A t \in torrents :
       \/ task[t.by] = "added" /\ t.id = taskID[t.by]
       \/ call[t.by] \in {"added", "undoing", "cancelled", "lost"}
  /\ \A e \in Token : torrentID[e] # NoId =>
       \A t \in torrents : t.by = e => t.id = torrentID[e]

\* An id in the hands of a call or of its removal is that call's alone.
IdsOwned ==
  /\ \A e \in Token : task[e] = "added" =>
       \A t \in torrents : t.id = taskID[e] => t.by = e
  /\ \A e \in Token : torrentID[e] # NoId =>
       \A t \in torrents : t.id = torrentID[e] => t.by = e
  /\ UndoOnlyOwn

\* Every id handed out is below the counter ...
IdsBelowNext ==
  session = "running" =>
    /\ \A t \in torrents : t.id < nextId
    /\ \A e \in Token : task[e] \in {"adding", "added"} => taskID[e] < nextId
    /\ \A e \in Token : torrentID[e] # NoId => torrentID[e] < nextId
    /\ \A r \in removals : r.by # User => r.id < nextId

\* ... and one waiting for its insertion is in no other hands.
PreferredFresh ==
  \A e \in Token : task[e] = "adding" =>
    /\ taskID[e] \notin TorrentIDs
    /\ \A f \in Token \ {e} : task[f] \in {"adding", "added"} => taskID[f] # taskID[e]
    /\ \A f \in Token : torrentID[f] # taskID[e]
    /\ \A r \in removals : r.by # User => r.id # taskID[e]

TorrentIdsUnique == \A t, v \in torrents : t.id = v.id => t = v

IInv ==
  /\ TypeOK
  /\ NothingBeforeStart
  /\ CallHasUri
  /\ CallHasTask
  /\ EntryHasCall
  /\ OwnerKnown
  /\ IdsOwned
  /\ IdsBelowNext
  /\ PreferredFresh
  /\ TorrentIdsUnique
  /\ NoOrphan
  /\ OnePendingPerHash
  /\ DiskMatchesPending

(***************************************************************************)
(* What the promise rests on besides.                                      *)
(***************************************************************************)

\* A call in the FFI that nobody cancelled has its entry.
CallHasEntry == \A e \in Token : call[e] \in InFFI /\ e \notin cancelled => e \in pendingAdds

\* What is undone was cancelled.
UndoneIsCancelled == \A r \in removals : r.by # User => r.by \in cancelled

\* A call inserts one torrent.
OneTorrentPerCall == \A t, v \in torrents : t.by = v.by => t = v

\* Once an add has begun, the saved list is this launch's.
SavedOnceBegun == (\E e \in Token : call[e] \notin {"idle", "lost"}) => pendingURIs = SavedURIs

\* An id that a poll has seen is not handed out again.
SeenIDs == rows \cup (IF poll = NoPoll THEN {} ELSE poll) \cup RemovingIDs
SeenIsOld ==
  \A id \in SeenIDs : id < nextId /\ \A e \in Token : task[e] = "adding" => taskID[e] # id

PromiseInv ==
  IInv /\ CallHasEntry /\ UndoneIsCancelled /\ OneTorrentPerCall /\ SavedOnceBegun /\ SeenIsOld

=============================================================================
