---------------------------- MODULE CoreSession ----------------------------
(***************************************************************************)
(* neotorrent-core's Session (crates/neotorrent-core/src/session.rs) over  *)
(* the librqbit session it wraps: the managed torrents, the id counter,    *)
(* and the tokio task that NeoTorrentSession.add_torrent spawns for each   *)
(* call and whose body is CoreSession.add.                                 *)
(*                                                                         *)
(* `torrents` is both the librqbit table and its persisted session.json:   *)
(* librqbit writes it on every insertion and deletion, so a restart sees   *)
(* exactly the table (external, session.rs:77-80).  Each torrent carries   *)
(* the token of the call that inserted it; the code never reads that       *)
(* field, it only lets properties say whose torrent is whose.              *)
(***************************************************************************)
EXTENDS Naturals

CONSTANTS
  Token,      \* add calls: one UUID per PendingTorrent
  Uri,        \* what the user adds
  Hash,       \* info hashes
  HashOf,     \* the info hash a URI turns out to have
  Magnet,     \* the URIs whose info hash is known before resolving
  NoId        \* `nil` torrent id

ASSUME UriAssumption == HashOf \in [Uri -> Hash] /\ Magnet \subseteq Uri
ASSUME NoIdAssumption == NoId \notin Nat

VARIABLES
  torrents,   \* librqbit's table, as a set of [id, hash, by]
  nextId,     \* Session.next_id
  task,       \* progress of the tokio task of each call
  taskID,     \* the id it holds: preferred while adding, final once done
  aborting    \* tasks whose AbortHandle was used

coreVars == <<torrents, nextId, task, taskID, aborting>>

Torrent == [id : Nat, hash : Hash, by : Token]

\* "listing" is the list_only pass of session.rs:181-208, "adding" the
\* librqbit call that inserts.
Running  == {"start", "listing", "adding"}
Finished == {"added", "managed", "failed", "aborted"}
TaskState == {"none"} \cup Running \cup Finished

CoreTypeOK ==
  /\ torrents \subseteq Torrent
  /\ nextId \in Nat
  /\ task \in [Token -> TaskState]
  /\ taskID \in [Token -> Nat \cup {NoId}]
  /\ aborting \subseteq Token

CoreInit ==
  /\ torrents = {}
  /\ nextId = 0
  /\ task = [e \in Token |-> "none"]
  /\ taskID = [e \in Token |-> NoId]
  /\ aborting = {}

TorrentIDs == {t.id : t \in torrents}
Managing(h) == {t \in torrents : t.hash = h}

(***************************************************************************)
(* Startup.                                                                *)
(***************************************************************************)

\* Mutant of FirstFreeIds: hand out the largest persisted id again.
FirstFreeIdsOffByOne ==
  IF torrents = {} THEN {0}
  ELSE {t.id : t \in {x \in torrents : \A y \in torrents : y.id <= x.id}}

\* One past the largest persisted id, 0 when nothing is persisted: the set
\* has exactly one element while `torrents` is finite.
FirstFreeIds ==
  IF torrents = {} THEN {0}
  ELSE {t.id + 1 : t \in {x \in torrents : \A y \in torrents : y.id <= x.id}}

CoreStart == nextId' \in FirstFreeIds /\ UNCHANGED <<torrents, task, taskID, aborting>>

\* The process dies: tasks are gone, the persisted table stays.
CoreCrash ==
  /\ nextId' = 0
  /\ task' = [e \in Token |-> "none"]
  /\ taskID' = [e \in Token |-> NoId]
  /\ aborting' = {}
  /\ UNCHANGED torrents

(***************************************************************************)
(* Session.add, as run by the task of call e for URI u.                    *)
(***************************************************************************)

Spawn(e) ==
  /\ task[e] = "none"
  /\ task' = [task EXCEPT ![e] = "start"]
  /\ UNCHANGED <<torrents, nextId, taskID, aborting>>

\* Mutant of TakeId: the id is read but the counter only advances with the
\* table, as librqbit's own numbering does (session.rs:126-127).
TakeIdRacy(e) ==
  /\ nextId' \in FirstFreeIds
  /\ taskID' = [taskID EXCEPT ![e] = nextId']
  /\ task' = [task EXCEPT ![e] = "adding"]

\* next_id.fetch_add, then the librqbit call is under way.
TakeId(e) ==
  /\ taskID' = [taskID EXCEPT ![e] = nextId]
  /\ nextId' = nextId + 1
  /\ task' = [task EXCEPT ![e] = "adding"]

AnswerManaged(e, h) ==
  /\ task' = [task EXCEPT ![e] = "managed"]
  /\ \E t \in Managing(h) : taskID' = [taskID EXCEPT ![e] = t.id]
  /\ UNCHANGED nextId

\* A magnet whose torrent is already managed is answered up front; otherwise
\* an output folder other than the session's asks for a list_only pass first.
TaskCheck(e, u) ==
  /\ task[e] = "start"
  /\ \/ /\ u \in Magnet /\ Managing(HashOf[u]) # {}
        /\ AnswerManaged(e, HashOf[u])
     \/ /\ u \notin Magnet \/ Managing(HashOf[u]) = {}
        /\ \/ TakeId(e)
           \/ /\ task' = [task EXCEPT ![e] = "listing"]
              /\ UNCHANGED <<taskID, nextId>>
  /\ UNCHANGED <<torrents, aborting>>

TaskListed(e) ==
  /\ task[e] = "listing"
  /\ TakeId(e)
  /\ UNCHANGED <<torrents, aborting>>

\* librqbit has the metadata: under its table lock it either finds the info
\* hash or inserts under the preferred id.
TaskInsert(e, u) ==
  /\ task[e] = "adding"
  /\ IF Managing(HashOf[u]) # {}
     THEN AnswerManaged(e, HashOf[u]) /\ UNCHANGED torrents
     ELSE /\ torrents' = torrents \cup {[id |-> taskID[e], hash |-> HashOf[u], by |-> e]}
          /\ task' = [task EXCEPT ![e] = "added"]
          /\ UNCHANGED <<taskID, nextId>>
  /\ UNCHANGED aborting

\* Unreadable .torrent file, failed resolution, refused parameters.
TaskFail(e) ==
  /\ task[e] \in Running
  /\ task' = [task EXCEPT ![e] = "failed"]
  /\ taskID' = [taskID EXCEPT ![e] = NoId]
  /\ UNCHANGED <<torrents, nextId, aborting>>

\* AbortHandle.abort only marks the task; a poll already running may still
\* take the steps above before the task sees it at its next await.
Abort(e) == aborting' = aborting \cup {e}

TaskAborted(e) ==
  /\ e \in aborting
  /\ task[e] \in Running
  /\ task' = [task EXCEPT ![e] = "aborted"]
  /\ taskID' = [taskID EXCEPT ![e] = NoId]
  /\ UNCHANGED <<torrents, nextId, aborting>>

\* The call has its result: the JoinHandle and the task are dropped.
Release(e) ==
  /\ task' = [task EXCEPT ![e] = "none"]
  /\ taskID' = [taskID EXCEPT ![e] = NoId]
  /\ aborting' = aborting \ {e}
  /\ UNCHANGED <<torrents, nextId>>

(***************************************************************************)
(* Session.remove of an id, which fails when librqbit reports an error.    *)
(***************************************************************************)
Delete(id) ==
  /\ torrents' = {t \in torrents : t.id # id}
  /\ UNCHANGED <<nextId, task, taskID, aborting>>

=============================================================================
