------------------------------- MODULE Adding -------------------------------
(***************************************************************************)
(* What adding a torrent promises the user, without the engine, the FFI,   *)
(* the ids and the polls by which AddTorrent keeps it: a request is open   *)
(* until it has its torrent, fails or is cancelled; a torrent comes into   *)
(* the list by one request and leaves it only when the user asks for that  *)
(* torrent to be removed or has cancelled that request; and what is open   *)
(* is what the next launch would take up again.                            *)
(***************************************************************************)
CONSTANTS Token, Uri, NoUri, Hash, HashOf, Magnet

VARIABLES
  request,  \* what has become of each request
  uriOf,    \* what it asks for, in this launch
  list,     \* the torrents, each with the request that brought it
  doomed,   \* requests whose torrent the user wants removed
  saved     \* URIs kept for the next launch

vars == <<request, uriOf, list, doomed, saved>>

Torrent == [by : Token, hash : Hash]

Init ==
  /\ request = [e \in Token |-> "new"]
  /\ uriOf = [e \in Token |-> NoUri]
  /\ list = {} /\ doomed = {} /\ saved = {}

Save == saved' = {uriOf'[e] : e \in {f \in Token : request'[f] = "open"}}

SameMagnet(u, v) == u \in Magnet /\ v \in Magnet /\ HashOf[u] = HashOf[v]

\* No request is made for a magnet that is still pending.
Begin(e, u) ==
  /\ request[e] = "new"
  /\ \A f \in Token : request[f] \in {"open", "ready"} => ~SameMagnet(u, uriOf[f])
  /\ request' = [request EXCEPT ![e] = "open"]
  /\ uriOf' = [uriOf EXCEPT ![e] = u]
  /\ Save /\ UNCHANGED <<list, doomed>>

\* A request brings one torrent, which may come when it is already cancelled;
\* no torrent comes twice.
Bring(e) ==
  /\ request[e] \in {"open", "cancelled"}
  /\ \A t \in list : t.by # e /\ t.hash # HashOf[uriOf[e]]
  /\ list' = list \cup {[by |-> e, hash |-> HashOf[uriOf[e]]]}
  /\ UNCHANGED <<request, uriOf, doomed, saved>>

\* Added, failed, already there, or cancelled by the user.
Settle(e) ==
  /\ request[e] \in {"open", "ready"}
  /\ \/ request[e] = "open" /\ request' = [request EXCEPT ![e] = "ready"]
     \/ request[e] = "open" /\ request' = [request EXCEPT ![e] = "over"]
     \/ request' = [request EXCEPT ![e] = "cancelled"]
  /\ Save /\ UNCHANGED <<uriOf, list, doomed>>

\* The list shows the torrents: their requests need no row any more.
Shown ==
  /\ \E P \in SUBSET {e \in Token : request[e] = "ready"} :
       request' = [e \in Token |-> IF e \in P THEN "over" ELSE request[e]]
  /\ UNCHANGED <<uriOf, list, doomed, saved>>

AskRemoval(t) ==
  /\ doomed' = doomed \cup {t.by}
  /\ UNCHANGED <<request, uriOf, list, saved>>

Leave(t) ==
  /\ t.by \in doomed \/ request[t.by] = "cancelled"
  /\ list' = list \ {t} /\ doomed' = doomed \ {t.by}
  /\ UNCHANGED <<request, uriOf, saved>>

\* The engine refuses the removal.
Spare(t) ==
  /\ doomed' = doomed \ {t.by}
  /\ UNCHANGED <<request, uriOf, list, saved>>

Restart ==
  /\ request' = [e \in Token |-> IF request[e] = "new" THEN "new" ELSE "over"]
  /\ uriOf' = [e \in Token |-> NoUri]
  /\ doomed' = {}
  /\ UNCHANGED <<list, saved>>

\* Most of the steps that keep this promise are not seen here.
Unseen == UNCHANGED vars

Next ==
  \/ Unseen
  \/ \E e \in Token : Bring(e) \/ Settle(e) \/ \E u \in Uri : Begin(e, u)
  \/ \E t \in list : AskRemoval(t) \/ Leave(t) \/ Spare(t)
  \/ Shown \/ Restart

Spec == Init /\ [][Next]_vars

=============================================================================
