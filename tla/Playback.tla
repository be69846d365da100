------------------------------ MODULE Playback ------------------------------
(***************************************************************************)
(* The one player TorrentStore runs: toggling it, removing the torrent it  *)
(* plays, quitting, and the player ending by itself.  Everything but the   *)
(* process runs on the main actor; a process that has ended is reported    *)
(* there by a task its terminationHandler makes.                           *)
(***************************************************************************)
EXTENDS Naturals, FiniteSets

CONSTANTS
  Torrent,      \* torrents with something to play
  MaxLaunches,  \* bound: players started
  None          \* nil

VARIABLES
  playingTorrentID,  \* the torrent whose row shows a stop button, or None
  playingProcess,    \* the player's process, 0 if nil
  proc,              \* state of each process ever started
  media              \* torrents that have a playable URL, from the last refresh

vars == <<playingTorrentID, playingProcess, proc, media>>

Process == 1..MaxLaunches

\* "stopping": told to terminate; "exited": the main actor is not told yet.
ProcState == {"none", "running", "stopping", "exited", "reported"}

TypeOK ==
  /\ playingTorrentID \in Torrent \cup {None}
  /\ playingProcess \in Process \cup {0}
  /\ proc \in [Process -> ProcState]
  /\ media \subseteq Torrent
  /\ (playingTorrentID = None) <=> (playingProcess = 0)

Init ==
  /\ playingTorrentID = None /\ playingProcess = 0
  /\ proc = [p \in Process |-> "none"]
  /\ media \in SUBSET Torrent

\* The processes after stopPlayback; isRunning is also true of one that was
\* told to terminate.
StopProcess == [p \in Process |->
  IF p = playingProcess /\ proc[p] = "running" THEN "stopping" ELSE proc[p]]

Idle == playingTorrentID' = None /\ playingProcess' = 0

StopPlayback == proc' = StopProcess /\ Idle /\ UNCHANGED media

Unused == {p \in Process : proc[p] = "none"}

\* Mutant of Stopped: a new player does not stop the old one.
StoppedKept == proc

Stopped == StopProcess

\* togglePlayback.  Without VLC, or if it does not start, the URL goes to the
\* default application, which is none of ours.
TogglePlayback(id) ==
  \/ (playingTorrentID = id \/ id \notin media) /\ StopPlayback
  \/ /\ playingTorrentID # id /\ id \in media
     /\ \/ \E p \in Unused :
             /\ proc' = [Stopped EXCEPT ![p] = "running"]
             /\ playingProcess' = p /\ playingTorrentID' = id
        \/ proc' = Stopped /\ Idle
     /\ UNCHANGED media

\* remove(id), while its row is shown; applicationShouldTerminate
Remove(id) == playingTorrentID = id /\ StopPlayback
Quit == StopPlayback

\* The player reaches the end, is closed by the user or obeys.
Exit(p) ==
  /\ proc[p] \in {"running", "stopping"}
  /\ proc' = [proc EXCEPT ![p] = "exited"]
  /\ UNCHANGED <<playingTorrentID, playingProcess, media>>

\* Mutant of IsCurrent: nobody listens.
IsCurrentNever(p) == FALSE

\* self.playingProcess === proc
IsCurrent(p) == playingProcess = p

\* The task of terminationHandler.
Report(p) ==
  /\ proc[p] = "exited"
  /\ proc' = [proc EXCEPT ![p] = "reported"]
  /\ IF IsCurrent(p) THEN Idle ELSE UNCHANGED <<playingTorrentID, playingProcess>>
  /\ UNCHANGED media

Click == \E id \in Torrent : TogglePlayback(id) \/ Remove(id)

(***************************************************************************)
(* Properties.                                                             *)
(***************************************************************************)

\* A player that runs and was not told to stop is the one the interface can
\* stop: none is lost when another is started or an old one is reported late.
NoStrayPlayer == \A p \in Process : proc[p] = "running" => playingProcess = p

\* A row says it plays while there is a process that has not ended, or whose
\* end is about to be reported; never for one that was stopped.
PlayingIsReal ==
  playingProcess # 0 => proc[playingProcess] \in {"running", "exited"}

\* A row does not go on saying it plays when the player has ended.
EndIsNoticed ==
  \A p \in Process : (playingProcess = p /\ proc[p] = "exited") ~> playingProcess # p

=============================================================================
