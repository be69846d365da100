----------------------------- MODULE TorrentRow -----------------------------
(***************************************************************************)
(* A torrent's row: its files are chosen (FileSelection) while it or       *)
(* another torrent is played (Playback).  What a row can play is a file    *)
(* that was selected when the last refresh looked.                         *)
(***************************************************************************)
EXTENDS FileSelection

CONSTANTS
  Media,        \* the files with a media extension
  This, Others, \* the torrent whose files these are; others, always playable
  None,         \* nil
  MaxLaunches   \* bound: players started

ASSUME RowAssumption ==
  /\ Media \subseteq File /\ This \notin Others /\ None \notin Others \cup {This}
  /\ MaxLaunches \in Nat

VARIABLES
  playingTorrentID, playingProcess, proc,
  session,  \* there is one
  quitting  \* the program was asked to quit, and has

playerVars == <<playingTorrentID, playingProcess, proc>>
rowVars == <<vars, playerVars, session, quitting>>

\* The files to play; which is the largest makes no difference here.
LargestPlayableMedia(sel) == sel \cap Media

\* playableURLs after the last refresh
Playable == Others \cup IF LargestPlayableMedia(shown) # {} THEN {This} ELSE {}

Player == INSTANCE Playback WITH Torrent <- {This} \cup Others, media <- Playable

RowInit == Init /\ Player!Init /\ session \in BOOLEAN /\ quitting = "no"

\* A user who waits until the last click shows before clicking again.
PatientUser == shown = wanted /\ User

Process == 1..MaxLaunches
OnFiles == UNCHANGED <<playerVars, session, quitting>>
OnPlayers == UNCHANGED <<vars, session, quitting>>

\* Rows take clicks until the program is asked to quit; without a session
\* there are none.  Tasks go on until it has quit, players beyond that.
Choose == session /\ quitting = "no" /\ PatientUser /\ OnFiles
Refresh == session /\ quitting # "gone" /\ System /\ OnFiles
Play == session /\ quitting = "no" /\ OnPlayers /\ Player!Click
Report(p) == quitting # "gone" /\ OnPlayers /\ Player!Report(p)
Exit(p) == OnPlayers /\ Player!Exit(p)

\* applicationShouldTerminate: now, or when either of two tasks replies.
Quit ==
  /\ quitting = "no" /\ UNCHANGED <<vars, session>> /\ Player!Quit
  /\ quitting' = IF session THEN "asked" ELSE "gone"

Reply == quitting = "asked" /\ quitting' = "gone" /\ UNCHANGED <<vars, playerVars, session>>

\* The engine need not stop.
ShutdownReturns == session /\ Reply

\* Mutant of ThreeSeconds: quitting waits for the engine.
ThreeSecondsNever == FALSE

ThreeSeconds == Reply

Gone == quitting = "gone" /\ UNCHANGED rowVars

RowNext ==
  \/ Choose \/ Refresh \/ Play \/ Quit \/ ShutdownReturns \/ ThreeSeconds \/ Gone
  \/ \E p \in Process : Report(p) \/ Exit(p)

\* The main actor gets to its tasks; a player told to terminate does; and a
\* timer fires.
RowFairness ==
  /\ \A p \in Process : WF_rowVars(Report(p)) /\ WF_rowVars(proc[p] = "stopping" /\ Exit(p))
  /\ WF_rowVars(ThreeSeconds)

RowSpec == RowInit /\ [][RowNext]_rowVars /\ RowFairness

(***************************************************************************)
(* Properties.                                                             *)
(***************************************************************************)

\* The types of both parts, and, whatever is deselected, removed or replaced
\* while it plays: a player that was not told to stop is the one the interface
\* can stop, and no row says it plays what was stopped (see Playback); and the
\* engine downloads what the user chose (see FileSelection).
RowInv ==
  /\ TypeOK /\ Player!TypeOK
  /\ Player!NoStrayPlayer /\ Player!PlayingIsReal
  /\ SelectionIsWanted

\* A player that ended is noticed, also when its file was deselected or its
\* torrent removed meanwhile; see Playback.
EndIsNoticed == Player!EndIsNoticed

\* "never hold up quitting for long" (NeoTorrentApp.swift:44): the program
\* quits, whether or not the engine stops, and leaves no player behind, not
\* even one that it had told to stop before.
QuitIsAnswered ==
  quitting = "asked" ~> (quitting = "gone" /\ \A p \in Process : proc[p] \notin {"running", "stopping"})

=============================================================================
