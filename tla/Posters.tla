------------------------------ MODULE Posters ------------------------------
(***************************************************************************)
(* The poster of one torrent: PosterStore with the parts of TorrentStore   *)
(* that drive it (refresh, poll, apply, remove).  A frame is taken from    *)
(* the torrent's largest video by a detached task and kept in memory and   *)
(* in a file named after the info hash, which outlives the program.        *)
(***************************************************************************)
EXTENDS Naturals

CONSTANT MaxAttempts  \* PosterStore.maxAttempts, 5

ASSUME AttemptsAssumption == MaxAttempts \in Nat \ {0}

VARIABLES
  managed,   \* the engine has the torrent
  ready,     \* its video is there and has some data
  listed,    \* it is in TorrentStore.torrents
  removal,   \* TorrentStore.remove: asked, done by the engine, or not going on
  refresh,   \* the newest refresh: started, with or without wanting a poster;
             \* read, with or without a source for one
  present,   \* the torrent was in what it read
  image,     \* PosterStore.images has it
  file,      \* <info hash>.jpg exists
  inFlight, attempts, cooling,  \* PosterStore; cooling: nextRetry is to come
  gens,      \* generate tasks that run, by what they have to say so far
  late       \* history: a removal met work for the poster that was under way

storeVars == <<managed, ready, removal>>
refreshVars == <<refresh, present, listed>>
posterVars == <<image, file, inFlight, attempts, cooling, gens>>
allVars == <<storeVars, refreshVars, posterVars, late>>

PostersTypeOK ==
  /\ managed \in BOOLEAN /\ ready \in BOOLEAN /\ listed \in BOOLEAN
  /\ removal \in {"none", "asked", "removed"}
  /\ refresh \in {"none", "plain", "wanting", "sourceless", "source"} /\ present \in BOOLEAN
  /\ image \in BOOLEAN /\ file \in BOOLEAN /\ inFlight \in BOOLEAN /\ cooling \in BOOLEAN
  /\ attempts \in 0..MaxAttempts
  /\ gens \in [running : Nat, made : Nat, failed : Nat]
  /\ late \in BOOLEAN

Working == gens.running + gens.made + gens.failed

PostersInit ==
  /\ managed \in BOOLEAN /\ ready \in BOOLEAN /\ file \in BOOLEAN
  /\ file => managed
  /\ listed = FALSE /\ removal = "none" /\ refresh = "none" /\ present = FALSE
  /\ image = FALSE /\ inFlight = FALSE /\ attempts = 0 /\ cooling = FALSE
  /\ gens = [running |-> 0, made |-> 0, failed |-> 0]
  /\ late = FALSE

\* Mutant of Wants: what is under way is not looked at.
WantsAnyway == ~image /\ attempts < MaxAttempts /\ ~cooling

\* wantsPoster
Wants == ~image /\ ~inFlight /\ attempts < MaxAttempts /\ ~cooling

RefreshStart ==
  /\ refresh' = IF listed /\ Wants THEN "wanting" ELSE "plain"
  /\ UNCHANGED <<storeVars, present, listed, posterVars, late>>

Poll ==
  /\ refresh \in {"plain", "wanting"}
  /\ present' = managed
  /\ refresh' = IF refresh = "wanting" /\ managed /\ ready THEN "source" ELSE "sourceless"
  /\ UNCHANGED <<storeVars, listed, posterVars, late>>

\* ensure: from the file, if there is one, or by a task.
Ensure ==
  IF ~Wants THEN UNCHANGED posterVars
  ELSE IF file
  THEN image' = TRUE /\ UNCHANGED <<file, inFlight, attempts, cooling, gens>>
  ELSE /\ inFlight' = TRUE /\ attempts' = attempts + 1
       /\ gens' = [gens EXCEPT !.running = @ + 1]
       /\ UNCHANGED <<image, file, cooling>>

ApplyRefresh ==
  /\ refresh \in {"sourceless", "source"}
  /\ refresh' = "none"
  /\ listed' = (present /\ removal = "none")
  /\ IF refresh = "source" THEN Ensure ELSE UNCHANGED posterVars
  /\ UNCHANGED <<storeVars, present, late>>

\* generate: the frame is there, and, if it can be written, the file; or not.
Generate ==
  /\ gens.running > 0
  /\ \/ /\ gens' = [gens EXCEPT !.running = @ - 1, !.made = @ + 1]
        /\ file' \in {file, TRUE}
     \/ gens' = [gens EXCEPT !.running = @ - 1, !.failed = @ + 1] /\ UNCHANGED file
  /\ UNCHANGED <<storeVars, refreshVars, image, inFlight, attempts, cooling, late>>

\* Mutant of TaskOver: a failure is not the end.
TaskOverIfMade == inFlight' = (gens.made = 0)

TaskOver == inFlight' = FALSE

GenerateReturns ==
  /\ TaskOver
  /\ \/ /\ gens.made > 0 /\ gens' = [gens EXCEPT !.made = @ - 1]
        /\ image' = TRUE /\ cooling' = FALSE
     \/ /\ gens.failed > 0 /\ gens' = [gens EXCEPT !.failed = @ - 1]
        /\ cooling' = TRUE /\ UNCHANGED image
  /\ UNCHANGED <<storeVars, refreshVars, file, attempts, late>>

\* 30 s are over.
CoolDown ==
  /\ cooling /\ cooling' = FALSE
  /\ UNCHANGED <<storeVars, refreshVars, image, file, inFlight, attempts, gens, late>>

(***************************************************************************)
(* The torrent comes and goes.                                             *)
(***************************************************************************)

\* The user adds it, for the first time or after a removal is through.
Add ==
  /\ ~managed /\ removal = "none"
  /\ managed' = TRUE /\ UNCHANGED <<ready, removal, refreshVars, posterVars, late>>

Downloaded == managed /\ ~ready /\ ready' = TRUE
              /\ UNCHANGED <<managed, removal, refreshVars, posterVars, late>>

RemoveStart ==
  /\ listed /\ removal = "none"
  /\ removal' = "asked" /\ listed' = FALSE
  /\ UNCHANGED <<managed, ready, refresh, present, posterVars, late>>

\* The engine forgets the torrent, with its files or without; or refuses, as it
\* does when it has no such torrent.
EngineRemoves ==
  /\ removal = "asked"
  /\ \/ managed /\ managed' = FALSE /\ ready' \in {ready, FALSE} /\ removal' = "removed"
     \/ removal' = "none" /\ UNCHANGED <<managed, ready>>
  /\ UNCHANGED <<refreshVars, posterVars, late>>

\* Mutant of ForgetFile: the file is left.
ForgetFileNever == UNCHANGED file

ForgetFile == file' = FALSE

\* PosterStore.remove
RemoveReturns ==
  /\ removal = "removed" /\ removal' = "none"
  /\ image' = FALSE /\ attempts' = 0 /\ cooling' = FALSE /\ ForgetFile
  /\ late' = (late \/ Working > 0 \/ refresh = "source")
  /\ UNCHANGED <<managed, ready, refreshVars, inFlight, gens>>

\* The program ends and is started again.
Restart ==
  /\ listed' = FALSE /\ removal' = "none" /\ refresh' = "none" /\ present' = FALSE
  /\ image' = FALSE /\ inFlight' = FALSE /\ attempts' = 0 /\ cooling' = FALSE
  /\ gens' = [running |-> 0, made |-> 0, failed |-> 0]
  /\ late' = (late \/ removal = "removed")
  /\ UNCHANGED <<managed, ready, file>>

PostersNext ==
  \/ RefreshStart \/ Poll \/ ApplyRefresh
  \/ Generate \/ GenerateReturns \/ CoolDown
  \/ Add \/ Downloaded
  \/ RemoveStart \/ EngineRemoves \/ RemoveReturns
  \/ Restart

PostersSpec == PostersInit /\ [][PostersNext]_allVars

\* Refreshes run on, one a second, and take far less than that; so do tasks and
\* the clock.  A restart may come at any time, and need not.
PostersFairSpec ==
  /\ PostersSpec
  /\ WF_allVars(RefreshStart) /\ WF_allVars(Poll) /\ SF_allVars(ApplyRefresh)
  /\ WF_allVars(Generate) /\ WF_allVars(GenerateReturns) /\ WF_allVars(CoolDown)

(***************************************************************************)
(* Properties.                                                             *)
(***************************************************************************)

\* However refreshes overlap with the tasks they start, one frame is made at a
\* time, and inFlight says so (NeoTorrentApp.swift:486).
OneGeneration == Working <= 1 /\ (inFlight <=> Working = 1)

\* A torrent that stays and has a video gets a poster in the end and keeps it,
\* or uses the attempts of its last launch up: neither a failure, nor a restart
\* or a removal in the middle of a frame, keeps it from being tried again
\* (NeoTorrentApp.swift:486-513).
PosterSettles ==
  <>[](managed /\ ready /\ removal = "none") /\ <>[][~Restart]_allVars
    => <>[](image \/ attempts = MaxAttempts)

\* A removed torrent leaves no poster behind, neither in memory nor on disk,
\* unless the removal met work for it that was under way, or the program ended
\* in the middle of it.
NoPosterLeft == (~managed /\ removal = "none" /\ ~late) => ~image /\ ~file

\* The types, with attempts that are bounded, one frame at a time, and no
\* poster of a torrent that is gone.
PostersInv == PostersTypeOK /\ OneGeneration /\ NoPosterLeft

=============================================================================
