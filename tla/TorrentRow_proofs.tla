-------------------------- MODULE TorrentRow_proofs --------------------------
(***************************************************************************)
(* What the app shows of a torrent.  Its row (TorrentRow), for any files,  *)
(* torrents and number of clicks: the two parts share the row and no       *)
(* variable, so each has an invariant of its own.  Its poster (Posters),   *)
(* for every bound on the attempts: none is left behind because a torrent  *)
(* that is gone has no work under way either, neither a task that makes    *)
(* its frame nor a refresh that has found a source.                        *)
(***************************************************************************)
EXTENDS TorrentRow, Posters, TLAPS

Settled == \A c \in Change : call[c] # "sent"

\* A user who waits has at most one change under way, and nothing that was
\* read from the engine before it, or is read while it lasts, looks like what
\* that change asks for: the row does not show it too early.
SelectionInv ==
  ~refused =>
    /\ Settled => selected = wanted
    /\ Settled /\ shown = wanted => poll.read \in {{}, wanted}
    /\ \A c \in Change : call[c] = "sent" =>
         /\ \A d \in Change : call[d] = "sent" => d = c
         /\ indices[c] = wanted
         /\ wanted \notin {selected, shown, poll.read}

\* librqbit is never asked for an empty selection.
NeverEmpty == \A c \in Change : call[c] # "none" => indices[c] # {}

FilesInv == TypeOK /\ NeverEmpty /\ SelectionInv

PlayersInv == Player!TypeOK /\ Player!NoStrayPlayer /\ Player!PlayingIsReal

(***************************************************************************)
(* The files.                                                              *)
(***************************************************************************)

LEMMA InitFiles == RowInit => FilesInv
<1>. SUFFICES ASSUME RowInit PROVE FilesInv  OBVIOUS
<1>1. refused \in BOOLEAN  BY DEF RowInit, Init
<1>2. /\ selected \in Selection /\ shown = selected /\ wanted = selected
      /\ call = [c \in Change |-> "none"] /\ indices = [c \in Change |-> {}]
      /\ poll = [open |-> FALSE, read |-> {}]
  BY DEF RowInit, Init, NoPoll
<1>3. TypeOK  BY <1>1, <1>2 DEF TypeOK
<1>4. SelectionInv  BY <1>2 DEF SelectionInv, Settled
<1>5. NeverEmpty  BY <1>2 DEF NeverEmpty
<1>. QED BY <1>3, <1>4, <1>5 DEF FilesInv

\* A click of a user who waits: what it asks for is what the user wants, and
\* nothing shows or holds it yet.
LEMMA ClickStep ==
  ASSUME FilesInv, NEW c \in Change, NEW f \in File, shown = wanted, SetFile(c, f)
  PROVE  FilesInv'
<1> DEFINE W == With(shown, f, f \notin shown)
<1>1. /\ call[c] = "none" /\ W # {}
      /\ indices' = [indices EXCEPT ![c] = W] /\ wanted' = W
      /\ call' = [call EXCEPT ![c] = "sent"]
      /\ selected' = selected /\ shown' = shown /\ poll' = poll
  BY DEF SetFile, Allowed, With
<1>2. refused' = refused  BY Zenon DEF SetFile
<1>3. /\ wanted \in Selection
      /\ call \in [Change -> {"none", "sent", "answered", "done"}]
      /\ indices \in [Change -> SUBSET File]
  BY DEF FilesInv, TypeOK
<1>4. W \in Selection /\ W # shown  BY <1>1, <1>3 DEF With, Selection
<1>5. TypeOK'
  <2>1. refused' \in BOOLEAN  BY <1>2, Zenon DEF FilesInv, TypeOK
  <2>2. wanted' \in Selection /\ indices' \in [Change -> SUBSET File]
        /\ call' \in [Change -> {"none", "sent", "answered", "done"}]
    BY <1>1, <1>3, <1>4 DEF Selection
  <2>. QED BY <1>1, <2>1, <2>2 DEF FilesInv, TypeOK
<1>6. ASSUME ~refused
      PROVE  Settled /\ selected = wanted /\ poll.read \in {{}, wanted}
  BY <1>6 DEF FilesInv, SelectionInv, Settled
<1>. HIDE DEF W
<1>7. NeverEmpty'  BY <1>1, <1>3 DEF FilesInv, NeverEmpty
<1>8. SelectionInv'
  <2>. SUFFICES ASSUME ~refused
                PROVE  /\ ~Settled'
                       /\ \A d \in Change : call'[d] = "sent" => d = c
                       /\ indices'[c] = W /\ W \notin {selected, shown, poll.read}
    BY <1>1, <1>2 DEF SelectionInv
  <2>1. W \notin {selected, shown, poll.read}  BY <1>1, <1>4, <1>6
  <2>2. ~Settled' /\ \A d \in Change : call'[d] = "sent" => d = c
    BY <1>1, <1>3, <1>6 DEF Settled
  <2>. QED BY <1>1, <1>3, <2>1, <2>2
<1>. QED BY <1>5, <1>7, <1>8 DEF FilesInv

\* The engine takes the change or refuses it.
LEMMA AnswerStep ==
  ASSUME FilesInv, NEW c \in Change, Answer(c)
  PROVE  FilesInv'
<1>1. /\ call[c] = "sent" /\ call' = [call EXCEPT ![c] = "answered"]
      /\ selected' = indices[c] \/ selected' = selected
      /\ shown' = shown /\ indices' = indices /\ poll' = poll /\ wanted' = wanted
  BY DEF Answer
<1>2. (refused' <=> TRUE) \/ (selected' = indices[c] /\ (refused' <=> refused))
  BY DEF Answer
<1>3. /\ call \in [Change -> {"none", "sent", "answered", "done"}]
      /\ wanted \in Selection /\ selected \in Selection
      /\ indices \in [Change -> SUBSET File] /\ indices[c] # {}
  BY <1>1 DEF FilesInv, TypeOK, NeverEmpty
<1>4. TypeOK'
  <2>1. refused' \in BOOLEAN  BY Zenon DEF Answer, FilesInv, TypeOK
  <2>2. selected' \in Selection
        /\ call' \in [Change -> {"none", "sent", "answered", "done"}]
    BY <1>1, <1>3 DEF Selection
  <2>. QED BY <1>1, <2>1, <2>2 DEF FilesInv, TypeOK
<1>5. NeverEmpty'  BY <1>1, <1>3 DEF FilesInv, NeverEmpty
<1>6. SelectionInv'
  <2>. SUFFICES ASSUME ~refused, ~refused' PROVE SelectionInv'
    <3>1. CASE refused'  BY <3>1 DEF SelectionInv
    <3>2. CASE refused  BY <3>2, <1>2 DEF SelectionInv
    <3>. QED BY <3>1, <3>2
  <2>1. selected' = indices[c]  BY <1>2
  <2>2. /\ indices[c] = wanted /\ \A d \in Change : call[d] = "sent" => d = c
        /\ wanted \notin {shown, poll.read}
    BY <1>1 DEF FilesInv, SelectionInv
  <2>3. \A d \in Change : call'[d] # "sent"  BY <1>1, <1>3, <2>2
  <2>. QED BY <1>1, <2>1, <2>2, <2>3 DEF SelectionInv, Settled
<1>. QED BY <1>4, <1>5, <1>6 DEF FilesInv

\* Refreshes, and the end of a change, which starts one.
LEMMA RefreshStep ==
  ASSUME FilesInv, TimerRefresh \/ Read \/ Apply \/ \E c \in Change : Done(c)
  PROVE  FilesInv'
<1>1. /\ selected' = selected /\ indices' = indices /\ wanted' = wanted
      /\ \/ call' = call
         \/ \E c \in Change : call[c] = "answered" /\ call' = [call EXCEPT ![c] = "done"]
      /\ \/ shown' = shown /\ poll' = [open |-> TRUE, read |-> {}]
         \/ shown' = shown /\ poll' = [poll EXCEPT !.read = selected]
         \/ shown' = poll.read /\ poll.read # {} /\ poll' = [open |-> FALSE, read |-> {}]
  BY DEF TimerRefresh, Read, Apply, Done, StartPoll, NoPoll
<1>2. refused' = refused  BY Zenon DEF TimerRefresh, Read, Apply, Done
<1>3. /\ call \in [Change -> {"none", "sent", "answered", "done"}]
      /\ selected \in Selection /\ shown \in Selection
      /\ poll \in [open : BOOLEAN, read : SUBSET File]
      /\ wanted \in Selection
  BY DEF FilesInv, TypeOK
<1>4. \/ shown' = shown /\ poll'.read \in {{}, selected}
      \/ shown' = poll.read /\ poll'.read = {} /\ poll.read # {}
  BY <1>1, <1>3
<1>5. /\ call' \in [Change -> {"none", "sent", "answered", "done"}]
      /\ \A c \in Change : /\ call'[c] = "sent" <=> call[c] = "sent"
                           /\ call'[c] = "none" <=> call[c] = "none"
  BY <1>1, <1>3
<1>6. TypeOK'
  <2>1. refused' \in BOOLEAN  BY <1>2, Zenon DEF FilesInv, TypeOK
  <2>2. shown' \in Selection
    <3>1. poll.read \in SUBSET File  BY <1>3
    <3>. QED BY <1>1, <1>3, <3>1 DEF Selection
  <2>3. poll' \in [open : BOOLEAN, read : SUBSET File]
    <3>1. [open |-> TRUE, read |-> {}] \in [open : BOOLEAN, read : SUBSET File]
      OBVIOUS
    <3>2. [open |-> FALSE, read |-> {}] \in [open : BOOLEAN, read : SUBSET File]
      OBVIOUS
    <3>3. [poll EXCEPT !.read = selected] \in [open : BOOLEAN, read : SUBSET File]
      BY <1>3 DEF Selection
    <3>. QED BY <1>1, <3>1, <3>2, <3>3
  <2>. QED BY <1>1, <1>5, <2>1, <2>2, <2>3 DEF FilesInv, TypeOK
<1>7. NeverEmpty'  BY <1>1, <1>5 DEF FilesInv, NeverEmpty
<1>8. Settled' <=> Settled  BY <1>5 DEF Settled
<1>9. SelectionInv'
  <2>. SUFFICES ASSUME ~refused
                PROVE  /\ Settled => selected = wanted
                       /\ Settled /\ shown' = wanted => poll'.read \in {{}, wanted}
                       /\ \A c \in Change : call[c] = "sent" =>
                            /\ \A d \in Change : call[d] = "sent" => d = c
                            /\ indices[c] = wanted
                            /\ wanted \notin {selected, shown', poll'.read}
    BY <1>1, <1>2, <1>5, <1>8 DEF SelectionInv
  <2>1. /\ Settled => selected = wanted
        /\ \A c \in Change : call[c] = "sent" =>
             /\ \A d \in Change : call[d] = "sent" => d = c
             /\ indices[c] = wanted
             /\ wanted \notin {selected, shown, poll.read}
    BY DEF FilesInv, SelectionInv
  <2>. QED BY <1>3, <1>4, <2>1 DEF Selection
<1>. QED BY <1>6, <1>7, <1>9 DEF FilesInv

LEMMA SameFiles == FilesInv /\ UNCHANGED vars => FilesInv'
<1>. SUFFICES ASSUME FilesInv, UNCHANGED vars PROVE FilesInv'  OBVIOUS
<1>1. /\ selected' = selected /\ shown' = shown /\ call' = call /\ indices' = indices
      /\ poll' = poll /\ wanted' = wanted
  BY DEF vars
<1>2. refused' = refused  BY Zenon DEF vars
<1>3. refused' \in BOOLEAN  BY <1>2, Zenon DEF FilesInv, TypeOK
<1>. QED BY <1>1, <1>2, <1>3 DEF FilesInv, TypeOK, NeverEmpty, SelectionInv, Settled

(***************************************************************************)
(* The player.                                                             *)
(***************************************************************************)

LEMMA InitPlayers == RowInit => PlayersInv
BY RowAssumption
DEF RowInit, Player!Init, PlayersInv, Player!TypeOK, Player!NoStrayPlayer,
    Player!PlayingIsReal, Player!Process, Player!ProcState, Playable

\* What was running is told to stop, so nothing runs but what is started then.
LEMMA Stopping ==
  ASSUME PlayersInv
  PROVE  /\ Player!StopProcess \in [Process -> Player!ProcState]
         /\ \A p \in Process : Player!StopProcess[p] # "running"
  BY DEF PlayersInv, Player!TypeOK, Player!NoStrayPlayer, Player!StopProcess,
     Player!Process, Process, Player!ProcState

LEMMA StopStep ==
  ASSUME PlayersInv, Player!StopPlayback
  PROVE  PlayersInv'
<1>1. /\ proc' = Player!StopProcess /\ playingTorrentID' = None /\ playingProcess' = 0
      /\ Playable' = Playable
  BY DEF Player!StopPlayback, Player!Idle
<1>. QED
  BY <1>1, Stopping
  DEF PlayersInv, Player!TypeOK, Player!NoStrayPlayer, Player!PlayingIsReal, Player!Process, Process

LEMMA ToggleStep ==
  ASSUME PlayersInv, NEW id \in {This} \cup Others, Player!TogglePlayback(id)
  PROVE  PlayersInv'
<1>1. CASE Player!StopPlayback  BY <1>1, StopStep
<1>2. ASSUME NEW p \in Player!Unused,
             proc' = [Player!Stopped EXCEPT ![p] = "running"],
             playingProcess' = p, playingTorrentID' = id, Playable' = Playable
      PROVE  PlayersInv'
  <2>1. p \in Process /\ p # 0 /\ id # None
    BY RowAssumption DEF Player!Unused, Player!Process, Process
  <2>2. /\ proc' \in [Process -> Player!ProcState] /\ proc'[p] = "running"
        /\ \A q \in Process : proc'[q] = "running" => q = p
    BY <1>2, <2>1, Stopping DEF Player!Stopped, Player!ProcState
  <2>. QED
    BY <1>2, <2>1, <2>2
    DEF PlayersInv, Player!TypeOK, Player!NoStrayPlayer, Player!PlayingIsReal, Player!Process, Process
<1>3. CASE proc' = Player!Stopped /\ Player!Idle /\ Playable' = Playable
  BY <1>3, StopStep DEF Player!StopPlayback, Player!Stopped
<1>. QED BY <1>1, <1>2, <1>3 DEF Player!TogglePlayback

\* A player ends, and its end is reported.
LEMMA EndStep ==
  ASSUME PlayersInv, NEW p \in Process, Player!Exit(p) \/ Player!Report(p)
  PROVE  PlayersInv'
<1>1. /\ proc \in [Process -> Player!ProcState] /\ Playable \subseteq {This} \cup Others
      /\ playingTorrentID \in {This} \cup Others \cup {None} /\ playingProcess \in Process \cup {0}
      /\ (playingTorrentID = None) <=> (playingProcess = 0)
      /\ p # 0
  BY DEF PlayersInv, Player!TypeOK, Player!Process, Process
<1>2. CASE Player!Exit(p)
  BY <1>1, <1>2
  DEF Player!Exit, PlayersInv, Player!TypeOK, Player!NoStrayPlayer, Player!PlayingIsReal,
      Player!Process, Process, Player!ProcState
<1>3. CASE Player!Report(p)
  <2>1. /\ proc[p] = "exited" /\ proc' = [proc EXCEPT ![p] = "reported"] /\ Playable' = Playable
        /\ \/ playingProcess = p /\ playingTorrentID' = None /\ playingProcess' = 0
           \/ /\ playingProcess # p
              /\ playingTorrentID' = playingTorrentID /\ playingProcess' = playingProcess
    BY <1>3 DEF Player!Report, Player!IsCurrent, Player!Idle
  <2>. QED
    BY <1>1, <2>1
    DEF PlayersInv, Player!TypeOK, Player!NoStrayPlayer, Player!PlayingIsReal,
        Player!Process, Process, Player!ProcState
<1>. QED BY <1>2, <1>3

\* Whatever is selected, what can be played is one of the torrents.
LEMMA SamePlayers == PlayersInv /\ UNCHANGED playerVars => PlayersInv'
BY DEF playerVars, PlayersInv, Player!TypeOK, Player!NoStrayPlayer, Player!PlayingIsReal,
   Player!Process, Playable

(***************************************************************************)
(* The row.                                                                *)
(***************************************************************************)

LEMMA RowStep == FilesInv /\ PlayersInv /\ [RowNext]_rowVars => FilesInv' /\ PlayersInv'
<1>. SUFFICES ASSUME FilesInv, PlayersInv, [RowNext]_rowVars PROVE FilesInv' /\ PlayersInv'
  OBVIOUS
<1>1. CASE Choose
  BY <1>1, ClickStep, SamePlayers DEF Choose, PatientUser, User, OnFiles
<1>2. CASE Refresh
  BY <1>2, AnswerStep, RefreshStep, SamePlayers DEF Refresh, System, Step, OnFiles
<1>3. CASE Play
  BY <1>3, SameFiles, ToggleStep, StopStep DEF Play, OnPlayers, Player!Click, Player!Remove
<1>4. ASSUME NEW p \in Process, Report(p) \/ Exit(p) PROVE FilesInv' /\ PlayersInv'
  BY <1>4, SameFiles, EndStep DEF Report, Exit, OnPlayers
<1>5. CASE Quit
  BY <1>5, SameFiles, StopStep DEF Quit, Player!Quit
<1>6. CASE ShutdownReturns \/ ThreeSeconds \/ Gone \/ UNCHANGED rowVars
  BY <1>6, SameFiles, SamePlayers DEF ShutdownReturns, ThreeSeconds, Reply, Gone, rowVars
<1>. QED BY <1>1, <1>2, <1>3, <1>4, <1>5, <1>6 DEF RowNext

THEOREM Invariance == RowSpec => [](FilesInv /\ PlayersInv)
BY InitFiles, InitPlayers, RowStep, PTL DEF RowSpec

\* The whole of RowInv, for any files, torrents and number of clicks: the
\* engine downloads what a user who waits has chosen, and the player that runs
\* is the one the interface can stop.
THEOREM RowIsSound == RowSpec => []RowInv
<1>1. FilesInv => SelectionIsWanted
  <2>. SUFFICES ASSUME FilesInv, ~refused, \A c \in Change : call[c] \in {"none", "answered", "done"}
                PROVE  selected = wanted
    BY DEF SelectionIsWanted
  <2>1. Settled  BY DEF Settled
  <2>. QED BY <2>1 DEF FilesInv, SelectionInv
<1>2. FilesInv /\ PlayersInv => RowInv
  BY <1>1 DEF FilesInv, PlayersInv, RowInv
<1>. QED BY <1>2, Invariance, PTL

(***************************************************************************)
(* The poster.                                                             *)
(***************************************************************************)

\* Nothing is there of a torrent that is gone, and nothing will be.
Clean ==
  ~managed /\ removal # "removed" /\ ~late =>
    ~image /\ ~file /\ Working = 0 /\ refresh # "source"

PostersIInv == PostersTypeOK /\ OneGeneration /\ Clean

\* A task that has made its frame, or has failed to, still runs.
LEMMA GenerateCounts ==
  ASSUME NEW g \in [running : Nat, made : Nat, failed : Nat], g.running > 0,
         NEW h,
         \/ h = [g EXCEPT !.running = @ - 1, !.made = @ + 1]
         \/ h = [g EXCEPT !.running = @ - 1, !.failed = @ + 1]
  PROVE  /\ h \in [running : Nat, made : Nat, failed : Nat]
         /\ h.running + h.made + h.failed = g.running + g.made + g.failed
<1>. g.running \in Nat /\ g.made \in Nat /\ g.failed \in Nat
  OBVIOUS
<1>1. CASE h = [g EXCEPT !.running = @ - 1, !.made = @ + 1]
  <2>. h = [running |-> g.running - 1, made |-> g.made + 1, failed |-> g.failed]
    BY <1>1
  <2>. QED OBVIOUS
<1>2. CASE h = [g EXCEPT !.running = @ - 1, !.failed = @ + 1]
  <2>. h = [running |-> g.running - 1, made |-> g.made, failed |-> g.failed + 1]
    BY <1>2
  <2>. QED OBVIOUS
<1>. QED BY <1>1, <1>2

LEMMA InitPosters == PostersInit => PostersIInv
<1>. SUFFICES ASSUME PostersInit PROVE PostersIInv
  OBVIOUS
<1>1. PostersTypeOK
  <2>1. attempts \in 0..MaxAttempts /\ gens \in [running : Nat, made : Nat, failed : Nat]
    BY AttemptsAssumption DEF PostersInit
  <2>. QED BY <2>1, Zenon DEF PostersInit, PostersTypeOK
<1>2. gens.running = 0 /\ gens.made = 0 /\ gens.failed = 0
  BY DEF PostersInit
<1>3. Working = 0
  BY <1>2 DEF Working
<1>4. OneGeneration /\ Clean
  BY <1>3 DEF PostersInit, OneGeneration, Clean
<1>. QED BY <1>1, <1>4 DEF PostersIInv

\* What a refresh does when it has a source: a task is started only if none runs.
LEMMA EnsureStep ==
  ASSUME PostersIInv, Ensure
  PROVE  /\ image' \in BOOLEAN /\ UNCHANGED <<file, cooling>>
         /\ attempts' \in 0..MaxAttempts
         /\ gens' \in [running : Nat, made : Nat, failed : Nat]
         /\ inFlight' \in BOOLEAN
         /\ OneGeneration'
<1>. USE AttemptsAssumption DEF PostersIInv, PostersTypeOK, OneGeneration, Working
<1>1. CASE ~Wants
  BY <1>1 DEF Ensure, posterVars
<1>2. CASE Wants /\ file
  BY <1>2 DEF Ensure, Wants
<1>3. CASE Wants /\ ~file
  <2>1. /\ gens' = [gens EXCEPT !.running = @ + 1]
        /\ inFlight' = TRUE /\ attempts' = attempts + 1
        /\ UNCHANGED <<image, file, cooling>>
    BY <1>3 DEF Ensure
  <2>2. gens.running = 0 /\ gens.made = 0 /\ gens.failed = 0
    BY <1>3 DEF Wants
  <2>. QED BY <1>3, <2>1, <2>2 DEF Wants
<1>. QED BY <1>1, <1>2, <1>3

\* The types of what only changes among the poster's own variables.
LEMMA TypesAreKept ==
  ASSUME PostersTypeOK, managed' \in BOOLEAN, ready' \in BOOLEAN, listed' \in BOOLEAN,
         removal' \in {"none", "asked", "removed"}, cooling' \in BOOLEAN, refresh' = refresh,
         present' = present, image' = image, file' = file, inFlight' = inFlight,
         attempts' = attempts, gens' = gens, late' = late
  PROVE  PostersTypeOK'
BY Zenon DEF PostersTypeOK

LEMMA PostersStep == PostersIInv /\ [PostersNext]_allVars => PostersIInv'
<1>. SUFFICES ASSUME PostersIInv, [PostersNext]_allVars PROVE PostersIInv'
  OBVIOUS
<1>. USE DEF PostersIInv, PostersTypeOK, OneGeneration, Clean, Working
<1>1. CASE UNCHANGED allVars
  BY <1>1 DEF allVars, storeVars, refreshVars, posterVars
<1>2. CASE RefreshStart
  BY <1>2 DEF RefreshStart, storeVars, posterVars
<1>3. CASE Poll
  BY <1>3 DEF Poll, storeVars, posterVars
<1>4. CASE ApplyRefresh
  <2>1. CASE refresh = "source"
    BY <1>4, <2>1, EnsureStep DEF ApplyRefresh, storeVars
  <2>2. CASE refresh # "source"
    BY <1>4, <2>2 DEF ApplyRefresh, storeVars, posterVars
  <2>. QED BY <2>1, <2>2
<1>5. CASE Generate
  <2>0. /\ gens.running > 0
        /\ \/ gens' = [gens EXCEPT !.running = @ - 1, !.made = @ + 1]
           \/ gens' = [gens EXCEPT !.running = @ - 1, !.failed = @ + 1]
    BY <1>5, Zenon DEF Generate
  <2>1. gens' \in [running : Nat, made : Nat, failed : Nat] /\ Working' = Working /\ Working > 0
    <3>1. gens \in [running : Nat, made : Nat, failed : Nat]
      OBVIOUS
    <3>. HIDE DEF PostersIInv, PostersTypeOK, OneGeneration, Clean
    <3>2. gens.running \in Nat /\ gens.made \in Nat /\ gens.failed \in Nat
      BY <3>1
    <3>3. Working' = Working
      BY <2>0, <3>1, GenerateCounts
    <3>4. Working > 0
      BY <2>0, <3>2
    <3>5. gens' \in [running : Nat, made : Nat, failed : Nat]
      BY <2>0, <3>1, GenerateCounts
    <3>. QED BY <3>3, <3>4, <3>5, Zenon
  <2>2. file' \in BOOLEAN
    BY <1>5, Zenon DEF Generate
  <2>. QED BY <1>5, <2>1, <2>2 DEF Generate, storeVars, refreshVars
<1>6. CASE GenerateReturns
  <2>0. \/ gens.made > 0 /\ gens' = [gens EXCEPT !.made = @ - 1]
        \/ gens.failed > 0 /\ gens' = [gens EXCEPT !.failed = @ - 1]
    BY <1>6, Zenon DEF GenerateReturns
  <2>1. gens' \in [running : Nat, made : Nat, failed : Nat] /\ Working' = 0 /\ Working = 1
    BY <2>0
  <2>2. image' \in BOOLEAN /\ cooling' \in BOOLEAN /\ inFlight' = FALSE
    BY <1>6, Zenon DEF GenerateReturns, TaskOver
  <2>a. UNCHANGED <<storeVars, refreshVars, file, attempts, late>>
    BY <1>6, Zenon DEF GenerateReturns
  <2>3. PostersTypeOK' /\ OneGeneration'
    <3>1. OneGeneration'
      BY <2>1, <2>2
    <3>2. PostersTypeOK'
      BY <2>a, <2>1, <2>2 DEF storeVars, refreshVars
    <3>. QED BY <3>1, <3>2
  <2>4. managed \/ removal = "removed" \/ late
    BY <2>1
  <2>5. UNCHANGED <<managed, removal, late>>
    BY <1>6 DEF GenerateReturns, storeVars
  <2>6. Clean'
    BY <2>4, <2>5, Zenon
  <2>. QED BY <2>3, <2>6
<1>7. CASE CoolDown
  <2>1. /\ UNCHANGED <<managed, ready, removal, refresh, present, listed, image, file, inFlight,
                      attempts, gens, late>>
        /\ cooling' = FALSE
    BY <1>7 DEF CoolDown, storeVars, refreshVars
  <2>2. PostersTypeOK' /\ OneGeneration'
    <3>1. Working' = Working /\ inFlight' = inFlight
      BY <2>1
    <3>2. PostersTypeOK'
      <4>1. /\ managed' \in BOOLEAN /\ ready' \in BOOLEAN /\ listed' \in BOOLEAN /\ cooling' \in BOOLEAN
            /\ removal' \in {"none", "asked", "removed"}
        BY <2>1, Zenon
      <4>2. /\ refresh' = refresh /\ present' = present /\ image' = image /\ file' = file
            /\ attempts' = attempts /\ gens' = gens /\ late' = late
        BY <2>1
      <4>. HIDE DEF PostersTypeOK
      <4>. QED BY <3>1, <4>1, <4>2, TypesAreKept
    <3>. QED BY <3>1, <3>2, Zenon
  <2>3. Clean'  BY <2>1
  <2>. QED BY <2>2, <2>3
<1>8. CASE Add
  <2>1. UNCHANGED <<ready, removal, refresh, present, listed, image, file, inFlight, attempts,
                    cooling, gens, late>> /\ managed' = TRUE
    BY <1>8 DEF Add, refreshVars, posterVars
  <2>2. PostersTypeOK' /\ OneGeneration'
    <3>1. Working' = Working /\ inFlight' = inFlight
      BY <2>1
    <3>2. PostersTypeOK'
      <4>1. /\ managed' \in BOOLEAN /\ ready' \in BOOLEAN /\ listed' \in BOOLEAN /\ cooling' \in BOOLEAN
            /\ removal' \in {"none", "asked", "removed"}
        BY <2>1, Zenon
      <4>2. /\ refresh' = refresh /\ present' = present /\ image' = image /\ file' = file
            /\ attempts' = attempts /\ gens' = gens /\ late' = late
        BY <2>1
      <4>. HIDE DEF PostersTypeOK
      <4>. QED BY <3>1, <4>1, <4>2, TypesAreKept
    <3>. QED BY <3>1, <3>2, Zenon
  <2>3. Clean'  BY <2>1
  <2>. QED BY <2>2, <2>3
<1>9. CASE Downloaded
  BY <1>9 DEF Downloaded, refreshVars, posterVars
<1>10. CASE RemoveStart
  <2>1. UNCHANGED <<managed, ready, refresh, present, image, file, inFlight, attempts, cooling, gens, late>>
    BY <1>10 DEF RemoveStart, posterVars
  <2>2. removal' = "asked" /\ listed' = FALSE /\ removal = "none"
    BY <1>10 DEF RemoveStart
  <2>3. Working' = Working /\ inFlight' = inFlight
    BY <2>1
  <2>4. PostersTypeOK'
    <3>1. /\ managed' \in BOOLEAN /\ ready' \in BOOLEAN /\ listed' \in BOOLEAN /\ cooling' \in BOOLEAN
          /\ removal' \in {"none", "asked", "removed"}
      BY <2>1, <2>2, Zenon
    <3>2. /\ refresh' = refresh /\ present' = present /\ image' = image /\ file' = file
          /\ inFlight' = inFlight /\ attempts' = attempts /\ gens' = gens /\ late' = late
      BY <2>1, <2>2
    <3>. HIDE DEF PostersTypeOK
    <3>. QED BY <3>1, <3>2, TypesAreKept
  <2>5. OneGeneration'
    BY <2>3, Zenon
  <2>6. Clean'
    BY <2>1, <2>2, <2>3, Zenon
  <2>. QED BY <2>4, <2>5, <2>6, Zenon
<1>11. CASE EngineRemoves
  <2>1. managed' \in BOOLEAN /\ ready' \in BOOLEAN /\ removal' \in {"none", "removed"}
    BY <1>11, Zenon DEF EngineRemoves
  <2>2. UNCHANGED <<refresh, present, listed, image, file, inFlight, attempts, cooling, gens, late>>
    BY <1>11 DEF EngineRemoves, refreshVars, posterVars
  <2>3. removal = "asked" /\ (removal' = "removed" \/ managed' = managed)
    BY <1>11, Zenon DEF EngineRemoves
  <2>4. Working' = Working /\ inFlight' = inFlight
    BY <2>2
  <2>5. PostersTypeOK'
    <3>1. /\ managed' \in BOOLEAN /\ ready' \in BOOLEAN /\ listed' \in BOOLEAN /\ cooling' \in BOOLEAN
          /\ removal' \in {"none", "asked", "removed"}
      BY <2>1, <2>2, Zenon
    <3>2. /\ refresh' = refresh /\ present' = present /\ image' = image /\ file' = file
          /\ inFlight' = inFlight /\ attempts' = attempts /\ gens' = gens /\ late' = late
      BY <2>1, <2>2
    <3>. HIDE DEF PostersTypeOK
    <3>. QED BY <3>1, <3>2, TypesAreKept
  <2>6. OneGeneration'
    BY <2>4, Zenon
  <2>7. Clean'
    BY <2>2, <2>3, <2>4, Zenon
  <2>. QED BY <2>5, <2>6, <2>7, Zenon
<1>12. CASE RemoveReturns
  <2>1. late' \in BOOLEAN /\ image' = FALSE /\ file' = FALSE /\ cooling' = FALSE
    BY <1>12, Zenon DEF RemoveReturns, ForgetFile
  <2>2. ~late' => Working' = 0 /\ refresh' # "source"
    <3>1. Working = 0 \/ Working > 0
      OBVIOUS
    <3>2. ~late' => ~(Working > 0) /\ refresh # "source"
      BY <1>12, Zenon DEF RemoveReturns
    <3>3. Working' = Working /\ refresh' = refresh
      BY <1>12 DEF RemoveReturns, refreshVars
    <3>. QED BY <3>1, <3>2, <3>3, Zenon
  <2>3. attempts' \in 0..MaxAttempts /\ gens' = gens /\ OneGeneration'
    BY <1>12, AttemptsAssumption DEF RemoveReturns
  <2>. QED BY <1>12, <2>1, <2>2, <2>3 DEF RemoveReturns, refreshVars
<1>13. CASE Restart
  <2>1. gens' \in [running : Nat, made : Nat, failed : Nat] /\ Working' = 0
        /\ attempts' \in 0..MaxAttempts
    BY <1>13, AttemptsAssumption DEF Restart
  <2>2. /\ late' \in BOOLEAN /\ image' = FALSE /\ inFlight' = FALSE /\ cooling' = FALSE
        /\ listed' = FALSE /\ present' = FALSE
    BY <1>13, Zenon DEF Restart
  <2>3. ~late' => ~late /\ removal # "removed"
    BY <1>13, Zenon DEF Restart
  <2>a. UNCHANGED <<managed, ready, file>> /\ removal' = "none" /\ refresh' = "none"
    BY <1>13, Zenon DEF Restart
  <2>4. PostersTypeOK' /\ OneGeneration'
    <3>1. OneGeneration'
      BY <2>1, <2>2
    <3>2. PostersTypeOK'
      BY <2>a, <2>1, <2>2, Zenon
    <3>. QED BY <3>1, <3>2
  <2>5. ~managed /\ ~late' => ~file
    BY <2>3, Zenon
  <2>6. managed' = managed /\ file' = file /\ refresh' = "none"
    BY <1>13 DEF Restart
  <2>7. Clean'
    BY <2>1, <2>2, <2>5, <2>6
  <2>. QED BY <2>4, <2>7
<1>. QED
  BY <1>1, <1>2, <1>3, <1>4, <1>5, <1>6, <1>7, <1>8, <1>9, <1>10, <1>11, <1>12, <1>13 DEF PostersNext

\* However refreshes, tasks, removals and restarts overlap: the attempts stay
\* within their bound, one frame is made at a time, and a torrent that was
\* removed leaves no poster in memory or on disk, unless the removal met work
\* for it that was under way (TorrentStore.remove, PosterStore.ensure, remove).
THEOREM PostersAreSound == PostersSpec => []PostersInv
<1>1. PostersIInv => PostersInv
  BY DEF PostersIInv, PostersInv, Clean, NoPosterLeft
<1>. QED BY <1>1, InitPosters, PostersStep, PTL DEF PostersSpec

=============================================================================
