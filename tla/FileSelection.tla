--------------------------- MODULE FileSelection ---------------------------
(***************************************************************************)
(* Choosing the files of one torrent (TorrentStore.setFile).  A change is  *)
(* worked out from the selection shown last, sent as a whole selection by  *)
(* a task of its own, and shown when a refresh has read it back.           *)
(***************************************************************************)
EXTENDS Naturals

CONSTANTS
  File,        \* the files of the torrent
  MaxChanges   \* bound: changes the user makes

ASSUME ChangesAssumption == MaxChanges \in Nat

VARIABLES
  selected,  \* only_files of the engine
  shown,     \* the selection in TorrentStore.files
  call,      \* the changes made: tasks of perform
  indices,   \* the selection each of them asks for
  poll,      \* the newest refresh: what it has read, {} if nothing yet
  wanted,    \* history: the user's own choice
  refused    \* history: the engine refused a change

vars == <<selected, shown, call, indices, poll, wanted, refused>>

Change == 1..MaxChanges

\* What the engine downloads is never empty.
Selection == (SUBSET File) \ {{}}

TypeOK ==
  /\ selected \in Selection /\ shown \in Selection
  /\ wanted \in Selection
  /\ call \in [Change -> {"none", "sent", "answered", "done"}]
  /\ indices \in [Change -> SUBSET File]
  /\ poll \in [open : BOOLEAN, read : SUBSET File]
  /\ refused \in BOOLEAN

NoPoll == [open |-> FALSE, read |-> {}]

Init ==
  /\ selected \in Selection
  /\ shown = selected /\ wanted = selected
  /\ call = [c \in Change |-> "none"] /\ indices = [c \in Change |-> {}]
  /\ poll = NoPoll
  /\ refused = FALSE

\* Mutant of With: a click always takes the file out.
WithToggledOff(sel, f, on) == sel \ {f}

With(sel, f, on) == IF on THEN sel \cup {f} ELSE sel \ {f}

\* "librqbit can't download an empty selection": refused with a beep.
Allowed(sel) == sel # {}

SetFile(c, f) ==
  /\ call[c] = "none" /\ \A d \in Change : d < c => call[d] # "none"
  /\ LET on == f \notin shown IN
       /\ Allowed(With(shown, f, on))
       /\ indices' = [indices EXCEPT ![c] = With(shown, f, on)]
       /\ wanted' = IF on THEN wanted \cup {f} ELSE wanted \ {f}
  /\ call' = [call EXCEPT ![c] = "sent"]
  /\ UNCHANGED <<selected, shown, poll, refused>>

\* session.setOnlyFiles in the engine; the tasks run in no order.
Answer(c) ==
  /\ call[c] = "sent"
  /\ call' = [call EXCEPT ![c] = "answered"]
  /\ \/ selected' = indices[c] /\ UNCHANGED refused
     \/ refused' = TRUE /\ UNCHANGED selected
  /\ UNCHANGED <<shown, indices, poll, wanted>>

\* A refresh makes the ones before it stale.
StartPoll == poll' = [open |-> TRUE, read |-> {}]

Done(c) ==
  /\ call[c] = "answered"
  /\ call' = [call EXCEPT ![c] = "done"]
  /\ StartPoll
  /\ UNCHANGED <<selected, shown, indices, wanted, refused>>

TimerRefresh ==
  /\ StartPoll
  /\ UNCHANGED <<selected, shown, call, indices, wanted, refused>>

Read ==
  /\ poll.open /\ poll.read = {}
  /\ poll' = [poll EXCEPT !.read = selected]
  /\ UNCHANGED <<selected, shown, call, indices, wanted, refused>>

Apply ==
  /\ poll.open /\ poll.read # {}
  /\ shown' = poll.read
  /\ poll' = NoPoll
  /\ UNCHANGED <<selected, call, indices, wanted, refused>>

Step(c) == Answer(c) \/ Done(c)

System == TimerRefresh \/ Read \/ Apply \/ \E c \in Change : Step(c)

User == \E c \in Change, f \in File : SetFile(c, f)

Spec == Init /\ [][System \/ User]_vars

(***************************************************************************)
(* Properties.                                                             *)
(***************************************************************************)

\* "Per-file selection (skip files you don't want)" (README.md:16): once every
\* change is through, and none was refused, the engine downloads the files the
\* user wants and skips the others.
SelectionIsWanted ==
  (~refused /\ \A c \in Change : call[c] \in {"none", "answered", "done"})
    => selected = wanted

=============================================================================
