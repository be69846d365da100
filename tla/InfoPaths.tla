----------------------------- MODULE InfoPaths -----------------------------
(***************************************************************************)
(* Where the files of a torrent go: InfoDict::parse (extension.rs) looks at *)
(* the names in it, and who calls it joins them onto a folder as they are. *)
(* A component is a sequence of characters.                                *)
(***************************************************************************)
EXTENDS Naturals, SequencesExt

CONSTANTS
  Components,  \* the names and parts of paths that are tried
  BaseDir,     \* the folder, a sequence of names from the root
  MaxFiles,    \* bound: files of a torrent
  MaxParts     \* bound: components of all their paths together

VARIABLES
  name, files,  \* of the info dict; None is no files either
  checked,      \* files looked at
  verdict       \* "reading", or what parse returned

vars == <<name, files, checked, verdict>>

Path == UNION {[1..p -> Components] : p \in 0..MaxParts}

Init ==
  /\ files \in {fs \in UNION {[1..n -> Path] : n \in 0..MaxFiles} : Len(FlattenSeq(fs)) <= MaxParts}
  /\ name \in Components
  /\ checked = 0 /\ verdict = "reading"

Separator == {"/", "\\"}

\* Mutant of IsSafe: only the folder above is thought of.
IsSafeLoose(c) == c \notin {<<>>, <<".", ".">>} /\ ToSet(c) \cap Separator = {}

\* is_safe_path_component
IsSafe(c) ==
  /\ c \notin {<<>>, <<".">>, <<".", ".">>}
  /\ ToSet(c) \cap Separator = {}

Refuse == verdict' = "UnsafePath" /\ UNCHANGED checked

CheckName ==
  /\ verdict = "reading" /\ checked = 0
  /\ ~IsSafe(name) /\ Refuse

CheckFile ==
  /\ verdict = "reading" /\ IsSafe(name) /\ checked < Len(files)
  /\ LET path == files[checked + 1]
     IN IF path = <<>> \/ \E c \in ToSet(path) : ~IsSafe(c)
        THEN Refuse
        ELSE checked' = checked + 1 /\ UNCHANGED verdict

Accept ==
  /\ verdict = "reading" /\ IsSafe(name) /\ checked = Len(files)
  /\ verdict' = "parsed" /\ UNCHANGED checked

Answered == verdict # "reading" /\ UNCHANGED vars

Next == ((CheckName \/ CheckFile \/ Accept) /\ UNCHANGED <<name, files>>) \/ Answered

(***************************************************************************)
(* What is right: where a path leads, on a system that knows either        *)
(* separator.                                                              *)
(***************************************************************************)

\* A folder after one more character of a path: the names so far and the one
\* that is being read.
Finish(at) ==
  CASE at.name \in {<<>>, <<".">>} -> [at EXCEPT !.name = <<>>]
    [] at.name = <<".", ".">> ->
         [at EXCEPT !.name = <<>>, !.above = @ \/ at.folder \in {<<>>, BaseDir},
                    !.folder = IF @ = <<>> THEN @ ELSE Front(@)]
    [] OTHER -> [at EXCEPT !.name = <<>>, !.folder = Append(@, at.name)]

Read(at, c) == IF c \in Separator THEN Finish(at) ELSE [at EXCEPT !.name = Append(@, c)]

\* Path::join: what begins with a separator begins at the root.
Join(at, component) ==
  LET from == IF component # <<>> /\ component[1] \in Separator
              THEN [at EXCEPT !.folder = <<>>, !.above = TRUE] ELSE at
  IN Finish(FoldLeft(Read, from, component))

Resolve(components) ==
  FoldLeft(Join, [folder |-> BaseDir, name |-> <<>>, above |-> FALSE], components)

Beneath(at) == ~at.above /\ Len(at.folder) > Len(BaseDir) /\ IsPrefix(BaseDir, at.folder)

Joined == {<<name>>} \cup {<<name>> \o path : path \in ToSet(files)}

(***************************************************************************)
(* Properties.                                                             *)
(***************************************************************************)

\* "callers can join them onto a base dir as-is" (extension.rs:285-286): every
\* file of a torrent that was accepted is strictly beneath the folder, each in
\* a folder of the torrent's own; two paths lead to one place only if they are
\* the same; and a torrent is refused only for a name that is not one, or for
\* want of one.
PathsStayInside ==
  /\ verdict = "parsed" =>
       /\ \A path \in Joined : Beneath(Resolve(path))
       /\ \A p, q \in Joined : Resolve(p) = Resolve(q) => p = q
       /\ \A path \in ToSet(files) : Len(Resolve(<<name>> \o path).folder) > Len(BaseDir) + 1
  /\ verdict = "UnsafePath" =>
       \/ <<>> \in ToSet(files)
       \/ \E path \in Joined, c \in Components :
            c \in ToSet(path) /\ Resolve(<<c>>).folder # Append(BaseDir, c)

=============================================================================
