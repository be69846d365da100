-------------------------- MODULE MetadataExchange --------------------------
(***************************************************************************)
(* run_peer (engine.rs) once the handshake is over, with the               *)
(* MetadataAssembler (extension.rs): the peer says how large the info dict *)
(* is, every piece of it is asked for, and what comes is put together and  *)
(* hashed.  Messages arrive as InOrderDelivery promises.                   *)
(*                                                                         *)
(* Piece data is its length and whether it is what the hash was made of.   *)
(* A piece asked for twice before it is answered counts once in asked.     *)
(***************************************************************************)
EXTENDS Naturals, Sequences

CONSTANTS
  PieceSize,    \* METADATA_PIECE_SIZE
  MaxSize,      \* MAX_METADATA_SIZE
  TrueSize,     \* length of the info dict that hashes to the info hash
  InfoSafe,     \* InfoDict::parse accepts it
  Sizes,        \* sizes a peer may advertise
  Window,       \* messages that fit between the peer and run_peer
  MaxMessages   \* bound: messages the peer sends of its own accord

ASSUME SizeAssumption ==
  /\ PieceSize \in Nat \ {0} /\ MaxSize \in Nat
  /\ Window \in Nat \ {0} /\ MaxMessages \in Nat
  /\ TrueSize \in 1..MaxSize /\ TrueSize \in Sizes /\ Sizes \subseteq Nat
  /\ InfoSafe \in BOOLEAN

VARIABLES
  honest,   \* the peer has the info dict and keeps to the protocol
  inbox,    \* messages of the peer that run_peer has not seen
  budget,   \* messages it may still send, for the bound
  asked,    \* pieces we asked for and it has not served
  size,     \* total_size of the assembler, 0 if there is none
  pieces,   \* what the assembler has
  task      \* run_peer: at it, or how it ended

peerVars == <<honest, inbox, budget>>
asmVars == <<size, pieces>>
vars == <<peerVars, asked, asmVars, task>>

\* Mutant of NumPieces: rounded down.
NumPiecesFloor(s) == s \div PieceSize

NumPieces(s) == (s + PieceSize - 1) \div PieceSize

Indices(s) == {i \in 0..s : i < NumPieces(s)}

\* Mutant of Expected: the last piece is like the others.
ExpectedFull(s, i) == PieceSize

\* The length a piece must have, the last one being what is left.
Expected(s, i) ==
  IF s - i * PieceSize < PieceSize THEN s - i * PieceSize ELSE PieceSize

\* One more than the last index of any assembly.
LargestPiece == NumPieces(MaxSize)

\* An extended handshake with a size and a ut_metadata id, one without; data;
\* what run_peer ignores; what it cannot decode.
Message ==
  [type : {"size"}, size : Sizes]
    \cup [type : {"data"}, piece : 0..LargestPiece, len : 0..PieceSize, true : BOOLEAN]
    \cup [type : {"bare", "other", "garbled"}]

TypeOK ==
  /\ honest \in BOOLEAN
  /\ inbox \in Seq(Message)
  /\ budget \in 0..MaxMessages
  /\ size \in {0} \cup Sizes /\ size <= MaxSize
  /\ pieces \in [Indices(size) -> {"missing", "true", "junk"}]
  /\ asked \subseteq Indices(MaxSize)
  /\ task \in {"running", "delivered", "nothing", "failed"}

Init ==
  /\ honest \in BOOLEAN
  /\ inbox = <<>> /\ budget = MaxMessages
  /\ asked = {}
  /\ size = 0 /\ pieces = [i \in Indices(0) |-> "missing"]
  /\ task = "running"

(***************************************************************************)
(* run_peer.                                                               *)
(***************************************************************************)

Take(type) ==
  /\ task = "running"
  /\ inbox # <<>> /\ Head(inbox).type = type
  /\ inbox' = Tail(inbox)
  /\ UNCHANGED <<honest, budget>>

SizeOk(s) == s \in 1..MaxSize

\* Mutant of Requested: pieces counted from one.
RequestedFromOne(s) == Indices(s) \ {0}

\* missing_pieces of a new assembler
Requested(s) == Indices(s)

\* Mutant of InProgress: a repeat handshake starts over.
InProgressNever(s) == FALSE

InProgress(s) == size > 0 /\ size = s

\* start_assembly, and a request for each piece it says
HandleSize ==
  /\ Take("size")
  /\ LET s == Head(inbox).size IN
     \/ InProgress(s) /\ UNCHANGED <<asked, asmVars, task>>
     \/ /\ ~InProgress(s) /\ SizeOk(s)
        /\ size' = s /\ pieces' = [i \in Indices(s) |-> "missing"]
        /\ asked' = asked \cup Requested(s)
        /\ UNCHANGED task
     \/ ~InProgress(s) /\ ~SizeOk(s) /\ task' = "failed" /\ UNCHANGED <<asked, asmVars>>

HandleBare ==
  /\ Take("bare")
  /\ task' = IF size > 0 THEN task ELSE "nothing"
  /\ UNCHANGED <<asked, asmVars>>

\* SHA-1 of what is assembled, and InfoDict::parse
Verdict(p) ==
  IF size = TrueSize /\ (\A i \in Indices(size) : p[i] = "true") /\ InfoSafe
  THEN "delivered" ELSE "failed"

\* record
HandleData ==
  /\ Take("data")
  /\ LET d == Head(inbox) IN
     IF size = 0 \/ d.piece \notin Indices(size)
     THEN UNCHANGED <<asmVars, task>>
     ELSE IF d.len # Expected(size, d.piece)
     THEN task' = "failed" /\ UNCHANGED asmVars
     ELSE /\ pieces' = [pieces EXCEPT ![d.piece] = IF d.true THEN "true" ELSE "junk"]
          /\ task' = IF \E i \in Indices(size) : pieces'[i] = "missing"
                     THEN task ELSE Verdict(pieces')
          /\ UNCHANGED size
  /\ UNCHANGED asked

HandleOther == Take("other") /\ UNCHANGED <<asked, asmVars, task>>

HandleGarbled == Take("garbled") /\ task' = "failed" /\ UNCHANGED <<asked, asmVars>>

RunPeer == HandleSize \/ HandleBare \/ HandleData \/ HandleOther \/ HandleGarbled

(***************************************************************************)
(* Peers.                                                                  *)
(***************************************************************************)

Put(m) == Len(inbox) < Window /\ inbox' = Append(inbox, m)

Send(m) ==
  /\ budget > 0 /\ budget' = budget - 1
  /\ Put(m)
  /\ UNCHANGED <<honest, asked, asmVars, task>>

\* A peer that says anything.
AnyPeer == ~honest /\ \E m \in Message : Send(m)

\* A peer that has the info dict: it says its size, at any time again, and
\* talks of other things, but keeps to the protocol.
Announce == Send([type |-> "size", size |-> TrueSize])
Chat == Send([type |-> "other"])

\* It serves what it is asked for, in any order.
Serve(p) ==
  /\ honest /\ p \in asked
  /\ asked' = asked \ {p}
  /\ Put([type |-> "data", piece |-> p, true |-> TRUE,
          len |-> IF (p + 1) * PieceSize <= TrueSize THEN PieceSize ELSE TrueSize % PieceSize])
  /\ UNCHANGED <<honest, budget, asmVars, task>>

HonestPeer == (honest /\ (Announce \/ Chat)) \/ \E p \in asked : Serve(p)

Next == RunPeer \/ AnyPeer \/ HonestPeer

\* The task runs, and an honest peer serves every request.
Spec ==
  /\ Init /\ [][Next]_vars
  /\ WF_vars(RunPeer)
  /\ \A p \in 0..TrueSize : WF_vars(Serve(p))

(***************************************************************************)
(* Properties.                                                             *)
(***************************************************************************)

\* The pieces of a size are none empty, none longer than a piece may be, and
\* together they are what is to be assembled: each byte of it is in a piece,
\* and no byte after it is, so total_size - idx * METADATA_PIECE_SIZE does not go
\* below zero (extension.rs:235).
Covers(i, b) == i * PieceSize <= b /\ b < i * PieceSize + Expected(size, i)
PiecesCoverSize ==
  /\ \A i \in Indices(size) : Expected(size, i) \in 1..PieceSize
  /\ \A b \in 0..size : b < size <=> \E i \in Indices(size) : Covers(i, b)

\* "A repeat handshake with the same metadata_size keeps the in-progress
\* assembly" (engine.rs:268-269): a piece that is there is never lost while the
\* size is the same, whatever the peer sends.
KeepsProgress ==
  [][size' = size => \A i \in Indices(size) : pieces[i] # "missing" => pieces'[i] # "missing"]_vars

\* With an honest peer, a piece that is missing has been asked for, and the
\* answer is not lost: it is still owed, or on its way.
NothingForgotten ==
  honest /\ task = "running" =>
    \A i \in Indices(size) : pieces[i] = "missing" =>
      \/ i \in asked
      \/ \E k \in DOMAIN inbox : inbox[k].type = "data" /\ inbox[k].piece = i

\* The types, with a size that never exceeds the limit, the arithmetic, and
\* nothing forgotten.
Inv == TypeOK /\ PiecesCoverSize /\ NothingForgotten

\* From an honest peer that has said what it has, the metadata is had in the
\* end; it is not given up for anything it does.
HonestDelivers == (honest /\ size > 0) ~> task = "delivered"

=============================================================================
