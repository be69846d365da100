-------------------------- MODULE InOrderDelivery --------------------------
(***************************************************************************)
(* What run_peer is promised about a peer's messages: it sees those it     *)
(* knows, each once, in the order they were sent and without gaps, until   *)
(* the conversation is over.                                               *)
(***************************************************************************)
EXTENDS Naturals, Sequences

CONSTANTS
  Frames,  \* the frames a peer sends are numbered 1..Frames
  Known    \* those with a message id we know

VARIABLES out, over

Init == out = <<>> /\ over = FALSE

\* The frame handed out last, 0 if there is none.
Last == IF out = <<>> THEN 0 ELSE out[Len(out)]

Deliver ==
  /\ ~over
  /\ \E f \in Known :
       /\ Last < f
       /\ \A g \in Known : g <= Last \/ f <= g
       /\ out' = Append(out, f)
  /\ over' \in BOOLEAN

End == ~over /\ over' = TRUE /\ UNCHANGED out

Next == Deliver \/ End

Spec == Init /\ [][Next]_<<out, over>>
=============================================================================
