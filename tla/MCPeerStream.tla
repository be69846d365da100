---------------------------- MODULE MCPeerStream ----------------------------
(***************************************************************************)
(* PeerStream on four frames of a few bytes: an empty one (a keep-alive),  *)
(* one with an id nobody knows, one at the limit that may be malformed, and*)
(* one over the limit.                                                     *)
(***************************************************************************)
EXTENDS PeerStream, FiniteSetsExt

MCBody == <<0, 2, 3, 4>>
MCKind == <<"known", "unknown", "doubtful", "known">>

MCStart == [f \in 1..5 |-> HandshakeLen + (f - 1) * PrefixLen
                             + MapThenSumSet(LAMBDA g : MCBody[g], 1..f - 1)]
=============================================================================
