-------------------------- MODULE MCMetadataFetch --------------------------
(***************************************************************************)
(* MetadataFetch with one or two trackers, channels of one or two entries  *)
(* and a handful of messages.                                              *)
(***************************************************************************)
EXTENDS MetadataFetch, TLC

CONSTANTS t1, t2, o1, r1, r2, r3
Symm == Permutations(Tracker) \cup Permutations(Remote)
=============================================================================
