----------------------------- MODULE MCRelease -----------------------------
(***************************************************************************)
(* Release with two runs and as many images as both of them, or two        *)
(* attempts of one, make.                                                  *)
(***************************************************************************)
EXTENDS Release, TLC

CONSTANTS push, dispatch

RunSymmetry == Permutations(Run)

=============================================================================
