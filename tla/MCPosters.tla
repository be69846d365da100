----------------------------- MODULE MCPosters -----------------------------
(***************************************************************************)
(* Posters with two or three attempts.                                     *)
(***************************************************************************)
EXTENDS Posters
=============================================================================
