---------------------------- MODULE MCAddTorrent ----------------------------
(***************************************************************************)
(* A small instance of AddTorrent: torrent h1 reachable as a magnet and as *)
(* an http(s) .torrent URL, whose hash is unknown until it is fetched.     *)
(***************************************************************************)
EXTENDS AddTorrent, TLC

CONSTANTS m1, w1, h1

MCHashOf == (m1 :> h1) @@ (w1 :> h1)
MCHashOfMagnet == m1 :> h1

Symm == Permutations(Token)

=============================================================================
