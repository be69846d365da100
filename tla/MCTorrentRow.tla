---------------------------- MODULE MCTorrentRow ----------------------------
(***************************************************************************)
(* TorrentRow with a torrent of a film and its subtitles, and one other.   *)
(***************************************************************************)
EXTENDS TorrentRow

CONSTANTS film, subtitles, t1, t2
=============================================================================
