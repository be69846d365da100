--------------------------- MODULE MCTorrentStore ---------------------------
(***************************************************************************)
(* TorrentStore with one torrent (the store treats each torrent by itself),*)
(* the poll loop and one overlapping refresh of a user's action.           *)
(***************************************************************************)
EXTENDS TorrentStore

CONSTANTS p1
=============================================================================
