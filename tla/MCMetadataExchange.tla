------------------------- MODULE MCMetadataExchange -------------------------
(***************************************************************************)
(* MetadataExchange with pieces of three bytes: an info dict of seven bytes*)
(* (the last piece is short), sizes with other numbers of pieces, a size   *)
(* of zero and one over the limit.                                         *)
(***************************************************************************)
EXTENDS MetadataExchange
=============================================================================
