--------------------------- MODULE MCUpdateResult ---------------------------
(***************************************************************************)
(* UpdateResult for TLC.                                                   *)
(***************************************************************************)
EXTENDS UpdateResult
=============================================================================
