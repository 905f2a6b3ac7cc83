--------------------------- MODULE MCStreamUpdate ---------------------------
(***************************************************************************)
(* StreamUpdate for TLC.                                                   *)
(***************************************************************************)
EXTENDS StreamUpdate
=============================================================================
