------------------------- MODULE MCActionProcesser -------------------------
(***************************************************************************)
(* ActionProcesser for TLC: overlapping callers of one processer.          *)
(***************************************************************************)
EXTENDS ActionProcesser
=============================================================================
