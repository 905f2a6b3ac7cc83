---------------------------- MODULE MCClientKits ----------------------------
(***************************************************************************)
(* ClientKits for TLC.                                                     *)
(***************************************************************************)
EXTENDS ClientKits
=============================================================================
