------------------------ MODULE MCModuleUpdateQueue ------------------------
(***************************************************************************)
(* ModuleUpdateQueue for TLC.                                              *)
(***************************************************************************)
EXTENDS ModuleUpdateQueue
=============================================================================
