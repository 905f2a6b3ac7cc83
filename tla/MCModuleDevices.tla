-------------------------- MODULE MCModuleDevices ---------------------------
(***************************************************************************)
(* ModuleDevices for TLC.                                                  *)
(***************************************************************************)
EXTENDS ModuleDevices
=============================================================================
