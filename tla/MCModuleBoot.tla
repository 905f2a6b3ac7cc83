---------------------------- MODULE MCModuleBoot ----------------------------
(***************************************************************************)
(* ModuleBoot for TLC.                                                     *)
(***************************************************************************)
EXTENDS ModuleBoot

\* Installs, reverts, restarts and power losses; no other requests, no system update.
InstallsOnly ==
    /\ req.pc \notin DOMAIN UninstallPlace
    /\ workDir = [h \in Hmps |-> "none"]
    /\ pre = [h \in Hmps |-> PRE]
=============================================================================
