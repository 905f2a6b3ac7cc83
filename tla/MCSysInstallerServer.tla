------------------------ MODULE MCSysInstallerServer ------------------------
(***************************************************************************)
(* SysInstallerServer for TLC.                                             *)
(***************************************************************************)
EXTENDS SysInstallerServer
=============================================================================
