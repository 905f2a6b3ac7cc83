------------------------- MODULE MCInstallerManager -------------------------
(***************************************************************************)
(* InstallerManager for TLC.                                               *)
(***************************************************************************)
EXTENDS InstallerManager, TLC

\* Threads, and heap objects, are interchangeable.
Symmetry == Permutations(Threads) \cup Permutations(Objs)
=============================================================================
