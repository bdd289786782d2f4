---------------------------- MODULE MCSoakMonitor ----------------------------
(***************************************************************************)
(* An instance of SoakMonitor for TLC.                                     *)
(***************************************************************************)
EXTENDS SoakMonitor, TLC

MCSymmetry == Permutations(Pids)
=============================================================================
