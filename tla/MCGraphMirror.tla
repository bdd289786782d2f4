--------------------------- MODULE MCGraphMirror ---------------------------
(***************************************************************************)
(* An instance of GraphMirror for TLC.                                     *)
(***************************************************************************)
EXTENDS GraphMirror
=============================================================================
