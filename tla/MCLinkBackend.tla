--------------------------- MODULE MCLinkBackend ---------------------------
(***************************************************************************)
(* An instance of LinkBackend for TLC.                                     *)
(***************************************************************************)
EXTENDS LinkBackend, TLC

\* Numbers are only compared.
MCSymmetry == Permutations(Ids)
=============================================================================
