--------------------------- MODULE MCControlSocket ---------------------------
(***************************************************************************)
(* Instances of ControlSocket for TLC.                                     *)
(***************************************************************************)
EXTENDS ControlSocket

\* Nothing said, and a file that speaks both by default and by application.
MCFiles ==
  {[defaults |-> [x \in Domains |-> Unset], applications |-> [k \in Keys |-> Unset]],
   [defaults |-> [x \in Domains |-> FALSE], applications |-> [k \in Keys |-> TRUE]]}
=============================================================================
