-------------------------- MODULE WriteAheadRoutes --------------------------
(***************************************************************************)
(* What loudnessd promises about the direct links it takes away from an    *)
(* application, whatever its routing code does in detail: a link is        *)
(* diverted only after a durable record names it, and the record goes on   *)
(* naming it for as long as the daemon keeps it diverted.  A crash may     *)
(* therefore come at any moment and its successor knows what to rebuild.   *)
(*                                                                         *)
(* RouteDaemon implements this module: diverted is the set of original     *)
(* links its routes in hand have displaced, record the contents of the     *)
(* recovery journal.                                                       *)
(***************************************************************************)

CONSTANT Links          \* the links a stream may have to a sink or source

VARIABLES
  diverted,             \* links the running daemon has removed and not given up
  record                \* links named by the journal on disk

wvars == <<diverted, record>>

WInit == diverted = {} /\ record \in SUBSET Links

\* The journal is rewritten; it may forget anything but a diverted link.
Rewrite(R) ==
  /\ diverted \subseteq R
  /\ record' = R
  /\ UNCHANGED diverted

\* Links are taken away, each of them already on record.
Divert(D) ==
  /\ D \subseteq record
  /\ diverted' = diverted \cup D
  /\ UNCHANGED record

\* Links are given up (restored, released, or lost with the process that
\* held them), and the journal is rewritten for what is left.
GiveUp(D, R) ==
  /\ diverted' = diverted \ D
  /\ record' = R
  /\ diverted' \subseteq R

WNext ==
  \/ \E R \in SUBSET Links : Rewrite(R)
  \/ \E D \in SUBSET Links : Divert(D)
  \/ \E D, R \in SUBSET Links : GiveUp(D, R)

WSpec == WInit /\ [][WNext]_wvars

\* A diverted link is on record.
DivertedRecorded == diverted \subseteq record

=============================================================================
