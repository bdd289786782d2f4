--------------------------- MODULE MCRouteDaemon ---------------------------
(***************************************************************************)
(* Instances of RouteDaemon and its properties for TLC.                    *)
(***************************************************************************)
EXTENDS RouteProperties, TLC

\* Any policy that lets at least one stream be normalized, and the one that
\* lets every stream.
AnyPolicy == SUBSET Streams
FullPolicy == {Streams}

MCSymmetry == Permutations(Streams) \cup Permutations(Channels) \cup Permutations(Peers)
=============================================================================
