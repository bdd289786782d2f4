------------------------ MODULE MCStreamDiscovery ------------------------
(***************************************************************************)
(* An instance of StreamDiscovery for TLC.                                 *)
(***************************************************************************)
EXTENDS StreamDiscovery, TLC

CONSTANTS FL, FR, player

\* Mono and stereo: the second looks like the first while it is announced.
MCLayouts == {1 :> FL, 1 :> FL @@ 2 :> FR}

\* What is known by name is normalized, or what is not.
MCPolicies == {{player}, {Anonymous}}
=============================================================================
