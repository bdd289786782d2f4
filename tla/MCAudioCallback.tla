-------------------------- MODULE MCAudioCallback --------------------------
(***************************************************************************)
(* An instance of AudioCallback for TLC.                                   *)
(***************************************************************************)
EXTENDS AudioCallback

\* Silence, and a source above the ceiling, boosted except at an unprepared rate.
MCQuiet == -1
MCLevels == {-1, 3}
MCTargets == {1}
=============================================================================
