---------------------------- MODULE MCGainControl ----------------------------
(***************************************************************************)
(* GainControl with two configurations, of which the second has other      *)
(* targets and lower limits than the first.                                *)
(***************************************************************************)
EXTENDS GainControl

Wide   == [target |-> -4, gate |-> -9, deadband |-> 0,
           boost |-> 2, cut |-> 3, boostStep |-> 1, cutStep |-> 2]
Narrow == [target |-> -5, gate |-> -8, deadband |-> 1,
           boost |-> 1, cut |-> 2, boostStep |-> 1, cutStep |-> 1]

MCConfigs == {Wide, Narrow}
MCDefault == [d \in Domains |-> Wide]

\* Below both gates, below one, calling for some boost, for all the cut.
MCLevels == {-10, -9, -6, 0}

=============================================================================
