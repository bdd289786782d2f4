----------------------------- MODULE GainControl -----------------------------
(***************************************************************************)
(* The loudness controllers (normalization/control.rs, stream.rs) and what *)
(* the daemon does with them: every tick each active stream's unread       *)
(* measurement moves the gain kept under the stream's node id, and the     *)
(* filter is told to apply it.  Loudness and gain are whole numbers of     *)
(* decibels.  An update always reckons with CONTROL_INTERVAL, however      *)
(* long it is since the last one: the main loop returns earlier when there *)
(* are events and later when a tick takes long, so the steps are per       *)
(* update, and no rate in time follows from them.                          *)
(*                                                                         *)
(* Routing is reduced to Attach, Release, Reattach and Detach (RouteDaemon *)
(* has it in full).                                                        *)
(* Decision::Bypass is left out: no stream whose policy is off is active,  *)
(* which is RouteDaemon's PolicyInForce.                                   *)
(***************************************************************************)
EXTENDS Integers

CONSTANTS
  Domains,  \* signal domains: playback and capture
  Nodes,    \* node ids the server hands out, and hands out again
  Levels,   \* loudness a source can have
  Configs,  \* controller configurations a reload can find
  Default   \* the configuration of each domain at start-up

\* ControllerConfig: built in, or resolved from the overrides of a file, and
\* then validated.
Valid(c) ==
  /\ c.target \in Int /\ c.gate \in Int /\ c.gate < c.target
  /\ c.deadband \in Nat /\ c.boost \in Nat /\ c.cut \in Nat
  /\ c.boostStep \in Nat \ {0} /\ c.cutStep \in Nat \ {0}

ASSUME LevelsAssumption == Levels \subseteq Int
ASSUME ConfigsAssumption == \A c \in Configs : Valid(c)
ASSUME DefaultAssumption == Default \in [Domains -> Configs]

VARIABLES
  config,  \* ControllerBank: the configuration of each domain
  gain,    \* Controller.streams: the gain of each node id, 0 at first
  life,    \* of each node: "none", "direct" (it has no filter), "active", or
           \* "kept" (its filter waits, inactive, for the endpoints to come back)
  domain,  \* the domain of the stream that has, or last had, the id
  level,   \* the loudness of its source
  meter,   \* measurements its controller has not read: none or one level
  target   \* the gain its filter applies

stream == <<life, domain, level>>
vars   == <<config, gain, stream, meter, target>>

Limits(c) == -c.cut .. c.boost

TypeOK ==
  /\ config \in [Domains -> Configs]
  /\ gain \in [Domains -> [Nodes -> UNION {Limits(c) : c \in Configs}]]
  /\ life \in [Nodes -> {"none", "direct", "active", "kept"}]
  /\ domain \in [Nodes -> Domains]
  /\ level \in [Nodes -> Levels]
  /\ meter \in [Nodes -> {{}} \cup {{l} : l \in Levels}]
  /\ target \in [Nodes -> UNION {Limits(c) : c \in Configs}]

Init ==
  /\ config = Default
  /\ gain = [d \in Domains |-> [n \in Nodes |-> 0]]
  /\ life = [n \in Nodes |-> "none"]
  /\ domain \in [Nodes -> Domains]
  /\ level \in [Nodes -> Levels]
  /\ meter = [n \in Nodes |-> {}]
  /\ target = [n \in Nodes |-> 0]

-----------------------------------------------------------------------------
(* Controller::observe *)

Clamp(x, low, high) == IF x < low THEN low ELSE IF high < x THEN high ELSE x

Abs(x) == IF x < 0 THEN -x ELSE x

\* Slip: the boost limits the cut and the cut the boost.
LimitedSwapped(c, g) == Clamp(g, -c.boost, c.cut)

\* Slip: there is no limit to the cut.
LimitedAbove(c, g) == IF c.boost < g THEN c.boost ELSE g

Limited(c, g) == Clamp(g, -c.cut, c.boost)

Desired(c, l) == Limited(c, c.target - l)

Silent(c, l) == l < c.gate

WithinDeadband(c, g, l) == Abs(c.target - (l + g)) <= c.deadband

\* Slip: boosts go at the rate of cuts and cuts at the rate of boosts.
AdjustedFast(c, g, l) ==
  LET delta == Desired(c, l) - g
      step  == IF delta > 0 THEN c.cutStep ELSE c.boostStep
  IN  Limited(c, g + Clamp(delta, -step, step))

Adjusted(c, g, l) ==
  LET delta == Desired(c, l) - g
      step  == IF delta > 0 THEN c.boostStep ELSE c.cutStep
  IN  Limited(c, g + Clamp(delta, -step, step))

\* The gain after loudness l was observed: silence and small errors keep it.
Observe(c, g, l) ==
  IF Silent(c, l) \/ WithinDeadband(c, g, l) THEN g ELSE Adjusted(c, g, l)

-----------------------------------------------------------------------------
(* The daemon *)

\* Slip: the filter is told of adjustments only.
UpdateOnChange(n) ==
  LET d == domain[n] IN
  /\ life[n] = "active"
  /\ \E l \in meter[n] :
       /\ gain' = [gain EXCEPT ![d][n] = Observe(config[d], @, l)]
       /\ target' = IF gain'[d][n] # gain[d][n]
                      THEN [target EXCEPT ![n] = gain'[d][n]]
                      ELSE target
  /\ meter' = [meter EXCEPT ![n] = {}]
  /\ UNCHANGED <<config, stream>>

\* StreamControl::update, for each active stream in update_controls.
Update(n) ==
  LET d == domain[n] IN
  /\ life[n] = "active"
  /\ \E l \in meter[n] :
       gain' = [gain EXCEPT ![d][n] = Observe(config[d], @, l)]
  /\ target' = [target EXCEPT ![n] = gain'[d][n]]
  /\ meter' = [meter EXCEPT ![n] = {}]
  /\ UNCHANGED <<config, stream>>

\* A new filter, with a target of 0 and nothing published, and a new
\* StreamControl are connected to the stream.
Attach(n) ==
  /\ life[n] = "direct"
  /\ life' = [life EXCEPT ![n] = "active"]
  /\ target' = [target EXCEPT ![n] = 0]
  /\ meter' = [meter EXCEPT ![n] = {}]
  /\ UNCHANGED <<config, gain, domain, level>>

\* The route lost its endpoints or was superseded, and is released: filter and
\* control are kept, with the target and what has not been read.
Release(n) ==
  /\ life[n] = "active"
  /\ life' = [life EXCEPT ![n] = "kept"]
  /\ UNCHANGED <<config, gain, domain, level, meter, target>>

\* The filter that was kept is connected again.
Reattach(n) ==
  /\ life[n] = "kept"
  /\ life' = [life EXCEPT ![n] = "active"]
  /\ UNCHANGED <<config, gain, domain, level, meter, target>>

\* The route is bypassed and its filter dropped, or a filter that was kept is
\* given up.
Detach(n) ==
  /\ life[n] \in {"active", "kept"}
  /\ life' = [life EXCEPT ![n] = "direct"]
  /\ UNCHANGED <<config, gain, domain, level, meter, target>>

\* Daemon::reconfigure: every route is bypassed and every filter dropped before
\* the configuration is applied, the gains are kept.
Reload ==
  /\ config' \in [Domains -> Configs] /\ config' # config
  /\ life' = [n \in Nodes |-> IF life[n] = "none" THEN "none" ELSE "direct"]
  /\ UNCHANGED <<gain, domain, level, meter, target>>

-----------------------------------------------------------------------------
(* Applications and the audio callback *)

\* An application opens a stream, with an id that may have been another's.
Open(n) ==
  /\ life[n] = "none"
  /\ life' = [life EXCEPT ![n] = "direct"]
  /\ \E d \in Domains, l \in Levels :
       /\ domain' = [domain EXCEPT ![n] = d]
       /\ level' = [level EXCEPT ![n] = l]
  /\ UNCHANGED <<config, gain, meter, target>>

Close(n) ==
  /\ life[n] # "none"
  /\ life' = [life EXCEPT ![n] = "none"]
  /\ UNCHANGED <<config, gain, domain, level, meter, target>>

Fade(n) ==
  /\ life[n] # "none"
  /\ \E l \in Levels \ {level[n]} : level' = [level EXCEPT ![n] = l]
  /\ UNCHANGED <<config, gain, life, domain, meter, target>>

\* The filter publishes the loudness of its source, in place of what has not
\* been read yet.
Measure(n) ==
  /\ life[n] = "active"
  /\ meter' = [meter EXCEPT ![n] = {level[n]}]
  /\ UNCHANGED <<config, gain, stream, target>>

-----------------------------------------------------------------------------
Next ==
  \/ Reload
  \/ \E n \in Nodes :
       \/ Update(n) \/ Attach(n) \/ Release(n) \/ Reattach(n) \/ Detach(n)
       \/ Open(n) \/ Close(n) \/ Fade(n) \/ Measure(n)

Spec == Init /\ [][Next]_vars

\* The filter of an active stream goes on publishing, and the daemon reads
\* every publication at a later tick.
FairSpec ==
  /\ Spec
  /\ \A n \in Nodes : WF_vars(Measure(n)) /\ WF_vars(Update(n))

-----------------------------------------------------------------------------
(* Properties *)

\* Whenever a gain changes, the gain it changes to is within the limits of the
\* configuration in force, although it may have been outside them.
AdjustedWithinLimits ==
  [][\A d \in Domains, n \in Nodes :
       gain'[d][n] # gain[d][n] => gain'[d][n] \in Limits(config[d])]_vars

\* Every change of a gain brings it nearer to what the loudness just measured
\* calls for, without going past it, and in one update by no more than the
\* configured rate allows in one CONTROL_INTERVAL, unless the gain was outside
\* the limits in force.
SlewsTowardTarget ==
  [][\A d \in Domains, n \in Nodes :
       gain'[d][n] # gain[d][n] =>
         LET c == config[d]
             g == gain[d][n]
             h == gain'[d][n]
         IN  \E l \in meter[n] :
               /\ \/ g < h /\ h <= Desired(c, l)
                  \/ Desired(c, l) <= h /\ h < g
               /\ g \in Limits(c) => g - c.cutStep <= h /\ h <= g + c.boostStep]_vars

\* The filter of n applies the controller's gain, which is as near to the
\* configured loudness as deadband and limits let it be.
Settled(n) ==
  LET c == config[domain[n]]
      g == gain[domain[n]][n]
  IN  \/ Silent(c, level[n])
      \/ /\ target[n] = g
         /\ WithinDeadband(c, g, level[n]) \/ g = Desired(c, level[n])

\* A stream that stays routed, with a source of constant loudness, settles for
\* good: also after a reload, after its filter was replaced, and whatever gain
\* it starts with.
Converges ==
  \A n \in Nodes :
    <>[][UNCHANGED <<config, life[n], domain[n], level[n]>>]_vars
      => <>[](life[n] = "active" => Settled(n))

=============================================================================
