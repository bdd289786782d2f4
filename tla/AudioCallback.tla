--------------------------- MODULE AudioCallback ---------------------------
(***************************************************************************)
(* The real-time process callback of a filter (callback of                 *)
(* pipewire/filter/process.rs): it picks the processing state of the       *)
(* graph's rate, meters the source, applies the target gain channel by     *)
(* channel, limits all channels together, meters the output and publishes. *)
(*                                                                         *)
(* The code applies the gain to the whole buffer before it limits it; the  *)
(* two work frame by frame, and here each frame goes through both.  All    *)
(* channels carry the same level.  What the report on gain reduction adds  *)
(* up is left out; MeterSeqlock has the publication.                       *)
(***************************************************************************)
EXTENDS PeakLimiter, FiniteSets

CONSTANTS
  Rates,      \* PREPARED_SAMPLE_RATES and the default
  Unprepared, \* a rate without a processing state
  Invalid,    \* a clock rate with a zero numerator or denominator
  Default,    \* default_sample_rate
  None,
  Channels,
  Levels,     \* of source frames
  Targets,    \* gains the controller may ask for
  Guard,      \* TRUE_PEAK_GUARD_DB
  Rises,      \* what a gain may recover by in a frame
  Longest,    \* bound: frames of a cycle
  Frames      \* bound: frames since a limiter was chosen

ASSUME RatesAssumption ==
  /\ Default \in Rates
  /\ {None, Unprepared, Invalid} \cap Rates = {}
  /\ None \notin {Unprepared, Invalid} /\ Unprepared # Invalid
ASSUME SourceAssumption ==
  Channels # {} /\ Levels \subseteq Int /\ Targets \subseteq Int
\* The gain may recover for a frame on which the window's loudest peak is met
\* exactly, and for the one after it has left the window: the guard has to
\* absorb both.
ASSUME GuardAssumption ==
  Guard \in Nat /\ Rises \subseteq Nat /\ \A rise \in Rises : 2 * rise <= Guard
ASSUME BoundsAssumption == Longest \in Nat /\ Frames \in Nat

VARIABLES
  target,     \* target_gain_bits, written by the control loop
  active,     \* active_processing_state, by its rate
  limiters,   \* the limiter of each processing state
  source,     \* what the source meter of each state has measured: audio of
              \* "now", since the state was chosen, or of "before"
  output,     \* and its output meter
  gain,       \* GainStage.gain_db of each output port
  cycle,      \* the process cycle at hand, or None
  heard,      \* the last frame that left the filter in the cycle at hand
  published   \* what the measurements published last were taken of

vars == <<target, active, limiters, source, output, gain, cycle, heard, published>>

Nothing == [level |-> Quiet, fresh |-> TRUE, limited |-> FALSE]

Init ==
  /\ target = 0
  /\ active = None
  /\ limiters = [r \in Rates |-> Cleared]
  /\ source = [r \in Rates |-> {}] /\ output = [r \in Rates |-> {}]
  /\ gain = [c \in Channels |-> 0]
  /\ cycle = None
  /\ heard = Nothing
  /\ published = {}

\* The callback loads the target once, when it starts.
SetTarget == \E g \in Targets :
  /\ cycle = None
  /\ target' = g
  /\ UNCHANGED <<active, limiters, source, output, gain, cycle, heard, published>>

-----------------------------------------------------------------------------
(* A process cycle *)

\* process_sample_rate and processing_state_index.
StateFor(rate) ==
  LET r == IF rate = Invalid THEN Default ELSE rate
  IN IF r \in Rates THEN r ELSE None

\* What was measured or delayed until now is of before.
Aged(lim) ==
  [lim EXCEPT !.delay = [slot \in Slots |-> Frame(lim.delay[slot].level, FALSE)]]
AgedMeter(m) == IF m = {} THEN {} ELSE {"before"}

\* Slip: the meters of a state that becomes active go on with what they have.
ResetNothing(m) == AgedMeter(m)

\* LoudnessMeter::reset forgets what was measured.
ResetMeter(m) == {}

\* Slip: a state is cleared only when another one was active.
ResetBetweenStates(r) == r # None /\ active # None /\ r # active

\* A state that becomes active is reset.
Resets(r) == r # None /\ r # active

\* The limiters, and the meters m, when the state of rate r is chosen.
ChosenLimiters(r) ==
  [q \in Rates |-> IF r = active THEN limiters[q]
                   ELSE IF q = r /\ Resets(r) THEN Cleared ELSE Aged(limiters[q])]
ChosenMeters(m, r) ==
  [q \in Rates |-> IF r = active THEN m[q]
                   ELSE IF q = r /\ Resets(r) THEN ResetMeter(m[q]) ELSE AgedMeter(m[q])]

\* The meters need the buffers of all their ports.
Metered(m, r, all) == IF r # None /\ all THEN [m EXCEPT ![r] = @ \cup {"now"}] ELSE m

\* The callback starts: buffers for the ports of some channels, a cycle of n
\* frames.  The audio of a state that becomes active is "now" from here on.
Begin == \E rate \in Rates \cup {Unprepared, Invalid}, n \in 0 .. Longest,
            ins, outs \in SUBSET Channels :
  LET r == StateFor(rate) IN
  /\ cycle = None
  /\ r # None => (IF r = active THEN limiters[r].sequence ELSE 0) + n <= Frames
  /\ active' = r
  /\ limiters' = ChosenLimiters(r)
  /\ source' = Metered(ChosenMeters(source, r), r, ins = Channels)
  /\ output' = ChosenMeters(output, r)
  /\ cycle' = [rate |-> r, length |-> n, frame |-> 0, ins |-> ins, outs |-> outs,
               goal |-> IF r = None THEN 0 ELSE target]
  /\ published' = {}
  /\ UNCHANGED <<target, gain, heard>>

\* GainStage::linear_gain: a ramp from the last gain to the target, which a
\* cycle of a single frame reaches at once.
RampGain(c) ==
  IF cycle.length = 1 THEN cycle.goal
  ELSE gain[c] + ((cycle.goal - gain[c]) * cycle.frame) \div (cycle.length - 1)

\* The channels whose buffers are filled in this cycle.
Wired == cycle.ins \cap cycle.outs

\* The level of the loudest of the channels that have output buffers: a source
\* frame with its gain, or what is left in a buffer that nothing was written to.
Mixed(level, left) ==
  LET levels == {level + RampGain(c) : c \in Wired}
                  \cup (IF cycle.outs \subseteq cycle.ins THEN {} ELSE {left})
  IN {l \in levels : \A k \in levels : k <= l}

\* limit_output_ports works on all channels or on none.
Limits == cycle.rate # None /\ cycle.outs = Channels

Process == \E level \in Levels, left \in Levels, rise \in Rises :
  /\ cycle # None
  /\ cycle.frame < cycle.length
  /\ cycle.outs # {}
  /\ \E mixed \in Mixed(level, left) : LET frame == Frame(mixed, TRUE) IN
     IF Limits
     THEN LET lim == limiters[cycle.rate] out == Let(lim, frame, rise) IN
          /\ limiters' = [limiters EXCEPT ![cycle.rate] = Limited(lim, frame, rise)]
          /\ heard' = [level |-> out.level, fresh |-> out.fresh, limited |-> TRUE]
     ELSE /\ heard' = [level |-> frame.level, fresh |-> TRUE, limited |-> FALSE]
          /\ UNCHANGED limiters
  /\ cycle' = [cycle EXCEPT !.frame = @ + 1]
  /\ UNCHANGED <<target, active, source, output, gain, published>>

\* The gain stages remember their gain, the output is metered, and what the
\* source meter has to say is published, with the output meter's, if any.
End == \E loud \in BOOLEAN :
  /\ cycle # None
  /\ cycle.frame = cycle.length \/ cycle.outs = {}
  /\ gain' = [c \in Channels |->
       IF c \in Wired /\ cycle.length > 0 THEN cycle.goal ELSE gain[c]]
  /\ output' = Metered(output, cycle.rate, cycle.outs = Channels)
  /\ published' =
       IF loud /\ cycle.rate # None /\ cycle.ins = Channels
       THEN source[cycle.rate] \cup
              (IF cycle.outs = Channels THEN output'[cycle.rate] ELSE {})
       ELSE published
  /\ cycle' = None
  /\ heard' = Nothing
  /\ UNCHANGED <<target, active, limiters, source>>

Next == SetTarget \/ Begin \/ Process \/ End

Spec == Init /\ [][Next]_vars

-----------------------------------------------------------------------------
(* Properties *)

\* The "linked-channel -1 dBTP guard" (docs/dev/README.md:54): whatever the
\* source, the target and the changes of rate, no frame leaves the limiter
\* above the ceiling.  A peak is attenuated when it comes out of the delay,
\* although by then it has just left the window of peaks and the gain may have
\* recovered twice.
CeilingKept == heard.limited => heard.level <= Threshold + Guard

\* "A graph-rate switch resets and selects one of those retained states"
\* (docs/dev/README.md:64): no sample taken in before a switch is played after
\* it, at whatever rate it was taken.
NoStaleAudio == heard.limited => heard.fresh

\* Nor is a measurement published that mixes audio of before a switch with
\* audio of after it.
MeasuredSinceSwitch == published \subseteq {"now"}

=============================================================================
