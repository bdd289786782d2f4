---------------------------- MODULE PeakLimiter ----------------------------
(***************************************************************************)
(* The true-peak limiter (TruePeakLimiter of normalization/dsp/gain.rs),   *)
(* as operators on its state.  Levels and gains are whole decibels, a      *)
(* frame is its level, which bounds that of every channel, and whether its *)
(* samples came in since the limiter was last chosen.                      *)
(***************************************************************************)
EXTENDS Integers, Sequences

CONSTANTS
  Lookahead,  \* lookahead_frames
  Threshold,  \* the ceiling less the internal guard
  Quiet       \* the level of digital silence

ASSUME LookaheadAssumption == Lookahead \in Nat \ {0}
ASSUME LevelAssumption == Threshold \in Int /\ Quiet \in Int /\ Quiet <= Threshold

Slots == 0 .. Lookahead - 1

Frame(level, fresh) == [level |-> level, fresh |-> fresh]

\* What TruePeakLimiter::reset leaves: no gain reduction, no samples.
Cleared ==
  [delay    |-> [slot \in Slots |-> Frame(Quiet, TRUE)],
   write    |-> 0,
   window   |-> <<>>,
   sequence |-> 0,
   gain     |-> 0]

\* The last entry of the window that is louder than the peak, or 0.
LastLouder(w, peak) ==
  CHOOSE n \in 0 .. Len(w) :
    /\ n = 0 \/ w[n].peak > peak
    /\ \A i \in n + 1 .. Len(w) : w[i].peak <= peak

\* The first entry that is not older than earliest, or the one after the last.
FirstRecent(w, earliest) ==
  CHOOSE n \in 1 .. Len(w) + 1 :
    /\ n = Len(w) + 1 \/ w[n].at >= earliest
    /\ \A i \in 1 .. n - 1 : w[i].at < earliest

\* Peaks no louder than the new one are popped from the back ...
Queued(lim, peak) ==
  Append(SubSeq(lim.window, 1, LastLouder(lim.window, peak)),
         [at |-> lim.sequence, peak |-> peak])

\* Slip: the window is a frame too short.
EarliestLate(lim) ==
  IF lim.sequence >= Lookahead - 2 THEN lim.sequence - (Lookahead - 2) ELSE 0

\* The oldest frame of the window: sequence.saturating_sub(lookahead - 1).
Earliest(lim) ==
  IF lim.sequence >= Lookahead - 1 THEN lim.sequence - (Lookahead - 1) ELSE 0

\* ... and peaks that have left the lookahead from the front.
Window(lim, peak) ==
  LET w == Queued(lim, peak) IN SubSeq(w, FirstRecent(w, Earliest(lim)), Len(w))

Required(peak) == IF peak > Threshold THEN Threshold - peak ELSE 0

\* Attenuation is immediate; the gain recovers by what rise allows.
Gain(lim, peak, rise) ==
  LET required == Required(Head(Window(lim, peak)).peak) IN
  IF required < lim.gain THEN required
  ELSE IF lim.gain + rise < 0 THEN lim.gain + rise ELSE 0

\* TruePeakLimiter::process_frame: the limiter and the frame it lets out, the
\* one that came in Lookahead frames before.
Limited(lim, frame, rise) ==
  [delay    |-> [lim.delay EXCEPT ![lim.write] = frame],
   write    |-> (lim.write + 1) % Lookahead,
   window   |-> Window(lim, frame.level),
   sequence |-> lim.sequence + 1,
   gain     |-> Gain(lim, frame.level, rise)]

Let(lim, frame, rise) ==
  Frame(lim.delay[lim.write].level + Gain(lim, frame.level, rise),
        lim.delay[lim.write].fresh)

=============================================================================
