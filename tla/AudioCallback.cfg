\* Two prepared rates, mono, a lookahead of two frames.
CONSTANTS
  Lookahead = 2
  Threshold = 0
  Quiet <- MCQuiet
  Rates = {r1, r2}
  Unprepared = Unprepared
  Invalid = Invalid
  Default = r1
  None = None
  Channels = {c1}
  Levels <- MCLevels
  Targets <- MCTargets
  Guard = 2
  Rises = {1}
  Longest = 2
  Frames = 4
SPECIFICATION Spec
INVARIANT CeilingKept
INVARIANT NoStaleAudio
INVARIANT MeasuredSinceSwitch
