\* A stereo stream, and one more number than it has links.
CONSTANTS
  Channels = {1, 2}
  Ids = {i1, i2, i3, i4, i5}
  Backlog = 1
  Moves = 3
SPECIFICATION Spec
INVARIANT NoReplacementLeft
INVARIANT AbandonedRestored
INVARIANT LingeringDestroyed
PROPERTY CutoverComplete
SYMMETRY MCSymmetry
