\* Three processes with two ids, one stream.
CONSTANTS
  Nodes = {n1}
  Pids = {p1, p2}
  None = None
  Lives = 3
  Ticks = 2
  Publications = 2
SPECIFICATION MonitorSpec
INVARIANT AccountingSurvivesRestarts
PROPERTY StallsTrue
SYMMETRY MCSymmetry
CHECK_DEADLOCK FALSE
