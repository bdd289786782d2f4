CONSTANTS
  Domains = {playback, capture}
  Nodes = {n1}
  Levels <- MCLevels
  Configs <- MCConfigs
  Default <- MCDefault
  playback = playback
  capture = capture
  n1 = n1
SPECIFICATION FairSpec
INVARIANT TypeOK
PROPERTIES AdjustedWithinLimits SlewsTowardTarget Converges
