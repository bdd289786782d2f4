\* One node id, used by one stream after another.
CONSTANTS
  Ids = {n1}
  Apps = {player}
  Anonymous = Anonymous
  Ports = {1, 2}
  FL = FL
  FR = FR
  player = player
  Layouts <- MCLayouts
  NoLabel = NoLabel
  None = None
  Announce = 0
  Settle = 1
  SkipAfter = 2
  Policies <- MCPolicies
  Journaled = TRUE
SPECIFICATION FairSpec
INVARIANT CompleteWhenAdopted
INVARIANT PolicyRespected
PROPERTY SettledWhenAdopted
PROPERTY EveryStreamDecided
