\* Two mono streams, two devices, every failure and every foreign action.
CONSTANTS
  Streams = {s1, s2}
  Channels = {c1}
  Peers = {p1, p2}
  None = None
  Faults = {"slow", "remove", "activate", "deactivate", "filter", "journal", "load"}
  Commands = {"enable", "disable", "reconfigure", "stop", "crash"}
  Policies <- AnyPolicy
  SplitMoves = TRUE
  Others = {"device", "unlink", "break"}
SPECIFICATION Spec
INVARIANT TypeOK
INVARIANT JournalCoversRoutes
INVARIANT ReplacementsOwned
INVARIANT PolicyInForce
INVARIANT SilentWhileStaging
PROPERTY ImplementsWriteAhead
PROPERTY FailedRequestKeepsMode
SYMMETRY MCSymmetry
