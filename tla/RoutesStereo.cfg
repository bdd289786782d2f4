\* One stereo stream, moved as a whole; nobody else breaks the filtered route,
\* the server answers in time and the journal is readable.
CONSTANTS
  Streams = {s1}
  Channels = {c1, c2}
  Peers = {p1, p2}
  None = None
  Faults = {"remove", "activate", "deactivate", "filter", "journal"}
  Commands = {"enable", "disable", "reconfigure", "stop", "crash"}
  Policies <- AnyPolicy
  SplitMoves = FALSE
  Others = {"device", "unlink"}
SPECIFICATION FairSpec
INVARIANT SeveredRecorded
INVARIANT CleanStop
PROPERTY FailedInstallRestores
PROPERTY SeveredRestored
