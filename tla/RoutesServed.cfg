\* Liveness of discovery, installation and repair under every failure.
CONSTANTS
  Streams = {s1, s2}
  Channels = {c1}
  Peers = {p1}
  None = None
  Faults = {"slow", "remove", "activate", "deactivate", "filter", "journal", "load"}
  Commands = {"enable", "disable", "reconfigure", "stop", "crash"}
  Policies <- FullPolicy
  SplitMoves = FALSE
  Others = {"device", "break"}
SPECIFICATION FairSpec
PROPERTY EveryStreamServed
PROPERTY BrokenRouteHealed
