\* Two daemons started one after the other, two clients, one application; a
\* listener queues one connection beside the one that is served.
CONSTANTS
  Daemons = {d1, d2}
  Clients = {u1, u2}
  Apps = {a1}
  Domains = {playback}
  Files <- MCFiles
  Broken = Broken
  None = None
  Unset = Unset
  Backlog = 1
  Overlap = FALSE
SPECIFICATION FairSpec
INVARIANT PathLeadsToDaemon
INVARIANT AnsweredInForce
PROPERTY EveryRequestAnswered
