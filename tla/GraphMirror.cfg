\* Three ids, used again and again, beside a speaker that stays: enough for a
\* stream, its port and a link, which may go in one go.
CONSTANTS
  Ids = {i1, i2, i3, speaker, jack}
  Speaker = speaker
  Jack = jack
  Apps = {player}
  None = None
  Backlog = 3
SPECIFICATION FairSpec
INVARIANT MirrorFollows
INVARIANT MirrorClosed
PROPERTY EveryStreamInformed
