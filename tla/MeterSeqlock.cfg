\* Three measurements, three publications, both kinds of build.
CONSTANTS
  FieldCount = 3
  Cycles = 3
SPECIFICATION FairSpec
INVARIANT Coherent
INVARIANT NeverStale
PROPERTY Delivered
