CONSTANTS
  MaxFrames = 3
  MaxKeys = 2
  MaxEntries = 1
SPECIFICATION FairSpec
INVARIANTS
  LostAreRaced
  TypeOK
  NothingStale
  OneAfterStop
PROPERTIES
  ChangeIsDrawn
  ExitEnds
CHECK_DEADLOCK FALSE
