CONSTANT MaxPressed = 4
SPECIFICATION FairSpec
INVARIANTS
  TypeOK
  AnswersAwaited
PROPERTIES
  OneRequestWaits
  WaitEnds
CHECK_DEADLOCK FALSE
