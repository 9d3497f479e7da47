CONSTANTS
  BodySize = 2
  MaxSize = 3
  Indent = 1
  MaxSent = 2
  MaxRelayed = 1
  MaxSaved = 4
SPECIFICATION Spec
INVARIANTS
  TypeOK
  ServedIntact
  ReadIntact
  
CHECK_DEADLOCK FALSE
