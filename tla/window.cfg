CONSTANTS
  User <- Users
  About = About
  Help = Help
  Empty = Empty
  Typed <- Texts
  Digits = {"2"}
  Names = {}
  Matches <- Matching
  Said <- Saying
  Starts <- WindowStarts
  MaxFrames = 1
  MaxQueue = 2
  MaxAhead = 1
SPECIFICATION Spec
SYMMETRY Symmetry
INVARIANTS
  WindowTypeOK
  OpenIffList
  EscapeOnAPage
  PreviewKept
  CursorNotBehind
  NullNeedsMissingPage
  ActsOnChosen
  ListCurrent
  AnswersAreAsked
CHECK_DEADLOCK FALSE
