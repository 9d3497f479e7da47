CONSTANTS
  Proc = {c1, c2}
  Addr = {a1, a2}
  NoAddr = NoAddr
  NoConn = NoConn
  Nobody = Nobody
  NoAccount = NoAccount
  User <- Users
  Password = {1}
  Text = {hi, yo}
  InitAccount <- Accounts
  InitFriend <- Friends
  MaxFaults = 1
  Logins <- OwnLogins
  Signins = {}
  Searches = {}
  Ops <- ChatOps
  MaxAsked = 4
  Breaks <- AllBreaks
  MaxStarts = 1
SPECIFICATION Spec
SYMMETRY Symmetry
INVARIANTS
  GhostsAreFaults
  WildOnlyAfterDisconnect
  ViewMatchesTable
PROPERTIES
  KeepsConversations
CHECK_DEADLOCK FALSE
