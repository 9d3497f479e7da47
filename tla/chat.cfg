CONSTANTS
  Proc = {c1, c2, c3}
  Addr = {a1, a2, a3}
  NoAddr = NoAddr
  NoConn = NoConn
  Nobody = Nobody
  NoAccount = NoAccount
  User <- Users
  Password = {1, 2}
  Text = {hi}
  InitAccount <- Accounts
  InitFriend <- Friends
  MaxFaults = 0
  Logins <- TriedLogins
  Signins = {}
  Searches = {}
  Ops <- ChatOps
  MaxAsked = 5
  Breaks <- ClientBreaks
  MaxStarts = 0
SPECIFICATION Spec
SYMMETRY Symmetry
INVARIANTS
  RightRecipient
  ViewMatchesTable
  SentIsStored
CHECK_DEADLOCK FALSE
