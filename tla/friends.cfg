CONSTANTS
  Proc = {c1, c2}
  Addr = {a1, a2}
  NoAddr = NoAddr
  NoConn = NoConn
  Nobody = Nobody
  NoAccount = NoAccount
  User <- Users
  Password = {1}
  Text = {hi}
  InitAccount <- Accounts
  InitFriend <- NoFriends
  MaxFaults = 1
  Logins <- OwnLogins
  Signins = {}
  Searches = {2}
  Ops <- AllOps
  MaxAsked = 6
  Breaks <- KillBreaks
  MaxStarts = 1
SPECIFICATION Spec
SYMMETRY Symmetry
INVARIANTS
  TypeOK
  RightRecipient
  FriendDrift
  RequestsReplayed
  FriendsBacked
CHECK_DEADLOCK FALSE
