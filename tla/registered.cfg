CONSTANTS
  Proc = {c1, c2}
  Addr = {a1, a2}
  NoAddr = NoAddr
  NoConn = NoConn
  Nobody = Nobody
  NoAccount = NoAccount
  User <- Users
  Password = {0, 1}
  Text = {hi}
  InitAccount <- NoAccounts
  InitFriend <- NoFriends
  MaxFaults = 0
  Logins <- OwnLogins
  Signins <- NewAccounts
  Searches = {}
  Ops <- AccountOps
  MaxAsked = 3
  Breaks <- NoBreaks
  MaxStarts = 0
SPECIFICATION Spec
SYMMETRY Symmetry
INVARIANTS
  RegisteredIsFound
CHECK_DEADLOCK FALSE
