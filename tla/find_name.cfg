CONSTANTS
  Proc = {c1, c2}
  Addr = {a1, a2}
  NoAddr = NoAddr
  NoConn = NoConn
  Nobody = Nobody
  NoAccount = NoAccount
  User <- Users
  Password = {1}
  Text = {hi}
  InitAccount <- Accounts
  InitFriend <- NoFriends
  MaxFaults = 0
  Logins <- OwnLogins
  Signins = {}
  Searches = {2}
  Ops <- SearchOps
  MaxAsked = 3
  Breaks <- NoBreaks
  MaxStarts = 0
SPECIFICATION Spec
PROPERTIES
  FindByNameFinds
CHECK_DEADLOCK FALSE
