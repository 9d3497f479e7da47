CONSTANTS
  Proc = {c1, c2}
  Addr = {a1, a2}
  NoAddr = NoAddr
  NoConn = NoConn
  Nobody = Nobody
  NoAccount = NoAccount
  User <- Users
  Password = {1}
  Text = {hi}
  InitAccount <- Accounts
  InitFriend <- Friends
  MaxFaults = 0
  Logins <- OwnLogins
  Signins <- OneSignin
  Searches = {2}
  Ops <- LiveOps
  MaxAsked = 4
  Breaks <- ClientBreaks
  MaxStarts = 0
SPECIFICATION FairSpec
PROPERTIES
  Answered
  Displayed
  RequestArrives
CHECK_DEADLOCK FALSE
