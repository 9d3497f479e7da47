------------------------------ MODULE MCVChat ------------------------------
(***************************************************************************)
(* Instances of VChat for TLC.  Users 1 and 2 have accounts and are        *)
(* friends where a run needs it, as in resource/sql/vchat.sql.             *)
(***************************************************************************)
EXTENDS VChat, TLC

Users == {1, 2}
Accounts == [u \in Users |-> 1]
NoAccounts == [u \in Users |-> NoAccount]
Friends == {<<1, 2>>, <<2, 1>>}
NoFriends == {}
OwnLogins == {<<1, 1>>, <<2, 1>>}
TriedLogins == OwnLogins \cup {<<2, 2>>}
OneSignin == {<<1, 1>>}
NewAccounts == {<<1, 0>>, <<1, 1>>, <<2, 1>>}

ChatOps == {"login", "sendmsg"}
FriendOps == {"login", "id", "addfd", "accept_addfd", "refuse_addfd"}
LiveOps == {"login", "signin", "sendmsg", "id", "addfd"}
AccountOps == {"login", "signin"}
SearchOps == {"login", "id", "name"}
AllOps == ChatOps \cup FriendOps \cup AccountOps \cup SearchOps

NoBreaks == {}
ClientBreaks == {"leave"}
KillBreaks == {"stop", "kill"}
AllBreaks == {"connect", "reset", "leave", "stop", "kill"}

Symmetry == Permutations(Proc) \cup Permutations(Addr) \cup Permutations(Text)
=============================================================================
