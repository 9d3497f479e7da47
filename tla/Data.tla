-------------------------------- MODULE Data --------------------------------
(***************************************************************************)
(* The values both programs exchange: the records of data.hpp and the      *)
(* frames of package.h.  A frame is its method number (here its name) and  *)
(* the JSON members its receiver reads.  User names are left out: an id    *)
(* determines its name, and no handler decides anything by a name.         *)
(***************************************************************************)
EXTENDS Order

CONSTANTS User,          \* account ids: C++ ints, also what garbage can be
          Password,      \* passwords: C++ ints
          Text           \* bodies of chat messages

ASSUME DataAssumption == User \subseteq Nat /\ Password \subseteq Nat

Message == [sender : User, receiver : User, message : Text]

\* Frames that one client sends and another may get as it was sent.
RelayFrame ==
  [method : {"addfd", "accept_addfd", "refuse_addfd"}, userid : User, friendid : User]
    \cup [method : {"sendmsg"}, row : Message]

\* Frames a client sends.
ClientFrame ==
  [method : {"signin", "login"}, id : User, password : Password]
    \cup [method : {"findfd"}, by : {"id", "name"}, id : User, findid : User]
    \cup RelayFrame

\* Frames the server sends.
ServerFrame ==
  [method : {"signin_suc", "signin_idexist", "login_noid", "login_pwerr", "findfd_err"}]
    \cup [method : {"login_suc"}, id : User, friends : SUBSET User, rows : Seq(Message)]
    \cup [method : {"findfd_suc"}, id : User]
    \cup RelayFrame

Reply(method) == [method |-> method]

FriendFrame(method, from, to) == [method |-> method, userid |-> from, friendid |-> to]
=============================================================================
