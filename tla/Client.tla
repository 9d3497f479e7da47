------------------------------- MODULE Client -------------------------------
(***************************************************************************)
(* A client process above its socket (client/src/function.cpp): what the   *)
(* user asks for, what the net thread does with each frame it gets, and    *)
(* the data both keep in Info.  Info::change and the event that follows it *)
(* are one step here, and the windows are kept only as far as they decide  *)
(* what the user can ask for: the login and sign dialogs, which let        *)
(* nothing else through while they wait, and the chat pages.               *)
(***************************************************************************)
EXTENDS Data, Connection

CONSTANTS Nobody,        \* Info::myself before a login
          Logins,        \* what users type in the login dialog: <<id, password>>
          Signins,       \* what users type in the sign dialog: <<id, password>>
          Searches,      \* the ids users search for
          Ops,           \* the operations users ask for
          MaxAsked       \* bound: requests of all processes together

ASSUME ClientAssumption ==
  /\ Nobody \notin User
  /\ Logins \subseteq User \X Password
  /\ Signins \subseteq User \X Password
  /\ Searches \subseteq User
  /\ MaxAsked \in Nat

VARIABLES waiting,       \* the dialog that waits for an answer
          me,            \* Info::myself.id
          friends,       \* the keys of Info::friendinfo
          view,          \* Info::messageinfo: per peer, as displayed
          found,         \* the keys of Info::findlist
          requests,      \* the keys of Info::requestaddlist
          chats,         \* the friends Vchat::chats has a page for
          asked          \* requests made, all processes together

info == <<me, friends, view, found, requests, chats>>
clientVars == <<waiting, info, asked>>

ClientInit ==
  /\ waiting = [p \in Proc |-> "none"]
  /\ me = [p \in Proc |-> Nobody]
  /\ friends = [p \in Proc |-> {}]
  /\ view = [p \in Proc |-> [u \in User |-> <<>>]]
  /\ found = [p \in Proc |-> {}]
  /\ requests = [p \in Proc |-> {}]
  /\ chats = [p \in Proc |-> {}]
  /\ asked = 0

ClientTypeOK ==
  /\ waiting \in [Proc -> {"none", "login", "signin"}]
  /\ me \in [Proc -> User \cup {Nobody}]
  /\ friends \in [Proc -> SUBSET User]
  /\ found \in [Proc -> SUBSET User]
  /\ requests \in [Proc -> SUBSET User]
  /\ chats \in [Proc -> SUBSET User]
  /\ asked \in 0 .. MaxAsked

-----------------------------------------------------------------------------
\* The user of p asks for op while the window is open.  Everything but the two
\* dialogs is in the windows a login opens.
Ask(p, op) ==
  /\ op \in Ops
  /\ phase[p] # "gone"
  /\ asked < MaxAsked
  /\ asked' = asked + 1
  /\ UNCHANGED <<serverSide, phase, s2c>>

\* Whether Net::write returns 0: a session that stands takes the frame; one the
\* server or the network has ended may take a frame that is lost, or not.
Written(p) ==
  IF addr[p] = NoAddr THEN {FALSE}
  ELSE IF phase[p] = "on" /\ up /\ p \in connections THEN {TRUE}
  ELSE {TRUE, FALSE}

\* A dialog whose button was pressed waits, whatever login or signin returned.
Login(p, id, password) ==
  /\ Ask(p, "login")
  /\ me[p] = Nobody /\ waiting[p] = "none"
  /\ ClientWrite(p, [method |-> "login", id |-> id, password |-> password])
  /\ waiting' = [waiting EXCEPT ![p] = "login"]
  /\ UNCHANGED info

Signin(p, id, password) ==
  /\ Ask(p, "signin")
  /\ me[p] = Nobody /\ waiting[p] = "none"
  /\ ClientWrite(p, [method |-> "signin", id |-> id, password |-> password])
  /\ waiting' = [waiting EXCEPT ![p] = "signin"]
  /\ UNCHANGED info

\* From a chat page.  The message is displayed if it could be written.
Sendmsg(p, u, text) ==
  LET row == [sender |-> me[p], receiver |-> u, message |-> text]
  IN  /\ Ask(p, "sendmsg")
      /\ me[p] # Nobody /\ u \in friends[p] \cap chats[p]
      /\ ClientWrite(p, [method |-> "sendmsg", row |-> row])
      /\ \/ TRUE \in Written(p) /\ view' = [view EXCEPT ![p][u] = Append(@, row)]
         \/ FALSE \in Written(p) /\ UNCHANGED view
      /\ UNCHANGED <<waiting, me, friends, found, requests, chats>>

\* Variant of Find: searching before the login.
FindAnyTime(p, by, u) ==
  /\ Ask(p, by)
  /\ ClientWrite(p, [method |-> "findfd", by |-> by, id |-> me[p], findid |-> u])
  /\ UNCHANGED <<waiting, info>>

Find(p, by, u) ==
  /\ Ask(p, by)
  /\ me[p] # Nobody
  /\ ClientWrite(p, [method |-> "findfd", by |-> by, id |-> me[p], findid |-> u])
  /\ UNCHANGED <<waiting, info>>

Addfriend(p, u) ==
  /\ Ask(p, "addfd")
  /\ me[p] # Nobody /\ u \in found[p]
  /\ ClientWrite(p, FriendFrame("addfd", me[p], u))
  /\ UNCHANGED <<waiting, info>>

\* The event accept_addfd makes a page for the first request still in the list.
PageAfterAccept(p, left) == chats[p] \cup {u \in left : \A v \in left : u <= v}

\* A request leaves the list only when it is accepted.
Accept_addfd(p, u) ==
  /\ Ask(p, "accept_addfd")
  /\ me[p] # Nobody /\ u \in requests[p]
  /\ ClientWrite(p, FriendFrame("accept_addfd", me[p], u))
  /\ \/ /\ TRUE \in Written(p)
        /\ requests' = [requests EXCEPT ![p] = @ \ {u}]
        /\ friends' = [friends EXCEPT ![p] = @ \cup {u}]
        /\ chats' = [chats EXCEPT ![p] = PageAfterAccept(p, requests[p] \ {u})]
     \/ /\ FALSE \in Written(p)
        /\ UNCHANGED <<requests, friends, chats>>
  /\ UNCHANGED <<waiting, me, view, found>>

Refuse_addfd(p, u) ==
  /\ Ask(p, "refuse_addfd")
  /\ me[p] # Nobody /\ u \in requests[p]
  /\ ClientWrite(p, FriendFrame("refuse_addfd", me[p], u))
  /\ UNCHANGED <<waiting, info>>

\* Vchat::open_chat of a friend with no page reads through a null pointer.
OpenChat(p, u) ==
  /\ "open_chat" \in Ops
  /\ u \in friends[p] \ chats[p]
  /\ Leave(p)
  /\ UNCHANGED clientVars

\* What each part of the windows offers.
Dialog(p) ==
  \/ \E login \in Logins : Login(p, login[1], login[2])
  \/ \E signin \in Signins : Signin(p, signin[1], signin[2])

ChatPage(p) == \E u \in User, text \in Text : Sendmsg(p, u, text)

\* A search text without a small letter is taken for an id.
SearchBox(p) == \E u \in Searches, by \in {"id", "name"} : Find(p, by, u)

FoundList(p) == \E u \in User : Addfriend(p, u)

RequestList(p) == \E u \in User : Accept_addfd(p, u) \/ Refuse_addfd(p, u)

UserAsks(p) == Dialog(p) \/ ChatPage(p) \/ SearchBox(p) \/ FoundList(p) \/ RequestList(p)

-----------------------------------------------------------------------------
\* The chat a row is displayed in.
Peer(row, id) == IF row.sender # id THEN row.sender ELSE row.receiver

\* The rows of u's chat among those of a list, in the order of the list.
ChatWith(u, rows, id) == Select(rows, {k \in DOMAIN rows : Peer(rows[k], id) = u})

handle_login(p, value) ==
  /\ me' = [me EXCEPT ![p] = value.id]
  /\ friends' = [friends EXCEPT ![p] = @ \cup value.friends]
  /\ chats' = [chats EXCEPT ![p] = friends'[p]]
  /\ view' = [view EXCEPT ![p] = [u \in User |->
       @[u] \o ChatWith(u, value.rows, value.id)]]
  /\ waiting' = [waiting EXCEPT ![p] = "none"]
  /\ UNCHANGED <<found, requests>>

\* The dialogs leave their waiting state for an answer of their own.
handle_answer(p, dialog) ==
  /\ waiting' = [waiting EXCEPT ![p] = IF @ = dialog THEN "none" ELSE @]
  /\ UNCHANGED info

handle_find(p, value) ==
  /\ found' = [found EXCEPT ![p] = @ \cup {value.id}]
  /\ UNCHANGED <<waiting, me, friends, view, requests, chats>>

\* Variant of handle_msg: displayed in the chat with the receiver.
handle_msgReceiver(p, value) ==
  /\ view' = [view EXCEPT ![p][value.row.receiver] = Append(@, value.row)]
  /\ UNCHANGED <<waiting, me, friends, found, requests, chats>>

handle_msg(p, value) ==
  /\ view' = [view EXCEPT ![p][Peer(value.row, me[p])] = Append(@, value.row)]
  /\ UNCHANGED <<waiting, me, friends, found, requests, chats>>

\* Variants of handle_addfd: the request is listed under the user who is asked;
\* it makes a friend at once.
handle_addfdOwn(p, value) ==
  /\ requests' = [requests EXCEPT ![p] = @ \cup {value.friendid}]
  /\ UNCHANGED <<waiting, me, friends, view, found, chats>>

handle_addfdAtOnce(p, value) ==
  /\ requests' = [requests EXCEPT ![p] = @ \cup {value.userid}]
  /\ friends' = [friends EXCEPT ![p] = @ \cup {value.userid}]
  /\ UNCHANGED <<waiting, me, view, found, chats>>

handle_addfd(p, value) ==
  /\ requests' = [requests EXCEPT ![p] = @ \cup {value.userid}]
  /\ UNCHANGED <<waiting, me, friends, view, found, chats>>

handle_accept(p, value) ==
  /\ friends' = [friends EXCEPT ![p] = @ \cup {value.userid}]
  /\ chats' = [chats EXCEPT ![p] = IF me[p] = Nobody THEN @ ELSE PageAfterAccept(p, requests[p])]
  /\ UNCHANGED <<waiting, me, view, found, requests>>

\* findfd_err and refuse_addfd only refresh the screen.
handle_other == UNCHANGED <<waiting, info>>

\* The net thread has read a frame of one of these methods.
Receive(p, methods) ==
  /\ phase[p] = "on"
  /\ s2c[p] # <<>>
  /\ Head(s2c[p]).method \in methods
  /\ s2c' = [s2c EXCEPT ![p] = Tail(@)]
  /\ UNCHANGED <<serverSide, phase, c2s, asked>>

handle(p) ==
  \/ Receive(p, {"login_suc"}) /\ handle_login(p, Head(s2c[p]))
  \/ Receive(p, {"login_noid", "login_pwerr"}) /\ handle_answer(p, "login")
  \/ Receive(p, {"signin_suc", "signin_idexist"}) /\ handle_answer(p, "signin")
  \/ Receive(p, {"findfd_suc"}) /\ handle_find(p, Head(s2c[p]))
  \/ Receive(p, {"addfd"}) /\ handle_addfd(p, Head(s2c[p]))
  \/ Receive(p, {"accept_addfd"}) /\ handle_accept(p, Head(s2c[p]))
  \/ Receive(p, {"sendmsg"}) /\ handle_msg(p, Head(s2c[p]))
  \/ Receive(p, {"findfd_err", "refuse_addfd"}) /\ handle_other
=============================================================================
