------------------------------- MODULE VChat -------------------------------
(***************************************************************************)
(* The whole system: client processes, the sessions between them and the   *)
(* server, the server's handlers with their cache, and the database.       *)
(***************************************************************************)
EXTENDS Service, Client

CONSTANTS Breaks,        \* what goes wrong: "connect", "reset", "leave", "stop", "kill"
          MaxStarts      \* bound: restarts of the server

ASSUME VChatAssumption == MaxStarts \in Nat

VARIABLE starts          \* restarts so far

vars == <<tables, faults, netVars, cache, clientVars, starts>>

Init ==
  /\ StoreInit
  /\ ConnectionInit
  /\ ServiceInit
  /\ ClientInit
  /\ starts = 0

-----------------------------------------------------------------------------
\* A step of the sessions alone.
Session(p) ==
  /\ \/ \E a \in Addr : Accept(p, a)
     \/ WriteDone(p)
     \/ ReadError(p)
     \/ WriteError(p)
     \/ StaleHandler(p)
     \/ NetStops(p)
     \/ "connect" \in Breaks /\ ConnectFails(p)
     \/ "reset" \in Breaks /\ Reset(p)
     \/ "leave" \in Breaks /\ Leave(p)
  /\ UNCHANGED <<tables, faults, cache, clientVars, starts>>

Serves(p) == Service(p) /\ UNCHANGED <<clientVars, starts>>

Killed(p) ==
  /\ "kill" \in Breaks
  /\ Serve(p, "accept_addfd") /\ AcceptKilled(p, Head(c2s[p]))
  /\ UNCHANGED <<clientVars, starts>>

Handles(p) == handle(p) /\ UNCHANGED <<tables, faults, cache, starts>>

Asks(p) == (UserAsks(p) \/ \E u \in User : OpenChat(p, u)) /\ UNCHANGED <<tables, faults, cache, starts>>

Stops ==
  /\ "stop" \in Breaks
  /\ ServerStops
  /\ UNCHANGED <<tables, faults, cache, clientVars, starts>>

\* Variant of Starts: the connections of the users outlive the process.
StartsWithCache ==
  /\ starts < MaxStarts
  /\ starts' = starts + 1
  /\ ServerStarts
  /\ UNCHANGED <<tables, faults, cache, clientVars>>

\* Variant of Starts: the tables are made anew.
StartsAnew ==
  /\ starts < MaxStarts
  /\ starts' = starts + 1
  /\ ServerStarts
  /\ messageinfo' = <<>>
  /\ online' = [u \in User |-> NoConn]
  /\ apply' = [u \in User |-> <<>>]
  /\ UNCHANGED <<userinfo, friendinfo, faults, clientVars>>

\* The caches of the new process are empty, the tables are as they were.
Starts ==
  /\ starts < MaxStarts
  /\ starts' = starts + 1
  /\ ServerStarts
  /\ online' = [u \in User |-> NoConn]
  /\ apply' = [u \in User |-> <<>>]
  /\ UNCHANGED <<tables, faults, clientVars>>

Next ==
  \/ \E p \in Proc : Session(p) \/ Serves(p) \/ Killed(p) \/ Handles(p) \/ Asks(p)
  \/ Stops
  \/ Starts

Spec == Init /\ [][Next]_vars

\* The server's io_context and the client's net thread run every handler that
\* is ready.  Nobody has to connect, to ask for anything, to leave, or to start
\* the server again.
Fairness ==
  \A p \in Proc :
    /\ WF_vars(Serves(p))
    /\ WF_vars(Handles(p))
    /\ WF_vars(WriteDone(p) /\ UNCHANGED <<tables, faults, cache, clientVars, starts>>)
    /\ WF_vars(NetStops(p) /\ UNCHANGED <<tables, faults, cache, clientVars, starts>>)

FairSpec == Spec /\ Fairness

-----------------------------------------------------------------------------
(* What the server has written to the client of p and the client has not   *)
(* handled yet, in order.                                                  *)
Stream(p) == s2c[p] \o outq[p]

\* Whom a relayed frame is meant for.  (An answer that refuses a request is
\* left out: the code writes it to the user who refuses.)
Addressee(frame) == IF frame.method = "sendmsg" THEN frame.row.receiver ELSE frame.friendid

Relayed == {"sendmsg", "addfd", "accept_addfd"}

\* The client of p is connected to a server that has it as u's connection, the
\* client has handled its login, and nothing has gone wrong so far: no Store
\* call failed, no destroyed object was used.
Live(p, u) ==
  /\ up /\ phase[p] = "on" /\ p \in connections
  /\ me[p] = u /\ online[u] = p
  /\ faults = 0 /\ ~wild

From(rows, sender, receiver) ==
  Select(rows, {k \in DOMAIN rows : rows[k].sender = sender /\ rows[k].receiver = receiver})

\* The messages among the frames of a channel.
Messages(channel) ==
  LET frames == Select(channel, {k \in DOMAIN channel : channel[k].method = "sendmsg"})
  IN  [k \in DOMAIN frames |-> frames[k].row]

\* Every variable but view: what is displayed is compared with the table below.
TypeOK ==
  /\ StoreTypeOK
  /\ ConnectionTypeOK(ClientFrame, ServerFrame)
  /\ ServiceTypeOK
  /\ ClientTypeOK
  /\ starts \in 0 .. MaxStarts

\* Friendship is mutual: accepting a request writes two rows in two committed
\* statements, with an id read back in between, and a friend added by one
\* accept may be added again by another; as long as no Store call failed and
\* the process was not killed between the two, each user has as many rows for
\* the other as the other has for him.
FriendSymmetric ==
  faults = 0 /\ "kill" \notin Breaks
    => \A u, v \in User : friendinfo[<<u, v>>] = friendinfo[<<v, u>>]

\* How often the server process has ended.
Ends == starts + (IF up THEN 0 ELSE 1)

\* Killing the process costs at most one row: a user has at most as many rows
\* for another, over those the other has for him, as the server has ended.
FriendDrift ==
  faults = 0 => \A u, v \in User :
    friendinfo[<<u, v>>] <= friendinfo[<<v, u>>] + Ends

\* A destroyed Connection is used (through Cache::online, which no disconnect
\* clears, or by a cancelled handler) only after the client of some accepted
\* connection has gone away: with every client still there, no order of
\* requests, writes and restarts gets the server to use one.
WildOnlyAfterDisconnect ==
  wild => \E p \in Proc : addr[p] # NoAddr /\ phase[p] \in {"off", "gone"}

\* A frame relayed to a user reaches a client that is, by the time it reads
\* the frame, logged in as that user: Cache::online is keyed by what the user
\* typed, and a window that was refused a login may try as someone else.
RightRecipient ==
  \A p \in Proc : phase[p] = "on" /\ faults = 0 /\ ~wild =>
    \A k \in DOMAIN Stream(p) : Stream(p)[k].method \in Relayed =>
      \/ me[p] = Addressee(Stream(p)[k])
      \/ \E j \in 1 .. k - 1 : /\ Stream(p)[j].method = "login_suc"
                               /\ Stream(p)[j].id = Addressee(Stream(p)[k])

\* What a logged-in user sees from another user, together with what is on its
\* way to him, is what the database holds, in the same order: the list sent
\* with login_suc and the relayed messages neither overlap nor leave a gap.
ViewMatchesTable ==
  \A p \in Proc, u, w \in User : Live(p, u) /\ w # u =>
    From(view[p][w], w, u) \o From(Messages(Stream(p)), w, u) = From(messageinfo, w, u)

\* A message the sender sees in his own window is in the database or on its
\* way there, as long as his session lasts.
SentIsStored ==
  \A p \in Proc, u, w \in User : Live(p, u) /\ w # u =>
    Len(From(view[p][w], u, w)) <= Len(From(messageinfo, u, w)) + Len(From(Messages(c2s[p]), u, w))

\* A message whose insert failed is relayed all the same and gone at the next
\* login: what a user sees from another is ahead of the database by at most one
\* message for each Store call that failed, and never without one.
GhostsAreFaults ==
  \A p \in Proc, u, w \in User :
    up /\ phase[p] = "on" /\ me[p] = u /\ online[u] = p /\ w # u /\ ~wild =>
      Len(From(view[p][w], w, u)) + Len(From(Messages(Stream(p)), w, u))
        <= Len(From(messageinfo, w, u)) + faults

\* A request that waited for a user who was not seen yet is on his list once
\* his login is handled, or still on its way, or has been accepted.
RequestsReplayed ==
  \A p \in Proc, u \in User : Live(p, u) =>
    \A k \in DOMAIN apply[u] :
      \/ apply[u][k] \in requests[p] \cup friends[p]
      \/ \E j \in DOMAIN Stream(p) : Stream(p)[j] = FriendFrame("addfd", apply[u][k], u)

\* A friend in a logged-in user's list is backed by a row in the database, or
\* the answer that makes one is on its way to the server.
FriendsBacked ==
  \A p \in Proc, u \in User : Live(p, u) =>
    \A w \in friends[p] :
      \/ friendinfo[<<u, w>>] > 0
      \/ \E k \in DOMAIN c2s[p] : c2s[p][k] = FriendFrame("accept_addfd", u, w)

\* Every login and registration that reached the session gets an answer its
\* dialog understands, unless the session ends first.
Answered ==
  \A p \in Proc :
    (\E k \in DOMAIN c2s[p] : c2s[p][k].method \in {"login", "signin"})
      ~> (waiting[p] = "none" \/ phase[p] # "on")

\* Every stored message is displayed to a receiver who is logged in, unless
\* his session ends, or moves to another window, first.  (Two of the requests
\* are the logins of sender and receiver.)
Displayed ==
  \A p \in Proc, u \in User : \A w \in User \ {u}, n \in 1 .. MaxAsked - 2 :
    (Live(p, u) /\ Len(From(messageinfo, w, u)) >= n)
      ~> (Len(From(view[p][w], w, u)) >= n \/ ~Live(p, u))

\* Every friend request that reached the server's socket comes to the list of
\* the user it is for, unless his session or the sender's ends first.
RequestArrives ==
  \A p, q \in Proc, u, w \in User :
    (Live(p, u) /\ \E k \in DOMAIN c2s[q] : c2s[q][k] = FriendFrame("addfd", w, u))
      ~> (w \in requests[p] \/ ~Live(p, u) \/ phase[q] # "on")

\* The user who is logged in to the window of p and stays so.
Reader(p) == IF me[p] # Nobody /\ Live(p, me[p]) THEN me[p] ELSE Nobody

\* The table keeps every message it has got through crashes and restarts, and
\* a window shows a user, from each other user, what the table has, one after
\* the other and never less, from his login on until his session ends, or
\* moves, or something goes wrong.
Promise == INSTANCE Conversation WITH
  Window <- Proc,
  kept <- [u \in User |-> [w \in User |-> IF w = u THEN <<>> ELSE From(messageinfo, w, u)]],
  reader <- [p \in Proc |-> Reader(p)],
  shown <- [p \in Proc |-> [w \in User |->
              IF Reader(p) \in {Nobody, w} THEN <<>> ELSE From(view[p][w], w, Reader(p))]]

KeepsConversations == Promise!Spec

-----------------------------------------------------------------------------
(* Statements of the program about itself that its code does not keep.     *)

\* "Registered, please log in" (dashboard.cpp): a registered account is one
\* the login finds.
RegisteredIsFound ==
  \A u \in User : userinfo[u] # NoAccount => getPersional(u)

\* "find username" (function.cpp): searching for the name of an existing
\* account, no Store call failing, is not answered with findfd_err.
FindByNameFinds ==
  [][\A p \in Proc :
       (/\ c2s[p] # <<>> /\ c2s'[p] = Tail(c2s[p]) /\ up
        /\ Head(c2s[p]).method = "findfd" /\ getPersional(Head(c2s[p]).findid)
        /\ faults' = faults)
         => \A q \in Proc : outq'[q] # Append(outq[q], Reply("findfd_err"))]_vars

\* "You have added ..., you can start chatting now" (vchat.cpp): a friend of a
\* logged-in user has a chat page.
FriendHasPage ==
  \A p \in Proc : me[p] # Nobody => friends[p] \subseteq chats[p]
=============================================================================
