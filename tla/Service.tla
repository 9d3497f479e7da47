------------------------------ MODULE Service ------------------------------
(***************************************************************************)
(* The server's request handlers (server/src/service/service.cpp) and the  *)
(* cache they share: the connection each user was last seen on, and the    *)
(* friend requests waiting for users who were never seen.  A handler runs  *)
(* to its end inside the read handler of the connection the request came   *)
(* on, so it is one step.  Neither a logout nor the end of a connection    *)
(* takes anything out of the cache.                                        *)
(***************************************************************************)
EXTENDS Store, Connection

CONSTANT NoConn          \* the null pointer in Cache::online

ASSUME ServiceAssumption == NoConn \notin Proc

VARIABLES online,        \* user -> the session whose object the pointer was made for
          apply          \* addfriendapply: who asked each user, in order

cache == <<online, apply>>

ServiceInit ==
  /\ online = [u \in User |-> NoConn]
  /\ apply = [u \in User |-> <<>>]

ServiceTypeOK ==
  /\ online \in [User -> Proc \cup {NoConn}]
  /\ apply \in [User -> Seq(User)]

-----------------------------------------------------------------------------
\* if(online[u]) online[u]->write(frame)
Deliver(u, frame) ==
  IF online[u] = NoConn THEN UNCHANGED <<up, outq, wild>>
                        ELSE WriteThrough(online[u], frame)

\* The JSON value of a stored request, written again at the login of u.
Replay(u) == [k \in DOMAIN apply[u] |-> FriendFrame("addfd", apply[u][k], u)]

\* Variant of signin: a registration that fails is not answered.
signinSilent(p, value) ==
  \E bad \in SUBSET {"insertPersional"} :
    LET done == userinfo[value.id] = NoAccount /\ bad = {}
    IN  /\ Failing({"insertPersional"}, bad)
        /\ userinfo' = IF done THEN insertPersional(value.id, value.password) ELSE userinfo
        /\ IF done THEN Write(p, <<Reply("signin_suc")>>) ELSE UNCHANGED outq
        /\ UNCHANGED <<friendinfo, messageinfo, cache, up, wild>>

\* insertPersional fails for a taken id and for any other reason alike.
signin(p, value) ==
  \E bad \in SUBSET {"insertPersional"} :
    LET done == userinfo[value.id] = NoAccount /\ bad = {}
    IN  /\ Failing({"insertPersional"}, bad)
        /\ userinfo' = IF done THEN insertPersional(value.id, value.password) ELSE userinfo
        /\ Write(p, <<Reply(IF done THEN "signin_suc" ELSE "signin_idexist")>>)
        /\ UNCHANGED <<friendinfo, messageinfo, cache, up, wild>>

\* The account is looked up for its password, then once more with its friends
\* and messages; if that second look fails, the id in the answer is whatever
\* the memory held.
LoginCalls == {"getPersional", "getUser.getPersional", "getFriend", "getMessage"}

LoginAnswer(p, value, bad) ==
  \E id \in IF "getUser.getPersional" \in bad THEN User ELSE {value.id} :
    Write(p, <<[method |-> "login_suc", id |-> id,
                friends |-> IF "getFriend" \in bad THEN {} ELSE getFriend(value.id),
                rows |-> IF "getMessage" \in bad THEN <<>> ELSE getMessage(value.id)]>>
             \o Replay(value.id))

\* Variant of login: the connection is remembered before the password is checked.
loginUnchecked(p, value) ==
  \E bad \in SUBSET LoginCalls :
    /\ Failing(LoginCalls, bad)
    /\ online' = [online EXCEPT ![value.id] = p]
    /\ IF "getPersional" \in bad \/ ~getPersional(value.id)
       THEN Write(p, <<Reply("login_noid")>>)
       ELSE IF userinfo[value.id] = value.password
            THEN LoginAnswer(p, value, bad)
            ELSE Write(p, <<Reply("login_pwerr")>>)
    /\ UNCHANGED <<tables, apply, up, wild>>

login(p, value) ==
  \E bad \in SUBSET LoginCalls :
    /\ Failing(LoginCalls, bad)
    /\ \/ /\ "getPersional" \in bad \/ ~getPersional(value.id)
          /\ Write(p, <<Reply("login_noid")>>)
          /\ UNCHANGED online
       \/ /\ "getPersional" \notin bad /\ getPersional(value.id)
          /\ userinfo[value.id] = value.password
          /\ online' = [online EXCEPT ![value.id] = p]
          /\ LoginAnswer(p, value, bad)
       \/ /\ "getPersional" \notin bad /\ getPersional(value.id)
          /\ userinfo[value.id] # value.password
          /\ Write(p, <<Reply("login_pwerr")>>)
          /\ UNCHANGED online
    /\ UNCHANGED <<tables, apply, up, wild>>

\* Variants of sendmsg: only messages for users seen before are stored; only
\* those for users not seen yet; the message is stored, not relayed.
sendmsgStoresPresent(p, value) ==
  /\ messageinfo' = IF online[value.row.receiver] # NoConn
                    THEN insertMessage(value.row) ELSE messageinfo
  /\ Deliver(value.row.receiver, value)
  /\ UNCHANGED <<userinfo, friendinfo, faults, cache>>

sendmsgStoresAbsent(p, value) ==
  /\ messageinfo' = IF online[value.row.receiver] = NoConn
                    THEN insertMessage(value.row) ELSE messageinfo
  /\ Deliver(value.row.receiver, value)
  /\ UNCHANGED <<userinfo, friendinfo, faults, cache>>

sendmsgStoresOnly(p, value) ==
  /\ messageinfo' = insertMessage(value.row)
  /\ UNCHANGED <<userinfo, friendinfo, faults, cache, up, outq, wild>>

\* The message is relayed whether or not it was stored.
sendmsg(p, value) ==
  \E bad \in SUBSET {"insertMessage"} :
    /\ Failing({"insertMessage"}, bad)
    /\ messageinfo' = IF bad = {} THEN insertMessage(value.row) ELSE messageinfo
    /\ Deliver(value.row.receiver, value)
    /\ UNCHANGED <<userinfo, friendinfo, cache>>

\* The answer goes to where the asking user was last seen, not to p.
find(p, value) ==
  \E bad \in SUBSET {"getPersional"} :
    LET hit == IF value.by = "id" THEN getPersional(value.findid) /\ bad = {}
                                  ELSE getPersionalByName(value.findid)
    IN  /\ Failing({"getPersional"}, bad)
        /\ Deliver(value.id, IF hit THEN [method |-> "findfd_suc", id |-> value.findid]
                                    ELSE Reply("findfd_err"))
        /\ UNCHANGED <<tables, cache>>

\* Variants of addfriend: the request goes back to the user who asks; every
\* request waits for a login.
addfriendToSender(p, value) ==
  /\ Deliver(value.userid, value)
  /\ UNCHANGED <<tables, faults, cache>>

addfriendQueues(p, value) ==
  /\ apply' = [apply EXCEPT ![value.friendid] = Append(@, value.userid)]
  /\ UNCHANGED <<tables, faults, online, up, outq, wild>>

\* Queued only for a user never seen since the server started.
addfriend(p, value) ==
  /\ apply' = IF online[value.friendid] = NoConn
              THEN [apply EXCEPT ![value.friendid] = Append(@, value.userid)]
              ELSE apply
  /\ Deliver(value.friendid, value)
  /\ UNCHANGED <<tables, faults, online>>

\* The requester is value.friendid, the accepter value.userid.  The id for the
\* second row is read back from the requester's account; where that fails it
\* is garbage.
AcceptCalls == {"insertFriend", "getPersional", "insertFriend again"}

Requester(value, bad) ==
  IF userinfo[value.friendid] # NoAccount /\ "getPersional" \notin bad
  THEN {value.friendid} ELSE User

FirstRow(value, bad) ==
  IF "insertFriend" \in bad THEN friendinfo
  ELSE insertFriend(friendinfo, value.friendid, value.userid)

BothRows(value, requester, bad) ==
  IF "insertFriend again" \in bad THEN FirstRow(value, bad)
  ELSE insertFriend(FirstRow(value, bad), value.userid, requester)

accept_addfd(p, value) ==
  \E bad \in SUBSET AcceptCalls :
    /\ Failing(AcceptCalls, bad)
    /\ \E requester \in Requester(value, bad) :
         /\ friendinfo' = BothRows(value, requester, bad)
         /\ Deliver(requester, value)
    /\ UNCHANGED <<userinfo, messageinfo, cache>>

\* Variant of AcceptKilled: the handler is left between the two inserts, and
\* the server goes on.
AcceptLeft(p, value) ==
  /\ friendinfo' = FirstRow(value, {})
  /\ UNCHANGED <<userinfo, messageinfo, faults, cache, up, outq, wild>>

\* The process is killed between the two inserts: the first one is committed.
AcceptKilled(p, value) ==
  /\ friendinfo' = FirstRow(value, {})
  /\ up' = FALSE
  /\ UNCHANGED <<userinfo, messageinfo, faults, cache, outq, wild>>

\* The answer goes to value.userid, the user who refuses.
refuse_addfd(p, value) ==
  /\ Deliver(value.userid, value)
  /\ UNCHANGED <<tables, faults, cache>>

-----------------------------------------------------------------------------
\* The read handler of p has a whole frame of this method.
Serve(p, method) ==
  /\ up
  /\ p \in connections
  /\ c2s[p] # <<>>
  /\ Head(c2s[p]).method = method
  /\ c2s' = [c2s EXCEPT ![p] = Tail(@)]
  /\ UNCHANGED <<connections, addr, stale, phase, s2c>>

Service(p) ==
  \/ Serve(p, "signin") /\ signin(p, Head(c2s[p]))
  \/ Serve(p, "login") /\ login(p, Head(c2s[p]))
  \/ Serve(p, "sendmsg") /\ sendmsg(p, Head(c2s[p]))
  \/ Serve(p, "findfd") /\ find(p, Head(c2s[p]))
  \/ Serve(p, "addfd") /\ addfriend(p, Head(c2s[p]))
  \/ Serve(p, "accept_addfd") /\ accept_addfd(p, Head(c2s[p]))
  \/ Serve(p, "refuse_addfd") /\ refuse_addfd(p, Head(c2s[p]))
=============================================================================
