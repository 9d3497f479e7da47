----------------------------- MODULE VChatProofs -----------------------------
(***************************************************************************)
(* What holds of VChat for every number of processes, users and addresses  *)
(* and every bound: its types, when a destroyed object may be used, and    *)
(* that friendship in the database is mutual.                              *)
(***************************************************************************)
EXTENDS VChat, OrderProofs

-----------------------------------------------------------------------------
(* Frames.                                                                 *)

\* What a query on the table of messages returns are messages.
LEMMA GetMessageType ==
  ASSUME messageinfo \in Seq(Message), NEW id
  PROVE  getMessage(id) \in Seq(Message)
<1> DEFINE rows == {row \in DOMAIN messageinfo : id \in {messageinfo[row].sender, messageinfo[row].receiver}}
<1>1. rows \in SUBSET (1 .. Len(messageinfo))
  OBVIOUS
<1> HIDE DEF rows
<1>2. Select(messageinfo, rows) \in Seq(Message)
  BY <1>1, SelectType
<1> QED
  BY <1>2 DEF rows, getMessage

\* A relayed frame is a frame of either direction.
LEMMA RelayIsFrame ==
  RelayFrame \subseteq ClientFrame /\ RelayFrame \subseteq ServerFrame
BY DEF ClientFrame, ServerFrame

\* What the server's handlers read of a frame is of the type they expect.
LEMMA ClientFrameFields ==
  ASSUME NEW f \in ClientFrame
  PROVE  /\ f.method \in {"signin", "login"} => f.id \in User /\ f.password \in Password
         /\ f.method = "findfd" => f.id \in User /\ f.findid \in User
         /\ f.method \in {"addfd", "accept_addfd", "refuse_addfd", "sendmsg"} => f \in RelayFrame
BY DEF ClientFrame, RelayFrame

LEMMA RelayFrameFields ==
  ASSUME NEW f \in RelayFrame
  PROVE  /\ f.method \in {"addfd", "accept_addfd", "refuse_addfd"}
              => f.userid \in User /\ f.friendid \in User
         /\ f.method = "sendmsg" => f.row \in Message /\ f.row.receiver \in User
BY DEF RelayFrame, Message

\* What the client's handlers read of a frame is of the type they expect.
LEMMA ServerFrameFields ==
  ASSUME NEW f \in ServerFrame
  PROVE  /\ f.method = "login_suc" => f.id \in User /\ f.friends \in SUBSET User
         /\ f.method = "findfd_suc" => f.id \in User
         /\ f.method \in {"addfd", "accept_addfd", "refuse_addfd", "sendmsg"} => f \in RelayFrame
BY DEF ServerFrame, RelayFrame

\* The frames the programs make.
LEMMA MadeFrames ==
  /\ \A u, w \in User : \A m \in {"addfd", "accept_addfd", "refuse_addfd"} :
       FriendFrame(m, u, w) \in RelayFrame
  /\ \A m \in {"signin_suc", "signin_idexist", "login_noid", "login_pwerr", "findfd_err"} :
       Reply(m) \in ServerFrame
  /\ \A u \in User : [method |-> "findfd_suc", id |-> u] \in ServerFrame
BY DEF FriendFrame, RelayFrame, Reply, ServerFrame

-----------------------------------------------------------------------------
(* Type correctness.                                                       *)

\* Writing to an object appends frames to one queue.
LEMMA WriteType ==
  ASSUME NEW STATE F, outq \in [Proc -> Seq(F)], NEW p \in Proc,
         NEW frames \in Seq(F), Write(p, frames)
  PROVE  outq' \in [Proc -> Seq(F)]
<1>1. outq[p] \o frames \in Seq(F)
  BY ConcatProperties
<1> QED
  BY <1>1 DEF Write

LEMMA DeliverQueue ==
  ASSUME ConnectionTypeOK(ClientFrame, ServerFrame), ServiceTypeOK,
         NEW STATE F, outq \in [Proc -> Seq(F)],
         NEW u \in User, NEW frame \in F, Deliver(u, frame)
  PROVE  outq' \in [Proc -> Seq(F)] /\ up' \in BOOLEAN /\ wild' \in BOOLEAN
<1> USE DEF ConnectionTypeOK, ServiceTypeOK
<1>1. CASE online[u] = NoConn
  BY <1>1 DEF Deliver
<1>2. CASE online[u] # NoConn
  <2>1. online[u] \in Proc /\ WriteThrough(online[u], frame)
    BY <1>2 DEF Deliver
  <2>2. Reached(online[u]) \subseteq Proc
    BY <2>1 DEF Reached
  <2>3. <<frame>> \in Seq(F)
    OBVIOUS
  <2>4. CASE \E q \in Reached(online[u]) :
               /\ Write(q, <<frame>>)
               /\ wild' = (wild \/ q # online[u])
               /\ UNCHANGED up
    BY <2>2, <2>3, <2>4, WriteType
  <2>5. CASE wild' = TRUE /\ up' \in BOOLEAN /\ UNCHANGED outq
    BY <2>5
  <2> QED
    BY <2>1, <2>4, <2>5 DEF WriteThrough
<1> QED
  BY <1>1, <1>2

LEMMA DeliverType ==
  ASSUME ConnectionTypeOK(ClientFrame, ServerFrame), ServiceTypeOK,
         NEW u \in User, NEW frame \in ServerFrame, Deliver(u, frame)
  PROVE  outq' \in [Proc -> Seq(ServerFrame)] /\ up' \in BOOLEAN /\ wild' \in BOOLEAN
BY DeliverQueue DEF ConnectionTypeOK

LEMMA FailingType ==
  ASSUME StoreTypeOK, NEW calls, NEW bad, Failing(calls, bad)
  PROVE  faults' \in 0 .. MaxFaults
BY StoreAssumption DEF StoreTypeOK, Failing

\* The state a request handler leaves as the dispatch (Serve) does not touch it.
ServedType ==
  /\ StoreTypeOK'
  /\ ServiceTypeOK'
  /\ outq' \in [Proc -> Seq(ServerFrame)] /\ up' \in BOOLEAN /\ wild' \in BOOLEAN

LEMMA SigninType ==
  ASSUME TypeOK, NEW p \in Proc, NEW value \in ClientFrame, value.method = "signin",
         signin(p, value)
  PROVE  ServedType
<1> USE DEF TypeOK
<1>1. value.id \in User /\ value.password \in Password
  BY ClientFrameFields
<1>2. PICK bad \in SUBSET {"insertPersional"} :
        LET done == userinfo[value.id] = NoAccount /\ bad = {}
        IN  /\ Failing({"insertPersional"}, bad)
            /\ userinfo' = IF done THEN insertPersional(value.id, value.password) ELSE userinfo
            /\ Write(p, <<Reply(IF done THEN "signin_suc" ELSE "signin_idexist")>>)
            /\ UNCHANGED <<friendinfo, messageinfo, cache, up, wild>>
  BY DEF signin
<1>3. faults' \in 0 .. MaxFaults
  BY <1>2, FailingType
<1>4. userinfo' \in [User -> Password \cup {NoAccount}]
  BY <1>1, <1>2 DEF StoreTypeOK, insertPersional
<1>5. \A m \in {"signin_suc", "signin_idexist"} : <<Reply(m)>> \in Seq(ServerFrame)
  BY MadeFrames
<1>6. outq' \in [Proc -> Seq(ServerFrame)]
  BY <1>2, <1>5, WriteType DEF ConnectionTypeOK
<1> QED
  BY <1>2, <1>3, <1>4, <1>6
  DEF ServedType, StoreTypeOK, ServiceTypeOK, ConnectionTypeOK, cache

LEMMA LoginType ==
  ASSUME TypeOK, NEW p \in Proc, NEW value \in ClientFrame, value.method = "login",
         login(p, value)
  PROVE  ServedType
<1> USE DEF TypeOK
<1>1. value.id \in User
  BY ClientFrameFields
<1>2. PICK bad \in SUBSET LoginCalls :
    /\ Failing(LoginCalls, bad)
    /\ \/ /\ Write(p, <<Reply("login_noid")>>)
          /\ UNCHANGED online
       \/ /\ online' = [online EXCEPT ![value.id] = p]
          /\ LoginAnswer(p, value, bad)
       \/ /\ Write(p, <<Reply("login_pwerr")>>)
          /\ UNCHANGED online
    /\ UNCHANGED <<tables, apply, up, wild>>
  BY DEF login
<1>3. faults' \in 0 .. MaxFaults
  BY <1>2, FailingType
<1>4. \A m \in {"login_noid", "login_pwerr"} : <<Reply(m)>> \in Seq(ServerFrame)
  BY MadeFrames
<1>5. Replay(value.id) \in Seq(ServerFrame)
  <2>1. apply[value.id] \in Seq(User)
    BY <1>1 DEF ServiceTypeOK
  <2>2. \A k \in 1 .. Len(apply[value.id]) :
          FriendFrame("addfd", apply[value.id][k], value.id) \in ServerFrame
    <3> TAKE k \in 1 .. Len(apply[value.id])
    <3>1. apply[value.id][k] \in User
      BY <2>1
    <3> QED
      BY <1>1, <3>1, MadeFrames, RelayIsFrame
  <2> QED
    BY <2>1, <2>2 DEF Replay
<1>6. ASSUME LoginAnswer(p, value, bad)
      PROVE  outq' \in [Proc -> Seq(ServerFrame)]
  <2>1. getFriend(value.id) \in SUBSET User
    BY DEF getFriend
  <2>2. getMessage(value.id) \in Seq(Message)
    BY GetMessageType DEF StoreTypeOK
  <2>3. <<>> \in Seq(Message)
    OBVIOUS
  <2>4. PICK id \in User :
          Write(p, <<[method |-> "login_suc", id |-> id,
                      friends |-> IF "getFriend" \in bad THEN {} ELSE getFriend(value.id),
                      rows |-> IF "getMessage" \in bad THEN <<>> ELSE getMessage(value.id)]>>
                   \o Replay(value.id))
    BY <1>1, <1>6 DEF LoginAnswer
  <2> DEFINE answer == [method |-> "login_suc", id |-> id,
                        friends |-> IF "getFriend" \in bad THEN {} ELSE getFriend(value.id),
                        rows |-> IF "getMessage" \in bad THEN <<>> ELSE getMessage(value.id)]
  <2>5. answer \in ServerFrame
    BY <2>1, <2>2, <2>3 DEF ServerFrame
  <2>6. <<answer>> \o Replay(value.id) \in Seq(ServerFrame)
    <3> HIDE DEF answer
    <3>1. <<answer>> \in Seq(ServerFrame)
      BY <2>5
    <3> QED
      BY <1>5, <3>1, ConcatProperties
  <2> QED
    BY <2>4, <2>6, WriteType DEF ConnectionTypeOK
<1>7. outq' \in [Proc -> Seq(ServerFrame)]
  BY <1>2, <1>4, <1>6, WriteType DEF ConnectionTypeOK
<1>8. online' \in [User -> Proc \cup {NoConn}]
  BY <1>1, <1>2 DEF ServiceTypeOK
<1> QED
  BY <1>2, <1>3, <1>7, <1>8
  DEF ServedType, StoreTypeOK, ServiceTypeOK, ConnectionTypeOK, tables

LEMMA SendmsgType ==
  ASSUME TypeOK, NEW p \in Proc, NEW value \in RelayFrame, value.method = "sendmsg",
         sendmsg(p, value)
  PROVE  ServedType
<1> USE DEF TypeOK
<1>1. value.row \in Message /\ value.row.receiver \in User /\ value \in ServerFrame
  BY RelayFrameFields, RelayIsFrame
<1>2. PICK bad \in SUBSET {"insertMessage"} :
        /\ Failing({"insertMessage"}, bad)
        /\ messageinfo' = IF bad = {} THEN insertMessage(value.row) ELSE messageinfo
        /\ Deliver(value.row.receiver, value)
        /\ UNCHANGED <<userinfo, friendinfo, cache>>
  BY DEF sendmsg
<1>3. faults' \in 0 .. MaxFaults
  BY <1>2, FailingType
<1>4. messageinfo' \in Seq(Message)
  BY <1>1, <1>2, AppendProperties DEF insertMessage, StoreTypeOK
<1>5. outq' \in [Proc -> Seq(ServerFrame)] /\ up' \in BOOLEAN /\ wild' \in BOOLEAN
  BY <1>1, <1>2, DeliverType
<1> QED
  BY <1>2, <1>3, <1>4, <1>5 DEF ServedType, StoreTypeOK, ServiceTypeOK, cache

LEMMA FindType ==
  ASSUME TypeOK, NEW p \in Proc, NEW value \in ClientFrame, value.method = "findfd",
         find(p, value)
  PROVE  ServedType
<1> USE DEF TypeOK
<1>1. value.id \in User /\ value.findid \in User
  BY ClientFrameFields
<1>2. PICK bad \in SUBSET {"getPersional"} :
        /\ Failing({"getPersional"}, bad)
        /\ \/ Deliver(value.id, [method |-> "findfd_suc", id |-> value.findid])
           \/ Deliver(value.id, Reply("findfd_err"))
        /\ UNCHANGED <<tables, cache>>
  BY DEF find
<1>3. faults' \in 0 .. MaxFaults
  BY <1>2, FailingType
<1>4. /\ [method |-> "findfd_suc", id |-> value.findid] \in ServerFrame
      /\ Reply("findfd_err") \in ServerFrame
  BY <1>1, MadeFrames
<1>5. outq' \in [Proc -> Seq(ServerFrame)] /\ up' \in BOOLEAN /\ wild' \in BOOLEAN
  BY <1>1, <1>2, <1>4, DeliverType
<1> QED
  BY <1>2, <1>3, <1>5 DEF ServedType, StoreTypeOK, ServiceTypeOK, cache, tables

LEMMA AddfriendType ==
  ASSUME TypeOK, NEW p \in Proc, NEW value \in RelayFrame, value.method = "addfd",
         addfriend(p, value)
  PROVE  ServedType
<1> USE DEF TypeOK
<1>1. value.userid \in User /\ value.friendid \in User /\ value \in ServerFrame
  BY RelayFrameFields, RelayIsFrame
<1>2. outq' \in [Proc -> Seq(ServerFrame)] /\ up' \in BOOLEAN /\ wild' \in BOOLEAN
  BY <1>1, DeliverType DEF addfriend
<1>3. Append(apply[value.friendid], value.userid) \in Seq(User)
  BY <1>1, AppendProperties DEF ServiceTypeOK
<1>4. apply' \in [User -> Seq(User)]
  BY <1>3 DEF addfriend, ServiceTypeOK
<1> QED
  BY <1>2, <1>4 DEF addfriend, ServedType, StoreTypeOK, ServiceTypeOK, tables

\* A row more, and one table more, is a table.
LEMMA InsertFriendType ==
  ASSUME NEW table \in [User \X User -> Nat], NEW u \in User, NEW w \in User
  PROVE  insertFriend(table, u, w) \in [User \X User -> Nat]
BY DEF insertFriend

LEMMA FirstRowType ==
  ASSUME StoreTypeOK, NEW value, value.userid \in User, value.friendid \in User, NEW bad
  PROVE  FirstRow(value, bad) \in [User \X User -> Nat]
BY InsertFriendType DEF FirstRow, StoreTypeOK

LEMMA AcceptType ==
  ASSUME TypeOK, NEW p \in Proc, NEW value \in RelayFrame, value.method = "accept_addfd",
         accept_addfd(p, value)
  PROVE  ServedType
<1> USE DEF TypeOK
<1>1. value.userid \in User /\ value.friendid \in User /\ value \in ServerFrame
  BY RelayFrameFields, RelayIsFrame
<1>2. PICK bad \in SUBSET AcceptCalls, requester \in User :
        /\ Failing(AcceptCalls, bad)
        /\ friendinfo' = BothRows(value, requester, bad)
        /\ Deliver(requester, value)
        /\ UNCHANGED <<userinfo, messageinfo, cache>>
  BY <1>1 DEF accept_addfd, Requester
<1>3. faults' \in 0 .. MaxFaults
  BY <1>2, FailingType
<1>4. friendinfo' \in [User \X User -> Nat]
  BY <1>1, <1>2, FirstRowType, InsertFriendType DEF BothRows
<1>5. outq' \in [Proc -> Seq(ServerFrame)] /\ up' \in BOOLEAN /\ wild' \in BOOLEAN
  BY <1>1, <1>2, DeliverType
<1> QED
  BY <1>2, <1>3, <1>4, <1>5 DEF ServedType, StoreTypeOK, ServiceTypeOK, cache

LEMMA RefuseType ==
  ASSUME TypeOK, NEW p \in Proc, NEW value \in RelayFrame, value.method = "refuse_addfd",
         refuse_addfd(p, value)
  PROVE  ServedType
<1> USE DEF TypeOK
<1>1. value.userid \in User /\ value \in ServerFrame
  BY RelayFrameFields, RelayIsFrame
<1>2. outq' \in [Proc -> Seq(ServerFrame)] /\ up' \in BOOLEAN /\ wild' \in BOOLEAN
  BY <1>1, DeliverType DEF refuse_addfd
<1> QED
  BY <1>2 DEF refuse_addfd, ServedType, StoreTypeOK, ServiceTypeOK, tables, cache

\* The dispatch takes the frame from its channel.
LEMMA ServeType ==
  ASSUME TypeOK, NEW p \in Proc, NEW m, Serve(p, m)
  PROVE  /\ Head(c2s[p]) \in ClientFrame /\ Head(c2s[p]).method = m
         /\ c2s' \in [Proc -> Seq(ClientFrame)]
<1>1. c2s[p] \in Seq(ClientFrame) /\ c2s[p] # <<>>
  BY DEF Serve, TypeOK, ConnectionTypeOK
<1>2. Head(c2s[p]) \in ClientFrame /\ Tail(c2s[p]) \in Seq(ClientFrame)
  BY <1>1, HeadTailProperties
<1> QED
  BY <1>2 DEF Serve, TypeOK, ConnectionTypeOK

LEMMA ServesType ==
  ASSUME TypeOK, NEW p \in Proc, Serves(p)
  PROVE  TypeOK'
<1> DEFINE value == Head(c2s[p])
<1>1. ASSUME NEW m, Serve(p, m)
      PROVE  /\ value \in ClientFrame /\ value.method = m
             /\ c2s' \in [Proc -> Seq(ClientFrame)]
  BY <1>1, ServeType
<1>2. ASSUME NEW m, Serve(p, m), ServedType
      PROVE  TypeOK'
  BY <1>1, <1>2
  DEF Serves, Serve, ServedType, TypeOK, ConnectionTypeOK, ClientTypeOK, clientVars, info
<1>3. CASE Serve(p, "signin") /\ signin(p, value)
  <2>1. value \in ClientFrame /\ value.method = "signin"
    BY <1>1, <1>3
  <2> QED
    BY <1>2, <1>3, <2>1, SigninType
<1>4. CASE Serve(p, "login") /\ login(p, value)
  <2>1. value \in ClientFrame /\ value.method = "login"
    BY <1>1, <1>4
  <2> QED
    BY <1>2, <1>4, <2>1, LoginType
<1>5. CASE Serve(p, "findfd") /\ find(p, value)
  <2>1. value \in ClientFrame /\ value.method = "findfd"
    BY <1>1, <1>5
  <2> QED
    BY <1>2, <1>5, <2>1, FindType
<1>6. ASSUME NEW m \in {"addfd", "accept_addfd", "refuse_addfd", "sendmsg"}, Serve(p, m)
      PROVE  value \in RelayFrame /\ value.method = m
  <2>1. value \in ClientFrame /\ value.method = m
    BY <1>1, <1>6
  <2> QED
    BY <2>1, ClientFrameFields
<1>7. CASE Serve(p, "sendmsg") /\ sendmsg(p, value)
  BY <1>2, <1>6, <1>7, SendmsgType
<1>8. CASE Serve(p, "addfd") /\ addfriend(p, value)
  BY <1>2, <1>6, <1>8, AddfriendType
<1>9. CASE Serve(p, "accept_addfd") /\ accept_addfd(p, value)
  BY <1>2, <1>6, <1>9, AcceptType
<1>10. CASE Serve(p, "refuse_addfd") /\ refuse_addfd(p, value)
  BY <1>2, <1>6, <1>10, RefuseType
<1> QED
  BY <1>3, <1>4, <1>5, <1>7, <1>8, <1>9, <1>10 DEF Serves, Service

LEMMA KilledType ==
  ASSUME TypeOK, NEW p \in Proc, Killed(p)
  PROVE  TypeOK'
<1> DEFINE value == Head(c2s[p])
<1>1. /\ value \in ClientFrame /\ value.method = "accept_addfd"
      /\ c2s' \in [Proc -> Seq(ClientFrame)]
  BY ServeType DEF Killed
<1>2. value.userid \in User /\ value.friendid \in User
  BY <1>1, ClientFrameFields, RelayFrameFields
<1>3. friendinfo' \in [User \X User -> Nat]
  BY <1>2, FirstRowType DEF Killed, AcceptKilled, TypeOK
<1> QED
  BY <1>1, <1>3
  DEF Killed, AcceptKilled, Serve, TypeOK, StoreTypeOK, ConnectionTypeOK, ServiceTypeOK,
      ClientTypeOK, cache, clientVars, info

LEMMA SessionType ==
  ASSUME TypeOK, NEW p \in Proc, Session(p)
  PROVE  TypeOK'
<1> USE DEF TypeOK, ConnectionTypeOK
<1>1. /\ StoreTypeOK' /\ ServiceTypeOK' /\ ClientTypeOK' /\ starts' \in 0 .. MaxStarts
  BY DEF Session, StoreTypeOK, ServiceTypeOK, ClientTypeOK, tables, cache, clientVars, info
<1>2. \A q \in Proc : Len(outq[q]) \in Nat /\ <<>> \in Seq(ServerFrame) /\ <<>> \in Seq(ClientFrame)
  OBVIOUS
<1>3. ASSUME NEW a \in Addr, Accept(p, a) PROVE ConnectionTypeOK(ClientFrame, ServerFrame)'
  BY <1>3 DEF Accept
<1>4. CASE WriteDone(p)
  <2>1. outq[p] \in Seq(ServerFrame) /\ outq[p] # <<>> /\ s2c[p] \in Seq(ServerFrame)
    BY <1>4 DEF WriteDone
  <2>2. Head(outq[p]) \in ServerFrame /\ Tail(outq[p]) \in Seq(ServerFrame)
    BY <2>1, HeadTailProperties
  <2>3. Append(s2c[p], Head(outq[p])) \in Seq(ServerFrame)
    BY <2>1, <2>2, AppendProperties
  <2> QED
    BY <1>4, <2>2, <2>3, <1>1 DEF WriteDone
<1>5. CASE ReadError(p)
  BY <1>1, <1>2, <1>5 DEF ReadError, Destroy
<1>6. CASE WriteError(p)
  <2>1. 1 + (Len(outq[p]) - 1) \in Nat
    BY <1>2
  <2> QED
    BY <1>1, <1>2, <1>6, <2>1 DEF WriteError, Destroy
<1>7. CASE StaleHandler(p)
  <2>1. stale[p] - 1 \in Nat
    BY <1>7 DEF StaleHandler
  <2>2. \A q \in Reached(p) : q \in Proc
    BY DEF Reached
  <2>3. CASE \E q \in Reached(p) :
               /\ Destroy(q)
               /\ stale' = [stale EXCEPT ![p] = @ - 1, ![q] = 1 + Len(outq[q])]
               /\ UNCHANGED up
    <3>1. PICK q \in Reached(p) :
               /\ Destroy(q)
               /\ stale' = [stale EXCEPT ![p] = @ - 1, ![q] = 1 + Len(outq[q])]
               /\ UNCHANGED up
      BY <2>3
    <3>2. q \in Proc /\ 1 + Len(outq[q]) \in Nat
      BY <1>2, <2>2
    <3> QED
      BY <1>1, <1>2, <1>7, <2>1, <3>1, <3>2 DEF StaleHandler, Destroy
  <2>4. CASE /\ stale' = [stale EXCEPT ![p] = @ - 1]
             /\ up' \in BOOLEAN
             /\ UNCHANGED <<connections, outq, c2s>>
    BY <1>1, <1>7, <2>1, <2>4 DEF StaleHandler
  <2> QED
    BY <1>1, <1>7, <2>3, <2>4 DEF StaleHandler
<1>8. CASE NetStops(p)
  BY <1>1, <1>8 DEF NetStops, serverSide
<1>9. CASE ConnectFails(p)
  BY <1>1, <1>9 DEF ConnectFails, serverSide
<1>10. CASE Reset(p)
  BY <1>1, <1>2, <1>10 DEF Reset, serverSide
<1>11. CASE Leave(p)
  BY <1>1, <1>2, <1>11 DEF Leave, serverSide
<1> QED
  BY <1>1, <1>3, <1>4, <1>5, <1>6, <1>7, <1>8, <1>9, <1>10, <1>11 DEF Session

\* What a client's handler has to establish; view is not typed here.
LEMMA HandlesType ==
  ASSUME TypeOK, NEW p \in Proc, Handles(p)
  PROVE  TypeOK'
<1> DEFINE value == Head(s2c[p])
<1> USE DEF TypeOK
<1>1. PICK methods : Receive(p, methods)
  BY DEF Handles, handle
<1>2. s2c[p] \in Seq(ServerFrame) /\ s2c[p] # <<>>
  BY <1>1 DEF Receive, ConnectionTypeOK
<1>3. value \in ServerFrame /\ Tail(s2c[p]) \in Seq(ServerFrame)
  BY <1>2, HeadTailProperties
<1>4. ConnectionTypeOK(ClientFrame, ServerFrame)'
  BY <1>1, <1>3 DEF Receive, ConnectionTypeOK, serverSide
<1>5. StoreTypeOK' /\ ServiceTypeOK' /\ starts' \in 0 .. MaxStarts /\ asked' \in 0 .. MaxAsked
  BY <1>1 DEF Handles, Receive, StoreTypeOK, ServiceTypeOK, ClientTypeOK, tables, cache
<1>6. ASSUME NEW m, Receive(p, {m}) PROVE value.method = m
  BY <1>6 DEF Receive
<1> USE DEF ClientTypeOK, info
<1>7. CASE Receive(p, {"login_suc"}) /\ handle_login(p, value)
  <2>1. value.id \in User /\ value.friends \in SUBSET User
    BY <1>3, <1>6, <1>7, ServerFrameFields
  <2> QED
    BY <1>4, <1>5, <1>7, <2>1 DEF handle_login
<1>8. CASE \E d \in {"login", "signin"} : handle_answer(p, d)
  BY <1>4, <1>5, <1>8 DEF handle_answer
<1>9. CASE Receive(p, {"findfd_suc"}) /\ handle_find(p, value)
  <2>1. value.id \in User
    BY <1>3, <1>6, <1>9, ServerFrameFields
  <2> QED
    BY <1>4, <1>5, <1>9, <2>1 DEF handle_find
<1>10. CASE Receive(p, {"addfd"}) /\ handle_addfd(p, value)
  <2>1. value.userid \in User
    BY <1>3, <1>6, <1>10, ServerFrameFields, RelayFrameFields
  <2> QED
    BY <1>4, <1>5, <1>10, <2>1 DEF handle_addfd
<1>11. CASE Receive(p, {"accept_addfd"}) /\ handle_accept(p, value)
  <2>1. value.userid \in User
    BY <1>3, <1>6, <1>11, ServerFrameFields, RelayFrameFields
  <2>2. PageAfterAccept(p, requests[p]) \in SUBSET User
    BY DEF PageAfterAccept
  <2> QED
    BY <1>4, <1>5, <1>11, <2>1, <2>2 DEF handle_accept
<1>12. CASE handle_msg(p, value)
  BY <1>4, <1>5, <1>12 DEF handle_msg
<1>13. CASE handle_other
  BY <1>4, <1>5, <1>13 DEF handle_other
<1> QED
  BY <1>7, <1>8, <1>9, <1>10, <1>11, <1>12, <1>13 DEF Handles, handle

\* A blocking write extends one channel.
LEMMA ClientWriteType ==
  ASSUME TypeOK, NEW p \in Proc, NEW frame \in ClientFrame, NEW op,
         Ask(p, op), ClientWrite(p, frame)
  PROVE  /\ ConnectionTypeOK(ClientFrame, ServerFrame)'
         /\ asked' \in 0 .. MaxAsked
<1>1. Append(c2s[p], frame) \in Seq(ClientFrame)
  BY AppendProperties DEF TypeOK, ConnectionTypeOK
<1>2. c2s' \in [Proc -> Seq(ClientFrame)]
  BY <1>1 DEF ClientWrite, TypeOK, ConnectionTypeOK
<1>3. asked' \in 0 .. MaxAsked
  BY ClientAssumption DEF Ask, TypeOK, ClientTypeOK
<1> QED
  BY <1>2, <1>3 DEF Ask, TypeOK, ConnectionTypeOK, serverSide

LEMMA AsksType ==
  ASSUME TypeOK, NEW p \in Proc, Asks(p)
  PROVE  TypeOK'
<1> USE DEF TypeOK, ClientTypeOK, info
<1>1. StoreTypeOK' /\ ServiceTypeOK' /\ starts' \in 0 .. MaxStarts
  BY DEF Asks, StoreTypeOK, ServiceTypeOK, tables, cache
<1>2. ASSUME NEW id \in User, NEW password \in Password, NEW m \in {"login", "signin"}
      PROVE  [method |-> m, id |-> id, password |-> password] \in ClientFrame
  BY DEF ClientFrame
<1>3. ASSUME NEW u \in User, me[p] # Nobody, NEW m \in {"addfd", "accept_addfd", "refuse_addfd"}
      PROVE  FriendFrame(m, me[p], u) \in ClientFrame
  BY <1>3, MadeFrames, RelayIsFrame
<1>4. ASSUME NEW l \in Logins, Login(p, l[1], l[2]) PROVE TypeOK'
  <2>1. l[1] \in User /\ l[2] \in Password
    BY ClientAssumption
  <2> QED
    BY <1>1, <1>2, <1>4, <2>1, ClientWriteType DEF Login
<1>5. ASSUME NEW s \in Signins, Signin(p, s[1], s[2]) PROVE TypeOK'
  <2>1. s[1] \in User /\ s[2] \in Password
    BY ClientAssumption
  <2> QED
    BY <1>1, <1>2, <1>5, <2>1, ClientWriteType DEF Signin
<1>6. ASSUME NEW u \in User, NEW text \in Text, Sendmsg(p, u, text) PROVE TypeOK'
  <2>1. [method |-> "sendmsg", row |-> [sender |-> me[p], receiver |-> u, message |-> text]]
          \in ClientFrame
    BY <1>6 DEF Sendmsg, ClientFrame, RelayFrame, Message
  <2> QED
    BY <1>1, <1>6, <2>1, ClientWriteType DEF Sendmsg
<1>7. ASSUME NEW u \in Searches, NEW by \in {"id", "name"}, Find(p, by, u) PROVE TypeOK'
  <2>1. [method |-> "findfd", by |-> by, id |-> me[p], findid |-> u] \in ClientFrame
    BY <1>7, ClientAssumption DEF Find, ClientFrame
  <2> QED
    BY <1>1, <1>7, <2>1, ClientWriteType DEF Find
<1>8. ASSUME NEW u \in User, Addfriend(p, u) PROVE TypeOK'
  BY <1>1, <1>3, <1>8, ClientWriteType DEF Addfriend
<1>9. ASSUME NEW u \in User, Accept_addfd(p, u) PROVE TypeOK'
  <2>1. PageAfterAccept(p, requests[p] \ {u}) \in SUBSET User
    BY DEF PageAfterAccept
  <2>2. ConnectionTypeOK(ClientFrame, ServerFrame)' /\ asked' \in 0 .. MaxAsked
    BY <1>3, <1>9, ClientWriteType DEF Accept_addfd
  <2>3. CASE /\ requests' = [requests EXCEPT ![p] = @ \ {u}]
             /\ friends' = [friends EXCEPT ![p] = @ \cup {u}]
             /\ chats' = [chats EXCEPT ![p] = PageAfterAccept(p, requests[p] \ {u})]
    <3>1. /\ requests' \in [Proc -> SUBSET User] /\ friends' \in [Proc -> SUBSET User]
          /\ chats' \in [Proc -> SUBSET User]
      BY <2>1, <2>3
    <3> QED
      BY <1>1, <1>9, <2>2, <3>1 DEF Accept_addfd
  <2>4. CASE UNCHANGED <<requests, friends, chats>>
    BY <1>1, <1>9, <2>2, <2>4 DEF Accept_addfd
  <2> QED
    BY <1>9, <2>3, <2>4 DEF Accept_addfd
<1>10. ASSUME NEW u \in User, Refuse_addfd(p, u) PROVE TypeOK'
  BY <1>1, <1>3, <1>10, ClientWriteType DEF Refuse_addfd
<1>11. ASSUME NEW u \in User, OpenChat(p, u) PROVE TypeOK'
  BY <1>1, <1>11 DEF OpenChat, Leave, ConnectionTypeOK, serverSide, clientVars
<1> QED
  BY <1>4, <1>5, <1>6, <1>7, <1>8, <1>9, <1>10, <1>11 DEF Asks, UserAsks, Dialog, ChatPage, SearchBox, FoundList, RequestList

\* No step leaves the types: the frames each side reads have the members its
\* handler uses, and no counter leaves its range.
THEOREM TypeCorrect == Spec => []TypeOK
<1>1. Init => TypeOK
  <2> SUFFICES ASSUME Init PROVE TypeOK
    OBVIOUS
  <2>1. StoreTypeOK
    BY StoreAssumption DEF Init, StoreInit, StoreTypeOK
  <2>2. <<>> \in Seq(ServerFrame) /\ <<>> \in Seq(ClientFrame) /\ <<>> \in Seq(User)
    OBVIOUS
  <2>3. ConnectionTypeOK(ClientFrame, ServerFrame)
    BY <2>2 DEF Init, ConnectionInit, ConnectionTypeOK
  <2>4. ServiceTypeOK
    BY <2>2 DEF Init, ServiceInit, ServiceTypeOK
  <2>5. ClientTypeOK /\ starts \in 0 .. MaxStarts
    BY ClientAssumption, VChatAssumption DEF Init, ClientInit, ClientTypeOK
  <2> QED
    BY <2>1, <2>3, <2>4, <2>5 DEF TypeOK
<1>2. TypeOK /\ [Next]_vars => TypeOK'
  <2> SUFFICES ASSUME TypeOK, [Next]_vars PROVE TypeOK'
    OBVIOUS
  <2>1. ASSUME NEW p \in Proc, Session(p) \/ Serves(p) \/ Killed(p) \/ Handles(p) \/ Asks(p)
        PROVE  TypeOK'
    BY <2>1, SessionType, ServesType, KilledType, HandlesType, AsksType
  <2>2. CASE Stops
    BY <2>2
    DEF Stops, ServerStops, TypeOK, StoreTypeOK, ConnectionTypeOK, ServiceTypeOK, ClientTypeOK,
        tables, cache, clientVars, info
  <2>3. CASE Starts
    BY <2>3, VChatAssumption
    DEF Starts, ServerStarts, TypeOK, StoreTypeOK, ConnectionTypeOK, ServiceTypeOK, ClientTypeOK,
        tables, clientVars, info
  <2>4. CASE UNCHANGED vars
    BY <2>4
    DEF vars, TypeOK, StoreTypeOK, ConnectionTypeOK, ServiceTypeOK, ClientTypeOK,
        tables, netVars, cache, clientVars, info
  <2> QED
    BY <2>1, <2>2, <2>3, <2>4 DEF Next
<1> QED
  BY <1>1, <1>2, PTL DEF Spec

-----------------------------------------------------------------------------
(* When a destroyed object may be used.                                    *)

Ended == \E p \in Proc : addr[p] # NoAddr /\ phase[p] \in {"off", "gone"}

\* Every pointer the server still holds is to an object that exists, or some
\* accepted client has gone away: the pointers of the cache, and those of the
\* cancelled handlers, of which there are none before.
PointersInv ==
  /\ wild => Ended
  /\ \A p \in Proc : stale[p] > 0 => Ended
  /\ \A u \in User : online[u] # NoConn => online[u] \in connections \/ Ended
  /\ \A p \in connections : addr[p] # NoAddr

\* A request of the user goes no further than his own channel.
LEMMA AsksLeaves ==
  ASSUME NEW p \in Proc, UserAsks(p)
  PROVE  UNCHANGED <<serverSide, phase, s2c>>
BY DEF UserAsks, Dialog, ChatPage, SearchBox, FoundList, RequestList,
       Login, Signin, Sendmsg, Find, Addfriend, Accept_addfd, Refuse_addfd, Ask

\* A client that has gone away stays away, and its address is not changed.
LEMMA EndedStays ==
  ASSUME TypeOK, Ended, [Next]_vars
  PROVE  Ended'
<1>1. PICK p \in Proc : addr[p] # NoAddr /\ phase[p] \in {"off", "gone"}
  BY DEF Ended
<1>0. phase \in [Proc -> {"new", "on", "off", "gone"}] /\ addr \in [Proc -> Addr \cup {NoAddr}]
  BY DEF TypeOK, ConnectionTypeOK
<1> SUFFICES addr'[p] # NoAddr /\ phase'[p] \in {"off", "gone"}
  BY DEF Ended
<1>2. ASSUME NEW q \in Proc, Session(q) PROVE addr'[p] # NoAddr /\ phase'[p] \in {"off", "gone"}
  <2>1. ASSUME NEW a \in Addr, Accept(q, a)
        PROVE  addr'[p] # NoAddr /\ phase'[p] \in {"off", "gone"}
    BY <1>0, <1>1, <2>1 DEF Accept
  <2>2. CASE addr' = addr /\ phase' = phase
    BY <1>1, <2>2
  <2>3. CASE NetStops(q) \/ ConnectFails(q) \/ Reset(q) \/ Leave(q)
    BY <1>0, <1>1, <2>3 DEF NetStops, ConnectFails, Reset, Leave, serverSide
  <2> QED
    BY <1>2, <2>1, <2>2, <2>3 DEF Session, WriteDone, ReadError, WriteError, StaleHandler
<1>3. ASSUME NEW q \in Proc, Asks(q) PROVE addr'[p] # NoAddr /\ phase'[p] \in {"off", "gone"}
  <2>1. CASE UserAsks(q)
    BY <1>1, <2>1, AsksLeaves DEF serverSide
  <2>2. ASSUME NEW u \in User, OpenChat(q, u)
        PROVE  addr'[p] # NoAddr /\ phase'[p] \in {"off", "gone"}
    BY <1>0, <1>1, <2>2 DEF OpenChat, Leave, serverSide
  <2> QED
    BY <1>3, <2>1, <2>2 DEF Asks
<1>4. ASSUME NEW q \in Proc, Serves(q) \/ Killed(q)
      PROVE  addr'[p] # NoAddr /\ phase'[p] \in {"off", "gone"}
  BY <1>1, <1>4 DEF Serves, Service, Killed, Serve
<1>5. ASSUME NEW q \in Proc, Handles(q) PROVE addr'[p] # NoAddr /\ phase'[p] \in {"off", "gone"}
  BY <1>1, <1>5 DEF Handles, handle, Receive, serverSide
<1>6. CASE Stops \/ Starts \/ UNCHANGED vars
  BY <1>1, <1>6 DEF Stops, ServerStops, Starts, ServerStarts, vars, netVars
<1> QED
  BY <1>2, <1>3, <1>4, <1>5, <1>6 DEF Next

\* A relayed frame uses a destroyed object only if some client has gone away.
LEMMA DeliverPointers ==
  ASSUME ServiceTypeOK, PointersInv, NEW u \in User, NEW frame, Deliver(u, frame)
  PROVE  wild' => wild \/ Ended
<1>1. CASE online[u] = NoConn
  BY <1>1 DEF Deliver
<1>2. CASE online[u] # NoConn /\ online[u] \in connections
  BY <1>2 DEF Deliver, WriteThrough, Reached
<1>3. CASE online[u] # NoConn /\ online[u] \notin connections
  BY <1>3 DEF PointersInv
<1> QED
  BY <1>1, <1>2, <1>3

\* A request handler changes the cache only to remember the connection it runs on.
LEMMA ServesPointers ==
  ASSUME TypeOK, PointersInv, NEW p \in Proc, Serves(p)
  PROVE  /\ wild' => wild \/ Ended
         /\ UNCHANGED <<stale, connections, addr>>
         /\ \A u \in User : online'[u] # NoConn => online'[u] = online[u] \/ online'[u] \in connections
<1> DEFINE value == Head(c2s[p])
<1>1. UNCHANGED <<stale, connections, addr>> /\ p \in connections
  BY DEF Serves, Service, Serve
<1>2. ASSUME NEW m, Serve(p, m) PROVE value \in ClientFrame /\ value.method = m
  BY <1>2, ServeType
<1>3. ASSUME NEW m \in {"addfd", "accept_addfd", "refuse_addfd", "sendmsg"}, Serve(p, m)
      PROVE  value \in RelayFrame /\ value.method = m
  <2>1. value \in ClientFrame /\ value.method = m
    BY <1>2, <1>3
  <2> QED
    BY <2>1, ClientFrameFields
<1>4. ServiceTypeOK
  BY DEF TypeOK
<1>5. CASE Serve(p, "signin") /\ signin(p, value)
  BY <1>1, <1>5 DEF signin, cache
<1>6. CASE Serve(p, "login") /\ login(p, value)
  BY <1>1, <1>4, <1>6 DEF login, ServiceTypeOK
<1>7. CASE Serve(p, "findfd") /\ find(p, value)
  <2>1. value.id \in User
    BY <1>2, <1>7, ClientFrameFields
  <2>2. PICK frame : Deliver(value.id, frame)
    BY <1>7 DEF find
  <2> QED
    BY <1>1, <1>4, <1>7, <2>1, <2>2, DeliverPointers DEF find, cache
<1>8. CASE Serve(p, "sendmsg") /\ sendmsg(p, value)
  BY <1>1, <1>3, <1>4, <1>8, RelayFrameFields, DeliverPointers DEF sendmsg, cache
<1>9. CASE Serve(p, "addfd") /\ addfriend(p, value)
  BY <1>1, <1>3, <1>4, <1>9, RelayFrameFields, DeliverPointers DEF addfriend
<1>10. CASE Serve(p, "accept_addfd") /\ accept_addfd(p, value)
  <2>1. value.friendid \in User
    BY <1>3, <1>10, RelayFrameFields
  <2>2. PICK u \in User : Deliver(u, value)
    BY <1>10, <2>1 DEF accept_addfd, Requester
  <2> QED
    BY <1>1, <1>4, <1>10, <2>2, DeliverPointers DEF accept_addfd, cache
<1>11. CASE Serve(p, "refuse_addfd") /\ refuse_addfd(p, value)
  BY <1>1, <1>3, <1>4, <1>11, RelayFrameFields, DeliverPointers DEF refuse_addfd, cache
<1> QED
  BY <1>5, <1>6, <1>7, <1>8, <1>9, <1>10, <1>11 DEF Serves, Service

LEMMA SessionPointers ==
  ASSUME TypeOK, PointersInv, NEW p \in Proc, Session(p)
  PROVE  PointersInv'
<1>1. Ended => Ended'
  <2>1. [Next]_vars
    BY DEF Next
  <2> QED
    BY <2>1, EndedStays
<1>2. UNCHANGED cache
  BY DEF Session
<1>3. ASSUME NEW a \in Addr, Accept(p, a) PROVE PointersInv'
  BY <1>1, <1>2, <1>3, ConnectionAssumption
  DEF Accept, PointersInv, cache, TypeOK, ConnectionTypeOK
<1>4. CASE WriteDone(p) \/ NetStops(p) \/ ConnectFails(p) \/ Reset(p) \/ Leave(p)
  BY <1>1, <1>2, <1>4
  DEF WriteDone, NetStops, ConnectFails, Reset, Leave, serverSide, PointersInv, cache
<1>5. CASE ReadError(p) \/ WriteError(p) \/ StaleHandler(p)
  <2>1. Ended
    BY <1>5 DEF ReadError, WriteError, StaleHandler, PointersInv, Ended
  <2>2. connections' \subseteq connections /\ addr' = addr
    BY <1>5 DEF ReadError, WriteError, StaleHandler, Destroy
  <2> QED
    BY <1>1, <2>1, <2>2 DEF PointersInv
<1> QED
  BY <1>3, <1>4, <1>5 DEF Session

\* Why it holds: PointersInv is inductive.  The first read or write error is
\* what first takes an object away from a pointer, and there is none before a
\* client has gone; a restart of the server empties both kinds of pointers.
THEOREM WildNeedsDisconnect == Spec => []WildOnlyAfterDisconnect
<1>1. Init => PointersInv
  BY DEF Init, ConnectionInit, ServiceInit, PointersInv
<1>2. TypeOK /\ PointersInv /\ [Next]_vars => PointersInv'
  <2> SUFFICES ASSUME TypeOK, PointersInv, [Next]_vars PROVE PointersInv'
    OBVIOUS
  <2>1. Ended => Ended'
    BY EndedStays
  <2>2. ASSUME NEW p \in Proc, Session(p) PROVE PointersInv'
    BY <2>2, SessionPointers
  <2>3. ASSUME NEW p \in Proc, Serves(p) PROVE PointersInv'
    BY <2>1, <2>3, ServesPointers DEF PointersInv
  <2>4. ASSUME NEW p \in Proc, Killed(p) PROVE PointersInv'
    BY <2>1, <2>4 DEF Killed, Serve, AcceptKilled, cache, PointersInv
  <2>5. ASSUME NEW p \in Proc, Handles(p) PROVE PointersInv'
    BY <2>1, <2>5 DEF Handles, handle, Receive, serverSide, cache, PointersInv
  <2>6. ASSUME NEW p \in Proc, Asks(p) PROVE PointersInv'
    <3>1. UNCHANGED <<serverSide, cache>>
      BY <2>6, AsksLeaves DEF Asks, OpenChat, Leave
    <3> QED
      BY <2>1, <3>1 DEF serverSide, cache, PointersInv
  <2>7. CASE Stops
    BY <2>1, <2>7 DEF Stops, ServerStops, cache, PointersInv
  <2>8. CASE Starts
    BY <2>1, <2>8 DEF Starts, ServerStarts, PointersInv
  <2>9. CASE UNCHANGED vars
    BY <2>1, <2>9 DEF vars, netVars, cache, PointersInv
  <2> QED
    BY <2>2, <2>3, <2>4, <2>5, <2>6, <2>7, <2>8, <2>9 DEF Next
<1>3. PointersInv => WildOnlyAfterDisconnect
  BY DEF PointersInv, Ended, WildOnlyAfterDisconnect
<1> QED
  BY <1>1, <1>2, <1>3, TypeCorrect, PTL DEF Spec

-----------------------------------------------------------------------------
(* Friendship.  Accepting a request inserts the second of its two rows     *)
(* under an id it reads back from the requester's account, so the proof    *)
(* has to show that the requester of every request that can be accepted    *)
(* has one: the ids in the cache, in the channels and in the clients that  *)
(* come from a login are ids of accounts.                                  *)

Registered == {u \in User : userinfo[u] # NoAccount}

\* The ids in a frame that came from a login, now or before.
Known(frame) ==
  /\ frame.method = "login_suc" => frame.id \in Registered
  /\ frame.method = "addfd" => frame.userid \in Registered
  /\ frame.method = "accept_addfd" => frame.friendid \in Registered

KnownUp == {f \in ClientFrame : Known(f)}
KnownDown == {f \in ServerFrame : Known(f)}

KnownInv ==
  faults = 0 =>
    /\ me \in [Proc -> Registered \cup {Nobody}]
    /\ requests \in [Proc -> SUBSET Registered]
    /\ apply \in [User -> Seq(Registered)]
    /\ c2s \in [Proc -> Seq(KnownUp)]
    /\ s2c \in [Proc -> Seq(KnownDown)]
    /\ outq \in [Proc -> Seq(KnownDown)]

-----------------------------------------------------------------------------
\* An account is never removed, so what was known stays known.
LEMMA KnownStays ==
  ASSUME TypeOK, userinfo' = userinfo \/ \E u \in User, pw \in Password : userinfo' = insertPersional(u, pw)
  PROVE  /\ Registered \subseteq Registered'
         /\ KnownUp \subseteq KnownUp'
         /\ KnownDown \subseteq KnownDown'
<1>1. Registered \subseteq Registered'
  BY StoreAssumption, DataAssumption DEF Registered, insertPersional, TypeOK, StoreTypeOK
<1> QED
  BY <1>1 DEF KnownUp, KnownDown, Known

LEMMA KnownSame ==
  ASSUME userinfo' = userinfo
  PROVE  Registered' = Registered /\ KnownUp' = KnownUp /\ KnownDown' = KnownDown
BY DEF Registered, KnownUp, KnownDown, Known

\* A frame that is relayed is known to the receiver's side as it was to the sender's.
LEMMA KnownRelayed ==
  ASSUME NEW f \in RelayFrame, f \in KnownUp
  PROVE  f \in KnownDown
BY RelayIsFrame DEF KnownUp, KnownDown

\* With no call failing, `Failing' only says so.
LEMMA NoneFailing ==
  ASSUME TypeOK, NEW calls, NEW bad, Failing(calls, bad), faults' = 0
  PROVE  faults = 0 /\ bad = {}
BY DEF Failing, TypeOK, StoreTypeOK

\* The answers without an id.
LEMMA KnownReplies ==
  /\ \A m \in {"signin_suc", "signin_idexist", "login_noid", "login_pwerr", "findfd_err"} :
       Reply(m) \in KnownDown
  /\ \A u \in User : [method |-> "findfd_suc", id |-> u] \in KnownDown
BY MadeFrames DEF KnownDown, Known, Reply

LEMMA KnownServe ==
  ASSUME TypeOK, KnownInv, faults = 0, NEW p \in Proc, NEW m, Serve(p, m)
  PROVE  /\ Head(c2s[p]) \in KnownUp /\ Head(c2s[p]).method = m
         /\ c2s' \in [Proc -> Seq(KnownUp)]
<1>1. c2s[p] \in Seq(KnownUp) /\ c2s[p] # <<>>
  BY DEF Serve, KnownInv
<1>2. Head(c2s[p]) \in KnownUp /\ Tail(c2s[p]) \in Seq(KnownUp)
  BY <1>1, HeadTailProperties
<1> QED
  BY <1>2 DEF Serve, KnownInv

\* What a handler has to establish when no account changes.
KnownServed ==
  /\ userinfo' = userinfo
  /\ apply' \in [User -> Seq(Registered)]
  /\ outq' \in [Proc -> Seq(KnownDown)]

LEMMA KnownLogin ==
  ASSUME TypeOK, KnownInv, faults' = 0, NEW p \in Proc, NEW value \in KnownUp,
         value.method = "login", login(p, value)
  PROVE  KnownServed
<1>1. value \in ClientFrame /\ value.id \in User
  BY ClientFrameFields DEF KnownUp
<1>2. PICK bad \in SUBSET LoginCalls :
    /\ Failing(LoginCalls, bad)
    /\ \/ Write(p, <<Reply("login_noid")>>)
       \/ getPersional(value.id) /\ LoginAnswer(p, value, bad)
       \/ Write(p, <<Reply("login_pwerr")>>)
    /\ UNCHANGED <<tables, apply>>
  BY DEF login
<1>3. faults = 0 /\ bad = {}
  BY <1>2, NoneFailing
<1>4. outq \in [Proc -> Seq(KnownDown)] /\ apply \in [User -> Seq(Registered)]
  BY <1>3 DEF KnownInv
<1>5. \A m \in {"login_noid", "login_pwerr"} : <<Reply(m)>> \in Seq(KnownDown)
  BY KnownReplies
<1>6. ASSUME getPersional(value.id), LoginAnswer(p, value, bad)
      PROVE  outq' \in [Proc -> Seq(KnownDown)]
  <2> DEFINE answer == [method |-> "login_suc", id |-> value.id,
                        friends |-> getFriend(value.id), rows |-> getMessage(value.id)]
  <2>1. Write(p, <<answer>> \o Replay(value.id))
    BY <1>3, <1>6 DEF LoginAnswer
  <2>2. answer \in KnownDown
    <3>1. getFriend(value.id) \in SUBSET User
      BY DEF getFriend
    <3>2. getMessage(value.id) \in Seq(Message)
      BY GetMessageType DEF TypeOK, StoreTypeOK
    <3>4. answer \in ServerFrame
      BY <1>1, <3>1, <3>2 DEF ServerFrame
    <3>5. value.id \in Registered
      BY <1>1, <1>6 DEF getPersional, Registered
    <3> QED
      BY <3>4, <3>5 DEF KnownDown, Known
  <2>3. Replay(value.id) \in Seq(KnownDown)
    <3>1. apply[value.id] \in Seq(Registered)
      BY <1>1, <1>4
    <3>2. \A k \in 1 .. Len(apply[value.id]) :
            FriendFrame("addfd", apply[value.id][k], value.id) \in KnownDown
      <4> TAKE k \in 1 .. Len(apply[value.id])
      <4>1. apply[value.id][k] \in Registered
        BY <3>1
      <4>2. FriendFrame("addfd", apply[value.id][k], value.id) \in ServerFrame
        BY <1>1, <4>1, MadeFrames, RelayIsFrame DEF Registered
      <4> QED
        BY <4>1, <4>2 DEF KnownDown, Known, FriendFrame
    <3> QED
      BY <3>1, <3>2 DEF Replay
  <2>4. <<answer>> \o Replay(value.id) \in Seq(KnownDown)
    <3> HIDE DEF answer
    <3>1. <<answer>> \in Seq(KnownDown)
      BY <2>2
    <3> QED
      BY <2>3, <3>1, ConcatProperties
  <2> QED
    BY <1>4, <2>1, <2>4, WriteType
<1>7. outq' \in [Proc -> Seq(KnownDown)]
  BY <1>2, <1>4, <1>5, <1>6, WriteType
<1> QED
  BY <1>2, <1>4, <1>7 DEF KnownServed, tables

\* The handlers that relay.
LEMMA KnownDelivered ==
  ASSUME TypeOK, KnownInv, faults = 0, NEW u \in User, NEW frame \in KnownDown, Deliver(u, frame)
  PROVE  outq' \in [Proc -> Seq(KnownDown)]
BY DeliverQueue DEF TypeOK, KnownInv

LEMMA KnownRelays ==
  ASSUME TypeOK, KnownInv, faults' = 0, NEW p \in Proc, NEW value \in KnownUp,
         \/ value.method = "sendmsg" /\ sendmsg(p, value)
         \/ value.method = "addfd" /\ addfriend(p, value)
         \/ value.method = "accept_addfd" /\ accept_addfd(p, value)
         \/ value.method = "refuse_addfd" /\ refuse_addfd(p, value)
  PROVE  KnownServed
<1>1. value \in RelayFrame /\ value \in KnownDown
  BY ClientFrameFields, KnownRelayed DEF KnownUp
<1>2. CASE value.method = "sendmsg" /\ sendmsg(p, value)
  <2>1. faults = 0
    BY <1>2, NoneFailing DEF sendmsg
  <2>2. outq' \in [Proc -> Seq(KnownDown)]
    BY <1>1, <1>2, <2>1, RelayFrameFields, KnownDelivered DEF sendmsg
  <2> QED
    BY <1>2, <2>1, <2>2 DEF sendmsg, KnownServed, KnownInv, cache
<1>3. CASE value.method = "addfd" /\ addfriend(p, value)
  <2>1. faults = 0
    BY <1>3 DEF addfriend
  <2>2. outq' \in [Proc -> Seq(KnownDown)]
    BY <1>1, <1>3, <2>1, RelayFrameFields, KnownDelivered DEF addfriend
  <2>3. value.userid \in Registered /\ value.friendid \in User
    BY <1>1, <1>3, RelayFrameFields DEF KnownDown, Known
  <2>4. Append(apply[value.friendid], value.userid) \in Seq(Registered)
    BY <2>1, <2>3, AppendProperties DEF KnownInv
  <2> QED
    BY <1>3, <2>1, <2>2, <2>4 DEF addfriend, KnownServed, KnownInv, tables
<1>4. CASE value.method = "accept_addfd" /\ accept_addfd(p, value)
  <2>1. faults = 0
    BY <1>4, NoneFailing DEF accept_addfd
  <2>2. value.friendid \in User
    BY <1>1, <1>4, RelayFrameFields
  <2>3. PICK u \in User : Deliver(u, value)
    BY <1>4, <2>2 DEF accept_addfd, Requester
  <2>4. outq' \in [Proc -> Seq(KnownDown)]
    BY <1>1, <2>1, <2>3, KnownDelivered
  <2> QED
    BY <1>4, <2>1, <2>4 DEF accept_addfd, KnownServed, KnownInv, cache
<1>5. CASE value.method = "refuse_addfd" /\ refuse_addfd(p, value)
  <2>1. faults = 0
    BY <1>5 DEF refuse_addfd
  <2>2. outq' \in [Proc -> Seq(KnownDown)]
    BY <1>1, <1>5, <2>1, RelayFrameFields, KnownDelivered DEF refuse_addfd
  <2> QED
    BY <1>5, <2>1, <2>2 DEF refuse_addfd, KnownServed, KnownInv, tables, cache
<1> QED
  BY <1>2, <1>3, <1>4, <1>5

LEMMA KnownFind ==
  ASSUME TypeOK, KnownInv, faults' = 0, NEW p \in Proc, NEW value \in KnownUp,
         value.method = "findfd", find(p, value)
  PROVE  KnownServed
<1>1. value.id \in User /\ value.findid \in User
  BY ClientFrameFields DEF KnownUp
<1>2. faults = 0
  BY NoneFailing DEF find
<1>3. PICK frame \in KnownDown : Deliver(value.id, frame)
  BY <1>1, KnownReplies DEF find
<1>4. outq' \in [Proc -> Seq(KnownDown)]
  BY <1>1, <1>2, <1>3, KnownDelivered
<1> QED
  BY <1>2, <1>4 DEF find, KnownServed, KnownInv, tables, cache

\* A registration is the only step that changes the accounts.
LEMMA KnownSignin ==
  ASSUME TypeOK, KnownInv, faults' = 0, NEW p \in Proc, NEW value \in KnownUp,
         value.method = "signin", signin(p, value)
  PROVE  /\ userinfo' = userinfo \/ \E u \in User, pw \in Password : userinfo' = insertPersional(u, pw)
         /\ apply' = apply
         /\ outq' \in [Proc -> Seq(KnownDown)]
<1>1. value.id \in User /\ value.password \in Password
  BY ClientFrameFields DEF KnownUp
<1>2. faults = 0
  BY NoneFailing DEF signin
<1>3. PICK m \in {"signin_suc", "signin_idexist"} : Write(p, <<Reply(m)>>)
  BY DEF signin
<1>4. <<Reply(m)>> \in Seq(KnownDown)
  BY KnownReplies
<1>5. outq' \in [Proc -> Seq(KnownDown)]
  BY <1>2, <1>3, <1>4, WriteType DEF KnownInv
<1> QED
  BY <1>1, <1>5 DEF signin, cache

LEMMA KnownServes ==
  ASSUME TypeOK, KnownInv, NEW p \in Proc, Serves(p)
  PROVE  KnownInv'
<1> SUFFICES ASSUME faults' = 0
             PROVE  /\ me' \in [Proc -> Registered' \cup {Nobody}]
                    /\ requests' \in [Proc -> SUBSET Registered']
                    /\ apply' \in [User -> Seq(Registered')]
                    /\ c2s' \in [Proc -> Seq(KnownUp')]
                    /\ s2c' \in [Proc -> Seq(KnownDown')]
                    /\ outq' \in [Proc -> Seq(KnownDown')]
  BY DEF KnownInv
<1> DEFINE value == Head(c2s[p])
<1>1. UNCHANGED <<me, requests, s2c>>
  BY DEF Serves, Service, Serve, clientVars, info
<1>2. faults = 0
  BY NoneFailing
  DEF Serves, Service, signin, login, sendmsg, find, addfriend, accept_addfd, refuse_addfd
<1>3. ASSUME NEW m, Serve(p, m)
      PROVE  value \in KnownUp /\ value.method = m /\ c2s' \in [Proc -> Seq(KnownUp)]
  BY <1>2, <1>3, KnownServe
<1>4. CASE Serve(p, "signin") /\ signin(p, value)
  <2>1. value \in KnownUp /\ value.method = "signin" /\ c2s' \in [Proc -> Seq(KnownUp)]
    BY <1>3, <1>4
  <2>2. /\ userinfo' = userinfo \/ \E u \in User, pw \in Password : userinfo' = insertPersional(u, pw)
        /\ apply' = apply
        /\ outq' \in [Proc -> Seq(KnownDown)]
    BY <1>4, <2>1, KnownSignin
  <2>3. Registered \subseteq Registered' /\ KnownUp \subseteq KnownUp' /\ KnownDown \subseteq KnownDown'
    BY <2>2, KnownStays
  <2>4. /\ Seq(Registered) \subseteq Seq(Registered')
        /\ Seq(KnownUp) \subseteq Seq(KnownUp')
        /\ Seq(KnownDown) \subseteq Seq(KnownDown')
    BY <2>3
  <2> QED
    BY <1>1, <1>2, <2>1, <2>2, <2>3, <2>4 DEF KnownInv
<1>5. ASSUME KnownServed, c2s' \in [Proc -> Seq(KnownUp)]
      PROVE  KnownInv'
  <2>1. Registered' = Registered /\ KnownUp' = KnownUp /\ KnownDown' = KnownDown
    BY <1>5, KnownSame DEF KnownServed
  <2> QED
    BY <1>1, <1>2, <1>5, <2>1 DEF KnownInv, KnownServed
<1>6. CASE Serve(p, "login") /\ login(p, value)
  BY <1>3, <1>5, <1>6, KnownLogin DEF KnownInv
<1>7. CASE Serve(p, "findfd") /\ find(p, value)
  BY <1>3, <1>5, <1>7, KnownFind DEF KnownInv
<1>8. CASE \/ Serve(p, "sendmsg") /\ sendmsg(p, value)
           \/ Serve(p, "addfd") /\ addfriend(p, value)
           \/ Serve(p, "accept_addfd") /\ accept_addfd(p, value)
           \/ Serve(p, "refuse_addfd") /\ refuse_addfd(p, value)
  BY <1>3, <1>5, <1>8, KnownRelays DEF KnownInv
<1> QED
  BY <1>4, <1>6, <1>7, <1>8 DEF Serves, Service

LEMMA KnownSession ==
  ASSUME TypeOK, KnownInv, NEW p \in Proc, Session(p)
  PROVE  KnownInv'
<1> SUFFICES ASSUME faults' = 0
             PROVE  /\ c2s' \in [Proc -> Seq(KnownUp)]
                    /\ s2c' \in [Proc -> Seq(KnownDown)]
                    /\ outq' \in [Proc -> Seq(KnownDown)]
  BY KnownSame DEF Session, KnownInv, tables, cache, clientVars, info
<1>1. /\ c2s \in [Proc -> Seq(KnownUp)] /\ s2c \in [Proc -> Seq(KnownDown)]
      /\ outq \in [Proc -> Seq(KnownDown)]
  BY DEF Session, KnownInv
<1>2. <<>> \in Seq(KnownUp) /\ <<>> \in Seq(KnownDown)
  OBVIOUS
<1>3. CASE WriteDone(p)
  <2>1. outq[p] \in Seq(KnownDown) /\ outq[p] # <<>> /\ s2c[p] \in Seq(KnownDown)
    BY <1>1, <1>3 DEF WriteDone
  <2>2. Head(outq[p]) \in KnownDown /\ Tail(outq[p]) \in Seq(KnownDown)
    BY <2>1, HeadTailProperties
  <2>3. Append(s2c[p], Head(outq[p])) \in Seq(KnownDown)
    BY <2>1, <2>2, AppendProperties
  <2> QED
    BY <1>1, <1>3, <2>2, <2>3 DEF WriteDone
<1>4. CASE ReadError(p) \/ WriteError(p)
  BY <1>1, <1>2, <1>4 DEF ReadError, WriteError, Destroy
<1>5. CASE StaleHandler(p)
  BY <1>1, <1>2, <1>5 DEF StaleHandler, Destroy
<1>6. CASE (\E a \in Addr : Accept(p, a)) \/ NetStops(p) \/ ConnectFails(p)
  BY <1>1, <1>6 DEF Accept, NetStops, ConnectFails, serverSide
<1>7. CASE Reset(p) \/ Leave(p)
  BY <1>1, <1>2, <1>7 DEF Reset, Leave, serverSide
<1> QED
  BY <1>3, <1>4, <1>5, <1>6, <1>7 DEF Session

LEMMA KnownHandles ==
  ASSUME TypeOK, KnownInv, NEW p \in Proc, Handles(p)
  PROVE  KnownInv'
<1> DEFINE value == Head(s2c[p])
<1> SUFFICES ASSUME faults = 0
             PROVE  /\ me' \in [Proc -> Registered \cup {Nobody}]
                    /\ requests' \in [Proc -> SUBSET Registered]
                    /\ s2c' \in [Proc -> Seq(KnownDown)]
                    /\ UNCHANGED <<userinfo, apply, c2s, outq>>
  BY KnownSame DEF Handles, KnownInv, tables
<1>1. PICK methods : Receive(p, methods)
  BY DEF Handles, handle
<1>2. s2c[p] \in Seq(KnownDown) /\ s2c[p] # <<>>
  BY <1>1 DEF Receive, KnownInv
<1>3. value \in KnownDown /\ Tail(s2c[p]) \in Seq(KnownDown)
  BY <1>2, HeadTailProperties
<1>4. s2c' \in [Proc -> Seq(KnownDown)] /\ UNCHANGED <<userinfo, apply, c2s, outq>>
  BY <1>1, <1>3 DEF Receive, Handles, KnownInv, serverSide, tables, cache
<1>5. ASSUME NEW m, Receive(p, {m}) PROVE value.method = m
  BY <1>5 DEF Receive
<1>6. me \in [Proc -> Registered \cup {Nobody}] /\ requests \in [Proc -> SUBSET Registered]
  BY DEF KnownInv
<1>7. CASE Receive(p, {"login_suc"}) /\ handle_login(p, value)
  <2>1. value.id \in Registered
    BY <1>3, <1>5, <1>7 DEF KnownDown, Known
  <2> QED
    BY <1>4, <1>6, <1>7, <2>1 DEF handle_login
<1>8. CASE Receive(p, {"addfd"}) /\ handle_addfd(p, value)
  <2>1. value.userid \in Registered
    BY <1>3, <1>5, <1>8 DEF KnownDown, Known
  <2> QED
    BY <1>4, <1>6, <1>8, <2>1 DEF handle_addfd
<1>9. CASE UNCHANGED <<me, requests>>
  BY <1>4, <1>6, <1>9
<1> QED
  BY <1>7, <1>8, <1>9
  DEF Handles, handle, handle_answer, handle_find, handle_accept, handle_msg, handle_other, info

LEMMA KnownAsks ==
  ASSUME TypeOK, KnownInv, NEW p \in Proc, Asks(p)
  PROVE  KnownInv'
<1> SUFFICES ASSUME faults = 0
             PROVE  /\ me' = me
                    /\ requests' \in [Proc -> SUBSET Registered]
                    /\ c2s' \in [Proc -> Seq(KnownUp)]
                    /\ s2c' \in [Proc -> Seq(KnownDown)]
                    /\ outq' = outq
  BY KnownSame DEF Asks, KnownInv, tables, cache
<1>1. /\ me \in [Proc -> Registered \cup {Nobody}] /\ requests \in [Proc -> SUBSET Registered]
      /\ c2s \in [Proc -> Seq(KnownUp)] /\ s2c \in [Proc -> Seq(KnownDown)]
  BY DEF KnownInv
<1>2. CASE \E u \in User : OpenChat(p, u)
  <2>1. <<>> \in Seq(KnownDown)
    OBVIOUS
  <2> QED
    BY <1>1, <1>2, <2>1 DEF OpenChat, Leave, serverSide, clientVars, info
<1>3. ASSUME NEW frame \in KnownUp, ClientWrite(p, frame)
      PROVE  c2s' \in [Proc -> Seq(KnownUp)]
  <2>1. Append(c2s[p], frame) \in Seq(KnownUp)
    BY <1>1, AppendProperties
  <2> QED
    BY <1>1, <1>3, <2>1 DEF ClientWrite
<1>4. CASE UserAsks(p)
  <2>1. s2c' = s2c /\ outq' = outq
    BY <1>4, AsksLeaves DEF serverSide
  <2>2. ASSUME NEW id \in User, NEW pw \in Password, NEW m \in {"login", "signin"}
        PROVE  [method |-> m, id |-> id, password |-> pw] \in KnownUp
    BY DEF KnownUp, Known, ClientFrame
  <2>3. ASSUME NEW l \in Logins \cup Signins PROVE l[1] \in User /\ l[2] \in Password
    BY ClientAssumption
  <2>4. ASSUME NEW l \in Logins, Login(p, l[1], l[2])
        PROVE  UNCHANGED <<me, requests>> /\ c2s' \in [Proc -> Seq(KnownUp)]
    BY <1>3, <2>2, <2>3, <2>4 DEF Login, info
  <2>5. ASSUME NEW l \in Signins, Signin(p, l[1], l[2])
        PROVE  UNCHANGED <<me, requests>> /\ c2s' \in [Proc -> Seq(KnownUp)]
    BY <1>3, <2>2, <2>3, <2>5 DEF Signin, info
  <2>6. ASSUME NEW u \in User, NEW text \in Text, Sendmsg(p, u, text)
        PROVE  UNCHANGED <<me, requests>> /\ c2s' \in [Proc -> Seq(KnownUp)]
    <3>1. [method |-> "sendmsg", row |-> [sender |-> me[p], receiver |-> u, message |-> text]]
            \in KnownUp
      BY <1>1, <2>6 DEF Sendmsg, KnownUp, Known, ClientFrame, RelayFrame, Message, Registered
    <3> QED
      BY <1>3, <2>6, <3>1 DEF Sendmsg
  <2>7. ASSUME NEW u \in Searches, NEW by \in {"id", "name"}, Find(p, by, u)
        PROVE  UNCHANGED <<me, requests>> /\ c2s' \in [Proc -> Seq(KnownUp)]
    <3>1. [method |-> "findfd", by |-> by, id |-> me[p], findid |-> u] \in KnownUp
      BY <1>1, <2>7, ClientAssumption DEF Find, KnownUp, Known, ClientFrame, Registered
    <3> QED
      BY <1>3, <2>7, <3>1 DEF Find, info
  <2>8. ASSUME NEW u \in User, me[p] # Nobody
        PROVE  /\ FriendFrame("addfd", me[p], u) \in KnownUp
               /\ FriendFrame("refuse_addfd", me[p], u) \in KnownUp
               /\ u \in Registered => FriendFrame("accept_addfd", me[p], u) \in KnownUp
    <3>1. me[p] \in Registered /\ me[p] \in User
      BY <1>1, <2>8 DEF Registered
    <3>2. \A m \in {"addfd", "accept_addfd", "refuse_addfd"} : FriendFrame(m, me[p], u) \in ClientFrame
      BY <3>1, MadeFrames, RelayIsFrame
    <3> QED
      BY <3>1, <3>2 DEF KnownUp, Known, FriendFrame
  <2>9. ASSUME NEW u \in User, Addfriend(p, u)
        PROVE  UNCHANGED <<me, requests>> /\ c2s' \in [Proc -> Seq(KnownUp)]
    BY <1>3, <2>8, <2>9 DEF Addfriend, info
  <2>10. ASSUME NEW u \in User, Refuse_addfd(p, u)
         PROVE  UNCHANGED <<me, requests>> /\ c2s' \in [Proc -> Seq(KnownUp)]
    BY <1>3, <2>8, <2>10 DEF Refuse_addfd, info
  <2>11. ASSUME NEW u \in User, Accept_addfd(p, u)
         PROVE  /\ me' = me /\ requests' \in [Proc -> SUBSET Registered]
                /\ c2s' \in [Proc -> Seq(KnownUp)]
    <3>1. u \in Registered /\ me[p] # Nobody
      BY <1>1, <2>11 DEF Accept_addfd
    <3>2. c2s' \in [Proc -> Seq(KnownUp)]
      BY <1>3, <2>8, <2>11, <3>1 DEF Accept_addfd
    <3> QED
      BY <1>1, <2>11, <3>2 DEF Accept_addfd
  <2> QED
    BY <1>1, <1>4, <2>1, <2>4, <2>5, <2>6, <2>7, <2>9, <2>10, <2>11 DEF UserAsks, Dialog, ChatPage, SearchBox, FoundList, RequestList
<1> QED
  BY <1>2, <1>4 DEF Asks

LEMMA KnownKilled ==
  ASSUME TypeOK, KnownInv, NEW p \in Proc, Killed(p)
  PROVE  KnownInv'
<1> SUFFICES ASSUME faults = 0 PROVE KnownInv'
  BY DEF Killed, AcceptKilled, KnownInv
<1>1. c2s' \in [Proc -> Seq(KnownUp)]
  BY KnownServe DEF Killed
<1> QED
  BY <1>1, KnownSame DEF Killed, AcceptKilled, Serve, KnownInv, cache, clientVars, info

\* A new server process has forgotten the requests that waited.
LEMMA KnownStarts ==
  ASSUME TypeOK, KnownInv, Starts
  PROVE  KnownInv'
<1>1. <<>> \in Seq(Registered) /\ <<>> \in Seq(KnownUp) /\ <<>> \in Seq(KnownDown)
  OBVIOUS
<1> QED
  BY <1>1, KnownSame DEF Starts, ServerStarts, KnownInv, tables, clientVars, info

LEMMA KnownAlways == Spec => []KnownInv
<1>1. Init => KnownInv
  <2>1. \A S : <<>> \in Seq(S)
    OBVIOUS
  <2> QED
    BY <2>1 DEF Init, ClientInit, ServiceInit, ConnectionInit, KnownInv
<1>2. TypeOK /\ KnownInv /\ [Next]_vars => KnownInv'
  <2> SUFFICES ASSUME TypeOK, KnownInv, [Next]_vars PROVE KnownInv'
    OBVIOUS
  <2>1. ASSUME NEW p \in Proc, Session(p) \/ Serves(p) \/ Killed(p) \/ Handles(p) \/ Asks(p)
        PROVE  KnownInv'
    BY <2>1, KnownSession, KnownServes, KnownKilled, KnownHandles, KnownAsks
  <2>2. CASE Stops
    BY <2>2, KnownSame DEF Stops, ServerStops, KnownInv, tables, cache, clientVars, info
  <2>3. CASE Starts
    BY <2>3, KnownStarts
  <2>4. CASE UNCHANGED vars
    BY <2>4, KnownSame DEF vars, netVars, KnownInv, tables, cache, clientVars, info
  <2> QED
    BY <2>1, <2>2, <2>3, <2>4 DEF Next
<1> QED
  BY <1>1, <1>2, TypeCorrect, PTL DEF Spec

-----------------------------------------------------------------------------
(* The friend table.                                                       *)

\* With no call failing, accepting a request inserts a row and its mirror image.
LEMMA AcceptMirrors ==
  ASSUME TypeOK, KnownInv, faults' = 0, NEW p \in Proc, NEW value \in KnownUp,
         value.method = "accept_addfd", accept_addfd(p, value)
  PROVE  /\ value.userid \in User /\ value.friendid \in User
         /\ friendinfo' = insertFriend(insertFriend(friendinfo, value.friendid, value.userid),
                                       value.userid, value.friendid)
<1>1. value \in RelayFrame /\ value.friendid \in Registered
  BY ClientFrameFields DEF KnownUp, Known
<1>2. value.userid \in User /\ value.friendid \in User
  BY <1>1, RelayFrameFields
<1>3. PICK bad \in SUBSET AcceptCalls :
        /\ Failing(AcceptCalls, bad)
        /\ \E requester \in Requester(value, bad) : friendinfo' = BothRows(value, requester, bad)
  BY DEF accept_addfd
<1>4. bad = {}
  BY <1>3, NoneFailing
<1>5. Requester(value, bad) = {value.friendid}
  BY <1>1, <1>4 DEF Requester, Registered
<1> QED
  BY <1>2, <1>3, <1>4, <1>5 DEF BothRows, FirstRow

\* Which steps change the table, with no call failing.
FriendStep ==
  \/ friendinfo' = friendinfo /\ (up' => up)
  \/ friendinfo' = friendinfo /\ ~up /\ up' /\ starts' = starts + 1
  \/ /\ up
     /\ \E u, w \in User :
          friendinfo' = insertFriend(insertFriend(friendinfo, u, w), w, u)
  \/ /\ up /\ ~up' /\ "kill" \in Breaks
     /\ \E u, w \in User : friendinfo' = insertFriend(friendinfo, u, w)

LEMMA FriendSteps ==
  ASSUME TypeOK, KnownInv, [Next]_vars, faults' = 0
  PROVE  /\ FriendStep
         /\ faults = 0
         /\ starts' = starts \/ starts' = starts + 1
<1>1. ASSUME NEW p \in Proc, Serves(p)
      PROVE  FriendStep /\ faults = 0 /\ starts' = starts
  <2> DEFINE value == Head(c2s[p])
  <2>1. up /\ starts' = starts
    BY <1>1 DEF Serves, Service, Serve
  <2>2. faults = 0
    BY <1>1, NoneFailing
    DEF Serves, Service, signin, login, sendmsg, find, addfriend, accept_addfd, refuse_addfd
  <2>3. CASE Serve(p, "accept_addfd") /\ accept_addfd(p, value)
    <3>1. value \in KnownUp /\ value.method = "accept_addfd"
      BY <2>2, <2>3, KnownServe
    <3> QED
      BY <2>1, <2>2, <2>3, <3>1, AcceptMirrors DEF FriendStep
  <2>4. CASE friendinfo' = friendinfo
    BY <2>1, <2>2, <2>4 DEF FriendStep
  <2> QED
    BY <1>1, <2>3, <2>4
    DEF Serves, Service, signin, login, sendmsg, find, addfriend, refuse_addfd, tables
<1>2. ASSUME NEW p \in Proc, Killed(p)
      PROVE  FriendStep /\ faults = 0 /\ starts' = starts
  <2> DEFINE value == Head(c2s[p])
  <2>1. up /\ up' = FALSE /\ "kill" \in Breaks /\ faults = 0 /\ starts' = starts
    BY <1>2 DEF Killed, Serve, AcceptKilled
  <2>2. value \in ClientFrame /\ value.method = "accept_addfd"
    BY <1>2, ServeType DEF Killed
  <2>3. value.userid \in User /\ value.friendid \in User
    BY <2>2, ClientFrameFields, RelayFrameFields
  <2>4. friendinfo' = insertFriend(friendinfo, value.friendid, value.userid)
    BY <1>2 DEF Killed, AcceptKilled, FirstRow
  <2> QED
    BY <2>1, <2>3, <2>4 DEF FriendStep
<1>3. ASSUME NEW p \in Proc, Session(p)
      PROVE  FriendStep /\ faults = 0 /\ starts' = starts
  <2>1. UNCHANGED <<friendinfo, faults, starts>>
    BY <1>3 DEF Session, tables
  <2>2. up' => up
    BY <1>3
    DEF Session, Accept, WriteDone, ReadError, WriteError, StaleHandler, NetStops, ConnectFails,
        Reset, Leave, serverSide
  <2> QED
    BY <2>1, <2>2 DEF FriendStep
<1>4. ASSUME NEW p \in Proc, Handles(p) \/ Asks(p)
      PROVE  FriendStep /\ faults = 0 /\ starts' = starts
  <2>1. UNCHANGED <<friendinfo, faults, starts>>
    BY <1>4 DEF Handles, Asks, tables
  <2>2. up' = up
    BY <1>4, AsksLeaves DEF Handles, handle, Receive, Asks, OpenChat, Leave, serverSide
  <2> QED
    BY <2>1, <2>2 DEF FriendStep
<1>5. CASE Stops \/ UNCHANGED vars
  BY <1>5 DEF Stops, ServerStops, vars, netVars, tables, FriendStep
<1>6. CASE Starts
  BY <1>6 DEF Starts, ServerStarts, tables, FriendStep
<1> QED
  BY <1>1, <1>2, <1>3, <1>4, <1>5, <1>6 DEF Next

\* How many rows more there are for a pair than for the pair turned round.
Excess(table, a, b) == table[<<a, b>>] - table[<<b, a>>]

\* A row and its mirror image leave that as it was.
LEMMA MirrorRows ==
  ASSUME NEW table \in [User \X User -> Nat], NEW u \in User, NEW w \in User,
         NEW more, more = insertFriend(insertFriend(table, u, w), w, u),
         NEW a \in User, NEW b \in User
  PROVE  more \in [User \X User -> Nat] /\ Excess(more, a, b) = Excess(table, a, b)
<1> DEFINE first == insertFriend(table, u, w)
           both == insertFriend(first, w, u)
           there == IF a = u /\ b = w THEN 1 ELSE 0
           back == IF a = w /\ b = u THEN 1 ELSE 0
<1>1. first \in [User \X User -> Nat]
  BY InsertFriendType
<1>2. /\ first[<<a, b>>] = table[<<a, b>>] + (IF a = u /\ b = w THEN 1 ELSE 0)
      /\ first[<<b, a>>] = table[<<b, a>>] + (IF b = u /\ a = w THEN 1 ELSE 0)
  BY DEF first, insertFriend
<1>3. /\ both[<<a, b>>] = first[<<a, b>>] + (IF a = w /\ b = u THEN 1 ELSE 0)
      /\ both[<<b, a>>] = first[<<b, a>>] + (IF b = w /\ a = u THEN 1 ELSE 0)
  <2> HIDE DEF first
  <2> QED
    BY <1>1 DEF both, insertFriend
<1>4. table[<<a, b>>] \in Nat /\ table[<<b, a>>] \in Nat
  OBVIOUS
<1>5. both \in [User \X User -> Nat]
  BY <1>1, InsertFriendType
<1> HIDE DEF first, both
<1>6. both[<<a, b>>] = table[<<a, b>>] + (there + back) /\ there + back \in Nat
  BY <1>2, <1>3, <1>4
<1>7. both[<<b, a>>] = table[<<b, a>>] + (there + back)
  BY <1>2, <1>3, <1>4
<1>8. Excess(both, a, b) = Excess(table, a, b)
  BY <1>4, <1>6, <1>7 DEF Excess
<1> QED
  BY <1>5, <1>8 DEF first, both

\* As long as no Store call failed and nobody killed the process between the
\* two inserts, both users have as many rows for each other.
THEOREM FriendshipIsMutual == Spec => []FriendSymmetric
<1>1. Init => FriendSymmetric
  BY StoreAssumption DEF Init, StoreInit, FriendSymmetric
<1>2. TypeOK /\ KnownInv /\ FriendSymmetric /\ [Next]_vars => FriendSymmetric'
  <2> SUFFICES ASSUME TypeOK, KnownInv, FriendSymmetric, [Next]_vars,
                      faults' = 0, "kill" \notin Breaks, NEW a \in User, NEW b \in User
               PROVE  friendinfo'[<<a, b>>] = friendinfo'[<<b, a>>]
    BY DEF FriendSymmetric
  <2>1. FriendStep /\ faults = 0
    BY FriendSteps
  <2>2. friendinfo[<<a, b>>] = friendinfo[<<b, a>>]
    BY <2>1 DEF FriendSymmetric
  <2>3. CASE friendinfo' = friendinfo
    BY <2>2, <2>3
  <2>4. ASSUME NEW u \in User, NEW w \in User,
               friendinfo' = insertFriend(insertFriend(friendinfo, u, w), w, u)
        PROVE  friendinfo'[<<a, b>>] = friendinfo'[<<b, a>>]
    <3>1. friendinfo \in [User \X User -> Nat]
      BY DEF TypeOK, StoreTypeOK
    <3>2. friendinfo' \in [User \X User -> Nat] /\ Excess(friendinfo', a, b) = Excess(friendinfo, a, b)
      BY <2>4, <3>1, MirrorRows
    <3>3. friendinfo[<<a, b>>] \in Nat /\ friendinfo'[<<a, b>>] \in Nat /\ friendinfo'[<<b, a>>] \in Nat
      BY <3>1, <3>2
    <3> QED
      BY <2>2, <3>2, <3>3 DEF Excess
  <2> QED
    BY <2>1, <2>3, <2>4 DEF FriendStep
<1> QED
  BY <1>1, <1>2, TypeCorrect, KnownAlways, PTL DEF Spec

\* Each end of the server process costs a pair of users at most one row: the
\* step that inserts only the first of the two also ends the process, and the
\* restart that must follow is counted before there can be another.
THEOREM FriendDriftBounded == Spec => []FriendDrift
<1>1. Init => FriendDrift
  <2> SUFFICES ASSUME Init, NEW a \in User, NEW b \in User
               PROVE  friendinfo[<<a, b>>] <= friendinfo[<<b, a>>] + Ends
    BY DEF FriendDrift
  <2>1. friendinfo[<<a, b>>] = friendinfo[<<b, a>>] /\ friendinfo[<<b, a>>] \in Nat
    BY StoreAssumption DEF Init, StoreInit
  <2>2. Ends = 0
    BY DEF Init, ConnectionInit, Ends
  <2> QED
    BY <2>1, <2>2
<1>2. TypeOK /\ KnownInv /\ FriendDrift /\ [Next]_vars => FriendDrift'
  <2> SUFFICES ASSUME TypeOK, KnownInv, FriendDrift, [Next]_vars,
                      faults' = 0, NEW a \in User, NEW b \in User
               PROVE  friendinfo'[<<a, b>>] <= friendinfo'[<<b, a>>] + Ends'
    BY DEF FriendDrift
  <2>1. FriendStep /\ faults = 0 /\ (starts' = starts \/ starts' = starts + 1)
    BY FriendSteps
  <2>2. friendinfo[<<a, b>>] <= friendinfo[<<b, a>>] + Ends
    BY <2>1 DEF FriendDrift
  <2>3. friendinfo \in [User \X User -> Nat] /\ starts \in Nat
    BY VChatAssumption DEF TypeOK, StoreTypeOK
  <2>4. friendinfo[<<a, b>>] \in Nat /\ friendinfo[<<b, a>>] \in Nat
    BY <2>3
  <2>5. CASE friendinfo' = friendinfo /\ (up' => up)
    BY <2>1, <2>2, <2>3, <2>4, <2>5 DEF Ends
  <2>6. CASE friendinfo' = friendinfo /\ ~up /\ up' /\ starts' = starts + 1
    BY <2>2, <2>3, <2>4, <2>6 DEF Ends
  <2>7. ASSUME up, NEW u \in User, NEW w \in User,
               friendinfo' = insertFriend(insertFriend(friendinfo, u, w), w, u)
        PROVE  friendinfo'[<<a, b>>] <= friendinfo'[<<b, a>>] + Ends'
    <3>0. friendinfo' \in [User \X User -> Nat] /\ Excess(friendinfo', a, b) = Excess(friendinfo, a, b)
      BY <2>3, <2>7, MirrorRows
    <3>1. /\ friendinfo'[<<a, b>>] \in Nat /\ friendinfo'[<<b, a>>] \in Nat
          /\ friendinfo'[<<a, b>>] - friendinfo'[<<b, a>>] = friendinfo[<<a, b>>] - friendinfo[<<b, a>>]
      BY <3>0 DEF Excess
    <3>2. Ends \in Nat /\ Ends' \in Nat /\ Ends <= Ends'
      <4>1. Ends = starts
        BY <2>3, <2>7 DEF Ends
      <4>2. Ends' = starts' \/ Ends' = starts' + 1
        BY <2>1, <2>3 DEF Ends
      <4> QED
        BY <2>1, <2>3, <4>1, <4>2
    <3> QED
      BY <2>2, <2>4, <3>1, <3>2
  <2>8. ASSUME up, ~up', NEW u \in User, NEW w \in User,
               friendinfo' = insertFriend(friendinfo, u, w)
        PROVE  friendinfo'[<<a, b>>] <= friendinfo'[<<b, a>>] + Ends'
    <3>1. /\ friendinfo'[<<a, b>>] \in {friendinfo[<<a, b>>], friendinfo[<<a, b>>] + 1}
          /\ friendinfo'[<<b, a>>] \in {friendinfo[<<b, a>>], friendinfo[<<b, a>>] + 1}
      BY <2>3, <2>8 DEF insertFriend
    <3>2. Ends = starts /\ Ends' = starts' + 1 /\ starts' >= starts
      BY <2>1, <2>3, <2>8 DEF Ends
    <3> QED
      BY <2>1, <2>2, <2>3, <2>4, <3>1, <3>2 DEF Ends
  <2> QED
    BY <2>1, <2>5, <2>6, <2>7, <2>8 DEF FriendStep
<1> QED
  BY <1>1, <1>2, TypeCorrect, KnownAlways, PTL DEF Spec
=============================================================================
