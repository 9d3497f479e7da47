-------------------------- MODULE ConversationProofs --------------------------
(***************************************************************************)
(* What a window displays is what the table of messages holds, for every   *)
(* number of processes and users: ViewMatchesTable, SentIsStored and       *)
(* GhostsAreFaults of VChat, and that VChat implements Conversation.       *)
(***************************************************************************)
EXTENDS RoutingProofs

\* What windows display is messages.
ViewTyped == view \in [Proc -> [User -> Seq(Message)]]

DisplayTyped == TypeOK /\ ViewTyped

-----------------------------------------------------------------------------
(* Selecting one sender's messages to one receiver.                        *)

LEMMA FromType ==
  ASSUME NEW rows \in Seq(Message), NEW w, NEW u
  PROVE  From(rows, w, u) \in Seq(Message)
<1> DEFINE P == {k \in DOMAIN rows : rows[k].sender = w /\ rows[k].receiver = u}
<1>1. P \in SUBSET (1 .. Len(rows))
  OBVIOUS
<1> HIDE DEF P
<1>2. Select(rows, P) \in Seq(Message)
  BY <1>1, SelectType
<1> QED
  BY <1>2 DEF From, P

LEMMA FromNone ==
  ASSUME NEW w, NEW u
  PROVE  From(<<>>, w, u) = <<>>
<1>1. {k \in DOMAIN <<>> : <<>>[k].sender = w /\ <<>>[k].receiver = u} = {}
  OBVIOUS
<1> QED
  BY <1>1, SelectNone DEF From

LEMMA FromOne ==
  ASSUME NEW row, NEW w, NEW u
  PROVE  From(<<row>>, w, u) = IF row.sender = w /\ row.receiver = u THEN <<row>> ELSE <<>>
<1> DEFINE P == {k \in DOMAIN <<row>> : <<row>>[k].sender = w /\ <<row>>[k].receiver = u}
<1>1. P = IF row.sender = w /\ row.receiver = u THEN {1} ELSE {}
  OBVIOUS
<1> QED
  BY <1>1, SelectNone, SelectOne DEF From

LEMMA FromConcat ==
  ASSUME NEW a \in Seq(Message), NEW b \in Seq(Message), NEW w, NEW u
  PROVE  From(a \o b, w, u) = From(a, w, u) \o From(b, w, u)
<1> DEFINE c == a \o b
           P == {k \in DOMAIN a : a[k].sender = w /\ a[k].receiver = u}
           Q == {k \in DOMAIN b : b[k].sender = w /\ b[k].receiver = u}
           U == {k \in DOMAIN c : c[k].sender = w /\ c[k].receiver = u}
<1>1. /\ c \in Seq(Message) /\ Len(c) = Len(a) + Len(b) /\ Len(a) \in Nat /\ Len(b) \in Nat
      /\ \A k \in 1 .. Len(a) : c[k] = a[k]
      /\ \A k \in 1 .. Len(b) : c[Len(a) + k] = b[k]
  <2>1. \A k \in 1 .. Len(b) : /\ Len(a) + k \in Len(a) + 1 .. Len(a) + Len(b)
                               /\ (Len(a) + k) - Len(a) = k
    OBVIOUS
  <2> QED
    BY <2>1, ConcatProperties
<1> HIDE DEF c
<1>2. Joins(U, P, Q, Len(a), Len(b))
  BY <1>1 DEF Joins
<1> HIDE DEF P, Q, U
<1>3. Select(a \o b, U) = Select(a, P) \o Select(b, Q)
  BY <1>2, SelectConcat
<1> QED
  BY <1>3 DEF From, P, Q, U, c

\* Appending one row.
LEMMA FromAppend ==
  ASSUME NEW a \in Seq(Message), NEW row \in Message, NEW w, NEW u
  PROVE  From(Append(a, row), w, u) =
           IF row.sender = w /\ row.receiver = u THEN From(a, w, u) \o <<row>> ELSE From(a, w, u)
<1>1. <<row>> \in Seq(Message) /\ Append(a, row) = a \o <<row>>
  BY AppendIsConcat
<1>2. From(a \o <<row>>, w, u) = From(a, w, u) \o From(<<row>>, w, u)
  <2>1. \A b \in Seq(Message) : From(a \o b, w, u) = From(a, w, u) \o From(b, w, u)
    BY FromConcat
  <2> QED
    BY <1>1, <2>1, Zenon
<1>3. From(a, w, u) \o <<>> = From(a, w, u)
  BY FromType, ConcatEmptySeq
<1> QED
  BY <1>1, <1>2, <1>3, FromOne

\* A selection that leaves none of them out.
LEMMA FromSelect ==
  ASSUME NEW rows \in Seq(Message), NEW P \in SUBSET (1 .. Len(rows)), NEW w, NEW u,
         \A k \in 1 .. Len(rows) : rows[k].sender = w /\ rows[k].receiver = u => k \in P
  PROVE  From(Select(rows, P), w, u) = From(rows, w, u)
<1> DEFINE t == Select(rows, P)
           Q == {k \in DOMAIN t : t[k].sender = w /\ t[k].receiver = u}
           R == {k \in DOMAIN rows : rows[k].sender = w /\ rows[k].receiver = u}
<1>1. /\ t \in Seq(Message) /\ Len(t) = Cardinality(P) /\ Cardinality(P) \in Nat
      /\ \A k \in 1 .. Cardinality(P) : Nth(P, k) \in P /\ t[k] = rows[Nth(P, k)]
  BY SelectType
<1>2. DOMAIN t = 1 .. Cardinality(P) /\ DOMAIN rows = 1 .. Len(rows)
  BY <1>1
<1>3. \A n \in P : n \in 1 .. Len(rows) /\ \E k \in 1 .. Cardinality(P) : Nth(P, k) = n
  <2>1. P \in SUBSET Nat /\ IsFiniteSet(P)
    BY PositionsListed
  <2>2. \A n \in P : n \in 1 .. Len(rows)
    OBVIOUS
  <2> QED
    BY <2>1, <2>2, NthPlace
<1> HIDE DEF t
<1>4. {Nth(P, j) : j \in Q} = R
  <2>1. ASSUME NEW j \in Q PROVE Nth(P, j) \in R
    <3>1. j \in 1 .. Cardinality(P)
      BY <1>2
    <3>2. Nth(P, j) \in P /\ t[j] = rows[Nth(P, j)] /\ Nth(P, j) \in 1 .. Len(rows)
      BY <1>1, <1>3, <3>1
    <3> QED
      BY <1>2, <3>2
  <2>2. ASSUME NEW n \in R PROVE \E j \in Q : Nth(P, j) = n
    <3>1. n \in P
      BY <1>2
    <3>2. PICK j \in 1 .. Cardinality(P) : Nth(P, j) = n
      BY <1>3, <3>1
    <3>3. t[j] = rows[n]
      BY <1>1, <3>2
    <3>4. j \in Q
      BY <1>2, <3>3
    <3> QED
      BY <3>2, <3>4
  <2> QED
    BY <2>1, <2>2
<1>5. Q \in SUBSET (1 .. Cardinality(P))
  BY <1>2
<1> HIDE DEF Q, R
<1>6. Select(Select(rows, P), Q) = Select(rows, {Nth(P, j) : j \in Q})
  BY <1>5, SelectAgain
<1> QED
  BY <1>4, <1>6 DEF From, t, Q, R

-----------------------------------------------------------------------------
(* The messages among the frames of a channel, either way.                 *)

Frame == ClientFrame \cup ServerFrame

LEMMA FrameRow ==
  ASSUME NEW f \in Frame, f.method = "sendmsg"
  PROVE  f \in RelayFrame /\ f.row \in Message
BY ClientFrameFields, ServerFrameFields, RelayFrameFields DEF Frame

LEMMA FramesWiden ==
  Seq(ClientFrame) \subseteq Seq(Frame) /\ Seq(ServerFrame) \subseteq Seq(Frame)
<1>1. ClientFrame \subseteq Frame /\ ServerFrame \subseteq Frame
  BY DEF Frame
<1>2. \A A, B : A \subseteq B => Seq(A) \subseteq Seq(B)
  OBVIOUS
<1> QED
  BY <1>1, <1>2, Zenon

\* The positions of the messages.
Sent(c) == {k \in DOMAIN c : c[k].method = "sendmsg"}

LEMMA SentFrames ==
  ASSUME NEW c \in Seq(Frame)
  PROVE  /\ Sent(c) \in SUBSET (1 .. Len(c))
         /\ Select(c, Sent(c)) \in Seq(Frame)
         /\ \A k \in 1 .. Len(Select(c, Sent(c))) : Select(c, Sent(c))[k].row \in Message
<1>1. Sent(c) \in SUBSET (1 .. Len(c))
  BY DEF Sent
<1>2. /\ Select(c, Sent(c)) \in Seq(Frame) /\ Len(Select(c, Sent(c))) = Cardinality(Sent(c))
      /\ \A k \in 1 .. Cardinality(Sent(c)) :
           Nth(Sent(c), k) \in Sent(c) /\ Select(c, Sent(c))[k] = c[Nth(Sent(c), k)]
  BY <1>1, SelectType
<1>3. ASSUME NEW k \in 1 .. Cardinality(Sent(c)) PROVE c[Nth(Sent(c), k)].row \in Message
  <2>1. Nth(Sent(c), k) \in 1 .. Len(c) /\ c[Nth(Sent(c), k)].method = "sendmsg"
    BY <1>2 DEF Sent
  <2>2. c[Nth(Sent(c), k)] \in Frame
    BY <2>1
  <2> QED
    BY <2>1, <2>2, FrameRow
<1> QED
  BY <1>1, <1>2, <1>3

LEMMA MessagesType ==
  ASSUME NEW c \in Seq(Frame)
  PROVE  Messages(c) \in Seq(Message)
<1> DEFINE t == Select(c, Sent(c))
<1>1. t \in Seq(Frame) /\ \A k \in 1 .. Len(t) : t[k].row \in Message
  BY SentFrames
<1> HIDE DEF t
<1>2. [k \in DOMAIN t |-> t[k].row] \in Seq(Message)
  BY <1>1
<1> QED
  BY <1>2 DEF Messages, Sent, t

LEMMA MessagesNone ==
  ASSUME NEW c \in Seq(Frame), \A k \in 1 .. Len(c) : c[k].method # "sendmsg"
  PROVE  Messages(c) = <<>>
<1>1. Sent(c) = {}
  BY DEF Sent
<1>2. Select(c, Sent(c)) = <<>>
  BY <1>1, SelectNone
<1>3. [k \in DOMAIN <<>> |-> <<>>[k].row] = <<>>
  OBVIOUS
<1> QED
  BY <1>2, <1>3 DEF Messages, Sent

LEMMA MessagesOne ==
  ASSUME NEW f \in Frame
  PROVE  Messages(<<f>>) = IF f.method = "sendmsg" THEN <<f.row>> ELSE <<>>
<1>1. CASE f.method # "sendmsg"
  <2>1. <<f>> \in Seq(Frame) /\ \A k \in 1 .. Len(<<f>>) : <<f>>[k].method # "sendmsg"
    BY <1>1
  <2> QED
    BY <1>1, <2>1, MessagesNone
<1>2. CASE f.method = "sendmsg"
  <2>1. Sent(<<f>>) = {1}
    BY <1>2 DEF Sent
  <2>2. Select(<<f>>, Sent(<<f>>)) = <<f>>
    BY <2>1, SelectOne
  <2>3. [k \in DOMAIN <<f>> |-> <<f>>[k].row] = <<f.row>>
    OBVIOUS
  <2> QED
    BY <1>2, <2>2, <2>3 DEF Messages, Sent
<1> QED
  BY <1>1, <1>2

LEMMA MessagesConcat ==
  ASSUME NEW a \in Seq(Frame), NEW b \in Seq(Frame)
  PROVE  Messages(a \o b) = Messages(a) \o Messages(b)
<1> DEFINE c == a \o b
           P == Sent(a)
           Q == Sent(b)
           U == Sent(c)
<1>1. /\ c \in Seq(Frame) /\ Len(c) = Len(a) + Len(b) /\ Len(a) \in Nat /\ Len(b) \in Nat
      /\ \A k \in 1 .. Len(a) : c[k] = a[k]
      /\ \A k \in 1 .. Len(b) : c[Len(a) + k] = b[k]
  <2>1. \A k \in 1 .. Len(b) : /\ Len(a) + k \in Len(a) + 1 .. Len(a) + Len(b)
                               /\ (Len(a) + k) - Len(a) = k
    OBVIOUS
  <2> QED
    BY <2>1, ConcatProperties
<1> HIDE DEF c
<1>2. Joins(U, P, Q, Len(a), Len(b))
  BY <1>1 DEF Joins, Sent
<1> DEFINE s == Select(a, P)
           t == Select(b, Q)
<1>3. /\ s \in Seq(Frame) /\ \A k \in 1 .. Len(s) : s[k].row \in Message
      /\ t \in Seq(Frame) /\ \A k \in 1 .. Len(t) : t[k].row \in Message
  BY SentFrames
<1> HIDE DEF P, Q, U
<1>4. Select(a \o b, U) = s \o t
  BY <1>2, SelectConcat
<1> HIDE DEF s, t
<1> DEFINE x == [k \in DOMAIN (s \o t) |-> (s \o t)[k].row]
           y == [k \in DOMAIN s |-> s[k].row]
           z == [k \in DOMAIN t |-> t[k].row]
<1>5. /\ s \o t \in Seq(Frame) /\ Len(s \o t) = Len(s) + Len(t) /\ Len(s) \in Nat /\ Len(t) \in Nat
      /\ \A k \in 1 .. Len(s) : (s \o t)[k] = s[k]
      /\ \A k \in Len(s) + 1 .. Len(s) + Len(t) : (s \o t)[k] = t[k - Len(s)]
  BY <1>3, ConcatProperties
<1>6. /\ y \in Seq(Message) /\ Len(y) = Len(s) /\ \A k \in 1 .. Len(s) : y[k] = s[k].row
      /\ z \in Seq(Message) /\ Len(z) = Len(t) /\ \A k \in 1 .. Len(t) : z[k] = t[k].row
  <2>1. DOMAIN s = 1 .. Len(s) /\ Len(s) \in Nat /\ DOMAIN t = 1 .. Len(t) /\ Len(t) \in Nat
    BY <1>3
  <2>2. y \in Seq(Message) /\ Len(y) = Len(s) /\ \A k \in 1 .. Len(s) : y[k] = s[k].row
    BY <1>3, <2>1
  <2>3. z \in Seq(Message) /\ Len(z) = Len(t) /\ \A k \in 1 .. Len(t) : z[k] = t[k].row
    BY <1>3, <2>1
  <2> QED
    BY <2>2, <2>3
<1>7. \A k \in Len(s) + 1 .. Len(s) + Len(t) : k - Len(s) \in 1 .. Len(t)
  BY <1>5
<1>8. /\ DOMAIN (s \o t) = 1 .. Len(s) + Len(t)
      /\ \A k \in 1 .. Len(s) + Len(t) : k \in 1 .. Len(s) \/ k \in Len(s) + 1 .. Len(s) + Len(t)
  BY <1>5
<1>9. \A k \in 1 .. Len(s) + Len(t) : (s \o t)[k].row \in Message
  BY <1>3, <1>5, <1>7, <1>8
<1>10. x \in Seq(Message) /\ Len(x) = Len(s) + Len(t) /\ \A k \in 1 .. Len(s) + Len(t) : x[k] = (s \o t)[k].row
  BY <1>5, <1>8, <1>9
<1> HIDE DEF x, y, z
<1>11. /\ y \o z \in Seq(Message) /\ Len(y \o z) = Len(s) + Len(t)
       /\ \A k \in 1 .. Len(s) : (y \o z)[k] = y[k]
       /\ \A k \in Len(s) + 1 .. Len(s) + Len(t) : (y \o z)[k] = z[k - Len(s)]
  <2>1. y \in Seq(Message) /\ z \in Seq(Message)
    BY <1>6
  <2>2. /\ y \o z \in Seq(Message) /\ Len(y \o z) = Len(y) + Len(z)
        /\ \A k \in 1 .. Len(y) : (y \o z)[k] = y[k]
        /\ \A k \in Len(y) + 1 .. Len(y) + Len(z) : (y \o z)[k] = z[k - Len(y)]
    BY <2>1, ConcatProperties
  <2> QED
    BY <1>6, <2>2
<1>12. \A k \in 1 .. Len(s) + Len(t) : x[k] = (y \o z)[k]
  <2>1. ASSUME NEW k \in 1 .. Len(s) PROVE x[k] = (y \o z)[k]
    <3>1. k \in 1 .. Len(s) + Len(t)
      BY <1>5
    <3> QED
      BY <1>5, <1>6, <1>10, <1>11, <3>1
  <2>2. ASSUME NEW k \in Len(s) + 1 .. Len(s) + Len(t) PROVE x[k] = (y \o z)[k]
    <3>1. k \in 1 .. Len(s) + Len(t) /\ k - Len(s) \in 1 .. Len(t)
      BY <1>5
    <3> QED
      BY <1>5, <1>6, <1>10, <1>11, <3>1
  <2> QED
    BY <1>8, <2>1, <2>2
<1>13. x = y \o z
  BY <1>10, <1>11, <1>12, SeqEqual
<1> QED
  BY <1>4, <1>13 DEF Messages, Sent, P, Q, U, c, s, t, x, y, z

\* The messages from w to u among the frames of a channel.
Ahead(c, w, u) == From(Messages(c), w, u)

LEMMA AheadType ==
  ASSUME NEW c \in Seq(Frame), NEW w, NEW u
  PROVE  Ahead(c, w, u) \in Seq(Message)
<1>1. Messages(c) \in Seq(Message)
  BY MessagesType
<1> QED
  BY <1>1, FromType DEF Ahead

LEMMA AheadNone ==
  ASSUME NEW c \in Seq(Frame), \A k \in 1 .. Len(c) : c[k].method # "sendmsg", NEW w, NEW u
  PROVE  Ahead(c, w, u) = <<>>
BY MessagesNone, FromNone DEF Ahead

LEMMA AheadOne ==
  ASSUME NEW f \in Frame, NEW w, NEW u
  PROVE  Ahead(<<f>>, w, u) =
           IF f.method = "sendmsg" /\ f.row.sender = w /\ f.row.receiver = u THEN <<f.row>> ELSE <<>>
<1>1. Messages(<<f>>) = IF f.method = "sendmsg" THEN <<f.row>> ELSE <<>>
  BY MessagesOne
<1>2. From(<<>>, w, u) = <<>>
  BY FromNone
<1>3. From(<<f.row>>, w, u) = IF f.row.sender = w /\ f.row.receiver = u THEN <<f.row>> ELSE <<>>
  BY FromOne
<1> QED
  BY <1>1, <1>2, <1>3 DEF Ahead

LEMMA AheadConcat ==
  ASSUME NEW a \in Seq(Frame), NEW b \in Seq(Frame), NEW w, NEW u
  PROVE  Ahead(a \o b, w, u) = Ahead(a, w, u) \o Ahead(b, w, u)
<1>1. Messages(a \o b) = Messages(a) \o Messages(b)
  BY MessagesConcat
<1>2. Messages(a) \in Seq(Message) /\ Messages(b) \in Seq(Message)
  BY MessagesType
<1>3. \A x, y \in Seq(Message) : From(x \o y, w, u) = From(x, w, u) \o From(y, w, u)
  BY FromConcat
<1> QED
  BY <1>1, <1>2, <1>3, Zenon DEF Ahead

\* The first frame, and the others.
LEMMA AheadNext ==
  ASSUME NEW c \in Seq(Frame), c # <<>>, NEW w, NEW u
  PROVE  Ahead(c, w, u) = Ahead(<<Head(c)>>, w, u) \o Ahead(Tail(c), w, u)
<1>1. /\ Head(c) \in Frame /\ Tail(c) \in Seq(Frame) /\ Len(c) \in Nat \ {0} /\ Len(Tail(c)) = Len(c) - 1
      /\ \A i \in 1 .. Len(Tail(c)) : Tail(c)[i] = c[i + 1]
      /\ Head(c) = c[1]
  BY HeadTailProperties
<1> DEFINE h == <<Head(c)>>
<1>2. h \in Seq(Frame) /\ Len(h) = 1 /\ h[1] = c[1]
  BY <1>1
<1> HIDE DEF h
<1>3. h \o Tail(c) = c
  <2>1. /\ h \o Tail(c) \in Seq(Frame) /\ Len(h \o Tail(c)) = Len(h) + Len(Tail(c))
        /\ \A k \in 1 .. Len(h) : (h \o Tail(c))[k] = h[k]
        /\ \A k \in Len(h) + 1 .. Len(h) + Len(Tail(c)) : (h \o Tail(c))[k] = Tail(c)[k - Len(h)]
    <3>1. h \in Seq(Frame) /\ Tail(c) \in Seq(Frame)
      BY <1>1, <1>2
    <3> QED
      BY <3>1, ConcatProperties
  <2>2. ASSUME NEW k \in 1 .. Len(c) PROVE (h \o Tail(c))[k] = c[k]
    <3>1. CASE k = 1
      BY <1>2, <2>1, <3>1
    <3>2. CASE k # 1
      <4>1. k \in Len(h) + 1 .. Len(h) + Len(Tail(c)) /\ k - 1 \in 1 .. Len(Tail(c)) /\ (k - 1) + 1 = k
        BY <1>1, <1>2, <3>2
      <4>2. (h \o Tail(c))[k] = Tail(c)[k - 1]
        BY <1>2, <2>1, <4>1
      <4>3. Tail(c)[k - 1] = c[k]
        BY <1>1, <4>1
      <4> QED
        BY <4>2, <4>3
    <3> QED
      BY <3>1, <3>2
  <2>3. Len(h \o Tail(c)) = Len(c)
    BY <1>1, <1>2, <2>1
  <2> QED
    BY <2>1, <2>2, <2>3, SeqEqual
<1>4. \A a, b \in Seq(Frame) : Ahead(a \o b, w, u) = Ahead(a, w, u) \o Ahead(b, w, u)
  BY AheadConcat
<1>5. Ahead(h \o Tail(c), w, u) = Ahead(h, w, u) \o Ahead(Tail(c), w, u)
  BY <1>1, <1>2, <1>4, Zenon
<1> QED
  BY <1>3, <1>5 DEF h

\* One more frame.
LEMMA AheadMore ==
  ASSUME NEW c \in Seq(Frame), NEW f \in Frame, NEW w, NEW u
  PROVE  Ahead(c \o <<f>>, w, u) = Ahead(c, w, u) \o Ahead(<<f>>, w, u)
<1>1. <<f>> \in Seq(Frame)
  OBVIOUS
<1>2. \A b \in Seq(Frame) : Ahead(c \o b, w, u) = Ahead(c, w, u) \o Ahead(b, w, u)
  BY AheadConcat
<1> QED
  BY <1>1, <1>2, Zenon

-----------------------------------------------------------------------------
(* What the windows display is of type.                                    *)

LEMMA ChatWithType ==
  ASSUME NEW rows \in Seq(Message), NEW u, NEW id
  PROVE  ChatWith(u, rows, id) \in Seq(Message)
<1> DEFINE P == {k \in DOMAIN rows : Peer(rows[k], id) = u}
<1>1. P \in SUBSET (1 .. Len(rows))
  OBVIOUS
<1> HIDE DEF P
<1>2. Select(rows, P) \in Seq(Message)
  BY <1>1, SelectType
<1> QED
  BY <1>2 DEF ChatWith, P

\* What the handlers do to what is displayed.
LEMMA HandlesView ==
  ASSUME NEW p \in Proc, Handles(p), NEW f, f = Head(s2c[p])
  PROVE  /\ f.method = "login_suc" =>
              view' = [view EXCEPT ![p] = [u \in User |-> view[p][u] \o ChatWith(u, f.rows, f.id)]]
         /\ f.method = "sendmsg" =>
              view' = [view EXCEPT ![p][Peer(f.row, me[p])] = Append(view[p][Peer(f.row, me[p])], f.row)]
         /\ f.method \notin {"login_suc", "sendmsg"} => view' = view
         /\ UNCHANGED messageinfo
<1>1. UNCHANGED messageinfo
  BY DEF Handles, tables
<1>2. CASE Receive(p, {"login_suc"}) /\ handle_login(p, f)
  <2>1. f.method = "login_suc"
    BY <1>2 DEF Receive
  <2>2. view' = [view EXCEPT ![p] = [u \in User |-> @[u] \o ChatWith(u, f.rows, f.id)]]
    BY <1>2 DEF handle_login
  <2> QED
    BY <1>1, <2>1, <2>2
<1>3. CASE Receive(p, {"sendmsg"}) /\ handle_msg(p, f)
  <2>1. f.method = "sendmsg"
    BY <1>3 DEF Receive
  <2>2. view' = [view EXCEPT ![p][Peer(f.row, me[p])] = Append(@, f.row)]
    BY <1>3 DEF handle_msg
  <2> QED
    BY <1>1, <2>1, <2>2
<1>4. CASE \/ Receive(p, {"login_noid", "login_pwerr"}) /\ handle_answer(p, "login")
           \/ Receive(p, {"signin_suc", "signin_idexist"}) /\ handle_answer(p, "signin")
           \/ Receive(p, {"findfd_suc"}) /\ handle_find(p, f)
           \/ Receive(p, {"addfd"}) /\ handle_addfd(p, f)
           \/ Receive(p, {"accept_addfd"}) /\ handle_accept(p, f)
           \/ Receive(p, {"findfd_err", "refuse_addfd"}) /\ handle_other
  <2>1. f.method \notin {"login_suc", "sendmsg"}
    BY <1>4 DEF Receive
  <2>2. view' = view
    BY <1>4 DEF handle_answer, handle_find, handle_addfd, handle_accept, handle_other, info
  <2> QED
    BY <1>1, <2>1, <2>2
<1> QED
  BY <1>2, <1>3, <1>4 DEF Handles, handle

LEMMA HandlesViewType ==
  ASSUME TypeOK, ViewTyped, NEW p \in Proc, Handles(p)
  PROVE  ViewTyped'
<1> DEFINE f == Head(s2c[p])
<1>1. f \in ServerFrame
  <2>1. s2c[p] \in Seq(ServerFrame) /\ s2c[p] # <<>>
    BY HandlesFacts, StreamType
  <2> QED
    BY <2>1, HeadTailProperties
<1>2. CASE f.method = "login_suc"
  <2>1. f.rows \in Seq(Message)
    BY <1>1, <1>2 DEF ServerFrame, RelayFrame
  <2>2. \A u \in User : view[p][u] \o ChatWith(u, f.rows, f.id) \in Seq(Message)
    <3> TAKE u \in User
    <3>1. ChatWith(u, f.rows, f.id) \in Seq(Message)
      BY <2>1, ChatWithType
    <3>2. view[p][u] \in Seq(Message)
      BY DEF ViewTyped
    <3> QED
      BY <3>1, <3>2, ConcatProperties
  <2>3. [u \in User |-> view[p][u] \o ChatWith(u, f.rows, f.id)] \in [User -> Seq(Message)]
    BY <2>2
  <2>4. view' = [view EXCEPT ![p] = [u \in User |-> view[p][u] \o ChatWith(u, f.rows, f.id)]]
    BY <1>2, HandlesView
  <2> HIDE DEF f
  <2> QED
    BY <2>3, <2>4 DEF ViewTyped
<1>3. CASE f.method = "sendmsg"
  <2>1. f.row \in Message
    BY <1>1, <1>3, ServerFrameFields, RelayFrameFields
  <2>2. Peer(f.row, me[p]) \in User
    BY <2>1 DEF Peer, Message
  <2>3. view' = [view EXCEPT ![p][Peer(f.row, me[p])] = Append(view[p][Peer(f.row, me[p])], f.row)]
    BY <1>3, HandlesView
  <2> DEFINE u == Peer(f.row, me[p])
  <2> HIDE DEF f, u
  <2>4. Append(view[p][u], f.row) \in Seq(Message)
    <3>1. view[p][u] \in Seq(Message)
      BY <2>2 DEF ViewTyped, u
    <3> QED
      BY <2>1, <3>1, AppendProperties
  <2> QED
    BY <2>2, <2>3, <2>4 DEF ViewTyped, u
<1>4. CASE f.method \notin {"login_suc", "sendmsg"}
  BY <1>4, HandlesView DEF ViewTyped
<1> QED
  BY <1>2, <1>3, <1>4

\* The row of a message is typed by the user who is logged in.
LEMMA SendmsgRow ==
  ASSUME TypeOK, NEW p \in Proc, NEW u \in User, NEW text \in Text, Sendmsg(p, u, text)
  PROVE  /\ me[p] \in User
         /\ [sender |-> me[p], receiver |-> u, message |-> text] \in Message
BY DEF Sendmsg, Message, TypeOK, ClientTypeOK

\* Of what a user asks for, only a message is displayed.
LEMMA AsksView ==
  ASSUME NEW p \in Proc, UserAsks(p)
  PROVE  UNCHANGED view \/ \E u \in User, text \in Text : Sendmsg(p, u, text)
BY DEF UserAsks, Dialog, ChatPage, SearchBox, FoundList, RequestList, Login, Signin, Find, Addfriend,
       Accept_addfd, Refuse_addfd, info

LEMMA AsksViewType ==
  ASSUME TypeOK, ViewTyped, NEW p \in Proc, UserAsks(p)
  PROVE  ViewTyped'
<1>1. ASSUME NEW u \in User, NEW text \in Text, Sendmsg(p, u, text) PROVE ViewTyped'
  <2> DEFINE row == [sender |-> me[p], receiver |-> u, message |-> text]
  <2>1. row \in Message
    BY <1>1, SendmsgRow
  <2>2. view' = view \/ view' = [view EXCEPT ![p][u] = Append(view[p][u], row)]
    BY <1>1 DEF Sendmsg
  <2> HIDE DEF row
  <2>3. Append(view[p][u], row) \in Seq(Message)
    <3>1. view[p][u] \in Seq(Message)
      BY DEF ViewTyped
    <3> QED
      BY <2>1, <3>1, AppendProperties
  <2>4. CASE view' = [view EXCEPT ![p][u] = Append(view[p][u], row)]
    BY <2>3, <2>4 DEF ViewTyped
  <2>5. CASE view' = view
    BY <2>5 DEF ViewTyped
  <2> QED
    BY <2>2, <2>4, <2>5
<1> QED
  BY <1>1, AsksView DEF ViewTyped

\* Only handling a frame and sending a message change what is displayed.
LEMMA ViewSame ==
  ASSUME NEW p \in Proc, Session(p) \/ Serves(p) \/ Killed(p) \/ \E u \in User : OpenChat(p, u)
  PROVE  UNCHANGED view
BY DEF Session, Serves, Killed, OpenChat, clientVars, info

\* The texts a window displays are messages: what a login brings from the
\* table, what is relayed, and what the user has sent.
LEMMA DisplayAlwaysTyped == Spec => []DisplayTyped
<1>1. Init => ViewTyped
  BY DEF Init, ClientInit, ViewTyped
<1>2. TypeOK /\ ViewTyped /\ [Next]_vars => ViewTyped'
  <2> SUFFICES ASSUME TypeOK, ViewTyped, [Next]_vars PROVE ViewTyped'
    OBVIOUS
  <2>1. ASSUME NEW p \in Proc, Session(p) \/ Serves(p) \/ Killed(p) PROVE ViewTyped'
    BY <2>1, ViewSame DEF ViewTyped
  <2>2. ASSUME NEW p \in Proc, Handles(p) PROVE ViewTyped'
    BY <2>2, HandlesViewType
  <2>3. ASSUME NEW p \in Proc, Asks(p) PROVE ViewTyped'
    <3>1. CASE UserAsks(p)
      BY <3>1, AsksViewType
    <3>2. CASE \E u \in User : OpenChat(p, u)
      BY <3>2, ViewSame DEF ViewTyped
    <3> QED
      BY <2>3, <3>1, <3>2 DEF Asks
  <2>4. CASE Stops \/ Starts \/ UNCHANGED vars
    BY <2>4 DEF Stops, Starts, vars, clientVars, info, ViewTyped
  <2> QED
    BY <2>1, <2>2, <2>3, <2>4 DEF Next
<1>3. TypeOK /\ ViewTyped => DisplayTyped
  BY DEF DisplayTyped
<1> QED
  BY <1>1, <1>2, <1>3, TypeCorrect, PTL DEF Spec

-----------------------------------------------------------------------------
(* Streams in which messages wait for a login.                             *)

\* A login is handled before the k-th frame of s.
LetIn(s, k) == \E j \in 1 .. k - 1 : s[j].method = "login_suc"

LetInAll(s) == LetIn(s, Len(s) + 1)

\* No message comes before a login.
NoneEarly(s) == \A k \in 1 .. Len(s) : s[k].method = "sendmsg" => LetIn(s, k)

\* Every message is for u.
AllTo(s, u) == \A k \in 1 .. Len(s) : s[k].method = "sendmsg" => s[k].row.receiver = u

\* The answer to a login brings these rows of the table.
Brings(s, rows) == \E k \in 1 .. Len(s) : s[k].method = "login_suc" /\ s[k].rows = rows

LEMMA WithoutLogin ==
  ASSUME NEW S, NEW s \in Seq(S), ~Has(s)
  PROVE  /\ ~LetInAll(s)
         /\ \A rows : ~Brings(s, rows)
         /\ NoneEarly(s) => \A k \in 1 .. Len(s) : s[k].method # "sendmsg"
<1>1. Len(s) \in Nat
  OBVIOUS
<1>2. \A j \in 1 .. Len(s) : s[j].method # "login_suc"
  BY DEF Has, LoginMethods
<1>3. \A k \in 1 .. Len(s) + 1 : ~LetIn(s, k)
  BY <1>1, <1>2 DEF LetIn
<1> QED
  BY <1>1, <1>2, <1>3 DEF LetInAll, Brings, NoneEarly

LEMMA BringsTyped ==
  ASSUME NEW s \in Seq(ServerFrame), NEW rows, Brings(s, rows)
  PROVE  rows \in Seq(Message)
<1>1. PICK k \in 1 .. Len(s) : s[k].method = "login_suc" /\ s[k].rows = rows
  BY DEF Brings
<1>2. s[k] \in ServerFrame
  OBVIOUS
<1> QED
  BY <1>1, <1>2 DEF ServerFrame, RelayFrame

\* The frames of two sequences in a row.
LEMMA ConcatFrames ==
  ASSUME NEW S, NEW s \in Seq(S), NEW w \in Seq(S)
  PROVE  /\ Len(s) \in Nat /\ Len(w) \in Nat /\ Len(s \o w) = Len(s) + Len(w)
         /\ \A k \in 1 .. Len(s) : k \in 1 .. Len(s \o w) /\ (s \o w)[k] = s[k]
         /\ \A k \in 1 .. Len(w) : Len(s) + k \in 1 .. Len(s \o w) /\ (s \o w)[Len(s) + k] = w[k]
         /\ \A k \in 1 .. Len(s \o w) : k \in 1 .. Len(s) \/ \E j \in 1 .. Len(w) : k = Len(s) + j
<1>1. /\ Len(s) \in Nat /\ Len(w) \in Nat /\ Len(s \o w) = Len(s) + Len(w)
      /\ \A k \in 1 .. Len(s) : (s \o w)[k] = s[k]
      /\ \A k \in Len(s) + 1 .. Len(s) + Len(w) : (s \o w)[k] = w[k - Len(s)]
  BY ConcatProperties
<1>2. \A k \in 1 .. Len(s) : k \in 1 .. Len(s \o w)
  BY <1>1
<1>3. ASSUME NEW k \in 1 .. Len(w)
      PROVE  Len(s) + k \in 1 .. Len(s \o w) /\ (s \o w)[Len(s) + k] = w[k]
  <2>1. Len(s) + k \in Len(s) + 1 .. Len(s) + Len(w) /\ (Len(s) + k) - Len(s) = k
    BY <1>1
  <2> QED
    BY <1>1, <2>1
<1>4. ASSUME NEW k \in 1 .. Len(s \o w), k \notin 1 .. Len(s)
      PROVE  \E j \in 1 .. Len(w) : k = Len(s) + j
  <2>1. k - Len(s) \in 1 .. Len(w) /\ k = Len(s) + (k - Len(s))
    BY <1>1, <1>4
  <2> QED
    BY <2>1
<1> QED
  BY <1>1, <1>2, <1>3, <1>4

LEMMA LetInConcat ==
  ASSUME NEW S, NEW s \in Seq(S), NEW w \in Seq(S)
  PROVE  /\ \A k \in 1 .. Len(s) : LetIn(s, k) => LetIn(s \o w, k)
         /\ LetInAll(s) => \A k \in 1 .. Len(w) + 1 : LetIn(s \o w, Len(s) + k)
         /\ LetInAll(s) \/ LetInAll(w) => LetInAll(s \o w)
<1>1. /\ Len(s) \in Nat /\ Len(w) \in Nat /\ Len(s \o w) = Len(s) + Len(w)
      /\ \A k \in 1 .. Len(s) : k \in 1 .. Len(s \o w) /\ (s \o w)[k] = s[k]
      /\ \A k \in 1 .. Len(w) : Len(s) + k \in 1 .. Len(s \o w) /\ (s \o w)[Len(s) + k] = w[k]
  BY ConcatFrames
<1>2. \A k \in 1 .. Len(s) : LetIn(s, k) => LetIn(s \o w, k)
  BY <1>1 DEF LetIn
<1>3. LetInAll(s) => \A k \in 1 .. Len(w) + 1 : LetIn(s \o w, Len(s) + k)
  BY <1>1 DEF LetIn, LetInAll
<1>4. LetInAll(w) => LetInAll(s \o w)
  <2> SUFFICES ASSUME NEW j \in 1 .. Len(w), w[j].method = "login_suc" PROVE LetInAll(s \o w)
    BY <1>1 DEF LetIn, LetInAll
  <2>1. Len(s) + j \in 1 .. (Len(s \o w) + 1) - 1 /\ (s \o w)[Len(s) + j].method = "login_suc"
    BY <1>1
  <2> QED
    BY <2>1 DEF LetIn, LetInAll
<1>5. LetInAll(s) => LetInAll(s \o w)
  <2>1. Len(w) + 1 \in 1 .. Len(w) + 1 /\ Len(s) + (Len(w) + 1) = Len(s \o w) + 1
    BY <1>1
  <2> QED
    BY <1>3, <2>1 DEF LetInAll
<1> QED
  BY <1>2, <1>3, <1>4, <1>5

LEMMA EarlyConcat ==
  ASSUME NEW S, NEW s \in Seq(S), NEW w \in Seq(S), NoneEarly(s),
         LetInAll(s) \/ \A k \in 1 .. Len(w) : w[k].method # "sendmsg"
  PROVE  NoneEarly(s \o w)
<1>1. /\ Len(s) \in Nat /\ Len(w) \in Nat
      /\ \A k \in 1 .. Len(s) : (s \o w)[k] = s[k]
      /\ \A k \in 1 .. Len(w) : (s \o w)[Len(s) + k] = w[k]
      /\ \A k \in 1 .. Len(s \o w) : k \in 1 .. Len(s) \/ \E j \in 1 .. Len(w) : k = Len(s) + j
  BY ConcatFrames
<1>2. /\ \A k \in 1 .. Len(s) : LetIn(s, k) => LetIn(s \o w, k)
      /\ LetInAll(s) => \A k \in 1 .. Len(w) + 1 : LetIn(s \o w, Len(s) + k)
  BY LetInConcat
<1>3. \A k \in 1 .. Len(w) : k \in 1 .. Len(w) + 1
  BY <1>1
<1> QED
  BY <1>1, <1>2, <1>3 DEF NoneEarly

LEMMA EarlyPrefix ==
  ASSUME NEW S, NEW s \in Seq(S), NEW w \in Seq(S), NoneEarly(s \o w)
  PROVE  NoneEarly(s)
<1>1. /\ Len(s) \in Nat
      /\ \A k \in 1 .. Len(s) : k \in 1 .. Len(s \o w) /\ (s \o w)[k] = s[k]
  BY ConcatFrames
<1>2. ASSUME NEW k \in 1 .. Len(s), LetIn(s \o w, k) PROVE LetIn(s, k)
  BY <1>1, <1>2 DEF LetIn
<1> QED
  BY <1>1, <1>2 DEF NoneEarly

LEMMA AllToConcat ==
  ASSUME NEW S, NEW s \in Seq(S), NEW w \in Seq(S), NEW u, AllTo(s, u), AllTo(w, u)
  PROVE  AllTo(s \o w, u)
<1>1. /\ \A k \in 1 .. Len(s) : (s \o w)[k] = s[k]
      /\ \A k \in 1 .. Len(w) : (s \o w)[Len(s) + k] = w[k]
      /\ \A k \in 1 .. Len(s \o w) : k \in 1 .. Len(s) \/ \E j \in 1 .. Len(w) : k = Len(s) + j
  BY ConcatFrames
<1> QED
  BY <1>1 DEF AllTo

LEMMA BringsConcat ==
  ASSUME NEW S, NEW s \in Seq(S), NEW w \in Seq(S), NEW rows, Brings(s \o w, rows)
  PROVE  Brings(s, rows) \/ Brings(w, rows)
<1>1. /\ \A k \in 1 .. Len(s) : (s \o w)[k] = s[k]
      /\ \A k \in 1 .. Len(w) : (s \o w)[Len(s) + k] = w[k]
      /\ \A k \in 1 .. Len(s \o w) : k \in 1 .. Len(s) \/ \E j \in 1 .. Len(w) : k = Len(s) + j
  BY ConcatFrames
<1> QED
  BY <1>1 DEF Brings

LEMMA NoneConcat ==
  ASSUME NEW S, NEW s \in Seq(S), NEW w \in Seq(S),
         \A k \in 1 .. Len(s) : s[k].method # "sendmsg",
         \A k \in 1 .. Len(w) : w[k].method # "sendmsg"
  PROVE  \A k \in 1 .. Len(s \o w) : (s \o w)[k].method # "sendmsg"
<1>1. /\ \A k \in 1 .. Len(s) : (s \o w)[k] = s[k]
      /\ \A k \in 1 .. Len(w) : (s \o w)[Len(s) + k] = w[k]
      /\ \A k \in 1 .. Len(s \o w) : k \in 1 .. Len(s) \/ \E j \in 1 .. Len(w) : k = Len(s) + j
  BY ConcatFrames
<1> QED
  BY <1>1

\* The first frame, and the others.
LEMMA HeadOfStream ==
  ASSUME NEW S, NEW s \in Seq(S), s # <<>>
  PROVE  /\ Tail(s) \in Seq(S) /\ Head(s) \in S
         /\ NoneEarly(s) => Head(s).method # "sendmsg"
         /\ Head(s).method # "login_suc" =>
              /\ NoneEarly(s) => NoneEarly(Tail(s))
              /\ LetInAll(s) => LetInAll(Tail(s))
         /\ \A u : AllTo(s, u) => AllTo(Tail(s), u) /\ (Head(s).method = "sendmsg" => Head(s).row.receiver = u)
         /\ \A rows : Brings(Tail(s), rows) => Brings(s, rows)
         /\ Head(s).method = "login_suc" => Brings(s, Head(s).rows)
<1>1. /\ Tail(s) \in Seq(S) /\ Len(s) \in Nat \ {0} /\ Len(Tail(s)) = Len(s) - 1
      /\ \A i \in 1 .. Len(Tail(s)) : Tail(s)[i] = s[i + 1]
      /\ Head(s) = s[1] /\ Head(s) \in S
  BY HeadTailProperties
<1>2. /\ 1 \in 1 .. Len(s)
      /\ \A k \in 1 .. Len(Tail(s)) : k + 1 \in 1 .. Len(s) /\ Tail(s)[k] = s[k + 1]
  BY <1>1
<1>3. NoneEarly(s) => Head(s).method # "sendmsg"
  BY <1>1, <1>2 DEF NoneEarly, LetIn
<1>4. ASSUME Head(s).method # "login_suc", NEW k \in 1 .. Len(Tail(s)) + 1, LetIn(s, k + 1)
      PROVE  LetIn(Tail(s), k)
  <2>1. PICK j \in 1 .. (k + 1) - 1 : s[j].method = "login_suc"
    BY <1>4 DEF LetIn
  <2>2. j # 1
    BY <1>1, <1>4, <2>1
  <2>3. j - 1 \in 1 .. k - 1 /\ j - 1 \in 1 .. Len(Tail(s)) /\ (j - 1) + 1 = j
    BY <1>1, <2>1, <2>2
  <2>4. Tail(s)[j - 1] = s[j]
    BY <1>1, <2>3
  <2> QED
    BY <2>1, <2>3, <2>4 DEF LetIn
<1>5. Head(s).method # "login_suc" /\ NoneEarly(s) => NoneEarly(Tail(s))
  <2>1. \A k \in 1 .. Len(Tail(s)) : k \in 1 .. Len(Tail(s)) + 1
    BY <1>1
  <2> QED
    BY <1>2, <1>4, <2>1 DEF NoneEarly
<1>6. Head(s).method # "login_suc" /\ LetInAll(s) => LetInAll(Tail(s))
  <2>1. Len(Tail(s)) + 1 \in 1 .. Len(Tail(s)) + 1 /\ (Len(Tail(s)) + 1) + 1 = Len(s) + 1
    BY <1>1
  <2> QED
    BY <1>4, <2>1 DEF LetInAll
<1>7. \A u : AllTo(s, u) => AllTo(Tail(s), u) /\ (Head(s).method = "sendmsg" => Head(s).row.receiver = u)
  BY <1>1, <1>2 DEF AllTo
<1>8. \A rows : Brings(Tail(s), rows) => Brings(s, rows)
  BY <1>2 DEF Brings
<1>9. Head(s).method = "login_suc" => Brings(s, Head(s).rows)
  BY <1>1, <1>2 DEF Brings
<1> QED
  BY <1>1, <1>3, <1>5, <1>6, <1>7, <1>8, <1>9

-----------------------------------------------------------------------------
(* What a window shows of a conversation.                                  *)

\* The rows a window of u shows, of his messages with w: together with the
\* frames `down' that are on their way to it they are what the table has from
\* w, unless one of n Store calls failed, and then no more than one too many
\* for each; and those to w are in the table or among the frames `asked', up
\* to one for each call that failed.
Displays(rows, down, asking, table, n, w, u) ==
  /\ n = 0 => From(rows, w, u) \o Ahead(down, w, u) = From(table, w, u)
  /\ Len(From(rows, w, u)) + Len(Ahead(down, w, u)) <= Len(From(table, w, u)) + n
  /\ Len(From(rows, u, w)) <= Len(From(table, u, w)) + Len(Ahead(asking, u, w)) + n

LEMMA DisplaysLater ==
  ASSUME NEW rows \in Seq(Message), NEW table \in Seq(Message), NEW n \in Nat, NEW m \in Nat, n <= m,
         NEW down \in Seq(Frame), NEW down2 \in Seq(Frame),
         NEW asking \in Seq(Frame), NEW asking2 \in Seq(Frame), NEW w, NEW u,
         Ahead(down2, w, u) = Ahead(down, w, u),
         Len(Ahead(asking2, u, w)) >= Len(Ahead(asking, u, w)),
         Displays(rows, down, asking, table, n, w, u)
  PROVE  Displays(rows, down2, asking2, table, m, w, u)
<1>1. /\ Len(From(rows, w, u)) \in Nat /\ Len(From(table, w, u)) \in Nat
      /\ Len(From(rows, u, w)) \in Nat /\ Len(From(table, u, w)) \in Nat
      /\ Len(Ahead(down, w, u)) \in Nat
      /\ Len(Ahead(asking, u, w)) \in Nat /\ Len(Ahead(asking2, u, w)) \in Nat
  <2>1. /\ From(rows, w, u) \in Seq(Message) /\ From(table, w, u) \in Seq(Message)
        /\ From(rows, u, w) \in Seq(Message) /\ From(table, u, w) \in Seq(Message)
    BY FromType
  <2>2. /\ Ahead(down, w, u) \in Seq(Message)
        /\ Ahead(asking, u, w) \in Seq(Message) /\ Ahead(asking2, u, w) \in Seq(Message)
    BY AheadType
  <2> QED
    BY <2>1, <2>2, LenProperties
<1>2. m = 0 => n = 0
  OBVIOUS
<1> QED
  BY <1>1, <1>2 DEF Displays

\* The stream to u gets f if it is for him; a channel loses it if it came on it;
\* its row gets into the table or a Store call fails.
Relays(down, f, u, down2) == down2 = IF f.row.receiver = u THEN down \o <<f>> ELSE down

Takes(asking, f, asking2) ==
  asking2 = asking \/ (asking # <<>> /\ Head(asking) = f /\ asking2 = Tail(asking))

Stores(table, n, row, table2, m) ==
  (table2 = Append(table, row) /\ m = n) \/ (table2 = table /\ m = n + 1)

Is(row, w, u) == row.sender = w /\ row.receiver = u

LEMMA RelaysAhead ==
  ASSUME NEW down \in Seq(Frame), NEW f \in Frame, f.method = "sendmsg", NEW w, NEW u,
         NEW down2, Relays(down, f, u, down2)
  PROVE  Ahead(down2, w, u) = IF Is(f.row, w, u) THEN Ahead(down, w, u) \o <<f.row>> ELSE Ahead(down, w, u)
<1>1. Ahead(<<f>>, w, u) = IF Is(f.row, w, u) THEN <<f.row>> ELSE <<>>
  BY AheadOne DEF Is
<1>2. Ahead(down \o <<f>>, w, u) = Ahead(down, w, u) \o Ahead(<<f>>, w, u)
  BY AheadMore
<1>3. Ahead(down, w, u) \o <<>> = Ahead(down, w, u)
  BY AheadType, ConcatEmptySeq
<1>4. Is(f.row, w, u) => f.row.receiver = u
  BY DEF Is
<1> QED
  BY <1>1, <1>2, <1>3, <1>4 DEF Relays

\* The rows are followed by one more.
AddsRow(more, rows, row) == more = rows \o <<row>>

LEMMA StoresFrom ==
  ASSUME NEW table \in Seq(Message), NEW n \in Nat, NEW row \in Message, NEW w, NEW u,
         NEW table2, NEW m, Stores(table, n, row, table2, m)
  PROVE  IF Is(row, w, u) /\ m = n THEN AddsRow(From(table2, w, u), From(table, w, u), row)
                                   ELSE From(table2, w, u) = From(table, w, u)
<1>1. IF Is(row, w, u) THEN AddsRow(From(Append(table, row), w, u), From(table, w, u), row)
                       ELSE From(Append(table, row), w, u) = From(table, w, u)
  BY FromAppend DEF Is, AddsRow
<1>2. n + 1 # n
  OBVIOUS
<1> QED
  BY <1>1, <1>2 DEF Stores

LEMMA TakesAhead ==
  ASSUME NEW asking \in Seq(Frame), NEW f \in Frame, f.method = "sendmsg", NEW w, NEW u,
         NEW asking2, Takes(asking, f, asking2)
  PROVE  /\ Len(Ahead(asking2, u, w)) \in Nat
         /\ Len(Ahead(asking2, u, w)) >= IF Is(f.row, u, w) THEN Len(Ahead(asking, u, w)) - 1
                                                            ELSE Len(Ahead(asking, u, w))
<1> DEFINE A == Ahead(asking, u, w)
           B == Ahead(asking2, u, w)
           row == f.row
<1>1. A \in Seq(Message) /\ row \in Message /\ <<row>> \in Seq(Message) /\ Len(<<row>>) = 1
  BY AheadType, FrameRow
<1>2. CASE asking2 = asking
  <2>1. B = A /\ Len(A) \in Nat
    BY <1>1, <1>2
  <2> QED
    BY <2>1
<1>3. CASE asking # <<>> /\ Head(asking) = f /\ asking2 = Tail(asking)
  <2>1. A = Ahead(<<f>>, u, w) \o B
    BY <1>3, AheadNext
  <2>2. Ahead(<<f>>, u, w) = IF Is(row, u, w) THEN <<row>> ELSE <<>>
    BY AheadOne DEF Is
  <2>3. B \in Seq(Message)
    <3>1. asking2 \in Seq(Frame)
      BY <1>3, HeadTailProperties
    <3> QED
      BY <3>1, AheadType
  <2> HIDE DEF A, B, row
  <2>4. <<row>> \o B \in Seq(Message) /\ Len(<<row>> \o B) = Len(<<row>>) + Len(B)
    BY <1>1, <2>3, ConcatProperties
  <2>5. <<>> \o B = B /\ Len(B) \in Nat
    BY <2>3, ConcatEmptySeq
  <2>6. A = (IF Is(row, u, w) THEN <<row>> \o B ELSE B)
    BY <2>1, <2>2, <2>5
  <2>7. Len(B) >= IF Is(row, u, w) THEN Len(A) - 1 ELSE Len(A)
    BY <1>1, <2>4, <2>5, <2>6
  <2> QED
    BY <2>5, <2>7 DEF A, B, row
<1> QED
  BY <1>2, <1>3 DEF Takes

\* What is shown and what is on its way, one after the other.
Continues(t, r, d) == t = r \o d

LEMMA ContinuesMore ==
  ASSUME NEW t, NEW r \in Seq(Message), NEW d \in Seq(Message), NEW row \in Message, Continues(t, r, d)
  PROVE  /\ Continues(t \o <<row>>, r, d \o <<row>>)
         /\ Len(d \o <<row>>) = Len(d) + 1
<1> DEFINE e == <<row>>
<1>1. e \in Seq(Message) /\ Len(e) = 1
  OBVIOUS
<1> HIDE DEF e
<1>2. (r \o d) \o e = r \o (d \o e)
  BY <1>1, ConcatAssociative
<1>3. Len(d \o e) = Len(d) + Len(e)
  BY <1>1, ConcatProperties
<1> QED
  BY <1>1, <1>2, <1>3 DEF Continues, e

Follows(c, row, d) == c = <<row>> \o d

LEMMA ContinuesTaken ==
  ASSUME NEW r \in Seq(Message), NEW d \in Seq(Message), NEW row \in Message, NEW c, Follows(c, row, d)
  PROVE  /\ Len(r \o <<row>>) = Len(r) + 1 /\ Len(c) = Len(d) + 1
         /\ \A t : Continues(t, r, c) => Continues(t, r \o <<row>>, d)
<1> DEFINE e == <<row>>
<1>1. e \in Seq(Message) /\ Len(e) = 1
  OBVIOUS
<1> HIDE DEF e
<1>2. (r \o e) \o d = r \o (e \o d)
  BY <1>1, ConcatAssociative
<1>3. \A x, y \in Seq(Message) : Len(x \o y) = Len(x) + Len(y) /\ Len(x) \in Nat
  BY ConcatProperties, LenProperties
<1>4. Len(r \o e) = Len(r) + 1
  BY <1>1, <1>3
<1>5. Len(e \o d) = Len(d) + 1
  <2>1. Len(e \o d) = Len(e) + Len(d) /\ Len(d) \in Nat
    BY <1>1, <1>3
  <2> QED
    BY <1>1, <2>1
<1>6. c = e \o d
  BY DEF Follows, e
<1>7. \A t : Continues(t, r, c) => Continues(t, r \o e, d)
  BY <1>2, <1>6 DEF Continues
<1> QED
  BY <1>4, <1>5, <1>6, <1>7 DEF e

\* A message is stored, or its insert fails, and relayed to its receiver; it may
\* have been on its way from u himself.
LEMMA DisplaysStored ==
  ASSUME NEW rows \in Seq(Message), NEW table \in Seq(Message), NEW n \in Nat,
         NEW down \in Seq(Frame), NEW asking \in Seq(Frame), NEW w, NEW u,
         NEW f \in Frame, f.method = "sendmsg",
         NEW down2, Relays(down, f, u, down2), NEW asking2, Takes(asking, f, asking2),
         NEW table2, NEW m, Stores(table, n, f.row, table2, m),
         Displays(rows, down, asking, table, n, w, u)
  PROVE  Displays(rows, down2, asking2, table2, m, w, u)
<1> DEFINE row == f.row
           R == From(rows, w, u)
           T == From(table, w, u)
           D == Ahead(down, w, u)
           Mine == From(rows, u, w)
           Kept == From(table, u, w)
           A == Ahead(asking, u, w)
           is == Is(row, w, u)
           own == Is(row, u, w)
           D2 == Ahead(down2, w, u)
           T2 == From(table2, w, u)
           Kept2 == From(table2, u, w)
           A2 == Ahead(asking2, u, w)
<1> HIDE DEF row, R, T, D, Mine, Kept, A, is, own, D2, T2, Kept2, A2
<1>1. /\ R \in Seq(Message) /\ T \in Seq(Message) /\ D \in Seq(Message)
      /\ Mine \in Seq(Message) /\ Kept \in Seq(Message) /\ A \in Seq(Message)
      /\ row \in Message
  <2>1. /\ R \in Seq(Message) /\ T \in Seq(Message) /\ Mine \in Seq(Message) /\ Kept \in Seq(Message)
    BY FromType DEF R, T, Mine, Kept
  <2>2. D \in Seq(Message) /\ A \in Seq(Message)
    BY AheadType DEF D, A
  <2>3. row \in Message
    BY FrameRow DEF row
  <2> QED
    BY <2>1, <2>2, <2>3
<1>2. D2 = IF is THEN D \o <<row>> ELSE D
  BY RelaysAhead DEF D2, D, is, row
<1>3. m \in Nat /\ (m = n \/ m = n + 1)
  BY DEF Stores
<1>4. T2 = IF is /\ m = n THEN T \o <<row>> ELSE T
  <2>1. IF is /\ m = n THEN AddsRow(T2, T, row) ELSE T2 = T
    BY <1>1, StoresFrom DEF T2, T, is, row
  <2> QED
    BY <2>1 DEF AddsRow
<1>5. Kept2 = IF own /\ m = n THEN Kept \o <<row>> ELSE Kept
  <2>1. IF own /\ m = n THEN AddsRow(Kept2, Kept, row) ELSE Kept2 = Kept
    BY <1>1, StoresFrom DEF Kept2, Kept, own, row
  <2> QED
    BY <2>1 DEF AddsRow
<1>6. Len(A2) \in Nat /\ Len(A2) >= IF own THEN Len(A) - 1 ELSE Len(A)
  BY TakesAhead DEF A2, A, own, row
<1>7. /\ n = 0 => Continues(T, R, D)
      /\ Len(R) + Len(D) <= Len(T) + n
      /\ Len(Mine) <= Len(Kept) + Len(A) + n
  BY DEF Displays, Continues, R, D, T, Mine, Kept, A
<1>8. /\ Len(R) \in Nat /\ Len(T) \in Nat /\ Len(D) \in Nat
      /\ Len(Mine) \in Nat /\ Len(Kept) \in Nat /\ Len(A) \in Nat
  BY <1>1, LenProperties
<1>9. /\ Len(D \o <<row>>) = Len(D) + 1 /\ Len(T \o <<row>>) = Len(T) + 1
      /\ Len(Kept \o <<row>>) = Len(Kept) + 1
  <2>1. \A x \in Seq(Message) : Continues(x \o x, x, x)
    BY DEF Continues
  <2> QED
    BY <1>1, <2>1, ContinuesMore
<1>10. m = 0 => Continues(T2, R, D2)
  <2>1. m = 0 => m = n /\ n = 0
    BY <1>3
  <2> QED
    BY <1>1, <1>2, <1>4, <1>7, <2>1, ContinuesMore
<1>11. Len(R) + Len(D2) <= Len(T2) + m
  <2>1. /\ Len(D2) = IF is THEN Len(D) + 1 ELSE Len(D)
        /\ Len(T2) = IF is /\ m = n THEN Len(T) + 1 ELSE Len(T)
    BY <1>2, <1>4, <1>9
  <2> QED
    BY <1>3, <1>7, <1>8, <2>1
<1>12. Len(Mine) <= Len(Kept2) + Len(A2) + m
  <2>1. Len(Kept2) = IF own /\ m = n THEN Len(Kept) + 1 ELSE Len(Kept)
    BY <1>5, <1>9
  <2> QED
    BY <1>3, <1>6, <1>7, <1>8, <2>1
<1> QED
  BY <1>10, <1>11, <1>12 DEF Displays, Continues, R, Mine, D2, T2, Kept2, A2

-----------------------------------------------------------------------------
(* The inductive invariant.  It is about a server that has used no         *)
(* destroyed object; a failing Store call costs a message at most.         *)

\* Before it connects a client is unknown to the server, and shows nothing.
Strange(p) ==
  phase[p] = "new" =>
    /\ p \notin connections /\ \A u \in User : online[u] # p
    /\ c2s[p] = <<>> /\ Stream(p) = <<>> /\ me[p] = Nobody

\* A window without a user shows nothing,
Blank(p) == me[p] = Nobody => \A w \in User : view[p][w] = <<>>

\* and is sent no message until a login has been answered.
Alone(p) == me[p] = Nobody => NoneEarly(Stream(p))

\* The cache has a session for one user, as long as it stands and from the
\* step on that answers his login; every message on its way is for him.
Bound(p) ==
  \A u \in User : online[u] = p =>
    /\ p \in connections
    /\ me[p] = Nobody => LetInAll(Stream(p))
    /\ \A v \in User : online[v] = p => v = u
    /\ AllTo(Stream(p), u)

\* What the window of p shows its user from w, or will once it has handled a
\* login.
Held(p, u, w, rows) == (me[p] = u /\ rows = view[p][w]) \/ Brings(Stream(p), rows)

Fits(p, u, w, rows) == Displays(rows, Stream(p), c2s[p], messageinfo, faults, w, u)

Shown(p) ==
  \A u, w \in User : online[u] = p /\ w # u =>
    \A rows \in Seq(Message) : Held(p, u, w, rows) => Fits(p, u, w, rows)

Seated(p) ==
  /\ Strange(p) /\ Blank(p)
  /\ phase[p] = "on" => OneLogin(p) /\ Alone(p) /\ Bound(p) /\ Shown(p)

SeatedInv == ~wild => \A p \in Proc : Seated(p)

-----------------------------------------------------------------------------
(* A process that does nothing itself.                                     *)

TakenFrom(q) == c2s'[q] = c2s[q] \/ (c2s[q] # <<>> /\ c2s'[q] = Tail(c2s[q]))

\* What may be written to q: no answer to a login, and a message for its user.
Due(q, f) ==
  /\ q \in connections
  /\ f \in ServerFrame /\ f.method \notin LoginMethods
  /\ f.method = "sendmsg" => f.row.receiver \in User /\ online[f.row.receiver] = q

GivenTo(q) ==
  \/ Stream(q)' = Stream(q)
  \/ \E f \in ServerFrame : Due(q, f) /\ Stream(q)' = Stream(q) \o <<f>>

Still(q) ==
  /\ phase'[q] = phase[q] /\ me'[q] = me[q] /\ waiting'[q] = waiting[q] /\ view'[q] = view[q]
  /\ q \in connections' <=> q \in connections
  /\ \A u \in User : online'[u] = q => online[u] = q
  /\ TakenFrom(q) /\ GivenTo(q)

\* What a window shows still fits the table.
Carries(q) ==
  \A u, w \in User : online[u] = q /\ w # u =>
    \A rows \in Seq(Message) : Fits(q, u, w, rows) => Fits(q, u, w, rows)'

LEMMA StillOne ==
  ASSUME TypeOK, NEW q \in Proc, OneLogin(q), Still(q)
  PROVE  OneLogin(q)'
<1>1. AtMostOne(c2s'[q]) /\ (Has(c2s'[q]) => Has(c2s[q]))
  BY TakenTail, OneTail DEF Still, TakenFrom, OneLogin
<1>2. AtMostOne(Stream(q)') /\ (Has(Stream(q)') => Has(Stream(q)))
  <2>1. ASSUME NEW f \in ServerFrame, Due(q, f), Stream(q)' = Stream(q) \o <<f>>
        PROVE  AtMostOne(Stream(q)') /\ (Has(Stream(q)') => Has(Stream(q)))
    <3>1. <<f>> \in Seq(ServerFrame) /\ ~Has(<<f>>)
      BY <2>1 DEF Due, Has
    <3> QED
      BY <2>1, <3>1, StreamType, OneConcat DEF OneLogin
  <2> QED
    BY <2>1 DEF Still, GivenTo, OneLogin
<1> QED
  BY <1>1, <1>2 DEF OneLogin, Still

\* The properties of a stream that gets one more frame.
LEMMA OneMore ==
  ASSUME NEW s \in Seq(ServerFrame), NEW f \in ServerFrame
  PROVE  /\ s \o <<f>> \in Seq(ServerFrame)
         /\ NoneEarly(s) /\ (LetInAll(s) \/ f.method # "sendmsg") => NoneEarly(s \o <<f>>)
         /\ LetInAll(s) => LetInAll(s \o <<f>>)
         /\ \A u : AllTo(s, u) /\ (f.method = "sendmsg" => f.row.receiver = u) => AllTo(s \o <<f>>, u)
         /\ \A rows : f.method # "login_suc" /\ Brings(s \o <<f>>, rows) => Brings(s, rows)
<1> DEFINE e == <<f>>
<1>1. e \in Seq(ServerFrame) /\ \A k \in 1 .. Len(e) : e[k] = f
  OBVIOUS
<1> HIDE DEF e
<1>2. s \o e \in Seq(ServerFrame)
  BY <1>1, ConcatProperties
<1>3. NoneEarly(s) /\ (LetInAll(s) \/ f.method # "sendmsg") => NoneEarly(s \o e)
  BY <1>1, EarlyConcat
<1>4. LetInAll(s) => LetInAll(s \o e)
  BY <1>1, LetInConcat
<1>5. ASSUME NEW u, AllTo(s, u), f.method = "sendmsg" => f.row.receiver = u PROVE AllTo(s \o e, u)
  <2>1. AllTo(e, u)
    BY <1>1, <1>5 DEF AllTo
  <2> QED
    BY <1>1, <1>5, <2>1, AllToConcat
<1>6. ASSUME NEW rows, f.method # "login_suc", Brings(s \o e, rows) PROVE Brings(s, rows)
  <2>1. ~Brings(e, rows)
    BY <1>1, <1>6 DEF Brings
  <2> QED
    BY <1>1, <1>6, <2>1, BringsConcat
<1> QED
  BY <1>2, <1>3, <1>4, <1>5, <1>6 DEF e

LEMMA StillSeated ==
  ASSUME TypeOK, NEW q \in Proc, Seated(q), Still(q), phase[q] = "on" => Carries(q)
  PROVE  Seated(q)'
<1> DEFINE s == Stream(q)
           t == Stream(q)'
<1>1. s \in Seq(ServerFrame)
  BY StreamType
<1>2. Strange(q)'
  <2> SUFFICES ASSUME phase[q] = "new"
               PROVE  /\ q \notin connections' /\ \A u \in User : online'[u] # q
                      /\ c2s'[q] = <<>> /\ Stream(q)' = <<>> /\ me'[q] = Nobody
    BY DEF Strange, Still
  <2> QED
    BY DEF Seated, Strange, Still, TakenFrom, GivenTo, Due
<1>3. Blank(q)'
  BY DEF Seated, Still, Blank
<1> SUFFICES ASSUME phase[q] = "on" PROVE OneLogin(q)' /\ Alone(q)' /\ Bound(q)' /\ Shown(q)'
  BY <1>2, <1>3 DEF Seated, Still
<1>4. OneLogin(q) /\ Alone(q) /\ Bound(q) /\ Shown(q)
  BY DEF Seated
<1>5. OneLogin(q)'
  BY <1>4, StillOne
<1>6. /\ me[q] = Nobody => NoneEarly(t) /\ (LetInAll(s) => LetInAll(t))
      /\ \A u \in User : online[u] = q => AllTo(t, u)
      /\ \A rows : Brings(t, rows) => Brings(s, rows)
  <2>1. CASE t = s
    BY <1>4, <2>1 DEF Alone, Bound
  <2>2. ASSUME NEW f \in ServerFrame, Due(q, f), t = s \o <<f>>
        PROVE  /\ me[q] = Nobody => NoneEarly(t) /\ (LetInAll(s) => LetInAll(t))
               /\ \A u \in User : online[u] = q => AllTo(t, u)
               /\ \A rows : Brings(t, rows) => Brings(s, rows)
    <3>1. f.method = "sendmsg" /\ me[q] = Nobody => LetInAll(s)
      BY <1>4, <2>2 DEF Due, Bound
    <3>2. \A u \in User : online[u] = q /\ f.method = "sendmsg" => f.row.receiver = u
      BY <1>4, <2>2 DEF Due, Bound
    <3>3. f.method # "login_suc"
      BY <2>2 DEF Due, LoginMethods
    <3>4. me[q] = Nobody => NoneEarly(s)
      BY <1>4 DEF Alone
    <3>5. \A u \in User : online[u] = q => AllTo(s, u)
      BY <1>4 DEF Bound
    <3> HIDE DEF s
    <3> QED
      BY <1>1, <2>2, <3>1, <3>2, <3>3, <3>4, <3>5, OneMore
  <2> QED
    BY <2>1, <2>2 DEF Still, GivenTo
<1>7. Alone(q)'
  BY <1>3, <1>6 DEF Alone, Still
<1>8. Bound(q)'
  BY <1>4, <1>6 DEF Bound, Still
<1>9. Shown(q)'
  <2> SUFFICES ASSUME NEW u \in User, NEW w \in User, online'[u] = q, w # u,
                      NEW rows \in Seq(Message), Held(q, u, w, rows)'
               PROVE  Fits(q, u, w, rows)'
    BY DEF Shown
  <2>1. online[u] = q /\ Held(q, u, w, rows)
    BY <1>6 DEF Still, Held
  <2> QED
    BY <1>4, <2>1 DEF Shown, Carries
<1> QED
  BY <1>5, <1>7, <1>8, <1>9

\* With nothing stored, and no message taken or written.
Rises == faults' = faults \/ faults' = faults + 1

CalmTaken(q) == TakenFrom(q) /\ (c2s'[q] # c2s[q] => Head(c2s[q]).method # "sendmsg")

CalmGiven(q) ==
  \/ Stream(q)' = Stream(q)
  \/ \E f \in ServerFrame : f.method # "sendmsg" /\ Stream(q)' = Stream(q) \o <<f>>

\* Both ends of a channel, as frames.
LEMMA ChannelFrames ==
  ASSUME TypeOK, NEW q \in Proc
  PROVE  /\ Stream(q) \in Seq(Frame) /\ c2s[q] \in Seq(Frame)
         /\ messageinfo \in Seq(Message) /\ faults \in Nat
<1>1. Stream(q) \in Seq(ServerFrame) /\ c2s[q] \in Seq(ClientFrame)
  BY StreamType
<1>2. messageinfo \in Seq(Message) /\ faults \in Nat
  BY StoreAssumption DEF TypeOK, StoreTypeOK
<1> QED
  BY <1>1, <1>2, FramesWiden, Zenon

\* Frames that are no messages.
LEMMA AheadOther ==
  ASSUME NEW c \in Seq(Frame), NEW w, NEW u
  PROVE  /\ \A f \in Frame : f.method # "sendmsg" =>
              c \o <<f>> \in Seq(Frame) /\ Ahead(c \o <<f>>, w, u) = Ahead(c, w, u)
         /\ c # <<>> /\ Head(c).method # "sendmsg" =>
              Tail(c) \in Seq(Frame) /\ Ahead(Tail(c), w, u) = Ahead(c, w, u)
<1>1. ASSUME NEW f \in Frame, f.method # "sendmsg"
      PROVE  c \o <<f>> \in Seq(Frame) /\ Ahead(c \o <<f>>, w, u) = Ahead(c, w, u)
  <2>1. Ahead(<<f>>, w, u) = <<>>
    BY <1>1, AheadOne
  <2>2. Ahead(c \o <<f>>, w, u) = Ahead(c, w, u) \o Ahead(<<f>>, w, u)
    BY AheadMore
  <2>3. Ahead(c, w, u) \o <<>> = Ahead(c, w, u)
    BY AheadType, ConcatEmptySeq
  <2>4. c \o <<f>> \in Seq(Frame)
    OBVIOUS
  <2> QED
    BY <2>1, <2>2, <2>3, <2>4
<1>2. ASSUME c # <<>>, Head(c).method # "sendmsg"
      PROVE  Tail(c) \in Seq(Frame) /\ Ahead(Tail(c), w, u) = Ahead(c, w, u)
  <2>1. Tail(c) \in Seq(Frame) /\ Head(c) \in Frame
    BY <1>2, HeadTailProperties
  <2>2. Ahead(c, w, u) = Ahead(<<Head(c)>>, w, u) \o Ahead(Tail(c), w, u)
    BY <1>2, AheadNext
  <2>3. Ahead(<<Head(c)>>, w, u) = <<>>
    BY <1>2, <2>1, AheadOne
  <2>4. <<>> \o Ahead(Tail(c), w, u) = Ahead(Tail(c), w, u)
    BY <2>1, AheadType, ConcatEmptySeq
  <2> QED
    BY <2>1, <2>2, <2>3, <2>4
<1> QED
  BY <1>1, <1>2

LEMMA CalmCarries ==
  ASSUME TypeOK, NEW q \in Proc, messageinfo' = messageinfo, Rises, CalmTaken(q), CalmGiven(q)
  PROVE  Carries(q)
<1> SUFFICES ASSUME NEW u \in User, NEW w \in User, NEW rows \in Seq(Message), Fits(q, u, w, rows)
             PROVE  Fits(q, u, w, rows)'
  BY DEF Carries
<1> DEFINE down == Stream(q)
           down2 == Stream(q)'
           asking == c2s[q]
           asking2 == c2s'[q]
<1>1. /\ down \in Seq(Frame) /\ asking \in Seq(Frame)
      /\ messageinfo \in Seq(Message) /\ faults \in Nat
  BY ChannelFrames
<1>2. faults' \in Nat /\ faults <= faults'
  BY <1>1 DEF Rises
<1>3. down2 \in Seq(Frame) /\ Ahead(down2, w, u) = Ahead(down, w, u)
  <2>1. CASE down2 = down
    BY <1>1, <2>1
  <2>2. ASSUME NEW f \in ServerFrame, f.method # "sendmsg", down2 = down \o <<f>>
        PROVE  down2 \in Seq(Frame) /\ Ahead(down2, w, u) = Ahead(down, w, u)
    <3>1. f \in Frame
      BY DEF Frame
    <3> HIDE DEF down
    <3>2. down \o <<f>> \in Seq(Frame) /\ Ahead(down \o <<f>>, w, u) = Ahead(down, w, u)
      BY <1>1, <2>2, <3>1, AheadOther
    <3> QED
      BY <2>2, <3>2
  <2> QED
    BY <2>1, <2>2 DEF CalmGiven
<1>4. asking2 \in Seq(Frame) /\ Len(Ahead(asking2, u, w)) >= Len(Ahead(asking, u, w))
  <2>1. asking2 \in Seq(Frame) /\ Ahead(asking2, u, w) = Ahead(asking, u, w)
    <3>1. CASE asking2 = asking
      BY <1>1, <3>1
    <3>2. CASE asking # <<>> /\ Head(asking).method # "sendmsg" /\ asking2 = Tail(asking)
      <4> HIDE DEF asking
      <4>1. Tail(asking) \in Seq(Frame) /\ Ahead(Tail(asking), u, w) = Ahead(asking, u, w)
        BY <1>1, <3>2, AheadOther
      <4> QED
        BY <3>2, <4>1
    <3> QED
      BY <3>1, <3>2 DEF CalmTaken, TakenFrom
  <2>2. Len(Ahead(asking, u, w)) \in Nat
    BY <1>1, AheadType, LenProperties
  <2> QED
    BY <2>1, <2>2
<1>5. Displays(rows, down, asking, messageinfo, faults, w, u)
  BY DEF Fits
<1> DEFINE table == messageinfo
           n == faults
           m == faults'
<1> HIDE DEF down, down2, asking, asking2, table, n, m
<1>6. Displays(rows, down2, asking2, table, m, w, u)
  <2>1. table \in Seq(Message) /\ n \in Nat /\ m \in Nat /\ n <= m
    BY <1>1, <1>2 DEF table, n, m
  <2>2. Displays(rows, down, asking, table, n, w, u)
    BY <1>5 DEF table, n
  <2> QED
    BY <1>1, <1>3, <1>4, <2>1, <2>2, DisplaysLater
<1> QED
  BY <1>6 DEF Fits, down2, asking2, table, m

\* A message is handled by the server.
LEMMA StoredCarries ==
  ASSUME TypeOK, NEW q \in Proc, NEW f \in Frame, f.method = "sendmsg",
         Stores(messageinfo, faults, f.row, messageinfo', faults'),
         Takes(c2s[q], f, c2s'[q]),
         \A u \in User : online[u] = q => Relays(Stream(q), f, u, Stream(q)')
  PROVE  Carries(q)
<1> SUFFICES ASSUME NEW u \in User, NEW w \in User, online[u] = q,
                    NEW rows \in Seq(Message), Fits(q, u, w, rows)
             PROVE  Fits(q, u, w, rows)'
  BY DEF Carries
<1> DEFINE down == Stream(q)
           down2 == Stream(q)'
           asking == c2s[q]
           asking2 == c2s'[q]
           table == messageinfo
           table2 == messageinfo'
           n == faults
           m == faults'
<1>1. /\ down \in Seq(Frame) /\ asking \in Seq(Frame)
      /\ table \in Seq(Message) /\ n \in Nat
  BY ChannelFrames
<1>2. Stores(table, n, f.row, table2, m) /\ Takes(asking, f, asking2) /\ Relays(down, f, u, down2)
  OBVIOUS
<1>3. Displays(rows, down, asking, table, n, w, u)
  BY DEF Fits
<1> HIDE DEF down, down2, asking, asking2, table, table2, n, m
<1>4. Displays(rows, down2, asking2, table2, m, w, u)
  BY <1>1, <1>2, <1>3, DisplaysStored
<1> QED
  BY <1>4 DEF Fits, down2, asking2, table2, m

-----------------------------------------------------------------------------
(* The steps of the sessions, and the ends and starts of the server.       *)

\* A session that stands through a step of the sessions is left alone by it.
LEMMA SessionSeated ==
  ASSUME TypeOK, NEW p \in Proc, Session(p), ~wild', NEW q \in Proc, Seated(q)
  PROVE  Seated(q)'
<1> USE DEF TypeOK, ConnectionTypeOK
<1>1. UNCHANGED <<messageinfo, faults, online, me, view, waiting>>
  BY DEF Session, tables, cache, clientVars, info
<1>2. ASSUME phase'[q] = phase[q], c2s'[q] = c2s[q], Stream(q)' = Stream(q),
             q \in connections' <=> q \in connections
      PROVE  Seated(q)'
  <2>1. Still(q)
    BY <1>1, <1>2 DEF Still, TakenFrom, GivenTo
  <2>2. Carries(q)
    BY <1>1, <1>2, CalmCarries DEF CalmTaken, CalmGiven, TakenFrom, Rises
  <2> QED
    BY <2>1, <2>2, StillSeated
<1>3. ASSUME phase'[q] \notin {"new", "on"} PROVE Seated(q)'
  BY <1>1, <1>3 DEF Seated, Strange, Blank
<1>4. ASSUME NEW a \in Addr, Accept(p, a) PROVE Seated(q)'
  <2>1. UNCHANGED <<outq, c2s, s2c>> /\ Stream(q)' = Stream(q)
    BY <1>4 DEF Accept, Stream
  <2>2. CASE q # p
    BY <1>2, <1>4, <2>1, <2>2 DEF Accept
  <2>3. CASE q = p
    <3>1. /\ \A u \in User : online'[u] # q
          /\ c2s'[q] = <<>> /\ Stream(q)' = <<>> /\ me'[q] = Nobody
          /\ phase'[q] = "on"
      BY <1>1, <1>4, <2>1, <2>3 DEF Accept, Seated, Strange
    <3>2. OneLogin(q)'
      BY <3>1 DEF OneLogin, AtMostOne, Has
    <3>3. Alone(q)'
      BY <3>1 DEF Alone, NoneEarly
    <3>4. Bound(q)' /\ Shown(q)'
      BY <3>1 DEF Bound, Shown
    <3> QED
      BY <1>1, <3>1, <3>2, <3>3, <3>4 DEF Seated, Strange, Blank
  <2> QED
    BY <2>2, <2>3
<1>5. CASE WriteDone(p)
  <2>1. phase'[q] = phase[q] /\ c2s'[q] = c2s[q] /\ connections' = connections
    BY <1>5 DEF WriteDone
  <2>2. CASE phase[q] = "on"
    BY <1>2, <1>5, <2>1, <2>2, WriteDoneStream
  <2>3. CASE phase[q] = "new"
    <3>1. q # p
      BY <1>5, <2>3 DEF WriteDone, Seated, Strange
    <3> QED
      BY <1>2, <1>5, <2>1, <3>1 DEF WriteDone, Stream
  <2> QED
    BY <1>3, <2>1, <2>2, <2>3
<1>6. CASE ReadError(p) \/ WriteError(p)
  <2>1. CASE q = p
    BY <1>3, <1>6, <2>1 DEF ReadError, WriteError
  <2>2. CASE q # p
    BY <1>2, <1>6, <2>2 DEF ReadError, WriteError, Destroy, Stream
  <2> QED
    BY <2>1, <2>2
<1>7. CASE NetStops(p) \/ ConnectFails(p) \/ Reset(p) \/ Leave(p)
  <2>1. CASE q = p
    BY <1>3, <1>7, <2>1 DEF NetStops, ConnectFails, Reset, Leave
  <2>2. CASE q # p
    BY <1>2, <1>7, <2>2 DEF NetStops, ConnectFails, Reset, Leave, Stream, serverSide
  <2> QED
    BY <2>1, <2>2
<1>8. ~StaleHandler(p)
  BY DEF StaleHandler
<1> QED
  BY <1>4, <1>5, <1>6, <1>7, <1>8 DEF Session

LEMMA KilledSeated ==
  ASSUME TypeOK, NEW p \in Proc, Killed(p), NEW q \in Proc, Seated(q)
  PROVE  Seated(q)'
<1>1. /\ Head(c2s[p]).method = "accept_addfd" /\ c2s[p] # <<>>
      /\ c2s' = [c2s EXCEPT ![p] = Tail(c2s[p])] /\ c2s \in [Proc -> Seq(ClientFrame)]
  BY ServeType DEF Killed, Serve, TypeOK, ConnectionTypeOK
<1>2. CalmTaken(q) /\ Stream(q)' = Stream(q)
  BY <1>1 DEF CalmTaken, TakenFrom, Stream, Killed, AcceptKilled, Serve
<1>3. UNCHANGED <<messageinfo, faults, online, connections, phase, me, view, waiting>>
  BY DEF Killed, AcceptKilled, Serve, cache, clientVars, info
<1>4. Carries(q)
  BY <1>2, <1>3, CalmCarries DEF CalmGiven, Rises
<1>5. Still(q)
  BY <1>2, <1>3 DEF Still, GivenTo, CalmTaken
<1> QED
  BY <1>4, <1>5, StillSeated

LEMMA StopsSeated ==
  ASSUME TypeOK, Stops \/ UNCHANGED vars, NEW q \in Proc, Seated(q)
  PROVE  Seated(q)'
<1>1. /\ UNCHANGED <<connections, outq, phase, c2s, s2c>>
      /\ UNCHANGED <<messageinfo, faults, online, me, view, waiting>>
  BY DEF Stops, ServerStops, vars, netVars, tables, cache, clientVars, info
<1>2. Stream(q)' = Stream(q)
  BY <1>1 DEF Stream
<1>3. Carries(q)
  BY <1>1, <1>2, CalmCarries DEF CalmTaken, CalmGiven, TakenFrom, Rises
<1>4. Still(q)
  BY <1>1, <1>2 DEF Still, TakenFrom, GivenTo
<1> QED
  BY <1>3, <1>4, StillSeated

\* A new server process knows no session.
LEMMA StartsSeated ==
  ASSUME TypeOK, Starts, NEW q \in Proc, Seated(q)
  PROVE  Seated(q)'
<1>1. /\ s2c[q] \in Seq(ServerFrame) /\ outq[q] \in Seq(ServerFrame)
      /\ Stream(q)' = s2c[q]
  <2>1. s2c[q] \in Seq(ServerFrame) /\ outq[q] \in Seq(ServerFrame)
    BY StreamType
  <2>2. s2c'[q] = s2c[q] /\ outq'[q] = <<>>
    BY DEF Starts, ServerStarts
  <2> QED
    BY <2>1, <2>2, ConcatEmptySeq DEF Stream
<1>2. /\ c2s'[q] = <<>> /\ q \notin connections' /\ phase' = phase
      /\ UNCHANGED <<me, view, waiting>>
      /\ \A u \in User : online'[u] # q
  BY ServiceAssumption DEF Starts, ServerStarts, clientVars, info
<1>3. ASSUME phase[q] = "new" PROVE Stream(q)' = <<>>
  BY <1>1, <1>3, ConcatSimplifications DEF Seated, Strange, Stream
<1>4. Strange(q)' /\ Blank(q)'
  BY <1>2, <1>3 DEF Seated, Strange, Blank
<1>5. ASSUME phase[q] = "on" PROVE OneLogin(q)' /\ Alone(q)' /\ Bound(q)' /\ Shown(q)'
  <2>1. AtMostOne(s2c[q]) /\ (Has(s2c[q]) => Has(Stream(q)))
    BY <1>1, <1>5, OnePrefix DEF Seated, OneLogin, Stream
  <2>2. AtMostOne(<<>>) /\ ~Has(<<>>)
    BY DEF AtMostOne, Has
  <2>3. OneLogin(q)'
    BY <1>1, <1>2, <1>5, <2>1, <2>2 DEF Seated, OneLogin
  <2>4. me[q] = Nobody => NoneEarly(s2c[q])
    BY <1>1, <1>5, EarlyPrefix DEF Seated, Alone, Stream
  <2>5. Alone(q)'
    BY <1>1, <1>2, <2>4 DEF Alone
  <2> QED
    BY <1>2, <2>3, <2>5 DEF Bound, Shown
<1> QED
  BY <1>2, <1>4, <1>5 DEF Seated

-----------------------------------------------------------------------------
(* A window handles a frame, or its user sends a message.                  *)

\* Of a list, only what is selected from it counts.
LEMMA DisplaysSame ==
  ASSUME NEW rows, NEW rows2, NEW down, NEW asking, NEW table, NEW n, NEW w, NEW u,
         From(rows2, w, u) = From(rows, w, u), From(rows2, u, w) = From(rows, u, w),
         Displays(rows, down, asking, table, n, w, u)
  PROVE  Displays(rows2, down, asking, table, n, w, u)
BY DEF Displays

\* The list of a login is taken apart by peer.
LEMMA DisplaysChat ==
  ASSUME NEW rows \in Seq(Message), NEW down, NEW asking, NEW table, NEW n, NEW w, NEW u, w # u,
         Displays(rows, down, asking, table, n, w, u)
  PROVE  Displays(ChatWith(w, rows, u), down, asking, table, n, w, u)
<1> DEFINE P == {k \in DOMAIN rows : Peer(rows[k], u) = w}
<1>1. P \in SUBSET (1 .. Len(rows))
  OBVIOUS
<1>2. \A k \in 1 .. Len(rows) : rows[k].sender = w /\ rows[k].receiver = u => k \in P
  BY DEF Peer
<1>3. \A k \in 1 .. Len(rows) : rows[k].sender = u /\ rows[k].receiver = w => k \in P
  BY DEF Peer
<1>4. ChatWith(w, rows, u) = Select(rows, P)
  BY DEF ChatWith
<1> HIDE DEF P
<1>5. From(Select(rows, P), w, u) = From(rows, w, u)
  BY <1>1, <1>2, FromSelect
<1>6. From(Select(rows, P), u, w) = From(rows, u, w)
  BY <1>1, <1>3, FromSelect
<1> QED
  BY <1>4, <1>5, <1>6, DisplaysSame

\* The first frame on the way is handled, and is not one of the messages.
LEMMA DisplaysPassed ==
  ASSUME NEW rows \in Seq(Message), NEW table \in Seq(Message), NEW n \in Nat,
         NEW down \in Seq(Frame), down # <<>>, NEW asking \in Seq(Frame), NEW w, NEW u,
         Head(down).method = "sendmsg" => ~Is(Head(down).row, w, u),
         Displays(rows, down, asking, table, n, w, u)
  PROVE  Displays(rows, Tail(down), asking, table, n, w, u)
<1>1. Tail(down) \in Seq(Frame) /\ Head(down) \in Frame
  BY HeadTailProperties
<1>2. Ahead(down, w, u) = Ahead(<<Head(down)>>, w, u) \o Ahead(Tail(down), w, u)
  BY AheadNext
<1>3. Ahead(<<Head(down)>>, w, u) = <<>>
  BY <1>1, AheadOne DEF Is
<1>4. <<>> \o Ahead(Tail(down), w, u) = Ahead(Tail(down), w, u)
  BY <1>1, AheadType, ConcatEmptySeq
<1> QED
  BY <1>2, <1>3, <1>4 DEF Displays

\* It is one of them, and shown.
LEMMA DisplaysTaken ==
  ASSUME NEW rows \in Seq(Message), NEW table \in Seq(Message), NEW n \in Nat,
         NEW down \in Seq(Frame), down # <<>>, NEW asking \in Seq(Frame), NEW w, NEW u, w # u,
         Head(down).method = "sendmsg", Is(Head(down).row, w, u),
         Displays(rows, down, asking, table, n, w, u)
  PROVE  Displays(Append(rows, Head(down).row), Tail(down), asking, table, n, w, u)
<1> DEFINE row == Head(down).row
           rows2 == Append(rows, row)
           R == From(rows, w, u)
           D == Ahead(Tail(down), w, u)
           e == <<row>>
<1>1. Tail(down) \in Seq(Frame) /\ Head(down) \in Frame
  BY HeadTailProperties
<1>2. row \in Message /\ e \in Seq(Message)
  BY <1>1, FrameRow
<1>3. R \in Seq(Message) /\ D \in Seq(Message)
  BY <1>1, FromType, AheadType
<1>4. Ahead(down, w, u) = e \o D
  <2>1. Ahead(<<Head(down)>>, w, u) = e
    BY <1>1, AheadOne DEF Is
  <2> QED
    BY <2>1, AheadNext
<1>5. From(rows2, w, u) = R \o e /\ From(rows2, u, w) = From(rows, u, w)
  BY <1>2, FromAppend DEF Is
<1> DEFINE c == Ahead(down, w, u)
           T == From(table, w, u)
           r2 == R \o <<row>>
<1>6. Follows(c, row, D)
  BY <1>4 DEF Follows
<1> HIDE DEF row, rows2, R, D, e, c, T, r2
<1>7. /\ Len(r2) = Len(R) + 1 /\ Len(c) = Len(D) + 1
      /\ Continues(T, R, c) => Continues(T, r2, D)
  BY <1>2, <1>3, <1>6, ContinuesTaken DEF r2
<1>8. /\ n = 0 => Continues(T, R, c)
      /\ Len(R) + Len(c) <= Len(T) + n
      /\ Len(From(rows, u, w)) <= Len(From(table, u, w)) + Len(Ahead(asking, u, w)) + n
  BY DEF Displays, Continues, R, T, c
<1>9. Len(r2) + Len(D) <= Len(T) + n
  <2>1. Len(R) \in Nat /\ Len(D) \in Nat
    BY <1>3, LenProperties
  <2> QED
    BY <1>7, <1>8, <2>1
<1>10. From(rows2, w, u) = r2
  BY <1>5 DEF r2, e
<1> QED
  BY <1>5, <1>7, <1>8, <1>9, <1>10 DEF Displays, Continues, rows2, row, D, T

\* The user asks for something, and shows what he sends.
LEMMA DisplaysAsked ==
  ASSUME NEW rows \in Seq(Message), NEW table \in Seq(Message), NEW n \in Nat,
         NEW down \in Seq(Frame), NEW asking \in Seq(Frame), NEW w, NEW u, NEW f \in Frame,
         Displays(rows, down, asking, table, n, w, u)
  PROVE  /\ Displays(rows, down, asking \o <<f>>, table, n, w, u)
         /\ w # u /\ f.method = "sendmsg" /\ Is(f.row, u, w) =>
              Displays(Append(rows, f.row), down, asking \o <<f>>, table, n, w, u)
<1> DEFINE A == Ahead(asking, u, w)
           E == Ahead(<<f>>, u, w)
           B == Ahead(asking \o <<f>>, u, w)
<1>1. A \in Seq(Message) /\ E \in Seq(Message) /\ <<f>> \in Seq(Frame) /\ asking \o <<f>> \in Seq(Frame)
  <2>1. <<f>> \in Seq(Frame)
    OBVIOUS
  <2> QED
    BY <2>1, AheadType, ConcatProperties
<1>2. Len(B) = Len(A) + Len(E) /\ Len(A) \in Nat /\ Len(E) \in Nat
  <2>1. B = A \o E
    BY AheadMore
  <2> HIDE DEF A, E, B
  <2> QED
    BY <1>1, <2>1, ConcatProperties, LenProperties
<1>3. Displays(rows, down, asking \o <<f>>, table, n, w, u)
  <2>1. Len(B) >= Len(A)
    BY <1>2
  <2>2. n <= n
    OBVIOUS
  <2> QED
    BY <1>1, <2>1, <2>2, DisplaysLater
<1>4. ASSUME w # u, f.method = "sendmsg", Is(f.row, u, w)
      PROVE  Displays(Append(rows, f.row), down, asking \o <<f>>, table, n, w, u)
  <2>1. f.row \in Message
    BY <1>4, FrameRow
  <2>2. Len(E) = 1
    <3>1. E = <<f.row>>
      BY <1>4, AheadOne DEF Is
    <3> HIDE DEF E
    <3> QED
      BY <3>1
  <2>3. /\ From(Append(rows, f.row), w, u) = From(rows, w, u)
        /\ From(Append(rows, f.row), u, w) = From(rows, u, w) \o <<f.row>>
    BY <1>4, <2>1, FromAppend DEF Is
  <2>4. Len(From(rows, u, w) \o <<f.row>>) = Len(From(rows, u, w)) + 1 /\ Len(From(rows, u, w)) \in Nat
    <3>1. From(rows, u, w) \in Seq(Message)
      BY FromType
    <3>2. \A d \in Seq(Message) : Len(d \o <<f.row>>) = Len(d) + 1 /\ Len(d) \in Nat
      <4>1. \A x \in Seq(Message) : Continues(x \o x, x, x)
        BY DEF Continues
      <4> QED
        BY <2>1, <4>1, ContinuesMore
    <3> QED
      BY <3>1, <3>2
  <2>5. Len(From(table, u, w)) \in Nat
    BY FromType, LenProperties
  <2>6. Len(From(rows, u, w)) <= Len(From(table, u, w)) + Len(A) + n
    BY DEF Displays
  <2>7. Len(From(rows, u, w) \o <<f.row>>) <= Len(From(table, u, w)) + Len(B) + n
    <3> HIDE DEF A, E, B
    <3>1. Len(B) = Len(A) + 1
      BY <1>2, <2>2
    <3> QED
      BY <1>2, <2>4, <2>5, <2>6, <3>1
  <2> QED
    BY <2>3, <2>7 DEF Displays
<1> QED
  BY <1>3, <1>4

\* A window, before and after it handles a frame.
LEMMA HandlerSeated ==
  ASSUME TypeOK, ViewTyped, NEW p \in Proc, Handles(p), Seated(p)
  PROVE  Seated(p)'
<1> DEFINE s == Stream(p)
           f == Head(s)
           t == Tail(s)
<1>1. /\ UNCHANGED <<faults, online, connections, phase, c2s, messageinfo>>
      /\ phase[p] = "on" /\ s \in Seq(ServerFrame) /\ s # <<>> /\ Stream(p)' = t
      /\ HandledAs(p, f) /\ f = Head(s2c[p])
  <2>1. UNCHANGED messageinfo
    BY DEF Handles, tables
  <2> QED
    BY <2>1, HandlerStream
<1>2. OneLogin(p) /\ Alone(p) /\ Bound(p) /\ Shown(p) /\ Blank(p)
  BY <1>1 DEF Seated
<1>3. /\ OneLogin(p)'
      /\ f.method \in LoginMethods => ~Has(t) /\ me[p] = Nobody
  BY <1>2, HandlerOne
<1>4. /\ f.method = "login_suc" =>
           view' = [view EXCEPT ![p] = [u \in User |-> view[p][u] \o ChatWith(u, f.rows, f.id)]]
      /\ f.method = "sendmsg" =>
           view' = [view EXCEPT ![p][Peer(f.row, me[p])] = Append(view[p][Peer(f.row, me[p])], f.row)]
      /\ f.method \notin {"login_suc", "sendmsg"} => view' = view
  BY <1>1, HandlesView
<1>5. /\ s \in Seq(Frame) /\ c2s[p] \in Seq(Frame)
      /\ messageinfo \in Seq(Message) /\ faults \in Nat
  BY ChannelFrames
<1>6. f \in ServerFrame /\ (f.method = "login_suc" => f.id \in User /\ f.rows \in Seq(Message))
  <2>1. f \in ServerFrame
    BY <1>1, HeadOfStream
  <2> QED
    BY <2>1 DEF ServerFrame, RelayFrame
<1> HIDE DEF s, f, t
<1>7. /\ t \in Seq(ServerFrame)
      /\ NoneEarly(s) => f.method # "sendmsg"
      /\ f.method # "login_suc" => (NoneEarly(s) => NoneEarly(t)) /\ (LetInAll(s) => LetInAll(t))
      /\ \A u : AllTo(s, u) => AllTo(t, u) /\ (f.method = "sendmsg" => f.row.receiver = u)
      /\ \A rows : Brings(t, rows) => Brings(s, rows)
      /\ f.method = "login_suc" => Brings(s, f.rows)
  BY <1>1, HeadOfStream DEF f, t
<1>8. /\ me'[p] = IF f.method = "login_suc" THEN f.id ELSE me[p]
      /\ me'[p] = Nobody => me[p] = Nobody /\ f.method # "login_suc"
      /\ me[p] = Nobody => f.method # "sendmsg"
  <2>1. me[p] = Nobody => NoneEarly(s)
    BY <1>2 DEF Alone, s
  <2> QED
    BY <1>1, <1>6, <1>7, <2>1, ClientAssumption DEF HandledAs
<1>9. Alone(p)'
  <2>1. me'[p] = Nobody => NoneEarly(t)
    BY <1>2, <1>7, <1>8 DEF Alone, s
  <2> QED
    BY <1>1, <2>1 DEF Alone
<1>10. Bound(p)'
  <2>1. \A u \in User : online[u] = p =>
          /\ p \in connections
          /\ me'[p] = Nobody => LetInAll(t)
          /\ \A v \in User : online[v] = p => v = u
          /\ AllTo(t, u)
    BY <1>2, <1>7, <1>8 DEF Bound, s
  <2> QED
    BY <1>1, <2>1 DEF Bound
<1>11. Blank(p)'
  BY <1>2, <1>4, <1>8 DEF Blank
<1>12. Shown(p)'
  <2> SUFFICES ASSUME NEW u \in User, NEW w \in User, online[u] = p, w # u,
                      NEW rows \in Seq(Message), (me'[p] = u /\ rows = view'[p][w]) \/ Brings(t, rows)
               PROVE  Displays(rows, t, c2s[p], messageinfo, faults, w, u)
    BY <1>1 DEF Shown, Held, Fits
  <2>1. \A r \in Seq(Message) : (me[p] = u /\ r = view[p][w]) \/ Brings(s, r) =>
          Displays(r, s, c2s[p], messageinfo, faults, w, u)
    BY <1>2 DEF Shown, Held, Fits, s
  <2>2. \A r \in Seq(Message) :
          /\ Displays(r, s, c2s[p], messageinfo, faults, w, u)
          /\ f.method = "sendmsg" => ~Is(f.row, w, u)
          => Displays(r, t, c2s[p], messageinfo, faults, w, u)
    BY <1>1, <1>5, DisplaysPassed DEF f, t
  <2>3. view[p][w] \in Seq(Message) /\ view[p] \in [User -> Seq(Message)]
    BY DEF ViewTyped
  <2>4. f.method = "sendmsg" => f.row.receiver = u
    BY <1>2, <1>7 DEF Bound, s
  <2>5. CASE Brings(t, rows)
    <3>1. me'[p] = Nobody
      <4>1. Has(t)
        BY <1>7, <2>5, WithoutLogin
      <4> QED
        BY <1>1, <1>3, <4>1 DEF OneLogin
    <3>2. Brings(s, rows) /\ f.method # "sendmsg"
      BY <1>7, <1>8, <2>5, <3>1
    <3> QED
      BY <2>1, <2>2, <3>2
  <2>6. CASE me'[p] = u /\ rows = view'[p][w] /\ f.method = "login_suc"
    <3>1. f.id = u /\ me[p] = Nobody
      BY <1>3, <1>8, <2>6 DEF LoginMethods
    <3>2. rows = ChatWith(w, f.rows, u)
      <4>1. rows = view[p][w] \o ChatWith(w, f.rows, u)
        BY <1>4, <2>3, <2>6, <3>1 DEF ViewTyped
      <4>2. view[p][w] = <<>>
        BY <1>2, <3>1 DEF Blank
      <4>3. ChatWith(w, f.rows, u) \in Seq(Message)
        BY <1>6, <2>6, ChatWithType
      <4> QED
        BY <4>1, <4>2, <4>3, ConcatEmptySeq
    <3>3. Displays(f.rows, s, c2s[p], messageinfo, faults, w, u)
      BY <1>6, <1>7, <2>1, <2>6
    <3>4. Displays(rows, s, c2s[p], messageinfo, faults, w, u)
      BY <1>6, <2>6, <3>2, <3>3, DisplaysChat
    <3> QED
      BY <2>2, <2>6, <3>4
  <2>7. CASE me'[p] = u /\ rows = view'[p][w] /\ f.method = "sendmsg"
    <3>1. me[p] = u /\ Displays(view[p][w], s, c2s[p], messageinfo, faults, w, u)
      BY <1>8, <2>1, <2>3, <2>7
    <3>2. CASE f.row.sender = w
      <4>1. Peer(f.row, me[p]) = w
        BY <3>1, <3>2 DEF Peer
      <4>2. rows = Append(view[p][w], f.row)
        BY <1>4, <2>3, <2>7, <4>1 DEF ViewTyped
      <4>3. Is(f.row, w, u)
        BY <2>4, <2>7, <3>2 DEF Is
      <4> QED
        BY <1>1, <1>5, <2>3, <2>7, <3>1, <4>2, <4>3, DisplaysTaken DEF f, t
    <3>3. CASE f.row.sender # w
      <4>1. Peer(f.row, me[p]) # w
        BY <2>4, <2>7, <3>1, <3>3 DEF Peer
      <4>2. rows = view[p][w]
        BY <1>4, <2>3, <2>7, <4>1 DEF ViewTyped
      <4>3. ~Is(f.row, w, u)
        BY <3>3 DEF Is
      <4> QED
        BY <2>2, <2>3, <3>1, <4>2, <4>3
    <3> QED
      BY <3>2, <3>3
  <2>8. CASE me'[p] = u /\ rows = view'[p][w] /\ f.method \notin {"login_suc", "sendmsg"}
    <3>1. me[p] = u /\ rows = view[p][w]
      BY <1>4, <1>8, <2>8
    <3> QED
      BY <2>1, <2>2, <2>8, <3>1
  <2> QED
    BY <2>5, <2>6, <2>7, <2>8
<1> QED
  BY <1>1, <1>3, <1>9, <1>10, <1>11, <1>12 DEF Seated, Strange

LEMMA HandlesSeated ==
  ASSUME TypeOK, ViewTyped, NEW p \in Proc, Handles(p), NEW q \in Proc, Seated(q)
  PROVE  Seated(q)'
<1>1. ASSUME q # p PROVE Seated(q)'
  <2>1. /\ UNCHANGED <<faults, online, outq, connections, phase, c2s, messageinfo>>
        /\ UNCHANGED <<me[q], waiting[q]>> /\ Stream(q)' = Stream(q)
    <3>1. s2c'[q] = s2c[q] /\ UNCHANGED messageinfo
      BY <1>1, HandlesFacts DEF TypeOK, ConnectionTypeOK, Handles, tables
    <3> QED
      BY <1>1, <3>1, HandlesFacts DEF Stream
  <2>2. view'[q] = view[q]
    BY <1>1, HandlesView DEF ViewTyped
  <2>3. Still(q)
    BY <2>1, <2>2 DEF Still, TakenFrom, GivenTo
  <2>4. Carries(q)
    BY <2>1, CalmCarries DEF CalmTaken, CalmGiven, TakenFrom, Rises
  <2> QED
    BY <2>3, <2>4, StillSeated
<1> QED
  BY <1>1, HandlerSeated

\* A user asks for something: what is displayed then is what he sends.
AskedShown(p, f) ==
  /\ f \in Frame
  /\ c2s'[p] = IF phase[p] = "on" /\ p \in connections THEN c2s[p] \o <<f>> ELSE c2s[p]
  /\ \/ view'[p] = view[p]
     \/ /\ f.method = "sendmsg" /\ me[p] # Nobody /\ f.row.sender = me[p]
        /\ view'[p] = [view[p] EXCEPT ![f.row.receiver] = Append(view[p][f.row.receiver], f.row)]

LEMMA AsksShown ==
  ASSUME TypeOK, ViewTyped, NEW p \in Proc, UserAsks(p)
  PROVE  \E f : AskedShown(p, f)
<1>1. \A f \in ClientFrame : f \in Frame /\ Append(c2s[p], f) = c2s[p] \o <<f>>
  <2>1. c2s[p] \in Seq(ClientFrame)
    BY StreamType
  <2> QED
    BY <2>1, AppendIsConcat DEF Frame
<1>2. CASE UNCHANGED view
  <2>1. PICK f \in ClientFrame : AskedAs(p, f)
    BY AsksFacts
  <2>2. AskedShown(p, f)
    BY <1>1, <1>2, <2>1 DEF AskedAs, AskedShown
  <2> QED
    BY <2>2
<1>3. ASSUME NEW u \in User, NEW text \in Text, Sendmsg(p, u, text)
      PROVE  \E f : AskedShown(p, f)
  <2> DEFINE row == [sender |-> me[p], receiver |-> u, message |-> text]
             f == [method |-> "sendmsg", row |-> row]
  <2>1. me[p] \in User /\ row \in Message
    BY <1>3, SendmsgRow
  <2>2. f \in ClientFrame /\ f.method = "sendmsg" /\ f.row = row /\ row.sender = me[p] /\ row.receiver = u
    BY <2>1 DEF ClientFrame, RelayFrame
  <2>3. c2s'[p] = IF phase[p] = "on" /\ p \in connections THEN Append(c2s[p], f) ELSE c2s[p]
    BY <1>3 DEF Sendmsg, ClientWrite, TypeOK, ConnectionTypeOK
  <2>4. me[p] # Nobody /\ (view' = [view EXCEPT ![p][u] = Append(@, row)] \/ UNCHANGED view)
    BY <1>3 DEF Sendmsg
  <2> HIDE DEF f, row
  <2>5. view'[p] = view[p] \/ view'[p] = [view[p] EXCEPT ![u] = Append(view[p][u], row)]
    BY <2>4 DEF ViewTyped
  <2>6. AskedShown(p, f)
    BY <1>1, <2>2, <2>3, <2>4, <2>5 DEF AskedShown
  <2> QED
    BY <2>6
<1> QED
  BY <1>2, <1>3, AsksView

LEMMA AskerSeated ==
  ASSUME TypeOK, ViewTyped, NEW p \in Proc, Asks(p), UserAsks(p), Seated(p)
  PROVE  Seated(p)'
<1>1. /\ UNCHANGED <<faults, online, connections, phase, me, messageinfo>> /\ Stream(p)' = Stream(p)
  <2>1. UNCHANGED <<faults, online, messageinfo>>
    BY DEF Asks, tables, cache
  <2> QED
    BY <2>1, AsksLeaves, AsksFacts DEF serverSide, Stream
<1>2. PICK f : AskedShown(p, f)
  BY AsksShown
<1>3. phase[p] = "on" => OneLogin(p)'
  <2>1. ASSUME NEW g \in ClientFrame, AskedAs(p, g), phase[p] = "on" PROVE OneLogin(p)'
    BY <2>1, AskerOne DEF Seated
  <2> QED
    BY <2>1, AsksFacts
<1>4. Strange(p)' /\ Blank(p)'
  BY <1>1, <1>2 DEF Seated, Strange, Blank, AskedShown
<1> SUFFICES ASSUME phase[p] = "on" PROVE Alone(p)' /\ Bound(p)' /\ Shown(p)'
  BY <1>1, <1>3, <1>4 DEF Seated
<1>5. Alone(p) /\ Bound(p) /\ Shown(p)
  BY DEF Seated
<1>6. Alone(p)' /\ Bound(p)'
  BY <1>1, <1>5 DEF Alone, Bound
<1>7. Shown(p)'
  <2> DEFINE s == Stream(p)
             table == messageinfo
             n == faults
             c == c2s[p]
  <2> SUFFICES ASSUME NEW u \in User, NEW w \in User, online[u] = p, w # u,
                      NEW rows \in Seq(Message), (me[p] = u /\ rows = view'[p][w]) \/ Brings(s, rows)
               PROVE  Displays(rows, s, c2s'[p], table, n, w, u)
    BY <1>1 DEF Shown, Held, Fits
  <2>1. \A r \in Seq(Message) : (me[p] = u /\ r = view[p][w]) \/ Brings(s, r) =>
          Displays(r, s, c, table, n, w, u)
    BY <1>5 DEF Shown, Held, Fits
  <2>2. c2s'[p] = c \o <<f>> /\ f \in Frame
    BY <1>2, <1>5 DEF AskedShown, Bound
  <2>3. s \in Seq(Frame) /\ c \in Seq(Frame) /\ table \in Seq(Message) /\ n \in Nat
    BY ChannelFrames
  <2>4. view[p][w] \in Seq(Message) /\ view[p] \in [User -> Seq(Message)]
    BY DEF ViewTyped
  <2>5. \/ (me[p] = u /\ rows = view[p][w]) \/ Brings(s, rows)
        \/ /\ f.method = "sendmsg" /\ me[p] = u /\ Is(f.row, u, w)
           /\ rows = Append(view[p][w], f.row)
    BY <1>2, <2>4 DEF AskedShown, Is
  <2> HIDE DEF s, table, n, c
  <2>6. CASE (me[p] = u /\ rows = view[p][w]) \/ Brings(s, rows)
    <3>1. Displays(rows, s, c, table, n, w, u)
      BY <2>1, <2>6
    <3> QED
      BY <2>2, <2>3, <3>1, DisplaysAsked
  <2>7. CASE f.method = "sendmsg" /\ me[p] = u /\ Is(f.row, u, w) /\ rows = Append(view[p][w], f.row)
    <3>1. Displays(view[p][w], s, c, table, n, w, u)
      BY <2>1, <2>4, <2>7
    <3> DEFINE r == view[p][w]
    <3>2. r \in Seq(Message) /\ Displays(r, s, c, table, n, w, u)
      BY <2>4, <3>1
    <3> HIDE DEF r
    <3>3. Displays(Append(r, f.row), s, c \o <<f>>, table, n, w, u)
      BY <2>2, <2>3, <2>7, <3>2, DisplaysAsked
    <3> QED
      BY <2>2, <2>7, <3>3 DEF r
  <2> QED
    BY <2>5, <2>6, <2>7
<1> QED
  BY <1>6, <1>7

LEMMA AsksSeated ==
  ASSUME TypeOK, ViewTyped, NEW p \in Proc, Asks(p), NEW q \in Proc, Seated(q)
  PROVE  Seated(q)'
<1>1. UNCHANGED <<faults, online, messageinfo>>
  BY DEF Asks, tables, cache
<1>2. ASSUME UserAsks(p), q # p PROVE Seated(q)'
  <2>1. /\ UNCHANGED <<connections, phase, me>> /\ Stream(q)' = Stream(q)
        /\ UNCHANGED <<waiting[q], c2s[q]>>
    BY <1>2, AsksLeaves, AsksFacts DEF serverSide, Stream, Others
  <2>2. view'[q] = view[q]
    <3>1. ASSUME NEW u \in User, NEW text \in Text, Sendmsg(p, u, text) PROVE view'[q] = view[q]
      BY <1>2, <3>1 DEF Sendmsg, ViewTyped
    <3> QED
      BY <1>2, <3>1, AsksView
  <2>3. Still(q)
    BY <1>1, <2>1, <2>2 DEF Still, TakenFrom, GivenTo
  <2>4. Carries(q)
    BY <1>1, <2>1, CalmCarries DEF CalmTaken, CalmGiven, TakenFrom, Rises
  <2> QED
    BY <2>3, <2>4, StillSeated
<1>3. ASSUME NEW u \in User, OpenChat(p, u) PROVE Seated(q)'
  <2>1. /\ UNCHANGED <<connections, outq, c2s, me, waiting, view>>
        /\ phase' = [phase EXCEPT ![p] = "gone"] /\ s2c' = [s2c EXCEPT ![p] = <<>>]
    BY <1>3 DEF OpenChat, Leave, serverSide, clientVars, info
  <2>2. CASE q = p
    BY <1>1, <2>1, <2>2 DEF Seated, Strange, Blank, TypeOK, ConnectionTypeOK
  <2>3. CASE q # p
    <3>1. phase'[q] = phase[q] /\ Stream(q)' = Stream(q)
      BY <2>1, <2>3 DEF Stream, TypeOK, ConnectionTypeOK
    <3>2. Still(q)
      BY <1>1, <2>1, <3>1 DEF Still, TakenFrom, GivenTo
    <3>3. Carries(q)
      BY <1>1, <2>1, <3>1, CalmCarries DEF CalmTaken, CalmGiven, TakenFrom, Rises
    <3> QED
      BY <3>2, <3>3, StillSeated
  <2> QED
    BY <2>2, <2>3
<1> QED
  BY <1>2, <1>3, AskerSeated DEF Asks

-----------------------------------------------------------------------------
(* The server handles a request.                                           *)

\* Unless a destroyed object is used, a frame for a user goes to the session
\* the cache has for him, and nowhere else.
LEMMA DeliverExact ==
  ASSUME TypeOK, NEW u \in User, NEW f \in ServerFrame, Deliver(u, f), s2c' = s2c, ~wild',
         NEW q \in Proc
  PROVE  /\ online[u] = q => q \in connections /\ Stream(q)' = Stream(q) \o <<f>>
         /\ online[u] # q => Stream(q)' = Stream(q)
<1>1. CASE online[u] = NoConn
  BY <1>1, ServiceAssumption DEF Deliver, Stream
<1>2. ASSUME NEW r \in Proc, online[u] = r, WriteThrough(r, f)
      PROVE  /\ online[u] = q => q \in connections /\ Stream(q)' = Stream(q) \o <<f>>
             /\ online[u] # q => Stream(q)' = Stream(q)
  <2>1. r \in connections /\ Write(r, <<f>>)
    BY <1>2 DEF WriteThrough, Reached
  <2>2. <<f>> \in Seq(ServerFrame)
    OBVIOUS
  <2>3. Stream(r)' = Stream(r) \o <<f>> /\ \A x \in Proc \ {r} : Stream(x)' = Stream(x)
    BY <2>1, <2>2, WriteStream
  <2> QED
    BY <1>2, <2>1, <2>3
<1>3. online[u] \in Proc \/ online[u] = NoConn
  BY DEF TypeOK, ServiceTypeOK
<1> QED
  BY <1>1, <1>2, <1>3 DEF Deliver

\* A request that is no login and no message is answered with one frame, or
\* relayed; it may meet a Store call that fails.
CalmServe(p) ==
  /\ Dispatched(p) /\ Head(c2s[p]).method # "sendmsg"
  /\ UNCHANGED <<messageinfo, online, view>> /\ Rises
  /\ \E f \in ServerFrame :
       /\ f.method \notin LoginMethods /\ f.method # "sendmsg"
       /\ Write(p, <<f>>) \/ \E u \in User : Deliver(u, f)

LEMMA CalmServeSeated ==
  ASSUME TypeOK, NEW p \in Proc, CalmServe(p), ~wild', NEW q \in Proc, Seated(q)
  PROVE  Seated(q)'
<1>1. /\ Dispatched(p) /\ Head(c2s[p]).method # "sendmsg"
      /\ UNCHANGED <<messageinfo, online, view>> /\ Rises
      /\ UNCHANGED <<connections, phase, s2c, me, waiting>> /\ p \in connections
  BY DEF CalmServe, Dispatched
<1>2. PICK f \in ServerFrame :
        /\ f.method \notin LoginMethods /\ f.method # "sendmsg"
        /\ Write(p, <<f>>) \/ \E u \in User : Deliver(u, f)
  BY DEF CalmServe
<1>3. Stream(q)' = Stream(q) \/ (q \in connections /\ Stream(q)' = Stream(q) \o <<f>>)
  <2>1. CASE Write(p, <<f>>)
    <3>1. <<f>> \in Seq(ServerFrame)
      OBVIOUS
    <3>2. Stream(p)' = Stream(p) \o <<f>> /\ \A x \in Proc \ {p} : Stream(x)' = Stream(x)
      BY <1>1, <2>1, <3>1, WriteStream
    <3> QED
      BY <1>1, <3>2
  <2>2. ASSUME NEW u \in User, Deliver(u, f)
        PROVE  Stream(q)' = Stream(q) \/ (q \in connections /\ Stream(q)' = Stream(q) \o <<f>>)
    BY <1>1, <2>2, DeliverExact
  <2> QED
    BY <1>2, <2>1, <2>2
<1>4. GivenTo(q) /\ CalmGiven(q)
  BY <1>2, <1>3 DEF GivenTo, Due, CalmGiven
<1>5. TakenFrom(q) /\ CalmTaken(q)
  BY <1>1 DEF TakenFrom, CalmTaken, Dispatched, TypeOK, ConnectionTypeOK
<1>6. Carries(q)
  BY <1>1, <1>4, <1>5, CalmCarries
<1>7. Still(q)
  BY <1>1, <1>4, <1>5 DEF Still
<1> QED
  BY <1>6, <1>7, StillSeated

LEMMA ServesCalm ==
  ASSUME TypeOK, NEW p \in Proc, Serves(p), Head(c2s[p]).method \notin {"login", "sendmsg"}
  PROVE  CalmServe(p)
<1> DEFINE f == Head(c2s[p])
<1>1. ASSUME NEW m, Serve(p, m) PROVE Dispatched(p) /\ f \in ClientFrame /\ f.method = m
  BY <1>1, ServeDispatches
<1>2. view' = view
  BY DEF Serves, clientVars, info
<1>3. \A calls, bad : Failing(calls, bad) => Rises
  BY DEF Failing, Rises
<1>4. ASSUME Dispatched(p), NEW g \in ServerFrame, g.method \notin LoginMethods, g.method # "sendmsg",
             Write(p, <<g>>) \/ \E u \in User : Deliver(u, g),
             UNCHANGED <<messageinfo, online>>, Rises
      PROVE  CalmServe(p)
  BY <1>2, <1>4 DEF CalmServe
<1> USE DEF LoginMethods
<1>5. CASE Serve(p, "signin") /\ signin(p, f)
  <2>1. PICK m \in {"signin_suc", "signin_idexist"} : Write(p, <<Reply(m)>>)
    BY <1>5 DEF signin
  <2>2. Reply(m) \in ServerFrame /\ Reply(m).method = m
    BY MadeFrames DEF Reply
  <2>3. UNCHANGED <<messageinfo, online>> /\ Rises
    BY <1>3, <1>5 DEF signin, cache
  <2> QED
    BY <1>1, <1>4, <1>5, <2>1, <2>2, <2>3
<1>6. CASE Serve(p, "findfd") /\ find(p, f)
  <2>1. f.id \in User /\ f.findid \in User
    BY <1>1, <1>6, ClientFrameFields
  <2>2. PICK g \in ServerFrame : g.method \in {"findfd_suc", "findfd_err"} /\ Deliver(f.id, g)
    <3>1. /\ Reply("findfd_err") \in ServerFrame
          /\ [method |-> "findfd_suc", id |-> f.findid] \in ServerFrame
      BY <2>1, MadeFrames
    <3> QED
      BY <1>6, <3>1 DEF find, Reply
  <2>3. UNCHANGED <<messageinfo, online>> /\ Rises
    BY <1>3, <1>6 DEF find, cache, tables
  <2> QED
    BY <1>1, <1>4, <1>6, <2>1, <2>2, <2>3
<1>7. ASSUME NEW m \in {"addfd", "accept_addfd", "refuse_addfd"}, Serve(p, m)
      PROVE  Dispatched(p) /\ f \in ServerFrame /\ f.method = m /\ f.userid \in User /\ f.friendid \in User
  <2>1. f \in RelayFrame
    BY <1>1, <1>7, ClientFrameFields
  <2> QED
    BY <1>1, <1>7, <2>1, RelayFrameFields, RelayIsFrame
<1>8. CASE Serve(p, "addfd") /\ addfriend(p, f)
  <2>1. Deliver(f.friendid, f) /\ UNCHANGED <<messageinfo, online>> /\ Rises
    BY <1>8 DEF addfriend, tables, Rises
  <2> QED
    BY <1>4, <1>7, <1>8, <2>1
<1>9. CASE Serve(p, "refuse_addfd") /\ refuse_addfd(p, f)
  <2>1. Deliver(f.userid, f) /\ UNCHANGED <<messageinfo, online>> /\ Rises
    BY <1>9 DEF refuse_addfd, tables, cache, Rises
  <2> QED
    BY <1>4, <1>7, <1>9, <2>1
<1>10. CASE Serve(p, "accept_addfd") /\ accept_addfd(p, f)
  <2>1. PICK bad : Failing(AcceptCalls, bad) /\ \E u \in Requester(f, bad) : Deliver(u, f)
    BY <1>10 DEF accept_addfd
  <2>2. \E u \in User : Deliver(u, f)
    BY <1>7, <1>10, <2>1 DEF Requester
  <2>3. UNCHANGED <<messageinfo, online>> /\ Rises
    BY <1>3, <1>10, <2>1 DEF accept_addfd, cache
  <2> QED
    BY <1>4, <1>7, <1>10, <2>2, <2>3
<1>11. ~Serve(p, "login") /\ ~Serve(p, "sendmsg")
  BY DEF Serve
<1> QED
  BY <1>5, <1>6, <1>8, <1>9, <1>10, <1>11 DEF Serves, Service

\* The request is a message.
LEMMA ServesStored ==
  ASSUME TypeOK, NEW p \in Proc, Serves(p), Head(c2s[p]).method = "sendmsg", ~wild',
         NEW q \in Proc, Seated(q)
  PROVE  Seated(q)'
<1> DEFINE f == Head(c2s[p])
<1>1. Serve(p, "sendmsg") /\ sendmsg(p, f)
  BY DEF Serves, Service, Serve
<1>2. /\ Dispatched(p) /\ f \in ServerFrame /\ f.method = "sendmsg" /\ f.row.receiver \in User
      /\ f \in Frame
  <2>1. Dispatched(p) /\ f \in ClientFrame /\ f.method = "sendmsg"
    BY <1>1, ServeDispatches
  <2> QED
    BY <2>1, ClientFrameFields, RelayFrameFields, RelayIsFrame DEF Frame
<1>3. Deliver(f.row.receiver, f) /\ UNCHANGED online
  BY <1>1 DEF sendmsg, cache
<1>4. Stores(messageinfo, faults, f.row, messageinfo', faults')
  BY <1>1 DEF sendmsg, Failing, insertMessage, Stores
<1>5. /\ UNCHANGED <<connections, phase, s2c, me, waiting, view>>
      /\ c2s'[q] = IF q = p THEN Tail(c2s[q]) ELSE c2s[q]
      /\ c2s[p] # <<>>
  BY <1>2 DEF Serves, clientVars, info, Dispatched, TypeOK, ConnectionTypeOK
<1>6. TakenFrom(q) /\ Takes(c2s[q], f, c2s'[q])
  BY <1>5 DEF TakenFrom, Takes
<1>7. /\ online[f.row.receiver] = q => q \in connections /\ Stream(q)' = Stream(q) \o <<f>>
      /\ online[f.row.receiver] # q => Stream(q)' = Stream(q)
  BY <1>2, <1>3, <1>5, DeliverExact
<1> HIDE DEF f
<1>8. GivenTo(q)
  BY <1>2, <1>7 DEF GivenTo, Due, LoginMethods
<1>9. Still(q)
  BY <1>3, <1>5, <1>6, <1>8 DEF Still
<1>10. ASSUME phase[q] = "on" PROVE Carries(q)
  <2>1. \A u \in User : online[u] = q => (f.row.receiver = u <=> online[f.row.receiver] = q)
    BY <1>2, <1>10 DEF Seated, Bound
  <2>2. \A u \in User : online[u] = q => Relays(Stream(q), f, u, Stream(q)')
    BY <1>7, <2>1 DEF Relays
  <2> QED
    BY <1>2, <1>4, <1>6, <2>2, StoredCarries
<1> QED
  BY <1>9, <1>10, StillSeated

\* The request is a login.  The window that asks has nobody yet, and the cache
\* has nobody for it.
LEMMA AskerAlone ==
  ASSUME TypeOK, NEW p \in Proc, Dispatched(p), Head(c2s[p]).method = "login",
         OneLogin(p), Alone(p), Bound(p)
  PROVE  /\ me[p] = Nobody /\ ~Has(Stream(p)) /\ \A u \in User : online[u] # p
         /\ \A k \in 1 .. Len(Stream(p)) : Stream(p)[k].method # "sendmsg"
<1>1. c2s[p] \in Seq(ClientFrame) /\ c2s[p] # <<>> /\ Head(c2s[p]).method \in LoginMethods
  BY TakenTail DEF Dispatched, LoginMethods
<1>2. Has(c2s[p])
  BY <1>1, OneTail DEF OneLogin
<1>3. ~Has(Stream(p)) /\ me[p] = Nobody
  BY <1>2 DEF OneLogin
<1>4. /\ ~LetInAll(Stream(p))
      /\ NoneEarly(Stream(p)) => \A k \in 1 .. Len(Stream(p)) : Stream(p)[k].method # "sendmsg"
  BY <1>3, StreamType, WithoutLogin
<1> QED
  BY <1>3, <1>4 DEF Alone, Bound

\* The frames a login as u is answered with: the rows of the table, unless
\* they could not be read.
Welcome(w, u) ==
  /\ w \in Seq(ServerFrame) /\ 1 \in 1 .. Len(w)
  /\ w[1].method = "login_suc"
  /\ w[1].rows = getMessage(u) \/ (w[1].rows = <<>> /\ faults' > 0)
  /\ \A k \in 2 .. Len(w) : w[k].method = "addfd"

Refusal(w) ==
  \E f \in ServerFrame : w = <<f>> /\ f.method \in {"login_noid", "login_pwerr"}

LEMMA LoginOutcome ==
  ASSUME TypeOK, NEW p \in Proc, Dispatched(p), NEW value \in ClientFrame, value.method = "login",
         login(p, value)
  PROVE  /\ messageinfo' = messageinfo /\ Rises
         /\ \A q \in Proc \ {p} : Stream(q)' = Stream(q)
         /\ \E w \in Seq(ServerFrame) :
              /\ Stream(p)' = Stream(p) \o w
              /\ \/ online' = online /\ Refusal(w)
                 \/ online' = [online EXCEPT ![value.id] = p] /\ Welcome(w, value.id)
<1> DEFINE G == /\ \A q \in Proc \ {p} : Stream(q)' = Stream(q)
                /\ \E w \in Seq(ServerFrame) :
                     /\ Stream(p)' = Stream(p) \o w
                     /\ \/ online' = online /\ Refusal(w)
                        \/ online' = [online EXCEPT ![value.id] = p] /\ Welcome(w, value.id)
<1>1. value.id \in User /\ s2c' = s2c
  BY ClientFrameFields DEF Dispatched
<1>2. PICK bad \in SUBSET LoginCalls :
    /\ Failing(LoginCalls, bad)
    /\ \/ /\ \E m \in {"login_noid", "login_pwerr"} : Write(p, <<Reply(m)>>)
          /\ UNCHANGED online
       \/ /\ online' = [online EXCEPT ![value.id] = p]
          /\ LoginAnswer(p, value, bad)
    /\ UNCHANGED <<tables, apply, up, wild>>
  BY DEF login
<1>3. messageinfo' = messageinfo /\ Rises
  BY <1>2 DEF tables, Failing, Rises
<1>4. ASSUME NEW m \in {"login_noid", "login_pwerr"}, Write(p, <<Reply(m)>>), UNCHANGED online
      PROVE  G
  <2> DEFINE f == Reply(m)
  <2>1. f \in ServerFrame /\ f.method = m /\ <<f>> \in Seq(ServerFrame)
    BY MadeFrames DEF Reply
  <2>2. Refusal(<<f>>)
    BY <2>1 DEF Refusal
  <2> HIDE DEF f
  <2>3. Stream(p)' = Stream(p) \o <<f>> /\ \A q \in Proc \ {p} : Stream(q)' = Stream(q)
    BY <1>1, <1>4, <2>1, WriteStream DEF f
  <2> QED
    BY <1>4, <2>1, <2>2, <2>3
<1>5. ASSUME online' = [online EXCEPT ![value.id] = p], LoginAnswer(p, value, bad)
      PROVE  G
  <2> DEFINE rows == IF "getMessage" \in bad THEN <<>> ELSE getMessage(value.id)
             list == IF "getFriend" \in bad THEN {} ELSE getFriend(value.id)
  <2>1. PICK id \in User :
          Write(p, <<[method |-> "login_suc", id |-> id, friends |-> list, rows |-> rows]>> \o Replay(value.id))
    BY <1>1, <1>5 DEF LoginAnswer
  <2> DEFINE answer == [method |-> "login_suc", id |-> id, friends |-> list, rows |-> rows]
             r == Replay(value.id)
             w == <<answer>> \o r
  <2>2. answer \in ServerFrame /\ answer.method = "login_suc" /\ answer.rows = rows
    <3>1. list \in SUBSET User
      BY DEF getFriend
    <3>2. rows \in Seq(Message)
      BY GetMessageType DEF TypeOK, StoreTypeOK
    <3> HIDE DEF rows, list
    <3> QED
      BY <3>1, <3>2 DEF ServerFrame
  <2>3. rows = getMessage(value.id) \/ (rows = <<>> /\ faults' > 0)
    <3>1. bad # {} => faults' > 0
      BY <1>2, StoreAssumption DEF Failing, TypeOK, StoreTypeOK
    <3> QED
      BY <3>1
  <2>4. r \in Seq(ServerFrame) /\ \A k \in 1 .. Len(r) : r[k].method = "addfd"
    <3>1. apply[value.id] \in Seq(User)
      BY <1>1 DEF TypeOK, ServiceTypeOK
    <3>2. ASSUME NEW v \in User PROVE FriendFrame("addfd", v, value.id) \in ServerFrame
      BY <1>1, MadeFrames, RelayIsFrame
    <3>3. \A v : FriendFrame("addfd", v, value.id).method = "addfd"
      BY DEF FriendFrame
    <3> QED
      BY <3>1, <3>2, <3>3 DEF Replay
  <2> HIDE DEF answer, r, rows
  <2>5. /\ <<answer>> \in Seq(ServerFrame) /\ Len(<<answer>>) = 1 /\ <<answer>>[1] = answer
    BY <2>2
  <2>6. /\ w \in Seq(ServerFrame) /\ Len(w) = 1 + Len(r) /\ Len(r) \in Nat
        /\ w[1] = answer /\ \A k \in 2 .. Len(w) : w[k] = r[k - 1]
    BY <2>4, <2>5, ConcatProperties
  <2> HIDE DEF w
  <2>7. Welcome(w, value.id)
    <3>1. \A k \in 2 .. Len(w) : k - 1 \in 1 .. Len(r)
      BY <2>6
    <3>2. \A k \in 2 .. Len(w) : w[k].method = "addfd"
      BY <2>4, <2>6, <3>1
    <3>3. 1 \in 1 .. Len(w)
      BY <2>6
    <3> QED
      BY <2>2, <2>3, <2>6, <3>2, <3>3 DEF Welcome
  <2>8. Stream(p)' = Stream(p) \o w /\ \A q \in Proc \ {p} : Stream(q)' = Stream(q)
    <3>1. Write(p, w)
      BY <2>1 DEF w, answer, r, rows
    <3> QED
      BY <1>1, <2>6, <3>1, WriteStream
  <2> QED
    BY <1>5, <2>6, <2>7, <2>8
<1>6. G
  BY <1>2, <1>4, <1>5
<1> QED
  BY <1>3, <1>6

\* The rows of the table that are u's have all of his messages.
LEMMA GetMessageAll ==
  ASSUME messageinfo \in Seq(Message), NEW w, NEW u
  PROVE  /\ From(getMessage(u), w, u) = From(messageinfo, w, u)
         /\ From(getMessage(u), u, w) = From(messageinfo, u, w)
<1> DEFINE P == {k \in DOMAIN messageinfo : u \in {messageinfo[k].sender, messageinfo[k].receiver}}
<1>1. P \in SUBSET (1 .. Len(messageinfo))
  OBVIOUS
<1>2. \A k \in 1 .. Len(messageinfo) : messageinfo[k].sender = w /\ messageinfo[k].receiver = u => k \in P
  OBVIOUS
<1>3. \A k \in 1 .. Len(messageinfo) : messageinfo[k].sender = u /\ messageinfo[k].receiver = w => k \in P
  OBVIOUS
<1>4. getMessage(u) = Select(messageinfo, P)
  BY DEF getMessage
<1> HIDE DEF P
<1>5. From(Select(messageinfo, P), w, u) = From(messageinfo, w, u)
  BY <1>1, <1>2, FromSelect
<1>6. From(Select(messageinfo, P), u, w) = From(messageinfo, u, w)
  BY <1>1, <1>3, FromSelect
<1> QED
  BY <1>4, <1>5, <1>6

\* What a login brings, before anything is relayed to the window.
LEMMA DisplaysFresh ==
  ASSUME NEW rows \in Seq(Message), NEW table \in Seq(Message), NEW n \in Nat,
         NEW down \in Seq(Frame), \A k \in 1 .. Len(down) : down[k].method # "sendmsg",
         NEW asking \in Seq(Frame), NEW w, NEW u,
         \/ From(rows, w, u) = From(table, w, u) /\ From(rows, u, w) = From(table, u, w)
         \/ rows = <<>> /\ n > 0
  PROVE  Displays(rows, down, asking, table, n, w, u)
<1>1. Ahead(down, w, u) = <<>>
  BY AheadNone
<1>2. From(rows, w, u) \in Seq(Message) /\ From(rows, u, w) \in Seq(Message)
      /\ From(table, w, u) \in Seq(Message) /\ From(table, u, w) \in Seq(Message)
      /\ Ahead(asking, u, w) \in Seq(Message)
  BY FromType, AheadType
<1>3. Len(From(table, w, u)) \in Nat /\ Len(From(table, u, w)) \in Nat /\ Len(Ahead(asking, u, w)) \in Nat
  BY <1>2, LenProperties
<1>4. Len(<<>>) = 0
  OBVIOUS
<1>5. CASE From(rows, w, u) = From(table, w, u) /\ From(rows, u, w) = From(table, u, w)
  <2>1. From(rows, w, u) \o <<>> = From(rows, w, u)
    BY <1>2, ConcatEmptySeq
  <2> QED
    BY <1>1, <1>3, <1>4, <1>5, <2>1 DEF Displays
<1>6. CASE rows = <<>> /\ n > 0
  <2>1. From(rows, w, u) = <<>> /\ From(rows, u, w) = <<>>
    BY <1>6, FromNone
  <2> QED
    BY <1>1, <1>3, <1>4, <1>6, <2>1 DEF Displays
<1> QED
  BY <1>5, <1>6

\* The window that is answered, if it is let in.
LEMMA WelcomeSeated ==
  ASSUME TypeOK, NEW p \in Proc, Dispatched(p), Head(c2s[p]).method = "login",
         UNCHANGED <<messageinfo, view>>, Rises, NEW v \in User, NEW w \in Seq(ServerFrame),
         Stream(p)' = Stream(p) \o w, online' = [online EXCEPT ![v] = p], Welcome(w, v),
         phase[p] = "on", Seated(p)
  PROVE  Seated(p)'
<1> DEFINE s == Stream(p)
           t == Stream(p)'
<1>1. OneLogin(p) /\ Alone(p) /\ Bound(p) /\ Blank(p)
  BY DEF Seated
<1>2. /\ me[p] = Nobody /\ ~Has(s) /\ \A u \in User : online[u] # p
      /\ \A k \in 1 .. Len(s) : s[k].method # "sendmsg"
  BY <1>1, AskerAlone
<1>3. /\ UNCHANGED <<connections, phase, me>> /\ p \in connections /\ s \in Seq(ServerFrame)
      /\ c2s'[p] \in Seq(ClientFrame)
  <2>1. c2s'[p] = Tail(c2s[p])
    BY DEF Dispatched, TypeOK, ConnectionTypeOK
  <2> QED
    BY <2>1, StreamType, TakenTail DEF Dispatched
<1>4. OneLogin(p)'
  <2>1. \A k \in 2 .. Len(w) : w[k].method \notin LoginMethods
    BY DEF Welcome, LoginMethods
  <2> QED
    BY <1>1, <2>1, AnswerOne
<1>5. /\ \A k \in 1 .. Len(w) : w[k].method # "sendmsg"
      /\ LetInAll(w)
      /\ \A rows : Brings(w, rows) => rows = w[1].rows
  <2>1. Len(w) \in Nat
    OBVIOUS
  <2>2. \A k \in 1 .. Len(w) : k = 1 \/ k \in 2 .. Len(w)
    BY <2>1
  <2>3. 1 \in 1 .. (Len(w) + 1) - 1
    BY <2>1 DEF Welcome
  <2> QED
    BY <2>2, <2>3 DEF Welcome, LetInAll, LetIn, Brings
<1> HIDE DEF s, t
<1>6. t = s \o w /\ t \in Seq(ServerFrame)
  <2>1. t = s \o w
    BY DEF s, t
  <2> QED
    BY <1>3, <2>1, ConcatProperties
<1>7. NoneEarly(t)
  <2>1. NoneEarly(s)
    BY <1>1, <1>2 DEF Alone, s
  <2> QED
    BY <1>3, <1>5, <1>6, <2>1, EarlyConcat
<1>8. LetInAll(t)
  BY <1>3, <1>5, <1>6, LetInConcat
<1>9. \A u : AllTo(t, u)
  <2>1. \A u : AllTo(s, u) /\ AllTo(w, u)
    BY <1>2, <1>5 DEF AllTo
  <2> QED
    BY <1>3, <1>6, <2>1, AllToConcat
<1>10. \A k \in 1 .. Len(t) : t[k].method # "sendmsg"
  <2>1. \A k \in 1 .. Len(s) : s[k].method # "sendmsg"
    BY <1>2 DEF s
  <2> QED
    BY <1>3, <1>5, <1>6, <2>1, NoneConcat
<1>11. \A u \in User : online'[u] = p => u = v
  BY <1>2
<1>12. Alone(p)' /\ Bound(p)' /\ Blank(p)' /\ Strange(p)'
  BY <1>1, <1>2, <1>3, <1>7, <1>8, <1>9, <1>11 DEF Alone, Bound, Blank, Strange, t
<1>13. Shown(p)'
  <2> SUFFICES ASSUME NEW u \in User, NEW x \in User, online'[u] = p, x # u,
                      NEW rows \in Seq(Message), Brings(t, rows)
               PROVE  Displays(rows, t, c2s'[p], messageinfo, faults', x, u)
    BY <1>2, <1>3, ClientAssumption DEF Shown, Held, Fits, t
  <2>1. rows = w[1].rows
    <3>1. ~Brings(s, rows)
      BY <1>2, <1>3, WithoutLogin
    <3> QED
      BY <1>3, <1>5, <1>6, <3>1, BringsConcat
  <2>2. u = v
    BY <1>11
  <2>3. messageinfo \in Seq(Message) /\ faults' \in Nat
    BY ChannelFrames DEF Rises
  <2>4. \/ From(rows, x, u) = From(messageinfo, x, u) /\ From(rows, u, x) = From(messageinfo, u, x)
        \/ rows = <<>> /\ faults' > 0
    BY <2>1, <2>2, <2>3, GetMessageAll DEF Welcome
  <2>5. t \in Seq(Frame) /\ c2s'[p] \in Seq(Frame)
    BY <1>3, <1>6, FramesWiden, Zenon
  <2> QED
    BY <1>10, <2>3, <2>4, <2>5, DisplaysFresh
<1> QED
  BY <1>3, <1>4, <1>12, <1>13 DEF Seated

\* It is not let in.
LEMMA RefusalSeated ==
  ASSUME TypeOK, NEW p \in Proc, Dispatched(p), Head(c2s[p]).method = "login",
         UNCHANGED <<messageinfo, view, online>>, NEW w \in Seq(ServerFrame),
         Stream(p)' = Stream(p) \o w, Refusal(w), phase[p] = "on", Seated(p)
  PROVE  Seated(p)'
<1> DEFINE s == Stream(p)
           t == Stream(p)'
<1>1. OneLogin(p) /\ Alone(p) /\ Bound(p) /\ Blank(p)
  BY DEF Seated
<1>2. me[p] = Nobody /\ \A u \in User : online[u] # p
  BY <1>1, AskerAlone
<1>3. UNCHANGED <<phase, me>> /\ s \in Seq(ServerFrame)
  BY StreamType DEF Dispatched
<1>4. /\ \A k \in 1 .. Len(w) : w[k].method # "sendmsg"
      /\ \A k \in 2 .. Len(w) : w[k].method \notin LoginMethods
  BY DEF Refusal
<1>5. OneLogin(p)'
  BY <1>1, <1>4, AnswerOne
<1>6. NoneEarly(t)
  <2>1. NoneEarly(s)
    BY <1>1, <1>2 DEF Alone
  <2> HIDE DEF s
  <2>2. NoneEarly(s \o w)
    BY <1>3, <1>4, <2>1, EarlyConcat
  <2> QED
    BY <2>2 DEF s
<1> QED
  BY <1>1, <1>2, <1>3, <1>5, <1>6 DEF Seated, Strange, Blank, Alone, Bound, Shown

LEMMA ServesLogin ==
  ASSUME TypeOK, NEW p \in Proc, Serves(p), Head(c2s[p]).method = "login",
         NEW q \in Proc, Seated(q)
  PROVE  Seated(q)'
<1> DEFINE f == Head(c2s[p])
<1>1. Serve(p, "login") /\ login(p, f)
  BY DEF Serves, Service, Serve
<1>2. Dispatched(p) /\ f \in ClientFrame /\ f.method = "login"
  BY <1>1, ServeDispatches
<1>3. f.id \in User /\ view' = view
  BY <1>2, ClientFrameFields DEF Serves, clientVars, info
<1>4. /\ messageinfo' = messageinfo /\ Rises
      /\ \A r \in Proc \ {p} : Stream(r)' = Stream(r)
      /\ \E w \in Seq(ServerFrame) :
           /\ Stream(p)' = Stream(p) \o w
           /\ \/ online' = online /\ Refusal(w)
              \/ online' = [online EXCEPT ![f.id] = p] /\ Welcome(w, f.id)
  BY <1>1, <1>2, LoginOutcome
<1> HIDE DEF f
<1>5. /\ UNCHANGED <<connections, phase, me, waiting>> /\ p \in connections
      /\ \A r \in Proc \ {p} : c2s'[r] = c2s[r]
  BY <1>2 DEF Dispatched, TypeOK, ConnectionTypeOK
<1>6. CASE q # p
  <2>1. Stream(q)' = Stream(q) /\ c2s'[q] = c2s[q]
    BY <1>4, <1>5, <1>6
  <2>2. \A u \in User : online'[u] = q => online[u] = q
    BY <1>3, <1>4, <1>6 DEF TypeOK, ServiceTypeOK
  <2>3. Still(q)
    BY <1>3, <1>5, <2>1, <2>2 DEF Still, TakenFrom, GivenTo
  <2>4. Carries(q)
    BY <1>4, <2>1, CalmCarries DEF CalmTaken, CalmGiven, TakenFrom
  <2> QED
    BY <2>3, <2>4, StillSeated
<1>7. CASE q = p /\ phase[p] # "on"
  BY <1>3, <1>5, <1>7 DEF Seated, Strange, Blank
<1>8. CASE q = p /\ phase[p] = "on"
  <2>1. PICK w \in Seq(ServerFrame) :
          /\ Stream(p)' = Stream(p) \o w
          /\ \/ online' = online /\ Refusal(w)
             \/ online' = [online EXCEPT ![f.id] = p] /\ Welcome(w, f.id)
    BY <1>4
  <2>2. CASE online' = online /\ Refusal(w)
    BY <1>2, <1>3, <1>4, <1>8, <2>1, <2>2, RefusalSeated DEF f
  <2>3. CASE online' = [online EXCEPT ![f.id] = p] /\ Welcome(w, f.id)
    BY <1>2, <1>3, <1>4, <1>8, <2>1, <2>3, WelcomeSeated DEF f
  <2> QED
    BY <2>1, <2>2, <2>3
<1> QED
  BY <1>6, <1>7, <1>8

LEMMA SeatedAlways == Spec => []SeatedInv
<1>1. Init => SeatedInv
  <2> SUFFICES ASSUME Init, NEW p \in Proc PROVE Seated(p)
    BY DEF SeatedInv
  <2>1. \A u \in User : online[u] # p
    BY ServiceAssumption DEF Init, ServiceInit
  <2> QED
    BY <2>1 DEF Init, ConnectionInit, ClientInit, Seated, Strange, Blank, Stream
<1>2. DisplayTyped /\ SeatedInv /\ [Next]_vars => SeatedInv'
  <2> SUFFICES ASSUME TypeOK, ViewTyped, SeatedInv, [Next]_vars, ~wild', NEW q \in Proc
               PROVE  Seated(q)'
    BY DEF SeatedInv, DisplayTyped
  <2>1. Seated(q)
    BY WildStays DEF SeatedInv
  <2>2. ASSUME NEW p \in Proc, Serves(p) PROVE Seated(q)'
    <3>1. CASE Head(c2s[p]).method = "login"
      BY <2>1, <2>2, <3>1, ServesLogin
    <3>2. CASE Head(c2s[p]).method = "sendmsg"
      BY <2>1, <2>2, <3>2, ServesStored
    <3>3. CASE Head(c2s[p]).method \notin {"login", "sendmsg"}
      <4>1. CalmServe(p)
        BY <2>2, <3>3, ServesCalm
      <4> QED
        BY <2>1, <4>1, CalmServeSeated
    <3> QED
      BY <3>1, <3>2, <3>3
  <2>3. ASSUME NEW p \in Proc, Session(p) PROVE Seated(q)'
    BY <2>1, <2>3, SessionSeated
  <2>4. ASSUME NEW p \in Proc, Killed(p) PROVE Seated(q)'
    BY <2>1, <2>4, KilledSeated
  <2>5. ASSUME NEW p \in Proc, Handles(p) PROVE Seated(q)'
    BY <2>1, <2>5, HandlesSeated
  <2>6. ASSUME NEW p \in Proc, Asks(p) PROVE Seated(q)'
    BY <2>1, <2>6, AsksSeated
  <2>7. CASE Stops \/ UNCHANGED vars
    BY <2>1, <2>7, StopsSeated
  <2>8. CASE Starts
    BY <2>1, <2>8, StartsSeated
  <2> QED
    BY <2>2, <2>3, <2>4, <2>5, <2>6, <2>7, <2>8 DEF Next
<1> QED
  BY <1>1, <1>2, DisplayAlwaysTyped, PTL DEF Spec

\* What a session in good order says of a user's window.
LEMMA WindowDisplays ==
  ASSUME DisplayTyped, SeatedInv, ~wild, NEW p \in Proc, NEW u \in User, NEW w \in User,
         phase[p] = "on", me[p] = u, online[u] = p, w # u
  PROVE  /\ view[p][w] \in Seq(Message)
         /\ Displays(view[p][w], Stream(p), c2s[p], messageinfo, faults, w, u)
<1>1. view[p][w] \in Seq(Message)
  BY DEF DisplayTyped, ViewTyped
<1>2. Shown(p)
  BY DEF SeatedInv, Seated
<1> QED
  BY <1>1, <1>2 DEF Shown, Held, Fits

\* What a user sees from another and what is on its way to him are what the
\* table holds, in its order: the list that comes with a login (handle_login)
\* and the messages relayed from then on neither overlap nor leave a gap.
THEOREM DisplayedIsStored == Spec => []ViewMatchesTable
<1>1. DisplayTyped /\ SeatedInv => ViewMatchesTable
  <2> SUFFICES ASSUME DisplayTyped, SeatedInv, NEW p \in Proc, NEW u \in User, NEW w \in User,
                      Live(p, u), w # u
               PROVE  From(view[p][w], w, u) \o From(Messages(Stream(p)), w, u) = From(messageinfo, w, u)
    BY DEF ViewMatchesTable
  <2>1. Displays(view[p][w], Stream(p), c2s[p], messageinfo, faults, w, u) /\ faults = 0
    BY WindowDisplays DEF Live
  <2> QED
    BY <2>1 DEF Displays, Ahead
<1> QED
  BY <1>1, DisplayAlwaysTyped, SeatedAlways, PTL

\* A message the sender sees in his own window is in the table, or on its way
\* to the server.
THEOREM SentMessagesAreStored == Spec => []SentIsStored
<1>1. DisplayTyped /\ SeatedInv => SentIsStored
  <2> SUFFICES ASSUME DisplayTyped, SeatedInv, NEW p \in Proc, NEW u \in User, NEW w \in User,
                      Live(p, u), w # u
               PROVE  Len(From(view[p][w], u, w))
                        <= Len(From(messageinfo, u, w)) + Len(From(Messages(c2s[p]), u, w))
    BY DEF SentIsStored
  <2>1. Displays(view[p][w], Stream(p), c2s[p], messageinfo, faults, w, u) /\ faults = 0
    BY WindowDisplays DEF Live
  <2>2. messageinfo \in Seq(Message) /\ c2s[p] \in Seq(Frame)
    BY ChannelFrames DEF DisplayTyped
  <2>3. Len(From(messageinfo, u, w)) \in Nat /\ Len(Ahead(c2s[p], u, w)) \in Nat
    BY <2>2, FromType, AheadType, LenProperties
  <2> QED
    BY <2>1, <2>3 DEF Displays, Ahead
<1> QED
  BY <1>1, DisplayAlwaysTyped, SeatedAlways, PTL

\* A message whose insert failed is relayed and shown all the same: what a
\* user sees is ahead of the table by one message at most for each Store call
\* that failed.
THEOREM GhostsComeFromFaults == Spec => []GhostsAreFaults
<1>1. DisplayTyped /\ SeatedInv => GhostsAreFaults
  <2> SUFFICES ASSUME DisplayTyped, SeatedInv, NEW p \in Proc, NEW u \in User, NEW w \in User,
                      phase[p] = "on", me[p] = u, online[u] = p, w # u, ~wild
               PROVE  Len(From(view[p][w], w, u)) + Len(From(Messages(Stream(p)), w, u))
                        <= Len(From(messageinfo, w, u)) + faults
    BY DEF GhostsAreFaults
  <2>1. Displays(view[p][w], Stream(p), c2s[p], messageinfo, faults, w, u)
    BY WindowDisplays
  <2> QED
    BY <2>1 DEF Displays, Ahead
<1> QED
  BY <1>1, DisplayAlwaysTyped, SeatedAlways, PTL

-----------------------------------------------------------------------------
(* VChat keeps what Conversation promises.                                 *)

\* The messages shown to the user who is logged in to the window of p, and the
\* messages kept: the state functions of the refinement.
Seen(p) ==
  [w \in User |-> IF Reader(p) \in {Nobody, w} THEN <<>> ELSE From(view[p][w], w, Reader(p))]

Kept == [u \in User |-> [w \in User |-> IF w = u THEN <<>> ELSE From(messageinfo, w, u)]]

Stays(p) == Reader(p)' = Reader(p) /\ Seen(p)' = Seen(p)

Leaves(p) == Reader(p)' = Nobody

LEMMA PromiseWindow ==
  ASSUME NEW p \in Proc
  PROVE  /\ Stays(p) => Promise!Stays(p)
         /\ Leaves(p) => Promise!IsLeft(p)
<1>1. Stays(p) => Promise!Stays(p)
  BY DEF Stays, Promise!Stays, Seen
<1>2. Leaves(p) => Promise!IsLeft(p)
  BY DEF Leaves, Promise!IsLeft, Promise!Nothing
<1> QED
  BY <1>1, <1>2

LEMMA PromiseType ==
  ASSUME TypeOK', ViewTyped'
  PROVE  /\ [p \in Proc |-> Reader(p)]' \in [Proc -> User \cup {Nobody}]
         /\ [p \in Proc |-> [w \in User |->
              IF Reader(p) \in {Nobody, w} THEN <<>> ELSE From(view[p][w], w, Reader(p))]]'
              \in [Proc -> [User -> Seq(Message)]]
<1>1. ASSUME NEW p \in Proc PROVE Reader(p)' \in User \cup {Nobody}
  BY DEF Reader, TypeOK, ClientTypeOK
<1>2. ASSUME NEW p \in Proc, NEW w \in User, NEW u
      PROVE  From(view'[p][w], w, u) \in Seq(Message)
  <2>1. view'[p][w] \in Seq(Message)
    BY DEF ViewTyped
  <2> QED
    BY <2>1, FromType
<1> QED
  BY <1>1, <1>2

\* A window that nobody comes to in a step, and that shows nothing new.
KeepsWindow(q) ==
  \A u \in User : Live(q, u)' =>
    Live(q, u) /\ \A w \in User \ {u} : From(view[q][w], w, u)' = From(view[q][w], w, u)

LEMMA WindowKept ==
  ASSUME TypeOK', NEW q \in Proc, KeepsWindow(q)
  PROVE  Stays(q) \/ Leaves(q)
<1>1. CASE Reader(q)' = Nobody
  BY <1>1 DEF Leaves
<1>2. CASE Reader(q)' # Nobody
  <2>1. me'[q] \in User /\ Reader(q)' = me'[q]
    BY <1>2 DEF Reader, TypeOK, ClientTypeOK
  <2>2. ASSUME NEW u \in User, u = me'[q] PROVE Stays(q)
    <3>1. Live(q, u)'
      BY <1>2, <2>2 DEF Reader, Live
    <3>2. Live(q, u) /\ \A w \in User \ {u} : From(view[q][w], w, u)' = From(view[q][w], w, u)
      BY <3>1 DEF KeepsWindow
    <3>3. Reader(q) = u /\ Reader(q)' = u
      BY <2>1, <2>2, <3>2, ClientAssumption DEF Reader, Live
    <3> QED
      BY <3>2, <3>3 DEF Stays, Seen
  <2> QED
    BY <2>1, <2>2
<1> QED
  BY <1>1, <1>2

LEMMA SessionKeeps ==
  ASSUME TypeOK, SeatedInv, NEW p \in Proc, Session(p), NEW q \in Proc
  PROVE  KeepsWindow(q)
<1> SUFFICES ASSUME NEW u \in User, Live(q, u)' PROVE Live(q, u) /\ view' = view
  BY DEF KeepsWindow
<1>1. UNCHANGED <<faults, online, me, view>> /\ ~StaleHandler(p)
  BY DEF Session, StaleHandler, tables, cache, clientVars, info, Live
<1>2. UNCHANGED <<up, wild>>
  BY <1>1 DEF Session, Accept, ConnectFails, WriteDone, ReadError, WriteError, NetStops, Reset, Leave, serverSide
<1>3. Strange(q)
  BY <1>2 DEF SeatedInv, Seated, Live
<1>4. phase[q] # "new"
  BY <1>1, <1>3, ClientAssumption DEF Live, Strange
<1>5. phase[q] = "on" /\ q \in connections
  BY <1>1, <1>4 DEF Session, Accept, ConnectFails, WriteDone, ReadError, WriteError, NetStops, Reset, Leave,
                    serverSide, Destroy, Live, TypeOK, ConnectionTypeOK
<1> QED
  BY <1>1, <1>2, <1>5 DEF Live

LEMMA HandlesKeeps ==
  ASSUME TypeOK, ViewTyped, NEW p \in Proc, Handles(p), NEW q \in Proc \ {p}
  PROVE  KeepsWindow(q)
<1>1. /\ UNCHANGED <<faults, online, up, connections, wild, phase>> /\ me'[q] = me[q]
  BY HandlesFacts
<1>2. view'[q] = view[q]
  BY HandlesView DEF ViewTyped
<1> QED
  BY <1>1, <1>2 DEF KeepsWindow, Live

Grows(rows, row, more) == more = Append(rows, row)

LEMMA FromMore ==
  ASSUME NEW rows \in Seq(Message), NEW row \in Message, NEW more, Grows(rows, row, more), NEW w, NEW u
  PROVE  From(more, w, u) = IF Is(row, w, u) THEN From(rows, w, u) \o <<row>> ELSE From(rows, w, u)
<1>1. Stores(rows, 0, row, more, 0)
  BY DEF Stores, Grows
<1>2. IF Is(row, w, u) /\ 0 = 0 THEN AddsRow(From(more, w, u), From(rows, w, u), row)
                                ELSE From(more, w, u) = From(rows, w, u)
  BY <1>1, StoresFrom
<1> QED
  BY <1>2 DEF AddsRow

\* What a user sends is not shown to him as from another.
LEMMA AsksKeeps ==
  ASSUME TypeOK, ViewTyped, NEW p \in Proc, Asks(p), NEW q \in Proc
  PROVE  KeepsWindow(q)
<1>1. UNCHANGED <<faults, online>>
  BY DEF Asks, tables, cache
<1>2. CASE UserAsks(p)
  <2>1. UNCHANGED <<up, connections, wild, phase, me>>
    BY <1>2, AsksLeaves, AsksFacts DEF serverSide
  <2> SUFFICES ASSUME NEW u \in User, Live(q, u), NEW w \in User \ {u}
               PROVE  From(view'[q][w], w, u) = From(view[q][w], w, u)
    BY <1>1, <2>1 DEF KeepsWindow, Live
  <2>2. ASSUME NEW v \in User, NEW text \in Text, Sendmsg(p, v, text)
        PROVE  From(view'[q][w], w, u) = From(view[q][w], w, u)
    <3> DEFINE row == [sender |-> me[p], receiver |-> v, message |-> text]
    <3>1. row \in Message /\ row.sender = me[p]
      BY <2>2, SendmsgRow
    <3>2. view' = [view EXCEPT ![p][v] = Append(@, row)] \/ view' = view
      BY <2>2 DEF Sendmsg
    <3> HIDE DEF row
    <3>3. view'[q][w] = view[q][w] \/ (q = p /\ view'[q][w] = Append(view[q][w], row))
      BY <3>2 DEF ViewTyped
    <3>4. view[q][w] \in Seq(Message)
      BY DEF ViewTyped
    <3>5. q = p => row.sender # w
      BY <3>1 DEF Live
    <3>6. ASSUME q = p PROVE From(Append(view[q][w], row), w, u) = From(view[q][w], w, u)
      <4> DEFINE rows == view[q][w]
                 more == Append(rows, row)
      <4> HIDE DEF rows, more
      <4>1. rows \in Seq(Message) /\ row \in Message
        BY <3>1, <3>4 DEF rows
      <4>2. Grows(rows, row, more)
        BY DEF more, Grows
      <4>3. From(more, w, u) = IF Is(row, w, u) THEN From(rows, w, u) \o <<row>> ELSE From(rows, w, u)
        BY <4>1, <4>2, FromMore
      <4>4. ~Is(row, w, u)
        BY <3>5, <3>6 DEF Is
      <4>5. From(more, w, u) = From(rows, w, u)
        BY <4>3, <4>4
      <4> QED
        BY <4>5 DEF rows, more
    <3> QED
      BY <3>3, <3>6
  <2> QED
    BY <1>2, <2>2, AsksView
<1>3. ASSUME NEW v \in User, OpenChat(p, v) PROVE KeepsWindow(q)
  <2>1. /\ UNCHANGED <<up, connections, wild, me, view>>
        /\ phase' = [phase EXCEPT ![p] = "gone"]
    BY <1>3 DEF OpenChat, Leave, serverSide, clientVars, info
  <2> QED
    BY <1>1, <2>1 DEF KeepsWindow, Live, TypeOK, ConnectionTypeOK
<1> QED
  BY <1>2, <1>3 DEF Asks

\* A login answered in this step is of a window that nobody was in.
LEMMA ServesKeeps ==
  ASSUME TypeOK, SeatedInv, NEW p \in Proc, Serves(p), faults' = 0 => faults = 0,
         wild => wild', NEW q \in Proc
  PROVE  KeepsWindow(q)
<1> SUFFICES ASSUME NEW u \in User, Live(q, u)' PROVE Live(q, u) /\ view' = view
  BY DEF KeepsWindow
<1>1. UNCHANGED <<connections, phase, me, view>> /\ up
  BY DEF Serves, Service, Serve, clientVars, info
<1>2. faults = 0 /\ ~wild /\ phase[q] = "on" /\ q \in connections /\ me[q] = u
  BY <1>1 DEF Live
<1>3. online[u] = q
  <2>1. CASE Head(c2s[p]).method = "login"
    <3> DEFINE f == Head(c2s[p])
    <3>1. Serve(p, "login") /\ login(p, f)
      BY <2>1 DEF Serves, Service, Serve
    <3>2. Dispatched(p) /\ f \in ClientFrame /\ f.method = "login"
      BY <3>1, ServeDispatches
    <3>3. q # p
      <4>1. ASSUME q = p PROVE FALSE
        <5>1. OneLogin(p) /\ Alone(p) /\ Bound(p)
          BY <1>2, <4>1 DEF SeatedInv, Seated
        <5>2. me[p] = Nobody
          BY <2>1, <3>2, <5>1, AskerAlone
        <5> QED
          BY <1>2, <4>1, <5>2, ClientAssumption
      <4> QED
        BY <4>1
    <3>4. f.id \in User /\ (online' = online \/ online' = [online EXCEPT ![f.id] = p])
      BY <3>1, <3>2, LoginOutcome, ClientFrameFields
    <3> QED
      BY <3>3, <3>4 DEF Live, TypeOK, ServiceTypeOK
  <2>2. CASE Head(c2s[p]).method # "login"
    <3>1. online' = online
      BY <2>2 DEF Serves, Service, Serve, signin, sendmsg, find, addfriend, accept_addfd, refuse_addfd, cache
    <3> QED
      BY <3>1 DEF Live
  <2> QED
    BY <2>1, <2>2
<1> QED
  BY <1>1, <1>2, <1>3 DEF Live

LEMMA EndsKeeps ==
  ASSUME TypeOK, NEW q \in Proc,
         Stops \/ Starts \/ (\E p \in Proc : Killed(p)) \/ UNCHANGED vars
  PROVE  KeepsWindow(q)
<1>1. ASSUME Stops \/ \E p \in Proc : Killed(p) PROVE up' = FALSE
  BY <1>1 DEF Stops, ServerStops, Killed, AcceptKilled
<1>2. CASE Stops \/ \E p \in Proc : Killed(p)
  BY <1>1, <1>2 DEF KeepsWindow, Live
<1>3. CASE Starts
  <2>1. \A u \in User : online'[u] # q
    BY <1>3, ServiceAssumption DEF Starts
  <2> QED
    BY <2>1 DEF KeepsWindow, Live
<1>4. CASE UNCHANGED vars
  BY <1>4 DEF KeepsWindow, Live, vars, netVars, tables, cache, clientVars, info
<1> QED
  BY <1>2, <1>3, <1>4

\* The two other things that happen to a window: a message is shown, or a user
\* comes.
ShowsNext(p) ==
  /\ Reader(p) # Nobody /\ Reader(p)' = Reader(p)
  /\ \E w \in User :
       LET next == Len(Seen(p)[w]) + 1
       IN  /\ next <= Len(Kept[Reader(p)][w])
           /\ Seen(p)' = [Seen(p) EXCEPT ![w] = Append(@, Kept[Reader(p)][w][next])]

Enters(p) ==
  /\ Reader(p) = Nobody
  /\ \E u \in User :
       /\ Reader(p)' = u
       /\ \A w \in User : Promise!IsPrefix(Seen(p)'[w], Kept[u][w])

LEMMA PromiseShows ==
  ASSUME NEW p \in Proc, ShowsNext(p)
  PROVE  Promise!Shows(p)
BY DEF ShowsNext, Promise!Shows, Seen, Kept

LEMMA PromiseEntered ==
  ASSUME NEW p \in Proc, Enters(p)
  PROVE  Promise!IsEntered(p)
BY DEF Enters, Promise!IsEntered, Seen, Kept

\* A step in which at most the window of p gets something to show.
LEMMA ReadKept ==
  ASSUME TypeOK', ViewTyped', Kept' = Kept, NEW p \in Proc,
         Stays(p) \/ Leaves(p) \/ ShowsNext(p) \/ Enters(p),
         \A q \in Proc \ {p} : Stays(q) \/ Leaves(q)
  PROVE  Promise!Next
<1>1. Promise!Stays(p) \/ Promise!IsLeft(p) \/ Promise!Shows(p) \/ Promise!IsEntered(p)
  BY PromiseWindow, PromiseShows, PromiseEntered
<1>2. \A q \in Proc \ {p} : Promise!Stays(q) \/ Promise!IsLeft(q)
  BY PromiseWindow
<1>3. Promise!Read
  BY <1>1, <1>2 DEF Promise!Read, Kept
<1> QED
  BY <1>3, PromiseType DEF Promise!Next

\* A step in which a message gets into the table.
LEMMA KeepKept ==
  ASSUME TypeOK', ViewTyped', NEW u \in User, NEW w \in User, NEW row \in Message,
         Kept' = [Kept EXCEPT ![u][w] = Append(@, row)],
         \A q \in Proc : Stays(q) \/ Leaves(q)
  PROVE  Promise!Next
<1>1. \A q \in Proc : Promise!Stays(q) \/ Promise!IsLeft(q)
  BY PromiseWindow
<1>2. \E v, x \in User, message \in Message : Kept' = [Kept EXCEPT ![v][x] = Append(@, message)]
  OBVIOUS
<1>3. Promise!Keep
  BY <1>1, <1>2 DEF Promise!Keep, Kept
<1> QED
  BY <1>3, PromiseType DEF Promise!Next

-----------------------------------------------------------------------------
(* The window whose net thread handles a frame.                            *)

LEMMA PrefixOf ==
  ASSUME NEW t, NEW s \in Seq(Message), NEW d \in Seq(Message), Continues(t, s, d)
  PROVE  Promise!IsPrefix(s, t)
<1>1. /\ s \o d \in Seq(Message) /\ Len(s \o d) = Len(s) + Len(d)
      /\ \A i \in 1 .. Len(s) + Len(d) : (s \o d)[i] = IF i <= Len(s) THEN s[i] ELSE d[i - Len(s)]
      /\ Len(s) \in Nat /\ Len(d) \in Nat
  BY ConcatProperties, LenProperties
<1> DEFINE c == s \o d
<1>2. t = c
  BY DEF Continues
<1>3. /\ c \in Seq(Message) /\ Len(c) = Len(s) + Len(d)
      /\ \A i \in 1 .. Len(s) : c[i] = s[i]
  BY <1>1
<1> HIDE DEF c
<1>4. Len(s) <= Len(c)
  BY <1>1, <1>3
<1>5. SubSeq(c, 1, Len(s)) = SubSeq(s, 1, Len(s))
  <2>1. \A i \in 1 .. Len(s) : s[i] \in Message
    BY ElementOfSeq
  <2>2. Len(s) \in Int /\ 1 \in Int
    BY <1>1
  <2>3. /\ SubSeq(s, 1, Len(s)) \in Seq(Message)
        /\ Len(SubSeq(s, 1, Len(s))) = IF 1 <= Len(s) THEN Len(s) - 1 + 1 ELSE 0
        /\ \A i \in 1 .. Len(s) - 1 + 1 : SubSeq(s, 1, Len(s))[i] = s[1 + i - 1]
    BY <2>1, <2>2, SubSeqProperties
  <2>4. /\ SubSeq(c, 1, Len(s)) \in Seq(Message)
        /\ Len(SubSeq(c, 1, Len(s))) = IF 1 <= Len(s) THEN Len(s) - 1 + 1 ELSE 0
        /\ \A i \in 1 .. Len(s) - 1 + 1 : SubSeq(c, 1, Len(s))[i] = c[1 + i - 1]
    BY <1>3, <2>1, <2>2, SubSeqProperties
  <2> DEFINE x == SubSeq(c, 1, Len(s))
             y == SubSeq(s, 1, Len(s))
  <2> HIDE DEF x, y
  <2>5. /\ x \in Seq(Message) /\ y \in Seq(Message) /\ Len(x) = Len(s) /\ Len(y) = Len(s)
        /\ \A i \in 1 .. Len(s) : x[i] = y[i]
    <3>1. \A i \in 1 .. Len(s) : i \in 1 .. Len(s) - 1 + 1 /\ 1 + i - 1 = i
      BY <1>1
    <3> QED
      BY <1>1, <1>3, <2>3, <2>4, <3>1 DEF x, y
  <2>6. x = y
    BY <2>5, SeqEqual
  <2> QED
    BY <2>6 DEF x, y
<1> QED
  BY <1>2, <1>4, <1>5 DEF Promise!IsPrefix

\* The message that follows those shown is the next one.
LEMMA NextOf ==
  ASSUME NEW t, NEW s \in Seq(Message), NEW row \in Message, NEW d \in Seq(Message),
         Continues(t, s \o <<row>>, d)
  PROVE  /\ Len(s) + 1 <= Len(t) /\ t[Len(s) + 1] = row
         /\ s \o <<row>> = Append(s, row)
<1> DEFINE e == <<row>>
           c == s \o e
<1>1. e \in Seq(Message) /\ Len(e) = 1 /\ e[1] = row
  OBVIOUS
<1>2. Append(s, row) = s \o e
  BY AppendIsConcat
<1> HIDE DEF e
<1>3. /\ c \in Seq(Message) /\ Len(c) = Len(s) + Len(e)
      /\ \A i \in 1 .. Len(s) + Len(e) : c[i] = IF i <= Len(s) THEN s[i] ELSE e[i - Len(s)]
      /\ Len(s) \in Nat
  BY <1>1, ConcatProperties, LenProperties
<1>4. Len(c) = Len(s) + 1 /\ c[Len(s) + 1] = row
  BY <1>1, <1>3
<1>5. t = c \o d /\ c \in Seq(Message)
  BY <1>3 DEF Continues, c, e
<1> HIDE DEF c
<1>6. /\ Len(c \o d) = Len(c) + Len(d) /\ Len(d) \in Nat
      /\ \A i \in 1 .. Len(c) + Len(d) : (c \o d)[i] = IF i <= Len(c) THEN c[i] ELSE d[i - Len(c)]
  BY <1>5, ConcatProperties, LenProperties
<1>7. Len(s) + 1 <= Len(c \o d) /\ (c \o d)[Len(s) + 1] = row
  BY <1>3, <1>4, <1>6
<1> QED
  BY <1>2, <1>5, <1>7 DEF e

\* What a window in good order shows after a step in which no message is stored.
LEMMA ShownAfter ==
  ASSUME TypeOK', ViewTyped', SeatedInv', NEW p \in Proc, NEW u \in User, Live(p, u)', NEW w \in User \ {u},
         UNCHANGED messageinfo
  PROVE  \E d \in Seq(Message) : Continues(From(messageinfo, w, u), From(view'[p][w], w, u), d)
<1>1. /\ phase'[p] = "on" /\ online'[u] = p /\ faults' = 0 /\ ~wild' /\ me'[p] = u
  BY DEF Live
<1>2. \A rows \in Seq(Message) : rows = view'[p][w] =>
        Displays(rows, Stream(p)', c2s'[p], messageinfo', faults', w, u)
  BY <1>1 DEF SeatedInv, Seated, Shown, Held, Fits
<1>3. view'[p][w] \in Seq(Message)
  BY DEF ViewTyped
<1>4. Displays(view'[p][w], Stream(p)', c2s'[p], messageinfo', faults', w, u)
  BY <1>2, <1>3
<1>5. From(view'[p][w], w, u) \o Ahead(Stream(p)', w, u) = From(messageinfo, w, u)
  BY <1>1, <1>4 DEF Displays
<1>6. Ahead(Stream(p)', w, u) \in Seq(Message)
  <2>1. s2c'[p] \in Seq(ServerFrame) /\ outq'[p] \in Seq(ServerFrame)
    BY DEF TypeOK, ConnectionTypeOK
  <2>2. Stream(p)' \in Seq(ServerFrame)
    BY <2>1, ConcatProperties DEF Stream
  <2>3. Stream(p)' \in Seq(Frame)
    BY <2>2, FramesWiden
  <2> QED
    BY <2>3, AheadType
<1> QED
  BY <1>5, <1>6 DEF Continues

\* A frame is handled: a user comes with the messages his login brought; or the
\* next message is shown; or nothing happens to what the window shows.
LEMMA HandlerKeeps ==
  ASSUME TypeOK, TypeOK', ViewTyped, ViewTyped', SeatedInv, SeatedInv', NEW p \in Proc, Handles(p)
  PROVE  Stays(p) \/ Leaves(p) \/ ShowsNext(p) \/ Enters(p)
<1> DEFINE f == Head(s2c[p])
<1>1. /\ UNCHANGED <<faults, online, up, connections, wild, phase, messageinfo>>
      /\ HandledAs(p, f) /\ f = Head(Stream(p))
  BY HandlesFacts, HandlerStream, HandlesView
<1>2. /\ f.method = "sendmsg" =>
           view' = [view EXCEPT ![p][Peer(f.row, me[p])] = Append(view[p][Peer(f.row, me[p])], f.row)]
      /\ f.method \notin {"login_suc", "sendmsg"} => view' = view
  BY HandlesView
<1>3. f \in ServerFrame
  BY HandlerStream, HeadOfStream
<1> HIDE DEF f
<1>4. CASE f.method \notin {"login_suc", "sendmsg"}
  <2>1. view' = view /\ me'[p] = me[p]
    BY <1>1, <1>2, <1>4 DEF HandledAs
  <2>2. KeepsWindow(p)
    BY <1>1, <2>1 DEF KeepsWindow, Live
  <2> QED
    BY <2>2, WindowKept
<1>5. CASE Reader(p)' = Nobody
  BY <1>5 DEF Leaves
<1>6. ASSUME NEW u \in User, Live(p, u)', f.method = "login_suc" PROVE Enters(p)
  <2>1. /\ phase[p] = "on" /\ online[u] = p /\ faults = 0 /\ ~wild /\ me'[p] = u
    BY <1>1, <1>6 DEF Live
  <2>2. me[p] = Nobody
    <3>1. OneLogin(p)
      BY <2>1 DEF SeatedInv, Seated
    <3> QED
      BY <1>1, <1>6, <3>1, HandlerOne DEF LoginMethods
  <2>3. Reader(p) = Nobody
    BY <2>2 DEF Reader
  <2>4. Reader(p)' = u
    BY <1>6, <2>1, ClientAssumption DEF Reader
  <2>5. ASSUME NEW w \in User PROVE Promise!IsPrefix(Seen(p)'[w], Kept[u][w])
    <3>1. CASE w = u
      <4>1. Seen(p)'[w] = <<>> /\ Kept[u][w] = <<>>
        BY <2>4, <3>1 DEF Seen, Kept
      <4>2. <<>> \in Seq(Message) /\ Continues(<<>>, <<>>, <<>>)
        BY ConcatEmptySeq DEF Continues
      <4> QED
        BY <4>1, <4>2, PrefixOf
    <3>2. CASE w # u
      <4>1. Seen(p)'[w] = From(view'[p][w], w, u) /\ Kept[u][w] = From(messageinfo, w, u)
        BY <2>4, <3>2, ClientAssumption DEF Seen, Kept
      <4>2. PICK d \in Seq(Message) : Continues(From(messageinfo, w, u), From(view'[p][w], w, u), d)
        BY <1>1, <1>6, <3>2, ShownAfter
      <4>3. From(view'[p][w], w, u) \in Seq(Message)
        <5>1. view'[p][w] \in Seq(Message)
          BY DEF ViewTyped
        <5> QED
          BY <5>1, FromType
      <4> QED
        BY <4>1, <4>2, <4>3, PrefixOf
    <3> QED
      BY <3>1, <3>2
  <2> QED
    BY <2>3, <2>4, <2>5 DEF Enters
<1>7. ASSUME NEW u \in User, Live(p, u)', f.method = "sendmsg"
      PROVE  Stays(p) \/ Leaves(p) \/ ShowsNext(p)
  <2> DEFINE row == f.row
             x == row.sender
  <2>1. /\ phase[p] = "on" /\ online[u] = p /\ faults = 0 /\ ~wild /\ me'[p] = u /\ me[p] = u
        /\ Live(p, u)
    BY <1>1, <1>7 DEF Live, HandledAs
  <2>2. row \in Message /\ x \in User /\ row.receiver = u
    <3>1. row \in Message /\ x \in User
      BY <1>3, <1>7, ServerFrameFields, RelayFrameFields DEF Message
    <3>2. AllTo(Stream(p), u)
      BY <2>1 DEF SeatedInv, Seated, Bound
    <3>3. row.receiver = u
      BY <1>1, <1>7, <3>2, HandlerStream, HeadOfStream
    <3> QED
      BY <3>1, <3>3
  <2> HIDE DEF row, x
  <2>3. view' = [view EXCEPT ![p][Peer(row, u)] = Append(view[p][Peer(row, u)], row)]
    BY <1>2, <1>7, <2>1 DEF row
  <2>4. Reader(p) = u /\ Reader(p)' = u
    BY <1>7, <2>1, ClientAssumption DEF Reader
  <2>5. CASE x = u
    <3>1. Peer(row, u) = u
      BY <2>2, <2>5 DEF Peer, x
    <3>2. \A w \in User \ {u} : view'[p][w] = view[p][w]
      BY <2>2, <2>3, <3>1 DEF ViewTyped
    <3>3. Seen(p)' = Seen(p)
      BY <2>4, <3>2 DEF Seen
    <3> QED
      BY <2>4, <3>3 DEF Stays
  <2>6. CASE x # u
    <3> DEFINE s == From(view[p][x], x, u)
               more == view'[p][x]
               t == From(messageinfo, x, u)
    <3>1. Peer(row, u) = x
      BY <2>6 DEF Peer, x
    <3>2. view[p][x] \in Seq(Message) /\ view[p] \in [User -> Seq(Message)]
      BY <2>2 DEF ViewTyped
    <3>3. /\ Grows(view[p][x], row, more)
          /\ \A w \in User \ {x} : view'[p][w] = view[p][w]
      BY <2>2, <2>3, <3>1 DEF ViewTyped, Grows
    <3> HIDE DEF more
    <3>4. From(more, x, u) = IF Is(row, x, u) THEN s \o <<row>> ELSE s
      BY <2>2, <3>2, <3>3, FromMore
    <3>5. Is(row, x, u)
      BY <2>2 DEF Is, x
    <3>6. s \in Seq(Message)
      BY <3>2, FromType
    <3>7. PICK d \in Seq(Message) : Continues(t, From(more, x, u), d)
      BY <1>1, <1>7, <2>2, <2>6, ShownAfter DEF more
    <3> HIDE DEF s, t
    <3>8. Len(s) + 1 <= Len(t) /\ t[Len(s) + 1] = row /\ From(more, x, u) = Append(s, row)
      BY <2>2, <3>4, <3>5, <3>6, <3>7, NextOf
    <3>9. Seen(p)[x] = s /\ Kept[u][x] = t
      BY <2>2, <2>4, <2>6, ClientAssumption DEF Seen, Kept, s, t
    <3>10. Seen(p)' = [Seen(p) EXCEPT ![x] = Append(s, row)]
      BY <2>2, <2>4, <2>6, <3>3, <3>8, ClientAssumption DEF Seen, more
    <3>11. ShowsNext(p)
      BY <2>2, <2>4, <3>8, <3>9, <3>10, ClientAssumption DEF ShowsNext
    <3> QED
      BY <3>11
  <2> QED
    BY <2>5, <2>6
<1>8. Reader(p)' # Nobody => \E u \in User : Live(p, u)'
  BY DEF Reader, TypeOK, ClientTypeOK
<1> QED
  BY <1>4, <1>5, <1>6, <1>7, <1>8

-----------------------------------------------------------------------------
(* Every step of the system is a step of the promise, or none.             *)

LEMMA KeptSame ==
  ASSUME UNCHANGED messageinfo
  PROVE  Kept' = Kept
BY DEF Kept

\* Storing a message of a user to himself keeps nothing for another.
LEMMA KeptStored ==
  ASSUME messageinfo \in Seq(Message), NEW row \in Message, Grows(messageinfo, row, messageinfo')
  PROVE  Kept' = IF row.sender = row.receiver THEN Kept
                 ELSE [Kept EXCEPT ![row.receiver][row.sender] = Append(@, row)]
<1>1. row.sender \in User /\ row.receiver \in User
  BY DEF Message
<1>2. ASSUME NEW w, NEW u
      PROVE  From(messageinfo', w, u) = IF Is(row, w, u) THEN Append(From(messageinfo, w, u), row)
                                                         ELSE From(messageinfo, w, u)
  <2> DEFINE s == From(messageinfo, w, u)
             more == messageinfo'
  <2> HIDE DEF more
  <2>1. Grows(messageinfo, row, more)
    BY DEF more
  <2>2. From(more, w, u) = IF Is(row, w, u) THEN s \o <<row>> ELSE s
    BY <2>1, FromMore
  <2>3. s \in Seq(Message)
    BY FromType
  <2> HIDE DEF s
  <2>4. s \o <<row>> = Append(s, row)
    BY <2>3, AppendIsConcat
  <2> QED
    BY <2>2, <2>4 DEF s, more
<1> DEFINE K == Kept
           L == Kept'
<1>3. ASSUME NEW u \in User, NEW w \in User
      PROVE  L[u][w] = IF w # u /\ Is(row, w, u) THEN Append(K[u][w], row) ELSE K[u][w]
  BY <1>2 DEF Kept
<1>4. /\ K = [u \in User |-> K[u]] /\ \A u \in User : K[u] = [w \in User |-> K[u][w]]
      /\ L = [u \in User |-> L[u]] /\ \A u \in User : L[u] = [w \in User |-> L[u][w]]
  BY DEF Kept
<1> HIDE DEF K, L
<1>5. CASE row.sender = row.receiver
  <2>1. \A u \in User : \A w \in User : L[u][w] = K[u][w]
    BY <1>3, <1>5 DEF Is
  <2>2. \A u \in User : L[u] = K[u]
    BY <1>4, <2>1
  <2>3. L = K
    BY <1>4, <2>2
  <2> QED
    BY <1>5, <2>3 DEF K, L
<1>6. CASE row.sender # row.receiver
  <2> DEFINE v == row.receiver
             x == row.sender
  <2>1. x \in User /\ v \in User /\ x # v
    BY <1>1, <1>6
  <2>2. \A u \in User : \A w \in User :
          L[u][w] = IF u = v /\ w = x THEN Append(K[u][w], row) ELSE K[u][w]
    BY <1>3, <1>6 DEF Is
  <2> HIDE DEF v, x
  <2>3. \A u \in User : L[u] = IF u = v THEN [K[u] EXCEPT ![x] = Append(@, row)] ELSE K[u]
    <3> SUFFICES ASSUME NEW u \in User
                 PROVE  L[u] = IF u = v THEN [K[u] EXCEPT ![x] = Append(@, row)] ELSE K[u]
      OBVIOUS
    <3>1. CASE u = v
      <4> DEFINE new == Append(K[u][x], row)
      <4>1. \A w \in User : L[u][w] = IF w = x THEN new ELSE K[u][w]
        BY <2>2, <3>1
      <4> HIDE DEF new
      <4>2. L[u] = [K[u] EXCEPT ![x] = new]
        BY <1>4, <2>1, <4>1
      <4> QED
        BY <3>1, <4>2 DEF new
    <3>2. CASE u # v
      BY <1>4, <2>2, <3>2
    <3> QED
      BY <3>1, <3>2
  <2> DEFINE new == [K[v] EXCEPT ![x] = Append(@, row)]
  <2>4. \A u \in User : L[u] = IF u = v THEN new ELSE K[u]
    BY <2>3
  <2> HIDE DEF new
  <2>5. L = [K EXCEPT ![v] = new]
    BY <1>4, <2>1, <2>4
  <2>6. L = [K EXCEPT ![v][x] = Append(@, row)]
    BY <2>5 DEF new
  <2> QED
    BY <1>6, <2>6 DEF K, L, v, x
<1> QED
  BY <1>5, <1>6

\* A request is served: none of them brings a user to a window at once.
LEMMA ServesPromise ==
  ASSUME TypeOK, TypeOK', ViewTyped', SeatedInv, wild => wild', NEW p \in Proc, Serves(p)
  PROVE  Promise!Next
<1> DEFINE f == Head(c2s[p])
<1>1. CASE f.method = "sendmsg"
  <2>1. Serve(p, "sendmsg") /\ sendmsg(p, f)
    BY <1>1 DEF Serves, Service, Serve
  <2>2. f.row \in Message
    <3>1. f \in ClientFrame /\ f.method = "sendmsg"
      BY <2>1, ServeDispatches
    <3> QED
      BY <3>1, ClientFrameFields, RelayFrameFields
  <2>3. /\ messageinfo \in Seq(Message) /\ faults \in Nat
        /\ Stores(messageinfo, faults, f.row, messageinfo', faults')
    BY <2>1 DEF sendmsg, Failing, insertMessage, Stores, TypeOK, StoreTypeOK
  <2>4. faults' = 0 => faults = 0
    BY <2>3 DEF Stores
  <2>5. \A q \in Proc : Stays(q) \/ Leaves(q)
    BY <2>4, ServesKeeps, WindowKept
  <2> DEFINE row == f.row
  <2> HIDE DEF f, row
  <2>6. CASE Grows(messageinfo, row, messageinfo')
    <3>1. row \in Message /\ row.sender \in User /\ row.receiver \in User
      BY <2>2 DEF row, Message
    <3>2. Kept' = IF row.sender = row.receiver THEN Kept
                  ELSE [Kept EXCEPT ![row.receiver][row.sender] = Append(@, row)]
      BY <2>3, <2>6, <3>1, KeptStored
    <3>3. CASE row.sender = row.receiver
      BY <2>5, <3>2, <3>3, ReadKept
    <3>4. CASE row.sender # row.receiver
      BY <2>5, <3>1, <3>2, <3>4, KeepKept
    <3> QED
      BY <3>3, <3>4
  <2>7. CASE messageinfo' = messageinfo
    BY <2>5, <2>7, KeptSame, ReadKept
  <2> QED
    BY <2>3, <2>6, <2>7 DEF Stores, Grows, row
<1>2. CASE f.method # "sendmsg"
  <2>1. UNCHANGED messageinfo /\ Rises
    <3>1. CASE f.method = "login"
      <4>1. Serve(p, "login") /\ login(p, f)
        BY <3>1 DEF Serves, Service, Serve
      <4> QED
        BY <4>1 DEF login, Failing, tables, Rises
    <3>2. CASE f.method # "login"
      BY <1>2, <3>2, ServesCalm DEF CalmServe
    <3> QED
      BY <3>1, <3>2
  <2>2. faults' = 0 => faults = 0
    BY <2>1 DEF Rises, TypeOK, StoreTypeOK
  <2>3. \A q \in Proc : Stays(q) \/ Leaves(q)
    BY <2>2, ServesKeeps, WindowKept
  <2> QED
    BY <2>1, <2>3, KeptSame, ReadKept
<1> QED
  BY <1>1, <1>2

LEMMA PromiseStarts ==
  ASSUME Init
  PROVE  Promise!Init
<1>1. messageinfo = <<>> /\ \A p \in Proc : Reader(p) = Nobody
  BY DEF Init, StoreInit, ClientInit, Reader
<1>2. \A w, u \in User : From(messageinfo, w, u) = <<>>
  BY <1>1, FromNone
<1> QED
  BY <1>1, <1>2 DEF Promise!Init, Promise!Nothing

LEMMA PromiseSteps ==
  ASSUME TypeOK, TypeOK', ViewTyped, ViewTyped', SeatedInv, SeatedInv', [Next]_vars
  PROVE  [Promise!Next]_(Promise!vars)
<1>1. wild => wild'
  BY WildStays
<1>2. ASSUME NEW p \in Proc, Serves(p) PROVE Promise!Next
  BY <1>1, <1>2, ServesPromise
<1>3. ASSUME NEW p \in Proc, Session(p) PROVE Promise!Next
  <2>1. UNCHANGED messageinfo
    BY <1>3 DEF Session, StaleHandler, tables
  <2>2. \A q \in Proc : Stays(q) \/ Leaves(q)
    BY <1>3, SessionKeeps, WindowKept
  <2> QED
    BY <2>1, <2>2, KeptSame, ReadKept
<1>4. ASSUME NEW p \in Proc, Handles(p) PROVE Promise!Next
  <2>1. UNCHANGED messageinfo
    BY <1>4, HandlesView
  <2>2. \A q \in Proc \ {p} : Stays(q) \/ Leaves(q)
    BY <1>4, HandlesKeeps, WindowKept
  <2>3. Stays(p) \/ Leaves(p) \/ ShowsNext(p) \/ Enters(p)
    BY <1>4, HandlerKeeps
  <2> QED
    BY <2>1, <2>2, <2>3, KeptSame, ReadKept
<1>5. ASSUME NEW p \in Proc, Asks(p) PROVE Promise!Next
  <2>1. UNCHANGED messageinfo
    BY <1>5 DEF Asks, tables
  <2>2. \A q \in Proc : Stays(q) \/ Leaves(q)
    BY <1>5, AsksKeeps, WindowKept
  <2> QED
    BY <2>1, <2>2, KeptSame, ReadKept
<1>6. CASE Stops \/ Starts \/ (\E p \in Proc : Killed(p)) \/ UNCHANGED vars
  <2>1. UNCHANGED messageinfo
    BY <1>6 DEF Stops, Starts, Killed, AcceptKilled, tables, vars
  <2>2. \A q \in Proc : Stays(q) \/ Leaves(q)
    BY <1>6, EndsKeeps, WindowKept
  <2>3. CASE Proc = {}
    BY <2>1, <2>3 DEF Promise!vars
  <2>4. ASSUME NEW p \in Proc PROVE Promise!Next
    BY <2>1, <2>2, <2>4, KeptSame, ReadKept
  <2> QED
    BY <2>3, <2>4
<1> QED
  BY <1>2, <1>3, <1>4, <1>5, <1>6 DEF Next

\* The whole system keeps the promise of Conversation: the table loses and
\* reorders nothing, through every stop and start of the server, and a window
\* shows its user what the table has from each other user, from the first
\* message on and one after the other, from his login (handle_login) on until
\* his session ends, or moves, or something goes wrong.
THEOREM ConversationsAreKept == Spec => KeepsConversations
<1>1. Init => Promise!Init
  BY PromiseStarts
<1>2. /\ DisplayTyped /\ DisplayTyped' /\ SeatedInv /\ SeatedInv' /\ [Next]_vars
      => [Promise!Next]_(Promise!vars)
  BY PromiseSteps DEF DisplayTyped
<1>3. Spec => Promise!Spec
  BY <1>1, <1>2, DisplayAlwaysTyped, SeatedAlways, PTL DEF Spec, Promise!Spec
<1> QED
  BY <1>3 DEF KeepsConversations
=============================================================================
