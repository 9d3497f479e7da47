------------------------------ MODULE Framing ------------------------------
(***************************************************************************)
(* One session below the frames that Connection and Client exchange whole: *)
(* the bytes of client/src/net.cpp and server/src/net/connection.cpp.      *)
(*                                                                         *)
(* A frame is a head of fixed width (three digits of method, five of size) *)
(* and a body.  Here it is a sequence of units, the first of which is its  *)
(* head; sizes are counted in units of the body, and BodySize of them fit  *)
(* the buffers of BODY_SIZE bytes both ends read and write through.        *)
(*                                                                         *)
(* The client writes from the thread of its window alone, and blocks.  The *)
(* server starts an async_write for each frame and does not wait for the   *)
(* previous one: where the socket takes only part of a frame, the rest     *)
(* queues up again behind what has been started since.                     *)
(***************************************************************************)
EXTENDS Integers, FiniteSets, SequencesExt

CONSTANTS BodySize,      \* BODY_SIZE
          MaxSize,       \* bound: the size of a frame the user may try to send
          Indent,        \* what an entry of a list is longer than the frame it
                         \* came in: it is nested deeper there, and indented
          MaxSent,       \* bound: frames of the client
          MaxRelayed,    \* bound: messages and requests written to this one
          MaxSaved       \* bound: the list others make longer without a frame

ASSUME FramingAssumption ==
  /\ {BodySize, MaxSize, MaxSent, MaxRelayed, MaxSaved} \subseteq Nat \ {0}
  /\ Indent \in Nat

VARIABLES open,          \* the session stands
          sending,       \* units the window's thread has still to write
          c2s, s2c,      \* units on their way
          pending,       \* async_writes not completed: the units left of each
          heads,         \* end -> the head it has read and whose body it awaits
          got,           \* end -> the frames it has read, as sequences of units
          sent, written, \* history: the frames of the client and of the server
          saved,         \* the size of what the database holds of this user:
                         \* account, friends, and the text of each message
          overlapped,    \* history: a write went on after another was started
          torn,          \* history: a head was read that is none (stoi throws)
          overrun        \* history: a buffer was written beyond its end

vars == <<open, sending, c2s, s2c, pending, heads, got, sent, written, saved, overlapped, torn, overrun>>
reading == <<heads, got, torn>>

Kinds == {"login", "sendmsg", "login_suc", "login_pwerr", "addfd"}
Frame == [kind : Kinds, number : Nat, size : Nat]
Unit == [frame : Frame, part : Nat]
NoHead == [part |-> 0]

\* packer::enpack
Units(frame) == [k \in 1 .. frame.size + 1 |-> [frame |-> frame, part |-> k - 1]]

\* What came in a frame of this size, as an entry of a list.
Listed(size) == size + Indent

\* The account came in a frame once.
Init ==
  /\ open = TRUE
  /\ sending = <<>> /\ c2s = <<>> /\ s2c = <<>> /\ pending = <<>>
  /\ heads = [end \in {"server", "client"} |-> NoHead]
  /\ got = [end \in {"server", "client"} |-> <<>>]
  /\ sent = <<>> /\ written = <<>>
  /\ saved \in {Listed(size) : size \in 1 .. BodySize}
  /\ overlapped = FALSE /\ torn = FALSE /\ overrun = FALSE

-----------------------------------------------------------------------------
(* The client's writes.                                                    *)

\* Variant of NetWrite: the message is not measured.
NetWriteAnySize(kind, size) ==
  /\ open /\ sending = <<>> /\ Len(sent) < MaxSent
  /\ LET frame == [kind |-> kind, number |-> Len(sent) + 1, size |-> size]
     IN  sent' = Append(sent, frame) /\ sending' = Units(frame)
  /\ UNCHANGED <<open, c2s, s2c, pending, reading, written, saved, overlapped, overrun>>

\* A message that does not fit is refused.
NetWrite(kind, size) ==
  /\ open /\ sending = <<>> /\ Len(sent) < MaxSent
  /\ size <= BodySize
  /\ LET frame == [kind |-> kind, number |-> Len(sent) + 1, size |-> size]
     IN  sent' = Append(sent, frame) /\ sending' = Units(frame)
  /\ UNCHANGED <<open, c2s, s2c, pending, reading, written, saved, overlapped, overrun>>

\* The socket takes n units of it.
ClientSends(n) ==
  /\ open /\ n <= Len(sending)
  /\ c2s' = c2s \o SubSeq(sending, 1, n)
  /\ sending' = SubSeq(sending, n + 1, Len(sending))
  /\ UNCHANGED <<open, s2c, pending, reading, sent, written, saved, overlapped, overrun>>

-----------------------------------------------------------------------------
(* Reading, at either end.                                                 *)

\* Variant of ReadHead: what is no number is taken for one (std::atoi).
ReadHeadAny(end, stream) ==
  /\ ~torn /\ heads[end] = NoHead /\ stream # <<>>
  /\ heads' = [heads EXCEPT ![end] = Head(stream)]
  /\ overrun' = (overrun \/ Head(stream).frame.size > BodySize)
  /\ UNCHANGED <<torn, got>>

\* A head: three and five digits, or std::stoi throws.
ReadHead(end, stream) ==
  /\ ~torn /\ heads[end] = NoHead /\ stream # <<>>
  /\ IF Head(stream).part = 0
     THEN /\ heads' = [heads EXCEPT ![end] = Head(stream)]
          /\ overrun' = (overrun \/ Head(stream).frame.size > BodySize)
          /\ UNCHANGED torn
     ELSE torn' = TRUE /\ UNCHANGED <<heads, overrun>>
  /\ UNCHANGED got

\* Variant of Body: what has come is enough once the session has ended.
BodyAtEnd(end, stream) ==
  LET size == heads[end].frame.size
  IN  IF heads[end] = NoHead THEN {}
      ELSE IF Len(stream) >= size THEN {SubSeq(stream, 1, size)}
      ELSE IF open THEN {} ELSE {stream}

\* The body the head announced, when all of it has come.
Body(end, stream) ==
  IF heads[end] # NoHead /\ Len(stream) >= heads[end].frame.size
  THEN {SubSeq(stream, 1, heads[end].frame.size)} ELSE {}

ReadBody(end, body) ==
  /\ ~torn
  /\ got' = [got EXCEPT ![end] = Append(@, <<heads[end]>> \o body)]
  /\ heads' = [heads EXCEPT ![end] = NoHead]
  /\ UNCHANGED torn

Rest(stream, body) == SubSeq(stream, Len(body) + 1, Len(stream))

-----------------------------------------------------------------------------
(* The server's writes.                                                    *)

IsRest(units) == units[1].part # 0

\* Where new writes go: behind the others, or before what is left of a write
\* that has not asked the socket again yet.
Started(units) ==
  {pending \o units}
    \cup IF pending # <<>> /\ IsRest(Last(pending))
         THEN {Append(Front(pending) \o units, Last(pending))} ELSE {}

\* Connection::write, for each of these kinds and sizes; a frame longer than
\* the buffer is copied into it all the same.
Write(kinds, sizes) ==
  LET frames == [k \in DOMAIN kinds |->
                   [kind |-> kinds[k], number |-> Len(written) + k, size |-> sizes[k]]]
  IN  /\ written' = written \o frames
      /\ pending' \in Started([k \in DOMAIN frames |-> Units(frames[k])])
      /\ overlapped' = (overlapped \/ \E k \in DOMAIN pending : IsRest(pending[k]))
      /\ overrun' = (overrun \/ \E k \in DOMAIN sizes : sizes[k] > BodySize)

\* The frame of a login holds all that is saved.
LoginSize == saved

LoggedIn == \E k \in DOMAIN written : written[k].kind = "login_suc"

\* What other clients (or this one) have sent to this one.
Relayed == Cardinality({k \in DOMAIN written : written[k].kind \in {"sendmsg", "addfd"}})

\* A message is inserted with all its text, or the insert fails.
Save(size) == saved' \in {saved, saved + Listed(size)}

\* Service::serve of a whole frame of this size.  A login is answered with the
\* list and the requests that wait, or gets its own text back.
ServeLogin(size) ==
  /\ \/ \E n \in 0 .. MaxRelayed, request \in 1 .. BodySize :
          /\ Relayed + n <= MaxRelayed
          /\ Write(<<"login_suc">> \o [k \in 1 .. n |-> "addfd"],
                   <<LoginSize>> \o [k \in 1 .. n |-> request])
     \/ Write(<<"login_pwerr">>, <<size>>)
  /\ UNCHANGED saved

\* A message to oneself comes back.
ServeSendmsg(size) ==
  /\ Save(size)
  /\ \/ UNCHANGED <<pending, written, overlapped, overrun>>
     \/ LoggedIn /\ Relayed < MaxRelayed /\ Write(<<"sendmsg">>, <<size>>)

ServerReadsHead ==
  /\ ReadHead("server", c2s)
  /\ c2s' = Tail(c2s)
  /\ UNCHANGED <<open, sending, s2c, pending, sent, written, saved, overlapped>>

ServerReadsBody ==
  \E body \in Body("server", c2s) :
    /\ ReadBody("server", body)
    /\ c2s' = Rest(c2s, body)
    /\ \/ heads["server"].frame.kind = "login" /\ ServeLogin(heads["server"].frame.size)
       \/ heads["server"].frame.kind = "sendmsg" /\ ServeSendmsg(heads["server"].frame.size)
    /\ UNCHANGED <<open, sending, s2c, sent>>

\* A message another client sent is relayed to this one: written again from
\* what was read, it has the size it came with.
Relay(size) ==
  /\ open /\ LoggedIn
  /\ size <= BodySize
  /\ Relayed < MaxRelayed
  /\ Save(size)
  /\ Write(<<"sendmsg">>, <<size>>)
  /\ UNCHANGED <<open, sending, c2s, s2c, reading, sent>>

\* A message or a friend that came in another session is inserted for this user
\* while he is not logged in, and nothing is written.
Saves(size) ==
  /\ open /\ ~LoggedIn
  /\ saved + Listed(size) <= MaxSaved
  /\ saved' = saved + Listed(size)
  /\ UNCHANGED <<open, sending, c2s, s2c, pending, reading, sent, written, overlapped, overrun>>

\* Variant of Requeued: what is left is not written (async_write_some).
NotRequeued(units) == Tail(pending)

\* What is left of a write asks the socket again, behind the others.
Requeued(units) == IF units = <<>> THEN Tail(pending) ELSE Append(Tail(pending), units)

\* The socket takes n units of the write that is first in line.
ServerSends(n) ==
  /\ open /\ pending # <<>> /\ n <= Len(Head(pending))
  /\ s2c' = s2c \o SubSeq(Head(pending), 1, n)
  /\ pending' = Requeued(SubSeq(Head(pending), n + 1, Len(Head(pending))))
  /\ overlapped' = (overlapped \/ (n < Len(Head(pending)) /\ Len(pending) > 1))
  /\ UNCHANGED <<open, sending, c2s, reading, sent, written, saved, overrun>>

ClientReadsHead ==
  /\ ReadHead("client", s2c)
  /\ s2c' = Tail(s2c)
  /\ UNCHANGED <<open, sending, c2s, pending, sent, written, saved, overlapped>>

ClientReadsBody ==
  \E body \in Body("client", s2c) :
    /\ ReadBody("client", body)
    /\ s2c' = Rest(s2c, body)
    /\ UNCHANGED <<open, sending, c2s, pending, sent, written, saved, overlapped, overrun>>

\* Either end closes, or the network fails: nothing is sent any more, what is
\* on its way may still be read.
Ends ==
  /\ open
  /\ open' = FALSE
  /\ sending' = <<>> /\ pending' = <<>>
  /\ UNCHANGED <<c2s, s2c, reading, sent, written, saved, overlapped, overrun>>

\* Once a buffer is overrun anything may follow, and nothing is said of it.
Next ==
  /\ ~overrun
  /\ \/ \E kind \in {"login", "sendmsg"}, size \in 1 .. MaxSize : NetWrite(kind, size)
     \/ \E n \in 1 .. BodySize + 1 : ClientSends(n)
     \/ \E size \in 1 .. BodySize : Relay(size) \/ Saves(size)
     \/ \E n \in 1 .. BodySize + 1 : ServerSends(n)
     \/ ServerReadsHead \/ ServerReadsBody \/ ClientReadsHead \/ ClientReadsBody
     \/ Ends

Spec == Init /\ [][Next]_vars

-----------------------------------------------------------------------------
\* Heads are taken from heads alone, and no write that is completed asks the
\* socket again.
TypeOK ==
  /\ {open, overlapped, torn, overrun} \subseteq BOOLEAN
  /\ saved \in Nat
  /\ sent \in Seq(Frame) /\ written \in Seq(Frame)
  /\ sending \in Seq(Unit) /\ c2s \in Seq(Unit) /\ s2c \in Seq(Unit)
  /\ pending \in Seq(Seq(Unit) \ {<<>>})
  /\ heads \in [{"server", "client"} -> {unit \in Unit : unit.part = 0} \cup {NoHead}]
  /\ got \in [{"server", "client"} -> Seq(Seq(Unit))]

\* The frames read so far are the first of these frames, whole and in order.
Intact(frames, from) ==
  /\ Len(frames) <= Len(from)
  /\ \A k \in DOMAIN frames : frames[k] = Units(from[k])

\* What the server serves is what the client wrote, whole and in order, and
\* never part of a frame whose session ended.
ServedIntact == Intact(got["server"], sent)

\* The client reads what the server wrote, whole and in order, and no head
\* that is none, as long as the socket never took part of a frame while
\* another was being written.  (Connection takes frames as whole on this
\* ground; the server does nothing to ensure it.)
ReadIntact == ~overlapped => ~torn /\ Intact(got["client"], written)

\* No buffer of either end is overrun as long as account, friends and messages of
\* the user, with all their text, fit one: nothing a client sends is longer than
\* the buffers, nothing that is relayed or given back, only the list of a login.
OverrunNeedsHistory == overrun => saved > BodySize
=============================================================================
