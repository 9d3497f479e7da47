----------------------------- MODULE Connection -----------------------------
(***************************************************************************)
(* The TCP sessions between the client processes (client/src/net.cpp) and  *)
(* the Connection objects of the server (server/src/net).                  *)
(*                                                                         *)
(* A client process opens one session in its life, so a process names its  *)
(* session and the Connection object the server makes for it.  The server  *)
(* runs its io_context on one thread: each handler is one step.            *)
(*                                                                         *)
(* ConnectionManager::connections holds the only shared_ptr to an object.  *)
(* The handlers of its asynchronous operations and the table Cache::online *)
(* hold plain pointers instead.  An object is destroyed in the first of    *)
(* its handlers that sees an error; its other operations are cancelled     *)
(* then, and their handlers run later with a pointer to the destroyed      *)
(* object.  What such a pointer reaches is the object whose storage the    *)
(* allocator has since given the same address, if there is one; otherwise  *)
(* the server process ends (bad_weak_ptr leaves run()) or nothing is seen. *)
(*                                                                         *)
(* A frame is read and written whole here; phase is the client's side:     *)
(*   "new"  the process has not connected,                                 *)
(*   "on"   connected, its net thread reads,                               *)
(*   "off"  the net thread has ended, the window is still open,            *)
(*   "gone" the process has ended.                                         *)
(***************************************************************************)
EXTENDS Integers, Sequences, FiniteSets

CONSTANTS Proc,          \* client processes
          Addr,          \* heap addresses of Connection objects
          NoAddr         \* no object made yet

ASSUME ConnectionAssumption == NoAddr \notin Addr /\ Addr # {}

VARIABLES up,            \* the server process runs
          connections,   \* the objects ConnectionManager holds
          addr,          \* where the object of each session is, or was
          outq,          \* frames whose async_write has not completed
          stale,         \* queued handlers of a destroyed object
          wild,          \* history: a destroyed object has been used
          phase,         \* the client's side, see above
          c2s, s2c       \* the two directions of the stream

serverSide == <<up, connections, addr, outq, stale, wild>>
netVars == <<up, connections, addr, outq, stale, wild, phase, c2s, s2c>>

ConnectionInit ==
  /\ up = TRUE
  /\ connections = {}
  /\ addr = [p \in Proc |-> NoAddr]
  /\ outq = [p \in Proc |-> <<>>]
  /\ stale = [p \in Proc |-> 0]
  /\ wild = FALSE
  /\ phase = [p \in Proc |-> "new"]
  /\ c2s = [p \in Proc |-> <<>>]
  /\ s2c = [p \in Proc |-> <<>>]

ConnectionTypeOK(Up, Down) ==
  /\ up \in BOOLEAN
  /\ connections \in SUBSET Proc
  /\ addr \in [Proc -> Addr \cup {NoAddr}]
  /\ outq \in [Proc -> Seq(Down)]
  /\ stale \in [Proc -> Nat]
  /\ wild \in BOOLEAN
  /\ phase \in [Proc -> {"new", "on", "off", "gone"}]
  /\ c2s \in [Proc -> Seq(Up)]
  /\ s2c \in [Proc -> Seq(Down)]

-----------------------------------------------------------------------------
\* The object a pointer made for session p reaches now.
Reached(p) ==
  IF p \in connections THEN {p}
                       ELSE {q \in connections : addr[q] = addr[p]}

\* Connection::write on an object that exists: the async_write is started at
\* once, whatever is still pending.
Write(p, frames) == outq' = [outq EXCEPT ![p] = @ \o frames]

\* Connection::write through a pointer made for session p.
WriteThrough(p, frame) ==
  \/ \E q \in Reached(p) :
       /\ Write(q, <<frame>>)
       /\ wild' = (wild \/ q # p)
       /\ UNCHANGED up
  \/ /\ Reached(p) = {}
     /\ wild' = TRUE
     /\ up' \in BOOLEAN
     /\ UNCHANGED outq

\* stop() and the erase of the only shared_ptr, in a handler of p: one of the
\* outstanding operations (the read and the pending writes) has just completed,
\* the others are cancelled.
Destroy(p) ==
  /\ connections' = connections \ {p}
  /\ outq' = [outq EXCEPT ![p] = <<>>]
  /\ c2s' = [c2s EXCEPT ![p] = <<>>]

-----------------------------------------------------------------------------
\* async_connect succeeds, and the server's accept handler adds a Connection,
\* in any storage no live object occupies.
Accept(p, a) ==
  /\ up
  /\ phase[p] = "new"
  /\ \A q \in connections : addr[q] # a
  /\ phase' = [phase EXCEPT ![p] = "on"]
  /\ addr' = [addr EXCEPT ![p] = a]
  /\ connections' = connections \cup {p}
  /\ UNCHANGED <<up, outq, stale, wild, c2s, s2c>>

\* async_connect fails: its handler does nothing, io.run() returns.
ConnectFails(p) ==
  /\ phase[p] = "new"
  /\ phase' = [phase EXCEPT ![p] = "off"]
  /\ UNCHANGED <<serverSide, c2s, s2c>>

\* The handler of the oldest async_write, without an error.  The frame is on
\* its way, or lost if the other end is no more.
WriteDone(p) ==
  /\ up
  /\ p \in connections
  /\ outq[p] # <<>>
  /\ outq' = [outq EXCEPT ![p] = Tail(@)]
  /\ s2c' = IF phase[p] = "on" THEN [s2c EXCEPT ![p] = Append(@, Head(outq[p]))] ELSE s2c
  /\ UNCHANGED <<up, connections, addr, stale, wild, phase, c2s>>

\* The read handler sees an error once the client's end is closed or reset;
\* what the client wrote before may be read first, or be lost.
ReadError(p) ==
  /\ up
  /\ p \in connections
  /\ phase[p] \in {"off", "gone"}
  /\ Destroy(p)
  /\ stale' = [stale EXCEPT ![p] = Len(outq[p])]
  /\ UNCHANGED <<up, addr, wild, phase, s2c>>

\* The handler of the oldest async_write sees the error first: the read is
\* cancelled, with the other writes.
WriteError(p) ==
  /\ up
  /\ p \in connections
  /\ phase[p] \in {"off", "gone"}
  /\ outq[p] # <<>>
  /\ Destroy(p)
  /\ stale' = [stale EXCEPT ![p] = 1 + (Len(outq[p]) - 1)]
  /\ UNCHANGED <<up, addr, wild, phase, s2c>>

\* A cancelled handler of a destroyed object: stop() and erase() on whatever
\* its pointer reaches now; readbody's starts another read of it instead.
StaleHandler(p) ==
  /\ up
  /\ stale[p] > 0
  /\ wild' = TRUE
  /\ \/ \E q \in Reached(p) :
          /\ Destroy(q)
          /\ stale' = [stale EXCEPT ![p] = @ - 1, ![q] = 1 + Len(outq[q])]
          /\ UNCHANGED up
     \/ /\ Reached(p) # {}
        /\ stale' = [stale EXCEPT ![p] = @ - 1]
        /\ UNCHANGED <<up, connections, outq, c2s>>
     \/ /\ Reached(p) = {}
        /\ stale' = [stale EXCEPT ![p] = @ - 1]
        /\ up' \in BOOLEAN
        /\ UNCHANGED <<connections, outq, c2s>>
  /\ UNCHANGED <<addr, phase, s2c>>

\* SIGINT, SIGTERM or SIGQUIT: acceptor closed, stop_all, io_context stopped;
\* or the process is killed.  Either way no handler runs any more.
ServerStops ==
  /\ up
  /\ up' = FALSE
  /\ UNCHANGED <<connections, addr, outq, stale, wild, phase, c2s, s2c>>

\* The server process starts again with an empty memory.
ServerStarts ==
  /\ ~up
  /\ up' = TRUE
  /\ connections' = {}
  /\ outq' = [p \in Proc |-> <<>>]
  /\ stale' = [p \in Proc |-> 0]
  /\ c2s' = [p \in Proc |-> <<>>]
  /\ UNCHANGED <<addr, wild, phase, s2c>>

-----------------------------------------------------------------------------
\* Net::readhead on the client sees the end of the stream, after all that was
\* written to it: the net thread ends, nothing tells the window.
NetStops(p) ==
  /\ phase[p] = "on"
  /\ ~up \/ p \notin connections
  /\ s2c[p] = <<>>
  /\ phase' = [phase EXCEPT ![p] = "off"]
  /\ UNCHANGED <<serverSide, c2s, s2c>>

\* The network breaks the session: what was on its way to the client is lost.
Reset(p) ==
  /\ phase[p] = "on"
  /\ phase' = [phase EXCEPT ![p] = "off"]
  /\ s2c' = [s2c EXCEPT ![p] = <<>>]
  /\ UNCHANGED <<serverSide, c2s>>

\* The client process ends.
Leave(p) ==
  /\ phase[p] \in {"on", "off"}
  /\ phase' = [phase EXCEPT ![p] = "gone"]
  /\ s2c' = [s2c EXCEPT ![p] = <<>>]
  /\ UNCHANGED <<serverSide, c2s>>

\* Net::write: a blocking write, refused unless the session is up.  (A session
\* the server has closed still takes what the client writes before it notices.)
ClientWrite(p, frame) ==
  c2s' = IF phase[p] = "on" /\ p \in connections
         THEN [c2s EXCEPT ![p] = Append(@, frame)]
         ELSE c2s
=============================================================================
