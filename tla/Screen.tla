------------------------------- MODULE Screen -------------------------------
(***************************************************************************)
(* The two threads of a client (client/src/ui/tui.cpp, data/info.cpp,      *)
(* net.cpp): the window's loop handles keys and events and draws, the net  *)
(* thread handles frames.  Both change Info under its mutex; the window    *)
(* reads it without, and by operator[] of a map it also makes, without the *)
(* mutex, the empty entries it does not find (no messages of a friend, a   *)
(* request that is no more).  At the end the window deletes the screen,    *)
(* stops the io_context and joins the net thread, in this order.           *)
(*                                                                         *)
(* Info is the number of changes made to it; an empty entry is none.  A    *)
(* change, and the making of an entry, reads Info and writes it back       *)
(* later, so that two at once may lose a change.  A read or an entry       *)
(* during a change may end the process, a read may show anything.          *)
(***************************************************************************)
EXTENDS Integers, Sequences, SequencesExt

CONSTANTS MaxFrames,     \* bound: frames the server sends
          MaxKeys,       \* bound: keys the user presses
          MaxEntries     \* bound: entries the window makes

ASSUME ScreenAssumption == {MaxFrames, MaxKeys, MaxEntries} \subseteq Nat

VARIABLES net,           \* what the net thread does
          win,           \* what the window's thread does
          mutex,         \* Info::mtx: who has it
          info,          \* changes in Info
          made,          \* changes made
          copy,          \* thread -> Info as read by what it writes back
          inserting,     \* the window makes an entry
          raced,         \* history: changes during which it did so
          shown,         \* Info as last drawn
          torn,          \* it was changed during that drawing
          queue,         \* the screen's tasks
          open,          \* the screen takes tasks
          late,          \* posts to the screen after it was deleted
          after,         \* frames handled to the end after io.stop
          crashed,       \* the process ended by undefined behaviour
          frames, keys,  \* so far
          entries

netVars == <<net, frames, after>>
infoVars == <<mutex, info, made, copy>>
entryVars == <<inserting, raced, entries>>
screenVars == <<queue, open, late>>
drawVars == <<shown, torn>>
vars == <<netVars, win, infoVars, entryVars, drawVars, screenVars, crashed, keys>>

\* The window's thread after the loop has ended, in order.
Ending == {"left", "deleted", "stopped", "joined"}

\* The window is in code that reads Info: handling an event, handling a key, or
\* drawing.
Looks == win \in {"handles", "answers", "draws"}

Init ==
  /\ net = "runs" /\ win = "waits"
  /\ mutex = "free" /\ info = 0 /\ made = 0
  /\ copy = [thread \in {"net", "window"} |-> 0]
  /\ inserting = FALSE /\ raced = 0 /\ entries = 0
  /\ shown = 0 /\ torn = FALSE
  /\ queue = <<>> /\ open = TRUE /\ late = 0 /\ after = 0
  /\ crashed = FALSE /\ frames = 0 /\ keys = 0

\* The mutex is held by the thread that is inside Info::change, which the window
\* is not while it makes an entry.
TypeOK ==
  /\ net \in {"runs", "locks", "changes", "posts", "ended"}
  /\ win \in {"waits", "handles", "answers", "locks", "changes", "handled", "draws"} \cup Ending
  /\ mutex \in {"free", "net", "window"}
  /\ (mutex = "free") = (net # "changes" /\ win # "changes")
  /\ info \in Nat /\ made \in Nat /\ copy \in [{"net", "window"} -> Nat]
  /\ inserting \in BOOLEAN /\ raced \in Nat
  /\ inserting => Looks
  /\ shown \in Nat /\ torn \in BOOLEAN
  /\ queue \in Seq({"event", "key", "exit"})
  /\ open \in BOOLEAN /\ crashed \in BOOLEAN
  /\ late \in Nat /\ after \in Nat
  /\ frames \in 0 .. MaxFrames /\ keys \in 0 .. MaxKeys /\ entries \in 0 .. MaxEntries

-----------------------------------------------------------------------------
(* Info::change                                                            *)

\* Variant of Lock: change() without a lock_guard.
LockFree(thread) ==
  /\ mutex' = thread
  /\ copy' = [copy EXCEPT ![thread] = info]
  /\ UNCHANGED <<info, made>>

Lock(thread) ==
  /\ mutex = "free"
  /\ mutex' = thread
  /\ copy' = [copy EXCEPT ![thread] = info]
  /\ UNCHANGED <<info, made>>

\* Variant of Unlock: the mutex is not released.
UnlockNever(thread) ==
  /\ info' = copy[thread] + 1
  /\ made' = made + 1
  /\ UNCHANGED <<mutex, copy>>

Unlock(thread) ==
  /\ mutex' = "free"
  /\ info' = copy[thread] + 1
  /\ made' = made + 1
  /\ UNCHANGED copy

-----------------------------------------------------------------------------
(* The screen                                                              *)

\* A screen that has been told to exit drops what is posted.
Post(task) ==
  /\ queue' = IF open THEN Append(queue, task) ELSE queue
  /\ UNCHANGED open

\* Tui::postevent, called by the net thread with whatever screen points at.
NetPost ==
  IF win \in Ending \ {"left"}
  THEN /\ late' = late + 1
       /\ crashed' \in BOOLEAN
       /\ UNCHANGED <<queue, open>>
  ELSE Post("event") /\ UNCHANGED <<late, crashed>>

-----------------------------------------------------------------------------
(* The net thread                                                          *)

Stopped == win \in {"stopped", "joined"}

\* Variant of NetReads: io.stop is not noticed.
NetReadsOn ==
  /\ net = "runs" /\ frames < MaxFrames
  /\ net' \in {"locks", "posts"}
  /\ frames' = frames + 1
  /\ UNCHANGED <<after, infoVars, entryVars, screenVars, crashed>>

\* A frame that changes Info, or one that does not.
NetReads ==
  /\ net = "runs" /\ frames < MaxFrames /\ ~Stopped
  /\ net' \in {"locks", "posts"}
  /\ frames' = frames + 1
  /\ UNCHANGED <<after, infoVars, entryVars, screenVars, crashed>>

NetLocks ==
  /\ net = "locks"
  /\ net' = "changes"
  /\ Lock("net")
  /\ raced' = IF inserting THEN raced + 1 ELSE raced
  /\ UNCHANGED <<frames, after, inserting, entries, screenVars, crashed>>

\* Variant of NetChanges: no event follows the change.
NetChangesQuietly ==
  /\ net = "changes"
  /\ net' = "runs"
  /\ Unlock("net")
  /\ UNCHANGED <<frames, after, entryVars, screenVars, crashed>>

NetChanges ==
  /\ net = "changes"
  /\ net' = "posts"
  /\ Unlock("net")
  /\ UNCHANGED <<frames, after, entryVars, screenVars, crashed>>

NetPosts ==
  /\ net = "posts"
  /\ net' = "runs"
  /\ NetPost
  /\ after' = IF Stopped THEN after + 1 ELSE after
  /\ UNCHANGED <<frames, infoVars, entryVars>>

\* run() returns, once stopped or with the session.
NetEnds ==
  /\ net = "runs"
  /\ net' = "ended"
  /\ UNCHANGED <<frames, after, infoVars, entryVars, screenVars, crashed>>

NetStep ==
  /\ ~crashed
  /\ \/ NetLocks \/ NetChanges \/ NetPosts
     \/ Stopped /\ NetEnds
  /\ UNCHANGED <<win, keys, shown>>
  /\ torn' = (torn \/ (net = "changes" /\ win = "draws"))

\* The server sends a frame, or the session ends.
NetEvent ==
  /\ ~crashed
  /\ NetReads \/ NetEnds
  /\ UNCHANGED <<win, keys, drawVars>>

-----------------------------------------------------------------------------
(* The window's thread                                                     *)

\* FTXUI's listener thread.
Press ==
  /\ ~crashed /\ open
  /\ keys < MaxKeys
  /\ keys' = keys + 1
  /\ Post("key")
  /\ UNCHANGED <<netVars, win, infoVars, entryVars, drawVars, late, crashed>>

Takes ==
  /\ win \in {"waits", "handled"} /\ queue # <<>>
  /\ queue' = Tail(queue)
  /\ IF Head(queue) = "exit" THEN open' = FALSE /\ win' = "handled"
     ELSE IF Head(queue) = "event" THEN open' = open /\ win' = "handles"
     ELSE open' = open /\ win' = "answers"
  /\ UNCHANGED <<infoVars, entryVars, drawVars>>

\* operator[] does not find an entry and makes one.
Inserts ==
  /\ Looks /\ ~inserting
  /\ entries < MaxEntries /\ entries' = entries + 1
  /\ inserting' = TRUE
  /\ copy' = [copy EXCEPT !["window"] = info]
  /\ raced' = IF net = "changes" THEN raced + 1 ELSE raced
  /\ UNCHANGED <<win, mutex, info, made, drawVars, queue, open>>

Inserted ==
  /\ inserting
  /\ inserting' = FALSE
  /\ info' = copy["window"]
  /\ UNCHANGED <<win, mutex, made, copy, raced, entries, drawVars, queue, open>>

\* Variant of Handles: an event is posted again when it has been handled.
HandlesAgain ==
  /\ win = "handles" /\ ~inserting
  /\ win' = "handled"
  /\ Post("event")
  /\ UNCHANGED <<infoVars, entryVars, drawVars>>

\* An event changes nothing (a new Chat looks up its messages).
Handles ==
  /\ win = "handles" /\ ~inserting
  /\ win' = "handled"
  /\ UNCHANGED <<infoVars, entryVars, drawVars, queue, open>>

\* A key changes nothing, asks to exit, or goes on to change Info, as sendmsg
\* and responseadd do (which looks up the request before).
Answers ==
  /\ win = "answers" /\ ~inserting
  /\ \/ win' = "handled" /\ UNCHANGED <<queue, open>>
     \/ win' = "handled" /\ ~Contains(queue, "exit") /\ Post("exit")
     \/ win' = "locks" /\ UNCHANGED <<queue, open>>
  /\ UNCHANGED <<infoVars, entryVars, drawVars>>

WinLocks ==
  /\ win = "locks"
  /\ win' = "changes"
  /\ Lock("window")
  /\ UNCHANGED <<entryVars, drawVars, queue, open>>

\* sendmsg, and responseadd, which posts an event as well.
WinChanges ==
  /\ win = "changes"
  /\ win' = "handled"
  /\ Unlock("window")
  /\ UNCHANGED <<queue, open>> \/ Post("event")
  /\ UNCHANGED <<entryVars, drawVars>>

Draws ==
  /\ win = "handled" /\ queue = <<>>
  /\ win' = "draws"
  /\ shown' = info
  /\ torn' = (net = "changes")
  /\ UNCHANGED <<infoVars, entryVars, queue, open>>

Drawn ==
  /\ win = "draws" /\ ~inserting
  /\ win' = IF open THEN "waits" ELSE "left"
  /\ UNCHANGED <<infoVars, entryVars, drawVars, queue, open>>

\* delete screen, function->end(), t.join()
DeleteScreen ==
  /\ win = "left"
  /\ win' = "deleted"
  /\ queue' = <<>>
  /\ UNCHANGED <<infoVars, entryVars, drawVars, open>>

\* Variant of EndFunction: the thread is joined first.
EndFunctionLast ==
  /\ win = "deleted" /\ net = "ended"
  /\ win' = "stopped"
  /\ UNCHANGED <<infoVars, entryVars, drawVars, queue, open>>

EndFunction ==
  /\ win = "deleted"
  /\ win' = "stopped"
  /\ UNCHANGED <<infoVars, entryVars, drawVars, queue, open>>

Join ==
  /\ win = "stopped" /\ net = "ended"
  /\ win' = "joined"
  /\ UNCHANGED <<infoVars, entryVars, drawVars, queue, open>>

WinStep ==
  /\ ~crashed
  /\ \/ Takes \/ Inserts \/ Inserted \/ Handles \/ Answers \/ WinLocks \/ WinChanges \/ Draws \/ Drawn
     \/ DeleteScreen \/ EndFunction \/ Join
  /\ UNCHANGED <<netVars, late, crashed, keys>>

\* A map or a vector that is changed by one thread and read by the other.
Race ==
  /\ ~crashed
  /\ net = "changes" /\ Looks
  /\ crashed' = TRUE
  /\ UNCHANGED <<netVars, win, infoVars, entryVars, drawVars, screenVars, keys>>

Next == NetStep \/ NetEvent \/ Press \/ WinStep \/ Race

Spec == Init /\ [][Next]_vars

\* Both threads go on as long as they can; nobody has to send or to press.
Fairness == WF_vars(NetStep) /\ WF_vars(WinStep)

FairSpec == Spec /\ Fairness

-----------------------------------------------------------------------------
\* Messages and friends come from both threads at once, and no change is lost
\* but those of the net thread during which the window made an entry: the mutex
\* keeps changes apart, and does not prevent entries (telescope.cpp and vchat.cpp
\* use operator[] of Info's maps outside change).
LostAreRaced == made <= info + raced

\* The event of a frame is posted after its change, so that when both threads
\* are idle the window shows all of Info, and no drawing that overlapped a
\* change, reading without the mutex, is the last one.
NothingStale ==
  net \in {"runs", "ended"} /\ win = "waits" /\ queue = <<>> => shown = info /\ ~torn

\* Once io.stop has been called, at most the frame that was being handled is
\* handled to its end.
OneAfterStop == after <= 1

\* Every change is drawn that is not lost to an entry, unless the loop or the
\* process ends first.  (The loop draws when its queue is empty, so this takes
\* that tasks stop coming at times.)
ChangeIsDrawn ==
  \A n \in 1 .. MaxFrames + MaxKeys :
    made >= n + raced ~> (shown >= n \/ made < n + raced \/ win \in Ending \/ crashed)

\* Leaving the loop ends the program: the net thread, whatever it is doing and
\* with a session that may stand for ever, is stopped and joined.
ExitEnds == win = "left" ~> (win = "joined" \/ crashed)
=============================================================================
