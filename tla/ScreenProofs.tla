---------------------------- MODULE ScreenProofs ----------------------------
(***************************************************************************)
(* Proofs about Screen, for any number of frames, keys and entries.        *)
(***************************************************************************)
EXTENDS Screen, TLAPS

\* Who holds the mutex is inside Info::change.
MutexInv ==
  /\ mutex \in {"free", "net", "window"}
  /\ mutex = "net" <=> net = "changes"
  /\ mutex = "window" <=> win = "changes"

\* What either thread is going to write back lacks only changes that have been
\* counted; one that is being made while the window makes an entry is counted
\* already.
ChangeInv ==
  /\ info \in Nat /\ made \in Nat /\ raced \in Nat
  /\ copy \in [{"net", "window"} -> Nat]
  /\ MutexInv
  /\ inserting => Looks
  /\ made <= info + raced
  /\ net = "changes" => made <= copy["net"] + raced
  /\ win = "changes" => made <= copy["window"] + raced
  /\ inserting => made <= copy["window"] + raced
  /\ inserting /\ net = "changes" => made + 1 <= copy["window"] + raced

\* Frames handled after io.stop: none before it, and one only if the net
\* thread was in the middle of it.
StopInv ==
  /\ after \in {0, 1}
  /\ ~Stopped => after = 0
  /\ Stopped /\ after = 1 => net \in {"runs", "ended"}

-----------------------------------------------------------------------------
\* Every step of either thread, and an early end of the process, keeps what
\* change() relies on.
LEMMA ChangeStep == ChangeInv /\ [Next]_vars => ChangeInv'
<1> SUFFICES ASSUME ChangeInv, [Next]_vars PROVE ChangeInv'
  OBVIOUS
<1> USE DEF ChangeInv, MutexInv, Looks
<1>1. CASE NetStep
  <2> USE DEF NetStep, infoVars, entryVars, screenVars
  <2>1. CASE NetLocks
    BY <1>1, <2>1 DEF NetLocks, Lock
  <2>2. CASE NetChanges
    <3>1. net = "changes" /\ net' = "posts" /\ mutex' = "free"
          /\ info' = copy["net"] + 1 /\ made' = made + 1
          /\ UNCHANGED <<win, copy, inserting, raced>>
      BY <1>1, <2>2 DEF NetChanges, Unlock
    <3> QED
      BY <3>1
  <2>3. CASE NetPosts
    BY <1>1, <2>3 DEF NetPosts
  <2>4. CASE NetEnds
    BY <1>1, <2>4 DEF NetEnds
  <2> QED
    BY <1>1, <2>1, <2>2, <2>3, <2>4
<1>2. CASE NetEvent
  BY <1>2 DEF NetEvent, NetReads, NetEnds, infoVars, entryVars
<1>3. CASE Press
  BY <1>3 DEF Press, infoVars, entryVars, netVars
<1>4. CASE WinStep
  <2> USE DEF WinStep, netVars, infoVars, entryVars
  <2>1. CASE Takes
    BY <1>4, <2>1 DEF Takes
  <2>2. CASE Inserts
    BY <1>4, <2>2 DEF Inserts
  <2>3. CASE Inserted
    BY <1>4, <2>3 DEF Inserted
  <2>4. CASE Handles \/ Answers
    BY <1>4, <2>4 DEF Handles, Answers
  <2>5. CASE WinLocks
    BY <1>4, <2>5 DEF WinLocks, Lock
  <2>6. CASE WinChanges
    BY <1>4, <2>6 DEF WinChanges, Unlock
  <2>7. CASE Draws \/ Drawn
    BY <1>4, <2>7 DEF Draws, Drawn
  <2>8. CASE DeleteScreen \/ EndFunction \/ Join
    BY <1>4, <2>8 DEF DeleteScreen, EndFunction, Join
  <2> QED
    BY <1>4, <2>1, <2>2, <2>3, <2>4, <2>5, <2>6, <2>7, <2>8
<1>5. CASE Race
  BY <1>5 DEF Race, infoVars, entryVars, netVars
<1>6. CASE UNCHANGED vars
  BY <1>6 DEF vars, infoVars, entryVars, netVars
<1> QED
  BY <1>1, <1>2, <1>3, <1>4, <1>5, <1>6 DEF Next

\* The changes that Info lacks are among those of the net thread during which the
\* window made an entry (operator[] without the mutex): two calls of
\* Info::change, with its lock_guard, never lose one, for any number of frames,
\* keys and entries.
THEOREM ChangesAreKept == Spec => []LostAreRaced
<1>1. Init => ChangeInv
  BY DEF Init, ChangeInv, MutexInv
<1>2. ChangeInv => LostAreRaced
  BY DEF ChangeInv, LostAreRaced
<1> QED
  BY <1>1, <1>2, ChangeStep, PTL DEF Spec

-----------------------------------------------------------------------------
\* Every step keeps what is known of the frames handled after io.stop.
LEMMA StopStep == StopInv /\ [Next]_vars => StopInv'
<1> SUFFICES ASSUME StopInv, [Next]_vars PROVE StopInv'
  OBVIOUS
<1> USE DEF StopInv, Stopped
<1>1. CASE NetStep
  BY <1>1 DEF NetStep, NetLocks, NetChanges, NetPosts, NetEnds
<1>2. CASE NetEvent
  BY <1>2 DEF NetEvent, NetReads, NetEnds, Stopped
<1>3. CASE Press
  BY <1>3 DEF Press, netVars
<1>4. CASE WinStep
  <2> USE DEF WinStep, netVars
  <2>1. CASE Takes \/ Inserts \/ Inserted \/ Handles \/ Answers \/ WinLocks
    BY <1>4, <2>1 DEF Takes, Inserts, Inserted, Handles, Answers, WinLocks
  <2>2. CASE WinChanges \/ Draws \/ Drawn \/ DeleteScreen
    BY <1>4, <2>2 DEF WinChanges, Draws, Drawn, DeleteScreen
  <2>3. CASE EndFunction \/ Join
    BY <1>4, <2>3 DEF EndFunction, Join
  <2> QED
    BY <1>4, <2>1, <2>2, <2>3
<1>5. CASE Race
  BY <1>5 DEF Race, netVars
<1>6. CASE UNCHANGED vars
  BY <1>6 DEF vars, netVars
<1> QED
  BY <1>1, <1>2, <1>3, <1>4, <1>5, <1>6 DEF Next

\* Once Function::end has stopped the io_context, the net thread ends the frame
\* it is handling, if any, and handles no other.
THEOREM StopIsSoon == Spec => []OneAfterStop
<1>1. Init => StopInv
  BY DEF Init, StopInv, Stopped
<1>2. StopInv => OneAfterStop
  BY DEF StopInv, OneAfterStop
<1> QED
  BY <1>1, <1>2, StopStep, PTL DEF Spec

-----------------------------------------------------------------------------
\* Every step keeps the types.
LEMMA TypeStep == ChangeInv /\ TypeOK /\ [Next]_vars => TypeOK'
<1> SUFFICES ASSUME ChangeInv, TypeOK, [Next]_vars PROVE TypeOK'
  OBVIOUS
<1> DEFINE Tasks == {"event", "key", "exit"}
<1>1. ASSUME NEW task \in Tasks PROVE Append(queue, task) \in Seq(Tasks)
  BY DEF TypeOK
<1>2. ASSUME queue # <<>> PROVE Tail(queue) \in Seq(Tasks)
  BY <1>2 DEF TypeOK
<1>3. <<>> \in Seq(Tasks)
  OBVIOUS
<1>4. /\ info \in Nat /\ made \in Nat /\ shown \in Nat
      /\ copy \in [{"net", "window"} -> Nat]
  BY DEF TypeOK
<1>5. copy["net"] + 1 \in Nat /\ copy["window"] + 1 \in Nat /\ made + 1 \in Nat
  BY <1>4
<1>6. CASE NetStep
  <2> USE DEF NetStep, infoVars, entryVars, screenVars, netVars, Looks
  <2>1. CASE NetLocks
    <3>1. copy' \in [{"net", "window"} -> Nat] /\ raced' \in Nat
      BY <1>4, <1>6, <2>1 DEF NetLocks, Lock, TypeOK
    <3> QED
      BY <1>4, <1>6, <2>1, <3>1 DEF NetLocks, Lock, TypeOK
  <2>2. CASE NetChanges
    BY <1>4, <1>5, <1>6, <2>2 DEF NetChanges, Unlock, TypeOK, ChangeInv, MutexInv
  <2>3. CASE NetPosts
    <3>1. queue' \in Seq(Tasks) /\ open' \in BOOLEAN /\ late' \in Nat /\ crashed' \in BOOLEAN
      <4>1. CASE win \in Ending \ {"left"}
        BY <2>3, <4>1 DEF NetPosts, NetPost, TypeOK
      <4>2. CASE win \notin Ending \ {"left"}
        <5>1. /\ queue' = IF open THEN Append(queue, "event") ELSE queue
              /\ open' = open /\ late' = late /\ crashed' = crashed
          BY <2>3, <4>2 DEF NetPosts, NetPost, Post
        <5> QED
          BY <1>1, <5>1 DEF TypeOK
      <4> QED
        BY <4>1, <4>2
    <3>2. after' \in Nat
      BY <2>3 DEF NetPosts, TypeOK
    <3> QED
      BY <1>6, <2>3, <3>1, <3>2 DEF NetPosts, TypeOK
  <2>4. CASE NetEnds
    BY <1>6, <2>4 DEF NetEnds, TypeOK
  <2> QED
    BY <1>6, <2>1, <2>2, <2>3, <2>4
<1>7. CASE NetEvent
  <2>1. frames' \in 0 .. MaxFrames
    BY <1>7, ScreenAssumption DEF NetEvent, NetReads, NetEnds, TypeOK
  <2> QED
    BY <1>7, <2>1 DEF NetEvent, NetReads, NetEnds, TypeOK, Looks, infoVars, entryVars, drawVars, screenVars
<1>8. CASE Press
  <2>1. keys' \in 0 .. MaxKeys
    BY <1>8, ScreenAssumption DEF Press, TypeOK
  <2> QED
    BY <1>1, <1>8, <2>1 DEF Press, Post, TypeOK, Looks, netVars, infoVars, entryVars, drawVars
<1>9. CASE WinStep
  <2> USE DEF WinStep, netVars, infoVars, entryVars, drawVars, Looks
  <2>1. CASE Takes
    BY <1>2, <1>9, <2>1 DEF Takes, TypeOK
  <2>2. CASE Inserts
    <3>1. copy' \in [{"net", "window"} -> Nat] /\ entries' \in 0 .. MaxEntries /\ raced' \in Nat
      BY <1>4, <2>2, ScreenAssumption DEF Inserts, TypeOK
    <3> QED
      BY <1>9, <2>2, <3>1 DEF Inserts, TypeOK
  <2>3. CASE Inserted
    BY <1>4, <1>9, <2>3 DEF Inserted, TypeOK
  <2>4. CASE Handles
    BY <1>9, <2>4 DEF Handles, TypeOK
  <2>5. CASE Answers
    BY <1>1, <1>9, <2>5 DEF Answers, Post, TypeOK
  <2>6. CASE WinLocks
    <3>1. copy' \in [{"net", "window"} -> Nat]
      BY <1>4, <2>6 DEF WinLocks, Lock
    <3> QED
      BY <1>4, <1>9, <2>6, <3>1 DEF WinLocks, Lock, TypeOK
  <2>7. CASE WinChanges
    <3>1. queue' \in Seq(Tasks) /\ open' \in BOOLEAN
      BY <1>1, <2>7 DEF WinChanges, Post, TypeOK
    <3>2. net # "changes" /\ mutex' = "free" /\ copy' = copy /\ info' \in Nat /\ made' \in Nat
      BY <1>5, <2>7 DEF WinChanges, Unlock, ChangeInv, MutexInv
    <3> QED
      BY <1>4, <1>9, <2>7, <3>1, <3>2 DEF WinChanges, TypeOK
  <2>8. CASE Draws
    BY <1>4, <1>9, <2>8 DEF Draws, TypeOK
  <2>9. CASE Drawn
    BY <1>9, <2>9 DEF Drawn, TypeOK, Ending
  <2>10. CASE DeleteScreen \/ EndFunction \/ Join
    BY <1>3, <1>9, <2>10 DEF DeleteScreen, EndFunction, Join, TypeOK, Ending
  <2> QED
    BY <1>9, <2>1, <2>2, <2>3, <2>4, <2>5, <2>6, <2>7, <2>8, <2>9, <2>10
<1>10. CASE Race
  BY <1>10 DEF Race, TypeOK, Looks, netVars, infoVars, entryVars, drawVars, screenVars
<1>11. CASE UNCHANGED vars
  BY <1>11 DEF vars, TypeOK, Looks, netVars, infoVars, entryVars, drawVars, screenVars
<1> QED
  BY <1>6, <1>7, <1>8, <1>9, <1>10, <1>11 DEF Next

\* Both threads and the screen stay in the states they have, and the mutex is
\* held by who is inside Info::change.
THEOREM ThreadsTyped == Spec => []TypeOK
<1>1. Init => ChangeInv /\ TypeOK
  <2> SUFFICES ASSUME Init PROVE ChangeInv /\ TypeOK
    OBVIOUS
  <2>1. ChangeInv
    BY DEF Init, ChangeInv, MutexInv
  <2>2. 0 \in 0 .. MaxFrames /\ 0 \in 0 .. MaxKeys /\ 0 \in 0 .. MaxEntries
    BY ScreenAssumption
  <2>3. <<>> \in Seq({"event", "key", "exit"})
    OBVIOUS
  <2>4. TypeOK
    BY <2>2, <2>3 DEF Init, TypeOK
  <2> QED
    BY <2>1, <2>4
<1> QED
  BY <1>1, ChangeStep, TypeStep, PTL DEF Spec

-----------------------------------------------------------------------------
\* What is not on the screen, or was changed while it was drawn, is still to be
\* followed by an event, or has one in the queue; so has what an entry that is
\* being made for a drawing takes back.  The loop waits only with a screen that
\* takes events.
DrawInv ==
  /\ win = "waits" => open
  /\ win \in {"waits", "draws"} /\ (shown # info \/ torn) =>
       net \in {"changes", "posts"} \/ queue # <<>> \/ ~open
  /\ win = "draws" /\ inserting /\ shown # copy["window"] =>
       net \in {"changes", "posts"} \/ queue # <<>> \/ ~open
  /\ inserting => Looks

\* Every step keeps the promise of another drawing.
LEMMA DrawStep == TypeOK /\ DrawInv /\ [Next]_vars => DrawInv'
<1> SUFFICES ASSUME TypeOK, DrawInv, [Next]_vars PROVE DrawInv'
  OBVIOUS
<1> USE DEF DrawInv, Looks
<1>1. ASSUME NEW task PROVE Append(queue, task) # <<>>
  BY DEF TypeOK
<1>2. CASE NetStep
  <2> USE DEF NetStep, infoVars, entryVars, screenVars
  <2>1. CASE NetLocks \/ NetChanges
    <3>1. copy'["window"] = copy["window"]
      BY <2>1 DEF NetLocks, NetChanges, Lock, Unlock, TypeOK
    <3> QED
      BY <1>2, <2>1, <3>1 DEF NetLocks, NetChanges
  <2>2. CASE NetPosts
    <3>1. win \in {"waits", "draws"} => win \notin Ending \ {"left"}
      BY DEF Ending
    <3>2. win \in {"waits", "draws"} => open' = open /\ (open => queue' # <<>>)
      BY <1>1, <2>2, <3>1 DEF NetPosts, NetPost, Post
    <3> QED
      BY <1>2, <2>2, <3>2 DEF NetPosts
  <2>3. CASE NetEnds
    BY <1>2, <2>3 DEF NetEnds
  <2> QED
    BY <1>2, <2>1, <2>2, <2>3
<1>3. CASE NetEvent
  BY <1>3 DEF NetEvent, NetReads, NetEnds, infoVars, entryVars, drawVars, screenVars
<1>4. CASE Press
  BY <1>1, <1>4 DEF Press, Post, netVars, infoVars, entryVars, drawVars
<1>5. CASE WinStep
  <2> USE DEF WinStep, netVars, infoVars, entryVars, drawVars
  <2>1. CASE Takes \/ Handles \/ Answers \/ WinLocks \/ WinChanges
    BY <1>5, <2>1 DEF Takes, Handles, Answers, WinLocks, WinChanges
  <2>5. CASE Inserts
    <3>1. copy'["window"] = info
      BY <2>5 DEF Inserts, TypeOK
    <3> QED
      BY <1>5, <2>5, <3>1 DEF Inserts
  <2>6. CASE Inserted
    BY <1>5, <2>6 DEF Inserted
  <2>2. CASE Draws
    BY <1>5, <2>2 DEF Draws
  <2>3. CASE Drawn
    BY <1>5, <2>3 DEF Drawn
  <2>4. CASE DeleteScreen \/ EndFunction \/ Join
    BY <1>5, <2>4 DEF DeleteScreen, EndFunction, Join
  <2> QED
    BY <1>5, <2>1, <2>2, <2>3, <2>4, <2>5, <2>6
<1>6. CASE Race
  BY <1>6 DEF Race, netVars, infoVars, entryVars, drawVars, screenVars
<1>7. CASE UNCHANGED vars
  BY <1>7 DEF vars, netVars, infoVars, entryVars, drawVars, screenVars
<1> QED
  BY <1>2, <1>3, <1>4, <1>5, <1>6, <1>7 DEF Next

\* A window that waits with nothing to handle, while the net thread has no frame
\* in hand, shows all of Info, drawn while nobody changed it: the net thread
\* posts its event after its change, and the loop draws after every event.
THEOREM IdleShowsAll == Spec => []NothingStale
<1>1. Init => DrawInv
  BY DEF Init, DrawInv
<1>2. DrawInv => NothingStale
  BY DEF DrawInv, NothingStale
<1> QED
  BY <1>1, <1>2, DrawStep, ThreadsTyped, PTL DEF Spec
=============================================================================
