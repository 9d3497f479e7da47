-------------------------- MODULE DashboardProofs --------------------------
(***************************************************************************)
(* The start window keeps the promise of Waiting, for any number of        *)
(* presses.                                                                *)
(***************************************************************************)
EXTENDS Dashboard, TLAPS

\* A dialog is open only where answers are handed to it.
DialogInv == dialog # "none" => page = "dashboard" /\ window # "vchat"

\* At most one request is out: nothing, a request, or the answer to it.
WireInv ==
  \/ asked = <<>> /\ answers = <<>>
  \/ /\ Waits \in Dialogs
     /\ \/ asked = <<Waits>> /\ answers = <<>>
        \/ asked = <<>> /\ \E answer \in AnswersTo(Waits) : answers = <<answer>>

IInv == TypeOK /\ DialogInv /\ WireInv

LEMMA WaitsType == TypeOK => Waits \in Dialogs \cup {"none"}
BY DEF TypeOK, Waits, Dialogs

\* A step that leaves the wire alone can only break WireInv by ending a wait.
LEMMA WireKept ==
  ASSUME WireInv, UNCHANGED <<asked, answers>>, Waits \in Dialogs => Waits' = Waits
  PROVE  WireInv'
BY DEF WireInv

\* A dialog that does not wait leaves nothing on the wire.
LEMMA WireEmpty ==
  ASSUME WireInv, Waits \notin Dialogs
  PROVE  asked = <<>> /\ answers = <<>>
BY DEF WireInv

LEMMA NoneIsNoDialog == "none" \notin Dialogs
BY DEF Dialogs

LEMMA InitInv == Init => IInv
BY DashboardAssumption DEF Init, IInv, TypeOK, DialogInv, WireInv, Waits, Dialogs, Tabs, Texts, AnswersTo

LEMMA TypeNext == TypeOK /\ [Next]_vars => TypeOK'
<1> SUFFICES ASSUME TypeOK, [Next]_vars PROVE TypeOK'
  OBVIOUS
<1> DEFINE Posted == UNION {AnswersTo(d) : d \in Dialogs}
<1>1. ASSUME Handles PROVE answers' \in Seq(Posted) /\ Head(answers) \in Posted
  BY <1>1 DEF Handles, TypeOK
<1>2. ASSUME NEW d \in Dialogs, ChooseDialog(d) PROVE TypeOK'
  BY <1>2 DEF ChooseDialog, AtMenu, TypeOK, wire
<1>3. ASSUME NEW d \in Dialogs, Press(d) PROVE TypeOK'
  BY <1>3, DashboardAssumption DEF Press, AtTab, TypeOK, Tabs
<1>4. ASSUME NEW d \in Dialogs, PressMalformed(d) PROVE TypeOK'
  BY <1>4, DashboardAssumption DEF PressMalformed, AtTab, TypeOK, Tabs, Texts, wire
<1>5. ASSUME NEW d \in Dialogs, Cancel(d) PROVE TypeOK'
  BY <1>5 DEF Cancel, AtTab, TypeOK, wire
<1>6. ASSUME NEW d \in Dialogs, Confirm(d) PROVE TypeOK'
  BY <1>6 DEF Confirm, AtTab, TypeOK, Tabs, wire
<1>7. ASSUME NEW text \in {"help", "about"}, ChoosePage(text) PROVE TypeOK'
  BY <1>7 DEF ChoosePage, AtMenu, TypeOK, wire
<1>8. CASE Return
  BY <1>8 DEF Return, TypeOK, wire
<1>9. CASE Quit
  BY <1>9 DEF Quit, TypeOK, wire
<1>10. CASE Enter
  <2>1. answers' \in Seq(Posted)
    BY <1>1, <1>10 DEF Enter
  <2> QED
    BY <2>1, <1>10 DEF Enter, Handles, TypeOK
<1>11. CASE ShowAnswer
  <2>1. answers' \in Seq(Posted) /\ Head(answers) \in Posted
    BY <1>1, <1>11 DEF ShowAnswer
  <2>2. status' \in [Dialogs -> Tabs] /\ errinfo' \in [Dialogs -> Texts]
    BY <1>11 DEF ShowAnswer, TypeOK, Tabs, Texts, TextOf
  <2>3. reason' \in [Dialogs -> {"none", "malformed"} \cup Posted]
    BY <2>1, <1>11 DEF ShowAnswer, TypeOK
  <2> QED
    BY <2>1, <2>2, <2>3, <1>11 DEF ShowAnswer, Handles, TypeOK
<1>12. CASE Connects
  BY <1>12 DEF Connects, TypeOK
<1>13. CASE Answer
  <2>1. Head(asked) \in Dialogs /\ asked' \in Seq(Dialogs)
    BY <1>13 DEF Answer, TypeOK
  <2>2. PICK answer \in AnswersTo(Head(asked)) : answers' = Append(answers, answer)
    BY <1>13 DEF Answer
  <2>3. answers' \in Seq(Posted)
    BY <2>1, <2>2 DEF TypeOK
  <2> QED
    BY <2>1, <2>3, <1>13 DEF Answer, TypeOK
<1>14. CASE SessionEnds
  BY <1>14 DEF SessionEnds, TypeOK
<1>15. CASE UNCHANGED vars
  BY <1>15 DEF vars, TypeOK
<1> QED
  BY <1>2, <1>3, <1>4, <1>5, <1>6, <1>7, <1>8, <1>9, <1>10, <1>11, <1>12, <1>13, <1>14, <1>15 DEF Next

\* Where an answer is handled, it is the one the open dialog waits for.
LEMMA HandledIsAwaited ==
  ASSUME IInv, Handles
  PROVE  /\ dialog \in Dialogs /\ Waits = dialog /\ window = "dashboard" /\ page = "dashboard"
         /\ Head(answers) \in AnswersTo(dialog)
         /\ asked = <<>> /\ answers' = <<>>
<1>1. Waits \in Dialogs /\ asked = <<>>
  BY DEF IInv, WireInv, Handles
<1>2. PICK answer \in AnswersTo(Waits) : answers = <<answer>>
  BY DEF IInv, WireInv, Handles
<1>3. dialog \in Dialogs /\ Waits = dialog
  BY <1>1, NoneIsNoDialog DEF Waits, IInv, TypeOK
<1>4. window = "dashboard" /\ page = "dashboard"
  BY <1>3, NoneIsNoDialog DEF IInv, TypeOK, DialogInv, Handles
<1> QED
  BY <1>1, <1>2, <1>3, <1>4 DEF Handles

LEMMA InvNext == IInv /\ [Next]_vars => IInv'
<1> SUFFICES ASSUME IInv, [Next]_vars PROVE IInv'
  OBVIOUS
<1>1. TypeOK'
  BY TypeNext DEF IInv
<1>2. DialogInv'
  <2>1. CASE ShowAnswer
    BY <2>1 DEF IInv, DialogInv, ShowAnswer, Handles
  <2>2. CASE Enter
    BY <2>2 DEF Enter, DialogInv
  <2>3. CASE \E d \in Dialogs : ChooseDialog(d) \/ Press(d) \/ PressMalformed(d) \/ Cancel(d) \/ Confirm(d)
    BY <2>3 DEF IInv, DialogInv, ChooseDialog, Press, PressMalformed, Cancel, Confirm, AtMenu, AtTab
  <2>4. CASE (\E text \in {"help", "about"} : ChoosePage(text)) \/ Return \/ Quit
    BY <2>4 DEF IInv, DialogInv, ChoosePage, AtMenu, Return, Quit
  <2>5. CASE Connects \/ Answer \/ SessionEnds \/ UNCHANGED vars
    BY <2>5 DEF IInv, DialogInv, Connects, Answer, SessionEnds, vars
  <2> QED
    BY <2>1, <2>2, <2>3, <2>4, <2>5 DEF Next
<1>3. WireInv'
  <2> USE NoneIsNoDialog
  <2>1. ASSUME NEW d \in Dialogs, ChooseDialog(d) \/ PressMalformed(d) \/ Cancel(d) \/ Confirm(d)
        PROVE  WireInv'
    <3>1. Waits = "none" /\ UNCHANGED <<asked, answers>>
      BY <2>1 DEF ChooseDialog, PressMalformed, Cancel, Confirm, AtMenu, AtTab, Waits, wire
    <3> QED
      BY <3>1, WireKept DEF IInv
  <2>2. ASSUME NEW d \in Dialogs, Press(d) PROVE WireInv'
    <3>1. Waits = "none" /\ dialog = d
      BY <2>2 DEF Press, AtTab, Waits
    <3>2. asked = <<>> /\ answers = <<>>
      BY <3>1, WireEmpty DEF IInv
    <3>3. Waits' = d
      BY <2>2, <3>1 DEF Press, Waits, IInv, TypeOK
    <3>4. asked' \in {<<>>, <<d>>} /\ answers' = <<>>
      BY <2>2, <3>2 DEF Press
    <3> QED
      BY <3>3, <3>4 DEF WireInv
  <2>3. CASE (\E text \in {"help", "about"} : ChoosePage(text)) \/ Return \/ Quit \/ Connects \/ UNCHANGED vars
    <3>1. UNCHANGED <<dialog, status, asked, answers>>
      BY <2>3 DEF ChoosePage, Return, Quit, Connects, vars, wire
    <3> QED
      BY <3>1, WireKept DEF Waits, IInv
  <2>4. CASE Enter \/ ShowAnswer
    BY <2>4, HandledIsAwaited DEF Enter, ShowAnswer, Handles, WireInv
  <2>5. CASE Answer
    <3>1. UNCHANGED <<dialog, status>>
      BY <2>5 DEF Answer
    <3>2. Waits \in Dialogs /\ asked = <<Waits>> /\ answers = <<>> /\ Waits' = Waits
      BY <2>5, <3>1 DEF IInv, WireInv, Answer, Waits
    <3>3. PICK answer \in AnswersTo(Waits) : answers' = Append(answers, answer)
      BY <2>5, <3>2 DEF Answer
    <3>4. asked' = <<>> /\ answers' = <<answer>>
      BY <2>5, <3>2, <3>3 DEF Answer
    <3> QED
      BY <3>2, <3>4 DEF WireInv
  <2>6. CASE SessionEnds
    <3>1. asked' = <<>> /\ answers' = answers /\ Waits' = Waits
      BY <2>6 DEF SessionEnds, Waits
    <3> QED
      BY <3>1 DEF IInv, WireInv
  <2> QED
    BY <2>1, <2>2, <2>3, <2>4, <2>5, <2>6 DEF Next
<1> QED
  BY <1>1, <1>2, <1>3 DEF IInv

LEMMA InvAlways == Spec => []IInv
BY InitInv, InvNext, PTL DEF Spec

\* Every variable of the start window has its type; the tab and the text that
\* Sign's constructor leaves to chance are some tab and some text.
THEOREM StartWindowTyped == Spec => []TypeOK
<1>1. IInv => TypeOK
  BY DEF IInv
<1> QED
  BY <1>1, InvAlways, PTL

\* In the start window no answer comes too late or to the wrong dialog: what is
\* on its way is one request of the open dialog, or its answer.
THEOREM OneAnswerAtATime == Spec => []AnswersAwaited
<1>1. IInv => AnswersAwaited
  BY NoneIsNoDialog DEF IInv, WireInv, AnswersAwaited
<1> QED
  BY <1>1, InvAlways, PTL

-----------------------------------------------------------------------------
LEMMA InitMaps == Init => W!Init
BY DEF Init, W!Init, Waits

\* Opening a dialog asks for nothing unless it opens in its ING tab, as the
\* sign dialog may.
LEMMA OpeningMaps ==
  ASSUME IInv, NEW d \in Dialogs, ChooseDialog(d)
  PROVE  W!Next \/ UNCHANGED W!vars
<1>1. Waits = "none" /\ Waits' \in {"none", d} /\ window = "dashboard" /\ UNCHANGED <<window, asked, answers>>
  BY NoneIsNoDialog DEF ChooseDialog, AtMenu, Waits, wire
<1>2. CASE Waits' = "none"
  BY <1>1, <1>2 DEF W!vars
<1>3. CASE Waits' = d
  BY <1>1, <1>3 DEF W!Next, W!Ask, Dialogs
<1> QED
  BY <1>1, <1>2, <1>3

LEMMA PressMaps ==
  ASSUME IInv, NEW d \in Dialogs, Press(d)
  PROVE  W!Next
<1>1. Waits = "none" /\ Waits' = d /\ window = "dashboard" /\ UNCHANGED <<window, answers>>
  BY NoneIsNoDialog DEF Press, AtTab, Waits, IInv, TypeOK
<1>2. asked' \in {asked, Append(asked, d)}
  BY DEF Press
<1> QED
  BY <1>1, <1>2 DEF W!Next, W!Ask, Dialogs

LEMMA TakeMaps ==
  ASSUME IInv, Enter \/ ShowAnswer
  PROVE  W!Take
<1>1. Handles
  BY DEF Enter, ShowAnswer
<1>2. /\ dialog \in Dialogs /\ Waits = dialog /\ window = "dashboard" /\ page = "dashboard"
      /\ Head(answers) \in AnswersTo(dialog)
      /\ asked = <<>> /\ answers' = <<>>
  BY <1>1, HandledIsAwaited
<1>3. Waits' = "none" /\ (window' = "vchat") = (Head(answers) = "login_suc")
  <2>1. CASE Enter
    BY <2>1 DEF Enter, Waits
  <2>2. CASE ShowAnswer
    <3>1. Shows(dialog, Head(answers))
      BY <1>2, <2>2 DEF Shows, ShowAnswer
    <3>2. status'[dialog] = "END" /\ dialog' = dialog /\ window' = window
      BY <1>2, <2>2, <3>1 DEF ShowAnswer
    <3> QED
      BY <1>2, <2>2, <3>2 DEF Waits, ShowAnswer
  <2> QED
    BY <2>1, <2>2
<1> QED
  BY <1>1, <1>2, <1>3 DEF W!Take, W!AnswersTo, AnswersTo, Handles

LEMMA StepMaps == IInv /\ [Next]_vars => [W!Next]_(W!vars)
<1> SUFFICES ASSUME IInv, [Next]_vars PROVE W!Next \/ UNCHANGED W!vars
  OBVIOUS
<1> USE NoneIsNoDialog
<1>1. ASSUME NEW d \in Dialogs, PressMalformed(d) \/ Cancel(d) \/ Confirm(d)
      PROVE  UNCHANGED W!vars
  <2>1. Waits = "none" /\ UNCHANGED <<window, asked, answers>>
    BY <1>1 DEF PressMalformed, Cancel, Confirm, AtTab, Waits, wire
  <2>2. Waits' = "none"
    BY <1>1 DEF PressMalformed, Cancel, Confirm, AtTab, Waits, IInv, TypeOK
  <2> QED
    BY <2>1, <2>2 DEF W!vars
<1>2. CASE (\E text \in {"help", "about"} : ChoosePage(text)) \/ Return \/ Quit \/ Connects \/ UNCHANGED vars
  <2>1. UNCHANGED <<dialog, status, asked, answers, window = "vchat">>
    BY <1>2 DEF ChoosePage, AtMenu, Return, Quit, Connects, vars, wire
  <2> QED
    BY <2>1 DEF W!vars, Waits
<1>3. CASE Answer
  <2>1. UNCHANGED <<Waits, window>>
    BY <1>3 DEF Answer, Waits
  <2> QED
    BY <1>3, <2>1 DEF Answer, W!Next, W!Answer, W!AnswersTo, AnswersTo
<1>4. CASE SessionEnds
  <2>1. UNCHANGED <<Waits, window>>
    BY <1>4 DEF SessionEnds, Waits
  <2> QED
    BY <1>4, <2>1 DEF SessionEnds, W!Next, W!Lose
<1>5. CASE Enter \/ ShowAnswer
  BY <1>5, TakeMaps DEF W!Next
<1> QED
  BY <1>1, <1>2, <1>3, <1>4, <1>5, OpeningMaps, PressMaps DEF Next

\* The start window implements Waiting: one request waits at a time, until its
\* own answer is there.
THEOREM DashboardImplementsWaiting == Spec => OneRequestWaits
BY InitMaps, InvAlways, StepMaps, PTL DEF Spec, OneRequestWaits, W!Spec
=============================================================================
