----------------------------- MODULE Dashboard -----------------------------
(***************************************************************************)
(* The client's start window (client/src/ui/dashboard.cpp) and what Tui    *)
(* does with it: a menu, two pages of text, and the login and the sign     *)
(* dialog.  A dialog shows one of three tabs: INPUT asks for the account,  *)
(* ING says to wait, END shows a text chosen by errinfo and a button.      *)
(*                                                                         *)
(* The net thread posts one event for each answer of the server; the loop  *)
(* of the screen hands an event to Tui, then to the page and the dialog    *)
(* that are active, and to no other: an answer that finds its dialog       *)
(* closed is lost.  What is typed is well-formed or not; what the server   *)
(* answers is any answer to the request.                                   *)
(*                                                                         *)
(* Sign's constructor sets neither status nor errinfo: the first is some   *)
(* tab (a tab index is taken modulo their number), the second anything.    *)
(***************************************************************************)
EXTENDS Integers, Sequences

CONSTANT MaxPressed      \* bound: presses of the two dialogs' first button

ASSUME DashboardAssumption == MaxPressed \in Nat

VARIABLES window,        \* "dashboard", "vchat" once logged in, "closed"
          page,          \* "dashboard", "help" or "about"
          dialog,        \* "none", "login" or "signin"
          status,        \* dialog -> its tab
          errinfo,       \* dialog -> the text of its END tab
          session,       \* "new" before async_connect has ended, "on", "off"
          asked,         \* requests the server has not answered
          answers,       \* posted events the screen has not handled
          reason,        \* history: dialog -> why it shows its END tab
          pressed        \* see MaxPressed

vars == <<window, page, dialog, status, errinfo, session, asked, answers, reason, pressed>>
wire == <<session, asked, answers>>

Dialogs == {"login", "signin"}
Tabs == {"INPUT", "ING", "END"}
Texts == 0 .. 4                \* four texts, or none

\* Malformed input is no answer, but ends up in the same tab.
AnswersTo(request) ==
  IF request = "login" THEN {"login_suc", "login_noid", "login_pwerr"}
                       ELSE {"signin_suc", "signin_idexist"}

\* Each dialog shows one of its tabs, and is posted no event but answers that
\* belong to a dialog.
TypeOK ==
  /\ window \in {"dashboard", "vchat", "closed"}
  /\ page \in {"dashboard", "help", "about"}
  /\ dialog \in Dialogs \cup {"none"}
  /\ status \in [Dialogs -> Tabs]
  /\ errinfo \in [Dialogs -> Texts]
  /\ session \in {"new", "on", "off"}
  /\ asked \in Seq(Dialogs)
  /\ answers \in Seq(UNION {AnswersTo(d) : d \in Dialogs})
  /\ reason \in [Dialogs -> {"none", "malformed"} \cup UNION {AnswersTo(d) : d \in Dialogs}]
  /\ pressed \in 0 .. MaxPressed

Init ==
  /\ window = "dashboard" /\ page = "dashboard" /\ dialog = "none"
  /\ status \in {s \in [Dialogs -> Tabs] : s["login"] = "INPUT"}
  /\ errinfo \in [Dialogs -> Texts]
  /\ session = "new"
  /\ asked = <<>> /\ answers = <<>>
  /\ reason = [d \in Dialogs |-> "none"]
  /\ pressed = 0

-----------------------------------------------------------------------------
\* Events of the keyboard reach the page and the dialog that are open.
AtMenu == window = "dashboard" /\ page = "dashboard" /\ dialog = "none"

AtTab(d, tab) == window = "dashboard" /\ page = "dashboard" /\ dialog = d /\ status[d] = tab

ChooseDialog(d) ==
  /\ AtMenu
  /\ dialog' = d
  /\ UNCHANGED <<window, page, status, errinfo, wire, reason, pressed>>

ChoosePage(text) ==
  /\ AtMenu
  /\ page' = text
  /\ UNCHANGED <<window, dialog, status, errinfo, wire, reason, pressed>>

\* "Return", on the two pages of text.
Return ==
  /\ window = "dashboard" /\ page # "dashboard"
  /\ page' = "dashboard"
  /\ UNCHANGED <<window, dialog, status, errinfo, wire, reason, pressed>>

\* screen->Exit(), from the menu or by the screen itself on Ctrl-C.  (The chat
\* window that follows is not this module's.)
Quit ==
  /\ window = "dashboard"
  /\ window' = "closed"
  /\ UNCHANGED <<page, dialog, status, errinfo, wire, reason, pressed>>

\* Variant of Press: the dialog goes on asking for the account.
PressStays(d) ==
  /\ AtTab(d, "INPUT")
  /\ pressed < MaxPressed /\ pressed' = pressed + 1
  /\ asked' = IF session = "on" THEN Append(asked, d) ELSE asked
  /\ UNCHANGED <<window, page, dialog, status, errinfo, session, answers, reason>>

\* The first button with well-formed numbers: the request is written if the
\* session stands, and the dialog waits whatever the write returned.
Press(d) ==
  /\ AtTab(d, "INPUT")
  /\ pressed < MaxPressed /\ pressed' = pressed + 1
  /\ status' = [status EXCEPT ![d] = "ING"]
  /\ asked' = IF session = "on" THEN Append(asked, d) ELSE asked
  /\ UNCHANGED <<window, page, dialog, errinfo, session, answers, reason>>

\* std::stoi throws.
PressMalformed(d) ==
  /\ AtTab(d, "INPUT")
  /\ pressed < MaxPressed /\ pressed' = pressed + 1
  /\ status' = [status EXCEPT ![d] = "END"]
  /\ errinfo' = [errinfo EXCEPT ![d] = 2]
  /\ reason' = [reason EXCEPT ![d] = "malformed"]
  /\ UNCHANGED <<window, page, dialog, wire>>

\* Variant of Cancel: there is a way out of the ING tab, too.
CancelAnyTime(d) ==
  /\ AtTab(d, "INPUT") \/ AtTab(d, "ING")
  /\ dialog' = "none"
  /\ status' = [status EXCEPT ![d] = "INPUT"]
  /\ UNCHANGED <<window, page, errinfo, wire, reason, pressed>>

\* The second button.
Cancel(d) ==
  /\ AtTab(d, "INPUT")
  /\ dialog' = "none"
  /\ UNCHANGED <<window, page, status, errinfo, wire, reason, pressed>>

\* The button of the END tab.
Confirm(d) ==
  /\ AtTab(d, "END")
  /\ dialog' = "none"
  /\ status' = [status EXCEPT ![d] = "INPUT"]
  /\ UNCHANGED <<window, page, errinfo, wire, reason, pressed>>

-----------------------------------------------------------------------------
\* The text an answer sets, once its END tab is the active one.
TextOf(answer, old) ==
  CASE answer = "login_noid" -> 0
    [] answer = "login_pwerr" -> 1
    [] answer = "signin_idexist" -> 0
    [] OTHER -> old

\* Variant of Shows: a dialog takes no notice of its good news.
ShowsErrors(d, answer) ==
  /\ window = "dashboard" /\ page = "dashboard" /\ dialog = d
  /\ answer \in AnswersTo(d) \ {"login_suc", "signin_suc"}

\* An answer reaches the dialog that is open, whatever tab that shows.
Shows(d, answer) ==
  /\ window = "dashboard" /\ page = "dashboard" /\ dialog = d
  /\ answer \in AnswersTo(d) \ {"login_suc"}

Handles ==
  /\ window # "closed" /\ answers # <<>>
  /\ answers' = Tail(answers)
  /\ UNCHANGED <<page, session, asked, pressed>>

\* Tui: the chat window takes over, the dashboard is deleted.
Enter ==
  /\ Handles
  /\ Head(answers) = "login_suc"
  /\ window' = "vchat" /\ dialog' = "none"
  /\ UNCHANGED <<status, errinfo, reason>>

ShowAnswer ==
  LET answer == Head(answers)
  IN  /\ Handles
      /\ answer # "login_suc"
      /\ status' = [d \in Dialogs |-> IF Shows(d, answer) THEN "END" ELSE status[d]]
      /\ errinfo' = [d \in Dialogs |-> IF Shows(d, answer) THEN TextOf(answer, errinfo[d]) ELSE errinfo[d]]
      /\ reason' = [d \in Dialogs |-> IF Shows(d, answer) THEN answer ELSE reason[d]]
      /\ UNCHANGED <<window, dialog>>

-----------------------------------------------------------------------------
\* async_connect succeeds.  (A press may have come before.)
Connects ==
  /\ session = "new"
  /\ session' = "on"
  /\ UNCHANGED <<window, page, dialog, status, errinfo, asked, answers, reason, pressed>>

\* Variant of Answer: login_pwerr has no break, and runs on into findfd_suc.
AnswerRunsOn ==
  /\ session = "on" /\ asked # <<>>
  /\ \E answer \in AnswersTo(Head(asked)) :
       answers' = answers \o IF answer = "login_pwerr" THEN <<answer, "findfd_suc">> ELSE <<answer>>
  /\ asked' = Tail(asked)
  /\ UNCHANGED <<window, page, dialog, status, errinfo, session, reason, pressed>>

\* The server's handlers of login and signin, as far as the window sees them,
\* and Function::handle, which posts their answers.
Answer ==
  /\ session = "on" /\ asked # <<>>
  /\ \E answer \in AnswersTo(Head(asked)) : answers' = Append(answers, answer)
  /\ asked' = Tail(asked)
  /\ UNCHANGED <<window, page, dialog, status, errinfo, session, reason, pressed>>

\* There is no server, or the session with it is broken, with what was on its
\* way to the net thread.  Events that are posted stay posted.
SessionEnds ==
  /\ session # "off"
  /\ session' = "off"
  /\ asked' = <<>>
  /\ UNCHANGED <<window, page, dialog, status, errinfo, answers, reason, pressed>>

Next ==
  \/ \E d \in Dialogs : ChooseDialog(d) \/ Press(d) \/ PressMalformed(d) \/ Cancel(d) \/ Confirm(d)
  \/ \E text \in {"help", "about"} : ChoosePage(text)
  \/ Return \/ Quit \/ Enter \/ ShowAnswer \/ Connects \/ Answer \/ SessionEnds

Spec == Init /\ [][Next]_vars

\* The server answers and the screen handles what is posted.  Nobody has to
\* press anything, and the session may end.
Fairness == WF_vars(Answer) /\ WF_vars(Enter \/ ShowAnswer)

FairSpec == Spec /\ Fairness

-----------------------------------------------------------------------------
\* The request a dialog waits for.
Waits == IF dialog # "none" /\ status[dialog] = "ING" THEN dialog ELSE "none"

\* No answer comes to a window that has moved on: whatever order the user
\* opens, presses, cancels and confirms in, all that is on its way to or from
\* the server is one request, or its answer, of the dialog that is open and
\* waits for it.  (Dashboard's events carry no request number, and an answer
\* to an earlier request would be shown as the answer to this one.)
AnswersAwaited ==
  /\ Len(asked) + Len(answers) <= 1
  /\ asked # <<>> => Waits = Head(asked)
  /\ answers # <<>> => Waits # "none" /\ Head(answers) \in AnswersTo(Waits)

\* The two dialogs keep the promise Client builds on (module Waiting).
W == INSTANCE Waiting WITH waiting <- Waits, entered <- (window = "vchat")

OneRequestWaits == W!Spec

\* A dialog whose request is on its way does not wait forever, unless the
\* session ends or the window is closed.  (One whose request could not be
\* written does: nothing but an answer leads out of the ING tab.)
WaitEnds == (asked # <<>> \/ answers # <<>>) ~> (Waits = "none" \/ session = "off" \/ window = "closed")

\* "Registered, please log in", case 0 of the sign dialog's texts
\* (dashboard.cpp): it is not what a user sees whose id was taken.
TakenIsNotRegistered ==
  status["signin"] = "END" /\ reason["signin"] = "signin_idexist" => errinfo["signin"] # 0
=============================================================================
