------------------------------ MODULE Waiting ------------------------------
(***************************************************************************)
(* What the rest of the client relies on in its start window: one request  *)
(* waits at a time, and it waits until its own answer is there.  (Client   *)
(* keeps no more of the window than the variable waiting.)                 *)
(***************************************************************************)
EXTENDS Sequences

VARIABLES waiting,       \* the request a dialog waits for
          asked,         \* requests the server has not answered
          answers,       \* answers the window has not handled
          entered        \* the window has been replaced by the chat window

vars == <<waiting, asked, answers, entered>>

AnswersTo(request) ==
  IF request = "login" THEN {"login_suc", "login_noid", "login_pwerr"}
                       ELSE {"signin_suc", "signin_idexist"}

Init ==
  /\ waiting = "none"
  /\ asked = <<>>
  /\ answers = <<>>
  /\ entered = FALSE

\* A request is sent, or could not be written: the dialog waits either way.
Ask(request) ==
  /\ waiting = "none" /\ ~entered
  /\ waiting' = request
  /\ asked' \in {asked, Append(asked, request)}
  /\ UNCHANGED <<answers, entered>>

Answer ==
  /\ asked # <<>>
  /\ \E answer \in AnswersTo(Head(asked)) : answers' = Append(answers, answer)
  /\ asked' = Tail(asked)
  /\ UNCHANGED <<waiting, entered>>

\* Only an answer to the request that waits is ever there, and ends its wait.
Take ==
  /\ answers # <<>>
  /\ Head(answers) \in AnswersTo(waiting)
  /\ answers' = Tail(answers)
  /\ waiting' = "none"
  /\ entered' = (Head(answers) = "login_suc")
  /\ UNCHANGED asked

Lose ==
  /\ asked' = <<>>
  /\ answers' \in {answers, <<>>}
  /\ UNCHANGED <<waiting, entered>>

Next == Ask("login") \/ Ask("signin") \/ Answer \/ Take \/ Lose

Spec == Init /\ [][Next]_vars
=============================================================================
