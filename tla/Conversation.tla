---------------------------- MODULE Conversation ----------------------------
(***************************************************************************)
(* What VChat promises about messages.  A message that is kept is kept for *)
(* ever, behind those kept before it.  A window in which a user has logged *)
(* in shows him what is kept from each other user from the first message   *)
(* on, one after the other, without gap or repetition and nothing else,    *)
(* until he leaves it.                                                     *)
(***************************************************************************)
EXTENDS Naturals, Sequences, SequencesExt

CONSTANTS User, Window, Message,
          Nobody

VARIABLES kept,          \* the messages to each user from each user
          reader,        \* the user in each window
          shown          \* what he is shown from each user

vars == <<kept, reader, shown>>

Nothing == [w \in User |-> <<>>]

Init ==
  /\ kept = [u \in User |-> Nothing]
  /\ reader = [p \in Window |-> Nobody]
  /\ shown = [p \in Window |-> Nothing]

\* What happens to a window in one step: nothing, or it is left; or the next
\* message is shown; or a user comes, with the messages kept when he was let in.
Stays(p) == reader'[p] = reader[p] /\ shown'[p] = shown[p]

IsLeft(p) == reader'[p] = Nobody /\ shown'[p] = Nothing

Shows(p) ==
  /\ reader[p] # Nobody
  /\ reader'[p] = reader[p]
  /\ \E w \in User :
       LET next == Len(shown[p][w]) + 1
       IN  /\ next <= Len(kept[reader[p]][w])
           /\ shown'[p] = [shown[p] EXCEPT ![w] = Append(@, kept[reader[p]][w][next])]

IsEntered(p) ==
  /\ reader[p] = Nobody
  /\ \E u \in User :
       /\ reader'[p] = u
       /\ \A w \in User : IsPrefix(shown'[p][w], kept[u][w])

\* The server keeps a message.  Relaying it may be the end of windows.
Keep ==
  /\ \E u, w \in User, message \in Message :
       kept' = [kept EXCEPT ![u][w] = Append(@, message)]
  /\ \A p \in Window : Stays(p) \/ IsLeft(p)

Read ==
  /\ kept' = kept
  /\ \E p \in Window :
       /\ Stays(p) \/ IsLeft(p) \/ Shows(p) \/ IsEntered(p)
       /\ \A q \in Window \ {p} : Stays(q) \/ IsLeft(q)

Next ==
  /\ reader' \in [Window -> User \cup {Nobody}]
  /\ shown' \in [Window -> [User -> Seq(Message)]]
  /\ Read \/ Keep

Spec == Init /\ [][Next]_vars
=============================================================================
