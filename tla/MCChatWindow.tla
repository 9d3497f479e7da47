---------------------------- MODULE MCChatWindow ----------------------------
(* Instances of ChatWindow for TLC. *)
EXTENDS ChatWindow, TLC

Users == {1, 2}
Texts == {"2"}
Matching == [text \in Texts |-> {2}]
Saying == [text \in Texts |-> {1}]

Start(known, asking) == [known |-> known, talks |-> {}, asking |-> asking]
WindowStarts == {Start({1}, {2}), Start({}, {1, 2})}

Symmetry == Permutations({About, Help})
=============================================================================
