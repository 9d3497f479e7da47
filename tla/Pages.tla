------------------------------- MODULE Pages -------------------------------
(***************************************************************************)
(* The page list of the chat window (client/src/ui/vchat.cpp): at most two *)
(* pages side by side, a selector that says which of them gets the keys,   *)
(* and the table of chat pages.                                            *)
(*                                                                         *)
(* The pages are children of an FTXUI container, whose rules are here too: *)
(* the active child is the selector's, modulo the number of children; a    *)
(* child that takes the focus sets the selector to itself; a key that no   *)
(* child wants leaves the selector within bounds; adding a child detaches  *)
(* it first.                                                               *)
(***************************************************************************)
EXTENDS Integers, Sequences

CONSTANTS User,          \* account ids
          About, Help, Empty

ASSUME PagesAssumption ==
  /\ User \subseteq Nat \ {0}
  /\ About # Help /\ About # Empty /\ Help # Empty
  /\ {About, Help, Empty} \cap [friend : User, current : BOOLEAN] = {}

VARIABLES pages,         \* the container's children
          page_selected, \* its selector
          chats          \* the friends Vchat::chats has a page for

pageVars == <<pages, page_selected, chats>>

\* A chat page that is replaced in chats may still be open: it is no longer
\* the current one.
ChatPage(u) == [friend |-> u, current |-> TRUE]
Page == [friend : User, current : BOOLEAN] \cup {About, Help, Empty}
IsChat(page) == page \notin {About, Help, Empty}

\* A page made again while it is open may be opened once more beside itself.
PagesTypeOK ==
  /\ pages \in Seq(Page) /\ Len(pages) <= 2
  /\ page_selected \in -1 .. 1
  /\ chats \subseteq User

\* The empty page is there, and a chat page for each friend known at the login.
PagesInit(known) ==
  /\ pages = <<Empty>>
  /\ page_selected = 0
  /\ chats = known

-----------------------------------------------------------------------------
(* FTXUI *)

ActiveIndex(children, selector) == selector % Len(children)

Active(children, selector) == children[ActiveIndex(children, selector) + 1]

DetachAt(children, i) == [k \in 1 .. Len(children) - 1 |-> children[IF k <= i THEN k ELSE k + 1]]

\* A page that is added is a child once.
Detach(children, page) ==
  LET places == {i \in DOMAIN children : children[i] = page}
  IN  IF places = {} THEN children ELSE DetachAt(children, (CHOOSE i \in places : TRUE) - 1)

Attach(children, page) == Append(Detach(children, page), page)

Clamp(children, selector) ==
  IF selector < 0 \/ children = <<>> THEN 0
  ELSE IF selector < Len(children) THEN selector ELSE Len(children) - 1

\* Where the selector is after an event that no key handler above the pages
\* took: a chat gives the focus to its input, other pages do nothing.
Settled(children, selector) ==
  IF children # <<>> /\ IsChat(Active(children, selector))
  THEN ActiveIndex(children, selector)
  ELSE Clamp(children, selector)

-----------------------------------------------------------------------------
\* Variant of Show: the pages that are open stay.
ShowBeside(page) ==
  /\ pages' = Attach(pages, page)
  /\ page_selected' = Len(pages) - 1
  /\ UNCHANGED chats

\* open_chat and open_other.  The selector is set before the page is added: to
\* the page that stays, if there is one, and to -1 if there is none at all.
Show(page) ==
  LET rest == IF Len(pages) = 2 THEN Tail(pages) ELSE pages
  IN  /\ pages' = Attach(rest, page)
      /\ page_selected' = Len(rest) - 1
      /\ UNCHANGED chats

\* An event that the open pages may have, with the selector as it is then.
Reach(selector) ==
  /\ page_selected' = Settled(pages, selector)
  /\ UNCHANGED <<pages, chats>>

\* Arrow keys, and Tab, move the selector if the active page leaves them.
Move ==
  /\ page_selected' \in IF pages = <<>> THEN {0} ELSE 0 .. Len(pages) - 1
  /\ UNCHANGED <<pages, chats>>

\* Variant of Close: Escape is for the page alone.
CloseQuietly ==
  /\ pages' = DetachAt(pages, page_selected)
  /\ UNCHANGED <<page_selected, chats>>

\* Escape: the page at the selector goes, and what is then the active one has
\* the key as well.
Close ==
  /\ pages' = DetachAt(pages, page_selected)
  /\ page_selected' = Settled(pages', page_selected)
  /\ UNCHANGED chats

\* new Chat(u)
Make(u) ==
  /\ chats' = chats \cup {u}
  /\ pages' = [i \in DOMAIN pages |->
       IF pages[i] = ChatPage(u) THEN [ChatPage(u) EXCEPT !.current = FALSE] ELSE pages[i]]

\* The renderer keeps the empty page where there is no other.
DrawPages ==
  /\ pages' = IF pages = <<>> THEN <<Empty>>
              ELSE IF Len(pages) > 1 THEN Detach(pages, Empty) ELSE pages
  /\ UNCHANGED <<page_selected, chats>>
=============================================================================
