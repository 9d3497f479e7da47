----------------------------- MODULE ChatWindow -----------------------------
(***************************************************************************)
(* The chat window (client/src/ui/vchat.cpp, telescope.cpp) under FTXUI's  *)
(* loop: keys and posted events are handled one after the other, and when  *)
(* none is left the window is drawn.  Pages has the page list, Telescope   *)
(* the lists; here every key is brought to the part that acts on it.       *)
(*                                                                         *)
(* A user who types ahead has several keys handled between two drawings.   *)
(* A frame changes Info and posts an event, which is handled later.        *)
(***************************************************************************)
EXTENDS Telescope

CONSTANTS Starts,        \* friends, peers and requests a window may start with
          MaxFrames,     \* bound: frames the net thread handles
          MaxQueue,      \* bound: events posted and not handled
          MaxAhead       \* bound: keys typed ahead

ASSUME ChatWindowAssumption ==
  /\ Starts \subseteq [known : SUBSET User, talks : SUBSET User, asking : SUBSET User]
  /\ MaxFrames \in Nat /\ MaxQueue \in Nat /\ MaxAhead \in Nat

VARIABLES toggle,        \* Vchat::selected: the pages, or the lists over them
          queue,         \* events posted and not handled
          frames,        \* frames handled so far
          loop,          \* waiting, handling events, or about to draw
          keyed,         \* a key was handled since the last drawing
          fate,          \* what the window came to
          ahead,         \* keys typed ahead so far
          again,         \* a friend was accepted a second time
          chosen         \* the entry a menu was opened for, or Nowhere

loopVars == <<queue, frames, loop, keyed, ahead>>
windowVars == <<toggle, fate, again, chosen>>
vars == <<infoVars, pageVars, telescopeVars, loopVars, windowVars>>

Nowhere == 0

Events == {"accept_addfd", "findfd_suc", "other"}

\* It runs, was left by Exit, or came to where nothing is sure any more:
\* ChildAt outside the pages, a page or a preview that was never made, a list
\* read before its first or behind its last entry, an exception of std::stoi,
\* or an answer to a friend, who asked nothing, as -id.
Fates == {"runs", "closed", "page", "null", "preview", "before", "behind", "thrown", "misled"}

Init ==
  /\ \E start \in Starts :
       PagesInit(start.known) /\ TelescopeInit(start.known, start.talks, start.asking)
  /\ toggle = 0
  /\ queue = <<>> /\ frames = 0
  /\ loop = "events" /\ keyed = FALSE /\ ahead = 0
  /\ fate = "runs" /\ again = FALSE /\ chosen = Nowhere

WindowTypeOK ==
  /\ PagesTypeOK /\ TelescopeTypeOK
  /\ toggle \in {0, 1}
  /\ queue \in Seq(Events) /\ frames \in 0 .. MaxFrames
  /\ loop \in {"waits", "events", "draws"}
  /\ keyed \in BOOLEAN /\ again \in BOOLEAN /\ ahead \in 0 .. MaxAhead
  /\ fate \in Fates
  /\ chosen \in Entry \cup {Nowhere}

-----------------------------------------------------------------------------
\* The window handles a key.
Key ==
  /\ fate = "runs"
  /\ loop # "draws"
  /\ loop' = "events"
  /\ keyed' = TRUE
  /\ keyed => ahead < MaxAhead
  /\ ahead' = IF keyed THEN ahead + 1 ELSE ahead
  /\ UNCHANGED frames

\* A key that posts nothing.
QuietKey == Key /\ UNCHANGED <<infoVars, queue, again>>

\* A key that changes neither Info nor the fate of the window.
PlainKey == QuietKey /\ UNCHANGED fate

InLists == toggle = 1 /\ UNCHANGED <<toggle, pageVars>>

OnPages == toggle = 0 /\ UNCHANGED <<toggle, telescopeVars>>

\* Ctrl-K, -Y, -U, -I, -O.  The key of the list that is shown closes it, and
\* the page has the key as well; Ctrl-I is also Tab.
ListKey(list) ==
  /\ PlainKey
  /\ chosen' = Nowhere
  /\ \/ /\ list_selected = Closed
        /\ toggle' = 1
        /\ OpenList(list)
        /\ UNCHANGED pageVars
     \/ /\ list_selected = list
        /\ toggle' = 0
        /\ CloseList(menu)
        /\ \/ Reach(page_selected)
           \/ list = FRIEND /\ Move
     \/ /\ list_selected \notin {Closed, list}
        /\ InLists
        /\ OpenList(list)

\* Variant of CloseLists: the list is not closed.
CloseListsBox ==
  /\ PlainKey
  /\ toggle = 1
  /\ toggle' = 0
  /\ Focus(INPUT)
  /\ chosen' = Nowhere
  /\ UNCHANGED pageVars

\* Escape, over the pages.
CloseLists ==
  /\ PlainKey
  /\ toggle = 1
  /\ toggle' = 0
  /\ CloseList(menu)
  /\ chosen' = Nowhere
  /\ UNCHANGED pageVars

\* Escape, on the pages: ChildAt has no bounds check of its own.
ClosePage ==
  /\ QuietKey
  /\ OnPages
  /\ IF page_selected \in 0 .. Len(pages) - 1
     THEN Close /\ UNCHANGED fate
     ELSE fate' = "page" /\ UNCHANGED pageVars
  /\ UNCHANGED chosen

\* Ctrl-B and Ctrl-F.
Side(selector) ==
  /\ PlainKey
  /\ \/ OnPages /\ Reach(selector)
     \/ InLists /\ Focus(INPUT)
  /\ UNCHANGED chosen

Arrow ==
  /\ PlainKey
  /\ \/ OnPages /\ Move
     \/ InLists /\ \E newFocus \in {LIST, INPUT} : Focus(newFocus)
  /\ UNCHANGED chosen

\* Ctrl-N and Ctrl-P; a chat page may take the key without taking the focus.
Line(by) ==
  /\ PlainKey
  /\ \/ OnPages /\ (Reach(page_selected) \/ UNCHANGED pageVars)
     \/ InLists /\ MoveCursor(by)
  /\ UNCHANGED chosen

\* A text that filters the list, or is written on a page.
Text(text) ==
  /\ PlainKey
  /\ \/ OnPages /\ Reach(page_selected) /\ UNCHANGED chosen
     \/ InLists /\ Type(text) /\ chosen' = Nowhere

-----------------------------------------------------------------------------
(* Return                                                                  *)

\* Return reads list[cursor - 1].
Reads(list, cursor) == cursor \in DOMAIN list

\* It reads outside the list.
Strays(list, cursor) ==
  /\ ~Reads(list, cursor)
  /\ fate' = IF cursor = 0 THEN "before" ELSE "behind"
  /\ UNCHANGED <<toggle, pageVars, telescopeVars, chosen>>

InList(list) == toggle = 1 /\ focus = LIST /\ list_selected = list

\* A page is shown and the lists go.
ShowPage(page, newMenu) ==
  /\ Show(page)
  /\ toggle' = 0
  /\ CloseList(newMenu)
  /\ chosen' = Nowhere
  /\ UNCHANGED fate

\* chats[id]->content, where chats[id] may be null.
OpenChat(id, newMenu) ==
  IF id \in chats THEN ShowPage(ChatPage(id), newMenu)
  ELSE fate' = "null" /\ UNCHANGED <<toggle, pageVars, telescopeVars, chosen>>

ReturnInBox ==
  /\ QuietKey
  /\ InLists
  /\ focus = INPUT
  /\ \/ list_selected # MYSELF /\ UNCHANGED <<telescopeVars, fate>>
     \/ list_selected = MYSELF /\ ss \in Names \cup Digits /\ SearchFor /\ UNCHANGED fate
     \/ list_selected = MYSELF /\ ss \notin Names \cup Digits /\ fate' = "thrown" /\ UNCHANGED telescopeVars
  /\ UNCHANGED chosen

\* The list of options; that of groups, which is none, has its keys as well.
ReturnInOptions ==
  /\ QuietKey
  /\ InList(COMMON) \/ InList(GROUP)
  /\ \/ fate' = "closed" /\ UNCHANGED <<toggle, pageVars, telescopeVars, chosen>>
     \/ \E page \in {About, Help} : ShowPage(page, menu)
     \/ \E list \in {FRIEND, CHAT, MYSELF} :
          OpenFromCommon(list) /\ chosen' = Nowhere /\ UNCHANGED <<toggle, pageVars, fate>>
     \/ UNCHANGED <<toggle, pageVars, telescopeVars, fate, chosen>>

\* One's own functions: nothing but searching and asking, by frames alone.
ReturnInMyself ==
  /\ PlainKey
  /\ InLists /\ InList(MYSELF)
  /\ UNCHANGED <<telescopeVars, chosen>>

ReturnInChats ==
  /\ QuietKey
  /\ InList(CHAT)
  /\ \/ Strays(chatsList, chatsSelected)
     \/ Reads(chatsList, chatsSelected) /\ OpenChat(chatsList[chatsSelected], menu)

\* A menu over the entry under the cursor, remembered if the user saw it.
ReturnInFriends ==
  /\ QuietKey
  /\ InList(FRIEND) /\ menu = 0
  /\ \/ Strays(friendsList, friend_selected)
     \/ /\ Reads(friendsList, friend_selected)
        /\ OpenMenu(friendsList[friend_selected])
        /\ chosen' = IF loop = "waits" /\ queue = <<>> THEN friendsList[friend_selected] ELSE Nowhere
        /\ UNCHANGED <<toggle, pageVars, fate>>

InMenu(function) == InList(FRIEND) /\ menu = 1 /\ function_selected % 2 = function

\* Deleting and renaming a friend do nothing yet.
ReturnInFriendMenu ==
  /\ QuietKey
  /\ InMenu(0)
  /\ \/ CloseMenu /\ chosen' = Nowhere /\ UNCHANGED <<toggle, pageVars, fate>>
     \/ Strays(friendsList, friend_selected)
     \/ Reads(friendsList, friend_selected) /\ OpenChat(friendsList[friend_selected], 0)

\* responseadd looks the request up, and what it finds is changed only if it
\* agrees and the frame was written.
Respond(id) ==
  \/ Refuse(id) /\ UNCHANGED <<queue, again>>
  \/ /\ Len(queue) < MaxQueue
     /\ Agree(id)
     /\ queue' = Append(queue, "accept_addfd")
     /\ again' = (again \/ id \in friends)

ReturnInRequestMenu ==
  /\ Key
  /\ InMenu(1)
  /\ \/ /\ CloseMenu
        /\ chosen' = Nowhere
        /\ UNCHANGED <<toggle, infoVars, pageVars, queue, again, fate>>
     \/ /\ Strays(friendsList, friend_selected)
        /\ UNCHANGED <<infoVars, queue, again>>
     \/ /\ Reads(friendsList, friend_selected)
        /\ IF friendsList[friend_selected] > 0
           THEN /\ fate' = "misled"
                /\ UNCHANGED <<toggle, infoVars, pageVars, telescopeVars, queue, again, chosen>>
           ELSE /\ Respond(-friendsList[friend_selected])
                /\ CloseMenu
                /\ chosen' = Nowhere
                /\ UNCHANGED <<toggle, pageVars, fate>>

\* A chat page sends what is written on it, if anything is.
ReturnOnPage ==
  /\ Key
  /\ OnPages
  /\ Reach(page_selected)
  /\ \/ UNCHANGED talked
     \/ /\ pages # <<>> /\ IsChat(Active(pages, page_selected))
        /\ talked' = talked \cup {Active(pages, page_selected).friend}
  /\ UNCHANGED <<friends, requests, blank, queue, fate, again, chosen>>

Keys ==
  \/ \E list \in COMMON .. GROUP : ListKey(list)
  \/ CloseLists \/ ClosePage \/ Arrow
  \/ \E selector \in {0, 1} : Side(selector)
  \/ \E by \in {-1, 1} : Line(by)
  \/ \E text \in Typed \cup {""} : Text(text)
  \/ ReturnInBox \/ ReturnInOptions \/ ReturnInMyself \/ ReturnInChats
  \/ ReturnInFriends \/ ReturnInFriendMenu \/ ReturnInRequestMenu \/ ReturnOnPage

-----------------------------------------------------------------------------
\* The net thread handles a frame: a message, a request, an answer of a user
\* who was asked, the result of a search, or one that changes nothing here.
Frame ==
  /\ fate = "runs"
  /\ frames < MaxFrames /\ Len(queue) < MaxQueue
  /\ frames' = frames + 1
  /\ \/ \E u \in User :
          /\ talked' = talked \cup {u}
          /\ UNCHANGED <<friends, requests, blank>>
          /\ queue' = Append(queue, "other")
     \/ \E u \in User :
          /\ requests' = requests \cup {u}
          /\ blank' = blank \ {u}
          /\ UNCHANGED <<friends, talked>>
          /\ queue' = Append(queue, "other")
     \/ \E u \in User :
          /\ friends' = friends \cup {u}
          /\ UNCHANGED <<requests, blank, talked>>
          /\ queue' = Append(queue, "accept_addfd")
     \/ \E event \in {"findfd_suc", "other"} :
          /\ queue' = Append(queue, event)
          /\ UNCHANGED infoVars
  /\ chosen' = IF <<friends, requests>>' = <<friends, requests>> THEN chosen ELSE Nowhere
  /\ UNCHANGED <<pageVars, telescopeVars, loop, keyed, ahead, toggle, fate, again>>

\* The lists have the event, or the pages with the selector.
Passes == \/ InLists /\ Focus(INPUT)
          \/ OnPages /\ Reach(page_selected)

\* accept_addfd makes a chat for the first request that is not blank.
MakeChat ==
  LET asking == requests \ blank
  IN  \/ /\ asking = {}
         /\ Passes
      \/ \E u \in asking :
           /\ \A v \in asking : u <= v
           /\ Make(u)
           /\ \/ toggle = 1 /\ Focus(INPUT) /\ UNCHANGED page_selected
              \/ toggle = 0 /\ page_selected' = Settled(pages', page_selected) /\ UNCHANGED telescopeVars
           /\ UNCHANGED toggle

HandleEvent ==
  /\ fate = "runs"
  /\ loop # "draws"
  /\ queue # <<>>
  /\ loop' = "events"
  /\ queue' = Tail(queue)
  /\ CASE Head(queue) = "accept_addfd" -> MakeChat
       [] Head(queue) = "findfd_suc" /\ toggle = 1 -> InLists /\ ShowResults
       [] OTHER -> Passes
  /\ UNCHANGED <<infoVars, frames, keyed, ahead, fate, again, chosen>>

\* The loop finds no more events.
Drains ==
  /\ fate = "runs"
  /\ loop = "events"
  /\ queue = <<>>
  /\ loop' = "draws"
  /\ UNCHANGED <<infoVars, pageVars, telescopeVars, windowVars, queue, frames, keyed, ahead>>

Draw ==
  /\ fate = "runs"
  /\ loop = "draws"
  /\ loop' = "waits"
  /\ keyed' = FALSE
  /\ DrawPages
  /\ IF toggle = 1 THEN DrawList ELSE UNCHANGED telescopeVars
  /\ fate' = IF toggle = 1 /\ list_selected = FRIEND /\ friend_selected \notin Previews
             THEN "preview" ELSE fate
  /\ UNCHANGED <<infoVars, queue, frames, ahead, toggle, again, chosen>>

Next == Keys \/ Frame \/ HandleEvent \/ Drains \/ Draw

Spec == Init /\ [][Next]_vars

-----------------------------------------------------------------------------
\* Which part gets the keys is a selector of its own, set in nine places
\* beside the one that says which list is shown: the lists have the keys
\* exactly while one of them is shown.
OpenIffList == fate = "runs" => (toggle = 1 <=> list_selected # Closed)

\* Escape detaches the page at page_selected, which open_chat, Ctrl-B, Ctrl-F,
\* a closed page and the renderer all leave somewhere: it may point beside the
\* pages only where keys were handled that the drawing had not caught up with.
EscapeOnAPage == fate = "page" => ahead > 0

\* The preview of the entry under the cursor is there to be drawn: it is
\* missing only if the list was cut by a search, shrank because a friend was
\* accepted again, or has several requests, which share one preview.
PreviewKept ==
  fate = "preview" => ss # "" \/ Cardinality(requests) > 1 \/ again

\* Return reads the list at a cursor of its own, which is moved by keys and set
\* when the list is opened, while the list is made anew, and cut by a search,
\* when it is drawn.  The cursor is never behind the list when it is read: a
\* list that is drawn shorter than that ends with the missing preview.
CursorNotBehind == fate # "behind"

\* Opening a chat finds its page, unless some friend has none, or friends or
\* requests changed under an open menu.
NullNeedsMissingPage ==
  fate = "null" => \/ ~(friends \subseteq chats)
                   \/ list_selected = FRIEND /\ chosen = Nowhere

\* What a menu does is done to the entry it was opened for, and is what that
\* kind of entry offers, whatever is drawn, posted and pressed in between, as
\* long as friends and requests stay the same.
ActsOnChosen ==
  list_selected = FRIEND /\ menu = 1 /\ chosen # Nowhere =>
    /\ Reads(friendsList, friend_selected) /\ friendsList[friend_selected] = chosen
    /\ function_selected % 2 = (IF chosen < 0 THEN 1 ELSE 0)

\* A user who waits for each drawing answers requests that are there, each
\* until he agrees: an answer from a list that is out of date makes a blank one.
AnswersAreAsked == blank # {} => ahead > 1

\* Info is changed by another thread and by the keys themselves: once every
\* event is handled and drawn, a list of friends or of chats shows what Info has.
ListCurrent ==
  loop = "waits" /\ queue = <<>> /\ fate = "runs" =>
    /\ list_selected = FRIEND => friendsList = FriendsNow
    /\ list_selected = CHAT => chatsList = ChatsNow
=============================================================================
