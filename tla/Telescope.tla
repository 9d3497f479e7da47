----------------------------- MODULE Telescope -----------------------------
(***************************************************************************)
(* The lists of the chat window and the search box below them              *)
(* (client/src/ui/telescope.cpp), with the part of Info they show.         *)
(*                                                                         *)
(* The lists of chats and of friends are copies of Info, made anew by each *)
(* drawing while they are shown; keys act on the copy and on a cursor that *)
(* counts from 1 (0 is a filler above the first entry).  A request is in   *)
(* the list of friends with its id negated, behind the friends.            *)
(*                                                                         *)
(* A cursor within a menu of fixed entries is left out: Return takes any   *)
(* entry.  What the list of one's own functions shows is left out: nothing *)
(* here depends on it.  A cursor, or a focus, that opening a list sets in  *)
(* any case is kept at one value while the list is closed.  A text is      *)
(* digits, text with a small letter, or neither, and matches some users.   *)
(***************************************************************************)
EXTENDS Pages, Order

CONSTANTS Typed,         \* texts of the search box other than the empty one
          Digits, Names, \* those std::stoi reads, those with a small letter
          Matches, Said  \* the users whose name, whose last message a text matches

ASSUME TelescopeAssumption ==
  /\ IsFiniteSet(User)
  /\ Digits \subseteq Typed /\ Names \subseteq Typed /\ Digits \cap Names = {}
  /\ Matches \in [Typed -> SUBSET User] /\ Said \in [Typed -> SUBSET User]

COMMON == 0
MYSELF == 1
CHAT == 2
FRIEND == 3
GROUP == 4
Closed == -1

LIST == 0
INPUT == 1

VARIABLES friends,           \* the keys of Info::friendinfo
          requests,          \* the keys of Info::requestaddlist
          blank,             \* those of them that operator[] made
          talked,            \* the peers Info::messageinfo has messages of
          list_selected,     \* which list is shown
          focus,             \* Telescope::selected: the list's keys or the box's
          ss,                \* the text in the box
          chatsList,         \* Chats::list
          chatsSelected,     \* Chats::selected
          friendsList,       \* Friends::list
          friend_selected,   \* its cursor
          menu,              \* Friends::selected: the list, or a menu over it
          function_selected, \* which menu, modulo 2: a friend's, a request's
          filled             \* the lists drawn so far: their containers have entries

infoVars == <<friends, requests, blank, talked>>
chatsVars == <<chatsList, chatsSelected>>
friendsVars == <<friendsList, friend_selected, menu, function_selected>>
telescopeVars == <<list_selected, focus, ss, chatsVars, friendsVars, filled>>

\* Ids in the lists: those of requests are negated.
Entry == User \cup {-u : u \in User}

TelescopeTypeOK ==
  /\ friends \subseteq User /\ requests \subseteq User /\ blank \subseteq requests
  /\ talked \subseteq User
  /\ list_selected \in {Closed, COMMON, MYSELF, CHAT, FRIEND, GROUP}
  /\ focus \in {LIST, INPUT}
  /\ ss \in Typed \cup {""}
  /\ chatsList \in Seq(User) /\ chatsSelected \in 0 .. Cardinality(User)
  /\ friendsList \in Seq(Entry) /\ friend_selected \in 0 .. Cardinality(Entry)
  /\ menu \in {0, 1} /\ filled \subseteq {CHAT, FRIEND}
  /\ function_selected \in {0, 1}

-----------------------------------------------------------------------------
Found(ids, matches) == IF ss = "" THEN ids ELSE ids \cap matches[ss]

FoundFriends == Found(friends, Matches)

\* Variant of ChatsNow: those who asked for friendship are in it.
ChatsWithAsking == Sorted(FoundFriends \cup requests)

ChatsNow == Sorted(talked \cap (FoundFriends \cup Found(friends, Said)))

\* The search is among friends, not among requests.
FriendsNow ==
  LET asking == Sorted(requests)
  IN  Sorted(FoundFriends) \o [i \in DOMAIN asking |-> -asking[i]]

\* Variants of Previews: none for requests; those of an earlier list stay.
PreviewsOfFriends == 0 .. Cardinality(FoundFriends)
PreviewsKept == 0 .. Cardinality(Entry)

\* Friends::refresh makes a preview for each friend, and one for all requests.
Previews == 0 .. Cardinality(FoundFriends) + (IF requests = {} THEN 0 ELSE 1)

TelescopeInit(known, talks, asking) ==
  /\ friends = known /\ requests = asking /\ blank = {} /\ talked = talks
  /\ list_selected = Closed /\ focus = INPUT /\ ss = ""
  /\ chatsList = ChatsNow /\ chatsSelected = 0
  /\ friendsList = FriendsNow
  /\ friend_selected = 0
  /\ menu = 0 /\ function_selected = 1 /\ filled = {}

-----------------------------------------------------------------------------
\* Ctrl-K, -Y, -U, -I and -O.  The cursor goes to the end of the old copy.
OpenList(list) ==
  /\ list_selected' = list
  /\ focus' = INPUT
  /\ chatsSelected' = IF list = CHAT THEN Len(chatsList) ELSE 0
  /\ friend_selected' = IF list = FRIEND THEN Len(friendsList) ELSE 0
  /\ UNCHANGED <<ss, chatsList, friendsList, menu, function_selected, filled>>

\* The same by an entry of the list of options, which also changes the menus.
OpenFromCommon(list) ==
  /\ list_selected' = list
  /\ focus' = INPUT
  /\ chatsSelected' = IF list = CHAT THEN Len(chatsList) ELSE 0
  /\ friend_selected' = IF list = FRIEND THEN Len(friendsList) ELSE 0
  /\ function_selected' = IF list = FRIEND THEN 1 ELSE function_selected
  /\ UNCHANGED <<ss, chatsList, friendsList, menu, filled>>

CloseList(newMenu) ==
  /\ list_selected' = Closed
  /\ focus' = INPUT
  /\ chatsSelected' = 0 /\ friend_selected' = 0
  /\ menu' = newMenu
  /\ function_selected' = IF newMenu = 0 THEN 1 ELSE function_selected
  /\ UNCHANGED <<ss, chatsList, friendsList, filled>>

Focus(newFocus) ==
  /\ focus' = newFocus
  /\ UNCHANGED <<list_selected, ss, chatsVars, friendsVars, filled>>

Step(cursor, by, list) ==
  IF by = 1 THEN (IF cursor < Len(list) THEN cursor + 1 ELSE cursor)
            ELSE (IF cursor > 1 THEN cursor - 1 ELSE cursor)

\* Ctrl-N and Ctrl-P leave the box first.  The container of the chats has the
\* key as well and, before its first drawing, no children.
MoveCursor(by) ==
  /\ focus' = LIST
  /\ friend_selected' = IF focus = LIST /\ list_selected = FRIEND /\ menu = 0
                        THEN Step(friend_selected, by, friendsList) ELSE friend_selected
  /\ chatsSelected' = IF focus = LIST /\ list_selected = CHAT
                      THEN (IF CHAT \in filled THEN Step(chatsSelected, by, chatsList) ELSE 0)
                      ELSE chatsSelected
  /\ UNCHANGED <<list_selected, ss, chatsList, friendsList, menu, function_selected, filled>>

\* Letters, digits and Backspace, any number of them.
Type(text) ==
  /\ focus' = INPUT
  /\ ss' = text
  /\ UNCHANGED <<list_selected, chatsVars, friendsVars, filled>>

\* Return in the box, for the list of one's own functions.
SearchFor ==
  /\ ss' = ""
  /\ focus' = LIST
  /\ UNCHANGED <<list_selected, chatsVars, friendsVars, filled>>

\* The answer of a search opens the results, over whatever list is shown.
ShowResults ==
  /\ list_selected' = MYSELF
  /\ focus' = LIST
  /\ chatsSelected' = 0 /\ friend_selected' = 0
  /\ UNCHANGED <<ss, chatsList, friendsList, menu, function_selected, filled>>

\* The container has the key as well and keeps the cursor on its entries.
Within(cursor) ==
  IF FRIEND \notin filled THEN 0
  ELSE IF cursor <= Len(friendsList) THEN cursor ELSE Len(friendsList)

\* Variant of OpenMenu: every entry is taken for a friend.
OpenFriendMenu(entry) ==
  /\ menu' = 1
  /\ function_selected' = 0
  /\ friend_selected' = Within(friend_selected)
  /\ UNCHANGED <<list_selected, focus, ss, chatsVars, friendsList, filled>>

OpenMenu(entry) ==
  /\ menu' = 1
  /\ function_selected' = IF entry < 0 THEN 1 ELSE 0
  /\ friend_selected' = Within(friend_selected)
  /\ UNCHANGED <<list_selected, focus, ss, chatsVars, friendsList, filled>>

CloseMenu ==
  /\ menu' = 0
  /\ function_selected' = 1
  /\ UNCHANGED <<list_selected, focus, ss, chatsVars, friendsList, friend_selected, filled>>

\* Function::responseadd, where the frame could be written.
Agree(id) ==
  /\ requests' = requests \ {id}
  /\ blank' = blank \ {id}
  /\ friends' = friends \cup {id}
  /\ UNCHANGED talked

\* Variant of Refuse: the request is erased before it is looked up.
RefuseErased(id) ==
  /\ blank' = blank \cup {id}
  /\ requests' = requests \cup {id}
  /\ UNCHANGED <<friends, talked>>

\* Looking the request up makes one that is not there.
Refuse(id) ==
  /\ requests' = requests \cup {id}
  /\ blank' = IF id \in requests THEN blank ELSE blank \cup {id}
  /\ UNCHANGED <<friends, talked>>

\* Variant of DrawList: the list of friends is made when it is opened.
DrawChatsOnly ==
  /\ chatsList' = IF list_selected = CHAT THEN ChatsNow ELSE chatsList
  /\ chatsSelected' = IF list_selected = CHAT THEN Len(ChatsNow) ELSE chatsSelected
  /\ filled' = filled \cup ({list_selected} \cap {CHAT, FRIEND})
  /\ UNCHANGED <<list_selected, focus, ss, friendsVars>>

\* Each drawing makes the list it shows anew.  That of the chats puts the
\* cursor at the end again, that of the friends leaves it where it is.
DrawList ==
  /\ chatsList' = IF list_selected = CHAT THEN ChatsNow ELSE chatsList
  /\ chatsSelected' = IF list_selected = CHAT THEN Len(ChatsNow) ELSE chatsSelected
  /\ filled' = filled \cup ({list_selected} \cap {CHAT, FRIEND})
  /\ friendsList' = IF list_selected = FRIEND THEN FriendsNow ELSE friendsList
  /\ UNCHANGED <<list_selected, focus, ss, friend_selected, menu, function_selected>>
=============================================================================
