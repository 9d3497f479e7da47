-------------------------- MODULE ChatWindowProofs --------------------------
(***************************************************************************)
(* Proofs about ChatWindow, for any users, texts and bounds: its two       *)
(* selectors, its types, and what its lists and cursors are good for       *)
(* between a change of Info and the drawing that shows it.                 *)
(***************************************************************************)
EXTENDS ChatWindow, OrderProofs

-----------------------------------------------------------------------------
(* The two selectors.                                                      *)

\* The lists have the keys exactly while one of them is shown.
KeysInv == toggle = 1 <=> list_selected # Closed

\* A key that leaves both selectors, or sets both, keeps them in step.
LEMMA BothKept ==
  ASSUME KeysInv, UNCHANGED <<toggle, list_selected>>
  PROVE  KeysInv'
BY DEF KeysInv

LEMMA BothClosed ==
  ASSUME toggle' = 0, list_selected' = Closed
  PROVE  KeysInv'
BY DEF KeysInv

LEMMA BothOpen ==
  ASSUME NEW list \in COMMON .. GROUP, toggle' = 1, list_selected' = list
  PROVE  KeysInv'
BY DEF KeysInv, Closed, COMMON, GROUP

\* What a page or a list entry that is opened does to the selectors.
LEMMA PageOpens ==
  ASSUME NEW page, NEW newMenu, ShowPage(page, newMenu)
  PROVE  KeysInv'
BY BothClosed DEF ShowPage, CloseList

LEMMA ChatOpens ==
  ASSUME KeysInv, NEW id, NEW newMenu, OpenChat(id, newMenu)
  PROVE  KeysInv'
BY PageOpens, BothKept DEF OpenChat, telescopeVars

\* Opening and closing lists by their keys and by Escape.
LEMMA ListKeysStep ==
  ASSUME KeysInv, \/ \E list \in COMMON .. GROUP : ListKey(list)
                  \/ CloseLists
  PROVE  KeysInv'
<1>1. ASSUME NEW list \in COMMON .. GROUP, ListKey(list) PROVE KeysInv'
  <2>1. CASE toggle' = 1 /\ OpenList(list)
    BY <2>1, BothOpen DEF OpenList
  <2>2. CASE toggle' = 0 /\ CloseList(menu)
    BY <2>2, BothClosed DEF CloseList
  <2>3. CASE InLists /\ OpenList(list)
    BY <2>3, BothOpen DEF InLists, OpenList
  <2> QED
    BY <1>1, <2>1, <2>2, <2>3 DEF ListKey
<1>2. CASE CloseLists
  BY <1>2, BothClosed DEF CloseLists, CloseList
<1> QED
  BY <1>1, <1>2

\* Keys that stay in the lists, or on the pages.
LEMMA PlainKeysStep ==
  ASSUME KeysInv, \/ ClosePage \/ Arrow
                  \/ \E selector \in {0, 1} : Side(selector)
                  \/ \E by \in {-1, 1} : Line(by)
                  \/ \E text \in Typed \cup {""} : Text(text)
  PROVE  KeysInv'
<1> SUFFICES UNCHANGED <<toggle, list_selected>>
  BY BothKept
<1> USE DEF OnPages, InLists, telescopeVars, Focus
<1>1. CASE ClosePage
  BY <1>1 DEF ClosePage
<1>2. CASE Arrow
  BY <1>2 DEF Arrow
<1>3. CASE \E selector \in {0, 1} : Side(selector)
  BY <1>3 DEF Side
<1>4. CASE \E by \in {-1, 1} : Line(by)
  BY <1>4 DEF Line, MoveCursor
<1>5. CASE \E text \in Typed \cup {""} : Text(text)
  BY <1>5 DEF Text, Type
<1> QED
  BY <1>1, <1>2, <1>3, <1>4, <1>5

\* Return, wherever it is.
LEMMA ReturnStep ==
  ASSUME KeysInv, \/ ReturnInBox \/ ReturnInOptions \/ ReturnInMyself \/ ReturnInChats
                  \/ ReturnInFriends \/ ReturnInFriendMenu \/ ReturnInRequestMenu \/ ReturnOnPage
  PROVE  KeysInv'
<1> USE DEF telescopeVars
<1>1. CASE ReturnInBox
  BY <1>1, BothKept DEF ReturnInBox, InLists, SearchFor
<1>2. CASE ReturnInOptions
  <2>1. CASE \E page \in {About, Help} : ShowPage(page, menu)
    BY <2>1, PageOpens
  <2>2. CASE UNCHANGED <<toggle, pageVars, telescopeVars, chosen>>
    BY <2>2, BothKept
  <2>3. ASSUME NEW list \in {FRIEND, CHAT, MYSELF}, OpenFromCommon(list), UNCHANGED toggle
        PROVE  KeysInv'
    <3>1. list \in COMMON .. GROUP
      BY DEF FRIEND, CHAT, MYSELF, COMMON, GROUP
    <3>2. toggle = 1
      BY <1>2 DEF ReturnInOptions, InList
    <3> QED
      BY <2>3, <3>1, <3>2, BothOpen DEF OpenFromCommon
  <2> QED
    BY <1>2, <2>1, <2>2, <2>3 DEF ReturnInOptions
<1>3. CASE ReturnInMyself
  BY <1>3, BothKept DEF ReturnInMyself, InLists
<1>4. CASE ReturnInChats
  BY <1>4, BothKept, ChatOpens DEF ReturnInChats, Strays
<1>5. CASE ReturnInFriends
  BY <1>5, BothKept DEF ReturnInFriends, Strays, OpenMenu
<1>6. CASE ReturnInFriendMenu
  BY <1>6, BothKept, ChatOpens DEF ReturnInFriendMenu, Strays, CloseMenu
<1>7. CASE ReturnInRequestMenu
  BY <1>7, BothKept DEF ReturnInRequestMenu, Strays, CloseMenu
<1>8. CASE ReturnOnPage
  BY <1>8, BothKept DEF ReturnOnPage, OnPages
<1> QED
  BY <1>1, <1>2, <1>3, <1>4, <1>5, <1>6, <1>7, <1>8

\* Frames, events and drawings.
LEMMA LoopStep ==
  ASSUME KeysInv, Frame \/ HandleEvent \/ Drains \/ Draw
  PROVE  KeysInv'
<1> USE DEF telescopeVars
<1>1. CASE Frame
  BY <1>1, BothKept DEF Frame
<1>2. CASE HandleEvent
  <2>1. CASE MakeChat \/ Passes
    BY <2>1, BothKept DEF MakeChat, Passes, InLists, OnPages, Focus
  <2>2. CASE InLists /\ ShowResults
    BY <2>2, BothOpen DEF InLists, ShowResults, MYSELF, COMMON, GROUP
  <2> QED
    BY <1>2, <2>1, <2>2 DEF HandleEvent
<1>3. CASE Drains
  BY <1>3, BothKept DEF Drains, windowVars
<1>4. CASE Draw
  BY <1>4, BothKept DEF Draw, DrawList
<1> QED
  BY <1>1, <1>2, <1>3, <1>4

\* They agree when the window starts, and after every step.
LEMMA KeysFirst == Init => KeysInv
<1> SUFFICES ASSUME Init PROVE KeysInv
  OBVIOUS
<1>1. toggle = 0
  BY DEF Init
<1>2. PICK start \in Starts : TelescopeInit(start.known, start.talks, start.asking)
  BY Zenon DEF Init
<1>3. list_selected = Closed
  BY <1>2, Zenon DEF TelescopeInit
<1> QED
  BY <1>1, <1>3 DEF KeysInv

LEMMA KeysStep ==
  ASSUME KeysInv, [Next]_vars
  PROVE  KeysInv'
<1>1. CASE Keys
  BY <1>1, ListKeysStep, PlainKeysStep, ReturnStep DEF Keys
<1>2. CASE UNCHANGED vars
  BY <1>2, BothKept DEF vars, telescopeVars, windowVars
<1> QED
  BY <1>1, <1>2, LoopStep DEF Next

\* The two selectors agree, whatever keys, frames, events and drawings come:
\* Vchat::selected and Telescope::list_selected are never set apart.
THEOREM ListsHaveKeys == Spec => []OpenIffList
<1>1. KeysInv => OpenIffList
  BY DEF KeysInv, OpenIffList
<1> QED
  BY <1>1, KeysFirst, KeysStep, PTL DEF Spec

-----------------------------------------------------------------------------
(* What the two lists hold when they are drawn                             *)

\* Users are natural numbers from 1, and finitely many.
LEMMA UsersCounted ==
  ASSUME NEW S \in SUBSET User
  PROVE  /\ S \in SUBSET Nat /\ 0 \notin S
         /\ IsFiniteSet(S) /\ Cardinality(S) \in Nat
         /\ Cardinality(User) \in Nat /\ Cardinality(S) <= Cardinality(User)
<1>1. User \in SUBSET Nat /\ 0 \notin User /\ IsFiniteSet(User)
  BY PagesAssumption, TelescopeAssumption
<1>2. IsFiniteSet(S) /\ Cardinality(S) <= Cardinality(User)
  BY <1>1, FS_Subset
<1> QED
  BY <1>1, <1>2, FS_CardinalityType

\* There are twice as many entries: each user once as a friend, once as asking.
LEMMA EntriesCounted == Cardinality(Entry) = 2 * Cardinality(User)
<1> DEFINE asking == {-u : u \in User}
           f == [u \in User |-> -u]
<1>1. User \in SUBSET Nat /\ 0 \notin User /\ IsFiniteSet(User) /\ Cardinality(User) \in Nat
  BY UsersCounted
<1>2. f \in [User -> asking]
  OBVIOUS
<1>3. \A u, v \in User : f[u] = f[v] => u = v
  BY <1>1
<1>4. \A e \in asking : \E u \in User : f[u] = e
  OBVIOUS
<1>5. f \in Bijection(User, asking)
  <2> HIDE DEF f, asking
  <2> QED
    BY <1>2, <1>3, <1>4 DEF Bijection, Injection, Surjection, IsInjective
<1>6. IsFiniteSet(asking) /\ Cardinality(asking) = Cardinality(User)
  <2>1. ExistsBijection(User, asking)
    BY <1>5 DEF ExistsBijection
  <2> QED
    BY <1>1, <2>1, FS_Bijection
<1>7. User \cap asking = {}
  BY <1>1
<1>8. Cardinality(User \cup asking) = Cardinality(User) + Cardinality(asking) - Cardinality({})
  <2> HIDE DEF asking
  <2> QED
    BY <1>1, <1>6, <1>7, FS_Union
<1> QED
  BY <1>1, <1>6, <1>8, FS_EmptySet DEF Entry

\* A text in the box leaves some of the ids.
LEMMA FoundAmong ==
  ASSUME NEW ids, NEW matches
  PROVE  Found(ids, matches) \in SUBSET ids
BY DEF Found

\* The list of friends: the friends that are found, then those who ask.
LEMMA FriendsListed ==
  ASSUME friends \in SUBSET User, requests \in SUBSET User
  PROVE  /\ FriendsNow \in Seq(Entry)
         /\ Len(FriendsNow) = Cardinality(FoundFriends) + Cardinality(requests)
         /\ Cardinality(FoundFriends) \in Nat /\ Cardinality(requests) \in Nat
         /\ Len(FriendsNow) <= Cardinality(Entry)
         /\ \A i \in 1 .. Len(FriendsNow) : FriendsNow[i] <= 0 => -FriendsNow[i] \in requests
         /\ \A i \in 1 .. Len(FriendsNow) : FriendsNow[i] > 0 => FriendsNow[i] \in friends
<1> DEFINE known == Sorted(FoundFriends)
           asking == Sorted(requests)
           negated == [i \in DOMAIN asking |-> -asking[i]]
<1>1. FoundFriends \in SUBSET User
  BY FoundAmong DEF FoundFriends
<1>2. /\ known \in Seq(FoundFriends) /\ Len(known) = Cardinality(FoundFriends)
      /\ Cardinality(FoundFriends) \in Nat /\ Cardinality(FoundFriends) <= Cardinality(User)
  BY <1>1, UsersCounted, SortedLists
<1>3. /\ asking \in Seq(requests) /\ Len(asking) = Cardinality(requests)
      /\ Cardinality(requests) \in Nat /\ Cardinality(requests) <= Cardinality(User)
  BY UsersCounted, SortedLists
<1>4. Cardinality(User) \in Nat /\ \A u \in User : u \in Nat \ {0}
  BY UsersCounted, PagesAssumption
<1> HIDE DEF known, asking
<1>5. /\ negated \in Seq({-u : u \in requests}) /\ Len(negated) = Cardinality(requests)
      /\ \A i \in 1 .. Len(negated) : negated[i] = -asking[i] /\ asking[i] \in requests
  BY <1>3
<1>6. FriendsNow = known \o negated
  BY DEF FriendsNow, known, asking
<1> HIDE DEF negated
<1>7. /\ known \in Seq(Entry) /\ negated \in Seq(Entry)
  <2>1. known \in Seq(Entry)
    BY <1>1, <1>2 DEF Entry
  <2>2. {-u : u \in requests} \subseteq Entry
    BY DEF Entry
  <2> QED
    BY <1>5, <2>1, <2>2
<1>8. /\ FriendsNow \in Seq(Entry) /\ Len(FriendsNow) = Len(known) + Len(negated)
      /\ Len(FriendsNow) = Cardinality(FoundFriends) + Cardinality(requests)
      /\ \A i \in 1 .. Len(FriendsNow) :
           FriendsNow[i] = IF i <= Len(known) THEN known[i] ELSE negated[i - Len(known)]
  <2>1. /\ known \o negated \in Seq(Entry) /\ Len(known \o negated) = Len(known) + Len(negated)
        /\ \A i \in 1 .. Len(known) + Len(negated) :
             (known \o negated)[i] = IF i <= Len(known) THEN known[i] ELSE negated[i - Len(known)]
    BY <1>7
  <2> QED
    BY <1>2, <1>5, <1>6, <2>1
<1>9. Len(FriendsNow) <= Cardinality(Entry)
  BY <1>2, <1>3, <1>4, <1>8, EntriesCounted
<1>10. ASSUME NEW i \in 1 .. Len(FriendsNow), FriendsNow[i] <= 0
       PROVE  -FriendsNow[i] \in requests
  <2>1. CASE i <= Len(known)
    <3>1. FriendsNow[i] = known[i] /\ known[i] \in User
      BY <1>1, <1>2, <1>7, <1>8, <2>1
    <3> QED
      BY <1>4, <1>10, <3>1
  <2>2. CASE i > Len(known)
    <3> DEFINE j == i - Len(known)
    <3>1. j \in 1 .. Len(negated) /\ FriendsNow[i] = negated[j]
      BY <1>2, <1>3, <1>5, <1>8, <2>2
    <3>2. negated[j] = -asking[j] /\ asking[j] \in requests
      BY <1>5, <3>1
    <3> HIDE DEF j
    <3>3. asking[j] \in Nat
      BY <1>4, <3>2
    <3> QED
      BY <3>1, <3>2, <3>3
  <2> QED
    BY <1>2, <2>1, <2>2
<1>11. ASSUME NEW i \in 1 .. Len(FriendsNow), FriendsNow[i] > 0
       PROVE  FriendsNow[i] \in friends
  <2>1. CASE i <= Len(known)
    <3>1. FriendsNow[i] = known[i] /\ known[i] \in FoundFriends
      BY <1>2, <1>8, <2>1
    <3> QED
      BY <3>1, FoundAmong DEF FoundFriends
  <2>2. CASE i > Len(known)
    <3> DEFINE j == i - Len(known)
    <3>1. j \in 1 .. Len(negated) /\ FriendsNow[i] = negated[j]
      BY <1>2, <1>3, <1>5, <1>8, <2>2
    <3>2. negated[j] = -asking[j] /\ asking[j] \in requests
      BY <1>5, <3>1
    <3> HIDE DEF j
    <3>3. asking[j] \in Nat
      BY <1>4, <3>2
    <3> QED
      BY <1>11, <3>1, <3>2, <3>3
  <2> QED
    BY <1>2, <2>1, <2>2
<1> QED
  BY <1>2, <1>3, <1>8, <1>9, <1>10, <1>11

\* The list of chats: friends with messages.
LEMMA ChatsListed ==
  ASSUME friends \in SUBSET User, talked \in SUBSET User
  PROVE  /\ ChatsNow \in Seq(friends) /\ ChatsNow \in Seq(User)
         /\ Len(ChatsNow) \in Nat /\ Len(ChatsNow) <= Cardinality(User)
<1> DEFINE ids == talked \cap (FoundFriends \cup Found(friends, Said))
<1>1. ids \in SUBSET friends /\ ids \in SUBSET User
  BY FoundAmong DEF FoundFriends
<1>2. /\ Sorted(ids) \in Seq(ids) /\ Len(Sorted(ids)) = Cardinality(ids)
      /\ Cardinality(ids) \in Nat /\ Cardinality(ids) <= Cardinality(User)
  <2> HIDE DEF ids
  <2> QED
    BY <1>1, UsersCounted, SortedLists
<1>3. ChatsNow = Sorted(ids)
  BY DEF ChatsNow
<1> HIDE DEF ids
<1> QED
  BY <1>1, <1>2, <1>3

-----------------------------------------------------------------------------
(* Types                                                                   *)

\* The other parts of the state, each with its type; the lists are no longer
\* than the sets they are made of.
InfoTyped ==
  /\ friends \in SUBSET User /\ requests \in SUBSET User /\ blank \in SUBSET requests
  /\ talked \in SUBSET User

ListsTyped ==
  /\ list_selected \in {Closed, COMMON, MYSELF, CHAT, FRIEND, GROUP}
  /\ focus \in {LIST, INPUT}
  /\ ss \in Typed \cup {""}
  /\ chatsList \in Seq(User) /\ Len(chatsList) <= Cardinality(User)
  /\ chatsSelected \in 0 .. Cardinality(User)
  /\ friendsList \in Seq(Entry) /\ Len(friendsList) <= Cardinality(Entry)
  /\ friend_selected \in 0 .. Cardinality(Entry)
  /\ menu \in {0, 1} /\ filled \in SUBSET {CHAT, FRIEND}
  /\ function_selected \in {0, 1}

LoopTyped ==
  /\ toggle \in {0, 1}
  /\ queue \in Seq(Events) /\ frames \in 0 .. MaxFrames
  /\ loop \in {"waits", "events", "draws"}
  /\ keyed \in BOOLEAN /\ again \in BOOLEAN /\ ahead \in 0 .. MaxAhead
  /\ fate \in Fates
  /\ chosen \in Entry \cup {Nowhere}

TypeInv == PagesTypeOK /\ InfoTyped /\ ListsTyped /\ LoopTyped

\* Where the selector may be while it is on a page.
OnPage(children) == IF children = <<>> THEN {0} ELSE 0 .. Len(children) - 1

\* What FTXUI makes of a selector is always on a page.
LEMMA SettledOnPage ==
  ASSUME NEW C \in Seq(Page), NEW selector \in Int
  PROVE  Settled(C, selector) \in OnPage(C)
<1>1. C # <<>> => Len(C) \in Nat \ {0} /\ selector % Len(C) \in 0 .. Len(C) - 1
  <2> SUFFICES ASSUME C # <<>> PROVE Len(C) \in Nat \ {0} /\ selector % Len(C) \in 0 .. Len(C) - 1
    OBVIOUS
  <2>1. Len(C) \in Nat \ {0}
    OBVIOUS
  <2> DEFINE n == Len(C)
  <2> HIDE DEF n
  <2>2. n \in Nat \ {0} => selector % n \in 0 .. n - 1
    OBVIOUS
  <2> QED
    BY <2>1, <2>2 DEF n
<1> DEFINE active == ActiveIndex(C, selector)
<1>2. C # <<>> => active \in 0 .. Len(C) - 1
  BY <1>1 DEF ActiveIndex
<1>3. Clamp(C, selector) \in OnPage(C)
  BY <1>1 DEF Clamp, OnPage
<1> QED
  BY <1>2, <1>3 DEF Settled, OnPage

\* A page that goes leaves the others, in their order.
LEMMA PageDetached ==
  ASSUME NEW C \in Seq(Page), NEW i \in 0 .. Len(C) - 1
  PROVE  /\ DetachAt(C, i) \in Seq(Page) /\ Len(DetachAt(C, i)) = Len(C) - 1
         /\ \A k \in 1 .. Len(C) - 1 : \E j \in 1 .. Len(C) : DetachAt(C, i)[k] = C[j]
<1>1. Len(C) \in Nat \ {0}
  OBVIOUS
<1>2. \A k \in 1 .. Len(C) - 1 :
        /\ (IF k <= i THEN k ELSE k + 1) \in 1 .. Len(C)
        /\ DetachAt(C, i)[k] = C[IF k <= i THEN k ELSE k + 1]
  BY <1>1 DEF DetachAt
<1>3. DetachAt(C, i) \in [1 .. Len(C) - 1 -> Page]
  <2>1. DetachAt(C, i) = [k \in 1 .. Len(C) - 1 |-> DetachAt(C, i)[k]]
    BY DEF DetachAt
  <2>2. \A k \in 1 .. Len(C) - 1 : DetachAt(C, i)[k] \in Page
    BY <1>2
  <2> QED
    BY <2>1, <2>2
<1> QED
  BY <1>1, <1>2, <1>3

\* A page that is looked for goes once, if it is there.
LEMMA PageFound ==
  ASSUME NEW C \in Seq(Page), NEW page
  PROVE  \/ Detach(C, page) = C /\ \A i \in 1 .. Len(C) : C[i] # page
         \/ /\ Detach(C, page) \in Seq(Page) /\ Len(Detach(C, page)) = Len(C) - 1
            /\ \A k \in 1 .. Len(C) - 1 : \E j \in 1 .. Len(C) : Detach(C, page)[k] = C[j]
<1> DEFINE places == {i \in DOMAIN C : C[i] = page}
           at == (CHOOSE i \in places : TRUE) - 1
<1>1. CASE places = {}
  BY <1>1 DEF Detach
<1>2. CASE places # {}
  <2>1. (CHOOSE i \in places : TRUE) \in 1 .. Len(C)
    BY <1>2
  <2>2. at \in 0 .. Len(C) - 1
    BY <2>1
  <2>3. Detach(C, page) = DetachAt(C, at)
    BY <1>2 DEF Detach
  <2> HIDE DEF at
  <2>4. /\ DetachAt(C, at) \in Seq(Page) /\ Len(DetachAt(C, at)) = Len(C) - 1
        /\ \A k \in 1 .. Len(C) - 1 : \E j \in 1 .. Len(C) : DetachAt(C, at)[k] = C[j]
    BY <2>2, PageDetached
  <2> QED
    BY <2>3, <2>4
<1> QED
  BY <1>1, <1>2

\* What a key does to the open pages.
PagesMoved ==
  \/ UNCHANGED <<pages, page_selected>>
  \/ UNCHANGED pages /\ page_selected' \in OnPage(pages)
  \/ \E page \in Page : Show(page)
  \/ page_selected \in 0 .. Len(pages) - 1 /\ Close

\* A page is put in the place of the first of two, or beside the only one.
LEMMA ShowMoves ==
  ASSUME PagesTypeOK, NEW page \in Page, Show(page)
  PROVE  /\ pages' \in Seq(Page) /\ (Len(pages') = 1 \/ Len(pages') = 2)
         /\ page_selected' = IF pages = <<>> THEN -1 ELSE 0
<1> DEFINE rest == IF Len(pages) = 2 THEN Tail(pages) ELSE pages
<1>1. /\ rest \in Seq(Page) /\ Len(rest) = IF pages = <<>> THEN 0 ELSE 1
  <2>1. pages \in Seq(Page) /\ Len(pages) \in Nat /\ Len(pages) <= 2
    <3>1. pages \in Seq(Page) /\ Len(pages) <= 2
      BY DEF PagesTypeOK
    <3>2. Len(pages) \in Nat
      BY <3>1
    <3> QED
      BY <3>1, <3>2
  <2>2. CASE Len(pages) = 2
    <3>1. pages # <<>>
      BY <2>2
    <3>2. Tail(pages) \in Seq(Page) /\ Len(Tail(pages)) = Len(pages) - 1
      BY <2>1, <3>1
    <3> QED
      BY <2>2, <3>1, <3>2
  <2>3. CASE Len(pages) # 2
    <3>1. Len(pages) = 0 <=> pages = <<>>
      BY <2>1
    <3>2. rest = pages
      BY <2>3
    <3>3. Len(pages) = 0 \/ Len(pages) = 1
      <4> DEFINE n == Len(pages)
      <4>1. n \in Nat /\ n <= 2 /\ n # 2
        BY <2>1, <2>3
      <4> HIDE DEF n
      <4>2. n = 0 \/ n = 1
        BY <4>1
      <4> QED
        BY <4>2 DEF n
    <3>4. Len(pages) = IF pages = <<>> THEN 0 ELSE 1
      BY <3>1, <3>3, Zenon
    <3> QED
      BY <2>1, <3>2, <3>4, Zenon
  <2> QED
    BY <2>2, <2>3
<1>2. pages' = Append(Detach(rest, page), page) /\ page_selected' = Len(rest) - 1
  BY DEF Show, Attach
<1> HIDE DEF rest
<1>3. Detach(rest, page) \in Seq(Page) /\ Len(Detach(rest, page)) \in {Len(rest), Len(rest) - 1}
  BY <1>1, PageFound
<1>4. Len(Detach(rest, page)) \in {0, 1}
  BY <1>1, <1>3
<1> QED
  BY <1>1, <1>2, <1>3, <1>4

\* A page that is closed goes, and the selector is on one that is left.
LEMMA CloseMoves ==
  ASSUME PagesTypeOK, page_selected \in 0 .. Len(pages) - 1, Close
  PROVE  /\ pages' \in Seq(Page) /\ Len(pages') = Len(pages) - 1
         /\ page_selected' \in OnPage(pages')
<1>1. pages \in Seq(Page) /\ page_selected \in Int
  BY DEF PagesTypeOK
<1>2. pages' = DetachAt(pages, page_selected) /\ page_selected' = Settled(pages', page_selected)
  BY DEF Close
<1>3. pages' \in Seq(Page) /\ Len(pages') = Len(pages) - 1
  BY <1>1, <1>2, PageDetached
<1> QED
  BY <1>1, <1>2, <1>3, SettledOnPage

\* The types of the pages outlast a key.
LEMMA MovesTyped ==
  ASSUME PagesTypeOK, PagesMoved, UNCHANGED chats
  PROVE  PagesTypeOK'
<1>1. CASE UNCHANGED <<pages, page_selected>>
  BY <1>1 DEF PagesTypeOK
<1>2. CASE UNCHANGED pages /\ page_selected' \in OnPage(pages)
  BY <1>2 DEF PagesTypeOK, OnPage
<1>3. CASE \E page \in Page : Show(page)
  <2>1. pages' \in Seq(Page) /\ Len(pages') <= 2 /\ page_selected' \in -1 .. 1
    <3>1. pages' \in Seq(Page)
      BY <1>3, ShowMoves
    <3>4. Len(pages') = 1 \/ Len(pages') = 2
      BY <1>3, ShowMoves
    <3>2. page_selected' = -1 \/ page_selected' = 0
      BY <1>3, ShowMoves
    <3>3. page_selected' \in -1 .. 1
      BY <3>2
    <3>5. Len(pages') <= 2
      <4>1. \A n : n = 1 \/ n = 2 => n <= 2
        OBVIOUS
      <4> QED
        BY <3>4, <4>1, Zenon
    <3> QED
      BY <3>1, <3>3, <3>5
  <2> QED
    BY <2>1 DEF PagesTypeOK
<1>4. CASE page_selected \in 0 .. Len(pages) - 1 /\ Close
  BY <1>4, CloseMoves DEF PagesTypeOK, OnPage
<1> QED
  BY <1>1, <1>2, <1>3, <1>4 DEF PagesMoved

\* An event brought to the pages, and arrow keys, leave the selector on one.
LEMMA ReachMoves ==
  ASSUME PagesTypeOK, NEW selector \in Int, Reach(selector) \/ Move
  PROVE  PagesMoved /\ UNCHANGED chats
<1>1. CASE Reach(selector)
  <2>1. pages \in Seq(Page)
    BY DEF PagesTypeOK
  <2>2. Settled(pages, selector) \in OnPage(pages)
    BY <2>1, SettledOnPage
  <2> QED
    BY <1>1, <2>2 DEF Reach, PagesMoved
<1>2. CASE Move
  BY <1>2 DEF Move, PagesMoved, OnPage
<1> QED
  BY <1>1, <1>2

\* A page that is opened from a list.
LEMMA ChatMoves ==
  ASSUME PagesTypeOK, NEW id, NEW newMenu, OpenChat(id, newMenu)
  PROVE  PagesMoved /\ UNCHANGED chats
<1>1. CASE id \in chats
  <2>1. ChatPage(id) \in Page
    BY <1>1 DEF PagesTypeOK, ChatPage, Page
  <2>2. Show(ChatPage(id))
    BY <1>1 DEF OpenChat, ShowPage
  <2>3. UNCHANGED chats
    BY <2>2 DEF Show
  <2> QED
    BY <2>1, <2>2, <2>3 DEF PagesMoved
<1>2. CASE id \notin chats
  BY <1>2 DEF OpenChat, pageVars, PagesMoved
<1> QED
  BY <1>1, <1>2

\* Every key does no more to the pages than that.
LEMMA KeysMove ==
  ASSUME PagesTypeOK, Keys
  PROVE  PagesMoved /\ UNCHANGED chats
<1> USE DEF pageVars
<1>1. page_selected \in Int /\ 0 \in Int /\ 1 \in Int
  BY DEF PagesTypeOK
<1>2. UNCHANGED pageVars => PagesMoved /\ UNCHANGED chats
  BY DEF PagesMoved
<1>3. ASSUME NEW list \in COMMON .. GROUP, ListKey(list) PROVE PagesMoved /\ UNCHANGED chats
  BY <1>1, <1>2, <1>3, ReachMoves DEF ListKey, InLists
<1>4. CASE CloseLists
  BY <1>2, <1>4 DEF CloseLists
<1>5. CASE ClosePage
  <2>1. CASE page_selected \in 0 .. Len(pages) - 1
    BY <1>5, <2>1 DEF ClosePage, Close, PagesMoved
  <2>2. CASE page_selected \notin 0 .. Len(pages) - 1
    BY <1>2, <1>5, <2>2 DEF ClosePage
  <2> QED
    BY <2>1, <2>2
<1>6. CASE Arrow
  BY <1>1, <1>2, <1>6, ReachMoves DEF Arrow, InLists
<1>7. ASSUME NEW selector \in {0, 1}, Side(selector) PROVE PagesMoved /\ UNCHANGED chats
  BY <1>2, <1>7, ReachMoves DEF Side, InLists
<1>8. ASSUME NEW by \in {-1, 1}, Line(by) PROVE PagesMoved /\ UNCHANGED chats
  BY <1>1, <1>2, <1>8, ReachMoves DEF Line, InLists
<1>9. ASSUME NEW text \in Typed \cup {""}, Text(text) PROVE PagesMoved /\ UNCHANGED chats
  BY <1>1, <1>2, <1>9, ReachMoves DEF Text, InLists
<1>10. CASE ReturnInBox \/ ReturnInMyself \/ ReturnInFriends \/ ReturnInRequestMenu
  BY <1>2, <1>10 DEF ReturnInBox, ReturnInMyself, ReturnInFriends, ReturnInRequestMenu, InLists, Strays
<1>11. CASE ReturnInOptions
  <2>1. ASSUME NEW page \in {About, Help}, ShowPage(page, menu) PROVE PagesMoved /\ UNCHANGED chats
    <3>1. page \in Page
      BY DEF Page
    <3> QED
      BY <2>1, <3>1 DEF ShowPage, Show, PagesMoved
  <2> QED
    BY <1>2, <1>11, <2>1 DEF ReturnInOptions
<1>12. CASE ReturnInChats
  BY <1>2, <1>12, ChatMoves DEF ReturnInChats, Strays
<1>13. CASE ReturnInFriendMenu
  BY <1>2, <1>13, ChatMoves DEF ReturnInFriendMenu, Strays
<1>14. CASE ReturnOnPage
  BY <1>1, <1>14, ReachMoves DEF ReturnOnPage
<1> QED
  BY <1>3, <1>4, <1>5, <1>6, <1>7, <1>8, <1>9, <1>10, <1>11, <1>12, <1>13, <1>14 DEF Keys

\* A friend's new page takes the place of his old one, which stays open.
LEMMA MakeMoves ==
  ASSUME PagesTypeOK, NEW u \in User, Make(u)
  PROVE  /\ pages' \in Seq(Page) /\ Len(pages') = Len(pages)
         /\ chats' \in SUBSET User
         /\ \A i \in 1 .. Len(pages) : pages'[i] = Empty => pages[i] = Empty
<1>1. pages \in Seq(Page) /\ chats \in SUBSET User
  BY DEF PagesTypeOK
<1> DEFINE old == [ChatPage(u) EXCEPT !.current = FALSE]
<1>2. old \in [friend : User, current : BOOLEAN]
  BY DEF ChatPage
<1>3. old \in Page /\ old # Empty
  BY <1>2, PagesAssumption DEF Page
<1>4. pages' = [i \in 1 .. Len(pages) |-> IF pages[i] = ChatPage(u) THEN old ELSE pages[i]]
  BY <1>1 DEF Make
<1> HIDE DEF old
<1>5. pages' \in Seq(Page) /\ Len(pages') = Len(pages)
  <2>1. pages' \in [1 .. Len(pages) -> Page] /\ Len(pages) \in Nat
    BY <1>1, <1>3, <1>4
  <2> QED
    BY <2>1
<1>6. \A i \in 1 .. Len(pages) : pages'[i] = Empty => pages[i] = Empty
  BY <1>3, <1>4
<1>7. chats' \in SUBSET User
  BY <1>1 DEF Make
<1> QED
  BY <1>5, <1>6, <1>7

\* The renderer takes the empty page away where there is another one.
LEMMA DrawMoves ==
  ASSUME PagesTypeOK, DrawPages
  PROVE  /\ pages' \in Seq(Page) /\ Len(pages') <= 2 /\ pages' # <<>>
         /\ \/ pages = <<>> /\ pages' = <<Empty>>
            \/ UNCHANGED pages /\ (Len(pages) = 2 => \A i \in 1 .. 2 : pages[i] # Empty)
            \/ Len(pages) = 2 /\ Len(pages') = 1 /\ \E i \in 1 .. 2 : pages[i] = Empty
         /\ UNCHANGED <<page_selected, chats>>
<1>1. pages \in Seq(Page) /\ Len(pages) \in Nat /\ Len(pages) <= 2
  <2>1. pages \in Seq(Page) /\ Len(pages) <= 2
    BY DEF PagesTypeOK
  <2>2. Len(pages) \in Nat
    BY <2>1
  <2> QED
    BY <2>1, <2>2
<1>2. Len(pages) = 0 \/ Len(pages) = 1 \/ Len(pages) = 2
  <2>1. \A n \in Nat : n <= 2 => n = 0 \/ n = 1 \/ n = 2
    OBVIOUS
  <2> QED
    BY <1>1, <2>1, Zenon
<1>3. CASE pages = <<>>
  <2>1. pages' = <<Empty>>
    BY <1>3 DEF DrawPages
  <2>2. <<Empty>> \in Seq(Page) /\ Len(<<Empty>>) <= 2 /\ <<Empty>> # <<>>
    BY DEF Page
  <2> QED
    BY <1>3, <2>1, <2>2 DEF DrawPages
<1>4. CASE Len(pages) = 1
  <2>1. UNCHANGED pages /\ pages # <<>>
    BY <1>4 DEF DrawPages
  <2> QED
    BY <1>1, <1>4, <2>1 DEF DrawPages
<1>5. CASE Len(pages) = 2
  <2>1. pages # <<>> /\ pages' = Detach(pages, Empty)
    BY <1>5 DEF DrawPages
  <2>2. CASE Detach(pages, Empty) = pages /\ \A i \in 1 .. Len(pages) : pages[i] # Empty
    BY <1>1, <1>5, <2>1, <2>2 DEF DrawPages
  <2>3. CASE ~(Detach(pages, Empty) = pages /\ \A i \in 1 .. Len(pages) : pages[i] # Empty)
    <3>1. pages' \in Seq(Page) /\ Len(pages') = 1
      <4>1. Detach(pages, Empty) \in Seq(Page) /\ Len(Detach(pages, Empty)) = Len(pages) - 1
        BY <1>1, <2>3, PageFound
      <4> QED
        BY <1>5, <2>1, <4>1
    <3>2. \E i \in 1 .. Len(pages) : pages[i] = Empty
      <4> SUFFICES ASSUME \A i \in 1 .. Len(pages) : pages[i] # Empty PROVE FALSE
        OBVIOUS
      <4>1. {i \in DOMAIN pages : pages[i] = Empty} = {}
        BY <1>1
      <4>2. Detach(pages, Empty) = pages
        BY <4>1 DEF Detach
      <4> QED
        BY <2>3, <4>2
    <3>3. pages' # <<>>
      BY <3>1
    <3>4. Len(pages') <= 2 /\ \E i \in 1 .. 2 : pages[i] = Empty
      BY <1>5, <3>1, <3>2
    <3>5. UNCHANGED <<page_selected, chats>>
      BY DEF DrawPages
    <3> QED
      BY <1>5, <3>1, <3>3, <3>4, <3>5, Zenon
  <2> QED
    BY <2>2, <2>3
<1>6. Len(pages) = 0 => pages = <<>>
  BY <1>1
<1> QED
  BY <1>2, <1>3, <1>4, <1>5, <1>6

\* What posted events and drawings do to the pages keeps their types.
LEMMA LoopPagesTyped ==
  ASSUME PagesTypeOK, InfoTyped, Frame \/ HandleEvent \/ Drains \/ Draw
  PROVE  PagesTypeOK'
<1> USE DEF pageVars
<1>1. UNCHANGED pageVars => PagesTypeOK'
  BY DEF PagesTypeOK
<1>2. page_selected \in Int
  BY DEF PagesTypeOK
<1>3. CASE Frame
  BY <1>1, <1>3 DEF Frame
<1>4. CASE HandleEvent
  <2>1. CASE Passes
    <3>1. CASE OnPages /\ Reach(page_selected)
      BY <1>2, <3>1, ReachMoves, MovesTyped
    <3>2. CASE InLists
      BY <1>1, <3>2 DEF InLists
    <3> QED
      BY <2>1, <3>1, <3>2 DEF Passes
  <2>2. CASE InLists
    BY <1>1, <2>2 DEF InLists
  <2>3. CASE MakeChat /\ ~Passes
    <3>1. PICK u \in requests \ blank :
            /\ Make(u)
            /\ \/ toggle = 1 /\ Focus(INPUT) /\ UNCHANGED page_selected
               \/ toggle = 0 /\ page_selected' = Settled(pages', page_selected) /\ UNCHANGED telescopeVars
      BY <2>3 DEF MakeChat
    <3>2. u \in User
      BY DEF InfoTyped
    <3>3. pages' \in Seq(Page) /\ Len(pages') = Len(pages) /\ chats' \in SUBSET User
      BY <3>1, <3>2, MakeMoves
    <3>4. page_selected' \in OnPage(pages') \/ UNCHANGED page_selected
      BY <1>2, <3>1, <3>3, SettledOnPage
    <3> QED
      BY <3>3, <3>4 DEF PagesTypeOK, OnPage
  <2> QED
    BY <1>4, <2>1, <2>2, <2>3 DEF HandleEvent
<1>5. CASE Drains
  BY <1>1, <1>5 DEF Drains
<1>6. CASE Draw
  <2>1. DrawPages
    BY <1>6 DEF Draw
  <2> QED
    BY <2>1, DrawMoves DEF PagesTypeOK
<1> QED
  BY <1>3, <1>4, <1>5, <1>6

\* Every operation on the lists keeps their types.
LEMMA ListOperationsTyped ==
  ASSUME ListsTyped
  PROVE  /\ UNCHANGED telescopeVars => ListsTyped'
         /\ \A list \in COMMON .. GROUP : OpenList(list) \/ OpenFromCommon(list) => ListsTyped'
         /\ \A newMenu \in {0, 1} : CloseList(newMenu) => ListsTyped'
         /\ \A newFocus \in {LIST, INPUT} : Focus(newFocus) => ListsTyped'
         /\ \A by \in {-1, 1} : MoveCursor(by) => ListsTyped'
         /\ \A text \in Typed \cup {""} : Type(text) => ListsTyped'
         /\ SearchFor \/ ShowResults \/ CloseMenu => ListsTyped'
         /\ \A entry : OpenMenu(entry) => ListsTyped'
<1> USE DEF chatsVars, friendsVars
<1>1. /\ Cardinality(User) \in Nat /\ Cardinality(Entry) \in Nat
      /\ Len(chatsList) \in 0 .. Cardinality(User) /\ Len(friendsList) \in 0 .. Cardinality(Entry)
  <2>1. Cardinality(User) \in Nat
    BY UsersCounted
  <2>2. Cardinality(Entry) \in Nat
    BY <2>1, EntriesCounted
  <2>3. /\ chatsList \in Seq(User) /\ Len(chatsList) <= Cardinality(User)
        /\ friendsList \in Seq(Entry) /\ Len(friendsList) <= Cardinality(Entry)
    BY DEF ListsTyped
  <2>4. Len(chatsList) \in Nat /\ Len(friendsList) \in Nat
    BY <2>3
  <2> QED
    BY <2>1, <2>2, <2>3, <2>4
<1>2. ASSUME UNCHANGED telescopeVars PROVE ListsTyped'
  BY <1>2 DEF ListsTyped, telescopeVars
<1>3. ASSUME NEW list \in COMMON .. GROUP, OpenList(list) \/ OpenFromCommon(list)
      PROVE  ListsTyped'
  <2>1. list \in {Closed, COMMON, MYSELF, CHAT, FRIEND, GROUP}
    BY DEF COMMON, MYSELF, CHAT, FRIEND, GROUP
  <2>2. 0 \in 0 .. Cardinality(User) /\ 0 \in 0 .. Cardinality(Entry)
    BY <1>1
  <2>3. chatsSelected' \in 0 .. Cardinality(User) /\ friend_selected' \in 0 .. Cardinality(Entry)
    BY <1>1, <1>3, <2>2, Zenon DEF OpenList, OpenFromCommon
  <2>4. function_selected' \in {0, 1}
    BY <1>3 DEF ListsTyped, OpenList, OpenFromCommon
  <2> QED
    BY <1>3, <2>1, <2>3, <2>4 DEF ListsTyped, OpenList, OpenFromCommon
<1>4. ASSUME NEW newMenu \in {0, 1}, CloseList(newMenu) PROVE ListsTyped'
  <2>1. 0 \in 0 .. Cardinality(User) /\ 0 \in 0 .. Cardinality(Entry)
    BY <1>1
  <2> QED
    BY <1>4, <2>1 DEF ListsTyped, CloseList
<1>5. ASSUME NEW newFocus \in {LIST, INPUT}, Focus(newFocus) PROVE ListsTyped'
  BY <1>5 DEF ListsTyped, Focus
<1>6. ASSUME NEW by \in {-1, 1}, MoveCursor(by) PROVE ListsTyped'
  <2>1. ASSUME NEW cursor \in Nat, NEW list, Len(list) \in Nat, NEW n \in Nat, cursor <= n, Len(list) <= n
        PROVE  Step(cursor, by, list) \in 0 .. n
    BY <2>1 DEF Step
  <2>2. friend_selected \in Nat /\ friend_selected <= Cardinality(Entry)
    <3>1. friend_selected \in 0 .. Cardinality(Entry)
      BY DEF ListsTyped
    <3> QED
      BY <1>1, <3>1
  <2>3. chatsSelected \in Nat /\ chatsSelected <= Cardinality(User)
    <3>1. chatsSelected \in 0 .. Cardinality(User)
      BY DEF ListsTyped
    <3> QED
      BY <1>1, <3>1
  <2>4. Step(friend_selected, by, friendsList) \in 0 .. Cardinality(Entry)
    BY <1>1, <2>1, <2>2
  <2>5. Step(chatsSelected, by, chatsList) \in 0 .. Cardinality(User)
    BY <1>1, <2>1, <2>3
  <2>6. friend_selected' \in 0 .. Cardinality(Entry) /\ chatsSelected' \in 0 .. Cardinality(User)
    BY <1>1, <1>6, <2>2, <2>3, <2>4, <2>5 DEF MoveCursor
  <2> QED
    BY <1>6, <2>6 DEF ListsTyped, MoveCursor
<1>7. ASSUME NEW text \in Typed \cup {""}, Type(text) PROVE ListsTyped'
  BY <1>7 DEF ListsTyped, Type
<1>8. ASSUME SearchFor \/ ShowResults \/ CloseMenu PROVE ListsTyped'
  <2>1. 0 \in 0 .. Cardinality(User) /\ 0 \in 0 .. Cardinality(Entry)
    BY <1>1
  <2>2. CASE SearchFor
    BY <2>2 DEF ListsTyped, SearchFor
  <2>3. CASE ShowResults
    BY <2>1, <2>3 DEF ListsTyped, ShowResults
  <2>4. CASE CloseMenu
    BY <2>4 DEF ListsTyped, CloseMenu
  <2> QED
    BY <1>8, <2>2, <2>3, <2>4
<1>9. ASSUME NEW entry, OpenMenu(entry) PROVE ListsTyped'
  <2>1. 0 \in 0 .. Cardinality(Entry)
    BY <1>1
  <2>2. Within(friend_selected) \in 0 .. Cardinality(Entry)
    BY <1>1, <2>1, Zenon DEF ListsTyped, Within
  <2> QED
    BY <1>9, <2>2 DEF ListsTyped, OpenMenu
<1> QED
  BY <1>2, <1>3, <1>4, <1>5, <1>6, <1>7, <1>8, <1>9

\* What is drawn is no longer than what there is to draw.
LEMMA DrawListTyped ==
  ASSUME ListsTyped, InfoTyped, DrawList
  PROVE  ListsTyped'
<1>1. ChatsNow \in Seq(User) /\ Len(ChatsNow) \in Nat /\ Len(ChatsNow) <= Cardinality(User)
  BY ChatsListed DEF InfoTyped
<1>2. FriendsNow \in Seq(Entry) /\ Len(FriendsNow) <= Cardinality(Entry)
  BY FriendsListed DEF InfoTyped
<1>3. Len(ChatsNow) \in 0 .. Cardinality(User)
  BY <1>1, UsersCounted
<1> HIDE DEF ChatsNow, FriendsNow
<1>4. /\ chatsList' \in Seq(User) /\ Len(chatsList') <= Cardinality(User)
      /\ chatsSelected' \in 0 .. Cardinality(User)
  BY <1>1, <1>3 DEF ListsTyped, DrawList
<1>5. friendsList' \in Seq(Entry) /\ Len(friendsList') <= Cardinality(Entry)
  BY <1>2 DEF ListsTyped, DrawList
<1>6. filled' \in SUBSET {CHAT, FRIEND}
  BY DEF ListsTyped, DrawList
<1> QED
  BY <1>4, <1>5, <1>6 DEF ListsTyped, DrawList

\* The ways in which the lists change when they are not drawn.
ListsMoved ==
  \/ UNCHANGED telescopeVars
  \/ \E list \in COMMON .. GROUP : OpenList(list) \/ OpenFromCommon(list)
  \/ \E newMenu \in {0, 1} : CloseList(newMenu)
  \/ \E newFocus \in {LIST, INPUT} : Focus(newFocus)
  \/ \E by \in {-1, 1} : MoveCursor(by)
  \/ \E text \in Typed \cup {""} : Type(text)
  \/ SearchFor \/ ShowResults \/ CloseMenu
  \/ \E entry : OpenMenu(entry)

\* They keep their types in any of them.
LEMMA ListsMovedTyped ==
  ASSUME ListsTyped, ListsMoved
  PROVE  ListsTyped'
BY ListOperationsTyped, Zenon DEF ListsMoved

\* Opening a chat closes the lists, or finds no page.
LEMMA ChatLists ==
  ASSUME NEW id, NEW newMenu \in {0, 1}, OpenChat(id, newMenu)
  PROVE  ListsMoved
BY DEF OpenChat, ShowPage, ListsMoved

\* Whatever key is handled, the lists change in one of those ways,
LEMMA KeysMoveLists ==
  ASSUME ListsTyped, Keys
  PROVE  ListsMoved
<1> USE DEF ListsMoved
<1>1. UNCHANGED telescopeVars => ListsMoved
  OBVIOUS
<1>2. menu \in {0, 1} /\ LIST \in {LIST, INPUT} /\ INPUT \in {LIST, INPUT}
  BY DEF ListsTyped
<1>3. ASSUME NEW list \in COMMON .. GROUP, ListKey(list) PROVE ListsMoved
  BY <1>2, <1>3 DEF ListKey
<1>4. CASE CloseLists
  BY <1>2, <1>4 DEF CloseLists
<1>5. CASE ClosePage
  BY <1>1, <1>5 DEF ClosePage, OnPages
<1>6. CASE Arrow
  BY <1>1, <1>6 DEF Arrow, OnPages
<1>7. ASSUME NEW selector \in {0, 1}, Side(selector) PROVE ListsMoved
  BY <1>1, <1>2, <1>7 DEF Side, OnPages
<1>8. ASSUME NEW by \in {-1, 1}, Line(by) PROVE ListsMoved
  BY <1>1, <1>8 DEF Line, OnPages
<1>9. ASSUME NEW text \in Typed \cup {""}, Text(text) PROVE ListsMoved
  BY <1>1, <1>9 DEF Text, OnPages
<1>10. CASE ReturnInBox
  BY <1>1, <1>10 DEF ReturnInBox
<1>11. CASE ReturnInOptions
  <2>1. ASSUME NEW page, ShowPage(page, menu) PROVE ListsMoved
    BY <1>2, <2>1 DEF ShowPage
  <2>2. ASSUME NEW list \in {FRIEND, CHAT, MYSELF}, OpenFromCommon(list) PROVE ListsMoved
    <3>1. list \in COMMON .. GROUP
      BY DEF FRIEND, CHAT, MYSELF, COMMON, GROUP
    <3> QED
      BY <2>2, <3>1
  <2> QED
    BY <1>1, <1>11, <2>1, <2>2 DEF ReturnInOptions
<1>12. CASE ReturnInMyself
  BY <1>1, <1>12 DEF ReturnInMyself
<1>13. CASE ReturnInChats
  BY <1>1, <1>2, <1>13, ChatLists DEF ReturnInChats, Strays
<1>14. CASE ReturnInFriends
  BY <1>1, <1>14 DEF ReturnInFriends, Strays
<1>15. CASE ReturnInFriendMenu
  BY <1>1, <1>15, ChatLists DEF ReturnInFriendMenu, Strays
<1>16. CASE ReturnInRequestMenu
  BY <1>1, <1>16 DEF ReturnInRequestMenu, Strays
<1>17. CASE ReturnOnPage
  BY <1>1, <1>17 DEF ReturnOnPage, OnPages
<1> QED
  BY <1>3, <1>4, <1>5, <1>6, <1>7, <1>8, <1>9, <1>10, <1>11, <1>12, <1>13, <1>14, <1>15, <1>16, <1>17
     DEF Keys

\* and whatever the loop does, unless it draws a list.
LEMMA LoopMovesLists ==
  ASSUME Frame \/ HandleEvent \/ Drains \/ (Draw /\ ~DrawList)
  PROVE  ListsMoved
<1> USE DEF ListsMoved
<1>1. UNCHANGED telescopeVars \/ Focus(INPUT) => ListsMoved
  OBVIOUS
<1>2. CASE Frame
  BY <1>1, <1>2 DEF Frame
<1>3. CASE HandleEvent
  BY <1>1, <1>3 DEF HandleEvent, MakeChat, Passes, OnPages
<1>4. CASE Drains
  BY <1>1, <1>4 DEF Drains
<1>5. CASE Draw /\ ~DrawList
  BY <1>1, <1>5 DEF Draw
<1> QED
  BY <1>2, <1>3, <1>4, <1>5

\* A request that is answered is one the list may hold.
LEMMA Answered ==
  ASSUME ListsTyped, Reads(friendsList, friend_selected), ~(friendsList[friend_selected] > 0)
  PROVE  -friendsList[friend_selected] \in User
<1>1. friendsList \in Seq(Entry) /\ friend_selected \in DOMAIN friendsList
  BY DEF ListsTyped, Reads
<1>2. friendsList[friend_selected] \in Entry
  BY <1>1
<1>3. \A u \in User : u \in Nat \ {0}
  BY PagesAssumption
<1>4. \A e \in Entry : ~(e > 0) => -e \in User
  <2> SUFFICES ASSUME NEW e \in Entry, ~(e > 0) PROVE -e \in User
    OBVIOUS
  <2>1. e \notin User
    BY <1>3
  <2>2. PICK u \in User : e = -u
    BY <2>1 DEF Entry
  <2>3. -e = u
    BY <1>3, <2>2
  <2> QED
    BY <2>3
<1> QED
  BY <1>2, <1>4

\* What the client knows of users is about users.
LEMMA InfoStep ==
  ASSUME InfoTyped, ListsTyped, PagesTypeOK, Next
  PROVE  InfoTyped'
<1> USE DEF infoVars
<1>1. UNCHANGED infoVars => InfoTyped'
  BY DEF InfoTyped
<1>2. CASE Keys
  <2>1. \/ UNCHANGED infoVars
        \/ ReturnInRequestMenu
        \/ ReturnOnPage
    BY <1>2 DEF Keys, ListKey, CloseLists, ClosePage, Arrow, Side, Line, Text, ReturnInBox,
                ReturnInOptions, ReturnInMyself, ReturnInChats, ReturnInFriends,
                ReturnInFriendMenu, PlainKey, QuietKey
  <2>2. CASE ReturnInRequestMenu
    <3>1. UNCHANGED infoVars \/ \E id \in User : Refuse(id) \/ Agree(id)
      BY <2>2, Answered DEF ReturnInRequestMenu, Respond
    <3> QED
      BY <1>1, <3>1 DEF InfoTyped, Refuse, Agree
  <2>3. CASE ReturnOnPage
    <3>1. ASSUME pages # <<>>, IsChat(Active(pages, page_selected))
          PROVE  Active(pages, page_selected).friend \in User
      <4>1. pages \in Seq(Page) /\ page_selected \in Int
        BY DEF PagesTypeOK
      <4> DEFINE n == Len(pages)
      <4>2. n \in Nat \ {0}
        BY <3>1, <4>1
      <4>3. (page_selected % n) + 1 \in 1 .. n
        <5> HIDE DEF n
        <5> QED
          BY <4>1, <4>2
      <4>4. Active(pages, page_selected) \in Page
        BY <4>1, <4>3 DEF Active, ActiveIndex
      <4>5. Active(pages, page_selected) \in [friend : User, current : BOOLEAN]
        BY <3>1, <4>4 DEF Page, IsChat
      <4> QED
        BY <4>5
    <3>2. /\ talked' \in SUBSET User
          /\ UNCHANGED <<friends, requests, blank>>
      BY <2>3, <3>1 DEF ReturnOnPage, InfoTyped
    <3> QED
      BY <3>2 DEF InfoTyped
  <2> QED
    BY <1>1, <2>1, <2>2, <2>3
<1>3. CASE Frame
  BY <1>3 DEF Frame, InfoTyped
<1>4. CASE HandleEvent \/ Drains \/ Draw
  BY <1>1, <1>4 DEF HandleEvent, Drains, Draw
<1> QED
  BY <1>2, <1>3, <1>4 DEF Next

\* The counters of the loop, at a key.
LEMMA KeyTyped ==
  ASSUME LoopTyped, Key
  PROVE  /\ loop' = "events" /\ keyed' = TRUE /\ UNCHANGED frames
         /\ ahead' \in 0 .. MaxAhead
<1>1. ahead \in 0 .. MaxAhead /\ MaxAhead \in Nat
  BY ChatWindowAssumption DEF LoopTyped
<1>2. keyed \in BOOLEAN /\ (keyed => ahead < MaxAhead)
  BY DEF LoopTyped, Key
<1>3. ahead' = IF keyed THEN ahead + 1 ELSE ahead
  BY DEF Key
<1>4. CASE keyed
  <2>1. ahead + 1 \in 0 .. MaxAhead
    BY <1>1, <1>2, <1>4
  <2> QED
    BY <1>3, <1>4, <2>1 DEF Key
<1>5. CASE ~keyed
  BY <1>1, <1>3, <1>5 DEF Key
<1> QED
  BY <1>4, <1>5

\* What a key leaves in the other variables of the window and of the loop.
WindowMoved ==
  /\ toggle' \in {0, 1}
  /\ queue' \in Seq(Events)
  /\ fate' \in Fates /\ again' \in BOOLEAN
  /\ chosen' \in Entry \cup {Nowhere}

\* A page that is opened, or not found, leaves the window in order.
LEMMA ChatWindows ==
  ASSUME LoopTyped, NEW id, NEW newMenu, OpenChat(id, newMenu)
  PROVE  toggle' \in {0, 1} /\ fate' \in Fates /\ chosen' \in Entry \cup {Nowhere}
BY DEF LoopTyped, OpenChat, ShowPage, Fates

\* So does every key.
LEMMA KeysWindow ==
  ASSUME LoopTyped, ListsTyped, Keys
  PROVE  Key /\ WindowMoved
<1> USE DEF LoopTyped, WindowMoved, PlainKey, QuietKey
<1>1. UNCHANGED <<toggle, queue, fate, again, chosen>> => WindowMoved
  OBVIOUS
<1>2. Nowhere \in Entry \cup {Nowhere}
  OBVIOUS
<1>3. ASSUME NEW list \in COMMON .. GROUP, ListKey(list) PROVE Key /\ WindowMoved
  BY <1>3 DEF ListKey, InLists
<1>4. CASE CloseLists
  BY <1>4 DEF CloseLists
<1>5. CASE ClosePage
  BY <1>5 DEF ClosePage, OnPages, Fates
<1>6. CASE Arrow \/ (\E selector \in {0, 1} : Side(selector)) \/ (\E by \in {-1, 1} : Line(by))
  BY <1>6 DEF Arrow, Side, Line, OnPages, InLists
<1>7. CASE \E text \in Typed \cup {""} : Text(text)
  BY <1>7 DEF Text, OnPages, InLists
<1>8. CASE ReturnInBox
  BY <1>8 DEF ReturnInBox, InLists, Fates
<1>9. CASE ReturnInOptions
  BY <1>9 DEF ReturnInOptions, ShowPage, Fates
<1>10. CASE ReturnInMyself
  BY <1>10 DEF ReturnInMyself, InLists
<1>11. CASE ReturnInChats
  BY <1>11, ChatWindows DEF ReturnInChats, Strays, Fates
<1>12. CASE ReturnInFriends
  <2>1. Reads(friendsList, friend_selected) => friendsList[friend_selected] \in Entry
    <3>1. friendsList \in Seq(Entry)
      BY DEF ListsTyped
    <3> QED
      BY <3>1 DEF Reads
  <2> QED
    BY <1>12, <2>1 DEF ReturnInFriends, Strays, Fates
<1>13. CASE ReturnInFriendMenu
  BY <1>13, ChatWindows DEF ReturnInFriendMenu, Strays, Fates
<1>14. CASE ReturnInRequestMenu
  <2>1. Append(queue, "accept_addfd") \in Seq(Events)
    BY DEF Events
  <2>2. \A id : Respond(id) => queue' \in Seq(Events) /\ again' \in BOOLEAN
    BY <2>1 DEF Respond
  <2> QED
    BY <1>14, <2>2 DEF ReturnInRequestMenu, Strays, Fates
<1>15. CASE ReturnOnPage
  BY <1>15 DEF ReturnOnPage, OnPages
<1> QED
  BY <1>3, <1>4, <1>5, <1>6, <1>7, <1>8, <1>9, <1>10, <1>11, <1>12, <1>13, <1>14, <1>15 DEF Keys

\* The loop's variables keep their types.
LEMMA LoopTypedStep ==
  ASSUME LoopTyped, ListsTyped, Next
  PROVE  LoopTyped'
<1>1. CASE Keys
  <2>1. Key /\ WindowMoved
    BY <1>1, KeysWindow
  <2>2. loop' = "events" /\ keyed' = TRUE /\ UNCHANGED frames /\ ahead' \in 0 .. MaxAhead
    BY <2>1, KeyTyped
  <2> QED
    BY <2>1, <2>2 DEF LoopTyped, WindowMoved
<1>2. CASE Frame
  <2>1. frames' \in 0 .. MaxFrames
    BY <1>2, ChatWindowAssumption DEF Frame, LoopTyped
  <2>2. \E event \in Events : queue' = Append(queue, event)
    BY <1>2 DEF Frame, Events
  <2>3. queue' \in Seq(Events)
    BY <2>2 DEF LoopTyped
  <2>4. chosen' \in Entry \cup {Nowhere}
    BY <1>2 DEF Frame, LoopTyped
  <2> QED
    BY <1>2, <2>1, <2>3, <2>4 DEF Frame, LoopTyped
<1>3. CASE HandleEvent
  <2>1. queue' \in Seq(Events)
    BY <1>3 DEF HandleEvent, LoopTyped
  <2>2. UNCHANGED toggle
    BY <1>3 DEF HandleEvent, MakeChat, Passes, InLists, OnPages
  <2> QED
    BY <1>3, <2>1, <2>2 DEF HandleEvent, LoopTyped
<1>4. CASE Drains
  BY <1>4 DEF Drains, windowVars, LoopTyped
<1>5. CASE Draw
  BY <1>5 DEF Draw, LoopTyped, Fates
<1> QED
  BY <1>1, <1>2, <1>3, <1>4, <1>5 DEF Next

\* A window starts in order.
LEMMA TypedFirst == Init => TypeInv
<1> SUFFICES ASSUME Init PROVE TypeInv
  OBVIOUS
<1>1. PICK start \in Starts :
        PagesInit(start.known) /\ TelescopeInit(start.known, start.talks, start.asking)
  BY Zenon DEF Init
<1>2. start.known \in SUBSET User /\ start.talks \in SUBSET User /\ start.asking \in SUBSET User
  BY <1>1, ChatWindowAssumption
<1>3. PagesTypeOK
  BY <1>1, <1>2 DEF PagesInit, PagesTypeOK, Page
<1>4. InfoTyped
  BY <1>1, <1>2 DEF TelescopeInit, InfoTyped
<1>5. ListsTyped
  <2>1. friendsList \in Seq(Entry) /\ Len(friendsList) <= Cardinality(Entry)
    <3>1. friendsList = FriendsNow
      BY <1>1 DEF TelescopeInit
    <3> QED
      BY <1>4, <3>1, FriendsListed DEF InfoTyped
  <2>2. chatsList \in Seq(User) /\ Len(chatsList) <= Cardinality(User)
    <3>1. chatsList = ChatsNow
      BY <1>1 DEF TelescopeInit
    <3> QED
      BY <1>4, <3>1, ChatsListed DEF InfoTyped
  <2>3. 0 \in 0 .. Cardinality(User) /\ 0 \in 0 .. Cardinality(Entry)
    <3>1. Cardinality(User) \in Nat
      BY UsersCounted
    <3> QED
      BY <3>1, EntriesCounted
  <2> QED
    BY <1>1, <2>1, <2>2, <2>3 DEF TelescopeInit, ListsTyped
<1>6. LoopTyped
  <2>1. <<>> \in Seq(Events)
    OBVIOUS
  <2>2. 0 \in 0 .. MaxFrames /\ 0 \in 0 .. MaxAhead
    BY ChatWindowAssumption
  <2> QED
    BY <2>1, <2>2 DEF Init, LoopTyped, Fates
<1> QED
  BY <1>3, <1>4, <1>5, <1>6 DEF TypeInv

\* Every step keeps the window in order.
LEMMA TypedStep ==
  ASSUME TypeInv, [Next]_vars
  PROVE  TypeInv'
<1> USE DEF TypeInv
<1>1. CASE Next
  <2>1. PagesTypeOK'
    BY <1>1, KeysMove, MovesTyped, LoopPagesTyped DEF Next
  <2>2. ListsTyped'
    BY <1>1, KeysMoveLists, LoopMovesLists, ListsMovedTyped, DrawListTyped DEF Next
  <2> QED
    BY <1>1, <2>1, <2>2, InfoStep, LoopTypedStep
<1>2. CASE UNCHANGED vars
  <2> USE <1>2 DEF vars, pageVars, infoVars, telescopeVars, chatsVars, friendsVars, loopVars, windowVars
  <2>1. PagesTypeOK' /\ InfoTyped'
    BY DEF PagesTypeOK, InfoTyped
  <2>2. ListsTyped'
    BY DEF ListsTyped
  <2>3. LoopTyped'
    BY DEF LoopTyped
  <2> QED
    BY <2>1, <2>2, <2>3
<1> QED
  BY <1>1, <1>2

\* Everything the window keeps has its type, for any users, texts, frames and
\* keys: a selector of pages is never beyond -1 .. 1, and a cursor or a list
\* never longer than all there is to list.
THEOREM WindowTyped == Spec => []WindowTypeOK
<1>1. TypeInv => WindowTypeOK
  BY DEF TypeInv, WindowTypeOK, TelescopeTypeOK, PagesTypeOK, InfoTyped, ListsTyped, LoopTyped
<1> QED
  BY <1>1, TypedFirst, TypedStep, PTL DEF Spec

-----------------------------------------------------------------------------
(* The lists that are shown                                                *)

\* A drawing makes the list anew, and only a drawing ends a wait for one:
\* a frame posts an event, and a key is one.
LEMMA CurrentStep ==
  ASSUME TypeInv, KeysInv, ListCurrent, [Next]_vars
  PROVE  ListCurrent'
<1>1. queue \in Seq(Events)
  BY DEF TypeInv, LoopTyped
<1>2. CASE Keys
  <2>1. loop' = "events"
    BY <1>2, KeysWindow DEF TypeInv, Key
  <2> QED
    BY <2>1 DEF ListCurrent
<1>3. CASE Frame
  <2>1. PICK event : queue' = Append(queue, event)
    BY <1>3 DEF Frame
  <2>2. queue' # <<>>
    <3>1. Len(Append(queue, event)) = Len(queue) + 1 /\ Len(queue) \in Nat
      BY <1>1
    <3> QED
      BY <2>1, <3>1
  <2> QED
    BY <2>2 DEF ListCurrent
<1>4. CASE HandleEvent \/ Drains
  BY <1>4 DEF HandleEvent, Drains, ListCurrent
<1>5. CASE Draw
  <2>1. UNCHANGED <<friends, requests, talked, toggle>>
    BY <1>5 DEF Draw, infoVars
  <2>2. CASE toggle = 1
    <3>1. DrawList
      BY <1>5, <2>2 DEF Draw
    <3>2. FriendsNow' = FriendsNow /\ ChatsNow' = ChatsNow /\ UNCHANGED list_selected
      BY <2>1, <3>1 DEF DrawList, FriendsNow, ChatsNow, FoundFriends, Found
    <3>3. /\ list_selected = FRIEND => friendsList' = FriendsNow
          /\ list_selected = CHAT => chatsList' = ChatsNow
      BY <3>1 DEF DrawList
    <3> QED
      BY <3>2, <3>3 DEF ListCurrent
  <2>3. CASE toggle # 1
    <3>1. list_selected' = Closed
      BY <1>5, <2>3 DEF Draw, KeysInv, telescopeVars
    <3> QED
      BY <3>1 DEF ListCurrent, Closed, FRIEND, CHAT
  <2> QED
    BY <2>2, <2>3
<1>6. CASE UNCHANGED vars
  <2>1. UNCHANGED <<loop, queue, fate, list_selected, friendsList, chatsList>>
    BY <1>6 DEF vars, loopVars, windowVars, telescopeVars, friendsVars, chatsVars
  <2>2. FriendsNow' = FriendsNow /\ ChatsNow' = ChatsNow
    BY <1>6 DEF vars, infoVars, telescopeVars, FriendsNow, ChatsNow, FoundFriends, Found
  <2> QED
    BY <2>1, <2>2 DEF ListCurrent
<1> QED
  BY <1>2, <1>3, <1>4, <1>5, <1>6 DEF Next

\* Once all that was posted is handled and drawn, the lists of friends and of
\* chats are what Info has, for any users, texts, frames and keys: no change of Info by the net
\* thread or by a key is left without a drawing.
THEOREM ListIsCurrent == Spec => []ListCurrent
<1>1. Init => ListCurrent
  BY DEF Init, ListCurrent
<1> QED
  BY <1>1, TypedFirst, TypedStep, KeysFirst, KeysStep, CurrentStep, PTL DEF Spec

-----------------------------------------------------------------------------
(* The page that Escape closes                                             *)

\* As long as no key was typed ahead, the selector is on a page, or on the
\* first place; a user who sees the pages sees one, and the empty page only by
\* itself; and if it is beside another, the selector stays on the first place.
EscapeInv ==
  /\ fate = "page" => ahead > 0
  /\ ahead = 0 =>
       /\ page_selected \in OnPage(pages)
       /\ ~keyed => pages # <<>> /\ (Len(pages) = 2 => \A i \in 1 .. 2 : pages[i] # Empty)
       /\ Len(pages) = 2 /\ (\E i \in 1 .. 2 : pages[i] = Empty) => page_selected = 0

\* The first key after a drawing leaves the selector on a page.
LEMMA FirstKey ==
  ASSUME PagesTypeOK, EscapeInv, ahead = 0, ~keyed, PagesMoved
  PROVE  /\ page_selected' \in OnPage(pages')
         /\ Len(pages') = 2 /\ (\E i \in 1 .. 2 : pages'[i] = Empty) => page_selected' = 0
<1>1. /\ page_selected \in OnPage(pages)
      /\ pages # <<>> /\ (Len(pages) = 2 => \A i \in 1 .. 2 : pages[i] # Empty)
  BY DEF EscapeInv
<1>2. CASE UNCHANGED pages /\ page_selected' \in OnPage(pages)
  BY <1>1, <1>2
<1>3. ASSUME NEW page \in Page, Show(page)
      PROVE  page_selected' = 0 /\ page_selected' \in OnPage(pages')
  <2>1. pages' \in Seq(Page) /\ (Len(pages') = 1 \/ Len(pages') = 2) /\ page_selected' = 0
    BY <1>1, <1>3, ShowMoves
  <2>2. 0 \in OnPage(pages')
    BY <2>1 DEF OnPage
  <2> QED
    BY <2>1, <2>2
<1>4. CASE page_selected \in 0 .. Len(pages) - 1 /\ Close
  <2>1. page_selected' \in OnPage(pages') /\ Len(pages') = Len(pages) - 1
    BY <1>4, CloseMoves
  <2>2. Len(pages') # 2
    <3>1. Len(pages) <= 2
      BY DEF PagesTypeOK
    <3>2. pages \in Seq(Page)
      BY DEF PagesTypeOK
    <3>3. Len(pages) \in Nat
      BY <3>2
    <3> QED
      BY <2>1, <3>1, <3>3
  <2> QED
    BY <2>1, <2>2
<1> QED
  BY <1>1, <1>2, <1>3, <1>4 DEF PagesMoved

\* Escape finds a page unless keys were typed ahead.
LEMMA PageLost ==
  ASSUME PagesTypeOK, Keys, fate' = "page"
  PROVE  page_selected \notin OnPage(pages) \/ pages = <<>>
<1>1. fate = "runs"
  BY DEF Keys, ListKey, CloseLists, ClosePage, Arrow, Side, Line, Text, ReturnInBox, ReturnInOptions,
         ReturnInMyself, ReturnInChats, ReturnInFriends, ReturnInFriendMenu, ReturnInRequestMenu,
         ReturnOnPage, PlainKey, QuietKey, Key
<1>2. ~ClosePage => fate' # "page"
  BY <1>1 DEF Keys, ListKey, CloseLists, Arrow, Side, Line, Text, ReturnInBox, ReturnInOptions,
         ReturnInMyself, ReturnInChats, ReturnInFriends, ReturnInFriendMenu, ReturnInRequestMenu,
         ReturnOnPage, PlainKey, Strays, OpenChat, ShowPage
<1>3. page_selected \notin 0 .. Len(pages) - 1
  BY <1>1, <1>2 DEF ClosePage
<1> QED
  BY <1>3 DEF OnPage

\* What an event makes of the pages keeps the selector where EscapeInv has it.
LEMMA EventKeepsPage ==
  ASSUME TypeInv, EscapeInv, ahead = 0, HandleEvent
  PROVE  /\ page_selected' \in OnPage(pages')
         /\ pages # <<>> => pages' # <<>>
         /\ Len(pages') = Len(pages)
         /\ Len(pages) = 2 => \A i \in 1 .. 2 : pages'[i] = Empty => pages[i] = Empty
         /\ page_selected = 0 => page_selected' = 0
<1>1. pages \in Seq(Page) /\ page_selected \in OnPage(pages) /\ page_selected \in Int
  BY DEF TypeInv, PagesTypeOK, EscapeInv
<1>2. \A C \in Seq(Page) : Settled(C, 0) = 0
  <2> SUFFICES ASSUME NEW C \in Seq(Page) PROVE Settled(C, 0) = 0
    OBVIOUS
  <2>1. Clamp(C, 0) = 0
    <3>1. C # <<>> => Len(C) \in Nat \ {0}
      OBVIOUS
    <3> QED
      BY <3>1 DEF Clamp
  <2>2. C # <<>> => ActiveIndex(C, 0) = 0
    <3> DEFINE n == Len(C)
    <3>1. C # <<>> => n \in Nat \ {0}
      OBVIOUS
    <3>2. n \in Nat \ {0} => 0 % n = 0
      <4> HIDE DEF n
      <4> QED
        OBVIOUS
    <3> QED
      BY <3>1, <3>2 DEF ActiveIndex
  <2> QED
    BY <2>1, <2>2 DEF Settled
<1>3. CASE InLists
  BY <1>1, <1>3 DEF InLists, pageVars
<1>4. CASE OnPages /\ Reach(page_selected)
  BY <1>1, <1>2, <1>4, SettledOnPage DEF Reach
<1>5. ASSUME NEW u \in requests, Make(u),
             \/ UNCHANGED page_selected
             \/ page_selected' = Settled(pages', page_selected)
      PROVE  /\ page_selected' \in OnPage(pages')
             /\ pages # <<>> => pages' # <<>>
             /\ Len(pages') = Len(pages)
             /\ Len(pages) = 2 => \A i \in 1 .. 2 : pages'[i] = Empty => pages[i] = Empty
             /\ page_selected = 0 => page_selected' = 0
  <2>1. u \in User
    BY DEF TypeInv, InfoTyped
  <2>2. /\ pages' \in Seq(Page) /\ Len(pages') = Len(pages)
        /\ \A i \in 1 .. Len(pages) : pages'[i] = Empty => pages[i] = Empty
    BY <1>5, <2>1, MakeMoves DEF TypeInv
  <2>3. (pages' = <<>> <=> pages = <<>>) /\ OnPage(pages') = OnPage(pages)
    <3>1. (pages = <<>> <=> Len(pages) = 0) /\ (pages' = <<>> <=> Len(pages') = 0)
      BY <1>1, <2>2
    <3> QED
      BY <2>2, <3>1 DEF OnPage
  <2>4. page_selected' \in OnPage(pages') /\ (page_selected = 0 => page_selected' = 0)
    BY <1>1, <1>2, <1>5, <2>2, <2>3, SettledOnPage
  <2> QED
    BY <2>2, <2>3, <2>4
<1> QED
  BY <1>3, <1>4, <1>5 DEF HandleEvent, MakeChat, Passes

\* EscapeInv outlasts every step.
LEMMA EscapeStep ==
  ASSUME TypeInv, EscapeInv, [Next]_vars
  PROVE  EscapeInv'
<1>1. ahead \in Nat /\ keyed \in BOOLEAN
  BY ChatWindowAssumption DEF TypeInv, LoopTyped
<1>2. CASE Keys
  <2>1. keyed' = TRUE /\ ahead' = IF keyed THEN ahead + 1 ELSE ahead
    BY <1>2, KeysWindow DEF TypeInv, Key
  <2>2. CASE keyed \/ ahead > 0
    <3>1. ahead' > 0 /\ ahead' # 0
      BY <1>1, <2>1, <2>2
    <3> QED
      BY <3>1 DEF EscapeInv
  <2>3. CASE ~keyed /\ ahead = 0
    <3>1. /\ page_selected' \in OnPage(pages')
          /\ Len(pages') = 2 /\ (\E i \in 1 .. 2 : pages'[i] = Empty) => page_selected' = 0
      BY <1>2, <2>3, KeysMove, FirstKey DEF TypeInv
    <3>2. fate' # "page"
      BY <1>2, <2>3, PageLost DEF TypeInv, EscapeInv
    <3> QED
      BY <2>1, <3>1, <3>2 DEF EscapeInv
  <2> QED
    BY <1>1, <2>2, <2>3
<1>3. CASE Frame \/ Drains \/ UNCHANGED vars
  <2>1. UNCHANGED <<pages, page_selected, ahead, keyed, fate>>
    BY <1>3 DEF Frame, Drains, vars, pageVars, loopVars, windowVars
  <2>2. OnPage(pages') = OnPage(pages)
    BY <2>1 DEF OnPage
  <2> QED
    BY <2>1, <2>2 DEF EscapeInv
<1>4. CASE HandleEvent
  <2>1. UNCHANGED <<ahead, keyed, fate>>
    BY <1>4 DEF HandleEvent
  <2>2. CASE ahead = 0
    <3>1. /\ page_selected' \in OnPage(pages')
          /\ pages # <<>> => pages' # <<>>
          /\ Len(pages') = Len(pages)
          /\ Len(pages) = 2 => \A i \in 1 .. 2 : pages'[i] = Empty => pages[i] = Empty
          /\ page_selected = 0 => page_selected' = 0
      BY <1>4, <2>2, EventKeepsPage
    <3> QED
      BY <2>1, <2>2, <3>1 DEF EscapeInv
  <2>3. CASE ahead # 0
    BY <2>1, <2>3 DEF EscapeInv
  <2> QED
    BY <2>2, <2>3
<1>5. CASE Draw
  <2>1. keyed' = FALSE /\ UNCHANGED ahead /\ DrawPages /\ (fate' = "page" => fate = "page")
    BY <1>5 DEF Draw
  <2>2. ahead' = 0 => page_selected \in OnPage(pages) /\
                      (Len(pages) = 2 /\ (\E i \in 1 .. 2 : pages[i] = Empty)
                         /\ keyed => page_selected = 0)
    BY <2>1 DEF EscapeInv
  <2>3. pages \in Seq(Page)
    BY DEF TypeInv, PagesTypeOK
  <2>4. /\ UNCHANGED page_selected
        /\ pages' \in Seq(Page) /\ pages' # <<>>
        /\ \/ pages = <<>> /\ pages' = <<Empty>>
           \/ UNCHANGED pages /\ (Len(pages) = 2 => \A i \in 1 .. 2 : pages[i] # Empty)
           \/ Len(pages) = 2 /\ Len(pages') = 1 /\ \E i \in 1 .. 2 : pages[i] = Empty
    BY <2>1, DrawMoves DEF TypeInv
  <2>5. ahead' = 0 => /\ page_selected' \in OnPage(pages')
                      /\ Len(pages') = 2 => \A i \in 1 .. 2 : pages'[i] # Empty
    <3> SUFFICES ASSUME ahead' = 0
                 PROVE  /\ page_selected' \in OnPage(pages')
                        /\ Len(pages') = 2 => \A i \in 1 .. 2 : pages'[i] # Empty
      OBVIOUS
    <3>1. CASE pages = <<>> /\ pages' = <<Empty>>
      <4>1. page_selected' = 0
        BY <2>2, <2>4, <3>1 DEF OnPage
      <4>2. Len(pages') = 1
        BY <3>1
      <4> QED
        BY <2>4, <4>1, <4>2 DEF OnPage
    <3>2. CASE UNCHANGED pages /\ (Len(pages) = 2 => \A i \in 1 .. 2 : pages[i] # Empty)
      <4>1. OnPage(pages') = OnPage(pages)
        BY <3>2 DEF OnPage
      <4> QED
        BY <2>2, <2>4, <3>2, <4>1
    <3>3. CASE Len(pages) = 2 /\ Len(pages') = 1 /\ \E i \in 1 .. 2 : pages[i] = Empty
      <4>1. page_selected = 0
        <5>1. keyed
          <6> SUFFICES ASSUME ~keyed PROVE FALSE
            BY <1>1
          <6>1. ahead = 0
            BY <2>1
          <6> QED
            BY <3>3, <6>1 DEF EscapeInv
        <5> QED
          BY <2>2, <3>3, <5>1
      <4> QED
        BY <2>4, <3>3, <4>1 DEF OnPage
    <3> QED
      BY <2>4, <3>1, <3>2, <3>3
  <2> QED
    BY <2>1, <2>4, <2>5 DEF EscapeInv
<1> QED
  BY <1>2, <1>3, <1>4, <1>5 DEF Next

\* Escape closes a page that is there unless it was typed ahead of the drawing,
\* for any users, texts, frames and keys: whatever open_chat, Ctrl-B, Ctrl-F, a
\* closed page, a replaced chat and the renderer leave in page_selected.
THEOREM EscapeFindsAPage == Spec => []EscapeOnAPage
<1>1. Init => EscapeInv
  <2> SUFFICES ASSUME Init PROVE EscapeInv
    OBVIOUS
  <2>1. PICK start \in Starts : PagesInit(start.known)
    BY Zenon DEF Init
  <2>2. pages = <<Empty>> /\ page_selected = 0
    BY <2>1 DEF PagesInit
  <2>3. Len(pages) = 1 /\ pages # <<>>
    BY <2>2
  <2>4. fate = "runs"
    BY DEF Init
  <2> QED
    BY <2>2, <2>3, <2>4 DEF EscapeInv, OnPage
<1>2. EscapeInv => EscapeOnAPage
  BY DEF EscapeInv, EscapeOnAPage
<1> QED
  BY <1>1, <1>2, TypedFirst, TypedStep, EscapeStep, PTL DEF Spec

-----------------------------------------------------------------------------
(* The entry a menu was opened for                                         *)

\* A menu that was opened over an entry the user saw is over that entry, and
\* the list is what Info has; who sees the list has seen its entries made.
MenuInv ==
  /\ chosen # Nowhere /\ list_selected = FRIEND =>
       /\ menu = 1
       /\ friendsList = FriendsNow
       /\ Reads(friendsList, friend_selected) /\ friendsList[friend_selected] = chosen
       /\ function_selected = IF chosen < 0 THEN 1 ELSE 0
  /\ loop = "waits" /\ list_selected = FRIEND => FRIEND \in filled

\* The list of friends depends on these.
FriendsSeen == <<friends, requests, ss>>

LEMMA SeenKept ==
  ASSUME UNCHANGED FriendsSeen
  PROVE  FriendsNow' = FriendsNow /\ FoundFriends' = FoundFriends
BY DEF FriendsSeen, FriendsNow, FoundFriends, Found

\* A key leaves the list, the cursor and the menu, or forgets the entry.
LEMMA MenuKept ==
  ASSUME MenuInv, loop' # "waits",
         \/ chosen' = Nowhere
         \/ list_selected' # FRIEND
         \/ UNCHANGED <<FriendsSeen, friendsVars, list_selected, chosen>>
  PROVE  MenuInv'
<1>1. CASE chosen' = Nowhere \/ list_selected' # FRIEND
  BY <1>1 DEF MenuInv
<1>2. CASE UNCHANGED <<FriendsSeen, friendsVars, list_selected, chosen>>
  <2>1. FriendsNow' = FriendsNow
    BY <1>2, SeenKept
  <2> QED
    BY <1>2, <2>1 DEF MenuInv, friendsVars, Reads
<1> QED
  BY <1>1, <1>2

\* Every key is of that kind but Return, over an entry that the user sees.
LEMMA MenuKeys ==
  ASSUME TypeInv, MenuInv, Keys, ~ReturnInFriends
  PROVE  \/ chosen' = Nowhere
         \/ list_selected' # FRIEND
         \/ UNCHANGED <<FriendsSeen, friendsVars, list_selected, chosen>>
<1> DEFINE Kept == UNCHANGED <<FriendsSeen, friendsVars, list_selected, chosen>>
<1> USE DEF PlainKey, QuietKey, infoVars, FriendsSeen, friendsVars
<1>1. ASSUME QuietKey, UNCHANGED telescopeVars, UNCHANGED chosen PROVE Kept
  BY <1>1 DEF telescopeVars
<1>2. ASSUME QuietKey, NEW newFocus, Focus(newFocus), UNCHANGED chosen PROVE Kept
  BY <1>2 DEF Focus
<1>3. CASE \E list \in COMMON .. GROUP : ListKey(list)
  BY <1>3 DEF ListKey
<1>4. CASE CloseLists
  BY <1>4 DEF CloseLists
<1>5. CASE ClosePage
  BY <1>1, <1>5 DEF ClosePage, OnPages
<1>6. CASE Arrow \/ \E selector \in {0, 1} : Side(selector)
  BY <1>1, <1>2, <1>6 DEF Arrow, Side, OnPages
<1>7. ASSUME NEW by \in {-1, 1}, Line(by) PROVE chosen' = Nowhere \/ list_selected' # FRIEND \/ Kept
  <2>1. CASE OnPages
    BY <1>1, <1>7, <2>1 DEF Line, OnPages
  <2>2. CASE MoveCursor(by)
    <3>1. UNCHANGED <<friends, requests, ss, friendsList, menu, function_selected, list_selected, chosen>>
      BY <1>7, <2>2 DEF Line, MoveCursor
    <3>2. list_selected = FRIEND /\ chosen # Nowhere => UNCHANGED friend_selected
      BY <2>2 DEF MoveCursor, MenuInv
    <3> QED
      BY <3>1, <3>2
  <2> QED
    BY <1>7, <2>1, <2>2 DEF Line
<1>8. CASE \E text \in Typed \cup {""} : Text(text)
  BY <1>1, <1>8 DEF Text, OnPages
<1>9. CASE ReturnInBox
  <2>1. UNCHANGED list_selected
    BY <1>9 DEF ReturnInBox, SearchFor, telescopeVars
  <2>2. list_selected = MYSELF \/ UNCHANGED telescopeVars
    BY <1>9 DEF ReturnInBox
  <2> QED
    BY <1>1, <1>9, <2>1, <2>2 DEF ReturnInBox, MYSELF, FRIEND
<1>10. CASE ReturnInOptions
  BY <1>1, <1>10 DEF ReturnInOptions, ShowPage
<1>11. CASE ReturnInMyself
  BY <1>1, <1>11 DEF ReturnInMyself
<1>12. ASSUME NEW id, NEW newMenu, QuietKey, OpenChat(id, newMenu) PROVE chosen' = Nowhere \/ Kept
  BY <1>1, <1>12 DEF OpenChat, ShowPage
<1>13. CASE ReturnInChats
  BY <1>1, <1>12, <1>13 DEF ReturnInChats, Strays
<1>14. CASE ReturnInFriendMenu
  BY <1>1, <1>12, <1>14 DEF ReturnInFriendMenu, Strays
<1>15. CASE ReturnInRequestMenu
  BY <1>15 DEF ReturnInRequestMenu, Strays, telescopeVars
<1>16. CASE ReturnOnPage
  BY <1>16 DEF ReturnOnPage, OnPages, telescopeVars
<1> QED
  BY <1>3, <1>4, <1>5, <1>6, <1>7, <1>8, <1>9, <1>10, <1>11, <1>13, <1>14, <1>15, <1>16 DEF Keys

\* Return over an entry: the menu is that entry's, if the user saw it.
LEMMA MenuOpens ==
  ASSUME TypeInv, ListCurrent, MenuInv, ReturnInFriends
  PROVE  MenuInv'
<1>1. fate = "runs" /\ loop' = "events" /\ list_selected = FRIEND /\ UNCHANGED <<friends, requests>>
  BY DEF ReturnInFriends, QuietKey, Key, InList, infoVars
<1>2. CASE Strays(friendsList, friend_selected)
  <2>1. UNCHANGED <<FriendsSeen, friendsVars, list_selected, chosen>>
    BY <1>1, <1>2 DEF Strays, FriendsSeen, telescopeVars
  <2> QED
    BY <1>1, <2>1, MenuKept
<1>3. CASE /\ Reads(friendsList, friend_selected) /\ OpenMenu(friendsList[friend_selected])
           /\ chosen' = IF loop = "waits" /\ queue = <<>> THEN friendsList[friend_selected] ELSE Nowhere
  <2>1. CASE ~(loop = "waits" /\ queue = <<>>)
    BY <1>1, <1>3, <2>1, MenuKept
  <2>2. CASE loop = "waits" /\ queue = <<>>
    <3>1. friendsList = FriendsNow /\ FRIEND \in filled
      BY <1>1, <2>2 DEF ListCurrent, MenuInv
    <3>2. friendsList \in Seq(Entry)
      BY DEF TypeInv, ListsTyped
    <3>3. friend_selected <= Len(friendsList)
      BY <1>3, <3>2 DEF Reads
    <3>4. friend_selected' = friend_selected
      BY <1>3, <3>1, <3>3 DEF OpenMenu, Within
    <3>5. UNCHANGED <<FriendsSeen, friendsList, list_selected>>
      BY <1>1, <1>3 DEF OpenMenu, FriendsSeen
    <3>6. FriendsNow' = FriendsNow
      BY <3>5, SeenKept
    <3>7. chosen' = friendsList[friend_selected]
      BY <1>3, <2>2
    <3>8. menu' = 1 /\ function_selected' = IF chosen' < 0 THEN 1 ELSE 0
      BY <1>3, <3>7 DEF OpenMenu
    <3>9. Reads(friendsList', friend_selected') /\ friendsList'[friend_selected'] = chosen'
      BY <1>3, <3>4, <3>5, <3>7 DEF Reads
    <3> QED
      BY <1>1, <3>1, <3>5, <3>6, <3>8, <3>9 DEF MenuInv
  <2> QED
    BY <2>1, <2>2
<1> QED
  BY <1>2, <1>3 DEF ReturnInFriends

\* MenuInv outlasts every step.
LEMMA MenuStep ==
  ASSUME TypeInv, KeysInv, ListCurrent, MenuInv, [Next]_vars
  PROVE  MenuInv'
<1> USE DEF FriendsSeen, friendsVars
<1>1. CASE Keys
  <2>1. loop' # "waits"
    BY <1>1, KeysWindow DEF TypeInv, Key
  <2> QED
    BY <1>1, <2>1, MenuKeys, MenuKept, MenuOpens
<1>2. CASE Frame
  <2>1. UNCHANGED telescopeVars /\ UNCHANGED loop
    BY <1>2 DEF Frame
  <2>2. chosen' = Nowhere \/ UNCHANGED <<friends, requests, chosen>>
    BY <1>2 DEF Frame
  <2>3. chosen' # Nowhere => FriendsNow' = FriendsNow /\ UNCHANGED chosen
    BY <2>1, <2>2, SeenKept DEF telescopeVars
  <2> QED
    BY <2>1, <2>3 DEF MenuInv, telescopeVars, Reads
<1>3. CASE HandleEvent
  <2>1. UNCHANGED <<friends, requests, chosen>> /\ loop' = "events"
    BY <1>3 DEF HandleEvent, infoVars
  <2>2. \/ list_selected' = MYSELF
        \/ UNCHANGED <<ss, friendsList, friend_selected, menu, function_selected, list_selected>>
    BY <1>3 DEF HandleEvent, MakeChat, Passes, OnPages, Focus, ShowResults, telescopeVars
  <2> QED
    BY <2>1, <2>2, MenuKept DEF MYSELF, FRIEND
<1>4. CASE Drains
  <2>1. UNCHANGED <<friends, requests, ss, friendsList, friend_selected, menu, function_selected,
                    list_selected, chosen>> /\ loop' = "draws"
    BY <1>4 DEF Drains, infoVars, telescopeVars, windowVars
  <2> QED
    BY <2>1, MenuKept
<1>5. CASE Draw
  <2>1. UNCHANGED <<friends, requests, chosen>>
    BY <1>5 DEF Draw, infoVars
  <2>2. CASE toggle = 1
    <3>1. DrawList
      BY <1>5, <2>2 DEF Draw
    <3>2. UNCHANGED <<ss, list_selected, friend_selected, menu, function_selected>>
      BY <3>1 DEF DrawList
    <3>3. FriendsNow' = FriendsNow
      BY <2>1, <3>2, SeenKept
    <3>4. list_selected = FRIEND => friendsList' = FriendsNow /\ FRIEND \in filled'
      BY <3>1 DEF DrawList
    <3> QED
      BY <2>1, <3>2, <3>3, <3>4 DEF MenuInv, Reads
  <2>3. CASE toggle # 1
    <3>1. list_selected' = Closed
      BY <1>5, <2>3 DEF Draw, KeysInv, telescopeVars
    <3> QED
      BY <3>1 DEF MenuInv, Closed, FRIEND
  <2> QED
    BY <2>2, <2>3
<1>6. CASE UNCHANGED vars
  <2>1. UNCHANGED <<friends, requests, chosen, loop>> /\ UNCHANGED telescopeVars
    BY <1>6 DEF vars, infoVars, loopVars, windowVars
  <2>2. FriendsNow' = FriendsNow
    BY <2>1, SeenKept DEF telescopeVars
  <2> QED
    BY <2>1, <2>2 DEF MenuInv, telescopeVars, Reads
<1> QED
  BY <1>1, <1>2, <1>3, <1>4, <1>5, <1>6 DEF Next

\* A menu starts over no entry.
LEMMA MenuFirst == Init => MenuInv
BY DEF Init, MenuInv

\* What a menu does is done to the entry it was opened for, and it is the menu
\* for that kind of entry, for any users, texts, frames and keys, as long as
\* friends and requests stay the same.
THEOREM MenuActsOnChosen == Spec => []ActsOnChosen
<1>1. TypeInv /\ MenuInv => ActsOnChosen
  <2>1. 1 % 2 = 1 /\ 0 % 2 = 0
    OBVIOUS
  <2> QED
    BY <2>1 DEF MenuInv, ActsOnChosen
<1>2. Init => ListCurrent
  BY DEF Init, ListCurrent
<1> QED
  BY <1>1, <1>2, TypedFirst, TypedStep, KeysFirst, KeysStep, CurrentStep, MenuFirst, MenuStep, PTL DEF Spec

-----------------------------------------------------------------------------
(* The cursors                                                             *)

\* While the window runs, no cursor is behind its list.
CursorsIn == friend_selected <= Len(friendsList) /\ chatsSelected <= Len(chatsList)

CursorInv ==
  /\ fate # "behind"
  /\ fate = "runs" => CursorsIn

\* A cursor that is moved, set or clipped stays in the list.
LEMMA CursorsMoved ==
  ASSUME ListsTyped, CursorsIn, ListsMoved
  PROVE  CursorsIn'
<1> USE DEF chatsVars, friendsVars
<1>1. /\ friend_selected \in Nat /\ Len(friendsList) \in Nat /\ friend_selected <= Len(friendsList)
      /\ chatsSelected \in Nat /\ Len(chatsList) \in Nat /\ chatsSelected <= Len(chatsList)
  <2>1. /\ friendsList \in Seq(Entry) /\ chatsList \in Seq(User)
        /\ friend_selected \in 0 .. Cardinality(Entry) /\ chatsSelected \in 0 .. Cardinality(User)
    BY DEF ListsTyped
  <2>2. Len(friendsList) \in Nat /\ Len(chatsList) \in Nat
    BY <2>1
  <2>3. friend_selected \in Nat /\ chatsSelected \in Nat
    BY <2>1
  <2> QED
    BY <2>2, <2>3 DEF CursorsIn
<1>2. UNCHANGED <<friendsList, chatsList>> =>
        /\ Len(friendsList') = Len(friendsList) /\ Len(chatsList') = Len(chatsList)
  OBVIOUS
<1>3. UNCHANGED <<chatsVars, friendsList, friend_selected>> => CursorsIn'
  BY <1>1 DEF CursorsIn
<1>4. UNCHANGED telescopeVars => CursorsIn'
  BY <1>3 DEF telescopeVars
<1>5. ASSUME NEW list, OpenList(list) \/ OpenFromCommon(list) PROVE CursorsIn'
  <2>1. UNCHANGED <<friendsList, chatsList>>
    BY <1>5 DEF OpenList, OpenFromCommon
  <2>2. friend_selected' \in {0, Len(friendsList)} /\ chatsSelected' \in {0, Len(chatsList)}
    BY <1>5 DEF OpenList, OpenFromCommon
  <2> QED
    BY <1>1, <1>2, <2>1, <2>2 DEF CursorsIn
<1>6. ASSUME NEW newMenu, CloseList(newMenu) PROVE CursorsIn'
  BY <1>1, <1>2, <1>6 DEF CloseList, CursorsIn
<1>7. ASSUME NEW newFocus, Focus(newFocus) PROVE CursorsIn'
  BY <1>3, <1>7 DEF Focus
<1>8. ASSUME NEW by \in {-1, 1}, MoveCursor(by) PROVE CursorsIn'
  <2>1. ASSUME NEW cursor \in Nat, NEW list, Len(list) \in Nat, cursor <= Len(list)
        PROVE  Step(cursor, by, list) <= Len(list)
    BY <2>1 DEF Step
  <2>2. Step(friend_selected, by, friendsList) <= Len(friendsList)
    BY <1>1, <2>1
  <2>3. Step(chatsSelected, by, chatsList) <= Len(chatsList)
    BY <1>1, <2>1
  <2>4. 0 <= Len(chatsList)
    BY <1>1
  <2>5. friend_selected' <= Len(friendsList) /\ chatsSelected' <= Len(chatsList)
    BY <1>1, <1>8, <2>2, <2>3, <2>4, Zenon DEF MoveCursor
  <2>6. UNCHANGED <<friendsList, chatsList>>
    BY <1>8 DEF MoveCursor
  <2> QED
    BY <2>5, <2>6 DEF CursorsIn
<1>9. ASSUME NEW text, Type(text) PROVE CursorsIn'
  BY <1>3, <1>9 DEF Type
<1>10. ASSUME SearchFor \/ CloseMenu PROVE CursorsIn'
  BY <1>3, <1>10 DEF SearchFor, CloseMenu
<1>11. ASSUME ShowResults PROVE CursorsIn'
  BY <1>1, <1>2, <1>11 DEF ShowResults, CursorsIn
<1>12. ASSUME NEW entry, OpenMenu(entry) PROVE CursorsIn'
  <2>1. Within(friend_selected) <= Len(friendsList)
    BY <1>1 DEF Within
  <2>2. UNCHANGED <<friendsList, chatsVars>> /\ friend_selected' = Within(friend_selected)
    BY <1>12 DEF OpenMenu
  <2> QED
    BY <1>1, <1>2, <2>1, <2>2 DEF CursorsIn
<1> QED
  BY <1>4, <1>5, <1>6, <1>7, <1>8, <1>9, <1>10, <1>11, <1>12 DEF ListsMoved

\* Return reads behind a list only with a cursor that is behind it.
LEMMA NotBehind ==
  ASSUME ListsTyped, CursorsIn, Keys
  PROVE  fate' # "behind"
<1>1. fate = "runs"
  BY DEF Keys, ListKey, CloseLists, ClosePage, Arrow, Side, Line, Text, ReturnInBox, ReturnInOptions,
         ReturnInMyself, ReturnInChats, ReturnInFriends, ReturnInFriendMenu, ReturnInRequestMenu,
         ReturnOnPage, PlainKey, QuietKey, Key
<1>2. ASSUME NEW S, NEW list \in Seq(S), NEW cursor \in Nat, cursor <= Len(list), Strays(list, cursor)
      PROVE  fate' = "before"
  <2>1. cursor \notin 1 .. Len(list)
    BY <1>2 DEF Strays, Reads
  <2>2. Len(list) \in Nat
    BY <1>2
  <2>3. cursor = 0
    BY <1>2, <2>1, <2>2
  <2> QED
    BY <1>2, <2>3 DEF Strays
<1>3. friendsList \in Seq(Entry) /\ chatsList \in Seq(User)
  BY DEF ListsTyped
<1>4. friend_selected \in Nat /\ chatsSelected \in Nat
  <2>1. friend_selected \in 0 .. Cardinality(Entry) /\ chatsSelected \in 0 .. Cardinality(User)
    BY DEF ListsTyped
  <2> QED
    BY <2>1
<1>5. /\ Strays(friendsList, friend_selected) => fate' = "before"
      /\ Strays(chatsList, chatsSelected) => fate' = "before"
  BY <1>2, <1>3, <1>4 DEF CursorsIn
<1> HIDE DEF Strays
<1> QED
  BY <1>1, <1>5 DEF Keys, ListKey, CloseLists, ClosePage, Arrow, Side, Line, Text, ReturnInBox,
         ReturnInOptions, ReturnInMyself, ReturnInChats, ReturnInFriends, ReturnInFriendMenu,
         ReturnInRequestMenu, ReturnOnPage, PlainKey, QuietKey, OpenChat, ShowPage

\* A preview that is there to be drawn is one of an entry of the list.
LEMMA PreviewsListed ==
  ASSUME InfoTyped, NEW cursor \in Previews
  PROVE  cursor <= Len(FriendsNow)
<1>1. /\ Len(FriendsNow) = Cardinality(FoundFriends) + Cardinality(requests)
      /\ Cardinality(FoundFriends) \in Nat /\ Cardinality(requests) \in Nat
  BY FriendsListed DEF InfoTyped
<1>2. requests # {} => Cardinality(requests) > 0
  <2>1. IsFiniteSet(requests)
    BY UsersCounted DEF InfoTyped
  <2>2. Cardinality(requests) = 0 <=> requests = {}
    BY <2>1, FS_EmptySet
  <2> QED
    BY <1>1, <2>2
<1> HIDE DEF FriendsNow
<1>3. CASE requests = {}
  BY <1>1, <1>3 DEF Previews
<1>4. CASE requests # {}
  BY <1>1, <1>2, <1>4 DEF Previews
<1> QED
  BY <1>3, <1>4

\* CursorInv outlasts every step: a drawing leaves the cursor of the friends
\* where it is, and ends with the missing preview if the list is now too short.
LEMMA CursorStep ==
  ASSUME TypeInv, KeysInv, CursorInv, [Next]_vars
  PROVE  CursorInv'
<1>1. ListsTyped /\ InfoTyped
  BY DEF TypeInv
<1>2. CASE Keys
  <2>1. fate = "runs"
    BY <1>2, KeysWindow DEF TypeInv, Key
  <2> QED
    BY <1>1, <1>2, <2>1, KeysMoveLists, CursorsMoved, NotBehind DEF CursorInv
<1>3. CASE Frame \/ HandleEvent \/ Drains \/ (Draw /\ ~DrawList)
  <2>1. ListsMoved
    BY <1>3, LoopMovesLists
  <2>2. fate = "runs" /\ fate' # "behind"
    BY <1>3 DEF Frame, HandleEvent, Drains, windowVars, Draw
  <2> QED
    BY <1>1, <2>1, <2>2, CursorsMoved DEF CursorInv
<1>4. CASE Draw /\ DrawList
  <2>1. fate = "runs" /\ fate' # "behind"
    BY <1>4 DEF Draw
  <2>2. CursorsIn
    BY <2>1 DEF CursorInv
  <2>3. ASSUME fate' = "runs" PROVE friend_selected' <= Len(friendsList')
    <3>1. CASE list_selected = FRIEND
      <4>1. toggle = 1
        BY <3>1 DEF KeysInv, FRIEND, Closed
      <4>2. friend_selected \in Previews
        BY <1>4, <2>3, <3>1, <4>1 DEF Draw
      <4>3. friend_selected <= Len(FriendsNow)
        BY <1>1, <4>2, PreviewsListed
      <4> QED
        BY <1>4, <3>1, <4>3 DEF DrawList
    <3>2. CASE list_selected # FRIEND
      BY <1>4, <2>2, <3>2 DEF DrawList, CursorsIn
    <3> QED
      BY <3>1, <3>2
  <2>4. chatsSelected' <= Len(chatsList')
    <3>1. Len(ChatsNow) <= Len(ChatsNow)
      <4>1. Len(ChatsNow) \in Nat
        BY <1>1, ChatsListed DEF InfoTyped
      <4> QED
        BY <4>1
    <3> QED
      BY <1>4, <2>2, <3>1 DEF DrawList, CursorsIn
  <2> QED
    BY <2>1, <2>3, <2>4 DEF CursorInv, CursorsIn
<1>5. CASE UNCHANGED vars
  BY <1>5 DEF vars, windowVars, telescopeVars, chatsVars, friendsVars, CursorInv, CursorsIn
<1> QED
  BY <1>2, <1>3, <1>4, <1>5 DEF Next

\* Both cursors start before the first entry.
LEMMA CursorFirst == Init => CursorInv
<1> SUFFICES ASSUME Init PROVE CursorInv
  OBVIOUS
<1>1. PICK start \in Starts : TelescopeInit(start.known, start.talks, start.asking)
  BY Zenon DEF Init
<1>2. friend_selected = 0 /\ chatsSelected = 0 /\ fate = "runs"
  BY <1>1, Zenon DEF TelescopeInit, Init
<1>3. friendsList \in Seq(Entry) /\ chatsList \in Seq(User)
  BY TypedFirst DEF TypeInv, ListsTyped
<1>4. 0 <= Len(friendsList) /\ 0 <= Len(chatsList)
  BY <1>3
<1> QED
  BY <1>2, <1>4 DEF CursorInv, CursorsIn

\* No list is read behind its last entry, for any users, texts, frames and keys:
\* the cursor is checked against the list by the drawing that makes it shorter,
\* which throws at the preview that is not there.
THEOREM CursorIsInList == Spec => []CursorNotBehind
<1>1. CursorInv => CursorNotBehind
  BY DEF CursorInv, CursorNotBehind
<1> QED
  BY <1>1, TypedFirst, TypedStep, KeysFirst, KeysStep, CursorFirst, CursorStep, PTL DEF Spec

-----------------------------------------------------------------------------
(* What Info comes to                                                      *)

\* An answer that agrees: the request goes, and the friend comes.
Agrees ==
  /\ ReturnInRequestMenu /\ CloseMenu
  /\ \E id \in User : Agree(id) /\ again' = (again \/ id \in friends)

\* Nobody is a friend no more, and only an answer takes a request away.
LEMMA InfoGrows ==
  ASSUME TypeInv, [Next]_vars
  PROVE  /\ friends \subseteq friends'
         /\ requests \subseteq requests' \/ Agrees
         /\ again => again'
<1> USE DEF infoVars
<1>1. CASE Keys
  <2>1. \/ UNCHANGED infoVars /\ UNCHANGED again
        \/ ReturnInRequestMenu
        \/ ReturnOnPage
    BY <1>1 DEF Keys, ListKey, CloseLists, ClosePage, Arrow, Side, Line, Text, ReturnInBox,
                ReturnInOptions, ReturnInMyself, ReturnInChats, ReturnInFriends,
                ReturnInFriendMenu, PlainKey, QuietKey
  <2>2. CASE ReturnInRequestMenu
    <3>1. \/ UNCHANGED infoVars /\ UNCHANGED again
          \/ \E id \in User : Refuse(id) /\ UNCHANGED again
          \/ CloseMenu /\ \E id \in User : Agree(id) /\ again' = (again \/ id \in friends)
      BY <2>2, Answered DEF ReturnInRequestMenu, Respond, TypeInv
    <3>2. CASE UNCHANGED infoVars /\ UNCHANGED again
      BY <3>2
    <3>3. CASE \E id \in User : Refuse(id) /\ UNCHANGED again
      BY <3>3 DEF Refuse
    <3>4. CASE CloseMenu /\ \E id \in User : Agree(id) /\ again' = (again \/ id \in friends)
      <4>1. Agrees
        BY <2>2, <3>4 DEF Agrees
      <4> QED
        BY <3>4, <4>1 DEF Agree
    <3> QED
      BY <3>1, <3>2, <3>3, <3>4
  <2> QED
    BY <2>1, <2>2 DEF ReturnOnPage
<1>2. CASE Frame
  BY <1>2 DEF Frame
<1>3. CASE HandleEvent \/ Drains \/ Draw \/ UNCHANGED vars
  BY <1>3 DEF HandleEvent, Drains, Draw, windowVars, vars
<1> QED
  BY <1>1, <1>2, <1>3 DEF Next

\* The lists that are not drawn stay as they are.
LEMMA ListsStay ==
  ASSUME ListsMoved
  PROVE  UNCHANGED <<friendsList, chatsList>>
<1> USE DEF chatsVars, friendsVars
<1>1. UNCHANGED telescopeVars => UNCHANGED <<friendsList, chatsList>>
  BY DEF telescopeVars
<1>2. \A list : OpenList(list) \/ OpenFromCommon(list) => UNCHANGED <<friendsList, chatsList>>
  BY DEF OpenList, OpenFromCommon
<1>3. \A newMenu : CloseList(newMenu) => UNCHANGED <<friendsList, chatsList>>
  BY DEF CloseList
<1>4. \A newFocus : Focus(newFocus) => UNCHANGED <<friendsList, chatsList>>
  BY DEF Focus
<1>5. \A by : MoveCursor(by) => UNCHANGED <<friendsList, chatsList>>
  BY DEF MoveCursor
<1>6. \A text : Type(text) => UNCHANGED <<friendsList, chatsList>>
  BY DEF Type
<1>7. SearchFor \/ ShowResults \/ CloseMenu => UNCHANGED <<friendsList, chatsList>>
  BY DEF SearchFor, ShowResults, CloseMenu
<1>8. \A entry : OpenMenu(entry) => UNCHANGED <<friendsList, chatsList>>
  BY DEF OpenMenu
<1> QED
  BY <1>1, <1>2, <1>3, <1>4, <1>5, <1>6, <1>7, <1>8 DEF ListsMoved

\* So they do in every step but the drawing of a list.
LEMMA ListsDrawn ==
  ASSUME TypeInv, [Next]_vars
  PROVE  (Draw /\ DrawList) \/ UNCHANGED <<friendsList, chatsList>>
<1>1. UNCHANGED vars => UNCHANGED <<friendsList, chatsList>>
  BY DEF vars, telescopeVars, chatsVars, friendsVars
<1> QED
  BY <1>1, KeysMoveLists, LoopMovesLists, ListsStay DEF TypeInv, Next

\* A window whose loop has ended stays as it is, and keys end it in some ways.
LEMMA Ended ==
  ASSUME [Next]_vars
  PROVE  /\ fate # "runs" => UNCHANGED vars
         /\ fate' = fate \/ Keys \/ Draw
<1>1. Keys => fate = "runs"
  BY DEF Keys, ListKey, CloseLists, ClosePage, Arrow, Side, Line, Text, ReturnInBox, ReturnInOptions,
         ReturnInMyself, ReturnInChats, ReturnInFriends, ReturnInFriendMenu, ReturnInRequestMenu,
         ReturnOnPage, PlainKey, QuietKey, Key
<1>2. Frame \/ HandleEvent \/ Drains => fate = "runs" /\ UNCHANGED fate
  BY DEF Frame, HandleEvent, Drains, windowVars
<1>3. Draw => fate = "runs"
  BY DEF Draw
<1>4. UNCHANGED vars => UNCHANGED fate
  BY DEF vars, windowVars
<1> QED
  BY <1>1, <1>2, <1>3, <1>4 DEF Next

\* A preview is missing only in a drawing, and a page only if it is opened.
LEMMA KeyFates ==
  ASSUME Keys
  PROVE  /\ fate' # "preview"
         /\ fate' = "null" => \/ ReturnInChats /\ Reads(chatsList, chatsSelected)
                                 /\ chatsList[chatsSelected] \notin chats
                              \/ ReturnInFriendMenu /\ Reads(friendsList, friend_selected)
                                 /\ friendsList[friend_selected] \notin chats
                                 /\ UNCHANGED <<telescopeVars, chosen>>
<1>1. fate = "runs"
  BY DEF Keys, ListKey, CloseLists, ClosePage, Arrow, Side, Line, Text, ReturnInBox, ReturnInOptions,
         ReturnInMyself, ReturnInChats, ReturnInFriends, ReturnInFriendMenu, ReturnInRequestMenu,
         ReturnOnPage, PlainKey, QuietKey, Key
<1>2. ReturnInChats => /\ fate' # "preview"
                       /\ fate' = "null" => Reads(chatsList, chatsSelected) /\ chatsList[chatsSelected] \notin chats
  BY <1>1 DEF ReturnInChats, Strays, OpenChat, ShowPage
<1>3. ReturnInFriendMenu =>
        /\ fate' # "preview"
        /\ fate' = "null" => /\ Reads(friendsList, friend_selected)
                             /\ friendsList[friend_selected] \notin chats
                             /\ UNCHANGED <<telescopeVars, chosen>>
  BY <1>1 DEF ReturnInFriendMenu, Strays, OpenChat, ShowPage
<1>4. Keys /\ ~ReturnInChats /\ ~ReturnInFriendMenu => fate' \notin {"preview", "null"}
  BY <1>1 DEF Keys, ListKey, CloseLists, ClosePage, Arrow, Side, Line, Text, ReturnInBox, ReturnInOptions,
         ReturnInMyself, ReturnInFriends, ReturnInRequestMenu, ReturnOnPage, PlainKey, Strays, ShowPage
<1> QED
  BY <1>2, <1>3, <1>4

-----------------------------------------------------------------------------
(* The preview that is drawn, and the page that is opened                  *)

\* Unless a friend was accepted again, Info has no fewer friends and requests
\* than the list was made of.
PreviewInv ==
  /\ PreviewKept
  /\ ~again => Len(friendsList) <= Cardinality(friends) + Cardinality(requests)

\* Friends and requests become no fewer, unless a friend is accepted again.
LEMMA CountGrows ==
  ASSUME TypeInv, [Next]_vars, ~again'
  PROVE  /\ Cardinality(friends) + Cardinality(requests) <= Cardinality(friends') + Cardinality(requests')
         /\ ~again
<1>1. InfoTyped /\ InfoTyped'
  BY TypedStep DEF TypeInv
<1>2. /\ friends \in SUBSET User /\ requests \in SUBSET User
      /\ friends' \in SUBSET User /\ requests' \in SUBSET User
  BY <1>1 DEF InfoTyped
<1>3. /\ IsFiniteSet(friends) /\ IsFiniteSet(requests) /\ IsFiniteSet(friends') /\ IsFiniteSet(requests')
      /\ Cardinality(friends) \in Nat /\ Cardinality(requests) \in Nat
      /\ Cardinality(friends') \in Nat /\ Cardinality(requests') \in Nat
  BY <1>2, UsersCounted
<1>4. ~again /\ friends \subseteq friends' /\ (requests \subseteq requests' \/ Agrees)
  BY InfoGrows
<1>5. Cardinality(friends) <= Cardinality(friends')
  BY <1>3, <1>4, FS_Subset
<1>6. CASE requests \subseteq requests'
  <2>1. Cardinality(requests) <= Cardinality(requests')
    BY <1>3, <1>6, FS_Subset
  <2> QED
    BY <1>3, <1>4, <1>5, <2>1
<1>7. CASE Agrees
  <2>1. PICK id \in User : Agree(id) /\ again' = (again \/ id \in friends)
    BY <1>7 DEF Agrees
  <2>2. id \notin friends
    BY <2>1
  <2>3. Cardinality(friends') = Cardinality(friends) + 1
    BY <1>3, <2>1, <2>2, FS_AddElement DEF Agree
  <2>4. Cardinality(requests') >= Cardinality(requests) - 1
    <3>1. Cardinality(requests') = IF id \in requests THEN Cardinality(requests) - 1 ELSE Cardinality(requests)
      BY <1>3, <2>1, FS_RemoveElement DEF Agree
    <3> QED
      BY <1>3, <3>1
  <2> QED
    BY <1>3, <1>4, <2>3, <2>4
<1> QED
  BY <1>4, <1>6, <1>7

\* A list that is drawn is no longer than that.
LEMMA DrawnNoLonger ==
  ASSUME InfoTyped
  PROVE  Len(FriendsNow) <= Cardinality(friends) + Cardinality(requests)
<1>1. FoundFriends \in SUBSET friends /\ IsFiniteSet(friends) /\ Cardinality(friends) \in Nat
  BY FoundAmong, UsersCounted DEF InfoTyped, FoundFriends
<1>2. Cardinality(FoundFriends) <= Cardinality(friends)
  BY <1>1, FS_Subset
<1>3. /\ Len(FriendsNow) = Cardinality(FoundFriends) + Cardinality(requests)
      /\ Cardinality(FoundFriends) \in Nat /\ Cardinality(requests) \in Nat
  BY FriendsListed DEF InfoTyped
<1> QED
  BY <1>1, <1>2, <1>3

\* A drawing that misses a preview has one of three reasons.
LEMMA PreviewMissing ==
  ASSUME TypeInv, CursorInv, PreviewInv, Draw, friend_selected \notin Previews
  PROVE  ss # "" \/ Cardinality(requests) > 1 \/ again
<1>1. /\ Cardinality(friends) \in Nat /\ Cardinality(requests) \in Nat
      /\ IsFiniteSet(requests)
  BY UsersCounted DEF TypeInv, InfoTyped
<1>2. friend_selected \in Nat /\ Len(friendsList) \in Nat
  <2>1. friendsList \in Seq(Entry) /\ friend_selected \in 0 .. Cardinality(Entry)
    BY DEF TypeInv, ListsTyped
  <2> QED
    BY <2>1
<1>3. ~again => friend_selected <= Cardinality(friends) + Cardinality(requests)
  <2>1. friend_selected <= Len(friendsList)
    BY DEF Draw, CursorInv, CursorsIn
  <2>2. ~again => Len(friendsList) <= Cardinality(friends) + Cardinality(requests)
    BY DEF PreviewInv
  <2> QED
    BY <1>1, <1>2, <2>1, <2>2
<1>4. ss = "" => FoundFriends = friends
  BY DEF FoundFriends, Found
<1>5. ~(Cardinality(requests) > 1) => Cardinality(requests) = IF requests = {} THEN 0 ELSE 1
  <2>1. Cardinality(requests) = 0 <=> requests = {}
    BY <1>1, FS_EmptySet
  <2> QED
    BY <1>1, <2>1
<1>6. ss = "" /\ ~(Cardinality(requests) > 1) =>
        Previews = 0 .. Cardinality(friends) + Cardinality(requests)
  BY <1>4, <1>5 DEF Previews
<1>7. ~again => friend_selected \in 0 .. Cardinality(friends) + Cardinality(requests)
  BY <1>1, <1>2, <1>3
<1> QED
  BY <1>6, <1>7, Zenon

\* PreviewInv outlasts every step.
LEMMA PreviewStep ==
  ASSUME TypeInv, CursorInv, PreviewInv, [Next]_vars
  PROVE  PreviewInv'
<1>1. PreviewKept'
  <2>1. CASE fate # "runs"
    <3>1. UNCHANGED vars
      BY <2>1, Ended
    <3> QED
      BY <3>1 DEF PreviewInv, PreviewKept, vars, windowVars, infoVars, telescopeVars
  <2>2. CASE fate = "runs" /\ ~Draw
    <3>1. fate' # "preview"
      BY <2>2, Ended, KeyFates
    <3> QED
      BY <3>1 DEF PreviewKept
  <2>3. CASE Draw
    <3>1. UNCHANGED <<requests, again>>
      BY <2>3 DEF Draw, infoVars
    <3>2. UNCHANGED ss
      BY <2>3 DEF Draw, DrawList, telescopeVars
    <3>3. fate' = "preview" => friend_selected \notin Previews
      BY <2>3 DEF Draw
    <3> QED
      BY <2>3, <3>1, <3>2, <3>3, PreviewMissing DEF PreviewKept
  <2> QED
    BY <2>1, <2>2, <2>3
<1>2. ASSUME ~again' PROVE Len(friendsList') <= Cardinality(friends') + Cardinality(requests')
  <2>1. /\ Cardinality(friends) + Cardinality(requests) <= Cardinality(friends') + Cardinality(requests')
        /\ Len(friendsList) <= Cardinality(friends) + Cardinality(requests)
    BY <1>2, CountGrows DEF PreviewInv
  <2>2. Len(FriendsNow) <= Cardinality(friends) + Cardinality(requests)
    BY DrawnNoLonger DEF TypeInv
  <2>3. Len(friendsList') <= Cardinality(friends) + Cardinality(requests)
    <3>1. CASE Draw /\ DrawList
      BY <2>1, <2>2, <3>1 DEF DrawList
    <3>2. CASE UNCHANGED <<friendsList, chatsList>>
      BY <2>1, <3>2
    <3> QED
      BY <3>1, <3>2, ListsDrawn
  <2>4. TypeInv'
    BY TypedStep
  <2>5. /\ Cardinality(friends) \in Nat /\ Cardinality(requests) \in Nat
        /\ Cardinality(friends') \in Nat /\ Cardinality(requests') \in Nat
    BY <2>4, UsersCounted DEF TypeInv, InfoTyped
  <2>6. Len(friendsList') \in Nat
    <3>1. friendsList' \in Seq(Entry)
      BY <2>4 DEF TypeInv, ListsTyped
    <3> QED
      BY <3>1
  <2> QED
    BY <2>1, <2>3, <2>5, <2>6
<1> QED
  BY <1>1, <1>2 DEF PreviewInv

\* A window starts with the list of what Info has.
LEMMA PreviewFirst == Init => PreviewInv
<1> SUFFICES ASSUME Init PROVE PreviewInv
  OBVIOUS
<1>1. PICK start \in Starts : TelescopeInit(start.known, start.talks, start.asking)
  BY Zenon DEF Init
<1>2. friendsList = FriendsNow
  BY <1>1, Zenon DEF TelescopeInit
<1>3. Len(FriendsNow) <= Cardinality(friends) + Cardinality(requests)
  BY TypedFirst, DrawnNoLonger DEF TypeInv
<1>4. fate = "runs"
  BY DEF Init
<1> QED
  BY <1>2, <1>3, <1>4 DEF PreviewInv, PreviewKept

\* The preview of the entry under the cursor is missing only if a search cut the
\* list, several requests share one preview, or a friend was accepted again, for
\* any users, texts, frames and keys: Friends::refresh checks the cursor against
\* nothing, and throws then.
THEOREM PreviewIsThere == Spec => []PreviewKept
<1>1. PreviewInv => PreviewKept
  BY DEF PreviewInv
<1> QED
  BY <1>1, TypedFirst, TypedStep, KeysFirst, KeysStep, CursorFirst, CursorStep,
     PreviewFirst, PreviewStep, PTL DEF Spec

\* The list of chats is of friends; a page that is not there is a friend's, or
\* the menu was open over an entry that the user had not seen.
NullInv ==
  /\ NullNeedsMissingPage
  /\ \A i \in 1 .. Len(chatsList) : chatsList[i] \in friends

\* NullInv outlasts every step.
LEMMA NullStep ==
  ASSUME TypeInv, MenuInv, NullInv, [Next]_vars
  PROVE  NullInv'
<1>1. chatsList \in Seq(User) /\ friendsList \in Seq(Entry) /\ friends \in SUBSET User
      /\ talked \in SUBSET User /\ requests \in SUBSET User
  BY DEF TypeInv, ListsTyped, InfoTyped
<1>2. \A i \in 1 .. Len(chatsList') : chatsList'[i] \in friends'
  <2>1. \A i \in 1 .. Len(chatsList') : chatsList'[i] \in friends
    <3>1. CASE Draw /\ DrawList
      <4>1. ChatsNow \in Seq(friends)
        BY <1>1, ChatsListed
      <4>2. \A i \in 1 .. Len(ChatsNow) : ChatsNow[i] \in friends
        BY <4>1
      <4>3. chatsList' = ChatsNow \/ UNCHANGED chatsList
        BY <3>1 DEF DrawList
      <4> QED
        BY <4>2, <4>3 DEF NullInv
    <3>2. CASE UNCHANGED <<friendsList, chatsList>>
      BY <3>2 DEF NullInv
    <3> QED
      BY <3>1, <3>2, ListsDrawn
  <2>2. friends \subseteq friends'
    BY InfoGrows
  <2> QED
    BY <2>1, <2>2
<1>3. NullNeedsMissingPage'
  <2>1. CASE fate # "runs"
    <3>1. UNCHANGED vars
      BY <2>1, Ended
    <3> QED
      BY <3>1 DEF NullInv, NullNeedsMissingPage, vars, windowVars, infoVars, telescopeVars, pageVars
  <2>2. CASE fate = "runs" /\ fate' = "null"
    <3>1. Keys
      BY <2>2, Ended DEF Draw
    <3>2. CASE ReturnInChats
      <4>1. Reads(chatsList, chatsSelected) /\ chatsList[chatsSelected] \notin chats
        BY <2>2, <3>1, <3>2, KeyFates DEF ReturnInChats, ReturnInFriendMenu, InList, InMenu, CHAT, FRIEND
      <4>2. chatsList[chatsSelected] \in friends
        BY <1>1, <4>1 DEF Reads, NullInv
      <4>3. friends \subseteq friends' /\ UNCHANGED chats
        BY <3>1, InfoGrows, KeysMove DEF TypeInv
      <4> QED
        BY <4>1, <4>2, <4>3 DEF NullNeedsMissingPage
    <3>3. CASE ReturnInFriendMenu
      <4>1. /\ Reads(friendsList, friend_selected) /\ friendsList[friend_selected] \notin chats
            /\ UNCHANGED <<telescopeVars, chosen>>
        BY <2>2, <3>1, <3>3, KeyFates DEF ReturnInChats, ReturnInFriendMenu, InList, InMenu, CHAT, FRIEND
      <4>2. list_selected' = FRIEND /\ list_selected = FRIEND /\ function_selected % 2 = 0
        BY <3>3, <4>1 DEF ReturnInFriendMenu, InMenu, InList, telescopeVars
      <4>3. CASE chosen = Nowhere
        BY <4>1, <4>2, <4>3 DEF NullNeedsMissingPage
      <4>4. CASE chosen # Nowhere
        <5>1. /\ friendsList = FriendsNow /\ friendsList[friend_selected] = chosen
              /\ function_selected = IF chosen < 0 THEN 1 ELSE 0
          BY <4>2, <4>4 DEF MenuInv
        <5>2. ~(chosen < 0)
          <6>1. 1 % 2 = 1
            OBVIOUS
          <6> QED
            BY <4>2, <5>1, <6>1
        <5>3. chosen \in Entry
          BY <4>4 DEF TypeInv, LoopTyped
        <5>4. chosen \in Int
          <6>1. \A u \in User : u \in Nat
            BY PagesAssumption
          <6> QED
            BY <5>3, <6>1 DEF Entry
        <5>5. chosen > 0
          BY <4>4, <5>2, <5>4 DEF Nowhere
        <5>6. friend_selected \in 1 .. Len(FriendsNow)
          BY <1>1, <4>1, <5>1 DEF Reads
        <5>7. chosen \in friends
          BY <1>1, <5>1, <5>5, <5>6, FriendsListed
        <5>8. friends \subseteq friends' /\ UNCHANGED chats
          BY <3>1, InfoGrows, KeysMove DEF TypeInv
        <5> QED
          BY <4>1, <5>1, <5>7, <5>8 DEF NullNeedsMissingPage
      <4> QED
        BY <4>3, <4>4
    <3> QED
      BY <2>2, <3>1, <3>2, <3>3, KeyFates
  <2> QED
    BY <2>1, <2>2 DEF NullNeedsMissingPage
<1> QED
  BY <1>2, <1>3 DEF NullInv

\* A window starts with the list of chats with friends.
LEMMA NullFirst == Init => NullInv
<1> SUFFICES ASSUME Init PROVE NullInv
  OBVIOUS
<1>1. PICK start \in Starts : TelescopeInit(start.known, start.talks, start.asking)
  BY Zenon DEF Init
<1>2. chatsList = ChatsNow
  BY <1>1, Zenon DEF TelescopeInit
<1>3. ChatsNow \in Seq(friends)
  BY TypedFirst, ChatsListed DEF TypeInv, InfoTyped
<1>4. fate = "runs"
  BY DEF Init
<1> QED
  BY <1>2, <1>3, <1>4 DEF NullInv, NullNeedsMissingPage

\* Opening a chat finds its page unless some friend has none, or the entry was
\* not the one the user saw, for any users, texts, frames and keys.
THEOREM PageIsThere == Spec => []NullNeedsMissingPage
<1>1. NullInv => NullNeedsMissingPage
  BY DEF NullInv
<1>2. Init => ListCurrent
  BY DEF Init, ListCurrent
<1> QED
  BY <1>1, <1>2, TypedFirst, TypedStep, KeysFirst, KeysStep, CurrentStep, MenuFirst, MenuStep,
     NullFirst, NullStep, PTL DEF Spec

-----------------------------------------------------------------------------
(* Answers to requests that are there                                      *)

\* The list has a request that Info has no more.
Stale == \E i \in 1 .. Len(friendsList) : friendsList[i] <= 0 /\ -friendsList[i] \notin requests

\* A stale list is shown only from the key that answered to the next drawing,
\* and one has to type ahead to get to a menu over it.
AnswersInv ==
  /\ AnswersAreAsked
  /\ Stale /\ list_selected = FRIEND => keyed
  /\ Stale /\ list_selected = FRIEND /\ menu = 1 /\ focus = LIST => ahead > 0

\* A list that opens has its keys in the box.
LEMMA OpensInBox ==
  ASSUME ListsMoved
  PROVE  list_selected' # FRIEND \/ list_selected = FRIEND \/ focus' = INPUT
<1> DEFINE Goal == list_selected' # FRIEND \/ list_selected = FRIEND \/ focus' = INPUT
<1>1. UNCHANGED telescopeVars => Goal
  BY DEF telescopeVars
<1>2. \A list : OpenList(list) \/ OpenFromCommon(list) => Goal
  BY DEF OpenList, OpenFromCommon
<1>3. \A newMenu : CloseList(newMenu) => Goal
  BY DEF CloseList
<1>4. \A newFocus : Focus(newFocus) => Goal
  BY DEF Focus
<1>5. \A by : MoveCursor(by) => Goal
  BY DEF MoveCursor
<1>6. \A text : Type(text) => Goal
  BY DEF Type
<1>7. SearchFor \/ ShowResults \/ CloseMenu => Goal
  <2>1. MYSELF # FRIEND
    BY DEF MYSELF, FRIEND
  <2> QED
    BY <2>1 DEF SearchFor, ShowResults, CloseMenu
<1>8. \A entry : OpenMenu(entry) => Goal
  BY DEF OpenMenu
<1> HIDE DEF Goal
<1>9. Goal
  BY <1>1, <1>2, <1>3, <1>4, <1>5, <1>6, <1>7, <1>8 DEF ListsMoved
<1> QED
  BY <1>9 DEF Goal

\* An answer makes a blank request only from a menu over a stale list.
LEMMA BlankMade ==
  ASSUME TypeInv, [Next]_vars, blank = {}, blank' # {}
  PROVE  Keys /\ Stale /\ list_selected = FRIEND /\ menu = 1 /\ focus = LIST
<1> USE DEF infoVars
<1>1. CASE Keys
  <2>1. UNCHANGED infoVars \/ ReturnInRequestMenu \/ ReturnOnPage
    BY <1>1 DEF Keys, ListKey, CloseLists, ClosePage, Arrow, Side, Line, Text, ReturnInBox,
                ReturnInOptions, ReturnInMyself, ReturnInChats, ReturnInFriends,
                ReturnInFriendMenu, PlainKey, QuietKey
  <2>2. ReturnInRequestMenu
    BY <2>1 DEF ReturnOnPage
  <2>3. /\ list_selected = FRIEND /\ menu = 1 /\ focus = LIST
        /\ Reads(friendsList, friend_selected) /\ ~(friendsList[friend_selected] > 0)
        /\ Respond(-friendsList[friend_selected])
    BY <2>2 DEF ReturnInRequestMenu, InMenu, InList
  <2>4. -friendsList[friend_selected] \notin requests
    BY <2>3 DEF Respond, Refuse, Agree
  <2>5. friendsList \in Seq(Entry)
    BY DEF TypeInv, ListsTyped
  <2>6. friend_selected \in 1 .. Len(friendsList) /\ friendsList[friend_selected] \in Entry
    BY <2>3, <2>5 DEF Reads
  <2>7. \A e \in Entry : ~(e > 0) => e <= 0
    <3>1. \A u \in User : u \in Nat
      BY PagesAssumption
    <3> QED
      BY <3>1 DEF Entry
  <2>8. Stale
    BY <2>3, <2>4, <2>6, <2>7 DEF Stale
  <2> QED
    BY <1>1, <2>3, <2>8
<1>2. CASE Frame
  BY <1>2 DEF Frame
<1>3. CASE HandleEvent \/ Drains \/ Draw \/ UNCHANGED vars
  BY <1>3 DEF HandleEvent, Drains, Draw, vars
<1> QED
  BY <1>1, <1>2, <1>3 DEF Next

\* A list that is not drawn becomes stale only with an answer that agrees.
LEMMA BecomesStale ==
  ASSUME UNCHANGED friendsList, requests \subseteq requests', Stale'
  PROVE  Stale
BY DEF Stale

\* A list that is drawn is not stale.
LEMMA DrawnFresh ==
  ASSUME InfoTyped, Draw, KeysInv, list_selected' = FRIEND
  PROVE  ~Stale'
<1>1. CASE toggle = 1
  <2>1. DrawList
    BY <1>1 DEF Draw
  <2>2. friendsList' = FriendsNow /\ UNCHANGED requests
    BY <2>1 DEF DrawList, Draw, infoVars
  <2>3. \A i \in 1 .. Len(FriendsNow) : FriendsNow[i] <= 0 => -FriendsNow[i] \in requests
    BY FriendsListed DEF InfoTyped
  <2> QED
    BY <2>2, <2>3 DEF Stale
<1>2. CASE toggle # 1
  <2>1. list_selected' = Closed
    BY <1>2 DEF Draw, KeysInv, telescopeVars
  <2> QED
    BY <2>1 DEF Closed, FRIEND
<1> QED
  BY <1>1, <1>2

\* AnswersInv outlasts every step.
LEMMA AnswersStep ==
  ASSUME TypeInv, KeysInv, AnswersInv, [Next]_vars
  PROVE  AnswersInv'
<1>1. ahead \in Nat /\ keyed \in BOOLEAN
  BY ChatWindowAssumption DEF TypeInv, LoopTyped
<1>2. requests \subseteq requests' \/ Agrees
  BY InfoGrows
<1>3. CASE Keys
  <2>1. keyed' = TRUE /\ ahead' = IF keyed THEN ahead + 1 ELSE ahead
    BY <1>3, KeysWindow DEF TypeInv, Key
  <2>2. ahead > 1 => ahead' > 1
    BY <1>1, <2>1
  <2>3. keyed /\ ahead > 0 => ahead' > 1
    BY <1>1, <2>1
  <2>4. keyed => ahead' > 0
    BY <1>1, <2>1
  <2>5. AnswersAreAsked'
    <3>1. CASE blank # {}
      BY <2>2, <3>1 DEF AnswersInv, AnswersAreAsked
    <3>2. CASE blank = {} /\ blank' # {}
      BY <2>3, <3>2, BlankMade DEF AnswersInv, AnswersAreAsked
    <3> QED
      BY <3>1, <3>2 DEF AnswersAreAsked
  <2>6. ASSUME Stale', list_selected' = FRIEND, menu' = 1, focus' = LIST PROVE ahead' > 0
    <3>1. list_selected = FRIEND
      BY <1>3, <2>6, KeysMoveLists, OpensInBox DEF TypeInv, LIST, INPUT
    <3>2. ~Agrees
      BY <2>6 DEF Agrees, CloseMenu
    <3>3. UNCHANGED friendsList
      BY <1>3, KeysMoveLists, ListsStay DEF TypeInv
    <3>4. Stale
      BY <1>2, <2>6, <3>2, <3>3, BecomesStale
    <3>5. keyed
      BY <3>1, <3>4 DEF AnswersInv
    <3> QED
      BY <2>4, <3>5
  <2> QED
    BY <2>1, <2>5, <2>6 DEF AnswersInv
<1>4. CASE Frame \/ HandleEvent \/ Drains \/ UNCHANGED vars
  <2>1. UNCHANGED <<keyed, ahead>>
    BY <1>4 DEF Frame, HandleEvent, Drains, vars, loopVars
  <2>2. ~Agrees
    <3>1. Agrees => menu = 1 /\ menu' = 0
      BY DEF Agrees, ReturnInRequestMenu, InMenu, CloseMenu
    <3>2. UNCHANGED menu
      BY <1>4 DEF Frame, HandleEvent, MakeChat, Passes, OnPages, Focus, ShowResults, Drains, vars,
                  telescopeVars, friendsVars
    <3> QED
      BY <3>1, <3>2
  <2>3. UNCHANGED friendsList
    BY <1>4, LoopMovesLists, ListsStay DEF vars, telescopeVars, friendsVars
  <2>4. Stale' => Stale
    BY <1>2, <2>2, <2>3, BecomesStale
  <2>5. \/ list_selected' = MYSELF
        \/ focus' = INPUT /\ UNCHANGED <<list_selected, menu>>
        \/ UNCHANGED <<list_selected, menu, focus>>
    BY <1>4 DEF Frame, HandleEvent, MakeChat, Passes, OnPages, Focus, ShowResults, Drains, vars,
                telescopeVars, friendsVars
  <2>6. AnswersAreAsked'
    <3>1. ~(blank = {} /\ blank' # {})
      <4>1. UNCHANGED infoVars \/ blank' \subseteq blank
        BY <1>4 DEF Frame, HandleEvent, Drains, vars
      <4> QED
        BY <4>1 DEF infoVars
    <3> QED
      BY <2>1, <3>1 DEF AnswersInv, AnswersAreAsked
  <2> QED
    BY <2>1, <2>4, <2>5, <2>6 DEF AnswersInv, MYSELF, FRIEND, LIST, INPUT
<1>5. CASE Draw
  <2>1. AnswersAreAsked'
    BY <1>5 DEF Draw, infoVars, AnswersInv, AnswersAreAsked
  <2>2. list_selected' = FRIEND => ~Stale'
    BY <1>5, DrawnFresh DEF TypeInv
  <2> QED
    BY <2>1, <2>2 DEF AnswersInv
<1> QED
  BY <1>3, <1>4, <1>5 DEF Next

\* A user who waits for each drawing answers requests that are there, for any
\* users, texts and frames: the list is out of date only between the key that
\* agrees and the drawing after it.
THEOREM AskedIsAnswered == Spec => []AnswersAreAsked
<1>1. Init => AnswersInv
  <2> SUFFICES ASSUME Init PROVE AnswersInv
    OBVIOUS
  <2>1. PICK start \in Starts : TelescopeInit(start.known, start.talks, start.asking)
    BY Zenon DEF Init
  <2>2. blank = {} /\ list_selected = Closed
    BY <2>1, Zenon DEF TelescopeInit
  <2> QED
    BY <2>2 DEF AnswersInv, AnswersAreAsked, Closed, FRIEND
<1>2. AnswersInv => AnswersAreAsked
  BY DEF AnswersInv
<1> QED
  BY <1>1, <1>2, TypedFirst, TypedStep, KeysFirst, KeysStep, AnswersStep, PTL DEF Spec
=============================================================================
