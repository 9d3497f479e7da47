# A TLA+ model of VChat

VChat is a chat program for terminals: clients with a text user interface
(C++, FTXUI, Boost.Asio), one server (Boost.Asio, SQLite), and between them
JSON frames over TCP. This directory holds a model of it in TLA+, the TLC
configurations that check the model on small instances, and proofs of some of
its properties for every instance. Paths below are relative to the repository.

## 1. The system

| part | state | operations | talks to |
|---|---|---|---|
| **Store** `server/src/data/store.cpp` | tables `userinfo`, `friendinfo`, `messageinfo` in a file | four queries, three inserts, each insert committed alone | called by Service |
| **Connection, ConnectionManager** `server/src/net/connection.cpp` | a socket and buffers per session; the set `connections` with the only `shared_ptr` to each | `readhead`, `readbody`, `write`, `stop`; their handlers hold `this` | calls Service for each frame |
| **Server** `server/src/net/server.cpp`, `main.cpp` | acceptor, signal set, one `io_context` on one thread | accept, stop by signal | makes Connections |
| **Service** `server/src/service/service.cpp` | `Cache::online` (user to plain `Connection*`), `addfriendapply` (requests for users never seen) | signin, login, findfd, addfd, accept_addfd, refuse_addfd, sendmsg | Store, and any Connection in the cache |
| **Packer** `*/src/data/package.cpp` | none | three digits of method, five of size, JSON body | used by both ends |
| **Net** `client/src/net.cpp` | a socket and buffers | async connect and reads in the net thread, blocking `write` from the window | calls Function for each frame |
| **Function** `client/src/function.cpp` | none | one operation for each request, `handle` for each answer, which changes Info and posts an event | Net, Info, Tui |
| **Info** `client/src/data/info.cpp` | `myself`, `friendinfo`, `messageinfo`, `requestaddlist`, `findlist`, a mutex | `change`, under the mutex | changed by both threads under the mutex; the window reads it, and makes entries by `operator[]`, without |
| **Tui, Dashboard** `client/src/ui/tui.cpp`, `dashboard.cpp` | the screen, the net thread; page, dialog, and a tab (`status`) and `errinfo` for each dialog | the loop, `postevent`, leaving; menu, login dialog, sign dialog | events from the net thread |
| **Vchat** `client/src/ui/vchat.cpp` | chat pages, at most two pages side by side, two selectors | open and close pages, send, bring keys to the page or the list | Function, Telescope |
| **Telescope** `client/src/ui/telescope.cpp` | which list is open, a copy of Info and a cursor for each list, menus over a list, previews, search text | open and close lists, move, filter, search, ask, accept, refuse | Function, Info, Vchat |

What is hard in it, and what correctness means:

* **Lifetime.** The cache and the handlers point at Connections that another
  handler may have destroyed. Nothing must be used after its destruction while
  every client is there; and no new process may use what the old one had.
* **Who is where.** A user is bound to a session by logging in; windows try
  several accounts and users move. What is relayed must reach a window logged
  in as its receiver.
* **Two copies of a conversation.** The list sent at a login and the messages
  relayed afterwards together must be what the table holds.
* **Friendship is two rows** in two commits, with an id read back in between
  and no key on the table; clients add a friend before the server has.
* **Waiting.** Dialogs wait for an event; requests wait in memory for a user.
* **Two threads, no acknowledgements, no timeouts.** A request that is lost is
  never repeated, and a write that fails is not reported to the user.
* **Bytes.** Fixed buffers, a size of five digits, and several `async_write`s
  at once on a socket.
* **Two threads in a client.** Both change Info; the window reads it without
  the lock, makes entries in its maps without the lock (`operator[]` in a drawing,
  a new chat page, an answer to a request), and draws only when a task tells it to; the screen is deleted before
  the other thread is stopped.
* **Copies and cursors.** A list is a copy of Info from the last drawing, and
  its cursor moves, is clamped and is used at different times. What a key does
  must be done to the entry the user saw.

## 2. Modules

    Order <- Data <- Store <- Service <- VChat <- MCVChat (TLC instances)
      |         Connection <--'  ^        ^ <---- VChatProofs <- RoutingProofs <- ConversationProofs
      |               ^--- Client -------'
      |  Conversation <- (refined by) VChat
      '-> Telescope;  OrderProofs <- RoutingProofs, ChatWindowProofs
    Waiting <- (refined by) Dashboard <- DashboardProofs
    Pages <- Telescope <- ChatWindow <- MCChatWindow (TLC instance)
                                     <- ChatWindowProofs
    Screen <- ScreenProofs
    Framing <- FramingProofs

* **Order**: a set of numbers as a list, and the rows of a list at some of its
  positions: what a `std::map`, a query and a filter have in common. Both are
  plain functions, of which proofs can speak.
* **Data**: the records and frames. A frame is its method and the members its
  receiver reads. User names are left out (no handler decides by one), and so
  are times; in Framing they are part of a size.
* **Store**: the tables as functions and a sequence, queries and inserts as
  operators. `friendinfo` counts equal rows, since nothing keeps them apart. A
  step of the server names the Store calls that fail in it, at most `MaxFaults`
  steps have one. `getPersional` has the code's idea of "found": id and password
  are not 0. A garbage id (an uninitialised int) is any user.
* **Connection**: sessions and Connection objects. An object is destroyed in
  the first of its handlers that sees an error (`Destroy`); the handlers this
  cancels run later as `StaleHandler`. A pointer to a destroyed object reaches
  the live object with the same address, if there is one (`Reached`);
  otherwise the process ends or nothing is seen. `wild` remembers that it
  happened. `phase` is the client's side of the session.
* **Service**: each request's handler as one step (the server has one
  thread), with its order of Store calls and writes. `AcceptKilled` is the
  one place where a kill inside a handler leaves something half done.
* **Client**: Function, Info, and as much of the windows as decides what the
  user may ask for. Answers are handled in the order they come.
* **VChat**: the composition, with `Breaks` choosing what may go wrong:
  failing connects, reset sessions, windows that close, a server that is
  stopped or killed. The properties of the whole system are here.
* **Conversation**: what VChat promises about messages, without servers,
  sessions or frames: what is kept stays kept, in order, and a window shows its
  user a growing prefix of it. `Promise` in VChat maps `messageinfo` and `view`
  to it; a window counts as read by a user while he is `Live` there.
* **Waiting** and **Dashboard**: Waiting is what Client assumes of the start
  window (one request waits, until its own answer is there). Dashboard is the
  window in detail: menu, tabs, error texts, the event queue, a user who
  presses before the session stands. It is shown to implement Waiting.
* **Pages, Telescope, ChatWindow**: the chat window, layer by layer. Pages is
  Vchat's page list with the rules of FTXUI's containers it relies on (which
  child is active, where the selector goes, what attaching and detaching does).
  Telescope is the lists, their copies of Info, cursors, menus and previews.
  ChatWindow brings each key and each event to the part that acts on it, under
  FTXUI's loop: several keys may be handled between two drawings. Where the
  code would leave its data (a null page, an index outside a list, an exception
  nobody catches) the window ends with a `fate` of that name, and properties say
  when that may happen.
* **Screen**: the two threads of a client in steps smaller than a handler:
  lock, change, unlock, post; take, handle, draw; and at the end delete the
  screen, stop the `io_context`, join. Info is the number of its changes. Where
  the window looks up a map with `operator[]` (`telescope.cpp:160`, `183`,
  `vchat.cpp:30`, `function.cpp:278`) it may make an entry, without the mutex
  and in two steps (`Inserts`, `Inserted`); what the net thread changes in
  between may be lost, or the process may end. `raced` counts those changes.
* **Framing**: one session in units smaller than a frame: short writes, writes
  started while others are pending, sizes against the buffers. It shows when
  Connection may take a frame as a whole. `saved` is the size of what a login
  of the user sends: his account, his friends and every message, each as long as
  the frame it came in and `Indent` more, since it is an entry of a list there.
  A message sent or relayed in the session makes it longer by its size
  (`Save`), and so does what others leave for the user while he is away (`Saves`).
  A login with a wrong password is answered with its own text, a `sendmsg`
  to oneself comes back.

Beside many definitions there is a *variant*: the definition with a plausible
mistake. None is used by a specification; each is there to show that a
property notices the mistake. `PROJECT.json` says which definition stands for
which lines, and which variant breaks which property.

### What is abstracted, and why that is safe

* A frame is read and written whole in Connection; see Framing.
* `Info::change` and the event after it are one step of Client; Screen has
  them apart.
* Client lets a user answer only a request that is there. ChatWindow justifies
  it: `AnswersAreAsked` says that a window answers one that is gone only after
  two keys were typed ahead of the drawing. (With `MaxAhead = 2` it happens: an
  answer, then Return twice on the list as it was drawn before.)
* In ChatWindow the cursor in a menu of fixed entries is left out: Return takes
  any of them. Lists are drawn whole, and what a closed list holds is kept at
  one value where opening it sets it anyway. Of a text it matters whether it is
  digits, has a small letter, or neither, and which users it matches.
* Ctrl-P in the list of messages of a chat page and a mouse have no lasting
  effect on pages and lists, and are left out with that list.
* After a use of undefined behaviour in a window nothing more is said of it. On
  the server `wild` is remembered and the system goes on.
* `readbody`'s handler ignores an error and reads again; the second read fails
  as well, so both are one `ReadError`.
* A query that fails does so before its first row.
* A user chatting with himself sees each message twice (once displayed when
  sent, once relayed); properties of displayed messages speak of two users.
* `refuse_addfd` is written back to the user who refuses (`service.cpp:207`);
  the code has no other idea of it, so `RightRecipient` leaves it out.
* A session that has ended may or may not accept what is written to it:
  `Written` has both outcomes, and the frame is lost either way.
* A dialog that opens with an uninitialised tab is in Dashboard only.

## 3. What TLC checks

`tlc -config X.cfg M`; each run takes from seconds to four minutes on two
cores.

| run | module | checks | instance |
|---|---|---|---|
| `chat` | MCVChat | `RightRecipient` `ViewMatchesTable` `SentIsStored` | 3 windows, 2 friends, a wrong password, windows close, 5 requests |
| `restart` | MCVChat | `GhostsAreFaults` `WildOnlyAfterDisconnect` `ViewMatchesTable` `KeepsConversations` | 2 windows, two texts, everything breaks, one restart, one faulty step, 4 requests |
| `friends` | MCVChat | `TypeOK` `RightRecipient` `FriendDrift` `RequestsReplayed` `FriendsBacked` | 2 windows, all operations, stop and kill, one restart, one faulty step, 6 requests |
| `live` | MCVChat | `Answered` `Displayed` `RequestArrives` | 2 windows that close, a registration, logins, messages and friend requests, 4 requests |
| `dialogs` | Dashboard | `TypeOK` `AnswersAwaited` `OneRequestWaits` `WaitEnds` | 4 presses |
| `frames` | Framing | `TypeOK` `ServedIntact` `ReadIntact` `OverrunNeedsHistory` | buffers of 2 units, messages up to 3, 2 frames of the client, 1 relayed, a login's list up to 4 and what the session adds |
| `window` | MCChatWindow | `WindowTypeOK` `OpenIffList` `EscapeOnAPage` `PreviewKept` `CursorNotBehind` `NullNeedsMissingPage` `ActsOnChosen` `ListCurrent` `AnswersAreAsked` | 2 users, friends or requests at the start, 1 frame, 2 events posted, 1 key typed ahead, any number of keys |
| `threads` | Screen | `TypeOK` `LostAreRaced` `NothingStale` `OneAfterStop` `ChangeIsDrawn` `ExitEnds` | 3 frames, 2 keys, 1 entry made without the mutex |
| `registered` | MCVChat | `RegisteredIsFound` is violated | |
| `find_name` | MCVChat | `FindByNameFinds` is violated | |
| `friend_page` | MCVChat | `FriendHasPage` is violated | |
| `taken` | Dashboard | `TakenIsNotRegistered` is violated | |

What the bounds let happen:

* Two users are enough for every relation in the code, all of which are
  between a sender and a receiver; three windows let one user leave a window
  whose connection the cache still has while the others talk.
* Making a friend takes five requests (two logins, a search, a request, an
  answer); `friends` has one more, so that one may accept again, or accept
  what a killed server half did.
* One restart separates two memories of the server; a second would repeat it.
  One faulty step may have any set of failing calls.
* As many addresses as windows, so that a new object gets either the storage
  of a destroyed one or another.
* In `frames` an account fits the buffer (size 2 with its indent) or is too long
  for it, and any message or friend more makes the list too long; the user may
  try to send a message longer than the buffer, a relay may be started within
  any login's writes, and the session may end anywhere.
* `window` has no bound on keys or drawings. Two users give a list of two
  entries in each mixture of friends and requests; the frame may be any of those
  that change a list or open one, at any moment; one key typed ahead puts two
  keys between two drawings. A cursor has to go wrong within two entries, and
  a menu under a frame that adds or removes one.
* In `threads` three frames let the net thread be anywhere in one while another
  waits and a third is drawn; two keys are a change and an exit. One
  entry made without the mutex may overlap as many changes as there are frames.

Processes, addresses and texts are symmetric in the safety runs (no symmetry
where liveness is checked). Deadlock is not checked: when the requests of the
bound are made and answered, or everybody has gone, the system rests.

**Fairness.** A ready handler of an `io_context` runs: `Serves`, `WriteDone` for
the server, `Handles`, `NetStops` for the net thread, `Answer` and the event loop
for Dashboard, all weakly fair. In Screen each thread goes on as long as it can
(`NetStep` without reading, `WinStep`); keys and frames are finite, so that the
window's queue runs empty and it draws, which `ChangeIsDrawn` needs. Nothing is
assumed of users, of the network, or
of anyone starting the server again.

**Conditional properties.** The code promises nothing to a user whose session
breaks, or once a destroyed object has been used. Properties of what a user
sees therefore hold for `Live` users: client connected and logged in, cache
pointing at it, no failing Store call and no use of a destroyed object so far.
What comes before the first such use is stated by `WildOnlyAfterDisconnect`:
some client has gone away. `ReadIntact` is conditional in the same way: two
writes of which one is cut short may mix, and nothing in the server prevents
it. In the same way `LostAreRaced` and `ChangeIsDrawn` count what an
entry made without the mutex may take away: that it can is in the model, and
nothing in the client prevents it. `WaitEnds` and `Answered` hold for requests
written to a session that stands: a dialog whose session is broken waits for ever.

### Where the code and its own words differ

* `registered`: an account with id or password 0 is stored and answered with
  success, and never found again (`store.cpp:55`).
* `find_name`: searching by name always fails: `'%?%'` has no parameter
  (`store.cpp:64`).
* `friend_page`: on `accept_addfd` the chat window makes a page for the first
  request still pending, not for the new friend (`vchat.cpp:295`); opening
  the friend's chat then dereferences a null pointer (`vchat.cpp:182`).
* `taken`: for an id that is taken the sign dialog says "registered, please
  log in" (`dashboard.cpp:140` sets the number of the text in line 132).

## 4. What is proved

For every value of the constants that satisfies the modules' assumptions.

| theorem | module | states |
|---|---|---|
| `TypeCorrect` | VChatProofs | `Spec => []TypeOK` |
| `WildNeedsDisconnect` | VChatProofs | `Spec => []WildOnlyAfterDisconnect` |
| `FriendshipIsMutual` | VChatProofs | `Spec => []FriendSymmetric` |
| `FriendDriftBounded` | VChatProofs | `Spec => []FriendDrift` |
| `RelayedToTheRightUser` | RoutingProofs | `Spec => []RightRecipient` |
| `WaitingRequestsArrive` | RoutingProofs | `Spec => []RequestsReplayed` |
| `ListedFriendsAreBacked` | RoutingProofs | `Spec => []FriendsBacked` |
| `DisplayedIsStored` | ConversationProofs | `Spec => []ViewMatchesTable` |
| `SentMessagesAreStored` | ConversationProofs | `Spec => []SentIsStored` |
| `GhostsComeFromFaults` | ConversationProofs | `Spec => []GhostsAreFaults` |
| `ConversationsAreKept` | ConversationProofs | `Spec => KeepsConversations` |
| `SessionTyped` | FramingProofs | `Spec => []TypeOK` |
| `BuffersHold` | FramingProofs | `Spec => []OverrunNeedsHistory` |
| `ServedAreSent` | FramingProofs | `Spec => []ServedIntact` |
| `ReadAreWritten` | FramingProofs | `Spec => []ReadIntact` |
| `StartWindowTyped` | DashboardProofs | `Spec => []TypeOK` |
| `OneAnswerAtATime` | DashboardProofs | `Spec => []AnswersAwaited` |
| `DashboardImplementsWaiting` | DashboardProofs | `Spec => OneRequestWaits` |
| `ThreadsTyped` | ScreenProofs | `Spec => []TypeOK` |
| `ChangesAreKept` | ScreenProofs | `Spec => []LostAreRaced` |
| `IdleShowsAll` | ScreenProofs | `Spec => []NothingStale` |
| `StopIsSoon` | ScreenProofs | `Spec => []OneAfterStop` |
| `ListsHaveKeys` | ChatWindowProofs | `Spec => []OpenIffList` |
| `WindowTyped` | ChatWindowProofs | `Spec => []WindowTypeOK` |
| `ListIsCurrent` | ChatWindowProofs | `Spec => []ListCurrent` |
| `EscapeFindsAPage` | ChatWindowProofs | `Spec => []EscapeOnAPage` |
| `MenuActsOnChosen` | ChatWindowProofs | `Spec => []ActsOnChosen` |
| `CursorIsInList` | ChatWindowProofs | `Spec => []CursorNotBehind` |
| `PreviewIsThere` | ChatWindowProofs | `Spec => []PreviewKept` |
| `PageIsThere` | ChatWindowProofs | `Spec => []NullNeedsMissingPage` |
| `AskedIsAnswered` | ChatWindowProofs | `Spec => []AnswersAreAsked` |

* **Types.** `TypeOK` of VChat is inductive by itself; the work is in the
  frames, whose fields each handler may read only for its own methods.
* **Destroyed objects.** As it stands the property is not inductive: a step
  that writes through the cache must know that the object is there. The
  invariant adds `PointersInv`: unless an accepted client has gone away, every
  connection in the cache is one that exists and no cancelled handler is queued.
  A server that starts has empty caches and no handlers.
* **Friendship.** A handler that accepts adds one row each way if the id it
  reads back is the requester's; `KnownInv` says that it is: whoever is in a
  request, in a list or in a cache has an account, since ids come from logins
  and from searches that found them (while no Store call has failed).
  `FriendDrift` then needs only that a kill leaves one row and counts itself.
* **Who is where.** Everything rests on one fact about the start window: one
  login is out at a time (`OneLogin`, over what a window has sent and what is
  on its way back). So a session's stream has at most one `login_suc` in it, and
  after the user has one the session has none to come. `RoutedTo` says of each
  stream that a relayed frame is for the user the window has when it is
  handled: the one it has, or the one whose `login_suc` is in front of it. A
  write through the cache appends to the stream of the session the user is
  bound to, behind the `login_suc` that bound him. `Sound` rules out failing
  calls (they make garbage ids) and destroyed objects, and nothing else.
* **Replayed requests.** `addfriendapply` holds nothing for a user with a
  connection in the cache, and the login that makes the entry empties it
  into the same writes.
* **Backed friends.** A window may list a friend before the server has the rows:
  then its `accept_addfd` is still on its way. The invariant follows the pair
  from that frame to the rows to the frame relayed to the other window.
* **What is displayed.** The equality of `ViewMatchesTable` is not inductive: it
  is about windows whose login has been handled, and the list that makes it true
  comes with that login. `SeatedInv` says the same of what a window *will* show
  (`Held`): what it shows its user, or the list in a `login_suc` that is on its
  way, followed by the messages behind it, is what the table has (`Displays`,
  which has the two inequalities on sent messages and on failed inserts as well).
  The rest of `SeatedInv` is what keeps that up. A window without a user shows
  nothing (`Blank`) and is sent no message before a login is answered
  (`Alone`), so handling the login makes exactly its list the view; the
  cache has a session for one user, every message in the session's stream is for
  him, and from the answer on (`Bound`), so a message is added to the stream of
  the right window and, when it is handled, to the right chat; `OneLogin` keeps
  a second list away; `Strange` starts it all. It is claimed while no destroyed
  object has been used, and no more is needed: stops, kills, restarts, broken
  sessions and failing Store calls are all in. With a fault the equality is
  lost for good, and what is left is the count of `GhostsAreFaults`.
* **Lists of messages.** What a filter leaves (`From`, `Messages`, `ChatWith`,
  `getMessage`) is `Select` of a set of positions. OrderProofs shows what it
  needs: a selection from two lists one after the other is the two selections
  (`SelectConcat`), and a selection from a selection is one (`SelectAgain`). So
  a row at the end of the table is a row at the end of each conversation it
  belongs to, and a user's part of the table has his conversations in it whole.
* **Conversation.** `SeatedInv` in the next state gives each step its place in
  the abstract specification: storing a message is `Keep`, unless the sender
  writes to himself; handling a `login_suc` is `IsEntered`, since what is shown
  and what is on its way make up what is kept; handling a message is `Shows`,
  since what comes first of what is on its way is the next one kept; every
  other step leaves windows as they are or ends them (`Stays`, `IsLeft`). That
  a login served by the server brings nobody to a window, not even one that is
  logged in, is again `OneLogin`.
* **The start window.** `DialogInv` (a dialog is open only where answers are
  handed to it) and `WireInv` (nothing is out, or one request of the waiting
  dialog, or one answer to it). Every step then maps to a step of Waiting or to
  a stutter; opening a sign dialog with a junk tab maps to a request whose
  write failed.
* **Frames in pieces.** What the server has read, holds and has still to
  read is always the concatenation of the units of what the client sent, and
  the head it holds is the next frame's (`ServerInv`). The same holds for the
  client as long as no two writes overlap with one of them cut short (`ClientInv`).
  Splitting a concatenation of frames at its first frame is the lemma the
  others need. For the types, `TypeInv` says which sizes each line can have: what
  the client writes fits the buffers (`Small`), what the server writes fits them
  or what is saved (`Fitting`), which only grows; `HeadFits` adds that a
  server that reads a body reads one that fits. The bound of
  `OverrunNeedsHistory` follows from these alone. `ShapeInv` adds that heads are
  heads and that no completed write is left in line.
* **Two threads.** `MutexInv` ties the mutex to the thread that is inside
  `change`, so two changes never overlap. An entry of the window may overlap a
  change of the net thread, and what it writes back then lacks that change.
  `ChangeInv` says of Info, and of what either thread has read and is going to
  write back, that it lacks no more changes than were counted in `raced` when
  they met an entry. For the end of the program, `StopInv`: a frame that
  ends after the stop leaves a net thread that reads no other. `DrawInv`:
  what is on the screen is Info, or a task is queued, or the thread that
  changed Info has its post still to make.
* **Two selectors.** `KeysInv` is `OpenIffList` without its condition. Every
  key, event and drawing either leaves both `Vchat::selected` and
  `Telescope::list_selected` alone, or sets both in one handler; the work is in
  showing that nothing sets one of them.
* **Lists and cursors.** A list is drawn from a set (`Sorted`): it is as long
  as the set is large, and each member is in it once. `ListCurrent` is inductive
  with the types. `EscapeInv`: FTXUI settles `page_selected` on a page when
  it draws, and the first key after that leaves it on one. `MenuInv`: while a
  menu is open for an entry, the list, the cursor and the set of options are
  those it was opened with, unless friends or requests changed.
  `CursorInv`: a drawing clips the cursor, keys move it within the list.
  `PreviewInv` bounds a list by the friends and requests there are, which only
  grow together. `NullInv` and `AnswersInv` go from what the user saw to what
  Info has, by way of `ListCurrent`.

`FriendshipIsMutual` is proved only: no run checks `FriendSymmetric`, of which
`FriendDrift` is the form that allows for kills. Every invariant and both
refinements of the passing runs are proved. Left to TLC is liveness under
fairness (`Answered`, `Displayed`, `RequestArrives`, `WaitEnds`,
`ChangeIsDrawn`, `ExitEnds`), which these provers do not reach.

## 5. What is not modelled

Group chats, changing one's data, logging out, signing out and removing a
friend: menu entries and enum members nobody handles. Malformed requests: no
client sends any. Of the windows: the list of messages on a chat page with its
cursor, the list of search results (a copy of `findlist` that asks, or opens a
chat, by the same functions), cursors in menus of fixed entries, the text being
written, the mouse, layout and pictures, the previews of the options among them.
Regular expressions in the search box,
times, logging, building and deployment, `help/`.

## 6. Plan

Done: every module of section 2 and the theorems of section 4. What is left:
the list of messages of a chat page with its cursor, and the list of search
results, as further parts of ChatWindow, with the invariants on their cursors;
and what is left of `RightRecipient` and `FriendsBacked` after a failing Store
call.
