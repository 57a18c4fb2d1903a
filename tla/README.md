# A TLA+ model of Ruqola

Ruqola is a Rocket.Chat client.  It is one thread with an event loop that talks
to a server over two transports, HTTP requests (REST) and a websocket that
carries the DDP protocol, and keeps a copy of what the server knows: who is
logged in, which rooms there are, and the messages in them.  The two transports
are not ordered against each other, either can fail alone, and everything the
client believes is assembled from answers and events that arrive when they
like.  That is where its hard behaviour is, and what these modules are about.

Paths below are relative to `src/src/core/` unless they say otherwise; the exact
lines of every definition are in `PROJECT.json` under `map`.

## 1. The system

### Components, their state and what they promise

| component | state | operations | hard behaviour | correct when |
|---|---|---|---|---|
| `AuthenticationManagerBase` and its REST and DDP subclasses (`authenticationmanager/`, `ddpapi/ddpauthenticationmanager.cpp`, `../rocketchatrestapi-qt/authentication/`) | `mLoginStatus`, token, last login payload, calls in flight | the logins, `sendOTP`, `logout`, `logoutAndCleanup`, answers | answers to superseded calls, jobs that fail unheard, sockets that close | a waiting status has a call to wait for, and ends |
| `RocketChatAccount`, `RocketChatBackend` (session) | the `Connection` (REST) and the `DDPClient`, the stored token, reconnection timers | connect, automatic login, log in, log out, reconnect, forced disconnection | two clients that are replaced while their calls, timers and queued slots run | REST and DDP stay in step, nothing is abandoned, a retry is answered |
| `DDPClient`, `MessageQueue` | ids, two hashes of who asked, subscriptions, queue of unsent messages | call, subscribe, unsubscribe, receive, close, resend | answers in any order, calls on a closed socket | an answer reaches the one who asked, every subscription can be ended |
| `MessagesModel` | the rows of a room, sorted by time | add, update, delete, page of history, clear | events, pages and replies that overtake each other | sorted, unique, current, without gaps |
| `RoomModel`, `Room` | the list of rooms, each made of two documents | load, add, update, remove | two streams and two loads of the same rooms | a room is listed once, and the list is the user's rooms as they are |
| typing notifications | the sender's timer, the receiver's map of rooms | typed, switched, timed out, received | a stop that never comes or goes to the wrong room | nobody is shown as typing for ever |
| message line: `MessageLineWidget`, `RoomWidget`, `RuqolaMainWidget` (`../widgets/`), `AccountRoomSettings` | one line (text, edit, quote, thread), a stored draft per room, the room shown last in each account | write, edit, quote, answer, send; select a room; show another account | one line for all rooms of all accounts, whose ids may be equal; refused edits that come back late | each room keeps its own draft, and what is sent goes to the room that is shown |
| file cache: `RocketChatCache`, `AvatarManager`, `AvatarCacheManager` (`../widgets/misc/`), `DownloadFileJob` | a queue of avatars with a timer, jobs, files on disk, pixmaps in each view | paint, fetch, change an avatar, log in, lose the connection, restart | failed and lost jobs, an avatar that changes while it is fetched, several views of it | what is asked for is fetched, once; a change reaches what is kept |
| opening rooms: `ManageChannels`, `ChannelListView`, `RoomFilterProxyModel` (`../widgets/channellist/`) | rooms to be selected once they are listed, jobs, the search | join, open, ask for a password, select, switch accounts | the answer comes before the room or after it, another account is shown by then | a room that was asked for is shown |
| the rest | | | tables overwritten by events, presentation, string conversion, files, cryptography | not modelled, see section 7 |

### How they interact

- The account creates its clients lazily: `restApi()` makes a `Connection`,
  `ddp()` a `DDPClient` whose `start()` is queued.  Whoever calls either brings it
  back, also slots that run late.
- Each client has its authentication manager.  A change of status is a Qt
  signal, whose slots run before the setter returns:
  `slotRESTLoginStatusChanged` and `slotDDpLoginStatusChanged` release a client
  that cleaned up, `RocketChatBackend::slotLoginStatusChanged` stores the token
  and logs the websocket in with it.
- After that login, `initializeSubscription` asks for the subscriptions
  (`subscriptions/get`), whose answer asks for the rooms (`rooms/get`); the
  event streams are subscribed to when the login's `added` message names the
  user.
- Opening a room subscribes to its events on the websocket and loads the first
  page of messages over REST.
- A room is shown by selecting its row in the one list of the window, which shows
  the rooms of one account at a time.  Selecting it stores what the line holds
  for the room that is left and restores what was stored for the other.
- A room that is joined is told of twice, by the answer over REST and by the
  websocket's events that make its row; `ManageChannels` waits for the second.
- What views paint comes from files; a file that is not there is fetched by a job
  of the `Connection`, which goes when the connection does.
- A network error takes both clients down and starts a timer that logs in
  again; so do a change of network and the countdown in the window.

## 2. The modules

| module | models | EXTENDS / INSTANCE |
|---|---|---|
| `AuthStatus` | the login statuses and how calls and answers change them, as operators | |
| `LoginProtocol` | what an authentication manager promises: the abstract specification | |
| `AuthManager` | `AuthenticationManagerBase` over either transport | EXTENDS `AuthStatus`; INSTANCE `LoginProtocol` |
| `AuthManagerProofs` | its theorems | EXTENDS `AuthManager` |
| `AccountSession` | `RocketChatAccount` and `RocketChatBackend` with both clients, the timers, the login page and the reconnection bar | EXTENDS `AuthStatus` |
| `AccountSessionProofs` | its theorems | EXTENDS `AccountSession` |
| `DDPClient` | ids, routing, subscriptions, the queue of unsent messages | |
| `DDPClientProofs` | its theorems and those of `Typing`, whose statuses go over such clients | EXTENDS `DDPClient`, `Typing` |
| `RoomMessages` | `MessagesModel`, and what fills it | |
| `MCRoomMessages` | times of the messages for TLC | EXTENDS `RoomMessages` |
| `RoomMessagesProofs` | its theorems | EXTENDS `RoomMessages` |
| `RoomList` | `RoomModel`, the two loads and the two event streams | |
| `RoomListProofs` | its theorems | EXTENDS `RoomList` |
| `Typing` | `TypingNotification` of the users who write, `ReceiveTypingNotificationManager` of one who listens, the server in between | |
| `Drafts` | what a draft and a request hold: the data of the next two | |
| `RoomDrafts` | what the message line promises, a draft for each room: the abstract specification | EXTENDS `Drafts` |
| `MessageLine` | the one line of the window, what is stored for each room, and the switching of rooms and accounts | EXTENDS `Drafts`; INSTANCE `RoomDrafts` |
| `MCMessageLine` | rooms and messages for TLC | EXTENDS `MessageLine` |
| `MessageLineProofs` | its theorems | EXTENDS `MessageLine` |
| `FileCache` | the queue of avatars, the jobs, the files on disk, the pixmaps of the views | |
| `MCFileCache` | which view shows what, for TLC | EXTENDS `FileCache` |
| `FileCacheProofs` | its theorems | EXTENDS `FileCache` |
| `OpenRoom` | `ManageChannels` of each account, its list of rooms, the view of the window, the server | |
| `MCOpenRoom` | rooms and subscriptions for TLC | EXTENDS `OpenRoom` |
| `OpenRoomProofs` | its theorems | EXTENDS `OpenRoom` |

Definitions that begin with a comment "Faulty:" are not part of any
specification.  Each is a form an operator would take with a plausible bug, and
is kept to show that a property notices it (`mutants` in `PROJECT.json`).

### Conventions

- A slot that runs inside a signal is part of the action that emits it.  What
  waits in the event loop, for a timer, a server or the user is an action.
- Data is what the properties tell apart: a document is the number of the
  change that made it, a message its identity, version and time.
- A variable marked *history* is not in the program: it records that a race the
  code does not prevent has happened, so that a property can say what holds
  otherwise.  Each is listed with the races it stands for in section 4.

### `AuthManager`

One manager, of class `transport`.  Over REST each call is a job of its own:
answers come in any order (`Answer`), a job that fails is not heard
(`JobFails`).  Over DDP calls share a socket: answers come in order, what is
called on a closed socket is dropped (the calls are `Ephemeral`), a close takes
the unanswered ones with it (`SocketClosed`).  `inFlight` is what the server
owes, `lost` what never comes.  `LoginPassword` is all interactive logins, which
reset a `GenericError` first (`checkGenericError`); `LoginResume` is
`setAuthToken` with `login()`, which does not.  `authenticationmanager.h:76`
calls `GenericError` irreversible, while the interactive logins do leave it;
`LogoutCleanUpOngoing` (`:72`) is a status no code sets: both kinds of logout
set `LogoutOngoing`.

### `AccountSession`

The variable `account` is a record of the account with its two clients, since a
chain of slots passes through all of it: `SetRestStatus`, `SetDdpStatus`,
`DdpLogin`, `TryLogin`, `LogOut`, `ForceDisconnect`, `ReconnectToServer` are
operators from account to account with the names of the code.  Deleting a
client drops its calls, so a late answer can only hit the client it was made
on.  Where the code's outcome depends on the destructor of a client whose
socket is closed (its unsubscriptions go through the account's queue, which
asks for a client), `orphan` keeps the step for later, as `deleteLater` does.

### `DDPClient`

One client from `start()` on.  `wire` holds the frames the server has not
answered and answers in any order; each carries a ghost field `asker`, which is
what the hashes should lead back to.  `CallPersistent` is `sendTextMessage` with
`storeInQueue`, which processes the queue at once; `Retry` is one turn of
`processQueue`'s loop, during which nothing else of this thread runs
(`retrying`).

### `RoomMessages`

One room, open in a connected account, with the local database off
(`storeMessageInDataBase` is, by default).  `AddMessage` is
`MessagesModel::addMessage` with its upper bound and its three cases;
`HistoryDone` is `processIncomingMessages` of a page, all at once into an empty
model, else one row per turn (`AddNext`), with nothing else in between (`Idle`).
`checkInitializedRoom`, `loadHistory`, `slotChanged`, `slotPostMessageDone` and
`clearHistory` are the client's, the other actions the server's.  Several messages may
have one time, since times are milliseconds: `upper_bound` is then behind all of them,
and only the last is compared with the one that is added.

### `RoomList`

One session of the websocket, from the moment `ddpLogin` has called
`initializeSubscription`: the list is empty then, because `forceDisconnect`,
`tryLogin` and `logOut` clear it.  The account stays logged in.  A room's two
documents are revision numbers, 0 for a document not heard of.  Two events go
through one queue per stream; the two queues and the two answers are not
ordered.  `SubscriptionEvent` is `RoomModel::updateSubscription`, `RoomEvent` the
`rooms-changed` branch of `slotChanged`, whose "removed" passes an empty
identifier on and so removes nothing.

### `Typing`

Some users write (`textNotificationChanged`, `slotTimeout`), each over a socket
of their own; the server passes a status on if the listener has asked for the
room (`Relay`); the listener stores it (`insertTypingNotification`) and shows the
names of the room selected.  `switchingToRoom` empties the window and asks for
the room's events.  Delays are not modelled: a timer fires any time it is active.
The names of a room are a set: in which order they are shown is left out.
Its initial state, steps, specification and types carry the module's name
(`TypingSpec`), since `DDPClientProofs` extends it beside `DDPClient`.
The users write in any room and change between rooms while they type, which the code
tells the wrong way round: `misplaced` (history) holds the users and rooms of which the
last status is not right for that reason.

### `MessageLine`, `Drafts` and `RoomDrafts`

`line` is what the `MessageLineWidget` and its text edit hold; `mPendingTypedTexts`
is what `RoomWidget` stored for each room, of all accounts.  `selectChannelRoom` is
`RoomWidgetBase::setChannelSelected` with all it calls: `storeRoomSettings` for the
room that is left, the clearing of the line, and what was stored for the other
room.  `accountInitialized` and `setCurrentRocketChatAccount` select the room that
was shown last.  The other actions are what the user does in the line; an update
that is refused (`slotUpdateMessageFailed`) puts its text in the line whatever is
shown by then.  `RoomDrafts` knows no line: each room has a draft, one of them is
shown, and only that one is written and sent.  `drafts` is the mapping: the line
for the room that is shown, what is stored for the others.

### `FileCache`

An avatar has versions, since a user may change it while its url stays; an
attachment has one.  `jobs` counts the `DownloadFileJob`s of each kind, with the
version a job was answered with.  `slotLoadNextAvatar` is the timer of the
`AvatarManager`; `makeAvatarPixmap` and `slotAvatarChanged` are the
`AvatarCacheManager` of a view; `Restart` ends Ruqola in order, when the
destructor writes the urls, or in a crash.

### `OpenRoom`

For each account: the server's subscriptions (`member`), the events and jobs under
way, the rows, and the ids `ManageChannels` keeps until `openChanged`
(`mDelayedSelectedRooms`), which then start a single shot (`timers`).  The window
has one view: `Select` looks for the room in the list of the account that is shown,
whichever account asked.  `wanted` (history) is the room asked for last in each
account; it is dropped when the room is shown, and given up where the code loses
it.

## 3. The runs

Every run is `tlc -config <cfg> <module>`.

| run | module, cfg | question | states |
|---|---|---|---|
| `auth` | `AuthManager`, `MCAuth` | Does a waiting status always have a call to wait for, does it end, and does the manager keep its protocol? | 24,872 |
| `session` | `AccountSession`, `MCSession` | Do REST and DDP stay in step, is a disconnected account brought back, does a logout end? | 201,279 |
| `session_server_close` | `AccountSession`, `MCSessionServerClose` | Does a client that is taken away take its rooms along? No. | |
| `ddp_client` | `DDPClient`, `MCDdpClient` | Does every answer reach the one who asked? | 795,631 |
| `ddp_queue` | `DDPClient`, `MCDdpQueue` | Does the queue of unsent messages hold only unsent ones? No. | |
| `messages` | `MCRoomMessages`, `MCMessages` | Are the rows sorted, unique, current and complete whatever overtakes what? | 2,423,922 |
| `room_list` | `RoomList`, `MCRoomList` | Is the list of rooms the user's, however the streams and the loads interleave? | 768,550 |
| `typing` | `Typing`, `MCTyping` | Are the names shown those of the users who type, and does none stay? | 591,846 |
| `typing_switch` | `Typing`, `MCTypingSwitch` | Is a change of room while typing told to both rooms? No. | |
| `message_line` | `MCMessageLine` | Does one line keep the drafts of all rooms apart, whatever is switched when? | 161,868 |
| `file_cache` | `MCFileCache` | Is what is asked for fetched, once, and does a change of an avatar reach what is kept of it? | 86,442 |
| `open_room` | `MCOpenRoom` | Is a room that was asked for shown, whichever of the answer and its row comes first? | 124,236 |

### What the passing runs show

**auth.** `OngoingAwaitsAnswer`: in `LoginOngoing`, `LoginOtpAuthOngoing` and
`LogoutOngoing` a call of that kind is unanswered.  Answers are applied whatever
the status is when they come, so it is not obvious that the answer to a
superseded login cannot leave a status that waits for nothing.
`ImplementsProtocol`: the manager is a `LoginProtocol`, in which one gets in only
by the answer to a credential request or a trusted token.  `OngoingEnds`: the
waiting ends if the server answers and no call is lost.

**session.** `NeverAbandoned`: an account that could log in and was not logged
out has a connection, or a timer that makes one.  `DdpFollowsRest`: a websocket
that is up under a logged-in connection was asked to log in, whichever of the
two came last and however often either was replaced.  `DdpNeverLeads`: the
websocket is not logged in when REST is not, but for a lingering OTP code and
for logouts.  `StuckDdpReplaced`: a client that waits for its logout is not kept
by an account that logs in again, or has.  With a lingering OTP code two logins can
be under way (`sendOTP` sends in any status), and the late answer to one logs in an
account that was just logged out: TLC finds this with one disruption and five
requests, so the property leaves it out.  `RetryIsAnswered`: a running reconnection
timer leads to an answered login; excluded are a lost job, since a failed
`MethodCallJob` tells nobody and the status stays `LoginOngoing`, and accounts
the user logged out, since the answer to that logout deletes the connection.
`LogoutEnds`: a logout that was sent ends.

**ddp_client.** `AnswerReachesAsker`: the two hashes lead every answer, in any
order, to the asker, though ids are shared by calls, subscriptions, resent
messages and calls made over REST.  `SubscriptionsKnown`: what the server serves
is in the list the destructor unsubscribes from.

**messages.** `RowsSorted`, on which `upper_bound` and `lastTimestamp` rely;
`NoDuplicates`: a message has two rows only if another has its time;
`RowsAreCurrent`: once all events are applied its last row is the message as it is, and
if it is deleted none is left, unless it shares its time; `NothingMissing`: behind the
first row every message is there, of those that share a time at least one, or it was
deleted.  The last two but for the races of section 4.  The old messages of the run
have one time (`SharesTime`), so that it meets the second row; the others show that
nothing else makes one.

**room_list.** `NoDuplicates`: the warnings of `findRoom` and its like never
apply.  `ListFollowsSubscriptions` and `RowsFollowRooms`: with nothing under
way, the rooms listed are those the user is in, each with both documents as they
are, but for the races of section 4.

**typing.** `NamesAreTyping`: with everything delivered the names kept are those of the
users who type, but for statuses that were lost and for users who changed room while
typing, and they are right again after the next status for that user and room;
`StatusBarIsOfRoom`, the window shows nobody or the names of the room selected;
`ShownEnds`, nobody is shown for ever, with the same two exceptions.

**message_line.** `Implements`: the line is a `RoomDrafts`, so that no switching of
rooms or accounts, in whatever order rooms are listed, mixes drafts up or sends one
to another room.  `DraftOfItsRoom`: what is edited, quoted or answered is a message
of that room, but for edits taken from the thread opened last.  `QuoteIsShown`:
what will be quoted is shown as quoted.  `LastRoomIsShown`: an account whose rooms
are listed shows the room that was selected last in it, and the line sends there.

**file_cache.** `QueueIsServed`: the timer never fires on an empty queue, whose head
it takes unchecked, and what has an empty url is queued.  `FilesAreFetchedOnce`:
`mFileInDownload` holds the files that are being fetched, but for those whose job
ended unheard.  `ChangesReachViews`: a change reaches the disk and every pixmap, but
for the races of section 4.  `AvatarsAreFetched`: an avatar that is asked for gets
into the cache unless its job fails or is lost.

**open_room.** `WantedIsPending`: a room that was asked for and is not shown has a
job, a password dialog, a timer, or an entry that its row's `openChanged` will
find, however answers, events and loads interleave.  `WantedIsShown`: it is shown,
or given up by one of the ways of section 4, or its password is waited for.

### What the violations show

1. `session_server_close`.  On a normal close `onWSclosed` sets
   `LoggedOutAndCleanedUp`, whose slot disconnects the client from the account,
   and only then emits `disconnectedByServer()`, which therefore never reaches
   `slotReconnectToDdpServer`: the rooms stay, and no websocket is opened.
2. `typing_switch`.  When the room changes while typing, `typingnotification.cpp:43`
   and `:46` say "1) stop typing in old room" and "2) start info about typing in new
   room.", and the code sends the stop for the new room and the start for the old one.
   `RoomChangeIsTold` fails in eight steps, with nothing lost: the user stays shown in the
   old room and is not shown in the new one.  The timer then stops the new room only, so
   the old room shows them until they have typed there again.  With the two rooms exchanged,
   as the comments have it, the same configuration passes.  With three changes of the text
   it would still fail when a text is emptied or sent in another room before the
   two seconds are over (`:36`): that branch stops the new room only.
3. `ddp_queue`.  Nothing ever dequeues from the message queue.  Logged in, with
   a message in it, `processQueue` resends the head for ever.

### Also seen, not stated by a run

Of these the first contradicts a comment, and needs no run: the outcome is decided in
one slot.  No line of the code says otherwise of the rest, or what says so is a comment
about another case:

- `rocketchataccount.cpp:2453`: a stored token that is answered with 403 leads to
  `LoginFailedInvalidUserOrPassword`, which does not clear it, so that every later login
  resumes with it again; the comment at `:2455` says of a token that is not cleared
  "ruqola will want to login with resume method => it will failed all the time".
- `model/messagesmodel.cpp:131`: only the row before the upper bound is compared, so
  of two messages with one time the earlier gets a second row when it is edited, and
  one row stays when it is deleted.
- `model/messagesmodel.cpp:139`: the only row is replaced without a look at
  `pendingMessage()`, also by the late reply to the user's own post.
- `../widgets/room/messagetextedit.cpp:133`: the text of a refused edit replaces what
  is in the line by then.
- `rocketchatcache.cpp:237`: a file whose job failed is not fetched again before
  Ruqola restarts.
- `managechannels.cpp:93`: an id whose room never opens stays among the delayed ones,
  and selects the room when it opens much later.

## 4. Bounds, and the races that are recorded

| run | bounds | why they are enough |
|---|---|---|
| `auth` | `MaxCalls` = 3 | a call, one that supersedes it, and a third while both are unanswered |
| `session` | `MaxDisruptions` = 2, `MaxRequests` = 2 | a failure during the recovery from another, a login after a logout and the reverse; TLC needs both for every mutant of this run |
| `ddp_client` | `MaxUid` = 5 | every kind of call beside a subscription that is ended; resent messages take ids too |
| `messages` | 4 messages, two of them in the history; `PageSize` 2, `KeepRows` 1; times 1, 1, 2, 3; one message edited once or deleted; 2 events and 2 jobs under way | two messages of one time, either of which is edited or deleted; two pages, rows before, between and behind them, an event on either side of a page; the same run with times 1, 2, 2, 3 (3.8 million states: an old and a posted message tie) and 1, 2, 3, 3 (8.8 million: both posted ones) passes too |
| `room_list` | 2 rooms, `MaxChanges` = 3 | a room that is joined, left and joined again, with another that changes; the same run with 4 changes passes too (7.5 million states) |
| `typing` | 2 users, 2 rooms that both write in, `MaxTyped` = 3, `MaxClosed` = 1 | a start, a change of room and an input there or back, or a start whose stop is lost and a second start, beside another user; a socket of either side; the invariants pass with 4 changes of the text too (7.4 million states) |
| `message_line` | 2 accounts that share an id, 3 rooms, a message in each, 2 texts, `MaxInputs` = 4 | something written, quoted or answered in two rooms, sent, refused and put back; switching is not bounded |
| `file_cache` | 2 avatars in 2 views, one of them in both and changing once, a private attachment; `MaxChanges` = 1, `MaxJobs` = 1 | a change during a download, before it, and after it in one view or two; an avatar queued behind another; log-ins, failures and restarts are not bounded |
| `open_room` | 2 accounts that share an id, 3 rooms; `MaxRequests` = 1, `MaxChanges` = 1; a search that leaves one out or none | a request whose answer, events and row come in any order while another account is shown, the connection is lost or another client acts; the invariants pass with 2 requests too (3.5 million states) |

`MaxChanged` is the number of messages that are ever edited or deleted;
`numberMessages`, the count of messages in the room's document, may be anything
in `loadHistory`, since it comes with other events.

Races the code does not prevent.  They are not findings, since no line of the
code claims otherwise; the properties hold for everything else.

| variable | is set when |
|---|---|
| `RoomMessages`: `overtaken` | a page or a reply holds a message that was edited or deleted since, and the event for it was applied before or never came |
| `RoomMessages`: `torn` | a message was posted between the request for the stream and its start; an event or a reply put a message before the oldest row; `clearHistory` cut the rows while a page that ends at the old first row was under way |
| `RoomMessages`: `SharesTime` | not history: the message has the time of another one, so that the binary search may find that one and a second row is made, or the row that is there is not updated |
| `RoomList`: `overtaken` | a subscription changed after the loaded snapshot was made and before the stream was heard, or its event came before the snapshot; the event for the subscription was refused as the room's was there first |
| `RoomList`: `unsure` | the same for the room's document, and a room's event or load met no row, or a row that was removed and made anew |
| `Typing`: `missed` | the last status a user sent for a room was lost with a socket, or came while the listener had not asked for the room |
| `Typing`: `misplaced` | a user changed room while typing, which tells both rooms the wrong thing, or emptied the text in another room than the one that shows them; until the next status for that user and room |
| `MessageLine`: `crossed` | Alt+Up in an answer to a thread takes a message of the thread that was opened last, which may be of another room |
| `FileCache`: `failed` | the avatar's job was refused, not started for want of a token, or lost with its connection or the program |
| `FileCache`: `overtaken` | a change was told while the avatar was fetched, or to several views of which the first removes the file the others look for, or with a file or pixmap but not both, or to nobody who was connected |
| `FileCache`: `givenUp` | the file's job failed, was redirected, never started or was lost: it stays in `mFileInDownload` |
| `OpenRoom`: `wanted` dropped | see below |

`OpenRoom` gives a room up when it is asked for and its selection reaches the view
while another account is shown (the view stays connected to the accounts it showed,
`channellistwidget.cpp:107`, and looks in its own list); when the search leaves it
out; when it is joined by name and its row is not there (`managechannels.cpp:182`, a
FIXME); when its subscription is refused because the room's document made a row
first (`roommodel.cpp:282`); when the server refuses it or does not open it, the
password is not given, or is given in another account (`ruqolamainwindow.cpp:963`);
when the job is lost with its connection; when another client changes the
membership; and when the user selects another room.

## 5. Fairness

- `AuthManager`: weak fairness for the answer to each call that the server
  received and that was not lost.  Nothing is asked of jobs, sockets or users.
- `AccountSession`: weak fairness of `Progress`, the disjunction of the queued
  calls, the two timers the code starts itself, and the answers of both
  servers.  An event loop runs what is queued, `QTimer::singleShot` fires, and a
  server that holds a request answers it; that one of them comes is enough as
  what is pending is finite.  The user, the keychain, the countdown in the
  window, the network and every disruption are under no obligation.
- `Typing`: weak fairness of each user's timer, of the server for each user, and
  of the listener's handler.  A timer is started anew by every change of the
  text; `MaxTyped` bounds the changes, so that it does run out, as it does two
  seconds after a user paused.
- `FileCache`: weak fairness of the timer, and for each avatar and file of an answer
  or failure of its jobs.  Nothing is asked of who paints, of logins or the server.
- `OpenRoom`: weak fairness of the single shots, for each room of its jobs and of the
  two streams, and for each account of a new connection, since `AccountSession` shows
  that a reconnection is always planned.  The user is under no obligation, so that a
  password may be waited for as long as it takes.
- The other modules state safety only.

In `session`, `room_list` and `open_room`, as in the `ddp_*` and `messages` runs that say
so, the system may stop: an account waits for its user, or the bound is used
up.  Their configurations switch the deadlock check off and say why.

## 6. The proofs

`tlapm <Module>Proofs.tla` checks them.  They hold for every value of the
constants under the assumptions the modules name (`MaxCallsAssumption`,
`MaxUidAssumption`, `MessageAssumption`, ...: bounds are naturals, sets of
messages are finite, times are positive, and what the history holds at the start
was posted before the rest).

| theorem | says |
|---|---|
| `AuthManagerProofs!TypeCorrect`, `AwaitsCorrect` | `TypeOK`, `OngoingAwaitsAnswer`, for any number of calls |
| `AuthManagerProofs!Implements` | `AuthManager` implements `LoginProtocol` |
| `AccountSessionProofs!TypeCorrect`, `NotAbandoned` | `TypeOK`, `NeverAbandoned`, for any number of disruptions and requests |
| `AccountSessionProofs!FollowsRest`, `LeadsNever`, `StuckIsReplaced` | `DdpFollowsRest`, `DdpNeverLeads`, `StuckDdpReplaced` |
| `DDPClientProofs!TypeCorrect`, `AnswersRouted` | `TypeOK`, `AnswerReachesAsker`, for any number of ids |
| `DDPClientProofs!SubscriptionsAreKnown` | `SubscriptionsKnown` |
| `DDPClientProofs!TypingTypeCorrect`, `StatusBarCorrect` | `TypingTypeOK`, `StatusBarIsOfRoom`, for any finite sets of users and rooms and any number of inputs |
| `DDPClientProofs!TypingNamesCorrect` | `NamesAreTyping`, likewise, in whatever rooms they write and change to |
| `RoomMessagesProofs!TypeCorrect`, `OrderCorrect` | `TypeOK`, `RowsSorted`, for any messages, times and bounds |
| `RoomMessagesProofs!RowsUnique`, `RowsCorrect`, `NoneMissing` | `NoDuplicates`, `RowsAreCurrent`, `NothingMissing`, for any messages, times (equal ones too) and bounds |
| `RoomListProofs!TypeCorrect`, `RoomsUnique` | `TypeOK`, `NoDuplicates` of the list of rooms, for any finite set of rooms and any number of changes |
| `RoomListProofs!ListCorrect` | `ListFollowsSubscriptions`, in whatever order the events and the answers of the loads come |
| `RoomListProofs!RoomsCorrect` | `RowsFollowRooms`, likewise |
| `MessageLineProofs!TypeCorrect`, `DraftsAreOfTheirRooms` | `TypeOK`, `DraftOfItsRoom`, for any accounts, rooms, messages and number of inputs |
| `MessageLineProofs!QuotesAreShown`, `LastRoomsAreShown` | `QuoteIsShown`, `LastRoomIsShown` |
| `MessageLineProofs!DraftsImplemented` | `MessageLine` implements `RoomDrafts` |
| `FileCacheProofs!TypeCorrect`, `AvatarsAreServed`, `FilesFetchedOnce`, `ChangesAreSeen` | `TypeOK`, `QueueIsServed`, `FilesAreFetchedOnce`, `ChangesReachViews`, for any avatars, files, views, changes and jobs |
| `OpenRoomProofs!TypeCorrect`, `WantedIsNotForgotten` | `TypeOK`, `WantedIsPending`, for any accounts, rooms, requests and disruptions |

**AuthManager.**  `IInv == TypeOK /\ CallsDistinct /\ OngoingAwaitsAnswer`.  An
answer takes *its* call away, and the status may wait for another: that the
remaining call is still there needs calls to be told apart by their ids
(`CallsDistinct`).  The refinement maps the status to a phase and the unanswered
calls to what is owed; the lemma `InvokeAsks` maps a call to `Ask`, the answers
to `Answered`, and a refused login to a stutter.

**AccountSession.**  A handler is a chain of operators from account to account, so
there is one lemma per operator of the chain, which says what it makes of a sound
account, and one step lemma per action that strings them together.  `Good` is what an
account is when a handler has ended: the types; a login under way over REST is the
only one, and the status says so, unless there is a code (`RestSound`); the websocket
is not logged in, nor waits to be, unless REST is (`NeverLeads`); it was asked to log
in when REST is (`Follows`); the window knows of the login (`Told`: it refuses a second
one, and that is why there is only one).  Within a chain only the first three hold
(`Sound`).  `IInv` adds `NotStuck`, `NeverAbandoned`, and that a failing job stands for
a disruption that has no timer yet (`TimersBounded`), from which the timers are finitely many.
`Kept` names what no handler changes but those of the keychain, the timers and the
window, so that `NeverAbandoned` is proved once for all handlers that keep the
connection (`Steady`).

**DDPClient.**  `AnswerReachesAsker` alone is not inductive: a new call
overwrites the entry of its id, which must not be in use.  `IInv` adds `Fresh`
(ids that are known were given out) and `Distinct` (no two frames that expect an
answer share an id), and `RetryingHasHead` for the type of what is resent.

**RoomMessages.**  `RowsSorted` is inductive with the types and `PagesCorrect` (a
page is finite and has each message once, so that sorting it is defined).  The
core is `AddMessageLemma`: what `InsertAt` leaves behind the upper bound
(`InsertAtLemma`) is in order in each of the three cases.  For `RowsUnique`: a
message that shares its time with none can only be the row before the upper bound, so
only the others can get a second row.

`RowsAreCurrent` follows from `CurrentInv`: the last event under way of a message tells
what it is now (`EventsTell`), and a row, shown or of the page being added, is
current, or an event for its message is on its way, or it was overtaken, or it is
deleted and shares its time (`RowsRight`).  With a second row this is said of a
message's last row only (`LastRows`): a row goes behind all those of its time, so the
newest is the last (`InsertedLast`).
For `NothingMissing` a message is `Known` that is shown, announced or in the page being
added, `Covered` if it, or another of its time, is known or gone, and a time is
`Complete` when every later message is covered: a page may be cut between two messages
of one time, and the next one ends before both.  `MissingInv` says
that nothing is missing behind the first row, behind a row still to be added, and
behind the rows and the end of a page under way, and that the event for a new message
is followed by those for all later ones (`Intact`), unless the list is torn; and how
messages come about (`Orderly`: in the order of their times, those of the history
first, which is `HistoryAssumption`).  Messages keep known through each step
(`KeepsKnown`), so that only what a step adds has to be looked at.

**RoomList.**  `IInv == TypeOK /\ NoDuplicates` is inductive.  There is one lemma
per operation of the list: `addRoom` looks for the room first, `removeRoom` closes
the gap (`RemoveAtLemma`), an update leaves every row its room, and the
rooms that are loaded are appended in some order, each once because the set they
come from has one row per room (`LoadLemma`).  Nothing is asked of the order of
the streams and the answers.

`ListFollowsSubscriptions` speaks of the moment when nothing is under way, so its
invariant, `FollowsInv`, says what is under way: there is one load at a time; a
stream that is not listened to is empty; the last event of a room that is not taken
yet tells what its subscription is (`Told`); a room is entered exactly after it was
left (`Alternates`); and, for a room that no event overtook, how row, pending events
and subscription fit together before and after the load (`BeforeLoad`,
`AfterLoad`).  There is one lemma for appending an event to the stream, one for
taking its head and one for loading, and one step lemma for each kind of action.
`RoomsInv` is the same for the room's document: of a room that is subscribed and not
unsure, an answer of `rooms/get` under way brings the document as it is, and once
nothing that tells of it is under way the row shows it (`RoomIsKnown`).  That there is a
row by then is `ListFollowsSubscriptions`.

**Typing.**  `TypingInv` is the types, `StatusBarIsOfRoom`, and of each sender that who
types, or has a timer, types in a room, that only their own statuses are on their way,
and none while their socket is down (`Senders`).  `NamesInv`
follows a status on its way: the last one sent for a user and room, or if none is
there the last one relayed, or if none is there either the name that is kept, says whether
the user types, unless a last status was missed or misplaced (`ToldAt`).  The lemmas say what
appending a status, taking the head, and losing all of a socket's do to the last one.
A change of room sends two statuses at once, and makes both places misplaced.

**MessageLine.**  `IInv == TypeOK /\ LineSendsToShown`: the line sends to the room that
is shown.  Every action has one of a few shapes (`StepShape`): it writes in the line,
switches, sends, or does something elsewhere.  Types, refinement and `DraftOfItsRoom`
are each proved once per shape.  For the refinement a switch is `Show` whichever
action makes it, since what is stored at once becomes the draft of the room that is
left; for `DraftOfItsRoom` the messages a draft is about are those it was about
before, or one of the room's model (`TakenLemma`).  `QuoteIsShown` and
`LastRoomIsShown` are inductive with `IInv`; each has a step lemma (`QuoteStep`,
`LastRoomStep`).

**FileCache.**  `IInv` adds to the properties what is on its way: `Fresh` says of an
avatar's answered jobs what `ChangesReachViews` says of disk and pixmaps, and
`EventsAreOfChanges` keeps the counter of events below the versions.  The counts of
jobs are handled by `JobCounts` (starting and ending one changes no other), and the
queue by `QueueStep`: appending what is not in it and taking its head keep it without
repetitions.

**OpenRoom.**  `TypeOK /\ WantedIsPending` is inductive.  The core is that an entry
of `mDelayedSelectedRooms` whose row is not open yet stays or becomes a timer when
the row opens (`UpdateSubscription`, `GetsubscriptionParsing`); the lemmas `Selected`,
`Requested` and `Moved` say what a selection leaves wanted, `StillPending` that nothing
else matters.

What stays with TLC: `OngoingEnds`, `RetryIsAnswered`, `LogoutEnds`, `ShownEnds`,
`AvatarsAreFetched` and `WantedIsShown` are liveness under fairness, which the prover
does not do.  Every invariant of a passing run, and both refinements, are proved, each under
the assumptions of its module only.  No
module declares a RECURSIVE operator, and nothing proved rests on induction over data.

## 7. What is not modelled

- The mode that logs in over the websocket only (no `useRestApiLogin`), OAuth
  and LDAP beyond the login they make (they take the path of `LoginPassword`),
  and the plugins' dialogs.
- Delays: a timer may fire at any time.  `AccountSession` keeps that the window
  counts down once the delay is long, not how long it is.
- Threads of messages, discussions, reactions, the local database, and what
  `MessagesModel` shows of a row.
- The fields of a room: `RoomList` knows whether a document is the newest, not
  what two updates do to one field.  The action "changed" of
  `subscriptions-changed` is left out: the code notes that it is "Not
  implementer ... yet" and reads the subscription as if it were the room.
- `MessageCache` and `LRUCache`: a hash of running jobs and a bounded list, which no
  other component depends on.  `SwitchChannelHistoryModel`: a list with one operation.
- In `FileCache`, avatars of rooms (their url changes with them), emoji, and the jobs of
  "save as" (`rocketchatcache.cpp:142-157`): they share `slotDataDownloaded` with the
  cache's own jobs and so unmark the same url, so that `FilesAreFetchedOnce` is about
  the cache's own jobs.  A job whose file cannot be opened for writing still tells that
  it is done (`downloadfilejob.cpp:49-55`); the model always writes.
- In `MessageLine`, the event loops of the dialogs the line opens
  (`messagelinewidget.cpp:243-271`): `sendFile` is one step, while room and account may
  change under the dialog.  The list of rooms never shrinks there and has no search:
  `LastRoomIsShown` leaves out a last room that the search hides and a list a
  reconnection has emptied (`channellistview.cpp:409`, `:424-440`).
- In `OpenRoom`, sections and the order of the list.
- Presentation, string conversion, cryptography, and tables that every event
  overwrites (users, roles, permissions, emoji, settings): no step of theirs depends
  on the order of others.  They, the vendored Markdown parser and some 250 classes of
  REST jobs that differ in their url make up most of the lines of the repository.
- `PROJECT.json` lists every component with its status, and under `hazards`
  what each is exposed to, also where no property covers it.

## 8. What is left

1. The fields of a room that one document's update clears though only the other
   has them (muted users, highlighted words).
2. `MessageCache` (one job per message, also when it fails).
3. `DDPClient` composed with `AccountSession`: ids start anew with every client
   while windows keep those of the old one.
