-------------------------------- MODULE Typing --------------------------------
(***************************************************************************)
(* Who is shown as typing.  Each of some users writes in a Ruqola, whose   *)
(* TypingNotification tells the server when they begin and, by a timer or  *)
(* as their text is emptied, when they stop.  The server passes this on to *)
(* who listens to the room, here one more Ruqola: its                      *)
(* ReceiveTypingNotificationManager keeps the names by room, and its       *)
(* window shows those of the room that is selected.  A status that gets    *)
(* lost is never told again.  In which order names are shown is left out.  *)
(***************************************************************************)
EXTENDS Naturals, Sequences, FiniteSets

CONSTANTS
  User,              \* the users who write
  Room,
  MaxTyped,          \* bound on the changes of a text
  MaxClosed          \* bound on the websockets that close

ASSUME UserAssumption ==
  IsFiniteSet(User) /\ IsFiniteSet(Room) /\ "none" \notin Room
ASSUME TypingBoundAssumption == MaxTyped \in Nat /\ MaxClosed \in Nat

VARIABLES
  mTypingInprogress, \* of each user
  mTimer,            \* is it active?
  mRoomId,           \* the room last written in, or "none"
  online,            \* users whose websocket is up
  sent,              \* from each user to the server
  opened,            \* rooms whose events the listener has asked for
  streams,           \* rooms whose events the server passes on
  relayed,           \* from the server to the listener
  mMapTypingNotifications, \* names by room, none if the room has no entry
  roomId,            \* the room selected in the window
  statusBar,         \* the names the window shows
  missed,            \* history: last statuses that never reached the listener
  misplaced,         \* history: last statuses of before a change of room, or of its own two
  typed, closed

sender == <<mTypingInprogress, mTimer, mRoomId>>
listener == <<mMapTypingNotifications, roomId, statusBar>>
typingVars == <<sender, online, sent, opened, streams, relayed, listener, missed, misplaced, typed, closed>>

Status == [user : User, room : Room, typing : BOOLEAN]

TypingInit ==
  /\ mTypingInprogress = [user \in User |-> FALSE]
  /\ mTimer = [user \in User |-> FALSE]
  /\ mRoomId = [user \in User |-> "none"]
  /\ online = User
  /\ sent = [user \in User |-> <<>>]
  /\ opened = {}
  /\ streams = {}
  /\ relayed = <<>>
  /\ mMapTypingNotifications = [room \in Room |-> {}]
  /\ roomId = "none"
  /\ statusBar = {}
  /\ missed = {}
  /\ misplaced = {}
  /\ typed = 0
  /\ closed = 0

-----------------------------------------------------------------------------
Typing(user, room) == [user |-> user, room |-> room, typing |-> TRUE]
Stopped(user, room) == [user |-> user, room |-> room, typing |-> FALSE]

Places(statuses) == {<<statuses[i].user, statuses[i].room>> : i \in DOMAIN statuses}

\* Statuses are lost, and no later one for their users and rooms is on its way.
Miss(statuses) == missed' = missed \cup (Places(statuses) \ UNION {Places(sent'[user]) : user \in User})

\* DDPClient::informTypingStatus, which sends nothing when the socket is down.
\* What was last said of the places in stale is not right.
informTypingStatus(user, statuses, stale) ==
  /\ misplaced' = (misplaced \ Places(statuses)) \cup stale
  /\ IF user \in online
       THEN /\ sent' = [sent EXCEPT ![user] = @ \o statuses]
            /\ missed' = missed \ Places(statuses)
       ELSE UNCHANGED sent /\ Miss(statuses)

\* The user is told as typing in another room than this one.
Left(user, room) == {<<user, other>> : other \in {mRoomId[user]} \ {room}}

SetTyping(user, inProgress) ==
  /\ mTypingInprogress' = [mTypingInprogress EXCEPT ![user] = inProgress]
  /\ mTimer' = [mTimer EXCEPT ![user] = inProgress]

\* Faulty: a text that is emptied only stops the timer.
textNotificationChangedForgetsEmpty(user, room, emptyString) ==
  /\ typed < MaxTyped
  /\ typed' = typed + 1
  /\ mRoomId' = [mRoomId EXCEPT ![user] = room]
  /\ SetTyping(user, ~(mTypingInprogress[user] /\ emptyString))
  /\ informTypingStatus(user, IF mTypingInprogress[user] THEN <<>> ELSE <<Typing(user, room)>>, {})
  /\ UNCHANGED <<online, opened, streams, relayed, listener, closed>>

\* The user writes, sends or erases in a room.  The timer is started again as
\* long as something is being typed.
textNotificationChanged(user, room, emptyString) ==
  /\ typed < MaxTyped
  /\ typed' = typed + 1
  /\ mRoomId' = [mRoomId EXCEPT ![user] = room]
  /\ \/ /\ mTypingInprogress[user] /\ emptyString
        /\ SetTyping(user, FALSE)
        /\ informTypingStatus(user, <<Stopped(user, room)>>, Left(user, room))
     \/ /\ mTypingInprogress[user] /\ ~emptyString
        /\ SetTyping(user, TRUE)
        /\ LET statuses == IF mRoomId[user] = room THEN <<>>
                           ELSE <<Stopped(user, room), Typing(user, mRoomId[user])>>
           IN  informTypingStatus(user, statuses, Places(statuses))
     \/ /\ ~mTypingInprogress[user]
        /\ SetTyping(user, TRUE)
        /\ informTypingStatus(user, <<Typing(user, room)>>, {})
  /\ UNCHANGED <<online, opened, streams, relayed, listener, closed>>

\* Faulty: the others are not told.
slotTimeoutSilent(user) ==
  /\ mTimer[user]
  /\ SetTyping(user, FALSE)
  /\ UNCHANGED <<mRoomId, online, sent, opened, streams, relayed, listener, missed, misplaced, typed, closed>>

slotTimeout(user) ==
  /\ mTimer[user]
  /\ SetTyping(user, FALSE)
  /\ informTypingStatus(user, <<Stopped(user, mRoomId[user])>>, {})
  /\ UNCHANGED <<mRoomId, online, opened, streams, relayed, listener, typed, closed>>

-----------------------------------------------------------------------------
\* The server, and the websockets.
Subscribed(room) ==
  /\ room \in opened \ streams
  /\ streams' = streams \cup {room}
  /\ UNCHANGED <<sender, online, sent, opened, relayed, listener, missed, misplaced, typed, closed>>

Relay(user) ==
  /\ sent[user] # <<>>
  /\ sent' = [sent EXCEPT ![user] = Tail(@)]
  /\ LET status == Head(sent[user]) IN
     IF status.room \in streams
       THEN relayed' = Append(relayed, status) /\ UNCHANGED missed
       ELSE UNCHANGED relayed /\ Miss(<<status>>)
  /\ UNCHANGED <<sender, online, opened, streams, listener, misplaced, typed, closed>>

\* What the server has not received is lost with the socket.
UserClosed(user) ==
  /\ closed < MaxClosed
  /\ user \in online
  /\ closed' = closed + 1
  /\ online' = online \ {user}
  /\ sent' = [sent EXCEPT ![user] = <<>>]
  /\ Miss(sent[user])
  /\ UNCHANGED <<sender, opened, streams, relayed, listener, misplaced, typed>>

UserConnected(user) ==
  /\ user \notin online
  /\ online' = online \cup {user}
  /\ UNCHANGED <<sender, sent, opened, streams, relayed, listener, missed, misplaced, typed, closed>>

\* The listener's socket closes and is replaced, and its rooms, which are
\* loaded again, have to be opened again.
ListenerClosed ==
  /\ closed < MaxClosed
  /\ closed' = closed + 1
  /\ relayed' = <<>>
  /\ opened' = {}
  /\ streams' = {}
  /\ UNCHANGED <<sender, online, sent, listener, misplaced, typed>>
  /\ Miss(relayed)

-----------------------------------------------------------------------------
\* Faulty: the names of the room before stay in the window.
switchingToRoomKeepsNames(room) ==
  /\ roomId' = room
  /\ opened' = opened \cup {room}
  /\ UNCHANGED <<sender, online, sent, streams, relayed, mMapTypingNotifications, statusBar,
                 missed, misplaced, typed, closed>>

\* RocketChatAccount::switchingToRoom
switchingToRoom(room) ==
  /\ roomId' = room
  /\ statusBar' = {}
  /\ opened' = opened \cup {room}
  /\ UNCHANGED <<sender, online, sent, streams, relayed, mMapTypingNotifications, missed,
                 misplaced, typed, closed>>

\* Faulty: the room's entry is removed with the first name that is.
notificationChangedRemovesRoom(room, names) ==
  /\ mMapTypingNotifications' =
       [r \in {other \in Room : other # room \/ mMapTypingNotifications[room] \subseteq names} |->
          IF r = room THEN names ELSE mMapTypingNotifications[r]]
  /\ statusBar' = IF roomId = room THEN names ELSE statusBar

\* The list is stored, and slotTypingNotificationChanged of the window hears it.
notificationChanged(room, names) ==
  /\ mMapTypingNotifications' = [mMapTypingNotifications EXCEPT ![room] = names]
  /\ statusBar' = IF roomId = room THEN names ELSE statusBar

Names(room) == mMapTypingNotifications[room]

insertTypingNotification(status) ==
  LET names == Names(status.room) IN
  \/ /\ status.typing /\ status.user \notin names
     /\ notificationChanged(status.room, names \cup {status.user})
  \/ /\ ~status.typing /\ status.user \in names
     /\ notificationChanged(status.room, names \ {status.user})
  \/ /\ status.typing <=> status.user \in names
     /\ UNCHANGED <<mMapTypingNotifications, statusBar>>

\* "user-activity" in RocketChatBackend::slotChanged
slotChanged ==
  /\ relayed # <<>>
  /\ relayed' = Tail(relayed)
  /\ insertTypingNotification(Head(relayed))
  /\ UNCHANGED <<sender, online, sent, opened, streams, roomId, missed, misplaced, typed, closed>>

-----------------------------------------------------------------------------
TypingNext ==
  \/ \E user \in User, room \in Room, emptyString \in BOOLEAN :
       textNotificationChanged(user, room, emptyString)
  \/ \E user \in User : slotTimeout(user)
  \/ \E room \in Room : Subscribed(room)
  \/ \E user \in User : Relay(user)
  \/ \E user \in User : UserClosed(user) \/ UserConnected(user)
  \/ ListenerClosed
  \/ \E room \in Room : switchingToRoom(room)
  \/ slotChanged

SafetySpec == TypingInit /\ [][TypingNext]_typingVars

\* Timers fire, the server passes on what it has, the event loop runs.
Fairness ==
  /\ \A user \in User : WF_typingVars(slotTimeout(user)) /\ WF_typingVars(Relay(user))
  /\ WF_typingVars(slotChanged)

TypingSpec == SafetySpec /\ Fairness

-----------------------------------------------------------------------------
\* Types: every room has its names, if only none, whatever was removed.
TypingTypeOK ==
  /\ mTypingInprogress \in [User -> BOOLEAN]
  /\ mTimer \in [User -> BOOLEAN]
  /\ mRoomId \in [User -> Room \cup {"none"}]
  /\ online \subseteq User
  /\ sent \in [User -> Seq(Status)]
  /\ opened \subseteq Room
  /\ streams \subseteq Room
  /\ relayed \in Seq(Status)
  /\ mMapTypingNotifications \in [Room -> SUBSET User]
  /\ roomId \in Room \cup {"none"}
  /\ statusBar \subseteq User
  /\ missed \subseteq User \X Room
  /\ misplaced \subseteq User \X Room
  /\ typed \in 0..MaxTyped
  /\ closed \in 0..MaxClosed

Quiet == relayed = <<>> /\ \A user \in User : sent[user] = <<>>

Shown(user, room) == user \in Names(room)

IsTyping(user, room) == mTypingInprogress[user] /\ mRoomId[user] = room

\* With nothing under way, the names kept for a room are those of the users
\* who type in it.  What was wrong because a status was lost, or because the
\* user changed room while typing, is right after the next status.
NamesAreTyping ==
  Quiet => \A user \in User, room \in Room :
    <<user, room>> \notin missed \cup misplaced => (Shown(user, room) <=> IsTyping(user, room))

\* A change of room while typing means to "stop typing in old room" and to
\* "start ... typing in new room": with nothing under way or lost, who is
\* typing is shown in the room they type in and in no other.
RoomChangeIsTold ==
  Quiet => \A user \in User, room \in Room :
    mTypingInprogress[user] /\ <<user, room>> \notin missed =>
      (Shown(user, room) <=> mRoomId[user] = room)

\* The window shows nobody, or the names of the room it has selected, though
\* the names of all rooms come over the same socket.
StatusBarIsOfRoom == statusBar # {} => roomId # "none" /\ statusBar = Names(roomId)

\* Who is shown as typing is not for ever, unless the stop was lost or the
\* user changed room while typing.
ShownEnds ==
  \A user \in User, room \in Room :
    []<>(~Shown(user, room) \/ <<user, room>> \in missed \cup misplaced)
=============================================================================
