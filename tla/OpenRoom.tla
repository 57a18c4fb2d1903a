------------------------------- MODULE OpenRoom -------------------------------
(***************************************************************************)
(* How a room that is asked for gets shown: ManageChannels, which joins or *)
(* opens it over REST and keeps the ids of rooms that are to be selected   *)
(* once they are listed; the list of rooms, which the websocket fills; and *)
(* the one ChannelListView of the window, which shows the list of one      *)
(* account and hears the signals of all that were ever shown.  The ids of  *)
(* rooms are those of a server: two accounts may have the same.            *)
(***************************************************************************)
EXTENDS Naturals, FiniteSets, Sequences, Functions

CONSTANTS
  Account, RoomId,
  Place,             \* the rooms of each account's server, as pairs
  Members,           \* the subscriptions there may be at first
  Searches,          \* what the search line may leave out
  MaxRequests,       \* bound on the requests for rooms that are not listed
  MaxChanges         \* bound on what other clients and the network do

ASSUME OpenRoomAssumption ==
  /\ IsFiniteSet(RoomId) /\ "none" \notin RoomId
  /\ Place \subseteq Account \X RoomId
  /\ Members \subseteq [Place -> {"absent", "hidden", "open"}]
  /\ Searches \subseteq SUBSET RoomId
  /\ MaxRequests \in Nat
  /\ MaxChanges \in Nat

VARIABLES
  member,            \* on the server: the subscription to each room
  events,            \* subscriptions-changed, of each room
  inserted,          \* rooms of which rooms-changed tells that they are there
  changes,
  connected,         \* accounts whose list is loaded
  rows,              \* of the RoomModels
  account,           \* mCurrentRocketChatAccount of the window
  mRoomId,           \* of the RoomWidget: the room shown, or "none"
  mFilterString,     \* as the rooms it leaves out
  lastSelectedRoom,
  mDelayedSelectedRooms, \* of each account's ManageChannels
  timers,            \* the single shots of verifyNeedSelectChannel
  jobs,
  passwords,         \* the joins whose password is asked for
  requests,
  wanted             \* history: the room asked for last, until it is shown or given up

server == <<member, events, inserted, changes>>
shown == <<mRoomId, lastSelectedRoom>>
window == <<account, mFilterString, shown>>
delayed == <<mDelayedSelectedRooms, timers>>
asked == <<jobs, passwords, requests>>
vars == <<server, connected, rows, window, delayed, asked, wanted>>

Status == {"absent", "hidden", "open"}
Event == [status : Status, insertion : BOOLEAN]

\* ChannelJoinJob, of a room's id or name; or a job or call that opens a room or
\* makes one and is answered with its id.
Kind == {"join", "joinByName", "open"}
Job == [nr : 1..MaxRequests, kind : Kind, place : Place, done : BOOLEAN]

Init ==
  /\ member \in Members
  /\ events = [p \in Place |-> <<>>]
  /\ inserted = {}
  /\ changes = 0
  /\ connected = {}
  /\ rows = [p \in Place |-> "absent"]
  /\ account \in Account
  /\ mRoomId = "none"
  /\ mFilterString = {}
  /\ lastSelectedRoom = [a \in Account |-> "none"]
  /\ mDelayedSelectedRooms = [a \in Account |-> {}]
  /\ timers = <<>>
  /\ jobs = {}
  /\ passwords = {}
  /\ requests = 0
  /\ wanted = [a \in Account |-> "none"]

-----------------------------------------------------------------------------
\* The rows of the view.
Listed(list, a, filter) == {r \in RoomId \ filter : <<a, r>> \in Place /\ list[<<a, r>>] = "open"}

channelSelected(room) ==
  /\ mRoomId' = room
  /\ lastSelectedRoom' = [lastSelectedRoom EXCEPT ![account] = room]

\* ChannelListView::selectChannelRequested: a room that is not there is selected later.
Select(room) ==
  \/ /\ room \in Listed(rows, account, mFilterString)
     /\ channelSelected(room)
     /\ UNCHANGED mDelayedSelectedRooms
  \/ /\ room \notin Listed(rows, account, mFilterString)
     /\ mDelayedSelectedRooms' = [mDelayedSelectedRooms EXCEPT ![account] = @ \cup {room}]
     /\ UNCHANGED shown

\* The signal of account a, for the view of the account that is shown.  What was
\* wanted is shown, or given up: another account is shown, or the search leaves it out.
selectRoomByRoomIdRequested(a, room) ==
  /\ Select(room)
  /\ wanted' = [b \in Account |->
       IF wanted[b] = room /\ (IF b = account THEN room \in Listed(rows, b, {}) ELSE b = a)
         THEN "none" ELSE wanted[b]]

\* A row goes, or more are left out: if it was the current one, the view may make
\* another one current.
CurrentRowMoves(filter) ==
  LET left == Listed(rows', account, filter) IN
    \/ UNCHANGED <<shown, wanted>>
    \/ /\ mRoomId \in Listed(rows, account, mFilterString) \ left
       /\ \E next \in left :
            /\ channelSelected(next)
            /\ wanted' = [wanted EXCEPT ![account] = IF @ = next THEN "none" ELSE @]

\* Faulty: the single shot is not started.
verifyNeedSelectChannelSilent(p) ==
  /\ mDelayedSelectedRooms' = [mDelayedSelectedRooms EXCEPT ![p[1]] = @ \ {p[2]}]
  /\ UNCHANGED timers

\* openChanged of a room: "Need to delay it until model was updated".
verifyNeedSelectChannel(p) ==
  IF p[2] \in mDelayedSelectedRooms[p[1]]
    THEN /\ timers' = Append(timers, p)
         /\ mDelayedSelectedRooms' = [mDelayedSelectedRooms EXCEPT ![p[1]] = @ \ {p[2]}]
    ELSE UNCHANGED delayed

\* Faulty: it waits for its account to be shown.
selectDelayedOfShown ==
  /\ timers # <<>>
  /\ Head(timers)[1] = account
  /\ timers' = Tail(timers)
  /\ selectRoomByRoomIdRequested(Head(timers)[1], Head(timers)[2])
  /\ UNCHANGED <<server, connected, rows, account, mFilterString, asked>>

selectDelayed ==
  /\ timers # <<>>
  /\ timers' = Tail(timers)
  /\ selectRoomByRoomIdRequested(Head(timers)[1], Head(timers)[2])
  /\ UNCHANGED <<server, connected, rows, account, mFilterString, asked>>

-----------------------------------------------------------------------------
\* What the user does.

\* A room is selected, in the list, or as one of the history, of a notification,
\* or the parent of a discussion: these are not joined or opened.
selectChannelRequested(room) ==
  /\ <<account, room>> \in Place
  /\ IF room \in Listed(rows, account, mFilterString) THEN UNCHANGED requests
     ELSE requests < MaxRequests /\ requests' = requests + 1
  /\ Select(room)
  /\ wanted' = [wanted EXCEPT ![account] = "none"]
  /\ UNCHANGED <<server, connected, rows, account, mFilterString, timers, jobs, passwords>>

\* openChannel and openPrivateGroup of a room that is not open, from a link, a team
\* or the directory; a name is never found among the ids.  Also openDirectChannel
\* and the creation of a channel.
openChannel(kind, room) ==
  LET p == <<account, room>> IN
    /\ p \in Place
    /\ account \in connected
    /\ requests < MaxRequests
    /\ kind = "join" => rows[p] = "absent"
    /\ room \notin Listed(rows, account, mFilterString)
    /\ requests' = requests + 1
    /\ jobs' = jobs \cup {[nr |-> requests', kind |-> kind, place |-> p, done |-> FALSE]}
    /\ wanted' = [wanted EXCEPT ![account] = room]
    /\ UNCHANGED <<server, connected, rows, window, delayed, passwords>>

\* The text in the search line changes.
setFilterString(filter) ==
  /\ mFilterString' = filter
  /\ UNCHANGED rows
  /\ CurrentRowMoves(filter)
  /\ UNCHANGED <<server, connected, account, delayed, asked>>

\* Faulty: an account that showed no room yet has "no room" selected once it is listed.
setCurrentRocketChatAccountSelectsNone(a) ==
  LET room == lastSelectedRoom[a] IN
    /\ a # account
    /\ account' = a
    /\ mFilterString' = {}
    /\ lastSelectedRoom' = [lastSelectedRoom EXCEPT ![account] = mRoomId]
    /\ mRoomId' = IF room \in Listed(rows, a, {}) THEN room ELSE "none"
    /\ mDelayedSelectedRooms' = [mDelayedSelectedRooms EXCEPT ![a] = @ \cup ({room} \ Listed(rows, a, {}))]
    /\ wanted' = [wanted EXCEPT ![a] = IF @ = mRoomId' THEN "none" ELSE @]
    /\ UNCHANGED <<server, connected, rows, timers, asked>>

\* RuqolaMainWidget::setCurrentRocketChatAccount.  The search line is cleared, and
\* the room that was selected last in the other account is selected, or will be.
setCurrentRocketChatAccount(a) ==
  LET room == lastSelectedRoom[a] IN
    /\ a # account
    /\ account' = a
    /\ mFilterString' = {}
    /\ lastSelectedRoom' = [lastSelectedRoom EXCEPT ![account] = mRoomId]
    /\ \/ /\ room \in Listed(rows, a, {})
          /\ mRoomId' = room
          /\ wanted' = [wanted EXCEPT ![a] = IF @ = room THEN "none" ELSE @]
          /\ UNCHANGED mDelayedSelectedRooms
       \/ /\ room \notin Listed(rows, a, {})
          /\ mRoomId' = "none"
          /\ mDelayedSelectedRooms' = [mDelayedSelectedRooms EXCEPT ![a] = @ \cup ({room} \cap RoomId)]
          /\ UNCHANGED wanted
    /\ UNCHANGED <<server, connected, rows, timers, asked>>

\* The password of a room is given, or not.  It joins in the account that is shown.
slotMissingChannelPassword(j) ==
  LET p == <<account, j.place[2]>>
      joins == p \in Place /\ account \in connected
  IN
    /\ j \in passwords
    /\ passwords' = passwords \ {j}
    /\ \/ joins /\ jobs' = jobs \cup {[j EXCEPT !.place = p]}
       \/ UNCHANGED jobs
    /\ wanted' = [wanted EXCEPT ![j.place[1]] =
         IF @ = j.place[2] /\ (jobs' = jobs \/ account # j.place[1]) THEN "none" ELSE @]
    /\ UNCHANGED <<server, connected, rows, window, delayed, requests>>

-----------------------------------------------------------------------------
\* The server, other clients and the network.

SetMember(p, status) ==
  /\ member' = [member EXCEPT ![p] = status]
  /\ events' = IF p[1] \notin connected \/ member[p] = status THEN events
               ELSE [events EXCEPT ![p] = Append(@, [status |-> status, insertion |-> member[p] = "absent"])]
  /\ inserted' = IF p[1] \in connected /\ member[p] = "absent" /\ status # "absent"
                 THEN inserted \cup {p} ELSE inserted

\* Another client joins, hides, shows or leaves the room.
ChangeMember(p, status) ==
  /\ changes < MaxChanges
  /\ changes' = changes + 1
  /\ status # member[p]
  /\ SetMember(p, status)
  /\ wanted' = [wanted EXCEPT ![p[1]] = IF @ = p[2] THEN "none" ELSE @]
  /\ UNCHANGED <<connected, rows, window, delayed, asked>>

\* The server does what a job asks for.  Who joins again stays as he is.  It tells
\* nothing that it has told before.
Serve(j) ==
  /\ j \in jobs
  /\ ~j.done
  /\ LET p == j.place
         status == IF j.kind = "open" \/ member[p] = "absent" THEN "open" ELSE member[p]
         told == member[p] = status /\ events[p] = <<>>
     IN
       /\ SetMember(p, status)
       /\ wanted' = [wanted EXCEPT ![p[1]] =
            IF @ = p[2] /\ (status = "open" => told /\ rows[p] # "open") THEN "none" ELSE @]
  /\ jobs' = (jobs \ {j}) \cup {[j EXCEPT !.done = TRUE]}
  /\ UNCHANGED <<changes, connected, rows, window, delayed, passwords, requests>>

\* The server refuses.  If it wants a password, the window of this account is told;
\* a room that was asked for by name cannot be joined with one, as the name is
\* taken for an id.
Refuse(j) ==
  /\ j \in jobs
  /\ ~j.done
  /\ jobs' = jobs \ {j}
  /\ \/ /\ j.kind = "join"
        /\ j.place[1] = account
        /\ passwords' = passwords \cup {j}
        /\ UNCHANGED wanted
     \/ /\ wanted' = [wanted EXCEPT ![j.place[1]] = IF @ = j.place[2] THEN "none" ELSE @]
        /\ UNCHANGED passwords
  /\ UNCHANGED <<server, connected, rows, window, delayed, requests>>

\* setChannelJoinDone, and the slots of the other jobs.  By its name, a room is only
\* selected if it is there: "FIXME room is not added yet..."
setChannelJoinDone(j) ==
  /\ j \in jobs
  /\ j.done
  /\ jobs' = jobs \ {j}
  /\ \/ /\ j.kind # "joinByName" \/ j.place[2] \in Listed(rows, account, mFilterString)
        /\ selectRoomByRoomIdRequested(j.place[1], j.place[2])
     \/ /\ j.kind = "joinByName"
        /\ j.place[2] \notin Listed(rows, account, mFilterString)
        /\ wanted' = [wanted EXCEPT ![j.place[1]] = IF @ = j.place[2] THEN "none" ELSE @]
        /\ UNCHANGED <<shown, mDelayedSelectedRooms>>
  /\ UNCHANGED <<server, connected, rows, account, mFilterString, timers, passwords, requests>>

-----------------------------------------------------------------------------
\* The list of rooms.

\* RoomModel::updateSubscription.  A room that is there already is not inserted.
updateSubscription(p) ==
  /\ events[p] # <<>>
  /\ events' = [events EXCEPT ![p] = Tail(@)]
  /\ LET event == Head(events[p])
         applies == event.status = "absent" \/ (event.insertion <=> rows[p] = "absent")
     IN
       /\ rows' = IF applies THEN [rows EXCEPT ![p] = event.status] ELSE rows
       /\ IF applies /\ event.status # "absent" /\ (event.status = "open") # (rows[p] = "open")
            THEN verifyNeedSelectChannel(p)
            ELSE UNCHANGED delayed
       /\ IF applies
            THEN CurrentRowMoves(mFilterString)
            ELSE /\ wanted' = [wanted EXCEPT ![p[1]] = IF @ = p[2] THEN "none" ELSE @]
                 /\ UNCHANGED shown
  /\ UNCHANGED <<member, inserted, changes, connected, account, mFilterString, asked>>

\* RoomModel::insertRoom: the document of a room does not say that it is open, and
\* its subscription comes too late then.
insertRoom(p) ==
  /\ p \in inserted
  /\ inserted' = inserted \ {p}
  /\ rows' = IF rows[p] = "absent" THEN [rows EXCEPT ![p] = "hidden"] ELSE rows
  /\ UNCHANGED <<member, events, changes, connected, window, delayed, asked, wanted>>

\* getsubscriptionParsing: each room becomes a row, and what is waited for is due;
\* then the window selects the room that was shown last.
getsubscriptionParsing(a) ==
  LET room == lastSelectedRoom[a]
      due == {p \in Place \cap ({a} \X mDelayedSelectedRooms[a]) : member[p] = "open"}
      left == mDelayedSelectedRooms[a] \ {p[2] : p \in due}
  IN
    /\ a \notin connected
    /\ connected' = connected \cup {a}
    /\ rows' = [p \in Place |-> IF p[1] = a THEN member[p] ELSE rows[p]]
    /\ \E order \in [1..Cardinality(due) -> due] :
         Range(order) = due /\ timers' = timers \o order
    /\ \/ /\ a = account
          /\ room \in Listed(rows', a, mFilterString)
          /\ channelSelected(room)
          /\ mDelayedSelectedRooms' = [mDelayedSelectedRooms EXCEPT ![a] = left]
          /\ wanted' = [wanted EXCEPT ![a] = IF @ = room THEN "none" ELSE @]
       \/ /\ a = account
          /\ room \notin Listed(rows', a, mFilterString)
          /\ mDelayedSelectedRooms' = [mDelayedSelectedRooms EXCEPT ![a] = left \cup ({room} \cap RoomId)]
          /\ wanted' = [wanted EXCEPT ![a] =
               IF @ = room /\ room \in Listed(rows', a, {}) THEN "none" ELSE @]
          /\ UNCHANGED shown
       \/ /\ a # account
          /\ mDelayedSelectedRooms' = [mDelayedSelectedRooms EXCEPT ![a] = left]
          /\ UNCHANGED <<shown, wanted>>
    /\ UNCHANGED <<server, account, mFilterString, asked>>

\* forceDisconnect: what was asked and what was told is lost with the connections.
forceDisconnect(a) ==
  LET lost == {j \in jobs : j.place[1] = a} IN
    /\ a \in connected
    /\ changes < MaxChanges
    /\ changes' = changes + 1
    /\ connected' = connected \ {a}
    /\ rows' = [p \in Place |-> IF p[1] = a THEN "absent" ELSE rows[p]]
    /\ events' = [p \in Place |-> IF p[1] = a THEN <<>> ELSE events[p]]
    /\ inserted' = {p \in inserted : p[1] # a}
    /\ jobs' = jobs \ lost
    /\ wanted' = [wanted EXCEPT ![a] = IF \E j \in lost : j.place[2] = @ THEN "none" ELSE @]
    /\ UNCHANGED <<member, window, delayed, passwords, requests>>

-----------------------------------------------------------------------------
JobOf(p) == \E j \in jobs : j.place = p /\ (Serve(j) \/ Refuse(j) \/ setChannelJoinDone(j))

Next ==
  \/ selectDelayed
  \/ \E room \in RoomId : selectChannelRequested(room) \/ \E kind \in Kind : openChannel(kind, room)
  \/ \E j \in passwords : slotMissingChannelPassword(j)
  \/ \E filter \in Searches : setFilterString(filter)
  \/ \E p \in Place :
       \/ JobOf(p)
       \/ updateSubscription(p)
       \/ insertRoom(p)
       \/ \E status \in Status : ChangeMember(p, status)
  \/ \E a \in Account :
       setCurrentRocketChatAccount(a) \/ getsubscriptionParsing(a) \/ forceDisconnect(a)

\* The event loop runs, servers answer, and a connection is made again.
Fairness ==
  /\ WF_vars(selectDelayed)
  /\ \A p \in Place : WF_vars(JobOf(p)) /\ WF_vars(updateSubscription(p)) /\ WF_vars(insertRoom(p))
  /\ \A a \in Account : WF_vars(getsubscriptionParsing(a))

Spec == Init /\ [][Next]_vars /\ Fairness

-----------------------------------------------------------------------------
\* What the variables may hold.
TypeOK ==
  /\ member \in [Place -> Status]
  /\ events \in [Place -> Seq(Event)]
  /\ inserted \subseteq Place
  /\ changes \in 0..MaxChanges
  /\ connected \subseteq Account
  /\ rows \in [Place -> Status]
  /\ account \in Account
  /\ mRoomId \in RoomId \cup {"none"}
  /\ mFilterString \subseteq RoomId
  /\ lastSelectedRoom \in [Account -> RoomId \cup {"none"}]
  /\ mDelayedSelectedRooms \in [Account -> SUBSET RoomId]
  /\ timers \in Seq(Place)
  /\ jobs \subseteq Job
  /\ passwords \subseteq Job
  /\ requests \in 0..MaxRequests
  /\ wanted \in [Account -> RoomId \cup {"none"}]

\* A room that was asked for and is neither shown nor given up is not forgotten: it
\* is being asked for, its selection is due, or it will be when its row opens, which
\* it then has not yet.
WantedIsPending ==
  \A p \in Place : wanted[p[1]] = p[2] =>
    \/ \E j \in jobs : j.place = p
    \/ \E j \in passwords : j.place = p
    \/ p \in Range(timers)
    \/ p[2] \in mDelayedSelectedRooms[p[1]] /\ rows[p] # "open"

\* A room that was asked for is shown or given up, whichever of the answer and the
\* list's events comes first, unless its password is waited for.
WantedIsShown ==
  \A p \in Place : wanted[p[1]] = p[2] ~> wanted[p[1]] # p[2] \/ \E j \in passwords : j.place = p
=============================================================================
