------------------------------ MODULE RoomList ------------------------------
(***************************************************************************)
(* The list of rooms during one session of the websocket: RoomModel and    *)
(* the Rooms in it.  A room is known to the server by two documents, the   *)
(* user's subscription to it (unread, open, favorite, ...) and the room    *)
(* itself (announcement, encryption, owner, ...).  Both are loaded once    *)
(* after the login, subscriptions first, and each has a stream of events   *)
(* on the websocket that keeps it up to date.  Events of one stream come   *)
(* in order; the two streams and the answers are not ordered against each  *)
(* other.                                                                  *)
(*                                                                         *)
(* A document is abstracted to the number of the change that made it; 0    *)
(* stands for none.  The account stays logged in.                          *)
(***************************************************************************)
EXTENDS Integers, Sequences, FiniteSets, SequencesExt

CONSTANTS
  Rid,               \* identifiers of rooms
  MaxChanges         \* bound on the changes on the server

ASSUME RidAssumption == IsFiniteSet(Rid)
ASSUME MaxChangesAssumption == MaxChanges \in Nat

VARIABLES
  changes,           \* on the server: how many changes there were
  subscription,      \* on the server: the user's subscriptions
  room,              \* on the server: the rooms
  streams,           \* on the server: the streams the user hears
  subscriptionEvents,\* subscriptions-changed under way
  roomEvents,        \* rooms-changed under way
  calls,             \* subscriptions/get and rooms/get under way
  rows,              \* mRoomsList
  overtaken,         \* history: rooms whose subscription may be unknown
  unsure             \* history: rooms whose document may be unknown

vars == <<changes, subscription, room, streams, subscriptionEvents, roomEvents, calls, rows,
          overtaken, unsure>>
server == <<changes, subscription, room, streams>>
wire == <<subscriptionEvents, roomEvents, calls>>

None == 0
Revision == 0..(MaxChanges + 1)
Stream == {"subscriptions-changed", "rooms-changed"}
Method == {"subscriptions/get", "rooms/get"}
Event == [action : {"inserted", "updated", "removed"}, rid : Rid, revision : Revision]
Call == [method : Method, answered : BOOLEAN, update : [Rid -> Revision]]
Row == [rid : Rid, subscription : Revision, room : Revision]

Listed(rid) == \E i \in DOMAIN rows : rows[i].rid = rid

Asked(method) == [method |-> method, answered |-> FALSE, update |-> [rid \in Rid |-> None]]
Answered(method) == \E call \in calls : call.method = method /\ call.answered
Unanswered(method) == \E call \in calls : call.method = method /\ ~call.answered

\* ddpLogin has just called initializeSubscription.
Init ==
  /\ changes = 1
  /\ subscription \in [Rid -> {None, 1}]
  /\ room \in [Rid -> {None, 1}]
  /\ \A rid \in Rid : subscription[rid] # None => room[rid] # None
  /\ streams = {}
  /\ subscriptionEvents = <<>>
  /\ roomEvents = <<>>
  /\ calls = {Asked("subscriptions/get")}
  /\ rows = <<>>
  /\ overtaken = {}
  /\ unsure = {}

-----------------------------------------------------------------------------
(***************************************************************************)
(* The server, as far as the client sees it.  A change is told by events   *)
(* if their stream is heard; what was loaded before it is old.             *)
(***************************************************************************)
EmitSubscription(action, rid) ==
  subscriptionEvents' =
    IF "subscriptions-changed" \in streams
      THEN Append(subscriptionEvents, [action |-> action, rid |-> rid, revision |-> changes'])
      ELSE subscriptionEvents

EmitRoom(action, rid) ==
  roomEvents' =
    IF "rooms-changed" \in streams
      THEN Append(roomEvents, [action |-> action, rid |-> rid, revision |-> changes'])
      ELSE roomEvents

\* The rooms a call was, or will be, answered about too early for a change:
\* either no event tells of it, or the event may come before the answer.
TooEarly(method, stream, rid) ==
  IF ~Unanswered(method) /\ (stream \notin streams \/ Answered(method)) THEN {rid} ELSE {}

SubscriptionChanged(action, rid) ==
  /\ subscription' = [subscription EXCEPT ![rid] = IF action = "removed" THEN None ELSE changes']
  /\ EmitSubscription(action, rid)
  /\ overtaken' = overtaken \cup TooEarly("subscriptions/get", "subscriptions-changed", rid)

RoomChanged(action, rid) ==
  /\ room' = [room EXCEPT ![rid] = IF action = "removed" THEN None ELSE changes']
  /\ EmitRoom(action, rid)
  /\ unsure' = unsure \cup TooEarly("rooms/get", "rooms-changed", rid)

Change ==
  /\ changes <= MaxChanges
  /\ changes' = changes + 1
  /\ UNCHANGED <<streams, calls, rows>>

\* The user enters a room, which may be a new one.
Join(rid) ==
  /\ Change
  /\ subscription[rid] = None
  /\ SubscriptionChanged("inserted", rid)
  /\ RoomChanged(IF room[rid] = None THEN "inserted" ELSE "updated", rid)

Leave(rid) ==
  /\ Change
  /\ subscription[rid] # None
  /\ SubscriptionChanged("removed", rid)
  /\ UNCHANGED <<room, roomEvents, unsure>>

Erase(rid) ==
  /\ Change
  /\ subscription[rid] # None
  /\ SubscriptionChanged("removed", rid)
  /\ RoomChanged("removed", rid)

\* A message comes, or is read, or the user marks the room.
ChangeSubscription(rid) ==
  /\ Change
  /\ subscription[rid] # None
  /\ SubscriptionChanged("updated", rid)
  /\ UNCHANGED <<room, roomEvents, unsure>>

ChangeRoom(rid) ==
  /\ Change
  /\ subscription[rid] # None
  /\ RoomChanged("updated", rid)
  /\ UNCHANGED <<subscription, subscriptionEvents, overtaken>>

\* subscribeRegistration's subscriptions reach the server.
Subscribed(stream) ==
  /\ stream \notin streams
  /\ streams' = streams \cup {stream}
  /\ UNCHANGED <<changes, subscription, room, wire, rows, overtaken, unsure>>

\* The answer is made, and is on its way from then on.
Answer(call) ==
  /\ ~call.answered
  /\ LET update == IF call.method = "subscriptions/get" THEN subscription
                   ELSE [rid \in Rid |-> IF subscription[rid] = None THEN None ELSE room[rid]]
     IN calls' = (calls \ {call}) \cup {[call EXCEPT !.answered = TRUE, !.update = update]}
  /\ UNCHANGED <<server, subscriptionEvents, roomEvents, rows, overtaken, unsure>>

-----------------------------------------------------------------------------
(***************************************************************************)
(* RoomModel                                                               *)
(***************************************************************************)
\* Faulty: a room that is there already is added again.
addRoomTwice(row) == rows' = Append(rows, row)

addRoom(row) == rows' = IF Listed(row.rid) THEN rows ELSE Append(rows, row)

\* Faulty: the room is emptied but not taken out of the list.
removeRoomLeavesEmpty(rid) ==
  rows' = [i \in DOMAIN rows |-> IF rows[i].rid = rid THEN [rows[i] EXCEPT !.rid = ""] ELSE rows[i]]

\* Faulty: as for rooms-changed, the identifier is not passed on.
removeRoomOfNoId(rid) == UNCHANGED rows

removeRoom(rid) ==
  \/ ~Listed(rid) /\ UNCHANGED rows
  \/ \E i \in DOMAIN rows :
       /\ rows[i].rid = rid
       /\ \A j \in 1..(i - 1) : rows[j].rid # rid
       /\ rows' = RemoveAt(rows, i)

\* The first row of a room is updated, and none if it has no row.
IsFirstRow(i) == \A j \in 1..(i - 1) : rows[j].rid # rows[i].rid

updateSubscriptionRoom(rid, revision) ==
  rows' = [i \in DOMAIN rows |->
             IF rows[i].rid = rid /\ IsFirstRow(i) THEN [rows[i] EXCEPT !.subscription = revision]
             ELSE rows[i]]

updateRooms(update) ==
  rows' = [i \in DOMAIN rows |->
             IF update[rows[i].rid] # None /\ IsFirstRow(i)
               THEN [rows[i] EXCEPT !.room = update[rows[i].rid]]
             ELSE rows[i]]

updateRoom(rid, revision) == updateRooms([r \in Rid |-> IF r = rid THEN revision ELSE None])

-----------------------------------------------------------------------------
\* A subscription that was loaded or heard of, in the row it makes.
SubscriptionRow(rid, revision) == [rid |-> rid, subscription |-> revision, room |-> None]
RoomRow(rid, revision) == [rid |-> rid, subscription |-> None, room |-> revision]

\* RoomModel::updateSubscription
SubscriptionEvent ==
  /\ subscriptionEvents # <<>>
  /\ subscriptionEvents' = Tail(subscriptionEvents)
  /\ LET event == Head(subscriptionEvents) IN
     /\ \/ event.action = "removed" /\ removeRoom(event.rid)
        \/ event.action = "inserted" /\ addRoom(SubscriptionRow(event.rid, event.revision))
        \/ event.action = "updated" /\ updateSubscriptionRoom(event.rid, event.revision)
     /\ overtaken' = IF \/ Answered("subscriptions/get")
                        \/ event.action = "inserted" /\ Listed(event.rid)
                        \/ event.action = "updated" /\ ~Listed(event.rid)
                     THEN overtaken ELSE overtaken \ {event.rid}
     /\ unsure' = IF event.action = "removed" THEN unsure \cup {event.rid} ELSE unsure
  /\ UNCHANGED <<server, roomEvents, calls>>

\* "rooms-changed" in RocketChatBackend::slotChanged.  A removal passes an
\* empty identifier to removeRoom.
RoomEvent ==
  /\ roomEvents # <<>>
  /\ roomEvents' = Tail(roomEvents)
  /\ LET event == Head(roomEvents) IN
     \/ /\ event.action = "updated"
        /\ updateRoom(event.rid, event.revision)
        /\ unsure' = IF ~Listed(event.rid) THEN unsure \cup {event.rid}
                     ELSE IF Answered("rooms/get") THEN unsure ELSE unsure \ {event.rid}
        /\ UNCHANGED overtaken
     \/ /\ event.action = "inserted"
        /\ addRoom(RoomRow(event.rid, event.revision))
        /\ unsure' = IF Listed(event.rid) THEN unsure \cup {event.rid}
                     ELSE IF Answered("rooms/get") THEN unsure ELSE unsure \ {event.rid}
        /\ overtaken' = IF Listed(event.rid) THEN overtaken ELSE overtaken \cup {event.rid}
     \/ event.action = "removed" /\ UNCHANGED <<rows, unsure, overtaken>>
  /\ UNCHANGED <<server, subscriptionEvents, calls>>

\* Faulty: the rooms themselves are not asked for.
getsubscriptionParsingOnly(call) ==
  LET new == {rid \in Rid : call.update[rid] # None /\ ~Listed(rid)} IN
  /\ call.method = "subscriptions/get" /\ call.answered
  /\ \E added \in SetToSeqs({SubscriptionRow(rid, call.update[rid]) : rid \in new}) :
       rows' = rows \o added
  /\ calls' = calls \ {call}
  /\ UNCHANGED <<server, subscriptionEvents, roomEvents, overtaken, unsure>>

\* addRoom for every subscription, which keeps the rows there are.
getsubscriptionParsing(call) ==
  LET new == {rid \in Rid : call.update[rid] # None /\ ~Listed(rid)} IN
  /\ call.method = "subscriptions/get" /\ call.answered
  /\ \E added \in SetToSeqs({SubscriptionRow(rid, call.update[rid]) : rid \in new}) :
       rows' = rows \o added
  /\ calls' = (calls \ {call}) \cup {Asked("rooms/get")}
  /\ UNCHANGED <<server, subscriptionEvents, roomEvents, overtaken, unsure>>

roomsParsing(call) ==
  /\ call.method = "rooms/get" /\ call.answered
  /\ updateRooms(call.update)
  /\ calls' = calls \ {call}
  /\ unsure' = unsure \cup {rid \in Rid : call.update[rid] # None /\ ~Listed(rid)}
  /\ UNCHANGED <<server, subscriptionEvents, roomEvents, overtaken>>

-----------------------------------------------------------------------------
Server ==
  \/ \E rid \in Rid : Join(rid) \/ Leave(rid) \/ Erase(rid)
  \/ \E rid \in Rid : ChangeSubscription(rid) \/ ChangeRoom(rid)
  \/ \E stream \in Stream : Subscribed(stream)
  \/ \E call \in calls : Answer(call)

Client ==
  \/ SubscriptionEvent
  \/ RoomEvent
  \/ \E call \in calls : getsubscriptionParsing(call) \/ roomsParsing(call)

Next == Server \/ Client

Spec == Init /\ [][Next]_vars

-----------------------------------------------------------------------------
\* Types: the list holds rooms, whatever is added, updated and removed.
TypeOK ==
  /\ changes \in 1..(MaxChanges + 1)
  /\ subscription \in [Rid -> Revision]
  /\ room \in [Rid -> Revision]
  /\ streams \subseteq Stream
  /\ subscriptionEvents \in Seq(Event)
  /\ roomEvents \in Seq(Event)
  /\ calls \subseteq Call
  /\ rows \in Seq(Row)
  /\ overtaken \subseteq Rid
  /\ unsure \subseteq Rid

\* findRoom, updateRoom and updateSubscriptionRoom warn when they find "more
\* than 1 room": both streams and the loaded list bring the same room.
NoDuplicates == \A i, j \in DOMAIN rows : rows[i].rid = rows[j].rid => i = j

Quiet == streams = Stream /\ subscriptionEvents = <<>> /\ roomEvents = <<>> /\ calls = {}

\* With nothing under way, the rooms listed are those the user is in, each
\* with its subscription as it is, but for the races that overtaken records.
ListFollowsSubscriptions ==
  Quiet => \A rid \in Rid \ overtaken :
    IF subscription[rid] = None THEN ~Listed(rid)
    ELSE \E i \in DOMAIN rows : rows[i].rid = rid /\ rows[i].subscription = subscription[rid]

\* With nothing under way, a listed room shows the room as it is, but for
\* the races that unsure records.
RowsFollowRooms ==
  Quiet => \A i \in DOMAIN rows :
    rows[i].rid \notin unsure \cup overtaken => rows[i].room = room[rows[i].rid]
=============================================================================
