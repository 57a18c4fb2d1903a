------------------------------ MODULE DDPClient ------------------------------
(***************************************************************************)
(* One DDPClient and the MessageQueue that resends what it could not send, *)
(* in the default mode (useRestApiLogin).  Calls and subscriptions share   *)
(* one counter of ids, by which what the server answers finds who asked.   *)
(*                                                                         *)
(* The client's owner may call at any time after start(); the server may   *)
(* answer in any order, and the socket may close at any time.  The         *)
(* statuses of its authentication manager are those of AuthManager.        *)
(***************************************************************************)
EXTENDS Naturals, Sequences, FiniteSets

CONSTANT MaxUid      \* bound on the ids given out

ASSUME MaxUidAssumption == MaxUid \in Nat

VARIABLES
  socket,            \* mWebSocket: "opening", "open", "closed"
  uid,               \* mUid
  typeHash,          \* mMethodRequestedTypeHash, id -> who asked
  responseHash,      \* the ids in mMethodResponseHash
  subscriptions,     \* mSubscribeIdentifiers
  queue,             \* mMessageQueue, each message by the id it was first made with
  loggedIn,          \* RocketChatAccount::loginStatus() is LoggedIn
  retrying,          \* MessageQueue::processQueue() is in its loop
  wire,              \* frames the server has not answered
  served             \* subscriptions the server sends events for

vars == <<socket, uid, typeHash, responseHash, subscriptions, queue, loggedIn, retrying, wire, served>>

Id == 1..MaxUid
MethodRequestedType == {"OpenRoom", "ShowDebug", "Unsubscribe"}
Asker == MethodRequestedType \cup {"manager", "nobody"}

\* "about": the subscription to end, or the id a message was first made with.
Frame == [msg : {"method", "sub", "unsub"}, id : Id, asker : Asker, about : Id]

Init ==
  /\ socket = "opening"
  /\ uid = 1
  /\ typeHash = <<>>
  /\ responseHash = {}
  /\ subscriptions = <<>>
  /\ queue = <<>>
  /\ loggedIn = FALSE
  /\ retrying = FALSE
  /\ wire = {}
  /\ served = {}

-----------------------------------------------------------------------------
\* sendTextMessage: nothing is sent, and 0 returned, unless the socket is open.
Send(frame) == wire' = IF socket = "open" THEN wire \cup {frame} ELSE wire

TakeId == uid <= MaxUid /\ uid' = uid + 1

\* Faulty: the type is stored for the id of the next call.
RememberNext(type) ==
  typeHash' = [id \in DOMAIN typeHash \cup {uid'} |-> IF id = uid' THEN type ELSE typeHash[id]]

Remember(type) == typeHash' = [id \in DOMAIN typeHash \cup {uid} |-> IF id = uid THEN type ELSE typeHash[id]]

\* Any method() called with MessageType::Ephemeral.
Call(type) ==
  /\ ~retrying
  /\ TakeId
  /\ Remember(type)
  /\ Send([msg |-> "method", id |-> uid, asker |-> type, about |-> uid])
  /\ UNCHANGED <<socket, responseHash, subscriptions, queue, loggedIn, retrying, served>>

\* What could not be sent is queued, and the queue processed at once: storeInQueue
\* goes on, to store the type and take the id, only if that does not loop.
Enqueue(type) ==
  /\ queue' = Append(queue, uid)
  /\ retrying' = loggedIn
  /\ IF loggedIn THEN UNCHANGED <<uid, typeHash>> ELSE TakeId /\ Remember(type)

CallPersistent(frame, type) ==
  /\ ~retrying
  /\ uid <= MaxUid
  /\ IF socket = "open" THEN TakeId /\ Remember(type) /\ UNCHANGED <<queue, retrying>>
                        ELSE Enqueue(type)
  /\ Send(frame)
  /\ UNCHANGED <<socket, responseHash, subscriptions, loggedIn, served>>

OpenRoom ==
  CallPersistent([msg |-> "method", id |-> uid, asker |-> "OpenRoom", about |-> uid], "OpenRoom")

\* The widget that subscribed unsubscribes, here on the same client.
Unsubscribe(registerId) ==
  CallPersistent([msg |-> "unsub", id |-> uid, asker |-> "Unsubscribe", about |-> registerId], "Unsubscribe")

\* Faulty: the ids of subscriptions are not kept.
SubscribeForgotten ==
  /\ ~retrying
  /\ TakeId
  /\ Send([msg |-> "sub", id |-> uid, asker |-> "nobody", about |-> uid])
  /\ UNCHANGED <<socket, typeHash, responseHash, subscriptions, queue, loggedIn, retrying, served>>

\* subscribe() keeps the id it returns.
Subscribe ==
  /\ ~retrying
  /\ TakeId
  /\ Send([msg |-> "sub", id |-> uid, asker |-> "nobody", about |-> uid])
  /\ subscriptions' = Append(subscriptions, uid)
  /\ UNCHANGED <<socket, typeHash, responseHash, queue, loggedIn, retrying, served>>

\* subscribeRoomMessage() keeps it again.
SubscribeRoomMessage ==
  /\ ~retrying
  /\ TakeId
  /\ Send([msg |-> "sub", id |-> uid, asker |-> "nobody", about |-> uid])
  /\ subscriptions' = subscriptions \o <<uid, uid>>
  /\ UNCHANGED <<socket, typeHash, responseHash, queue, loggedIn, retrying, served>>

\* The authentication manager's calls.
InvokeMethodAndRegister ==
  /\ ~retrying
  /\ TakeId
  /\ responseHash' = responseHash \cup {uid}
  /\ Remember("ShowDebug")
  /\ Send([msg |-> "method", id |-> uid, asker |-> "manager", about |-> uid])
  /\ UNCHANGED <<socket, subscriptions, queue, loggedIn, retrying, served>>

\* generateJsonObject() numbers a message that REST sends.
GenerateJsonObject ==
  /\ ~retrying
  /\ TakeId
  /\ UNCHANGED <<socket, typeHash, responseHash, subscriptions, queue, loggedIn, retrying, wire, served>>

-----------------------------------------------------------------------------
\* A turn of processQueue's loop, which sends the head and leaves it there.
Retry ==
  /\ retrying
  /\ TakeId
  /\ Remember("ShowDebug")
  /\ Send([msg |-> "method", id |-> uid, asker |-> "ShowDebug", about |-> Head(queue)])
  /\ UNCHANGED <<socket, responseHash, subscriptions, queue, loggedIn, retrying, served>>

\* MessageQueue::onLoginStatusChanged, which hears the first Connection only.
LoginStatusChanged(now) ==
  /\ ~retrying
  /\ now # loggedIn
  /\ loggedIn' = now
  /\ retrying' \in {FALSE, now /\ queue # <<>>}
  /\ UNCHANGED <<socket, uid, typeHash, responseHash, subscriptions, queue, wire, served>>

-----------------------------------------------------------------------------
\* Whom onTextMessageReceived tells about a result with this id.
RouteOf(id) ==
  CASE id \in responseHash                               -> "manager"
    [] id \notin responseHash /\ id \in DOMAIN typeHash  -> typeHash[id]
    [] OTHER                                             -> "nobody"

Drop(f, id) == [i \in DOMAIN f \ {id} |-> f[i]]

\* A "result": a manager that is registered is deregistered, a type is taken.
Result(frame) ==
  /\ frame.msg = "method"
  /\ IF frame.id \in responseHash
       THEN responseHash' = responseHash \ {frame.id} /\ UNCHANGED typeHash
       ELSE typeHash' = Drop(typeHash, frame.id) /\ UNCHANGED responseHash
  /\ UNCHANGED served

\* "ready" names the subscription, and is looked up like the answer to a call.
Ready(frame) ==
  /\ frame.msg = "sub"
  /\ served' = served \cup {frame.id}
  /\ typeHash' = Drop(typeHash, frame.id)
  /\ UNCHANGED responseHash

NoSub(frame) ==
  /\ frame.msg = "unsub"
  /\ served' = served \ {frame.about}
  /\ UNCHANGED <<typeHash, responseHash>>

TextMessageReceived(frame) ==
  /\ ~retrying
  /\ wire' = wire \ {frame}
  /\ Result(frame) \/ Ready(frame) \/ NoSub(frame)
  /\ UNCHANGED <<socket, uid, subscriptions, queue, loggedIn, retrying>>

WSConnected ==
  /\ ~retrying
  /\ socket = "opening"
  /\ socket' = "open"
  /\ UNCHANGED <<uid, typeHash, responseHash, subscriptions, queue, loggedIn, retrying, wire, served>>

\* What was not answered never will be.
WSClosed ==
  /\ ~retrying
  /\ socket # "closed"
  /\ socket' = "closed"
  /\ wire' = {}
  /\ served' = {}
  /\ UNCHANGED <<uid, typeHash, responseHash, subscriptions, queue, loggedIn, retrying>>

-----------------------------------------------------------------------------
Next ==
  \/ Call("ShowDebug")
  \/ OpenRoom
  \/ Subscribe
  \/ SubscribeRoomMessage
  \/ \E i \in DOMAIN subscriptions : Unsubscribe(subscriptions[i])
  \/ InvokeMethodAndRegister
  \/ GenerateJsonObject
  \/ Retry
  \/ \E now \in BOOLEAN : LoginStatusChanged(now)
  \/ \E frame \in wire : TextMessageReceived(frame)
  \/ WSConnected
  \/ WSClosed

Spec == Init /\ [][Next]_vars

-----------------------------------------------------------------------------
\* Types: the hashes and the queue only hold ids that were given out.
TypeOK ==
  /\ socket \in {"opening", "open", "closed"}
  /\ uid \in 1..(MaxUid + 1)
  /\ DOMAIN typeHash \subseteq Id /\ \A id \in DOMAIN typeHash : typeHash[id] \in MethodRequestedType
  /\ responseHash \subseteq Id
  /\ subscriptions \in Seq(Id)
  /\ queue \in Seq(Id)
  /\ loggedIn \in BOOLEAN
  /\ retrying \in BOOLEAN
  /\ wire \subseteq Frame
  /\ served \subseteq Id

(***************************************************************************)
(* Whatever is answered next, and in whatever order the server answers, it *)
(* reaches the one who asked, and the answer to a subscription reaches     *)
(* nobody: ids are never shared, and each of the two hashes is filled in   *)
(* for the call that was sent.                                             *)
(***************************************************************************)
AnswerReachesAsker ==
  \A frame \in wire : frame.msg # "unsub" => RouteOf(frame.id) = frame.asker

(***************************************************************************)
(* The destructor unsubscribes from mSubscribeIdentifiers: whatever the    *)
(* server serves, or is about to, is in it.                                *)
(***************************************************************************)
SubscriptionsKnown ==
  \A id \in served \cup {frame.id : frame \in {f \in wire : f.msg = "sub"}} :
    \E i \in DOMAIN subscriptions : subscriptions[i] = id

(***************************************************************************)
(* ddpclient.h:159 says of the queue: "used to cache unsent messages".     *)
(***************************************************************************)
QueueHoldsOnlyUnsent ==
  \A frame \in wire : frame.msg = "method" => \A i \in DOMAIN queue : queue[i] # frame.about
=============================================================================
