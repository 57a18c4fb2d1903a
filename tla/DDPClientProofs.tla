--------------------------- MODULE DDPClientProofs ---------------------------
(***************************************************************************)
(* For any number of ids: the client's types, that an answer reaches the   *)
(* one who asked, and that every subscription can be ended.  Then, for any *)
(* users and rooms, what becomes of the statuses of Typing, which users    *)
(* send with such clients (DDPClient::informTypingStatus): which names are *)
(* kept and which are shown.                                               *)
(***************************************************************************)
EXTENDS DDPClient, Typing, SequenceTheorems, TLAPS

\* Ids that are known, to the hashes or on the wire, were given out before.
Fresh ==
  /\ \A id \in DOMAIN typeHash : id < uid
  /\ \A id \in responseHash : id < uid
  /\ \A frame \in wire : frame.id < uid

\* No two frames on the wire that expect an answer share an id.
Distinct ==
  \A f, g \in wire : f.msg # "unsub" /\ g.msg # "unsub" /\ f.id = g.id => f = g

\* processQueue's loop has a message to send.
RetryingHasHead == retrying => queue # <<>>

IInv == TypeOK /\ Fresh /\ Distinct /\ AnswerReachesAsker /\ RetryingHasHead

-----------------------------------------------------------------------------
\* Storing a type for the next id keeps the table's domain and what it held.
LEMMA RememberLemma ==
  ASSUME NEW type \in MethodRequestedType, TypeOK, Fresh, TakeId, Remember(type)
  PROVE  /\ DOMAIN typeHash' = DOMAIN typeHash \cup {uid}
         /\ typeHash'[uid] = type
         /\ \A id \in DOMAIN typeHash : id # uid /\ typeHash'[id] = typeHash[id]
         /\ DOMAIN typeHash' \subseteq Id
         /\ \A id \in DOMAIN typeHash' : typeHash'[id] \in MethodRequestedType /\ id < uid'
         /\ uid \in Id /\ uid' = uid + 1 /\ uid' \in 1..(MaxUid + 1)
<1>1. uid \in Id /\ uid' = uid + 1 /\ uid' \in 1..(MaxUid + 1)
  BY MaxUidAssumption DEF TypeOK, TakeId, Id
<1>2. DOMAIN typeHash' = DOMAIN typeHash \cup {uid}
  BY DEF Remember
<1>3. \A id \in DOMAIN typeHash : id \in Id /\ id < uid /\ id # uid
  BY <1>1 DEF TypeOK, Fresh, Id
<1>4. typeHash'[uid] = type
  BY DEF Remember
<1>5. \A id \in DOMAIN typeHash : typeHash'[id] = typeHash[id]
  BY <1>3 DEF Remember
<1>6. \A id \in DOMAIN typeHash' : typeHash'[id] \in MethodRequestedType /\ id < uid'
  BY <1>1, <1>2, <1>3, <1>4, <1>5 DEF TypeOK, Id
<1> QED BY <1>1, <1>2, <1>3, <1>4, <1>5, <1>6

\* A frame that takes the next id, once its asker is on record, keeps the
\* invariants about the wire, whether it is sent or not.
LEMMA SendLemma ==
  ASSUME IInv, uid \in Id, uid' = uid + 1, NEW frame \in Frame, Send(frame), frame.id = uid,
         frame.msg # "unsub" => RouteOf(frame.id)' = frame.asker,
         \A f \in wire : f.msg # "unsub" => RouteOf(f.id)' = RouteOf(f.id)
  PROVE  /\ wire' \subseteq Frame
         /\ \A f \in wire' : f.id < uid'
         /\ Distinct'
         /\ AnswerReachesAsker'
<1>1. wire' \subseteq wire \cup {frame}
  BY DEF Send
<1>2. \A f \in wire : f \in Frame /\ f.id < uid /\ f.id # uid
  BY DEF IInv, TypeOK, Fresh, Frame, Id
<1>3. wire' \subseteq Frame
  BY <1>1, <1>2
<1>4. \A f \in wire' : f.id < uid'
  BY <1>1, <1>2 DEF Id, Frame
<1>5. Distinct'
  BY <1>1, <1>2 DEF IInv, Distinct
<1>6. AnswerReachesAsker'
  <2> SUFFICES ASSUME NEW f \in wire', f.msg # "unsub" PROVE RouteOf(f.id)' = f.asker
    BY DEF AnswerReachesAsker
  <2>1. CASE f = frame
    BY <2>1
  <2>2. CASE f \in wire
    BY <2>2 DEF IInv, AnswerReachesAsker
  <2> QED BY <1>1, <2>1, <2>2
<1> QED BY <1>3, <1>4, <1>5, <1>6

\* The route of an id whose entries in the two hashes stay is the same.
LEMMA RouteLemma ==
  ASSUME NEW id,
         id \in responseHash' <=> id \in responseHash,
         id \in DOMAIN typeHash' <=> id \in DOMAIN typeHash,
         id \in DOMAIN typeHash => typeHash'[id] = typeHash[id]
  PROVE  RouteOf(id)' = RouteOf(id)
  BY DEF RouteOf

-----------------------------------------------------------------------------
LEMMA InitIInv == Init => IInv
<1> SUFFICES ASSUME Init PROVE IInv OBVIOUS
<1> USE DEF Init
<1>1. DOMAIN typeHash = {}
  OBVIOUS
<1>2. uid \in 1..(MaxUid + 1)
  BY MaxUidAssumption
<1>3. TypeOK
  <2>1. subscriptions \in Seq(Id) /\ queue \in Seq(Id)
    OBVIOUS
  <2>2. \A id \in DOMAIN typeHash : typeHash[id] \in MethodRequestedType
    BY <1>1
  <2>3. DOMAIN typeHash \subseteq Id /\ responseHash \subseteq Id /\ wire \subseteq Frame /\ served \subseteq Id
    BY <1>1
  <2> QED BY <1>2, <2>1, <2>2, <2>3 DEF TypeOK
<1>4. Fresh /\ Distinct /\ AnswerReachesAsker /\ RetryingHasHead
  BY <1>1 DEF Fresh, Distinct, AnswerReachesAsker, RetryingHasHead
<1> QED BY <1>3, <1>4 DEF IInv

-----------------------------------------------------------------------------
\* A call or a retry: the next id is recorded for its type and sent.
LEMMA CallLemma ==
  ASSUME IInv, TakeId, NEW type \in MethodRequestedType, Remember(type),
         NEW frame \in Frame, Send(frame), frame.id = uid,
         \/ frame.asker = type /\ responseHash' = responseHash
         \/ frame.msg = "unsub" /\ responseHash' = responseHash
         \/ frame.asker = "manager" /\ responseHash' = responseHash \cup {uid},
         UNCHANGED <<socket, subscriptions, loggedIn, served>>,
         queue' \in Seq(Id), retrying' \in BOOLEAN, RetryingHasHead'
  PROVE  IInv'
<1> USE DEF IInv
<1>1. /\ DOMAIN typeHash' = DOMAIN typeHash \cup {uid}
      /\ typeHash'[uid] = type
      /\ \A id \in DOMAIN typeHash : id # uid /\ typeHash'[id] = typeHash[id]
      /\ DOMAIN typeHash' \subseteq Id
      /\ \A id \in DOMAIN typeHash' : typeHash'[id] \in MethodRequestedType /\ id < uid'
      /\ uid \in Id /\ uid' = uid + 1 /\ uid' \in 1..(MaxUid + 1)
  BY RememberLemma
<1>2. responseHash' \subseteq Id /\ \A id \in responseHash' : id < uid'
  <2>1. responseHash' \subseteq responseHash \cup {uid}
    OBVIOUS
  <2>2. \A id \in responseHash : id \in Id /\ id < uid'
    BY <1>1 DEF TypeOK, Fresh, Id
  <2> QED BY <2>1, <2>2, <1>1 DEF Id
<1>3. ASSUME NEW id, id # uid PROVE RouteOf(id)' = RouteOf(id)
  BY <1>1, <1>3, RouteLemma
<1>4. \A f \in wire : f.msg # "unsub" => RouteOf(f.id)' = RouteOf(f.id)
  <2> SUFFICES ASSUME NEW f \in wire PROVE RouteOf(f.id)' = RouteOf(f.id)
    OBVIOUS
  <2>1. f.id # uid
    BY DEF Fresh, TypeOK, Frame, Id
  <2> QED BY <2>1, <1>3
<1>5. frame.msg # "unsub" => RouteOf(frame.id)' = frame.asker
  <2>1. uid \notin responseHash
    BY <1>1 DEF Fresh, TypeOK, Id
  <2>2. CASE frame.asker = type /\ responseHash' = responseHash
    BY <2>1, <2>2, <1>1 DEF RouteOf
  <2>3. CASE frame.asker = "manager" /\ responseHash' = responseHash \cup {uid}
    BY <2>3, <1>1 DEF RouteOf
  <2> QED BY <2>2, <2>3
<1>6. /\ wire' \subseteq Frame
      /\ \A f \in wire' : f.id < uid'
      /\ Distinct'
      /\ AnswerReachesAsker'
  BY <1>1, <1>4, <1>5, SendLemma
<1>7. TypeOK'
  BY <1>1, <1>2, <1>6 DEF TypeOK
<1>8. Fresh'
  BY <1>1, <1>2, <1>6 DEF Fresh
<1> QED BY <1>6, <1>7, <1>8

\* A subscription, or a number taken for a message of REST: the hashes stay.
LEMMA SubscribeLemma ==
  ASSUME IInv, TakeId,
         \/ wire' = wire
         \/ Send([msg |-> "sub", id |-> uid, asker |-> "nobody", about |-> uid]),
         UNCHANGED <<socket, typeHash, responseHash, queue, loggedIn, retrying, served>>,
         subscriptions' \in Seq(Id)
  PROVE  IInv'
<1> USE DEF IInv
<1> DEFINE frame == [msg |-> "sub", id |-> uid, asker |-> "nobody", about |-> uid]
<1>1. uid \in Id /\ uid' = uid + 1 /\ uid' \in 1..(MaxUid + 1)
  BY MaxUidAssumption DEF TypeOK, TakeId, Id
<1>2. ASSUME NEW id PROVE RouteOf(id)' = RouteOf(id)
  BY RouteLemma
<1>3. /\ wire' \subseteq Frame
      /\ \A f \in wire' : f.id < uid'
      /\ Distinct'
      /\ AnswerReachesAsker'
  <2>1. CASE wire' = wire
    BY <2>1, <1>1, <1>2 DEF TypeOK, Fresh, Distinct, AnswerReachesAsker, Frame, Id
  <2>2. CASE Send(frame)
    <3>1. PICK subFrame \in Frame : subFrame = frame
      BY <1>1 DEF Frame, Asker
    <3>2. subFrame.msg = "sub" /\ subFrame.id = uid /\ subFrame.asker = "nobody" /\ Send(subFrame)
      BY <3>1, <2>2
    <3>3. RouteOf(subFrame.id)' = "nobody"
      <4>1. RouteOf(subFrame.id) = "nobody"
        BY <3>2, <1>1 DEF RouteOf, Fresh, TypeOK, Id
      <4> QED BY <4>1, <1>2
    <3> HIDE DEF frame
    <3> QED BY <1>1, <1>2, <3>2, <3>3, SendLemma
  <2> QED BY <2>1, <2>2
<1>4. TypeOK'
  BY <1>1, <1>3 DEF TypeOK
<1>5. Fresh'
  BY <1>1, <1>3 DEF Fresh, TypeOK, Id
<1> QED BY <1>3, <1>4, <1>5 DEF RetryingHasHead

\* A persistent call, sent or queued.
LEMMA PersistentLemma ==
  ASSUME IInv, NEW type \in MethodRequestedType, NEW frame \in Frame,
         frame.id = uid, frame.asker = type, CallPersistent(frame, type)
  PROVE  IInv'
<1> USE DEF CallPersistent
<1>1. uid \in Id
  BY DEF IInv, TypeOK, Id
<1>2. CASE TakeId /\ Remember(type) /\ UNCHANGED <<queue, retrying>>
  <2>1. queue' \in Seq(Id) /\ retrying' \in BOOLEAN /\ RetryingHasHead'
    BY <1>2 DEF IInv, TypeOK, RetryingHasHead
  <2> QED BY <2>1, <1>2, CallLemma
<1>3. CASE socket # "open" /\ Enqueue(type)
  <2>1. queue' = Append(queue, uid) /\ queue' \in Seq(Id) /\ queue' # <<>>
    BY <1>1, <1>3 DEF IInv, TypeOK, Enqueue
  <2>2. retrying' \in BOOLEAN /\ RetryingHasHead'
    BY <1>3, <2>1 DEF IInv, TypeOK, Enqueue, RetryingHasHead
  <2>3. CASE TakeId /\ Remember(type)
    BY <2>1, <2>2, <2>3, CallLemma
  <2>4. CASE UNCHANGED <<uid, typeHash>>
    <3>1. wire' = wire
      BY <1>3 DEF Send
    <3>2. TypeOK'
      BY <2>1, <2>2, <2>4, <3>1 DEF IInv, TypeOK
    <3>3. Fresh' /\ Distinct' /\ AnswerReachesAsker'
      BY <2>4, <3>1 DEF IInv, Fresh, Distinct, AnswerReachesAsker, RouteOf
    <3> QED BY <2>2, <3>2, <3>3 DEF IInv
  <2> QED BY <1>3, <2>3, <2>4 DEF Enqueue
<1> QED BY <1>2, <1>3

\* What the server sends.
LEMMA ReceivedLemma ==
  ASSUME IInv, NEW frame \in wire, TextMessageReceived(frame)
  PROVE  IInv'
<1> USE DEF TextMessageReceived, IInv
<1>1. frame \in Frame /\ frame.id \in Id
  BY DEF TypeOK, Frame
<1>2. /\ responseHash' \subseteq responseHash
      /\ DOMAIN typeHash' \subseteq DOMAIN typeHash
      /\ \A id \in DOMAIN typeHash' : typeHash'[id] = typeHash[id]
      /\ served' \subseteq served \cup {frame.id}
  BY DEF Result, Ready, NoSub, Drop
<1>3. ASSUME NEW f \in wire, f # frame, f.msg # "unsub"
      PROVE  RouteOf(f.id)' = RouteOf(f.id)
  <2>1. CASE frame.msg = "unsub"
    BY <2>1 DEF Result, Ready, NoSub, RouteOf
  <2>2. CASE frame.msg # "unsub"
    <3>1. f.id # frame.id
      BY <1>3, <2>2 DEF Distinct
    <3>2. /\ f.id \in responseHash' <=> f.id \in responseHash
          /\ f.id \in DOMAIN typeHash' <=> f.id \in DOMAIN typeHash
      BY <3>1, <2>2 DEF Result, Ready, NoSub, Drop
    <3> QED BY <3>2, <1>2, RouteLemma
  <2> QED BY <2>1, <2>2
<1>4. TypeOK'
  BY <1>1, <1>2 DEF TypeOK
<1>5. Fresh'
  BY <1>2 DEF Fresh
<1>6. Distinct'
  BY DEF Distinct
<1>7. AnswerReachesAsker'
  BY <1>3 DEF AnswerReachesAsker
<1> QED BY <1>4, <1>5, <1>6, <1>7 DEF RetryingHasHead

-----------------------------------------------------------------------------
LEMMA NextIInv == IInv /\ [Next]_vars => IInv'
<1> SUFFICES ASSUME IInv, [Next]_vars PROVE IInv' OBVIOUS
<1>1. uid <= MaxUid => uid \in Id
  BY DEF IInv, TypeOK, Id
<1>2. TakeId => uid \in Id
  BY <1>1 DEF TakeId
<1>3. CASE Call("ShowDebug")
  <2>1. PICK frame \in Frame : frame = [msg |-> "method", id |-> uid, asker |-> "ShowDebug", about |-> uid]
    BY <1>3, <1>2 DEF Call, Frame, Asker, MethodRequestedType
  <2>2. frame.id = uid /\ frame.asker = "ShowDebug" /\ Send(frame)
    BY <2>1, <1>3 DEF Call
  <2>3. queue' \in Seq(Id) /\ retrying' \in BOOLEAN /\ RetryingHasHead'
    BY <1>3 DEF Call, IInv, TypeOK, RetryingHasHead
  <2> QED BY <1>3, <2>2, <2>3, CallLemma DEF Call, MethodRequestedType
<1>4. CASE OpenRoom
  <2>1. PICK frame \in Frame : frame = [msg |-> "method", id |-> uid, asker |-> "OpenRoom", about |-> uid]
    BY <1>4, <1>1 DEF OpenRoom, CallPersistent, Frame, Asker, MethodRequestedType
  <2>2. frame.id = uid /\ frame.asker = "OpenRoom" /\ CallPersistent(frame, "OpenRoom")
    BY <2>1, <1>4 DEF OpenRoom
  <2> QED BY <2>2, PersistentLemma DEF MethodRequestedType
<1>5. CASE Subscribe
  <2>1. subscriptions' \in Seq(Id)
    BY <1>5, <1>2 DEF Subscribe, IInv, TypeOK
  <2> QED BY <1>5, <2>1, SubscribeLemma DEF Subscribe
<1>6. CASE SubscribeRoomMessage
  <2>1. subscriptions' \in Seq(Id)
    BY <1>6, <1>2 DEF SubscribeRoomMessage, IInv, TypeOK
  <2> QED BY <1>6, <2>1, SubscribeLemma DEF SubscribeRoomMessage
<1>7. ASSUME NEW i \in DOMAIN subscriptions, Unsubscribe(subscriptions[i]) PROVE IInv'
  <2>1. subscriptions[i] \in Id
    BY DEF IInv, TypeOK
  <2>2. PICK frame \in Frame :
          frame = [msg |-> "unsub", id |-> uid, asker |-> "Unsubscribe", about |-> subscriptions[i]]
    BY <1>7, <1>1, <2>1 DEF Unsubscribe, CallPersistent, Frame, Asker, MethodRequestedType
  <2>3. frame.id = uid /\ frame.asker = "Unsubscribe" /\ CallPersistent(frame, "Unsubscribe")
    BY <2>2, <1>7 DEF Unsubscribe
  <2> QED BY <2>3, PersistentLemma DEF MethodRequestedType
<1>8. CASE InvokeMethodAndRegister
  <2>1. PICK frame \in Frame : frame = [msg |-> "method", id |-> uid, asker |-> "manager", about |-> uid]
    BY <1>8, <1>2 DEF InvokeMethodAndRegister, Frame, Asker
  <2>2. frame.id = uid /\ frame.asker = "manager" /\ Send(frame)
    BY <2>1, <1>8 DEF InvokeMethodAndRegister
  <2>3. queue' \in Seq(Id) /\ retrying' \in BOOLEAN /\ RetryingHasHead'
    BY <1>8 DEF InvokeMethodAndRegister, IInv, TypeOK, RetryingHasHead
  <2> QED BY <1>8, <2>2, <2>3, CallLemma DEF InvokeMethodAndRegister, MethodRequestedType
<1>9. CASE GenerateJsonObject
  <2>1. subscriptions' \in Seq(Id)
    BY <1>9 DEF GenerateJsonObject, IInv, TypeOK
  <2> QED BY <1>9, <2>1, SubscribeLemma DEF GenerateJsonObject
<1>10. CASE Retry
  <2>1. Head(queue) \in Id
    BY <1>10 DEF Retry, IInv, TypeOK, RetryingHasHead
  <2>2. PICK frame \in Frame :
          frame = [msg |-> "method", id |-> uid, asker |-> "ShowDebug", about |-> Head(queue)]
    BY <1>10, <1>2, <2>1 DEF Retry, Frame, Asker, MethodRequestedType
  <2>3. frame.id = uid /\ frame.asker = "ShowDebug" /\ Send(frame)
    BY <2>2, <1>10 DEF Retry
  <2>4. queue' \in Seq(Id) /\ retrying' \in BOOLEAN /\ RetryingHasHead'
    BY <1>10 DEF Retry, IInv, TypeOK, RetryingHasHead
  <2> QED BY <1>10, <2>3, <2>4, CallLemma DEF Retry, MethodRequestedType
<1>11. ASSUME NEW now \in BOOLEAN, LoginStatusChanged(now) PROVE IInv'
  BY <1>11 DEF LoginStatusChanged, IInv, TypeOK, Fresh, Distinct, AnswerReachesAsker, RouteOf, RetryingHasHead
<1>12. ASSUME NEW frame \in wire, TextMessageReceived(frame) PROVE IInv'
  BY <1>12, ReceivedLemma
<1>13. CASE WSConnected
  BY <1>13 DEF WSConnected, IInv, TypeOK, Fresh, Distinct, AnswerReachesAsker, RouteOf, RetryingHasHead
<1>14. CASE WSClosed
  BY <1>14 DEF WSClosed, IInv, TypeOK, Fresh, Distinct, AnswerReachesAsker, RouteOf, RetryingHasHead
<1>15. CASE UNCHANGED vars
  BY <1>15 DEF vars, IInv, TypeOK, Fresh, Distinct, AnswerReachesAsker, RouteOf, RetryingHasHead
<1> QED
  BY <1>3, <1>4, <1>5, <1>6, <1>7, <1>8, <1>9, <1>10, <1>11, <1>12, <1>13, <1>14, <1>15 DEF Next

-----------------------------------------------------------------------------
Known(id) == \E i \in DOMAIN subscriptions : subscriptions[i] = id

\* Subscriptions the server serves or is asked for.
Watched == served \cup {frame.id : frame \in {f \in wire : f.msg = "sub"}}

\* Nothing new is watched, and the list of subscriptions stays.
LEMMA StaysKnown ==
  ASSUME SubscriptionsKnown, Watched' \subseteq Watched, subscriptions' = subscriptions
  PROVE  SubscriptionsKnown'
  BY DEF SubscriptionsKnown, Watched

\* What is sent is no subscription.
LEMMA SendsNoSub ==
  ASSUME SubscriptionsKnown, NEW frame, frame.msg # "sub", Send(frame), UNCHANGED <<subscriptions, served>>
  PROVE  SubscriptionsKnown'
<1>1. Watched' \subseteq Watched
  BY DEF Send, Watched
<1> QED BY <1>1, StaysKnown

\* The id of what is subscribed to is appended, once or twice.
LEMMA SendsSub ==
  ASSUME TypeOK, SubscriptionsKnown, uid \in Id, NEW more \in Seq(Id), more # <<>>, more[1] = uid,
         subscriptions' = subscriptions \o more, UNCHANGED served,
         Send([msg |-> "sub", id |-> uid, asker |-> "nobody", about |-> uid])
  PROVE  SubscriptionsKnown'
<1>1. Watched' \subseteq Watched \cup {uid}
  BY DEF Send, Watched
<1>2. /\ Len(subscriptions) \in Nat /\ DOMAIN subscriptions = 1..Len(subscriptions)
      /\ subscriptions' \in Seq(Id) /\ DOMAIN subscriptions' = 1..Len(subscriptions')
      /\ \A i \in DOMAIN subscriptions : i \in DOMAIN subscriptions' /\ subscriptions'[i] = subscriptions[i]
      /\ Len(subscriptions) + 1 \in DOMAIN subscriptions'
      /\ subscriptions'[Len(subscriptions) + 1] = uid
  BY DEF TypeOK
<1>3. \A id : Known(id) => Known(id)'
  BY <1>2 DEF Known
<1>4. \A id : id = uid => Known(id)'
  BY <1>2 DEF Known
<1> QED BY <1>1, <1>3, <1>4 DEF SubscriptionsKnown, Known, Watched

LEMMA NextKnown == TypeOK /\ SubscriptionsKnown /\ [Next]_vars => SubscriptionsKnown'
<1> SUFFICES ASSUME TypeOK, SubscriptionsKnown, [Next]_vars PROVE SubscriptionsKnown' OBVIOUS
<1>1. TakeId => uid \in Id
  BY DEF TakeId, TypeOK, Id
<1>2. CASE Call("ShowDebug")
  BY <1>2, SendsNoSub DEF Call
<1>3. CASE OpenRoom
  BY <1>3, SendsNoSub DEF OpenRoom, CallPersistent
<1>4. CASE Subscribe
  <2>1. subscriptions' = subscriptions \o <<uid>> /\ <<uid>> \in Seq(Id) /\ uid \in Id
    BY <1>1, <1>4 DEF Subscribe, TypeOK
  <2> QED BY <1>4, <2>1, SendsSub DEF Subscribe
<1>5. CASE SubscribeRoomMessage
  <2>1. uid \in Id
    BY <1>1, <1>5 DEF SubscribeRoomMessage
  <2> DEFINE more == <<uid, uid>>
  <2>2. more \in Seq(Id) /\ more # <<>> /\ more[1] = uid
    BY <2>1
  <2>3. /\ subscriptions' = subscriptions \o more /\ UNCHANGED served
        /\ Send([msg |-> "sub", id |-> uid, asker |-> "nobody", about |-> uid])
    BY <1>5 DEF SubscribeRoomMessage
  <2> HIDE DEF more
  <2> QED BY <2>1, <2>2, <2>3, SendsSub
<1>6. ASSUME NEW i \in DOMAIN subscriptions, Unsubscribe(subscriptions[i]) PROVE SubscriptionsKnown'
  BY <1>6, SendsNoSub DEF Unsubscribe, CallPersistent
<1>7. CASE InvokeMethodAndRegister
  BY <1>7, SendsNoSub DEF InvokeMethodAndRegister
<1>8. CASE GenerateJsonObject
  BY <1>8, StaysKnown DEF GenerateJsonObject, Watched
<1>9. CASE Retry
  BY <1>9, SendsNoSub DEF Retry
<1>10. ASSUME NEW now \in BOOLEAN, LoginStatusChanged(now) PROVE SubscriptionsKnown'
  BY <1>10, StaysKnown DEF LoginStatusChanged, Watched
<1>11. ASSUME NEW frame \in wire, TextMessageReceived(frame) PROVE SubscriptionsKnown'
  <2>1. served' \subseteq Watched /\ wire' \subseteq wire /\ subscriptions' = subscriptions
    BY <1>11 DEF TextMessageReceived, Result, Ready, NoSub, Watched
  <2>2. Watched' \subseteq Watched
    BY <2>1 DEF Watched
  <2> QED BY <2>1, <2>2, StaysKnown
<1>12. CASE WSConnected
  BY <1>12, StaysKnown DEF WSConnected, Watched
<1>13. CASE WSClosed
  BY <1>13, StaysKnown DEF WSClosed, Watched
<1>14. CASE UNCHANGED vars
  BY <1>14, StaysKnown DEF vars, Watched
<1> QED
  BY <1>2, <1>3, <1>4, <1>5, <1>6, <1>7, <1>8, <1>9, <1>10, <1>11, <1>12, <1>13, <1>14 DEF Next

\* The hashes and the queue of a DDPClient only hold ids that were given out.
THEOREM TypeCorrect == Spec => []TypeOK
<1>1. IInv => TypeOK
  BY DEF IInv
<1> QED BY <1>1, InitIInv, NextIInv, PTL DEF Spec

\* In whatever order DDP answers come, each reaches the one who asked.
THEOREM AnswersRouted == Spec => []AnswerReachesAsker
<1>1. IInv => AnswerReachesAsker
  BY DEF IInv
<1> QED BY <1>1, InitIInv, NextIInv, PTL DEF Spec

\* The destructor's list holds all that the server serves or was asked to.
THEOREM SubscriptionsAreKnown == Spec => []SubscriptionsKnown
<1>1. Init => SubscriptionsKnown
  BY DEF Init, SubscriptionsKnown
<1>2. Spec => []TypeOK
  BY TypeCorrect
<1> QED BY <1>1, <1>2, NextKnown, PTL DEF Spec

-----------------------------------------------------------------------------
(***************************************************************************)
(* What statuses under way say of a user in a room, and how that changes   *)
(* as one is appended or taken.                                            *)
(***************************************************************************)
About(status, user, room) == status.user = user /\ status.room = room

Mentions(s, user, room) == \E i \in DOMAIN s : About(s[i], user, room)

LastSays(s, user, room, typing) ==
  \E i \in DOMAIN s : /\ About(s[i], user, room)
                      /\ s[i].typing = typing
                      /\ \A k \in DOMAIN s : k > i => ~About(s[k], user, room)

LEMMA PlacesLemma ==
  ASSUME NEW s, NEW user, NEW room
  PROVE  <<user, room>> \in Places(s) <=> Mentions(s, user, room)
BY DEF Places, Mentions, About

LEMMA StatusAdded ==
  ASSUME NEW s \in Seq(Status), NEW status \in Status, NEW t, t = Append(s, status),
         NEW user, NEW room
  PROVE  /\ Mentions(t, user, room) <=> Mentions(s, user, room) \/ About(status, user, room)
         /\ About(status, user, room) => LastSays(t, user, room, status.typing)
         /\ \A typing : ~About(status, user, room) /\ LastSays(s, user, room, typing)
                          => LastSays(t, user, room, typing)
<1>1. /\ Len(s) \in Nat
      /\ DOMAIN s = 1..Len(s) /\ DOMAIN t = 1..(Len(s) + 1)
      /\ \A i \in 1..Len(s) : t[i] = s[i]
      /\ t[Len(s) + 1] = status
  OBVIOUS
<1>2. Mentions(t, user, room) <=> Mentions(s, user, room) \/ About(status, user, room)
  <2>1. \A i \in DOMAIN s : i \in DOMAIN t /\ t[i] = s[i]
    BY <1>1
  <2>2. Len(s) + 1 \in DOMAIN t /\ \A i \in DOMAIN t : i \in DOMAIN s \/ i = Len(s) + 1
    BY <1>1
  <2> QED BY <1>1, <2>1, <2>2 DEF Mentions
<1>3. ASSUME About(status, user, room) PROVE LastSays(t, user, room, status.typing)
  <2>1. Len(s) + 1 \in DOMAIN t /\ \A k \in DOMAIN t : ~(k > Len(s) + 1)
    BY <1>1
  <2> QED BY <1>1, <1>3, <2>1 DEF LastSays
<1>4. ASSUME NEW typing, ~About(status, user, room), LastSays(s, user, room, typing)
      PROVE  LastSays(t, user, room, typing)
  <2>1. PICK i \in DOMAIN s : /\ About(s[i], user, room)
                              /\ s[i].typing = typing
                              /\ \A k \in DOMAIN s : k > i => ~About(s[k], user, room)
    BY <1>4 DEF LastSays
  <2>2. i \in DOMAIN t /\ t[i] = s[i]
    BY <1>1
  <2>3. ASSUME NEW k \in DOMAIN t, k > i PROVE ~About(t[k], user, room)
    BY <1>1, <1>4, <2>1, <2>3
  <2> QED BY <2>1, <2>2, <2>3 DEF LastSays
<1> QED BY <1>2, <1>3, <1>4

LEMMA StatusTaken ==
  ASSUME NEW s \in Seq(Status), s # <<>>, NEW user, NEW room
  PROVE  /\ ~About(Head(s), user, room) =>
              /\ Mentions(Tail(s), user, room) <=> Mentions(s, user, room)
              /\ \A typing : LastSays(s, user, room, typing) => LastSays(Tail(s), user, room, typing)
         /\ About(Head(s), user, room) =>
              /\ Mentions(s, user, room)
              /\ \A typing : LastSays(s, user, room, typing) =>
                   IF Mentions(Tail(s), user, room) THEN LastSays(Tail(s), user, room, typing)
                   ELSE Head(s).typing = typing
<1> DEFINE t == Tail(s)
<1>1. /\ Len(s) \in Nat \ {0}
      /\ DOMAIN s = 1..Len(s) /\ DOMAIN t = 1..(Len(s) - 1)
      /\ \A i \in 1..(Len(s) - 1) : t[i] = s[i + 1]
      /\ s[1] = Head(s)
  OBVIOUS
<1> HIDE DEF t
<1>2. \A i \in DOMAIN t : i + 1 \in DOMAIN s /\ t[i] = s[i + 1]
  BY <1>1
<1>3. \A i \in DOMAIN s : i # 1 => i - 1 \in DOMAIN t /\ t[i - 1] = s[i]
  BY <1>1
<1>4. ~About(Head(s), user, room) => (Mentions(t, user, room) <=> Mentions(s, user, room))
  BY <1>1, <1>2, <1>3 DEF Mentions
<1>5. About(Head(s), user, room) => Mentions(s, user, room)
  BY <1>1 DEF Mentions
<1>6. ASSUME NEW typing, LastSays(s, user, room, typing)
      PROVE  /\ LastSays(t, user, room, typing) \/ About(Head(s), user, room)
             /\ Mentions(t, user, room) => LastSays(t, user, room, typing)
             /\ LastSays(t, user, room, typing) \/ Head(s).typing = typing
  <2>1. PICK i \in DOMAIN s : /\ About(s[i], user, room)
                              /\ s[i].typing = typing
                              /\ \A k \in DOMAIN s : k > i => ~About(s[k], user, room)
    BY <1>6 DEF LastSays
  <2>2. CASE i = 1
    <3>1. ~Mentions(t, user, room)
      BY <1>1, <1>2, <2>1, <2>2 DEF Mentions
    <3> QED BY <1>1, <2>1, <2>2, <3>1
  <2>3. CASE i # 1
    <3>1. ASSUME NEW k \in DOMAIN t, k > i - 1 PROVE ~About(t[k], user, room)
      BY <1>1, <1>2, <2>1, <3>1
    <3>2. i - 1 \in DOMAIN t /\ t[i - 1] = s[i]
      BY <1>3, <2>3
    <3> QED BY <2>1, <3>1, <3>2 DEF LastSays
  <2> QED BY <2>2, <2>3
<1>7. \A typing : LastSays(t, user, room, typing) => Mentions(t, user, room)
  BY DEF LastSays, Mentions
<1> QED BY <1>4, <1>5, <1>6, <1>7 DEF t

LEMMA OneMore ==
  ASSUME NEW s \in Seq(Status), NEW status \in Status
  PROVE  s \o <<status>> = Append(s, status)
OBVIOUS

\* Statuses about other users or rooms are appended.
LEMMA OthersAdded ==
  ASSUME NEW s \in Seq(Status), NEW new \in Seq(Status), NEW t, t = s \o new,
         NEW user, NEW room, ~Mentions(new, user, room)
  PROVE  /\ Mentions(t, user, room) <=> Mentions(s, user, room)
         /\ \A typing : LastSays(s, user, room, typing) => LastSays(t, user, room, typing)
<1>1. /\ Len(s) \in Nat /\ Len(new) \in Nat
      /\ DOMAIN s = 1..Len(s) /\ DOMAIN new = 1..Len(new) /\ DOMAIN t = 1..(Len(s) + Len(new))
      /\ \A i \in 1..(Len(s) + Len(new)) : t[i] = IF i <= Len(s) THEN s[i] ELSE new[i - Len(s)]
  BY ConcatProperties
<1>2. \A i \in DOMAIN s : i \in DOMAIN t /\ t[i] = s[i]
  BY <1>1
<1>3. ASSUME NEW i \in DOMAIN t PROVE i \in DOMAIN s \/ ~About(t[i], user, room)
  <2>1. CASE i <= Len(s)
    BY <1>1, <2>1
  <2>2. CASE ~(i <= Len(s))
    <3>1. i - Len(s) \in DOMAIN new /\ t[i] = new[i - Len(s)]
      BY <1>1, <2>2
    <3> QED BY <3>1 DEF Mentions
  <2> QED BY <2>1, <2>2
<1>4. Mentions(t, user, room) <=> Mentions(s, user, room)
  BY <1>2, <1>3 DEF Mentions
<1>5. ASSUME NEW typing, LastSays(s, user, room, typing) PROVE LastSays(t, user, room, typing)
  <2>1. PICK i \in DOMAIN s : /\ About(s[i], user, room)
                              /\ s[i].typing = typing
                              /\ \A k \in DOMAIN s : k > i => ~About(s[k], user, room)
    BY <1>5 DEF LastSays
  <2>2. ASSUME NEW k \in DOMAIN t, k > i PROVE ~About(t[k], user, room)
    BY <1>2, <1>3, <2>1, <2>2
  <2> QED BY <1>2, <2>1, <2>2 DEF LastSays
<1> QED BY <1>4, <1>5

-----------------------------------------------------------------------------
(***************************************************************************)
(* The types, and the senders.                                             *)
(***************************************************************************)
\* Who types, or has a timer, types in a room; only their own statuses are on
\* their way, and none if their socket is down.
SenderOK(user) ==
  /\ mTypingInprogress[user] => mRoomId[user] \in Room
  /\ mTimer[user] => mTypingInprogress[user]
  /\ \A i \in DOMAIN sent[user] : sent[user][i].user = user
  /\ user \notin online => sent[user] = <<>>

Senders == \A user \in User : SenderOK(user)

TypingInv == TypingTypeOK /\ Senders /\ StatusBarIsOfRoom

\* Statuses of a user that are sent, or get lost as the socket is down.
LEMMA Informed ==
  ASSUME TypingTypeOK, Senders, NEW user \in User, NEW statuses \in Seq(Status),
         \A i \in DOMAIN statuses : statuses[i].user = user,
         NEW stale \in SUBSET (User \X Room), informTypingStatus(user, statuses, stale)
  PROVE  /\ sent' \in [User -> Seq(Status)]
         /\ missed' \subseteq User \X Room /\ misplaced' \subseteq User \X Room
         /\ \A other \in User : other # user => sent'[other] = sent[other]
         /\ sent'[user] = IF user \in online THEN sent[user] \o statuses ELSE sent[user]
         /\ \A i \in DOMAIN sent'[user] : sent'[user][i].user = user
<1>1. sent \in [User -> Seq(Status)] /\ sent[user] \in Seq(Status) /\ missed \subseteq User \X Room
  BY DEF TypingTypeOK
<1>2. Places(statuses) \subseteq User \X Room
  <2>1. \A i \in DOMAIN statuses : statuses[i] \in Status
    OBVIOUS
  <2>2. \A i \in DOMAIN statuses : statuses[i].user \in User /\ statuses[i].room \in Room
    BY <2>1 DEF Status
  <2> QED BY <2>2 DEF Places
<1>3. misplaced' \subseteq User \X Room
  BY DEF informTypingStatus, TypingTypeOK
<1>4. CASE user \in online
  <2>1. sent' = [sent EXCEPT ![user] = sent[user] \o statuses] /\ missed' = missed \ Places(statuses)
    BY <1>4 DEF informTypingStatus
  <2>2. sent[user] \o statuses \in Seq(Status)
    BY <1>1
  <2>3. \A i \in DOMAIN (sent[user] \o statuses) : (sent[user] \o statuses)[i].user = user
    <3>1. \A i \in DOMAIN sent[user] : sent[user][i].user = user
      BY DEF Senders, SenderOK
    <3>2. PICK s \in Seq(Status) : s = sent[user]
      BY <1>1
    <3>3. /\ Len(s \o statuses) = Len(s) + Len(statuses)
          /\ \A i \in 1..(Len(s) + Len(statuses)) :
               (s \o statuses)[i] = IF i <= Len(s) THEN s[i] ELSE statuses[i - Len(s)]
          /\ DOMAIN (s \o statuses) = 1..(Len(s) + Len(statuses))
      BY ConcatProperties
    <3>4. \A i \in 1..(Len(s) + Len(statuses)) :
            IF i <= Len(s) THEN i \in DOMAIN s ELSE i - Len(s) \in DOMAIN statuses
      OBVIOUS
    <3> QED BY <3>1, <3>2, <3>3, <3>4
  <2> QED BY <1>1, <1>3, <1>4, <2>1, <2>2, <2>3
<1>5. CASE user \notin online
  <2>1. sent' = sent /\ missed' \subseteq missed \cup Places(statuses)
    BY <1>5 DEF informTypingStatus, Miss
  <2> QED BY <1>1, <1>2, <1>3, <1>5, <2>1 DEF Senders, SenderOK
<1> QED BY <1>4, <1>5

LEMMA StatusTypes ==
  ASSUME NEW user \in User, NEW room \in Room
  PROVE  /\ Typing(user, room) \in Status /\ Stopped(user, room) \in Status
         /\ About(Typing(user, room), user, room) /\ About(Stopped(user, room), user, room)
         /\ Typing(user, room).typing = TRUE /\ Stopped(user, room).typing = FALSE
BY DEF Typing, Stopped, Status, About

LEMMA PlacesTypes ==
  ASSUME NEW statuses \in Seq(Status)
  PROVE  Places(statuses) \subseteq User \X Room
<1>1. \A i \in DOMAIN statuses : statuses[i] \in Status
  OBVIOUS
<1>2. \A i \in DOMAIN statuses : statuses[i].user \in User /\ statuses[i].room \in Room
  BY <1>1 DEF Status
<1> QED BY <1>2 DEF Places

\* What is sent as a text changes or the timer fires: that its user types in
\* the room, or stopped, or nothing if that is known.  What was last said of a
\* room they typed in before, or is said of any other, is stale.
TextSent(user, room, statuses, stale, inProgress) ==
  /\ \A i \in DOMAIN statuses : statuses[i].user = user
  /\ informTypingStatus(user, statuses, stale)
  /\ mTypingInprogress' = [mTypingInprogress EXCEPT ![user] = inProgress]
  /\ mTimer' = [mTimer EXCEPT ![user] = inProgress]
  /\ \A other \in Room \ {room} :
       Mentions(statuses, user, other) \/ IsTyping(user, other) => <<user, other>> \in stale
  /\ \/ <<user, room>> \in stale
     \/ statuses = <<>> /\ inProgress /\ IsTyping(user, room)
     \/ \E status \in Status : /\ About(status, user, room) /\ status.typing = inProgress
                                 /\ statuses = <<status>>

\* A single status about the room.
LEMMA OneStatus ==
  ASSUME NEW user \in User, NEW room \in Room, NEW status \in Status, About(status, user, room),
         NEW stale, informTypingStatus(user, <<status>>, stale),
         NEW inProgress \in BOOLEAN, status.typing = inProgress, SetTyping(user, inProgress),
         \A other \in Room \ {room} : IsTyping(user, other) => <<user, other>> \in stale
  PROVE  <<status>> \in Seq(Status) /\ TextSent(user, room, <<status>>, stale, inProgress)
<1>1. <<status>> \in Seq(Status) /\ \A i \in DOMAIN <<status>> : <<status>>[i].user = user
  BY DEF About
<1>2. \A other \in Room \ {room} : ~Mentions(<<status>>, user, other)
  BY DEF Mentions, About
<1> QED BY <1>1, <1>2 DEF SetTyping, TextSent

LEMMA TextStatuses ==
  ASSUME TypingTypeOK, Senders, NEW user \in User, NEW room \in Room,
         NEW emptyString \in BOOLEAN, textNotificationChanged(user, room, emptyString)
  PROVE  \E statuses \in Seq(Status), stale \in SUBSET (User \X Room), inProgress \in BOOLEAN :
           TextSent(user, room, statuses, stale, inProgress)
<1>1. mTypingInprogress[user] => mRoomId[user] \in Room
  BY DEF Senders, SenderOK
<1>2. CASE mTypingInprogress[user] /\ emptyString /\ SetTyping(user, FALSE)
           /\ informTypingStatus(user, <<Stopped(user, room)>>, Left(user, room))
  <2>1. PICK status \in Status : status = Stopped(user, room)
    BY StatusTypes
  <2>2. About(status, user, room) /\ status.typing = FALSE
    BY <2>1, StatusTypes
  <2>3. PICK stale \in SUBSET (User \X Room) : stale = Left(user, room)
    BY <1>1, <1>2 DEF Left
  <2>4. \A other \in Room \ {room} : IsTyping(user, other) => <<user, other>> \in stale
    BY <2>3 DEF Left, IsTyping
  <2>5. informTypingStatus(user, <<status>>, stale)
    BY <1>2, <2>1, <2>3
  <2> QED BY <1>2, <2>2, <2>4, <2>5, OneStatus
<1>3. CASE mTypingInprogress[user] /\ ~emptyString /\ SetTyping(user, TRUE)
           /\ LET statuses == IF mRoomId[user] = room THEN <<>>
                              ELSE <<Stopped(user, room), Typing(user, mRoomId[user])>>
              IN  informTypingStatus(user, statuses, Places(statuses))
  <2>1. CASE mRoomId[user] = room
    <3>1. <<>> \in Seq(Status) /\ \A i \in DOMAIN <<>> : <<>>[i].user = user
      OBVIOUS
    <3>2. Places(<<>>) \in SUBSET (User \X Room) /\ informTypingStatus(user, <<>>, Places(<<>>))
      BY <1>3, <2>1 DEF Places
    <3>3. \A other \in Room \ {room} : ~Mentions(<<>>, user, other) /\ ~IsTyping(user, other)
      BY <2>1 DEF Mentions, IsTyping
    <3>4. IsTyping(user, room)
      BY <1>3, <2>1 DEF IsTyping
    <3>5. TextSent(user, room, <<>>, Places(<<>>), TRUE)
      BY <1>3, <3>1, <3>2, <3>3, <3>4 DEF SetTyping, TextSent
    <3> QED BY <3>1, <3>2, <3>5
  <2>2. CASE mRoomId[user] # room
    <3>1. mRoomId[user] \in Room
      BY <1>1, <1>3
    <3>2. PICK stopped \in Status : stopped = Stopped(user, room)
      BY StatusTypes
    <3>3. PICK typing \in Status : typing = Typing(user, mRoomId[user])
      BY <3>1, StatusTypes
    <3>4. About(stopped, user, room) /\ About(typing, user, mRoomId[user])
      BY <3>1, <3>2, <3>3, StatusTypes
    <3>5. PICK statuses \in Seq(Status) : statuses = <<stopped, typing>>
      <4>1. <<stopped, typing>> \in Seq(Status)
        OBVIOUS
      <4> QED BY <4>1
    <3>6. /\ DOMAIN statuses = {1, 2} /\ statuses[1] = stopped /\ statuses[2] = typing
          /\ \A i \in DOMAIN statuses : statuses[i].user = user
      BY <3>4, <3>5 DEF About
    <3>7. PICK stale \in SUBSET (User \X Room) : stale = Places(statuses)
      BY PlacesTypes
    <3>8. informTypingStatus(user, statuses, stale)
      BY <1>3, <2>2, <3>2, <3>3, <3>5, <3>7
    <3>9. Mentions(statuses, user, room) /\ Mentions(statuses, user, mRoomId[user])
      BY <3>4, <3>6 DEF Mentions
    <3>10. \A other : Mentions(statuses, user, other) => <<user, other>> \in stale
      BY <3>7, PlacesLemma
    <3>11. \A other : IsTyping(user, other) => <<user, other>> \in stale
      BY <3>9, <3>10 DEF IsTyping
    <3>12. TextSent(user, room, statuses, stale, TRUE)
      BY <1>3, <3>6, <3>8, <3>9, <3>10, <3>11 DEF SetTyping, TextSent
    <3> QED BY <3>12
  <2> QED BY <2>1, <2>2
<1>4. CASE ~mTypingInprogress[user] /\ SetTyping(user, TRUE)
           /\ informTypingStatus(user, <<Typing(user, room)>>, {})
  <2>1. PICK status \in Status : status = Typing(user, room)
    BY StatusTypes
  <2>2. About(status, user, room) /\ status.typing = TRUE
    BY <2>1, StatusTypes
  <2>3. \A other \in Room \ {room} : IsTyping(user, other) => <<user, other>> \in {}
    BY <1>4 DEF IsTyping
  <2>4. {} \in SUBSET (User \X Room) /\ informTypingStatus(user, <<status>>, {})
    BY <1>4, <2>1
  <2> QED BY <1>4, <2>2, <2>3, <2>4, OneStatus
<1> QED BY <1>2, <1>3, <1>4 DEF textNotificationChanged

LEMMA TimeoutStatus ==
  ASSUME TypingTypeOK, Senders, NEW user \in User, slotTimeout(user)
  PROVE  /\ mRoomId[user] \in Room
         /\ mRoomId' = [mRoomId EXCEPT ![user] = mRoomId[user]]
         /\ \E statuses \in Seq(Status), stale \in SUBSET (User \X Room), inProgress \in BOOLEAN :
              TextSent(user, mRoomId[user], statuses, stale, inProgress)
<1>1. PICK room \in Room : room = mRoomId[user]
  BY DEF slotTimeout, Senders, SenderOK
<1>2. PICK status \in Status : status = Stopped(user, room)
  BY StatusTypes
<1>3. About(status, user, room) /\ status.typing = FALSE
  BY <1>2, StatusTypes
<1>4. informTypingStatus(user, <<status>>, {}) /\ SetTyping(user, FALSE) /\ mRoomId' = mRoomId
  BY <1>1, <1>2 DEF slotTimeout
<1>5. \A other \in Room \ {room} : IsTyping(user, other) => <<user, other>> \in {}
  BY <1>1 DEF IsTyping
<1>6. <<status>> \in Seq(Status) /\ TextSent(user, room, <<status>>, {}, FALSE)
  BY <1>3, <1>4, <1>5, OneStatus
<1>7. mRoomId' = [mRoomId EXCEPT ![user] = mRoomId[user]]
  BY <1>4 DEF TypingTypeOK
<1>8. {} \in SUBSET (User \X Room) /\ FALSE \in BOOLEAN
  OBVIOUS
<1> QED BY <1>1, <1>6, <1>7, <1>8

LEMMA TypingBegins ==
  ASSUME TypingInit
  PROVE  TypingInv
<1>1. TypingTypeOK
  <2>1. sent \in [User -> Seq(Status)] /\ relayed \in Seq(Status)
    BY DEF TypingInit
  <2>2. mTypingInprogress \in [User -> BOOLEAN] /\ mTimer \in [User -> BOOLEAN]
        /\ mRoomId \in [User -> Room \cup {"none"}]
        /\ mMapTypingNotifications \in [Room -> SUBSET User]
    BY DEF TypingInit
  <2>3. typed \in 0..MaxTyped /\ closed \in 0..MaxClosed
    BY TypingBoundAssumption DEF TypingInit
  <2> QED BY <2>1, <2>2, <2>3 DEF TypingInit, TypingTypeOK
<1>2. Senders
  BY DEF Senders, SenderOK, TypingInit
<1>3. StatusBarIsOfRoom
  BY DEF TypingInit, StatusBarIsOfRoom
<1> QED BY <1>1, <1>2, <1>3 DEF TypingInv

LEMMA TextTypes ==
  ASSUME TypingInv, NEW user \in User,
         NEW room \in Room, NEW emptyString \in BOOLEAN,
         textNotificationChanged(user, room, emptyString)
  PROVE  TypingInv'
<1> USE DEF TypingInv
<1>0. TypingTypeOK /\ Senders
  OBVIOUS
<1>1. PICK statuses \in Seq(Status), stale \in SUBSET (User \X Room), inProgress \in BOOLEAN :
        TextSent(user, room, statuses, stale, inProgress)
  BY <1>0, TextStatuses
<1>2. /\ sent' \in [User -> Seq(Status)]
      /\ missed' \subseteq User \X Room /\ misplaced' \subseteq User \X Room
      /\ \A other \in User : other # user => sent'[other] = sent[other]
      /\ sent'[user] = IF user \in online THEN sent[user] \o statuses ELSE sent[user]
      /\ \A i \in DOMAIN sent'[user] : sent'[user][i].user = user
  BY <1>1, Informed DEF TextSent
<1>3. /\ UNCHANGED <<online, opened, streams, relayed, mMapTypingNotifications, roomId, statusBar, closed>>
      /\ typed' = typed + 1 /\ typed < MaxTyped /\ mRoomId' = [mRoomId EXCEPT ![user] = room]
  BY DEF textNotificationChanged, listener
<1>4. typed' \in 0..MaxTyped
  BY <1>3, TypingBoundAssumption DEF TypingTypeOK
<1>5. mRoomId' \in [User -> Room \cup {"none"}]
  BY <1>3 DEF TypingTypeOK
<1>6. mTypingInprogress' \in [User -> BOOLEAN] /\ mTimer' \in [User -> BOOLEAN]
  BY <1>1 DEF TypingTypeOK, TextSent
<1>7. TypingTypeOK'
  BY <1>2, <1>3, <1>4, <1>5, <1>6 DEF TypingTypeOK
<1>8. ASSUME NEW other \in User PROVE SenderOK(other)'
  <2>1. CASE other # user
    BY <1>1, <1>2, <1>3, <2>1 DEF Senders, SenderOK, TypingTypeOK, TextSent
  <2>2. CASE other = user
    <3>1. mTypingInprogress'[user] = inProgress /\ mTimer'[user] = inProgress /\ mRoomId'[user] = room
      BY <1>1, <1>3 DEF TypingTypeOK, TextSent
    <3>2. user \notin online => sent'[user] = <<>>
      BY <1>2 DEF Senders, SenderOK
    <3> QED BY <1>2, <1>3, <2>2, <3>1, <3>2 DEF SenderOK
  <2> QED BY <2>1, <2>2
<1>9. StatusBarIsOfRoom'
  BY <1>3 DEF StatusBarIsOfRoom, Names
<1> QED BY <1>7, <1>8, <1>9 DEF Senders

LEMMA TimeoutTypes ==
  ASSUME TypingInv, NEW user \in User, slotTimeout(user)
  PROVE  TypingInv'
<1> USE DEF TypingInv
<1>1. mRoomId[user] \in Room
  BY DEF slotTimeout, Senders, SenderOK
<1>2. PICK status \in Status : status = Stopped(user, mRoomId[user])
  BY <1>1, StatusTypes
<1>3. status.user = user
  BY <1>2 DEF Stopped
<1>4. informTypingStatus(user, <<status>>, {}) /\ {} \in SUBSET (User \X Room)
  BY <1>2 DEF slotTimeout
<1>5. <<status>> \in Seq(Status) /\ \A i \in DOMAIN <<status>> : <<status>>[i].user = user
  BY <1>3
<1>6. /\ sent' \in [User -> Seq(Status)]
      /\ missed' \subseteq User \X Room /\ misplaced' \subseteq User \X Room
      /\ \A other \in User : other # user => sent'[other] = sent[other]
      /\ sent'[user] = IF user \in online THEN sent[user] \o <<status>> ELSE sent[user]
      /\ \A i \in DOMAIN sent'[user] : sent'[user][i].user = user
  BY <1>4, <1>5, Informed
<1>7. /\ UNCHANGED <<mRoomId, online, opened, streams, relayed, mMapTypingNotifications, roomId,
                     statusBar, typed, closed>>
      /\ mTypingInprogress' = [mTypingInprogress EXCEPT ![user] = FALSE]
      /\ mTimer' = [mTimer EXCEPT ![user] = FALSE]
  BY DEF slotTimeout, SetTyping, listener
<1>8. mTypingInprogress' \in [User -> BOOLEAN] /\ mTimer' \in [User -> BOOLEAN]
  BY <1>7 DEF TypingTypeOK
<1>9. TypingTypeOK'
  BY <1>6, <1>7, <1>8 DEF TypingTypeOK
<1>10. ASSUME NEW other \in User PROVE SenderOK(other)'
  <2>1. CASE other # user
    BY <1>6, <1>7, <2>1 DEF Senders, SenderOK, TypingTypeOK
  <2>2. CASE other = user
    <3>1. mTypingInprogress'[user] = FALSE /\ mTimer'[user] = FALSE
      BY <1>7 DEF TypingTypeOK
    <3>2. user \notin online => sent'[user] = <<>>
      BY <1>6 DEF Senders, SenderOK
    <3> QED BY <1>6, <1>7, <2>2, <3>1, <3>2 DEF Senders, SenderOK
  <2> QED BY <2>1, <2>2
<1>11. StatusBarIsOfRoom'
  BY <1>7 DEF StatusBarIsOfRoom, Names
<1> QED BY <1>9, <1>10, <1>11 DEF Senders

LEMMA HeadStatus ==
  ASSUME NEW s \in Seq(Status), s # <<>>
  PROVE  /\ Head(s) \in Status /\ Tail(s) \in Seq(Status)
         /\ \A i \in DOMAIN Tail(s) : i + 1 \in DOMAIN s /\ Tail(s)[i] = s[i + 1]
         /\ 1 \in DOMAIN s /\ Head(s) = s[1]
OBVIOUS

\* A status is relayed, or nobody listens to its room.
LEMMA Relayed ==
  ASSUME TypingTypeOK, NEW user \in User, Relay(user)
  PROVE  /\ sent[user] \in Seq(Status) /\ sent[user] # <<>>
         /\ \A other \in User : other # user => sent'[other] = sent[other]
         /\ sent'[user] = Tail(sent[user])
         /\ sent' \in [User -> Seq(Status)]
         /\ \/ relayed' = Append(relayed, Head(sent[user])) /\ UNCHANGED missed
            \/ UNCHANGED relayed /\ Miss(<<Head(sent[user])>>)
         /\ relayed' \in Seq(Status)
         /\ missed' \subseteq User \X Room
         /\ UNCHANGED <<mTypingInprogress, mTimer, mRoomId, online, opened, streams,
                        mMapTypingNotifications, roomId, statusBar, misplaced, typed, closed>>
<1>1. sent \in [User -> Seq(Status)] /\ sent[user] \in Seq(Status) /\ sent[user] # <<>>
  BY DEF TypingTypeOK, Relay
<1>2. PICK s \in Seq(Status) : s = sent[user] /\ s # <<>>
  BY <1>1
<1>3. Head(s) \in Status /\ Tail(s) \in Seq(Status)
  BY <1>2, HeadStatus
<1>4. sent' = [sent EXCEPT ![user] = Tail(s)]
  BY <1>2 DEF Relay
<1>10. /\ sent' \in [User -> Seq(Status)] /\ sent'[user] = Tail(s)
       /\ \A other \in User : other # user => sent'[other] = sent[other]
  BY <1>1, <1>3, <1>4
<1>5. \/ relayed' = Append(relayed, Head(s)) /\ UNCHANGED missed
      \/ UNCHANGED relayed /\ Miss(<<Head(s)>>)
  BY <1>2 DEF Relay
<1>6. relayed' \in Seq(Status)
  <2>1. PICK status \in Status : status = Head(s)
    BY <1>3
  <2>2. relayed' = Append(relayed, status) \/ relayed' = relayed
    BY <1>5, <2>1
  <2>3. relayed \in Seq(Status)
    BY DEF TypingTypeOK
  <2>4. Append(relayed, status) \in Seq(Status)
    BY <2>3, AppendProperties
  <2> QED BY <2>2, <2>3, <2>4, Zenon
<1>7. Places(<<Head(s)>>) \subseteq User \X Room
  <2>1. <<Head(s)>> \in Seq(Status)
    BY <1>3
  <2> QED BY <2>1, PlacesTypes
<1>8. missed' \subseteq User \X Room
  BY <1>5, <1>7 DEF TypingTypeOK, Miss
<1>9. UNCHANGED <<mTypingInprogress, mTimer, mRoomId, online, opened, streams,
                  mMapTypingNotifications, roomId, statusBar, misplaced, typed, closed>>
  BY DEF Relay, sender, listener
<1> QED BY <1>2, <1>5, <1>6, <1>8, <1>9, <1>10, Zenon

LEMMA RelayTypes ==
  ASSUME TypingInv, NEW user \in User, Relay(user)
  PROVE  TypingInv'
<1> USE DEF TypingInv
<1>1. /\ sent[user] \in Seq(Status) /\ sent[user] # <<>>
      /\ \A other \in User : other # user => sent'[other] = sent[other]
      /\ sent'[user] = Tail(sent[user])
      /\ sent' \in [User -> Seq(Status)]
      /\ relayed' \in Seq(Status)
      /\ missed' \subseteq User \X Room
      /\ UNCHANGED <<mTypingInprogress, mTimer, mRoomId, online, opened, streams,
                     mMapTypingNotifications, roomId, statusBar, misplaced, typed, closed>>
  BY Relayed
<1>2. TypingTypeOK'
  BY <1>1 DEF TypingTypeOK
<1>3. ASSUME NEW other \in User PROVE SenderOK(other)'
  <2>1. CASE other # user
    BY <1>1, <2>1 DEF Senders, SenderOK
  <2>2. CASE other = user
    <3>1. \A i \in DOMAIN sent'[user] : sent'[user][i].user = user
      <4>1. \A i \in DOMAIN Tail(sent[user]) :
              i + 1 \in DOMAIN sent[user] /\ Tail(sent[user])[i] = sent[user][i + 1]
        BY <1>1, HeadStatus
      <4> QED BY <1>1, <4>1 DEF Senders, SenderOK
    <3>2. user \in online
      BY <1>1 DEF Senders, SenderOK
    <3> QED BY <1>1, <2>2, <3>1, <3>2 DEF Senders, SenderOK
  <2> QED BY <2>1, <2>2
<1>4. StatusBarIsOfRoom'
  BY <1>1 DEF StatusBarIsOfRoom, Names
<1> QED BY <1>2, <1>3, <1>4 DEF Senders

LEMMA CloseTypes ==
  ASSUME TypingInv, NEW user \in User, UserClosed(user)
  PROVE  TypingInv'
<1> USE DEF TypingInv
<1>1. /\ online' = online \ {user} /\ sent' = [sent EXCEPT ![user] = <<>>]
      /\ closed' = closed + 1 /\ closed < MaxClosed
      /\ missed' \subseteq missed \cup Places(sent[user])
      /\ UNCHANGED <<mTypingInprogress, mTimer, mRoomId, opened, streams, relayed,
                     mMapTypingNotifications, roomId, statusBar, misplaced, typed>>
  BY DEF UserClosed, Miss, sender, listener
<1>2. closed' \in 0..MaxClosed
  BY <1>1, TypingBoundAssumption DEF TypingTypeOK
<1>3. sent[user] \in Seq(Status) /\ sent' \in [User -> Seq(Status)]
  BY <1>1 DEF TypingTypeOK
<1>4. missed' \subseteq User \X Room
  BY <1>1, <1>3, PlacesTypes DEF TypingTypeOK
<1>5. TypingTypeOK'
  BY <1>1, <1>2, <1>3, <1>4 DEF TypingTypeOK
<1>6. ASSUME NEW other \in User PROVE SenderOK(other)'
  <2>1. sent'[other] = IF other = user THEN <<>> ELSE sent[other]
    BY <1>1 DEF TypingTypeOK
  <2>2. \A i \in DOMAIN sent'[other] : sent'[other][i].user = other
    BY <2>1 DEF Senders, SenderOK
  <2> QED BY <1>1, <2>1, <2>2 DEF Senders, SenderOK
<1>7. StatusBarIsOfRoom'
  BY <1>1 DEF StatusBarIsOfRoom, Names
<1> QED BY <1>5, <1>6, <1>7 DEF Senders

LEMMA ListenerTypes ==
  ASSUME TypingInv, ListenerClosed
  PROVE  TypingInv'
<1> USE DEF TypingInv
<1>1. /\ relayed' = <<>> /\ opened' = {} /\ streams' = {}
      /\ closed' = closed + 1 /\ closed < MaxClosed
      /\ missed' \subseteq missed \cup Places(relayed)
      /\ UNCHANGED <<mTypingInprogress, mTimer, mRoomId, online, sent,
                     mMapTypingNotifications, roomId, statusBar, misplaced, typed>>
  BY DEF ListenerClosed, Miss, sender, listener
<1>2. closed' \in 0..MaxClosed /\ relayed' \in Seq(Status)
  BY <1>1, TypingBoundAssumption DEF TypingTypeOK
<1>3. missed' \subseteq User \X Room
  BY <1>1, PlacesTypes DEF TypingTypeOK
<1>4. TypingTypeOK'
  BY <1>1, <1>2, <1>3 DEF TypingTypeOK
<1>5. Senders' /\ StatusBarIsOfRoom'
  BY <1>1 DEF Senders, SenderOK, StatusBarIsOfRoom, Names
<1> QED BY <1>4, <1>5

\* Of the names, only the room's that a status is about change, and the window
\* shows them if it shows that room.
LEMMA Inserted ==
  ASSUME TypingTypeOK, NEW status \in Status, insertTypingNotification(status)
  PROVE  /\ mMapTypingNotifications' \in [Room -> SUBSET User]
         /\ \A user \in User, room \in Room :
              IF About(status, user, room) THEN Shown(user, room)' <=> status.typing
              ELSE Shown(user, room)' <=> Shown(user, room)
         /\ \/ UNCHANGED <<mMapTypingNotifications, statusBar>>
            \/ \E names \in SUBSET User :
                 /\ mMapTypingNotifications' =
                      [mMapTypingNotifications EXCEPT ![status.room] = names]
                 /\ statusBar' = IF roomId = status.room THEN names ELSE statusBar
<1>1. status.user \in User /\ status.room \in Room /\ status.typing \in BOOLEAN
  BY DEF Status
<1>2. mMapTypingNotifications \in [Room -> SUBSET User]
  BY DEF TypingTypeOK
<1>3. CASE status.typing <=> status.user \in mMapTypingNotifications[status.room]
  <2>1. UNCHANGED <<mMapTypingNotifications, statusBar>>
    BY <1>3 DEF insertTypingNotification, Names
  <2> QED BY <1>2, <1>3, <2>1 DEF About, Shown, Names
<1>4. CASE ~(status.typing <=> status.user \in mMapTypingNotifications[status.room])
  <2>1. PICK names \in SUBSET User :
          /\ names = IF status.typing THEN mMapTypingNotifications[status.room] \cup {status.user}
                     ELSE mMapTypingNotifications[status.room] \ {status.user}
          /\ notificationChanged(status.room, names)
    BY <1>1, <1>2, <1>4 DEF insertTypingNotification, Names
  <2>2. /\ mMapTypingNotifications' = [mMapTypingNotifications EXCEPT ![status.room] = names]
        /\ statusBar' = IF roomId = status.room THEN names ELSE statusBar
    BY <2>1 DEF notificationChanged
  <2>3. mMapTypingNotifications' \in [Room -> SUBSET User]
    BY <1>2, <2>2
  <2>4. ASSUME NEW user \in User, NEW room \in Room
        PROVE  IF About(status, user, room) THEN user \in mMapTypingNotifications'[room] <=> status.typing
               ELSE user \in mMapTypingNotifications'[room] <=> user \in mMapTypingNotifications[room]
    <3>1. mMapTypingNotifications'[room] =
            IF room = status.room THEN names ELSE mMapTypingNotifications[room]
      BY <1>2, <2>2
    <3> QED BY <1>1, <2>1, <3>1 DEF About
  <2> QED BY <2>2, <2>3, <2>4 DEF Shown, Names
<1> QED BY <1>3, <1>4

LEMMA ReceiveTypes ==
  ASSUME TypingInv, slotChanged
  PROVE  TypingInv'
<1> USE DEF TypingInv
<1>1. /\ relayed \in Seq(Status) /\ relayed # <<>> /\ relayed' = Tail(relayed)
      /\ UNCHANGED <<mTypingInprogress, mTimer, mRoomId, online, sent, opened, streams, roomId,
                     missed, misplaced, typed, closed>>
  BY DEF TypingTypeOK, slotChanged, sender
<1>2. PICK status \in Status : status = Head(relayed)
  BY <1>1, HeadStatus
<1>3. insertTypingNotification(status)
  BY <1>2 DEF slotChanged
<1>4. /\ mMapTypingNotifications' \in [Room -> SUBSET User]
      /\ \/ UNCHANGED <<mMapTypingNotifications, statusBar>>
         \/ \E names \in SUBSET User :
              /\ mMapTypingNotifications' = [mMapTypingNotifications EXCEPT ![status.room] = names]
              /\ statusBar' = IF roomId = status.room THEN names ELSE statusBar
  BY <1>3, Inserted
<1>5. relayed' \in Seq(Status)
  BY <1>1, HeadStatus
<1>6. statusBar' \subseteq User
  BY <1>4 DEF TypingTypeOK
<1>7. TypingTypeOK'
  BY <1>1, <1>4, <1>5, <1>6 DEF TypingTypeOK
<1>8. Senders'
  BY <1>1 DEF Senders, SenderOK
<1>9. StatusBarIsOfRoom'
  <2>1. CASE UNCHANGED <<mMapTypingNotifications, statusBar>>
    BY <1>1, <2>1 DEF StatusBarIsOfRoom, Names
  <2>2. CASE \E names \in SUBSET User :
               /\ mMapTypingNotifications' = [mMapTypingNotifications EXCEPT ![status.room] = names]
               /\ statusBar' = IF roomId = status.room THEN names ELSE statusBar
    <3>1. PICK names \in SUBSET User :
            /\ mMapTypingNotifications' = [mMapTypingNotifications EXCEPT ![status.room] = names]
            /\ statusBar' = IF roomId = status.room THEN names ELSE statusBar
      BY <2>2
    <3>2. status.room \in Room /\ mMapTypingNotifications \in [Room -> SUBSET User] /\ roomId \in Room \cup {"none"}
      BY DEF Status, TypingTypeOK
    <3>3. CASE roomId = status.room
      <4>1. mMapTypingNotifications'[roomId] = names /\ statusBar' = names
        BY <3>1, <3>2, <3>3
      <4>2. roomId' = roomId /\ roomId # "none"
        BY <1>1, <3>2, <3>3, UserAssumption
      <4> QED BY <4>1, <4>2 DEF StatusBarIsOfRoom, Names
    <3>4. CASE roomId # status.room
      <4>1. roomId # "none" => mMapTypingNotifications'[roomId] = mMapTypingNotifications[roomId]
        BY <3>1, <3>2, <3>4
      <4>2. statusBar' = statusBar /\ roomId' = roomId
        BY <1>1, <3>1, <3>4
      <4> QED BY <4>1, <4>2 DEF StatusBarIsOfRoom, Names
    <3> QED BY <3>3, <3>4
  <2> QED BY <1>4, <2>1, <2>2
<1> QED BY <1>7, <1>8, <1>9

LEMMA TypingStep ==
  ASSUME TypingInv, [TypingNext]_typingVars
  PROVE  TypingInv'
<1>0. TypingTypeOK /\ Senders /\ StatusBarIsOfRoom
  BY DEF TypingInv
<1>1. ASSUME NEW user \in User, NEW room \in Room, NEW emptyString \in BOOLEAN,
             textNotificationChanged(user, room, emptyString)
      PROVE  TypingInv'
  BY <1>1, TextTypes
<1>2. ASSUME NEW user \in User, slotTimeout(user) PROVE TypingInv'
  BY <1>2, TimeoutTypes
<1>3. ASSUME NEW room \in Room, Subscribed(room) PROVE TypingInv'
  <2>1. /\ streams' = streams \cup {room}
        /\ UNCHANGED <<mTypingInprogress, mTimer, mRoomId, online, sent, opened, relayed,
                       mMapTypingNotifications, roomId, statusBar, missed, misplaced, typed, closed>>
    BY <1>3 DEF Subscribed, sender, listener
  <2>2. TypingTypeOK'
    BY <1>0, <2>1 DEF TypingTypeOK
  <2>3. Senders' /\ StatusBarIsOfRoom'
    BY <1>0, <2>1 DEF Senders, SenderOK, StatusBarIsOfRoom, Names
  <2> QED BY <2>2, <2>3 DEF TypingInv
<1>4. ASSUME NEW user \in User, Relay(user) PROVE TypingInv'
  BY <1>4, RelayTypes
<1>5. ASSUME NEW user \in User, UserClosed(user) PROVE TypingInv'
  BY <1>5, CloseTypes
<1>6. ASSUME NEW user \in User, UserConnected(user) PROVE TypingInv'
  <2>1. /\ online' = online \cup {user}
        /\ UNCHANGED <<mTypingInprogress, mTimer, mRoomId, sent, opened, streams, relayed,
                       mMapTypingNotifications, roomId, statusBar, missed, misplaced, typed, closed>>
    BY <1>6 DEF UserConnected, sender, listener
  <2>2. TypingTypeOK'
    BY <1>0, <2>1 DEF TypingTypeOK
  <2>3. Senders' /\ StatusBarIsOfRoom'
    BY <1>0, <2>1 DEF Senders, SenderOK, StatusBarIsOfRoom, Names
  <2> QED BY <2>2, <2>3 DEF TypingInv
<1>7. CASE ListenerClosed
  BY <1>7, ListenerTypes
<1>8. ASSUME NEW room \in Room, switchingToRoom(room) PROVE TypingInv'
  <2>1. /\ opened' = opened \cup {room} /\ roomId' = room /\ statusBar' = {}
        /\ UNCHANGED <<mTypingInprogress, mTimer, mRoomId, online, sent, streams, relayed,
                       mMapTypingNotifications, missed, misplaced, typed, closed>>
    BY <1>8 DEF switchingToRoom, sender
  <2>2. TypingTypeOK'
    BY <1>0, <2>1 DEF TypingTypeOK
  <2>3. Senders' /\ StatusBarIsOfRoom'
    BY <1>0, <2>1 DEF Senders, SenderOK, StatusBarIsOfRoom, Names
  <2> QED BY <2>2, <2>3 DEF TypingInv
<1>9. CASE slotChanged
  BY <1>9, ReceiveTypes
<1>10. CASE UNCHANGED typingVars
  <2>1. UNCHANGED <<mTypingInprogress, mTimer, mRoomId, online, sent, opened, streams, relayed,
                    mMapTypingNotifications, roomId, statusBar, missed, misplaced, typed, closed>>
    BY <1>10 DEF typingVars, sender, listener
  <2>2. TypingTypeOK'
    BY <1>0, <2>1 DEF TypingTypeOK
  <2>3. Senders' /\ StatusBarIsOfRoom'
    BY <1>0, <2>1 DEF Senders, SenderOK, StatusBarIsOfRoom, Names
  <2> QED BY <2>2, <2>3 DEF TypingInv
<1> QED
  BY <1>1, <1>2, <1>3, <1>4, <1>5, <1>6, <1>7, <1>8, <1>9, <1>10 DEF TypingNext

LEMMA TypingInvariance == TypingSpec => []TypingInv
<1>1. TypingInit => TypingInv
  BY TypingBegins
<1>2. TypingInv /\ [TypingNext]_typingVars => TypingInv'
  BY TypingStep
<1> QED BY <1>1, <1>2, PTL DEF TypingSpec, SafetySpec

\* Whoever types where, every room keeps its names and what is sent is a status.
THEOREM TypingTypeCorrect == TypingSpec => []TypingTypeOK
<1>1. TypingInv => TypingTypeOK
  BY DEF TypingInv
<1> QED BY <1>1, TypingInvariance, PTL

\* The window shows nobody, or the names of the room it has selected.
THEOREM StatusBarCorrect == TypingSpec => []StatusBarIsOfRoom
<1>1. TypingInv => StatusBarIsOfRoom
  BY DEF TypingInv
<1> QED BY <1>1, TypingInvariance, PTL

-----------------------------------------------------------------------------
(***************************************************************************)
(* The names are those of the users who type, where no last status was lost *)
(* or is of before a change of room.                                       *)
(***************************************************************************)
LastIsRight(s, user, room) ==
  IF IsTyping(user, room) THEN LastSays(s, user, room, TRUE) ELSE LastSays(s, user, room, FALSE)

\* The last status on its way to the server, or if there is none the last one
\* on its way to the listener unless one was missed, or if there is none the
\* name that is kept, tells whether the user types in the room.
ToldAt(user, room) ==
  IF Mentions(sent[user], user, room) THEN LastIsRight(sent[user], user, room)
  ELSE \/ <<user, room>> \in missed
       \/ IF Mentions(relayed, user, room) THEN LastIsRight(relayed, user, room)
          ELSE Shown(user, room) <=> IsTyping(user, room)

NamesInv == \A user \in User, room \in Room : <<user, room>> \in misplaced \/ ToldAt(user, room)

LEMMA NamesInit == ASSUME TypingInit PROVE NamesInv
<1> SUFFICES ASSUME NEW user \in User, NEW room \in Room PROVE ToldAt(user, room)
  BY DEF NamesInv
<1>1. sent[user] = <<>> /\ relayed = <<>> /\ ~mTypingInprogress[user] /\ mMapTypingNotifications[room] = {}
  BY DEF TypingInit
<1>2. ~Mentions(<<>>, user, room)
  BY DEF Mentions
<1>3. ~Shown(user, room) /\ ~IsTyping(user, room)
  BY <1>1 DEF Shown, Names, IsTyping
<1> QED BY <1>1, <1>2, <1>3 DEF ToldAt

\* Nothing that a user's name in a room depends on changed, or it was missed.
LEMMA SameTold ==
  ASSUME NEW user, NEW room, ToldAt(user, room), sent'[user] = sent[user],
         IsTyping(user, room)' <=> IsTyping(user, room),
         <<user, room>> \in missed => <<user, room>> \in missed',
         <<user, room>> \in missed' \/
           /\ Mentions(relayed', user, room) <=> Mentions(relayed, user, room)
           /\ \A typing : LastSays(relayed, user, room, typing) => LastSays(relayed', user, room, typing)
           /\ Shown(user, room)' <=> Shown(user, room)
  PROVE  ToldAt(user, room)'
<1>1. CASE Mentions(sent[user], user, room)
  BY <1>1 DEF ToldAt, LastIsRight
<1>2. CASE ~Mentions(sent[user], user, room)
  BY <1>2 DEF ToldAt, LastIsRight
<1> QED BY <1>1, <1>2

\* What is lost is recorded, unless a later status is on its way.
LEMMA Missed ==
  ASSUME \A user \in User : \A i \in DOMAIN sent'[user] : sent'[user][i].user = user,
         NEW statuses, Miss(statuses), NEW user \in User, NEW room
  PROVE  /\ <<user, room>> \in missed => <<user, room>> \in missed'
         /\ Mentions(statuses, user, room) /\ ~Mentions(sent'[user], user, room)
              => <<user, room>> \in missed'
<1>1. missed' = missed \cup (Places(statuses) \ UNION {Places(sent'[u]) : u \in User})
  BY DEF Miss
<1>2. ASSUME NEW other \in User, <<user, room>> \in Places(sent'[other])
      PROVE  Mentions(sent'[user], user, room)
  <2>1. Mentions(sent'[other], user, room)
    BY <1>2, PlacesLemma
  <2>2. other = user
    BY <2>1 DEF Mentions, About
  <2> QED BY <2>1, <2>2
<1>3. Mentions(statuses, user, room) => <<user, room>> \in Places(statuses)
  BY PlacesLemma
<1> QED BY <1>1, <1>2, <1>3

\* What is sent is not about a user and a room, whose name is as right as before.
LEMMA OthersTold ==
  ASSUME TypingInv, NEW user \in User, NEW statuses \in Seq(Status),
         \A i \in DOMAIN statuses : statuses[i].user = user,
         NEW stale \in SUBSET (User \X Room), informTypingStatus(user, statuses, stale),
         UNCHANGED <<relayed, mMapTypingNotifications>>,
         NEW u \in User, NEW r \in Room, ToldAt(u, r), ~Mentions(statuses, u, r),
         IsTyping(u, r)' <=> IsTyping(u, r)
  PROVE  ToldAt(u, r)'
<1>1. TypingTypeOK /\ Senders
  BY DEF TypingInv
<1>2. /\ \A other \in User : other # user => sent'[other] = sent[other]
      /\ sent'[user] = IF user \in online THEN sent[user] \o statuses ELSE sent[user]
  BY <1>1, Informed
<1>3. <<u, r>> \notin Places(statuses)
  BY PlacesLemma
<1>4. <<u, r>> \in missed => <<u, r>> \in missed'
  BY <1>3 DEF informTypingStatus, Miss
<1>5. Shown(u, r)' <=> Shown(u, r)
  BY DEF Shown, Names
<1>6. CASE sent'[u] = sent[u]
  BY <1>4, <1>5, <1>6, SameTold
<1>7. CASE u = user /\ sent'[u] = sent[u] \o statuses
  <2>1. sent[u] \in Seq(Status)
    BY <1>1 DEF TypingTypeOK
  <2>2. /\ Mentions(sent'[u], u, r) <=> Mentions(sent[u], u, r)
        /\ \A typing : LastSays(sent[u], u, r, typing) => LastSays(sent'[u], u, r, typing)
    BY <1>7, <2>1, OthersAdded
  <2>3. CASE Mentions(sent[u], u, r)
    BY <2>2, <2>3 DEF ToldAt, LastIsRight
  <2>4. CASE ~Mentions(sent[u], u, r)
    BY <1>4, <1>5, <2>2, <2>4 DEF ToldAt, LastIsRight
  <2> QED BY <2>3, <2>4
<1> QED BY <1>2, <1>6, <1>7

\* A status that tells the truth is sent, or missed.
LEMMA SaidTold ==
  ASSUME TypingInv, TypingInv', NEW user \in User, NEW room \in Room,
         NEW status \in Status, About(status, user, room),
         NEW stale \in SUBSET (User \X Room), informTypingStatus(user, <<status>>, stale),
         IsTyping(user, room)' <=> status.typing
  PROVE  ToldAt(user, room)'
<1>0. TypingTypeOK /\ Senders /\ Senders'
  BY DEF TypingInv
<1>1. <<status>> \in Seq(Status) /\ \A i \in DOMAIN <<status>> : <<status>>[i].user = user
  BY DEF About
<1>2. sent'[user] = IF user \in online THEN sent[user] \o <<status>> ELSE sent[user]
  BY <1>0, <1>1, Informed
<1>3. status.typing \in BOOLEAN
  BY DEF Status
<1>4. CASE user \in online
  <2>1. PICK s \in Seq(Status) : s = sent[user]
    BY <1>0 DEF TypingTypeOK
  <2>2. sent'[user] = Append(s, status)
    BY <1>2, <1>4, <2>1, OneMore
  <2>3. Mentions(sent'[user], user, room) /\ LastSays(sent'[user], user, room, status.typing)
    BY <2>2, StatusAdded
  <2>4. CASE status.typing = TRUE
    <3>1. LastSays(sent'[user], user, room, TRUE)
      BY <2>3, <2>4, Zenon
    <3> QED BY <2>3, <2>4, <3>1 DEF ToldAt, LastIsRight
  <2>5. CASE status.typing = FALSE
    <3>1. LastSays(sent'[user], user, room, FALSE)
      BY <2>3, <2>5, Zenon
    <3> QED BY <2>3, <2>5, <3>1 DEF ToldAt, LastIsRight
  <2> QED BY <1>3, <2>4, <2>5
<1>5. CASE user \notin online
  <2>1. Miss(<<status>>) /\ sent'[user] = <<>>
    BY <1>0, <1>2, <1>5 DEF informTypingStatus, Senders, SenderOK
  <2>2. ~Mentions(sent'[user], user, room) /\ Mentions(<<status>>, user, room)
    BY <2>1 DEF Mentions
  <2>3. \A u \in User : \A i \in DOMAIN sent'[u] : sent'[u][i].user = u
    BY <1>0 DEF Senders, SenderOK
  <2>4. <<user, room>> \in missed'
    BY <2>1, <2>2, <2>3, Missed
  <2> QED BY <2>2, <2>4 DEF ToldAt
<1> QED BY <1>4, <1>5

\* As a text changes or a timer fires, what is said is right, or recorded.
LEMMA TextTold ==
  ASSUME TypingInv, TypingInv', NamesInv, NEW user \in User, NEW room \in Room,
         NEW statuses \in Seq(Status), NEW stale \in SUBSET (User \X Room), NEW inProgress \in BOOLEAN,
         TextSent(user, room, statuses, stale, inProgress),
         mRoomId' = [mRoomId EXCEPT ![user] = room],
         UNCHANGED <<relayed, mMapTypingNotifications>>
  PROVE  NamesInv'
<1>1. /\ \A i \in DOMAIN statuses : statuses[i].user = user
      /\ informTypingStatus(user, statuses, stale)
      /\ \A other \in Room \ {room} :
           Mentions(statuses, user, other) \/ IsTyping(user, other) => <<user, other>> \in stale
  BY DEF TextSent
<1>2. /\ mTypingInprogress'[user] = inProgress /\ mRoomId'[user] = room
      /\ \A other \in User : other # user =>
           mTypingInprogress'[other] = mTypingInprogress[other] /\ mRoomId'[other] = mRoomId[other]
  BY DEF TextSent, TypingInv, TypingTypeOK
<1>3. stale \subseteq misplaced'
  BY <1>1 DEF informTypingStatus
<1>4. \A u \in User, r \in Room :
        <<u, r>> \in misplaced /\ ~Mentions(statuses, u, r) => <<u, r>> \in misplaced'
  BY <1>1, PlacesLemma DEF informTypingStatus
<1>5. ASSUME NEW u \in User, NEW r \in Room, ~Mentions(statuses, u, r), IsTyping(u, r)' <=> IsTyping(u, r)
      PROVE  <<u, r>> \in misplaced' \/ ToldAt(u, r)'
  BY <1>1, <1>4, <1>5, OthersTold DEF NamesInv
<1>6. ASSUME NEW other \in User, NEW r \in Room, other # user
      PROVE  <<other, r>> \in misplaced' \/ ToldAt(other, r)'
  <2>1. ~Mentions(statuses, other, r)
    BY <1>1, <1>6 DEF Mentions, About
  <2>2. IsTyping(other, r)' <=> IsTyping(other, r)
    BY <1>2, <1>6 DEF IsTyping
  <2> QED BY <1>5, <2>1, <2>2
<1>7. ASSUME NEW r \in Room, r # room PROVE <<user, r>> \in misplaced' \/ ToldAt(user, r)'
  <2>1. CASE <<user, r>> \in stale
    BY <1>3, <2>1
  <2>2. CASE <<user, r>> \notin stale
    <3>1. ~Mentions(statuses, user, r) /\ ~IsTyping(user, r)
      BY <1>1, <1>7, <2>2
    <3>2. ~IsTyping(user, r)'
      BY <1>2, <1>7 DEF IsTyping
    <3> QED BY <1>5, <3>1, <3>2
  <2> QED BY <2>1, <2>2
<1>8. IsTyping(user, room)' <=> inProgress
  BY <1>2 DEF IsTyping
<1>9. CASE <<user, room>> \in stale
  BY <1>3, <1>6, <1>7, <1>9 DEF NamesInv
<1>10. CASE statuses = <<>> /\ inProgress /\ IsTyping(user, room)
  <2>1. ~Mentions(statuses, user, room)
    BY <1>10 DEF Mentions
  <2>2. <<user, room>> \in misplaced' \/ ToldAt(user, room)'
    BY <1>5, <1>8, <1>10, <2>1
  <2> QED BY <1>6, <1>7, <2>2 DEF NamesInv
<1>11. ASSUME NEW status \in Status, About(status, user, room), status.typing = inProgress,
              statuses = <<status>>
       PROVE  NamesInv'
  <2>1. ToldAt(user, room)'
    BY <1>1, <1>8, <1>11, SaidTold
  <2> QED BY <1>6, <1>7, <2>1 DEF NamesInv
<1> QED BY <1>9, <1>10, <1>11 DEF TextSent

LEMMA RelayTold ==
  ASSUME TypingInv, TypingInv', NamesInv, NEW user \in User, Relay(user)
  PROVE  NamesInv'
<1>0. TypingTypeOK /\ Senders /\ Senders'
  BY DEF TypingInv
<1>1. /\ sent[user] \in Seq(Status) /\ sent[user] # <<>>
      /\ \A other \in User : other # user => sent'[other] = sent[other]
      /\ sent'[user] = Tail(sent[user])
      /\ \/ relayed' = Append(relayed, Head(sent[user])) /\ UNCHANGED missed
         \/ UNCHANGED relayed /\ Miss(<<Head(sent[user])>>)
      /\ UNCHANGED <<mTypingInprogress, mRoomId, mMapTypingNotifications, misplaced>>
  BY <1>0, Relayed
<1>2. PICK s \in Seq(Status) : s = sent[user] /\ s # <<>>
  BY <1>1
<1>3. PICK status \in Status : status = Head(s)
  BY <1>2, HeadStatus
<1>4. status.user = user /\ status.typing \in BOOLEAN
  BY <1>0, <1>2, <1>3, HeadStatus DEF Senders, SenderOK, Status
<1>5. \/ relayed' = Append(relayed, status) /\ UNCHANGED missed
      \/ UNCHANGED relayed /\ Miss(<<status>>)
  BY <1>1, <1>2, <1>3
<1>6. \A u \in User : \A i \in DOMAIN sent'[u] : sent'[u][i].user = u
  BY <1>0 DEF Senders, SenderOK
<1>7. \A u \in User, r \in Room : <<u, r>> \in missed => <<u, r>> \in missed'
  BY <1>5, <1>6, Missed
<1>8. \A u \in User, r \in Room :
        /\ IsTyping(u, r)' <=> IsTyping(u, r)
        /\ Shown(u, r)' <=> Shown(u, r)
  BY <1>1 DEF IsTyping, Shown, Names
<1>9. relayed \in Seq(Status)
  BY <1>0 DEF TypingTypeOK
<1>10. \A u \in User, r \in Room : ~About(status, u, r) =>
         /\ Mentions(relayed', u, r) <=> Mentions(relayed, u, r)
         /\ \A typing : LastSays(relayed, u, r, typing) => LastSays(relayed', u, r, typing)
  <2>1. CASE relayed' = relayed
    BY <2>1
  <2>2. CASE relayed' = Append(relayed, status)
    BY <1>9, <2>2, StatusAdded
  <2> QED BY <1>5, <2>1, <2>2
<1>11. ASSUME NEW other \in User, NEW r \in Room, ToldAt(other, r), other # user
       PROVE  ToldAt(other, r)'
  <2>1. ToldAt(other, r) /\ ~About(status, other, r)
    BY <1>4, <1>11 DEF About
  <2> QED BY <1>1, <1>7, <1>8, <1>10, <1>11, <2>1, SameTold
<1>12. ASSUME NEW r \in Room, ToldAt(user, r), ~About(status, user, r) PROVE ToldAt(user, r)'
  <2>1. ToldAt(user, r)
    BY <1>12
  <2>2. /\ Mentions(sent'[user], user, r) <=> Mentions(s, user, r)
        /\ \A typing : LastSays(s, user, r, typing) => LastSays(sent'[user], user, r, typing)
    BY <1>1, <1>2, <1>3, <1>12, StatusTaken
  <2>3. CASE Mentions(s, user, r)
    BY <1>2, <1>8, <2>1, <2>2, <2>3 DEF ToldAt, LastIsRight
  <2>4. CASE ~Mentions(s, user, r)
    BY <1>2, <1>7, <1>8, <1>10, <1>12, <2>1, <2>2, <2>4 DEF ToldAt, LastIsRight
  <2> QED BY <2>3, <2>4
<1>13. ASSUME NEW r \in Room, ToldAt(user, r), About(status, user, r) PROVE ToldAt(user, r)'
  <2>1. Mentions(s, user, r)
    BY <1>2, <1>3, <1>13, StatusTaken
  <2>2. LastIsRight(s, user, r)
    BY <1>2, <1>13, <2>1 DEF ToldAt
  <2>3. CASE Mentions(sent'[user], user, r)
    <3>1. \A typing : LastSays(s, user, r, typing) => LastSays(sent'[user], user, r, typing)
      BY <1>1, <1>2, <1>3, <1>13, <2>3, StatusTaken
    <3> QED BY <1>8, <2>2, <2>3, <3>1 DEF ToldAt, LastIsRight
  <2>4. CASE ~Mentions(sent'[user], user, r)
    <3>1. \A typing : LastSays(s, user, r, typing) => status.typing = typing
      BY <1>1, <1>2, <1>3, <1>13, <2>4, StatusTaken
    <3>2. CASE relayed' = Append(relayed, status)
      <4>1. Mentions(relayed', user, r) /\ LastSays(relayed', user, r, status.typing)
        BY <1>9, <1>13, <3>2, StatusAdded
      <4>2. CASE IsTyping(user, r)
        <5>1. status.typing = TRUE
          BY <2>2, <3>1, <4>2 DEF LastIsRight
        <5>2. LastSays(relayed', user, r, TRUE)
          BY <4>1, <5>1, Zenon
        <5> QED BY <1>8, <2>4, <4>1, <4>2, <5>2 DEF ToldAt, LastIsRight
      <4>3. CASE ~IsTyping(user, r)
        <5>1. status.typing = FALSE
          BY <2>2, <3>1, <4>3 DEF LastIsRight
        <5>2. LastSays(relayed', user, r, FALSE)
          BY <4>1, <5>1, Zenon
        <5> QED BY <1>8, <2>4, <4>1, <4>3, <5>2 DEF ToldAt, LastIsRight
      <4> QED BY <4>2, <4>3
    <3>3. CASE Miss(<<status>>)
      <4>1. Mentions(<<status>>, user, r)
        BY <1>13 DEF Mentions
      <4>2. <<user, r>> \in missed'
        BY <1>6, <2>4, <3>3, <4>1, Missed
      <4> QED BY <2>4, <4>2 DEF ToldAt
    <3> QED BY <1>5, <3>2, <3>3
  <2> QED BY <2>3, <2>4
<1> QED BY <1>1, <1>11, <1>12, <1>13 DEF NamesInv

\* What was sent or relayed last is lost with a socket, and recorded.
LEMMA CloseTold ==
  ASSUME TypingInv, TypingInv', NamesInv, NEW user \in User, UserClosed(user)
  PROVE  NamesInv'
<1>1. /\ sent' = [sent EXCEPT ![user] = <<>>] /\ Miss(sent[user])
      /\ UNCHANGED <<mTypingInprogress, mRoomId, relayed, mMapTypingNotifications, misplaced>>
  BY DEF UserClosed, sender, listener
<1>2. /\ sent'[user] = <<>>
      /\ \A other \in User : other # user => sent'[other] = sent[other]
  BY <1>1 DEF TypingInv, TypingTypeOK
<1>3. \A u \in User : \A i \in DOMAIN sent'[u] : sent'[u][i].user = u
  BY DEF TypingInv, Senders, SenderOK
<1>4. \A u \in User, r \in Room :
        /\ IsTyping(u, r)' <=> IsTyping(u, r)
        /\ Shown(u, r)' <=> Shown(u, r)
        /\ <<u, r>> \in missed => <<u, r>> \in missed'
  BY <1>1, <1>3, Missed DEF IsTyping, Shown, Names
<1>5. ASSUME NEW other \in User, NEW r \in Room, ToldAt(other, r), other # user
      PROVE  ToldAt(other, r)'
  BY <1>1, <1>2, <1>4, <1>5, SameTold
<1>6. ASSUME NEW r \in Room, ToldAt(user, r) PROVE ToldAt(user, r)'
  <2>1. ToldAt(user, r) /\ ~Mentions(sent'[user], user, r)
    BY <1>2, <1>6 DEF Mentions
  <2>2. CASE Mentions(sent[user], user, r)
    <3>1. <<user, r>> \in missed'
      BY <1>1, <1>3, <2>1, <2>2, Missed
    <3> QED BY <2>1, <3>1 DEF ToldAt
  <2>3. CASE ~Mentions(sent[user], user, r)
    BY <1>1, <1>4, <2>1, <2>3 DEF ToldAt, LastIsRight
  <2> QED BY <2>2, <2>3
<1> QED BY <1>1, <1>5, <1>6 DEF NamesInv

LEMMA ListenerTold ==
  ASSUME TypingInv, TypingInv', NamesInv, ListenerClosed
  PROVE  NamesInv'
<1>1. /\ relayed' = <<>> /\ Miss(relayed)
      /\ UNCHANGED <<mTypingInprogress, mRoomId, sent, mMapTypingNotifications, misplaced>>
  BY DEF ListenerClosed, sender, listener
<1>2. \A u \in User : \A i \in DOMAIN sent'[u] : sent'[u][i].user = u
  BY DEF TypingInv, Senders, SenderOK
<1>3. ASSUME NEW user \in User, NEW room \in Room, ToldAt(user, room) PROVE ToldAt(user, room)'
  <2>1. /\ ToldAt(user, room) /\ ~Mentions(relayed', user, room)
        /\ IsTyping(user, room)' <=> IsTyping(user, room)
        /\ Shown(user, room)' <=> Shown(user, room)
    BY <1>1, <1>3 DEF Mentions, IsTyping, Shown, Names
  <2>2. /\ <<user, room>> \in missed => <<user, room>> \in missed'
        /\ Mentions(relayed, user, room) /\ ~Mentions(sent'[user], user, room) => <<user, room>> \in missed'
    BY <1>1, <1>2, Missed
  <2>3. CASE Mentions(sent[user], user, room)
    BY <1>1, <2>1, <2>3 DEF ToldAt, LastIsRight
  <2>4. CASE ~Mentions(sent[user], user, room)
    BY <1>1, <2>1, <2>2, <2>4 DEF ToldAt
  <2> QED BY <2>3, <2>4
<1> QED BY <1>1, <1>3 DEF NamesInv

\* The last status that comes leaves the name kept, or not, as it says.
LEMMA ReceiveTold ==
  ASSUME TypingInv, NamesInv, slotChanged
  PROVE  NamesInv'
<1>1. /\ relayed \in Seq(Status) /\ relayed # <<>> /\ relayed' = Tail(relayed)
      /\ UNCHANGED <<mTypingInprogress, mRoomId, sent, missed, misplaced>>
  BY DEF TypingInv, TypingTypeOK, slotChanged, sender
<1>2. PICK status \in Status : status = Head(relayed)
  BY <1>1, HeadStatus
<1>3. \A user \in User, room \in Room :
        IF About(status, user, room) THEN Shown(user, room)' <=> status.typing
        ELSE Shown(user, room)' <=> Shown(user, room)
  BY <1>2, Inserted DEF TypingInv, slotChanged
<1>4. ASSUME NEW user \in User, NEW room \in Room, ToldAt(user, room) PROVE ToldAt(user, room)'
  <2>1. ToldAt(user, room) /\ (IsTyping(user, room)' <=> IsTyping(user, room))
    BY <1>1, <1>4 DEF IsTyping
  <2>2. CASE Mentions(sent[user], user, room) \/ <<user, room>> \in missed
    BY <1>1, <2>1, <2>2 DEF ToldAt, LastIsRight
  <2>3. CASE ~Mentions(sent[user], user, room) /\ <<user, room>> \notin missed /\ About(status, user, room)
    <3>1. Mentions(relayed, user, room) /\ LastIsRight(relayed, user, room)
      BY <1>1, <1>2, <2>1, <2>3, StatusTaken DEF ToldAt
    <3>2. CASE Mentions(Tail(relayed), user, room)
      <4>1. \A typing : LastSays(relayed, user, room, typing) => LastSays(Tail(relayed), user, room, typing)
        BY <1>1, <1>2, <2>3, <3>2, StatusTaken
      <4> QED BY <1>1, <2>1, <2>3, <3>1, <3>2, <4>1 DEF ToldAt, LastIsRight
    <3>3. CASE ~Mentions(Tail(relayed), user, room)
      <4>1. \A typing : LastSays(relayed, user, room, typing) => status.typing = typing
        BY <1>1, <1>2, <2>3, <3>3, StatusTaken
      <4>2. Shown(user, room)' <=> IsTyping(user, room)
        BY <1>3, <2>3, <3>1, <4>1 DEF LastIsRight
      <4> QED BY <1>1, <2>1, <2>3, <3>3, <4>2 DEF ToldAt
    <3> QED BY <3>2, <3>3
  <2>4. CASE ~Mentions(sent[user], user, room) /\ <<user, room>> \notin missed /\ ~About(status, user, room)
    <3>1. /\ Mentions(Tail(relayed), user, room) <=> Mentions(relayed, user, room)
          /\ \A typing : LastSays(relayed, user, room, typing) => LastSays(Tail(relayed), user, room, typing)
      BY <1>1, <1>2, <2>4, StatusTaken
    <3>2. Shown(user, room)' <=> Shown(user, room)
      BY <1>3, <2>4
    <3> QED BY <1>1, <2>1, <2>4, <3>1, <3>2 DEF ToldAt, LastIsRight
  <2> QED BY <2>2, <2>3, <2>4
<1> QED BY <1>1, <1>4 DEF NamesInv

LEMMA NamesStep ==
  ASSUME TypingInv, TypingInv', NamesInv, [TypingNext]_typingVars
  PROVE  NamesInv'
<1>1. ASSUME NEW user \in User, NEW room \in Room, NEW emptyString \in BOOLEAN,
             textNotificationChanged(user, room, emptyString)
      PROVE  NamesInv'
  <2>1. PICK statuses \in Seq(Status), stale \in SUBSET (User \X Room), inProgress \in BOOLEAN :
          TextSent(user, room, statuses, stale, inProgress)
    BY <1>1, TextStatuses DEF TypingInv
  <2>2. mRoomId' = [mRoomId EXCEPT ![user] = room] /\ UNCHANGED <<relayed, mMapTypingNotifications>>
    BY <1>1 DEF textNotificationChanged, listener
  <2> QED BY <2>1, <2>2, TextTold
<1>2. ASSUME NEW user \in User, slotTimeout(user) PROVE NamesInv'
  <2>1. PICK room \in Room : room = mRoomId[user]
    BY <1>2, TimeoutStatus DEF TypingInv
  <2>2. PICK statuses \in Seq(Status), stale \in SUBSET (User \X Room), inProgress \in BOOLEAN :
          TextSent(user, room, statuses, stale, inProgress)
    BY <1>2, <2>1, TimeoutStatus DEF TypingInv
  <2>3. mRoomId' = [mRoomId EXCEPT ![user] = room] /\ UNCHANGED <<relayed, mMapTypingNotifications>>
    BY <1>2, <2>1, TimeoutStatus DEF TypingInv, slotTimeout, listener
  <2> QED BY <2>2, <2>3, TextTold
<1>3. ASSUME NEW user \in User, Relay(user) PROVE NamesInv'
  BY <1>3, RelayTold
<1>4. ASSUME NEW user \in User, UserClosed(user) PROVE NamesInv'
  BY <1>4, CloseTold
<1>5. CASE ListenerClosed
  BY <1>5, ListenerTold
<1>6. CASE slotChanged
  BY <1>6, ReceiveTold
<1>7. ASSUME UNCHANGED <<mTypingInprogress, mRoomId, sent, relayed, mMapTypingNotifications, missed,
                       misplaced>>
      PROVE  NamesInv'
  BY <1>7 DEF NamesInv, ToldAt, LastIsRight, IsTyping, Shown, Names
<1>8. ASSUME NEW room \in Room, Subscribed(room) \/ switchingToRoom(room) PROVE NamesInv'
  BY <1>7, <1>8 DEF Subscribed, switchingToRoom, sender, listener
<1>9. ASSUME NEW user \in User, UserConnected(user) PROVE NamesInv'
  BY <1>7, <1>9 DEF UserConnected, sender, listener
<1>10. CASE UNCHANGED typingVars
  BY <1>7, <1>10 DEF typingVars, sender, listener
<1> QED
  BY <1>1, <1>2, <1>3, <1>4, <1>5, <1>6, <1>8, <1>9, <1>10 DEF TypingNext

\* With nothing under way the names kept are those of the users who type, but
\* for those whose last status was lost or who changed room while typing and
\* have said nothing of the place since, however many users write, in any
\* rooms, and whichever sockets close.
THEOREM TypingNamesCorrect == TypingSpec => []NamesAreTyping
<1>1. ASSUME NamesInv PROVE NamesAreTyping
  <2>1. SUFFICES ASSUME Quiet, NEW user \in User, NEW room \in Room,
                        <<user, room>> \notin missed \cup misplaced
                 PROVE  Shown(user, room) <=> IsTyping(user, room)
    BY DEF NamesAreTyping
  <2>2. ~Mentions(sent[user], user, room) /\ ~Mentions(relayed, user, room)
    BY <2>1 DEF Quiet, Mentions
  <2> QED BY <1>1, <2>1, <2>2 DEF NamesInv, ToldAt
<1>2. TypingInit => NamesInv
  BY NamesInit
<1>3. TypingInv /\ TypingInv' /\ NamesInv /\ [TypingNext]_typingVars => NamesInv'
  BY NamesStep
<1> QED BY <1>1, <1>2, <1>3, TypingInvariance, PTL DEF TypingSpec, SafetySpec
=============================================================================
