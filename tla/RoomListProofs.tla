--------------------------- MODULE RoomListProofs ---------------------------
(***************************************************************************)
(* For any rooms and any number of changes: the list holds rooms, no room  *)
(* twice, and with nothing under way those the user is in, each with both  *)
(* its documents as they are.                                              *)
(***************************************************************************)
EXTENDS RoomList, SequenceTheorems, FiniteSetTheorems, TLAPS

\* RemoveAt closes the gap, as takeAt and erase do.
LEMMA RemoveAtLemma ==
  ASSUME NEW S, NEW s \in Seq(S), NEW k \in 1..Len(s)
  PROVE  /\ RemoveAt(s, k) \in Seq(S)
         /\ Len(RemoveAt(s, k)) = Len(s) - 1
         /\ \A i \in 1..(Len(s) - 1) :
              RemoveAt(s, k)[i] = IF i < k THEN s[i] ELSE s[i + 1]
<1> DEFINE front == SubSeq(s, 1, k - 1)
           back == SubSeq(s, k + 1, Len(s))
<1>0. Len(s) \in Nat /\ k \in Int /\ k + 1 \in Int /\ k - 1 \in Int /\ Len(s) \in Int
  BY LenProperties
<1>1. /\ front \in Seq(S) /\ Len(front) = k - 1
      /\ \A i \in 1..(k - 1) : front[i] = s[i]
  <2>1. \A i \in 1..(k - 1) : s[i] \in S
    BY <1>0
  <2>2. /\ front \in Seq(S) /\ Len(front) = IF 1 <= k - 1 THEN k - 1 - 1 + 1 ELSE 0
        /\ \A i \in 1..(k - 1 - 1 + 1) : front[i] = s[1 + i - 1]
    BY <1>0, <2>1, SubSeqProperties
  <2> QED BY <1>0, <2>2
<1>2. /\ back \in Seq(S) /\ Len(back) = Len(s) - k
      /\ \A i \in 1..(Len(s) - k) : back[i] = s[k + i]
  <2>1. \A i \in (k + 1)..Len(s) : s[i] \in S
    BY <1>0
  <2>2. /\ back \in Seq(S) /\ Len(back) = IF k + 1 <= Len(s) THEN Len(s) - (k + 1) + 1 ELSE 0
        /\ \A i \in 1..(Len(s) - (k + 1) + 1) : back[i] = s[k + 1 + i - 1]
    BY <1>0, <2>1, SubSeqProperties
  <2> QED BY <1>0, <2>2
<1> HIDE DEF front, back
<1>3. /\ front \o back \in Seq(S)
      /\ Len(front \o back) = Len(front) + Len(back)
      /\ \A i \in 1..(Len(front) + Len(back)) :
           (front \o back)[i] = IF i <= Len(front) THEN front[i] ELSE back[i - Len(front)]
  BY <1>1, <1>2, ConcatProperties
<1>4. RemoveAt(s, k) = front \o back
  BY Zenon DEF RemoveAt, front, back
<1>5. \A i \in 1..(Len(s) - 1) : (front \o back)[i] = IF i < k THEN s[i] ELSE s[i + 1]
  <2> SUFFICES ASSUME NEW i \in 1..(Len(s) - 1)
      PROVE  (front \o back)[i] = IF i < k THEN s[i] ELSE s[i + 1]
    OBVIOUS
  <2>1. CASE i < k
    BY <1>0, <1>1, <1>2, <1>3, <2>1
  <2>2. CASE i >= k
    <3>1. PICK n \in 1..(Len(s) - k) : n = i - (k - 1) /\ k + n = i + 1
      BY <1>0, <2>2
    <3>2. back[n] = s[k + n]
      BY <1>2, <3>1
    <3>3. (front \o back)[i] = back[n]
      BY <1>0, <1>1, <1>2, <1>3, <2>2, <3>1
    <3>4. ~(i < k)
      BY <1>0, <2>2
    <3>5. s[k + n] = s[i + 1]
      BY <3>1, Zenon
    <3> QED BY <3>2, <3>3, <3>4, <3>5, Zenon
  <2>3. i < k \/ i >= k
    BY <1>0
  <2> QED BY <2>1, <2>2, <2>3, Zenon
<1>6. Len(front \o back) = Len(s) - 1
  BY <1>0, <1>1, <1>2, <1>3
<1> QED BY <1>3, <1>4, <1>5, <1>6, Zenon

-----------------------------------------------------------------------------
IInv == TypeOK /\ NoDuplicates

-----------------------------------------------------------------------------
\* The operations of RoomModel on its list.
LEMMA AddLemma ==
  ASSUME rows \in Seq(Row), NoDuplicates, NEW row \in Row, addRoom(row)
  PROVE  rows' \in Seq(Row) /\ NoDuplicates'
<1>1. CASE Listed(row.rid)
  BY <1>1 DEF addRoom, NoDuplicates
<1>2. CASE ~Listed(row.rid)
  <2>1. /\ rows' \in Seq(Row)
        /\ DOMAIN rows' = 1..(Len(rows) + 1)
        /\ \A i \in 1..Len(rows) : rows'[i] = rows[i]
        /\ rows'[Len(rows) + 1] = row
    BY <1>2 DEF addRoom
  <2>2. \A i \in 1..Len(rows) : rows[i].rid # row.rid
    BY <1>2 DEF Listed
  <2> QED BY <2>1, <2>2 DEF NoDuplicates
<1> QED BY <1>1, <1>2

LEMMA RemoveLemma ==
  ASSUME rows \in Seq(Row), NoDuplicates, NEW rid \in Rid, removeRoom(rid)
  PROVE  rows' \in Seq(Row) /\ NoDuplicates'
<1>1. CASE UNCHANGED rows
  BY <1>1 DEF NoDuplicates
<1>2. CASE \E k \in DOMAIN rows : rows' = RemoveAt(rows, k)
  <2>1. PICK k \in 1..Len(rows) : rows' = RemoveAt(rows, k)
    BY <1>2
  <2>2. /\ rows' \in Seq(Row) /\ Len(rows') = Len(rows) - 1
        /\ \A i \in 1..(Len(rows) - 1) : rows'[i] = IF i < k THEN rows[i] ELSE rows[i + 1]
    BY <2>1, RemoveAtLemma
  <2>3. ASSUME NEW i \in 1..(Len(rows) - 1), NEW j \in 1..(Len(rows) - 1), rows'[i].rid = rows'[j].rid
        PROVE  i = j
    <3>1. PICK a \in 1..Len(rows) : rows'[i] = rows[a] /\ a = IF i < k THEN i ELSE i + 1
      BY <2>2
    <3>2. PICK b \in 1..Len(rows) : rows'[j] = rows[b] /\ b = IF j < k THEN j ELSE j + 1
      BY <2>2
    <3>3. a = b
      BY <2>3, <3>1, <3>2 DEF NoDuplicates
    <3> QED BY <3>1, <3>2, <3>3
  <2>4. DOMAIN rows' = 1..(Len(rows) - 1)
    BY <2>2
  <2> QED BY <2>2, <2>3, <2>4 DEF NoDuplicates
<1> QED BY <1>1, <1>2 DEF removeRoom

\* An update leaves every row the row of its room.
LEMMA SameRoomsLemma ==
  ASSUME rows \in Seq(Row), NoDuplicates, rows' \in Seq(Row), Len(rows') = Len(rows),
         \A i \in DOMAIN rows : rows'[i].rid = rows[i].rid
  PROVE  NoDuplicates'
BY DEF NoDuplicates

LEMMA UpdateSubscriptionLemma ==
  ASSUME rows \in Seq(Row), NoDuplicates, NEW rid \in Rid, NEW revision \in Revision,
         updateSubscriptionRoom(rid, revision)
  PROVE  rows' \in Seq(Row) /\ NoDuplicates'
<1>1. ASSUME NEW i \in DOMAIN rows
      PROVE  rows'[i] \in Row /\ rows'[i].rid = rows[i].rid
  <2>1. rows[i] \in Row
    OBVIOUS
  <2> QED BY <2>1 DEF updateSubscriptionRoom, Row
<1>2. DOMAIN rows' = 1..Len(rows) /\ rows' = [i \in 1..Len(rows) |-> rows'[i]]
  BY DEF updateSubscriptionRoom
<1>3. rows' \in Seq(Row) /\ Len(rows') = Len(rows)
  BY <1>1, <1>2
<1> QED BY <1>1, <1>3, SameRoomsLemma

LEMMA UpdateRoomsLemma ==
  ASSUME rows \in Seq(Row), NoDuplicates, NEW update \in [Rid -> Revision], updateRooms(update)
  PROVE  rows' \in Seq(Row) /\ NoDuplicates'
<1>1. ASSUME NEW i \in DOMAIN rows
      PROVE  rows'[i] \in Row /\ rows'[i].rid = rows[i].rid
  <2>1. rows[i] \in Row
    OBVIOUS
  <2>2. update[rows[i].rid] \in Revision
    BY <2>1 DEF Row
  <2> QED BY <2>1, <2>2 DEF updateRooms, Row
<1>2. DOMAIN rows' = 1..Len(rows) /\ rows' = [i \in 1..Len(rows) |-> rows'[i]]
  BY DEF updateRooms
<1>3. rows' \in Seq(Row) /\ Len(rows') = Len(rows)
  BY <1>1, <1>2
<1> QED BY <1>1, <1>3, SameRoomsLemma

LEMMA UpdateRoomLemma ==
  ASSUME rows \in Seq(Row), NoDuplicates, NEW rid \in Rid, NEW revision \in Revision,
         updateRoom(rid, revision)
  PROVE  rows' \in Seq(Row) /\ NoDuplicates'
<1>1. [r \in Rid |-> IF r = rid THEN revision ELSE None] \in [Rid -> Revision]
  BY MaxChangesAssumption DEF None, Revision
<1> QED BY <1>1, UpdateRoomsLemma DEF updateRoom

\* The rooms that are loaded are added behind the others, in any order.
LEMMA LoadLemma ==
  ASSUME rows \in Seq(Row), NoDuplicates, NEW update \in [Rid -> Revision],
         NEW new \in SUBSET Rid, \A rid \in new : ~Listed(rid),
         NEW added \in SetToSeqs({SubscriptionRow(rid, update[rid]) : rid \in new}),
         rows' = rows \o added
  PROVE  rows' \in Seq(Row) /\ NoDuplicates'
<1> DEFINE loaded == {SubscriptionRow(rid, update[rid]) : rid \in new}
           f == [rid \in new |-> SubscriptionRow(rid, update[rid])]
<1>1. loaded \subseteq Row
  BY MaxChangesAssumption DEF SubscriptionRow, Row, None, Revision
<1>2. Cardinality(loaded) \in Nat
  <2>1. IsFiniteSet(new)
    BY RidAssumption, FS_Subset
  <2>2. f \in Surjection(new, loaded)
    BY DEF Surjection
  <2>3. IsFiniteSet(loaded)
    BY <2>1, <2>2, FS_Surjection, Zenon DEF ExistsSurjection
  <2> QED BY <2>3, FS_CardinalityType
<1>3. /\ added \in [1..Cardinality(loaded) -> loaded]
      /\ \A i, j \in 1..Cardinality(loaded) : i # j => added[i] # added[j]
  BY Zenon DEF SetToSeqs
<1>5. \A r, s \in loaded : r.rid = s.rid => r = s
  BY DEF SubscriptionRow
<1>6. \A r \in loaded : ~Listed(r.rid)
  BY DEF SubscriptionRow
<1> HIDE DEF loaded
<1>4. added \in Seq(Row) /\ Len(added) = Cardinality(loaded)
  BY <1>1, <1>2, <1>3
<1>7. \A i, j \in 1..Len(added) : added[i].rid = added[j].rid => i = j
  BY <1>3, <1>4, <1>5
<1>8. \A i \in 1..Len(rows), j \in 1..Len(added) : rows[i].rid # added[j].rid
  <2>1. \A j \in 1..Len(added) : ~Listed(added[j].rid)
    BY <1>3, <1>4, <1>6
  <2> QED BY <2>1 DEF Listed
<1>9. /\ rows' \in Seq(Row) /\ Len(rows') = Len(rows) + Len(added)
      /\ \A i \in 1..(Len(rows) + Len(added)) :
           rows'[i] = IF i <= Len(rows) THEN rows[i] ELSE added[i - Len(rows)]
  BY <1>4, ConcatProperties
<1>10. ASSUME NEW i \in 1..(Len(rows) + Len(added)), NEW j \in 1..(Len(rows) + Len(added)),
              rows'[i].rid = rows'[j].rid
       PROVE  i = j
  <2>0. Len(rows) \in Nat /\ Len(added) \in Nat
    BY <1>4
  <2>5. /\ i > Len(rows) => i - Len(rows) \in 1..Len(added)
        /\ j > Len(rows) => j - Len(rows) \in 1..Len(added)
    BY <2>0
  <2>1. CASE i <= Len(rows) /\ j <= Len(rows)
    BY <1>9, <1>10, <2>0, <2>1 DEF NoDuplicates
  <2>2. CASE i <= Len(rows) /\ j > Len(rows)
    <3>1. PICK b \in 1..Len(added) : b = j - Len(rows)
      BY <2>2, <2>5, Zenon
    <3>2. rows'[i] = rows[i] /\ rows'[j] = added[j - Len(rows)] /\ i \in 1..Len(rows)
      BY <1>9, <2>0, <2>2
    <3>3. added[j - Len(rows)] = added[b]
      BY <3>1, Zenon
    <3> QED BY <1>8, <1>10, <3>2, <3>3
  <2>3. CASE i > Len(rows) /\ j <= Len(rows)
    <3>1. PICK b \in 1..Len(added) : b = i - Len(rows)
      BY <2>3, <2>5, Zenon
    <3>2. rows'[j] = rows[j] /\ rows'[i] = added[i - Len(rows)] /\ j \in 1..Len(rows)
      BY <1>9, <2>0, <2>3
    <3>3. added[i - Len(rows)] = added[b]
      BY <3>1, Zenon
    <3> QED BY <1>8, <1>10, <3>2, <3>3
  <2>4. CASE i > Len(rows) /\ j > Len(rows)
    <3>1. PICK a \in 1..Len(added) : a = i - Len(rows)
      BY <2>4, <2>5, Zenon
    <3>2. PICK b \in 1..Len(added) : b = j - Len(rows)
      BY <2>4, <2>5, Zenon
    <3>3. rows'[i] = added[i - Len(rows)] /\ rows'[j] = added[j - Len(rows)]
      BY <1>9, <2>0, <2>4
    <3>4. added[i - Len(rows)] = added[a] /\ added[j - Len(rows)] = added[b]
      BY <3>1, <3>2, Zenon
    <3>5. a = b
      BY <1>7, <1>10, <3>3, <3>4
    <3> QED BY <2>0, <3>1, <3>2, <3>5
  <2> QED BY <2>0, <2>1, <2>2, <2>3, <2>4
<1>11. DOMAIN rows' = 1..(Len(rows) + Len(added))
  BY <1>4, <1>9
<1> QED BY <1>9, <1>10, <1>11 DEF NoDuplicates

-----------------------------------------------------------------------------
\* The initial states.
LEMMA InitLemma == Init => IInv
<1> SUFFICES ASSUME Init PROVE IInv
  OBVIOUS
<1> USE MaxChangesAssumption
<1>1. changes \in 1..(MaxChanges + 1) /\ None \in Revision /\ 1 \in Revision
  BY DEF Init, None, Revision
<1>2. subscription \in [Rid -> Revision] /\ room \in [Rid -> Revision]
  BY <1>1 DEF Init
<1>3. streams \subseteq Stream /\ overtaken \subseteq Rid /\ unsure \subseteq Rid
  BY DEF Init
<1>4. subscriptionEvents \in Seq(Event) /\ roomEvents \in Seq(Event) /\ rows \in Seq(Row)
  BY DEF Init
<1>5. Asked("subscriptions/get") \in Call
  BY <1>1 DEF Asked, Call, Method
<1>6. calls \subseteq Call
  BY <1>5 DEF Init
<1>7. NoDuplicates
  BY DEF Init, NoDuplicates
<1> QED BY <1>1, <1>2, <1>3, <1>4, <1>6, <1>7 DEF IInv, TypeOK

\* What a change on the server leaves behind: the number it was given is a
\* revision, and an event tells of it.
LEMMA ChangeLemma ==
  ASSUME TypeOK, Change
  PROVE  /\ changes' \in 1..(MaxChanges + 1)
         /\ changes' \in Revision
         /\ None \in Revision
         /\ UNCHANGED <<streams, calls, rows>>
BY MaxChangesAssumption DEF TypeOK, Change, Revision, None

LEMMA SubscriptionChangedLemma ==
  ASSUME TypeOK, Change, NEW rid \in Rid,
         NEW action \in {"inserted", "updated", "removed"}, SubscriptionChanged(action, rid)
  PROVE  /\ subscription' \in [Rid -> Revision]
         /\ subscriptionEvents' \in Seq(Event)
         /\ overtaken' \subseteq Rid
<1>1. changes' \in Revision /\ None \in Revision
  BY ChangeLemma
<1>2. subscription' \in [Rid -> Revision]
  BY <1>1 DEF TypeOK, SubscriptionChanged
<1>3. [action |-> action, rid |-> rid, revision |-> changes'] \in Event
  BY <1>1 DEF Event
<1>4. subscriptionEvents' \in Seq(Event)
  BY <1>3 DEF TypeOK, SubscriptionChanged, EmitSubscription
<1>5. overtaken' \subseteq Rid
  BY DEF TypeOK, SubscriptionChanged, TooEarly
<1> QED BY <1>2, <1>4, <1>5

LEMMA RoomChangedLemma ==
  ASSUME TypeOK, Change, NEW rid \in Rid,
         NEW action \in {"inserted", "updated", "removed"}, RoomChanged(action, rid)
  PROVE  /\ room' \in [Rid -> Revision]
         /\ roomEvents' \in Seq(Event)
         /\ unsure' \subseteq Rid
<1>1. changes' \in Revision /\ None \in Revision
  BY ChangeLemma
<1>2. room' \in [Rid -> Revision]
  BY <1>1 DEF TypeOK, RoomChanged
<1>3. [action |-> action, rid |-> rid, revision |-> changes'] \in Event
  BY <1>1 DEF Event
<1>4. roomEvents' \in Seq(Event)
  BY <1>3 DEF TypeOK, RoomChanged, EmitRoom
<1>5. unsure' \subseteq Rid
  BY DEF TypeOK, RoomChanged, TooEarly
<1> QED BY <1>2, <1>4, <1>5

LEMMA AnswerLemma ==
  ASSUME TypeOK, NEW call \in calls, Answer(call)
  PROVE  calls' \subseteq Call
<1>1. call \in Call /\ None \in Revision
  BY MaxChangesAssumption DEF TypeOK, None, Revision
<1> DEFINE update == IF call.method = "subscriptions/get" THEN subscription
                     ELSE [rid \in Rid |-> IF subscription[rid] = None THEN None ELSE room[rid]]
<1>2. update \in [Rid -> Revision]
  BY <1>1 DEF TypeOK
<1>3. calls' = (calls \ {call}) \cup {[call EXCEPT !.answered = TRUE, !.update = update]}
  BY DEF Answer
<1> HIDE DEF update
<1>4. [call EXCEPT !.answered = TRUE, !.update = update] \in Call
  BY <1>1, <1>2 DEF Call
<1> QED BY <1>3, <1>4 DEF TypeOK

\* An event at the head of a stream is typed, and so is the rest.
LEMMA HeadLemma ==
  ASSUME NEW s \in Seq(Event), s # <<>>
  PROVE  Head(s) \in Event /\ Tail(s) \in Seq(Event)
OBVIOUS

\* The row of an event or of a loaded document.
LEMMA RowLemma ==
  ASSUME NEW rid \in Rid, NEW revision \in Revision
  PROVE  SubscriptionRow(rid, revision) \in Row /\ RoomRow(rid, revision) \in Row
BY MaxChangesAssumption DEF SubscriptionRow, RoomRow, Row, None, Revision

LEMMA SubscriptionEventLemma ==
  ASSUME IInv, SubscriptionEvent
  PROVE  IInv'
<1> USE DEF IInv
<1>1. PICK event \in Event : event = Head(subscriptionEvents)
  BY HeadLemma DEF TypeOK, SubscriptionEvent
<1>2. event.rid \in Rid /\ event.revision \in Revision
  BY DEF Event
<1>3. rows \in Seq(Row) /\ NoDuplicates
  BY DEF TypeOK
<1>4. rows' \in Seq(Row) /\ NoDuplicates'
  <2>1. CASE removeRoom(event.rid)
    BY <1>2, <1>3, <2>1, RemoveLemma
  <2>2. CASE addRoom(SubscriptionRow(event.rid, event.revision))
    BY <1>2, <1>3, <2>2, AddLemma, RowLemma
  <2>3. CASE updateSubscriptionRoom(event.rid, event.revision)
    BY <1>2, <1>3, <2>3, UpdateSubscriptionLemma
  <2> QED BY <1>1, <2>1, <2>2, <2>3 DEF SubscriptionEvent
<1>5. subscriptionEvents' \in Seq(Event)
  BY HeadLemma DEF TypeOK, SubscriptionEvent
<1>6. overtaken' \subseteq Rid /\ unsure' \subseteq Rid
  BY <1>1, <1>2 DEF TypeOK, SubscriptionEvent
<1>7. UNCHANGED <<changes, subscription, room, streams, roomEvents, calls>>
  BY DEF SubscriptionEvent, server
<1> QED BY <1>4, <1>5, <1>6, <1>7 DEF TypeOK

LEMMA RoomEventLemma ==
  ASSUME IInv, RoomEvent
  PROVE  IInv'
<1> USE DEF IInv
<1>1. PICK event \in Event : event = Head(roomEvents)
  BY HeadLemma DEF TypeOK, RoomEvent
<1>2. event.rid \in Rid /\ event.revision \in Revision
  BY DEF Event
<1>3. rows \in Seq(Row) /\ NoDuplicates
  BY DEF TypeOK
<1>4. rows' \in Seq(Row) /\ NoDuplicates'
  <2>1. CASE updateRoom(event.rid, event.revision)
    BY <1>2, <1>3, <2>1, UpdateRoomLemma
  <2>2. CASE addRoom(RoomRow(event.rid, event.revision))
    BY <1>2, <1>3, <2>2, AddLemma, RowLemma
  <2>3. CASE UNCHANGED rows
    BY <1>3, <2>3 DEF NoDuplicates
  <2> QED BY <1>1, <2>1, <2>2, <2>3 DEF RoomEvent
<1>5. roomEvents' \in Seq(Event)
  BY HeadLemma DEF TypeOK, RoomEvent
<1>6. overtaken' \subseteq Rid /\ unsure' \subseteq Rid
  BY <1>1, <1>2 DEF TypeOK, RoomEvent
<1>7. UNCHANGED <<changes, subscription, room, streams, subscriptionEvents, calls>>
  BY DEF RoomEvent, server
<1> QED BY <1>4, <1>5, <1>6, <1>7 DEF TypeOK

LEMMA LoadSubscriptionsLemma ==
  ASSUME IInv, NEW call \in calls, getsubscriptionParsing(call)
  PROVE  IInv'
<1> USE DEF IInv
<1>1. call \in Call /\ call.update \in [Rid -> Revision] /\ None \in Revision
  BY MaxChangesAssumption DEF TypeOK, Call, None, Revision
<1> DEFINE new == {rid \in Rid : call.update[rid] # None /\ ~Listed(rid)}
           loaded == {SubscriptionRow(rid, call.update[rid]) : rid \in new}
<1>2. PICK added \in SetToSeqs(loaded) : rows' = rows \o added
  BY Zenon DEF getsubscriptionParsing
<1>3. rows \in Seq(Row) /\ NoDuplicates /\ new \in SUBSET Rid /\ \A rid \in new : ~Listed(rid)
  BY DEF TypeOK
<1>4. rows' \in Seq(Row) /\ NoDuplicates'
  BY <1>1, <1>2, <1>3, LoadLemma, Zenon
<1>5. Asked("rooms/get") \in Call
  BY <1>1 DEF Asked, Call, Method
<1>6. calls' \subseteq Call
  BY <1>5 DEF TypeOK, getsubscriptionParsing
<1>7. UNCHANGED <<changes, subscription, room, streams, subscriptionEvents, roomEvents,
                  overtaken, unsure>>
  BY DEF getsubscriptionParsing, server
<1> QED BY <1>4, <1>6, <1>7 DEF TypeOK

LEMMA LoadRoomsLemma ==
  ASSUME IInv, NEW call \in calls, roomsParsing(call)
  PROVE  IInv'
<1> USE DEF IInv
<1>1. call.update \in [Rid -> Revision]
  BY DEF TypeOK, Call
<1>2. rows' \in Seq(Row) /\ NoDuplicates'
  BY <1>1, UpdateRoomsLemma DEF TypeOK, roomsParsing
<1>3. calls' \subseteq Call /\ unsure' \subseteq Rid
  BY DEF TypeOK, roomsParsing
<1>4. UNCHANGED <<changes, subscription, room, streams, subscriptionEvents, roomEvents, overtaken>>
  BY DEF roomsParsing, server
<1> QED BY <1>2, <1>3, <1>4 DEF TypeOK

-----------------------------------------------------------------------------
\* Every step keeps the invariant.
LEMMA StepLemma ==
  ASSUME IInv, [Next]_vars
  PROVE  IInv'
<1> USE DEF IInv
<1>0. ASSUME UNCHANGED rows PROVE NoDuplicates'
  BY <1>0 DEF NoDuplicates
<1>1. ASSUME NEW rid \in Rid, Join(rid) PROVE IInv'
  <2>1. Change /\ SubscriptionChanged("inserted", rid)
    BY <1>1 DEF Join
  <2>2. PICK action \in {"inserted", "updated", "removed"} : RoomChanged(action, rid)
    BY <1>1 DEF Join
  <2> QED BY <1>0, <2>1, <2>2, ChangeLemma, SubscriptionChangedLemma, RoomChangedLemma DEF TypeOK
<1>2. ASSUME NEW rid \in Rid, Leave(rid) PROVE IInv'
  BY <1>0, <1>2, ChangeLemma, SubscriptionChangedLemma DEF Leave, TypeOK
<1>3. ASSUME NEW rid \in Rid, Erase(rid) PROVE IInv'
  BY <1>0, <1>3, ChangeLemma, SubscriptionChangedLemma, RoomChangedLemma DEF Erase, TypeOK
<1>4. ASSUME NEW rid \in Rid, ChangeSubscription(rid) PROVE IInv'
  BY <1>0, <1>4, ChangeLemma, SubscriptionChangedLemma DEF ChangeSubscription, TypeOK
<1>5. ASSUME NEW rid \in Rid, ChangeRoom(rid) PROVE IInv'
  BY <1>0, <1>5, ChangeLemma, RoomChangedLemma DEF ChangeRoom, TypeOK
<1>6. ASSUME NEW stream \in Stream, Subscribed(stream) PROVE IInv'
  BY <1>0, <1>6 DEF Subscribed, wire, TypeOK
<1>7. ASSUME NEW call \in calls, Answer(call) PROVE IInv'
  <2>1. calls' \subseteq Call
    BY <1>7, AnswerLemma
  <2>2. UNCHANGED <<changes, subscription, room, streams, subscriptionEvents, roomEvents, rows,
                    overtaken, unsure>>
    BY <1>7 DEF Answer, server
  <2> QED BY <1>0, <2>1, <2>2 DEF TypeOK
<1>8. CASE SubscriptionEvent
  BY <1>8, SubscriptionEventLemma
<1>9. CASE RoomEvent
  BY <1>9, RoomEventLemma
<1>10. ASSUME NEW call \in calls, getsubscriptionParsing(call) PROVE IInv'
  BY <1>10, LoadSubscriptionsLemma
<1>11. ASSUME NEW call \in calls, roomsParsing(call) PROVE IInv'
  BY <1>11, LoadRoomsLemma
<1>12. CASE UNCHANGED vars
  BY <1>0, <1>12 DEF vars, TypeOK
<1> QED
  BY <1>1, <1>2, <1>3, <1>4, <1>5, <1>6, <1>7, <1>8, <1>9, <1>10, <1>11, <1>12
  DEF Next, Server, Client

LEMMA Invariance == Spec => []IInv
<1>1. IInv /\ [Next]_vars => IInv'
  BY StepLemma
<1> QED BY <1>1, InitLemma, PTL DEF Spec

\* Whatever the server sends, the list holds rooms.
THEOREM TypeCorrect == Spec => []TypeOK
<1>1. IInv => TypeOK
  BY DEF IInv
<1> QED BY <1>1, Invariance, PTL

\* No room has two rows, although the loaded list and both streams may bring
\* the same room, in any order: findRoom never finds "more than 1 room".
THEOREM RoomsUnique == Spec => []NoDuplicates
<1>1. IInv => NoDuplicates
  BY DEF IInv
<1> QED BY <1>1, Invariance, PTL

-----------------------------------------------------------------------------
(***************************************************************************)
(* What a stream of events says of a room, and how that changes as an      *)
(* event is appended or taken.                                             *)
(***************************************************************************)
Silent(s, rid) == \A i \in DOMAIN s : s[i].rid # rid

FirstIn(s, rid, actions) ==
  \A i \in DOMAIN s :
    s[i].rid = rid /\ (\A k \in 1..(i - 1) : s[k].rid # rid) => s[i].action \in actions

SomeRemoved(s, rid) == \E i \in DOMAIN s : s[i].rid = rid /\ s[i].action = "removed"

\* The stream only tells that the room was entered.
OnlyInserted(s, rid, revision) ==
  \E i \in DOMAIN s :
    /\ s[i].rid = rid /\ s[i].action = "inserted" /\ s[i].revision = revision
    /\ \A k \in DOMAIN s : s[k].rid = rid => k = i

IsCurrent(event, revision) ==
  IF revision = None THEN event.action = "removed"
  ELSE event.action # "removed" /\ event.revision = revision

\* The last event of a room tells what the subscription is.
Told(s, rid, revision) ==
  \/ Silent(s, rid)
  \/ \E i \in DOMAIN s : /\ s[i].rid = rid
                         /\ \A k \in DOMAIN s : k > i => s[k].rid # rid
                         /\ IsCurrent(s[i], revision)

\* A room is entered exactly after it was left.
Alternates(s) ==
  \A i, j \in DOMAIN s :
    /\ i < j
    /\ s[i].rid = s[j].rid
    /\ \A k \in (i + 1)..(j - 1) : s[k].rid # s[i].rid
    => (s[j].action = "inserted" <=> s[i].action = "removed")

LEMMA AppendedOther ==
  ASSUME NEW s \in Seq(Event), NEW event \in Event, NEW t, t = Append(s, event),
         NEW rid \in Rid, rid # event.rid
  PROVE  /\ Silent(t, rid) <=> Silent(s, rid)
         /\ \A actions : FirstIn(t, rid, actions) <=> FirstIn(s, rid, actions)
         /\ SomeRemoved(t, rid) <=> SomeRemoved(s, rid)
         /\ \A n \in Revision : OnlyInserted(t, rid, n) <=> OnlyInserted(s, rid, n)
         /\ \A n \in Revision : Told(s, rid, n) => Told(t, rid, n)
<1>1. /\ Len(s) \in Nat
      /\ DOMAIN s = 1..Len(s) /\ DOMAIN t = 1..(Len(s) + 1)
      /\ \A i \in 1..Len(s) : t[i] = s[i]
      /\ t[Len(s) + 1] = event
  OBVIOUS
<1>2. Silent(t, rid) <=> Silent(s, rid)
  BY <1>1 DEF Silent
<1>3. ASSUME NEW actions PROVE FirstIn(t, rid, actions) <=> FirstIn(s, rid, actions)
  <2>1. ASSUME NEW i \in DOMAIN s PROVE (\A k \in 1..(i - 1) : s[k].rid # rid) <=> (\A k \in 1..(i - 1) : t[k].rid # rid)
    BY <1>1
  <2> QED BY <1>1, <2>1 DEF FirstIn
<1>4. SomeRemoved(t, rid) <=> SomeRemoved(s, rid)
  BY <1>1 DEF SomeRemoved
<1>5. ASSUME NEW n \in Revision PROVE OnlyInserted(t, rid, n) <=> OnlyInserted(s, rid, n)
  BY <1>1 DEF OnlyInserted
<1>6. ASSUME NEW n \in Revision, Told(s, rid, n) PROVE Told(t, rid, n)
  <2>1. CASE Silent(s, rid)
    BY <1>2, <2>1 DEF Told
  <2>2. CASE ~Silent(s, rid)
    <3>1. PICK i \in DOMAIN s : /\ s[i].rid = rid
                                /\ \A k \in DOMAIN s : k > i => s[k].rid # rid
                                /\ IsCurrent(s[i], n)
      BY <1>6, <2>2 DEF Told
    <3>2. i \in DOMAIN t /\ t[i] = s[i] /\ \A k \in DOMAIN t : k > i => t[k].rid # rid
      BY <1>1, <3>1
    <3> QED BY <3>1, <3>2 DEF Told
  <2> QED BY <2>1, <2>2
<1> QED BY <1>2, <1>3, <1>4, <1>5, <1>6

LEMMA AppendedOwn ==
  ASSUME NEW s \in Seq(Event), NEW event \in Event, NEW t, t = Append(s, event),
         NEW rid \in Rid, rid = event.rid
  PROVE  /\ ~Silent(t, rid)
         /\ \A actions : Silent(s, rid) /\ event.action \in actions => FirstIn(t, rid, actions)
         /\ \A actions : ~Silent(s, rid) /\ FirstIn(s, rid, actions) => FirstIn(t, rid, actions)
         /\ SomeRemoved(s, rid) => SomeRemoved(t, rid)
         /\ \A n \in Revision : OnlyInserted(t, rid, n) => Silent(s, rid) /\ event.action = "inserted"
         /\ \A n \in Revision : IsCurrent(event, n) => Told(t, rid, n)
<1>1. /\ Len(s) \in Nat
      /\ DOMAIN s = 1..Len(s) /\ DOMAIN t = 1..(Len(s) + 1)
      /\ \A i \in 1..Len(s) : t[i] = s[i]
      /\ t[Len(s) + 1] = event
  OBVIOUS
<1>2. ~Silent(t, rid)
  BY <1>1 DEF Silent
<1>3. ASSUME NEW actions, Silent(s, rid), event.action \in actions
      PROVE  FirstIn(t, rid, actions)
  BY <1>1, <1>3 DEF FirstIn, Silent
<1>4. ASSUME NEW actions, ~Silent(s, rid), FirstIn(s, rid, actions)
      PROVE  FirstIn(t, rid, actions)
  <2>1. ASSUME NEW i \in DOMAIN t, t[i].rid = rid, \A k \in 1..(i - 1) : t[k].rid # rid
        PROVE  t[i].action \in actions
    <3>1. i # Len(s) + 1
      BY <1>1, <1>4, <2>1 DEF Silent
    <3>2. i \in DOMAIN s /\ t[i] = s[i] /\ \A k \in 1..(i - 1) : s[k].rid # rid
      BY <1>1, <2>1, <3>1
    <3> QED BY <1>4, <2>1, <3>2 DEF FirstIn
  <2> QED BY <2>1 DEF FirstIn
<1>5. SomeRemoved(s, rid) => SomeRemoved(t, rid)
  BY <1>1 DEF SomeRemoved
<1>6. ASSUME NEW n \in Revision, OnlyInserted(t, rid, n) PROVE Silent(s, rid) /\ event.action = "inserted"
  BY <1>1, <1>6 DEF OnlyInserted, Silent
<1>7. ASSUME NEW n \in Revision, IsCurrent(event, n) PROVE Told(t, rid, n)
  <2>1. Len(s) + 1 \in DOMAIN t /\ \A k \in DOMAIN t : ~(k > Len(s) + 1)
    BY <1>1
  <2> QED BY <1>1, <1>7, <2>1 DEF Told
<1> QED BY <1>2, <1>3, <1>4, <1>5, <1>6, <1>7

LEMMA AppendedAlternates ==
  ASSUME NEW s \in Seq(Event), NEW event \in Event, Alternates(s),
         NEW n \in Revision, Told(s, event.rid, n), event.action = "inserted" <=> n = None
  PROVE  Alternates(Append(s, event))
<1> DEFINE t == Append(s, event)
<1>1. /\ Len(s) \in Nat
      /\ DOMAIN s = 1..Len(s) /\ DOMAIN t = 1..(Len(s) + 1)
      /\ \A i \in 1..Len(s) : t[i] = s[i]
      /\ t[Len(s) + 1] = event
  OBVIOUS
<1> HIDE DEF t
<1>2. ASSUME NEW i \in DOMAIN t, NEW j \in DOMAIN t, i < j, t[i].rid = t[j].rid,
             \A k \in (i + 1)..(j - 1) : t[k].rid # t[i].rid
      PROVE  t[j].action = "inserted" <=> t[i].action = "removed"
  <2>1. CASE j \in DOMAIN s
    <3>1. i \in DOMAIN s /\ t[i] = s[i] /\ t[j] = s[j]
      BY <1>1, <1>2, <2>1
    <3>2. \A k \in (i + 1)..(j - 1) : s[k].rid # s[i].rid
      BY <1>1, <1>2, <2>1
    <3> QED BY <1>2, <2>1, <3>1, <3>2 DEF Alternates
  <2>2. CASE j \notin DOMAIN s
    <3>1. j = Len(s) + 1 /\ t[j] = event /\ i \in DOMAIN s /\ t[i] = s[i]
      BY <1>1, <1>2, <2>2
    <3>2. ~Silent(s, event.rid)
      BY <1>2, <3>1 DEF Silent
    <3>3. PICK last \in DOMAIN s : /\ s[last].rid = event.rid
                                   /\ \A k \in DOMAIN s : k > last => s[k].rid # event.rid
                                   /\ IsCurrent(s[last], n)
      BY <3>2 DEF Told
    <3>4. i = last
      <4>1. ~(i > last)
        BY <1>2, <3>1, <3>3
      <4>2. ~(i < last)
        <5>1. SUFFICES ASSUME i < last PROVE FALSE
          OBVIOUS
        <5>2. last \in (i + 1)..(j - 1) /\ t[last] = s[last]
          BY <1>1, <3>1, <3>3, <5>1
        <5> QED BY <1>2, <3>1, <3>3, <5>2
      <4> QED BY <1>1, <3>1, <3>3, <4>1, <4>2
    <3> QED BY <3>1, <3>3, <3>4 DEF IsCurrent
  <2> QED BY <2>1, <2>2
<1>3. Alternates(t)
  BY <1>2 DEF Alternates
<1> QED BY <1>3 DEF t

\* What an event that is taken leaves behind.
LEMMA TakenOther ==
  ASSUME NEW s \in Seq(Event), s # <<>>, NEW rid \in Rid, rid # Head(s).rid
  PROVE  /\ Silent(Tail(s), rid) <=> Silent(s, rid)
         /\ \A actions : FirstIn(s, rid, actions) => FirstIn(Tail(s), rid, actions)
         /\ SomeRemoved(Tail(s), rid) <=> SomeRemoved(s, rid)
         /\ \A n \in Revision : OnlyInserted(Tail(s), rid, n) => OnlyInserted(s, rid, n)
         /\ \A n \in Revision : Told(s, rid, n) => Told(Tail(s), rid, n)
<1> DEFINE t == Tail(s)
<1>1. /\ Len(s) \in Nat \ {0}
      /\ DOMAIN s = 1..Len(s) /\ DOMAIN t = 1..(Len(s) - 1)
      /\ \A i \in 1..(Len(s) - 1) : t[i] = s[i + 1]
      /\ s[1] = Head(s)
  OBVIOUS
<1> HIDE DEF t
<1>2. \A i \in DOMAIN t : i + 1 \in DOMAIN s /\ t[i] = s[i + 1]
  BY <1>1
<1>3. \A i \in DOMAIN s : s[i].rid = rid => i - 1 \in DOMAIN t /\ t[i - 1] = s[i]
  BY <1>1
<1>4. Silent(t, rid) <=> Silent(s, rid)
  BY <1>2, <1>3 DEF Silent
<1>5. ASSUME NEW actions, FirstIn(s, rid, actions)
      PROVE  FirstIn(t, rid, actions)
  <2>1. ASSUME NEW i \in DOMAIN t, t[i].rid = rid, \A k \in 1..(i - 1) : t[k].rid # rid
        PROVE  t[i].action \in actions
    <3>1. ASSUME NEW k \in 1..i PROVE s[k].rid # rid
      <4>1. CASE k = 1
        BY <1>1, <4>1
      <4>2. CASE k # 1
        <5>1. k - 1 \in 1..(i - 1) /\ k - 1 \in 1..(Len(s) - 1)
          BY <1>1, <2>1, <4>2
        <5>2. t[k - 1] = s[k]
          BY <1>1, <5>1
        <5> QED BY <2>1, <5>1, <5>2
      <4> QED BY <4>1, <4>2
    <3>2. i + 1 \in DOMAIN s /\ t[i] = s[i + 1] /\ (i + 1) - 1 = i
      BY <1>1, <1>2
    <3> QED BY <1>5, <2>1, <3>1, <3>2 DEF FirstIn
  <2> QED BY <2>1 DEF FirstIn
<1>6. SomeRemoved(t, rid) <=> SomeRemoved(s, rid)
  BY <1>2, <1>3 DEF SomeRemoved
<1>7. ASSUME NEW n \in Revision, OnlyInserted(t, rid, n) PROVE OnlyInserted(s, rid, n)
  <2>1. PICK i \in DOMAIN t : /\ t[i].rid = rid /\ t[i].action = "inserted" /\ t[i].revision = n
                              /\ \A k \in DOMAIN t : t[k].rid = rid => k = i
    BY <1>7 DEF OnlyInserted
  <2>2. ASSUME NEW k \in DOMAIN s, s[k].rid = rid PROVE k = i + 1
    BY <1>1, <1>3, <2>1, <2>2
  <2> QED BY <1>2, <2>1, <2>2 DEF OnlyInserted
<1>8. ASSUME NEW n \in Revision, Told(s, rid, n) PROVE Told(t, rid, n)
  <2>1. CASE Silent(s, rid)
    BY <1>4, <2>1 DEF Told
  <2>2. CASE ~Silent(s, rid)
    <3>1. PICK i \in DOMAIN s : /\ s[i].rid = rid
                                /\ \A k \in DOMAIN s : k > i => s[k].rid # rid
                                /\ IsCurrent(s[i], n)
      BY <1>8, <2>2 DEF Told
    <3>2. ASSUME NEW k \in DOMAIN t, k > i - 1 PROVE t[k].rid # rid
      BY <1>1, <1>2, <3>1, <3>2
    <3> QED BY <1>3, <3>1, <3>2 DEF Told
  <2> QED BY <2>1, <2>2
<1>9. QED BY <1>4, <1>5, <1>6, <1>7, <1>8 DEF t

LEMMA TakenOwn ==
  ASSUME NEW s \in Seq(Event), s # <<>>, NEW rid \in Rid, rid = Head(s).rid,
         Alternates(s), NEW n \in Revision, Told(s, rid, n)
  PROVE  /\ Told(Tail(s), rid, n)
         /\ Silent(Tail(s), rid) => IsCurrent(Head(s), n)
         /\ Silent(Tail(s), rid) /\ Head(s).action = "inserted" => OnlyInserted(s, rid, Head(s).revision)
         /\ \A actions : FirstIn(s, rid, actions) => Head(s).action \in actions
         /\ FirstIn(Tail(s), rid, IF Head(s).action = "removed" THEN {"inserted"} ELSE {"updated", "removed"})
         /\ Head(s).action # "removed" => (SomeRemoved(Tail(s), rid) <=> SomeRemoved(s, rid))
<1> DEFINE t == Tail(s)
<1>1. /\ Len(s) \in Nat \ {0}
      /\ DOMAIN s = 1..Len(s) /\ DOMAIN t = 1..(Len(s) - 1)
      /\ \A i \in 1..(Len(s) - 1) : t[i] = s[i + 1]
      /\ s[1] = Head(s)
  OBVIOUS
<1>0. \A i \in DOMAIN s : s[i] \in Event
  OBVIOUS
<1> HIDE DEF t
<1>2. \A i \in DOMAIN t : i + 1 \in DOMAIN s /\ t[i] = s[i + 1]
  BY <1>1
<1>3. \A i \in DOMAIN s : i # 1 => i - 1 \in DOMAIN t /\ t[i - 1] = s[i]
  BY <1>1
<1>4. PICK last \in DOMAIN s : /\ s[last].rid = rid
                               /\ \A k \in DOMAIN s : k > last => s[k].rid # rid
                               /\ IsCurrent(s[last], n)
  BY <1>1 DEF Told, Silent
<1>5. Told(t, rid, n)
  <2>1. CASE last = 1
    BY <1>1, <1>2, <1>4, <2>1 DEF Told, Silent
  <2>2. CASE last # 1
    <3>1. ASSUME NEW k \in DOMAIN t, k > last - 1 PROVE t[k].rid # rid
      BY <1>1, <1>2, <1>4, <3>1
    <3> QED BY <1>3, <1>4, <2>2, <3>1 DEF Told
  <2> QED BY <2>1, <2>2
<1>6. ASSUME Silent(t, rid) PROVE last = 1 /\ IsCurrent(Head(s), n) /\ \A k \in DOMAIN s : s[k].rid = rid => k = 1
  BY <1>1, <1>3, <1>4, <1>6 DEF Silent
<1>7. ASSUME Silent(t, rid), Head(s).action = "inserted" PROVE OnlyInserted(s, rid, Head(s).revision)
  BY <1>1, <1>6, <1>7 DEF OnlyInserted
<1>8. ASSUME NEW actions, FirstIn(s, rid, actions) PROVE Head(s).action \in actions
  BY <1>1, <1>8 DEF FirstIn
<1>9. ASSUME NEW i \in DOMAIN t, t[i].rid = rid, \A k \in 1..(i - 1) : t[k].rid # rid
      PROVE  t[i].action \in IF Head(s).action = "removed" THEN {"inserted"} ELSE {"updated", "removed"}
  <2>1. ASSUME NEW k \in 2..i PROVE s[k].rid # rid
    <3>1. k - 1 \in 1..(i - 1) /\ k - 1 \in DOMAIN t /\ t[k - 1] = s[k]
      BY <1>1
    <3> QED BY <1>9, <3>1
  <2>2. /\ 1 \in DOMAIN s /\ i + 1 \in DOMAIN s /\ 1 < i + 1 /\ t[i] = s[i + 1]
        /\ (1 + 1)..((i + 1) - 1) = 2..i
    BY <1>1, <1>2
  <2>3. s[i + 1].action = "inserted" <=> s[1].action = "removed"
    BY <1>1, <1>9, <2>1, <2>2 DEF Alternates
  <2>4. s[i + 1].action \in {"inserted", "updated", "removed"}
    BY <1>0, <2>2 DEF Event
  <2> QED BY <1>1, <2>2, <2>3, <2>4
<1>10. FirstIn(t, rid, IF Head(s).action = "removed" THEN {"inserted"} ELSE {"updated", "removed"})
  BY <1>9 DEF FirstIn
<1>11. ASSUME Head(s).action # "removed" PROVE SomeRemoved(t, rid) <=> SomeRemoved(s, rid)
  <2>1. ASSUME NEW i \in DOMAIN t, t[i].rid = rid, t[i].action = "removed" PROVE SomeRemoved(s, rid)
    BY <1>2, <2>1 DEF SomeRemoved
  <2>2. ASSUME NEW i \in DOMAIN s, s[i].rid = rid, s[i].action = "removed" PROVE SomeRemoved(t, rid)
    <3>1. i # 1
      BY <1>1, <1>11, <2>2
    <3> QED BY <1>3, <2>2, <3>1 DEF SomeRemoved
  <2> QED BY <2>1, <2>2 DEF SomeRemoved
<1> QED BY <1>5, <1>6, <1>7, <1>8, <1>10, <1>11 DEF t

LEMMA TakenAlternates ==
  ASSUME NEW s \in Seq(Event), s # <<>>, Alternates(s)
  PROVE  Alternates(Tail(s))
<1> DEFINE t == Tail(s)
<1>1. /\ Len(s) \in Nat \ {0}
      /\ DOMAIN s = 1..Len(s) /\ DOMAIN t = 1..(Len(s) - 1)
      /\ \A i \in 1..(Len(s) - 1) : t[i] = s[i + 1]
  OBVIOUS
<1> HIDE DEF t
<1>2. ASSUME NEW i \in DOMAIN t, NEW j \in DOMAIN t, i < j, t[i].rid = t[j].rid,
             \A k \in (i + 1)..(j - 1) : t[k].rid # t[i].rid
      PROVE  t[j].action = "inserted" <=> t[i].action = "removed"
  <2>1. /\ i + 1 \in DOMAIN s /\ j + 1 \in DOMAIN s /\ i + 1 < j + 1
        /\ t[i] = s[i + 1] /\ t[j] = s[j + 1]
    BY <1>1, <1>2
  <2>2. ASSUME NEW k \in ((i + 1) + 1)..((j + 1) - 1) PROVE s[k].rid # s[i + 1].rid
    <3>1. k - 1 \in (i + 1)..(j - 1) /\ k - 1 \in DOMAIN t /\ t[k - 1] = s[k]
      BY <1>1, <1>2, <2>1
    <3> QED BY <1>2, <2>1, <3>1
  <2> QED BY <1>2, <2>1, <2>2 DEF Alternates
<1>3. Alternates(t)
  BY <1>2 DEF Alternates
<1> QED BY <1>3 DEF t

-----------------------------------------------------------------------------
(***************************************************************************)
(* What the list and the stream have to do with a subscription while the   *)
(* list is being loaded and after that.                                    *)
(***************************************************************************)
On(list, rid) == \E i \in DOMAIN list : list[i].rid = rid

Showing(list, rid, revision) ==
  \E i \in DOMAIN list : list[i].rid = rid /\ list[i].subscription = revision

BeforeLoad(list, s, rid, revision) ==
  On(list, rid) =>
    /\ FirstIn(s, rid, {"updated", "removed"})
    /\ Silent(s, rid) => revision # None /\ Showing(list, rid, revision)

AfterLoad(list, s, rid, revision) ==
  /\ Silent(s, rid) => IF revision = None THEN ~On(list, rid) ELSE Showing(list, rid, revision)
  /\ ~On(list, rid) /\ ~SomeRemoved(s, rid) => FirstIn(s, rid, {"inserted"})
  /\ \A n \in Revision : On(list, rid) /\ OnlyInserted(s, rid, n) => Showing(list, rid, n)

SameRow(list, new, rid) ==
  /\ On(new, rid) <=> On(list, rid)
  /\ \A n \in Revision : Showing(new, rid, n) <=> Showing(list, rid, n)

SameNews(s, t, rid) ==
  /\ Silent(t, rid) <=> Silent(s, rid)
  /\ \A actions : FirstIn(s, rid, actions) => FirstIn(t, rid, actions)
  /\ SomeRemoved(t, rid) <=> SomeRemoved(s, rid)
  /\ \A n \in Revision : OnlyInserted(t, rid, n) => OnlyInserted(s, rid, n)

LEMMA Unconcerned ==
  ASSUME NEW list, NEW new, NEW s, NEW t, NEW rid, NEW n \in Revision,
         SameRow(list, new, rid), SameNews(s, t, rid)
  PROVE  /\ BeforeLoad(list, s, rid, n) => BeforeLoad(new, t, rid, n)
         /\ AfterLoad(list, s, rid, n) => AfterLoad(new, t, rid, n)
<1>1. ASSUME BeforeLoad(list, s, rid, n) PROVE BeforeLoad(new, t, rid, n)
  BY <1>1 DEF BeforeLoad, SameRow, SameNews
<1>2. ASSUME AfterLoad(list, s, rid, n) PROVE AfterLoad(new, t, rid, n)
  BY <1>2 DEF AfterLoad, SameRow, SameNews
<1> QED BY <1>1, <1>2

\* An event that is appended tells of a room that is entered exactly if it is
\* not subscribed to.
LEMMA Emitted ==
  ASSUME NEW list, NEW s \in Seq(Event), NEW event \in Event, NEW rid \in Rid, rid = event.rid,
         NEW n \in Revision, NEW m \in Revision, event.action = "inserted" <=> n = None
  PROVE  /\ BeforeLoad(list, s, rid, n) => BeforeLoad(list, Append(s, event), rid, m)
         /\ AfterLoad(list, s, rid, n) => AfterLoad(list, Append(s, event), rid, m)
<1> DEFINE t == Append(s, event)
<1>1. /\ ~Silent(t, rid)
      /\ \A actions : Silent(s, rid) /\ event.action \in actions => FirstIn(t, rid, actions)
      /\ \A actions : ~Silent(s, rid) /\ FirstIn(s, rid, actions) => FirstIn(t, rid, actions)
      /\ SomeRemoved(s, rid) => SomeRemoved(t, rid)
      /\ \A k \in Revision : OnlyInserted(t, rid, k) => Silent(s, rid) /\ event.action = "inserted"
  BY AppendedOwn
<1>2. event.action \in {"inserted", "updated", "removed"}
  BY DEF Event
<1> HIDE DEF t
<1>3. ASSUME BeforeLoad(list, s, rid, n) PROVE BeforeLoad(list, t, rid, m)
  BY <1>1, <1>2, <1>3 DEF BeforeLoad
<1>4. ASSUME AfterLoad(list, s, rid, n) PROVE AfterLoad(list, t, rid, m)
  <2>1. ~On(list, rid) /\ ~SomeRemoved(t, rid) => FirstIn(t, rid, {"inserted"})
    <3>1. CASE Silent(s, rid)
      <4>1. ~On(list, rid) => n = None
        BY <1>4, <3>1 DEF AfterLoad, On, Showing
      <4> QED BY <1>1, <3>1, <4>1
    <3>2. CASE ~Silent(s, rid)
      BY <1>1, <1>4, <3>2 DEF AfterLoad
    <3> QED BY <3>1, <3>2
  <2>2. \A k \in Revision : ~(On(list, rid) /\ OnlyInserted(t, rid, k))
    BY <1>1, <1>4 DEF AfterLoad
  <2> QED BY <1>1, <2>1, <2>2 DEF AfterLoad
<1> QED BY <1>3, <1>4 DEF t

\* An event that is taken removes the row, makes or updates it, or finds that
\* the loaded list was ahead of it.
LEMMA Taken ==
  ASSUME NEW list, NEW new, NEW s \in Seq(Event), s # <<>>, NEW event \in Event, event = Head(s),
         NEW rid \in Rid, rid = event.rid, NEW n \in Revision, Alternates(s), Told(s, rid, n)
  PROVE  /\ event.action = "removed" /\ ~On(new, rid)
              => BeforeLoad(new, Tail(s), rid, n) /\ AfterLoad(new, Tail(s), rid, n)
         /\ event.action # "removed" /\ On(new, rid) /\ Showing(new, rid, event.revision)
              => BeforeLoad(new, Tail(s), rid, n) /\ AfterLoad(new, Tail(s), rid, n)
         /\ event.action = "inserted" /\ On(list, rid) /\ new = list
              => /\ BeforeLoad(list, s, rid, n) => BeforeLoad(new, Tail(s), rid, n)
                 /\ AfterLoad(list, s, rid, n) => AfterLoad(new, Tail(s), rid, n)
         /\ event.action = "updated" /\ ~On(list, rid) /\ ~On(new, rid)
              => /\ BeforeLoad(list, s, rid, n) => BeforeLoad(new, Tail(s), rid, n)
                 /\ AfterLoad(list, s, rid, n) => AfterLoad(new, Tail(s), rid, n)
<1> DEFINE t == Tail(s)
<1>1. /\ Silent(t, rid) => IsCurrent(event, n)
      /\ Silent(t, rid) /\ event.action = "inserted" => OnlyInserted(s, rid, event.revision)
      /\ \A actions : FirstIn(s, rid, actions) => event.action \in actions
      /\ FirstIn(t, rid, IF event.action = "removed" THEN {"inserted"} ELSE {"updated", "removed"})
      /\ event.action # "removed" => (SomeRemoved(t, rid) <=> SomeRemoved(s, rid))
  BY TakenOwn
<1>0. \E length \in Nat : DOMAIN t = 1..length
  OBVIOUS
<1>2. \A k \in Revision : FirstIn(t, rid, {"updated", "removed"}) => ~OnlyInserted(t, rid, k)
  <2>1. SUFFICES ASSUME NEW k \in Revision, FirstIn(t, rid, {"updated", "removed"}), OnlyInserted(t, rid, k)
                 PROVE  FALSE
    OBVIOUS
  <2>2. PICK i \in DOMAIN t : /\ t[i].rid = rid /\ t[i].action = "inserted"
                              /\ \A j \in DOMAIN t : t[j].rid = rid => j = i
    BY <2>1 DEF OnlyInserted
  <2>3. \A j \in 1..(i - 1) : j \in DOMAIN t /\ j # i
    BY <1>0, <2>2
  <2> QED BY <2>1, <2>2, <2>3 DEF FirstIn
<1>3. event.revision \in Revision
  BY DEF Event
<1> HIDE DEF t
<1>4. ASSUME event.action = "removed", ~On(new, rid)
      PROVE  BeforeLoad(new, t, rid, n) /\ AfterLoad(new, t, rid, n)
  BY <1>1, <1>4 DEF BeforeLoad, AfterLoad, IsCurrent
<1>5. ASSUME event.action # "removed", On(new, rid), Showing(new, rid, event.revision)
      PROVE  BeforeLoad(new, t, rid, n) /\ AfterLoad(new, t, rid, n)
  BY <1>1, <1>2, <1>5 DEF BeforeLoad, AfterLoad, IsCurrent
<1>6. ASSUME event.action = "inserted", On(list, rid), BeforeLoad(list, s, rid, n)
      PROVE  BeforeLoad(list, t, rid, n)
  <2>1. "inserted" \in {"updated", "removed"}
    BY <1>1, <1>6 DEF BeforeLoad
  <2> QED BY <2>1
<1>7. ASSUME event.action = "inserted", On(list, rid), AfterLoad(list, s, rid, n)
      PROVE  AfterLoad(list, t, rid, n)
  <2>1. Silent(t, rid) => n # None /\ Showing(list, rid, n)
    BY <1>1, <1>3, <1>7 DEF AfterLoad, IsCurrent
  <2> QED BY <1>1, <1>2, <1>7, <2>1 DEF AfterLoad
<1>8. ASSUME event.action = "updated", ~On(list, rid), ~On(new, rid), AfterLoad(list, s, rid, n)
      PROVE  AfterLoad(new, t, rid, n)
  <2>1. SomeRemoved(s, rid)
    BY <1>1, <1>8 DEF AfterLoad
  <2>2. SomeRemoved(t, rid) /\ ~Silent(t, rid)
    BY <1>1, <1>8, <2>1 DEF SomeRemoved, Silent
  <2> QED BY <1>8, <2>2 DEF AfterLoad
<1>9. ~On(new, rid) => BeforeLoad(new, t, rid, n)
  BY DEF BeforeLoad
<1> QED BY <1>4, <1>5, <1>6, <1>7, <1>8, <1>9 DEF t

\* The list that is loaded holds what is subscribed to.
LEMMA Loaded ==
  ASSUME NEW list, NEW new, NEW s \in Seq(Event), NEW rid, NEW n \in Revision,
         Told(s, rid, n), BeforeLoad(list, s, rid, n),
         n = None => (On(new, rid) <=> On(list, rid)),
         n # None => On(new, rid),
         On(list, rid) => (Showing(list, rid, n) => Showing(new, rid, n)),
         ~On(list, rid) /\ n # None => Showing(new, rid, n)
  PROVE  AfterLoad(new, s, rid, n)
<1>1. Silent(s, rid) => IF n = None THEN ~On(new, rid) ELSE Showing(new, rid, n)
  BY DEF BeforeLoad
<1>2. ASSUME ~On(new, rid), ~SomeRemoved(s, rid)
      PROVE  FirstIn(s, rid, {"inserted"})
  <2>1. Silent(s, rid)
    BY <1>2 DEF Told, IsCurrent, SomeRemoved
  <2> QED BY <2>1 DEF Silent, FirstIn
<1>3. ASSUME NEW k \in Revision, OnlyInserted(s, rid, k)
      PROVE  Showing(new, rid, k)
  <2>1. PICK i \in DOMAIN s : /\ s[i].rid = rid /\ s[i].action = "inserted" /\ s[i].revision = k
                              /\ \A j \in DOMAIN s : s[j].rid = rid => j = i
    BY <1>3 DEF OnlyInserted
  <2>2. k = n /\ n # None
    BY <2>1 DEF Told, Silent, IsCurrent
  <2>3. ~On(list, rid)
    <3>1. ~FirstIn(s, rid, {"updated", "removed"})
      <4>1. \A j \in 1..(i - 1) : j \in DOMAIN s /\ j # i
        BY <2>1
      <4> QED BY <2>1, <4>1 DEF FirstIn
    <3> QED BY <3>1 DEF BeforeLoad
  <2> QED BY <2>2, <2>3
<1> QED BY <1>1, <1>2, <1>3 DEF AfterLoad

-----------------------------------------------------------------------------
\* What the operations of RoomModel do to the row of each room.
LEMMA UpdatedRooms ==
  ASSUME rows \in Seq(Row), NEW update, updateRooms(update), NEW rid
  PROVE  SameRow(rows, rows', rid)
<1>1. ASSUME NEW i \in DOMAIN rows
      PROVE  rows'[i].rid = rows[i].rid /\ rows'[i].subscription = rows[i].subscription
  <2>1. rows[i] \in Row
    OBVIOUS
  <2> QED BY <2>1 DEF updateRooms, Row
<1>2. DOMAIN rows' = DOMAIN rows
  BY DEF updateRooms
<1> QED BY <1>1, <1>2 DEF SameRow, On, Showing

LEMMA UpdatedSubscription ==
  ASSUME rows \in Seq(Row), NoDuplicates, NEW rid, NEW revision \in Revision,
         updateSubscriptionRoom(rid, revision)
  PROVE  /\ \A r : r # rid => SameRow(rows, rows', r)
         /\ On(rows', rid) <=> On(rows, rid)
         /\ On(rows, rid) => Showing(rows', rid, revision)
<1>1. ASSUME NEW i \in DOMAIN rows
      PROVE  /\ rows'[i].rid = rows[i].rid
             /\ rows[i].rid # rid => rows'[i].subscription = rows[i].subscription
             /\ rows[i].rid = rid => rows'[i].subscription = revision
  <2>1. rows[i] \in Row
    OBVIOUS
  <2>2. IsFirstRow(i)
    <3>1. \A j \in 1..(i - 1) : j \in DOMAIN rows /\ j # i
      OBVIOUS
    <3> QED BY <3>1 DEF NoDuplicates, IsFirstRow
  <2> QED BY <2>1, <2>2 DEF updateSubscriptionRoom, Row
<1>2. DOMAIN rows' = DOMAIN rows
  BY DEF updateSubscriptionRoom
<1> QED BY <1>1, <1>2 DEF SameRow, On, Showing

LEMMA Added ==
  ASSUME rows \in Seq(Row), NEW row \in Row, addRoom(row)
  PROVE  /\ \A r : r # row.rid => SameRow(rows, rows', r)
         /\ On(rows', row.rid)
         /\ IF On(rows, row.rid) THEN rows' = rows ELSE Showing(rows', row.rid, row.subscription)
<1>1. CASE Listed(row.rid)
  BY <1>1 DEF addRoom, SameRow, On, Listed
<1>2. CASE ~Listed(row.rid)
  <2>1. /\ DOMAIN rows = 1..Len(rows) /\ DOMAIN rows' = 1..(Len(rows) + 1)
        /\ Len(rows) \in Nat
        /\ \A i \in 1..Len(rows) : rows'[i] = rows[i]
        /\ rows'[Len(rows) + 1] = row
    BY <1>2 DEF addRoom
  <2>2. Len(rows) + 1 \in DOMAIN rows' /\ DOMAIN rows' = DOMAIN rows \cup {Len(rows) + 1}
    BY <2>1
  <2>3. \A r : r # row.rid => SameRow(rows, rows', r)
    BY <2>1, <2>2 DEF SameRow, On, Showing
  <2>4. ~On(rows, row.rid) /\ On(rows', row.rid) /\ Showing(rows', row.rid, row.subscription)
    BY <1>2, <2>1, <2>2 DEF On, Showing, Listed
  <2> QED BY <2>3, <2>4
<1> QED BY <1>1, <1>2

LEMMA Removed ==
  ASSUME rows \in Seq(Row), NoDuplicates, NEW rid, removeRoom(rid)
  PROVE  /\ \A r : r # rid => SameRow(rows, rows', r)
         /\ ~On(rows', rid)
<1>1. CASE ~Listed(rid) /\ UNCHANGED rows
  BY <1>1 DEF SameRow, On, Listed
<1>2. CASE \E k \in DOMAIN rows : rows[k].rid = rid /\ rows' = RemoveAt(rows, k)
  <2>1. PICK k \in 1..Len(rows) : rows[k].rid = rid /\ rows' = RemoveAt(rows, k)
    BY <1>2
  <2>0. /\ rows' \in Seq(Row) /\ Len(rows') = Len(rows) - 1
        /\ \A i \in 1..(Len(rows) - 1) : rows'[i] = IF i < k THEN rows[i] ELSE rows[i + 1]
    BY <2>1, RemoveAtLemma
  <2>2. /\ Len(rows) \in Nat
        /\ DOMAIN rows = 1..Len(rows) /\ DOMAIN rows' = 1..(Len(rows) - 1)
        /\ \A i \in 1..(Len(rows) - 1) : rows'[i] = IF i < k THEN rows[i] ELSE rows[i + 1]
    BY <2>0
  <2>3. \A i \in DOMAIN rows' : \E j \in DOMAIN rows : j # k /\ rows'[i] = rows[j]
    <3>1. ASSUME NEW i \in DOMAIN rows' PROVE \E j \in DOMAIN rows : j # k /\ rows'[i] = rows[j]
      <4>1. CASE i < k
        BY <2>2, <4>1
      <4>2. CASE ~(i < k)
        <5>1. i + 1 \in DOMAIN rows /\ i + 1 # k /\ rows'[i] = rows[i + 1]
          BY <2>2, <4>2
        <5> QED BY <5>1
      <4> QED BY <4>1, <4>2
    <3> QED BY <3>1
  <2>4. \A j \in DOMAIN rows : j # k => \E i \in DOMAIN rows' : rows'[i] = rows[j]
    <3>1. ASSUME NEW j \in DOMAIN rows, j # k PROVE \E i \in DOMAIN rows' : rows'[i] = rows[j]
      <4>1. CASE j < k
        <5>1. j \in DOMAIN rows' /\ rows'[j] = rows[j]
          BY <2>2, <4>1
        <5> QED BY <5>1
      <4>2. CASE ~(j < k)
        <5>1. j - 1 \in DOMAIN rows' /\ rows'[j - 1] = rows[j]
          BY <2>2, <3>1, <4>2
        <5> QED BY <5>1
      <4> QED BY <4>1, <4>2
    <3> QED BY <3>1
  <2>5. ~On(rows', rid)
    BY <2>1, <2>3 DEF NoDuplicates, On
  <2>6. ASSUME NEW r, r # rid PROVE SameRow(rows, rows', r)
    BY <2>1, <2>3, <2>4, <2>6 DEF SameRow, On, Showing
  <2> QED BY <2>5, <2>6
<1> QED BY <1>1, <1>2 DEF removeRoom

LEMMA LoadedRows ==
  ASSUME rows \in Seq(Row), NEW update \in [Rid -> Revision],
         NEW new, new = {rid \in Rid : update[rid] # None /\ ~Listed(rid)},
         NEW added \in SetToSeqs({SubscriptionRow(rid, update[rid]) : rid \in new}),
         rows' = rows \o added, NEW rid \in Rid
  PROVE  /\ On(rows', rid) <=> On(rows, rid) \/ update[rid] # None
         /\ \A n : Showing(rows, rid, n) => Showing(rows', rid, n)
         /\ ~On(rows, rid) /\ update[rid] # None => Showing(rows', rid, update[rid])
<1> DEFINE loaded == {SubscriptionRow(r, update[r]) : r \in new}
           f == [r \in new |-> SubscriptionRow(r, update[r])]
           size == Cardinality(loaded)
<1>1. size \in Nat /\ added \in [1..size -> loaded] /\ \A r \in loaded : \E i \in 1..size : added[i] = r
  <2>1. IsFiniteSet(new)
    BY RidAssumption, FS_Subset
  <2>2. f \in Surjection(new, loaded)
    BY DEF Surjection
  <2>3. IsFiniteSet(loaded)
    BY <2>1, <2>2, FS_Surjection, Zenon DEF ExistsSurjection
  <2>4. size \in Nat
    BY <2>3, FS_CardinalityType
  <2>5. added \in [1..size -> loaded] /\ \A i, j \in 1..size : i # j => added[i] # added[j]
    BY Zenon DEF SetToSeqs
  <2> HIDE DEF loaded, size
  <2>6. added \in Injection(1..size, loaded)
    BY <2>5 DEF Injection, IsInjective
  <2>7. Cardinality(1..size) = size
    BY <2>4, FS_Interval
  <2>8. added \in Surjection(1..size, loaded)
    BY <2>3, <2>6, <2>7, FS_Injection DEF size
  <2> QED BY <2>4, <2>5, <2>8 DEF Surjection
<1>2. loaded \subseteq Row
  BY MaxChangesAssumption DEF SubscriptionRow, Row, None, Revision
<1>3. \A r \in loaded : r.rid \in new /\ r.subscription = update[r.rid]
  BY DEF SubscriptionRow
<1>4. ASSUME NEW r \in new PROVE \E row \in loaded : row.rid = r
  <2>1. SubscriptionRow(r, update[r]) \in loaded
    OBVIOUS
  <2>2. SubscriptionRow(r, update[r]).rid = r
    BY DEF SubscriptionRow
  <2> QED BY <2>1, <2>2, Zenon
<1> HIDE DEF loaded, size
<1>5. added \in Seq(Row) /\ Len(added) = size
  BY <1>1, <1>2
<1>6. /\ DOMAIN rows = 1..Len(rows) /\ Len(rows) \in Nat
      /\ DOMAIN rows' = 1..(Len(rows) + size)
      /\ \A i \in 1..Len(rows) : rows'[i] = rows[i]
      /\ \A i \in 1..size : rows'[Len(rows) + i] = added[i]
      /\ \A i \in 1..(Len(rows) + size) :
           i \notin 1..Len(rows) => i - Len(rows) \in 1..size /\ i = Len(rows) + (i - Len(rows))
  <2>1. /\ rows' \in Seq(Row) /\ Len(rows') = Len(rows) + size
        /\ \A i \in 1..(Len(rows) + size) :
             rows'[i] = IF i <= Len(rows) THEN rows[i] ELSE added[i - Len(rows)]
    BY <1>5, ConcatProperties
  <2>2. DOMAIN rows = 1..Len(rows) /\ Len(rows) \in Nat /\ DOMAIN rows' = 1..(Len(rows) + size)
    BY <1>1, <2>1
  <2>3. \A i \in 1..Len(rows) : i \in 1..(Len(rows) + size) /\ i <= Len(rows)
    BY <1>1, <2>2
  <2>4. ASSUME NEW i \in 1..size PROVE rows'[Len(rows) + i] = added[i]
    <3>1. Len(rows) + i \in 1..(Len(rows) + size) /\ ~(Len(rows) + i <= Len(rows)) /\ (Len(rows) + i) - Len(rows) = i
      BY <1>1, <2>2
    <3> QED BY <2>1, <3>1
  <2>5. \A i \in 1..(Len(rows) + size) :
          i \notin 1..Len(rows) => i - Len(rows) \in 1..size /\ i = Len(rows) + (i - Len(rows))
    BY <1>1, <2>2
  <2> QED BY <2>1, <2>2, <2>3, <2>4, <2>5
<1>7. \A i \in DOMAIN rows : i \in DOMAIN rows' /\ rows'[i] = rows[i]
  BY <1>1, <1>6
<1>8. \A r \in loaded : \E i \in DOMAIN rows' : rows'[i] = r
  <2>1. ASSUME NEW r \in loaded PROVE \E i \in DOMAIN rows' : rows'[i] = r
    <3>1. PICK i \in 1..size : added[i] = r
      BY <1>1
    <3>2. Len(rows) + i \in DOMAIN rows' /\ rows'[Len(rows) + i] = r
      BY <1>1, <1>6, <3>1
    <3> QED BY <3>2
  <2> QED BY <2>1
<1>9. \A i \in DOMAIN rows' : (i \in DOMAIN rows /\ rows'[i] = rows[i]) \/ rows'[i] \in loaded
  <2>1. ASSUME NEW i \in DOMAIN rows', i \notin DOMAIN rows PROVE rows'[i] \in loaded
    <3>1. PICK j \in 1..size : i = Len(rows) + j
      BY <1>6, <2>1
    <3> QED BY <1>1, <1>6, <3>1
  <2> QED BY <1>7, <2>1
<1>10. Listed(rid) <=> On(rows, rid)
  BY DEF Listed, On
<1>11. \A n : Showing(rows, rid, n) => Showing(rows', rid, n)
  BY <1>7 DEF Showing
<1>12. On(rows, rid) => On(rows', rid)
  BY <1>7 DEF On
<1>13. ASSUME rid \in new PROVE On(rows', rid) /\ Showing(rows', rid, update[rid])
  BY <1>3, <1>4, <1>8, <1>13 DEF On, Showing
<1>14. ASSUME On(rows', rid) PROVE On(rows, rid) \/ update[rid] # None
  BY <1>3, <1>9, <1>14 DEF On
<1> QED BY <1>10, <1>11, <1>12, <1>13, <1>14

-----------------------------------------------------------------------------
(***************************************************************************)
(* The list follows the subscriptions.                                     *)
(***************************************************************************)
Heard == "subscriptions-changed" \in streams
Loads(call) == call.method = "subscriptions/get"
Loading == \E call \in calls : Loads(call)

OneLoad == \A c, d \in calls : Loads(c) /\ Loads(d) => c = d

Unheard == ~Heard => subscriptionEvents = <<>>

AllTold == \A rid \in Rid : Told(subscriptionEvents, rid, subscription[rid])

FollowsAt(rid) ==
  IF Loading
  THEN /\ ~Heard => ~On(rows, rid)
       /\ BeforeLoad(rows, subscriptionEvents, rid, subscription[rid])
       /\ \A call \in calls : Loads(call) /\ call.answered => call.update[rid] = subscription[rid]
  ELSE AfterLoad(rows, subscriptionEvents, rid, subscription[rid])

FollowsInv ==
  /\ OneLoad
  /\ Unheard
  /\ AllTold
  /\ Alternates(subscriptionEvents)
  /\ \A rid \in Rid \ overtaken : FollowsAt(rid)

\* A stream that is as it was says what it said.
LEMMA SameStream ==
  ASSUME NEW s, NEW rid
  PROVE  SameNews(s, s, rid)
BY DEF SameNews

LEMMA SameList ==
  ASSUME NEW list, NEW rid
  PROVE  SameRow(list, list, rid)
BY DEF SameRow

LEMMA FollowsInit == Init => FollowsInv
<1> SUFFICES ASSUME Init PROVE FollowsInv
  OBVIOUS
<1>1. calls = {Asked("subscriptions/get")} /\ ~Asked("subscriptions/get").answered
  BY DEF Init, Asked
<1>2. OneLoad /\ Loading
  BY <1>1 DEF OneLoad, Loading, Loads, Asked
<1>3. subscriptionEvents = <<>> /\ DOMAIN subscriptionEvents = {} /\ rows = <<>> /\ DOMAIN rows = {}
  BY DEF Init
<1>4. Unheard /\ AllTold /\ Alternates(subscriptionEvents)
  BY <1>3 DEF Unheard, AllTold, Told, Silent, Alternates
<1>5. ASSUME NEW rid \in Rid PROVE FollowsAt(rid)
  BY <1>1, <1>2, <1>3 DEF FollowsAt, BeforeLoad, On
<1> QED BY <1>2, <1>4, <1>5 DEF FollowsInv

\* A step of others: the rows stay of the rooms that are followed.
LEMMA OtherStep ==
  ASSUME TypeOK, FollowsInv, UNCHANGED <<subscription, subscriptionEvents>>,
         overtaken \subseteq overtaken', streams \subseteq streams',
         \A call : Loads(call) => (call \in calls' <=> call \in calls),
         \A rid \in Rid \ overtaken' : SameRow(rows, rows', rid)
  PROVE  FollowsInv'
<1>1. OneLoad' /\ Unheard' /\ AllTold'
  BY DEF FollowsInv, OneLoad, Unheard, AllTold, Heard, Loads
<1>2. Alternates(subscriptionEvents)'
  BY DEF FollowsInv
<1>3. ASSUME NEW rid \in Rid \ overtaken' PROVE FollowsAt(rid)'
  <2>1. FollowsAt(rid) /\ SameRow(rows, rows', rid) /\ subscription[rid] \in Revision
    BY DEF FollowsInv, TypeOK
  <2>2. /\ BeforeLoad(rows, subscriptionEvents, rid, subscription[rid])
             => BeforeLoad(rows', subscriptionEvents, rid, subscription[rid])
        /\ AfterLoad(rows, subscriptionEvents, rid, subscription[rid])
             => AfterLoad(rows', subscriptionEvents, rid, subscription[rid])
    BY <2>1, Unconcerned, SameStream
  <2>3. Loading' <=> Loading
    BY DEF Loading
  <2>4. ~Heard' => ~Heard
    BY DEF Heard
  <2>5. On(rows', rid) <=> On(rows, rid)
    BY <2>1 DEF SameRow
  <2> QED BY <2>1, <2>2, <2>3, <2>4, <2>5 DEF FollowsAt
<1> QED BY <1>1, <1>2, <1>3 DEF FollowsInv

LEMMA AnswerStep ==
  ASSUME TypeOK, FollowsInv, NEW call \in calls, Answer(call)
  PROVE  FollowsInv'
<1>0. UNCHANGED <<subscription, subscriptionEvents, streams, rows, overtaken>>
  BY DEF Answer, server
<1>1. CASE ~Loads(call)
  <2>1. \A c : Loads(c) => (c \in calls' <=> c \in calls)
    BY <1>1 DEF TypeOK, Call, Loads, Answer
  <2> QED BY <1>0, <2>1, OtherStep, SameList
<1>2. CASE Loads(call)
  <2>1. call \in Call
    BY DEF TypeOK
  <2>2. PICK new : /\ new = [call EXCEPT !.answered = TRUE, !.update = subscription]
                   /\ calls' = (calls \ {call}) \cup {new}
    BY <1>2 DEF Answer, Loads
  <2>3. Loads(new) /\ new.update = subscription
    BY <1>2, <2>1, <2>2 DEF Call, Loads
  <2>4. \A c \in calls' : Loads(c) => c = new
    BY <1>2, <2>2 DEF FollowsInv, OneLoad
  <2>5. Loading /\ Loading'
    BY <1>2, <2>2, <2>3 DEF Loading
  <2>6. OneLoad' /\ Unheard' /\ AllTold' /\ Alternates(subscriptionEvents)'
    BY <1>0, <2>4 DEF FollowsInv, OneLoad, Unheard, AllTold, Heard
  <2>7. ASSUME NEW rid \in Rid \ overtaken' PROVE FollowsAt(rid)'
    <3>1. FollowsAt(rid)
      BY <1>0 DEF FollowsInv
    <3>2. \A c \in calls' : Loads(c) => c.update[rid] = subscription[rid]
      BY <2>3, <2>4
    <3> QED BY <1>0, <2>5, <3>1, <3>2 DEF FollowsAt, Heard
  <2> QED BY <2>6, <2>7 DEF FollowsInv
<1> QED BY <1>1, <1>2

\* A subscription changes, and is told of if the stream is heard.
LEMMA SubscriptionStep ==
  ASSUME TypeOK, TypeOK', FollowsInv, Change, NEW rid \in Rid,
         NEW action \in {"inserted", "updated", "removed"}, SubscriptionChanged(action, rid),
         action = "inserted" <=> subscription[rid] = None
  PROVE  FollowsInv'
<1> DEFINE s == subscriptionEvents
<1>1. UNCHANGED <<calls, streams, rows>> /\ changes' \in Revision /\ changes' # None
  BY ChangeLemma DEF Change, TypeOK, None
<1>2. /\ subscription'[rid] = IF action = "removed" THEN None ELSE changes'
      /\ \A r \in Rid : r # rid => subscription'[r] = subscription[r]
      /\ \A r \in Rid : subscription[r] \in Revision /\ subscription'[r] \in Revision
  BY <1>1 DEF TypeOK, SubscriptionChanged
<1>3. PICK event \in Event : event = [action |-> action, rid |-> rid, revision |-> changes']
  BY <1>1 DEF Event
<1>4. event.rid = rid /\ event.action = action /\ IsCurrent(event, subscription'[rid])
  BY <1>1, <1>2, <1>3 DEF IsCurrent
<1>5. s \in Seq(Event)
  BY DEF TypeOK
<1>6. IF Heard THEN subscriptionEvents' = Append(s, event) ELSE UNCHANGED subscriptionEvents
  BY <1>3 DEF SubscriptionChanged, EmitSubscription, Heard
<1>7. OneLoad' /\ Unheard' /\ (Loading' <=> Loading) /\ (Heard' <=> Heard)
  BY <1>1, <1>6 DEF FollowsInv, OneLoad, Unheard, Heard, Loading
<1>8. ~Heard => s = <<>> /\ \A r : Silent(s, r)
  BY DEF FollowsInv, Unheard, Silent
<1> HIDE DEF s
<1>9. AllTold'
  <2>1. ASSUME NEW r \in Rid PROVE Told(subscriptionEvents', r, subscription'[r])
    <3>1. Told(s, r, subscription[r])
      BY DEF FollowsInv, AllTold, s
    <3>2. CASE ~Heard
      BY <1>6, <1>8, <3>2 DEF Told, s
    <3>3. CASE Heard /\ r = rid
      BY <1>2, <1>4, <1>5, <1>6, <3>3, AppendedOwn
    <3>4. CASE Heard /\ r # rid
      BY <1>2, <1>4, <1>5, <1>6, <3>1, <3>4, AppendedOther
    <3> QED BY <3>2, <3>3, <3>4
  <2> QED BY <2>1 DEF AllTold
<1>10. Alternates(subscriptionEvents)'
  <2>1. Alternates(s) /\ Told(s, rid, subscription[rid])
    BY DEF FollowsInv, AllTold, s
  <2>2. CASE Heard
    <3>1. Alternates(Append(s, event))
      BY <1>2, <1>4, <1>5, <2>1, AppendedAlternates
    <3>2. subscriptionEvents' = Append(s, event)
      BY <1>6, <2>2
    <3>3. Alternates(subscriptionEvents')
      BY <3>1, <3>2
    <3> QED BY <3>3
  <2>3. CASE ~Heard
    <3>1. Alternates(subscriptionEvents')
      BY <1>6, <2>1, <2>3 DEF s
    <3> QED BY <3>1
  <2> QED BY <2>2, <2>3
<1>11. ASSUME NEW r \in Rid \ overtaken', r # rid PROVE FollowsAt(r)'
  <2>1. FollowsAt(r)
    BY <1>11 DEF FollowsInv, SubscriptionChanged
  <2>2. SameNews(s, subscriptionEvents', r)
    <3>1. CASE Heard
      BY <1>4, <1>5, <1>6, <1>11, <3>1, AppendedOther DEF SameNews
    <3>2. CASE ~Heard
      BY <1>6, <3>2, SameStream DEF s
    <3> QED BY <3>1, <3>2
  <2>3. /\ BeforeLoad(rows, s, r, subscription[r]) => BeforeLoad(rows, subscriptionEvents', r, subscription[r])
        /\ AfterLoad(rows, s, r, subscription[r]) => AfterLoad(rows, subscriptionEvents', r, subscription[r])
    BY <1>2, <2>2, Unconcerned, SameList
  <2> QED BY <1>1, <1>2, <1>7, <1>11, <2>1, <2>3 DEF FollowsAt, s
<1>12. ASSUME rid \notin overtaken' PROVE FollowsAt(rid)'
  <2>1. FollowsAt(rid) /\ TooEarly("subscriptions/get", "subscriptions-changed", rid) = {}
    BY <1>12 DEF FollowsInv, SubscriptionChanged, TooEarly
  <2>2. Unanswered("subscriptions/get") \/ (Heard /\ ~Answered("subscriptions/get"))
    BY <2>1 DEF TooEarly, Heard
  <2>3. \A call \in calls : Loads(call) => ~call.answered
    BY <2>2 DEF FollowsInv, OneLoad, Loads, Unanswered, Answered
  <2>4. CASE Heard
    <3>1. /\ BeforeLoad(rows, s, rid, subscription[rid])
               => BeforeLoad(rows, Append(s, event), rid, subscription'[rid])
          /\ AfterLoad(rows, s, rid, subscription[rid])
               => AfterLoad(rows, Append(s, event), rid, subscription'[rid])
      BY <1>2, <1>4, <1>5, Emitted
    <3>2. subscriptionEvents' = Append(s, event)
      BY <1>6, <2>4
    <3>3. /\ BeforeLoad(rows, s, rid, subscription[rid])
               => BeforeLoad(rows', subscriptionEvents', rid, subscription'[rid])
          /\ AfterLoad(rows, s, rid, subscription[rid])
               => AfterLoad(rows', subscriptionEvents', rid, subscription'[rid])
      BY <1>1, <3>1, <3>2
    <3> QED BY <1>1, <1>7, <2>1, <2>3, <2>4, <3>3 DEF FollowsAt, s
  <2>5. CASE ~Heard
    <3>1. Loading /\ ~On(rows, rid)
      BY <2>1, <2>2, <2>5 DEF FollowsAt, Loading, Loads, Unanswered
    <3>2. BeforeLoad(rows', subscriptionEvents', rid, subscription'[rid]) /\ ~On(rows', rid)
      BY <1>1, <3>1 DEF BeforeLoad
    <3> QED BY <1>1, <1>7, <2>3, <3>1, <3>2 DEF FollowsAt
  <2> QED BY <2>4, <2>5
<1>13. \A r \in Rid \ overtaken' : FollowsAt(r)'
  BY <1>11, <1>12
<1> QED BY <1>7, <1>9, <1>10, <1>13 DEF FollowsInv

\* An event of the stream is taken.
LEMMA EventStep ==
  ASSUME IInv, FollowsInv, SubscriptionEvent
  PROVE  FollowsInv'
<1> DEFINE s == subscriptionEvents
<1>0. UNCHANGED <<subscription, streams, calls>> /\ s # <<>> /\ subscriptionEvents' = Tail(s)
  BY DEF SubscriptionEvent, server
<1>1. s \in Seq(Event) /\ rows \in Seq(Row) /\ NoDuplicates
  BY DEF IInv, TypeOK
<1>2. PICK event \in Event : event = Head(s)
  BY <1>0, <1>1, HeadLemma
<1>3. PICK rid \in Rid : rid = event.rid
  BY DEF Event
<1>4. event.revision \in Revision /\ event.action \in {"inserted", "updated", "removed"}
  BY DEF Event
<1>5. \A r \in Rid : subscription[r] \in Revision /\ Told(s, r, subscription[r])
  BY DEF IInv, TypeOK, FollowsInv, AllTold
<1>6. Alternates(s) /\ Heard
  BY <1>0 DEF FollowsInv, Unheard
<1>7. OneLoad' /\ Unheard' /\ (Loading' <=> Loading) /\ Heard'
  BY <1>0, <1>6 DEF FollowsInv, OneLoad, Unheard, Heard, Loading
<1>8. \/ event.action = "removed" /\ removeRoom(rid)
      \/ event.action = "inserted" /\ addRoom(SubscriptionRow(rid, event.revision))
      \/ event.action = "updated" /\ updateSubscriptionRoom(rid, event.revision)
  BY <1>2, <1>3 DEF SubscriptionEvent
<1>9. IF \/ Answered("subscriptions/get")
         \/ event.action = "inserted" /\ Listed(rid)
         \/ event.action = "updated" /\ ~Listed(rid)
      THEN overtaken' = overtaken ELSE overtaken' = overtaken \ {rid}
  BY <1>2, <1>3 DEF SubscriptionEvent
<1> HIDE DEF s
<1>10. AllTold'
  <2>1. ASSUME NEW r \in Rid PROVE Told(Tail(s), r, subscription[r])
    <3>1. CASE r = rid
      BY <1>0, <1>1, <1>2, <1>3, <1>5, <1>6, <3>1, TakenOwn
    <3>2. CASE r # rid
      BY <1>0, <1>1, <1>2, <1>3, <1>5, <3>2, TakenOther
    <3> QED BY <3>1, <3>2
  <2> QED BY <1>0, <2>1 DEF AllTold
<1>11. Alternates(subscriptionEvents)'
  <2>1. Alternates(Tail(s))
    BY <1>0, <1>1, <1>6, TakenAlternates
  <2>2. Alternates(subscriptionEvents')
    BY <1>0, <2>1
  <2> QED BY <2>2
<1>12. /\ \A r : r # rid => SameRow(rows, rows', r)
       /\ event.action = "removed" => ~On(rows', rid)
       /\ event.action = "inserted" => On(rows', rid)
       /\ event.action = "inserted" => IF On(rows, rid) THEN rows' = rows ELSE Showing(rows', rid, event.revision)
       /\ event.action = "updated" => (On(rows', rid) <=> On(rows, rid))
       /\ event.action = "updated" /\ On(rows, rid) => Showing(rows', rid, event.revision)
  <2>1. CASE event.action = "removed" /\ removeRoom(rid)
    BY <1>1, <2>1, Removed
  <2>2. CASE event.action = "inserted" /\ addRoom(SubscriptionRow(rid, event.revision))
    <3>1. PICK row \in Row : row = SubscriptionRow(rid, event.revision)
      BY <1>4, RowLemma
    <3>2. row.rid = rid /\ row.subscription = event.revision /\ addRoom(row)
      BY <2>2, <3>1 DEF SubscriptionRow
    <3> QED BY <1>1, <2>2, <3>2, Added
  <2>3. CASE event.action = "updated" /\ updateSubscriptionRoom(rid, event.revision)
    BY <1>1, <1>4, <2>3, UpdatedSubscription
  <2> QED BY <1>8, <2>1, <2>2, <2>3
<1>13. ASSUME NEW r \in Rid \ overtaken', r # rid PROVE FollowsAt(r)'
  <2>1. FollowsAt(r) /\ SameRow(rows, rows', r)
    BY <1>9, <1>12, <1>13 DEF FollowsInv
  <2>2. SameNews(s, Tail(s), r)
    BY <1>0, <1>1, <1>2, <1>3, <1>13, TakenOther DEF SameNews
  <2>3. /\ BeforeLoad(rows, s, r, subscription[r]) => BeforeLoad(rows', Tail(s), r, subscription[r])
        /\ AfterLoad(rows, s, r, subscription[r]) => AfterLoad(rows', Tail(s), r, subscription[r])
    BY <1>5, <2>1, <2>2, Unconcerned
  <2> QED BY <1>0, <1>7, <2>1, <2>3 DEF FollowsAt, s
<1>14. ASSUME rid \notin overtaken' PROVE FollowsAt(rid)'
  <2> DEFINE n == subscription[rid]
  <2>1. /\ event.action = "removed" /\ ~On(rows', rid)
             => BeforeLoad(rows', Tail(s), rid, n) /\ AfterLoad(rows', Tail(s), rid, n)
        /\ event.action # "removed" /\ On(rows', rid) /\ Showing(rows', rid, event.revision)
             => BeforeLoad(rows', Tail(s), rid, n) /\ AfterLoad(rows', Tail(s), rid, n)
        /\ event.action = "inserted" /\ On(rows, rid) /\ rows' = rows
             => /\ BeforeLoad(rows, s, rid, n) => BeforeLoad(rows', Tail(s), rid, n)
                /\ AfterLoad(rows, s, rid, n) => AfterLoad(rows', Tail(s), rid, n)
        /\ event.action = "updated" /\ ~On(rows, rid) /\ ~On(rows', rid)
             => /\ BeforeLoad(rows, s, rid, n) => BeforeLoad(rows', Tail(s), rid, n)
                /\ AfterLoad(rows, s, rid, n) => AfterLoad(rows', Tail(s), rid, n)
    BY <1>0, <1>1, <1>2, <1>3, <1>5, <1>6, Taken
  <2>2. Listed(rid) <=> On(rows, rid)
    BY DEF Listed, On
  <2>3. CASE rid \in overtaken
    <3>1. ~Answered("subscriptions/get") /\ BeforeLoad(rows', Tail(s), rid, n) /\ AfterLoad(rows', Tail(s), rid, n)
      BY <1>4, <1>9, <1>12, <1>14, <2>1, <2>2, <2>3
    <3>2. \A call \in calls : Loads(call) => ~call.answered
      BY <3>1 DEF Answered, Loads
    <3> QED BY <1>0, <1>7, <3>1, <3>2 DEF FollowsAt
  <2>4. CASE rid \notin overtaken
    <3>1. FollowsAt(rid)
      BY <2>4 DEF FollowsInv
    <3>2. /\ BeforeLoad(rows, s, rid, n) => BeforeLoad(rows', Tail(s), rid, n)
          /\ AfterLoad(rows, s, rid, n) => AfterLoad(rows', Tail(s), rid, n)
      BY <1>4, <1>12, <2>1
    <3> QED BY <1>0, <1>7, <3>1, <3>2 DEF FollowsAt, s
  <2> QED BY <2>3, <2>4
<1>15. \A r \in Rid \ overtaken' : FollowsAt(r)'
  BY <1>13, <1>14
<1> QED BY <1>7, <1>10, <1>11, <1>15 DEF FollowsInv

\* An event of the other stream leaves the rows of the rooms that are followed.
LEMMA RoomEventStep ==
  ASSUME IInv, FollowsInv, RoomEvent
  PROVE  FollowsInv'
<1>1. PICK event \in Event : event = Head(roomEvents)
  BY HeadLemma DEF IInv, TypeOK, RoomEvent
<1>2. event.rid \in Rid /\ event.revision \in Revision /\ rows \in Seq(Row)
  BY DEF Event, IInv, TypeOK
<1>3. UNCHANGED <<subscription, subscriptionEvents, streams, calls>>
  BY DEF RoomEvent, server
<1>4. overtaken \subseteq overtaken' /\ \A rid \in Rid \ overtaken' : SameRow(rows, rows', rid)
  <2>1. CASE event.action = "updated" /\ updateRoom(event.rid, event.revision) /\ UNCHANGED overtaken
    BY <1>2, <2>1, UpdatedRooms DEF updateRoom
  <2>2. CASE /\ addRoom(RoomRow(event.rid, event.revision))
             /\ overtaken' = IF Listed(event.rid) THEN overtaken ELSE overtaken \cup {event.rid}
    <3>1. PICK row \in Row : row = RoomRow(event.rid, event.revision)
      BY <1>2, RowLemma
    <3>2. row.rid = event.rid /\ addRoom(row)
      BY <2>2, <3>1 DEF RoomRow
    <3>3. \A r : r # event.rid => SameRow(rows, rows', r)
      BY <1>2, <3>2, Added
    <3>4. CASE Listed(event.rid)
      BY <2>2, <3>2, <3>4, SameList DEF addRoom
    <3>5. CASE ~Listed(event.rid)
      BY <2>2, <3>3, <3>5
    <3> QED BY <3>4, <3>5
  <2>3. CASE UNCHANGED <<rows, overtaken>>
    BY <2>3, SameList
  <2> QED BY <1>1, <2>1, <2>2, <2>3 DEF RoomEvent
<1> QED BY <1>3, <1>4, OtherStep DEF IInv

\* The list is loaded.
LEMMA LoadStep ==
  ASSUME IInv, FollowsInv, NEW call \in calls, getsubscriptionParsing(call)
  PROVE  FollowsInv'
<1>0. UNCHANGED <<subscription, subscriptionEvents, streams, overtaken>>
  BY DEF getsubscriptionParsing, server
<1>1. /\ call.update \in [Rid -> Revision] /\ rows \in Seq(Row)
      /\ \A rid \in Rid : subscription[rid] \in Revision
  BY DEF IInv, TypeOK, Call
<1>2. Loads(call) /\ call.answered /\ Loading
  BY DEF getsubscriptionParsing, Loads, Loading
<1>3. \A c \in calls' : ~Loads(c)
  BY <1>2 DEF getsubscriptionParsing, FollowsInv, OneLoad, Loads, Asked
<1>4. OneLoad' /\ Unheard' /\ AllTold' /\ Alternates(subscriptionEvents)' /\ ~Loading'
  BY <1>0, <1>3 DEF FollowsInv, OneLoad, Unheard, AllTold, Heard, Loading
<1>5. ASSUME NEW rid \in Rid \ overtaken' PROVE FollowsAt(rid)'
  <2> DEFINE new == {r \in Rid : call.update[r] # None /\ ~Listed(r)}
  <2>1. PICK added \in SetToSeqs({SubscriptionRow(r, call.update[r]) : r \in new}) : rows' = rows \o added
    BY Zenon DEF getsubscriptionParsing
  <2>2. /\ On(rows', rid) <=> On(rows, rid) \/ call.update[rid] # None
        /\ \A n : Showing(rows, rid, n) => Showing(rows', rid, n)
        /\ ~On(rows, rid) /\ call.update[rid] # None => Showing(rows', rid, call.update[rid])
    <3> HIDE DEF new
    <3>1. new = {r \in Rid : call.update[r] # None /\ ~Listed(r)}
      BY DEF new
    <3> QED BY <1>1, <2>1, <3>1, LoadedRows
  <2>3. FollowsAt(rid) /\ Told(subscriptionEvents, rid, subscription[rid])
    BY <1>0, <1>5 DEF FollowsInv, AllTold
  <2>4. BeforeLoad(rows, subscriptionEvents, rid, subscription[rid]) /\ call.update[rid] = subscription[rid]
    BY <1>2, <2>3 DEF FollowsAt
  <2>5. subscriptionEvents \in Seq(Event)
    BY DEF IInv, TypeOK
  <2>6. AfterLoad(rows', subscriptionEvents, rid, subscription[rid])
    BY <1>1, <2>2, <2>3, <2>4, <2>5, Loaded
  <2> QED BY <1>0, <1>4, <2>6 DEF FollowsAt
<1> QED BY <1>4, <1>5 DEF FollowsInv

LEMMA FollowsStep ==
  ASSUME IInv, IInv', FollowsInv, [Next]_vars
  PROVE  FollowsInv'
<1>0. TypeOK /\ TypeOK' /\ rows \in Seq(Row)
  BY DEF IInv, TypeOK
<1>1. ASSUME NEW rid \in Rid, Join(rid) PROVE FollowsInv'
  BY <1>0, <1>1, SubscriptionStep DEF Join
<1>2. ASSUME NEW rid \in Rid, Leave(rid) PROVE FollowsInv'
  BY <1>0, <1>2, SubscriptionStep DEF Leave
<1>3. ASSUME NEW rid \in Rid, Erase(rid) PROVE FollowsInv'
  BY <1>0, <1>3, SubscriptionStep DEF Erase
<1>4. ASSUME NEW rid \in Rid, ChangeSubscription(rid) PROVE FollowsInv'
  BY <1>0, <1>4, SubscriptionStep DEF ChangeSubscription
<1>5. ASSUME NEW rid \in Rid, ChangeRoom(rid) PROVE FollowsInv'
  BY <1>0, <1>5, OtherStep, SameList DEF ChangeRoom, Change
<1>6. ASSUME NEW stream \in Stream, Subscribed(stream) PROVE FollowsInv'
  BY <1>0, <1>6, OtherStep, SameList DEF Subscribed, wire
<1>7. ASSUME NEW call \in calls, Answer(call) PROVE FollowsInv'
  BY <1>0, <1>7, AnswerStep
<1>8. CASE SubscriptionEvent
  BY <1>8, EventStep
<1>9. CASE RoomEvent
  BY <1>9, RoomEventStep
<1>10. ASSUME NEW call \in calls, getsubscriptionParsing(call) PROVE FollowsInv'
  BY <1>10, LoadStep
<1>11. ASSUME NEW call \in calls, roomsParsing(call) PROVE FollowsInv'
  <2>1. \A c : Loads(c) => (c \in calls' <=> c \in calls)
    BY <1>11 DEF roomsParsing, Loads
  <2>2. \A rid : SameRow(rows, rows', rid)
    BY <1>0, <1>11, UpdatedRooms DEF roomsParsing
  <2> QED BY <1>0, <1>11, <2>1, <2>2, OtherStep DEF roomsParsing, server
<1>12. CASE UNCHANGED vars
  BY <1>0, <1>12, OtherStep, SameList DEF vars
<1> QED
  BY <1>1, <1>2, <1>3, <1>4, <1>5, <1>6, <1>7, <1>8, <1>9, <1>10, <1>11, <1>12
  DEF Next, Server, Client

\* Once everything under way has come, the rooms listed are those the user is
\* in, with their subscriptions as they are, but for the recorded races.
THEOREM ListCorrect == Spec => []ListFollowsSubscriptions
<1>1. ASSUME FollowsInv PROVE ListFollowsSubscriptions
  <2>1. SUFFICES ASSUME Quiet, NEW rid \in Rid \ overtaken
                 PROVE  IF subscription[rid] = None THEN ~Listed(rid)
                        ELSE Showing(rows, rid, subscription[rid])
    BY DEF ListFollowsSubscriptions, Showing
  <2>2. FollowsAt(rid) /\ ~Loading /\ Silent(subscriptionEvents, rid)
    BY <1>1, <2>1 DEF FollowsInv, Quiet, Loading, Silent
  <2> QED BY <2>2 DEF FollowsAt, AfterLoad, Listed, On
<1>2. IInv /\ IInv' /\ FollowsInv /\ [Next]_vars => FollowsInv'
  BY FollowsStep
<1> QED BY <1>1, <1>2, Invariance, FollowsInit, PTL DEF Spec

-----------------------------------------------------------------------------
(***************************************************************************)
(* What the operations of RoomModel do to the document that the row of a   *)
(* room shows.                                                             *)
(***************************************************************************)
RoomShown(list, rid, revision) ==
  \E i \in DOMAIN list : list[i].rid = rid /\ list[i].room = revision

LEMMA ShownAfterAdd ==
  ASSUME rows \in Seq(Row), NEW row \in Row, addRoom(row)
  PROVE  /\ \A rid, n : RoomShown(rows, rid, n) => RoomShown(rows', rid, n)
         /\ ~Listed(row.rid) => RoomShown(rows', row.rid, row.room)
<1>1. CASE Listed(row.rid)
  BY <1>1 DEF addRoom
<1>2. CASE ~Listed(row.rid)
  <2>1. /\ DOMAIN rows = 1..Len(rows) /\ DOMAIN rows' = 1..(Len(rows) + 1)
        /\ Len(rows) \in Nat
        /\ \A i \in 1..Len(rows) : rows'[i] = rows[i]
        /\ rows'[Len(rows) + 1] = row
    BY <1>2 DEF addRoom
  <2>2. Len(rows) + 1 \in DOMAIN rows' /\ \A i \in DOMAIN rows : i \in DOMAIN rows'
    BY <2>1
  <2> QED BY <2>1, <2>2 DEF RoomShown
<1> QED BY <1>1, <1>2

LEMMA ShownAfterRemove ==
  ASSUME rows \in Seq(Row), NEW rid, removeRoom(rid)
  PROVE  \A r, n : r # rid /\ RoomShown(rows, r, n) => RoomShown(rows', r, n)
<1>1. CASE UNCHANGED rows
  BY <1>1
<1>2. CASE \E k \in DOMAIN rows : rows[k].rid = rid /\ rows' = RemoveAt(rows, k)
  <2>1. PICK k \in 1..Len(rows) : rows[k].rid = rid /\ rows' = RemoveAt(rows, k)
    BY <1>2
  <2>2. /\ rows' \in Seq(Row) /\ Len(rows') = Len(rows) - 1
        /\ \A i \in 1..(Len(rows) - 1) : rows'[i] = IF i < k THEN rows[i] ELSE rows[i + 1]
    BY <2>1, RemoveAtLemma
  <2>3. /\ Len(rows) \in Nat
        /\ DOMAIN rows = 1..Len(rows) /\ DOMAIN rows' = 1..(Len(rows) - 1)
    BY <2>2
  <2>4. ASSUME NEW j \in DOMAIN rows, j # k PROVE \E i \in DOMAIN rows' : rows'[i] = rows[j]
    <3>1. CASE j < k
      <4>1. j \in DOMAIN rows' /\ rows'[j] = rows[j]
        BY <2>2, <2>3, <3>1
      <4> QED BY <4>1
    <3>2. CASE ~(j < k)
      <4>1. j - 1 \in DOMAIN rows' /\ rows'[j - 1] = rows[j]
        BY <2>2, <2>3, <2>4, <3>2
      <4> QED BY <4>1
    <3> QED BY <3>1, <3>2
  <2> QED BY <2>1, <2>4 DEF RoomShown
<1> QED BY <1>1, <1>2 DEF removeRoom

LEMMA ShownAfterSubscription ==
  ASSUME rows \in Seq(Row), NEW rid, NEW revision, updateSubscriptionRoom(rid, revision)
  PROVE  \A r, n : RoomShown(rows, r, n) => RoomShown(rows', r, n)
<1>1. ASSUME NEW i \in DOMAIN rows
      PROVE  rows'[i].rid = rows[i].rid /\ rows'[i].room = rows[i].room
  <2>1. rows[i] \in Row
    OBVIOUS
  <2> QED BY <2>1 DEF updateSubscriptionRoom, Row
<1>2. DOMAIN rows' = DOMAIN rows
  BY DEF updateSubscriptionRoom
<1> QED BY <1>1, <1>2 DEF RoomShown

LEMMA ShownAfterRooms ==
  ASSUME rows \in Seq(Row), NoDuplicates, NEW update \in [Rid -> Revision], updateRooms(update)
  PROVE  /\ \A n : \A rid \in Rid :
              update[rid] = None /\ RoomShown(rows, rid, n) => RoomShown(rows', rid, n)
         /\ \A rid \in Rid :
              update[rid] # None /\ Listed(rid) => RoomShown(rows', rid, update[rid])
<1>1. ASSUME NEW i \in DOMAIN rows
      PROVE  /\ rows'[i].rid = rows[i].rid
             /\ update[rows[i].rid] = None => rows'[i].room = rows[i].room
             /\ update[rows[i].rid] # None => rows'[i].room = update[rows[i].rid]
  <2>1. rows[i] \in Row
    OBVIOUS
  <2>2. IsFirstRow(i)
    <3>1. \A j \in 1..(i - 1) : j \in DOMAIN rows /\ j # i
      OBVIOUS
    <3> QED BY <3>1 DEF NoDuplicates, IsFirstRow
  <2> QED BY <2>1, <2>2 DEF updateRooms, Row
<1>2. DOMAIN rows' = DOMAIN rows
  BY DEF updateRooms
<1>3. ASSUME NEW rid \in Rid, NEW n, update[rid] = None, RoomShown(rows, rid, n)
      PROVE  RoomShown(rows', rid, n)
  BY <1>1, <1>2, <1>3 DEF RoomShown
<1>4. ASSUME NEW rid \in Rid, update[rid] # None, Listed(rid)
      PROVE  RoomShown(rows', rid, update[rid])
  BY <1>1, <1>2, <1>4 DEF RoomShown, Listed
<1> QED BY <1>3, <1>4

\* The last event of a room says what the room is, also after one was taken,
\* and when none is left it was the one that was taken.
LEMMA TakenTold ==
  ASSUME NEW s \in Seq(Event), s # <<>>, NEW rid \in Rid, rid = Head(s).rid,
         NEW n \in Revision, Told(s, rid, n)
  PROVE  /\ Told(Tail(s), rid, n)
         /\ Silent(Tail(s), rid) => IsCurrent(Head(s), n)
<1> DEFINE t == Tail(s)
<1>1. /\ Len(s) \in Nat \ {0}
      /\ DOMAIN s = 1..Len(s) /\ DOMAIN t = 1..(Len(s) - 1)
      /\ \A i \in 1..(Len(s) - 1) : t[i] = s[i + 1]
      /\ s[1] = Head(s)
  OBVIOUS
<1> HIDE DEF t
<1>2. \A i \in DOMAIN t : i + 1 \in DOMAIN s /\ t[i] = s[i + 1]
  BY <1>1
<1>3. \A i \in DOMAIN s : i # 1 => i - 1 \in DOMAIN t /\ t[i - 1] = s[i]
  BY <1>1
<1>4. PICK last \in DOMAIN s : /\ s[last].rid = rid
                               /\ \A k \in DOMAIN s : k > last => s[k].rid # rid
                               /\ IsCurrent(s[last], n)
  BY <1>1 DEF Told, Silent
<1>5. CASE last = 1
  <2>1. Silent(t, rid)
    BY <1>1, <1>2, <1>4, <1>5 DEF Silent
  <2> QED BY <1>1, <1>4, <1>5, <2>1 DEF Told, t
<1>6. CASE last # 1
  <2>1. ASSUME NEW k \in DOMAIN t, k > last - 1 PROVE t[k].rid # rid
    BY <1>1, <1>2, <1>4, <2>1
  <2>2. last - 1 \in DOMAIN t /\ t[last - 1] = s[last]
    BY <1>3, <1>6
  <2>3. Told(t, rid, n) /\ ~Silent(t, rid)
    BY <1>4, <2>1, <2>2 DEF Told, Silent
  <2> QED BY <2>3 DEF t
<1> QED BY <1>5, <1>6

-----------------------------------------------------------------------------
(***************************************************************************)
(* The rows follow the rooms.                                              *)
(***************************************************************************)
OneCall == \A c, d \in calls : c = d

RoomsUnheard == "rooms-changed" \notin streams => roomEvents = <<>>

AllRoomsTold == \A rid \in Rid : Told(roomEvents, rid, room[rid])

\* Nobody is in a room that there is not.
RoomsExist == \A rid \in Rid : subscription[rid] # None => room[rid] # None

\* An answer under way brings the room as it is, and with nothing under way
\* that tells of the room its row shows it.
RoomIsKnown(rid) ==
  /\ \A call \in calls :
       call.method = "rooms/get" /\ call.answered => call.update[rid] = room[rid]
  /\ calls = {} /\ Silent(roomEvents, rid) => RoomShown(rows, rid, room[rid])

RoomAt(rid) == rid \in unsure \/ subscription[rid] = None \/ RoomIsKnown(rid)

RoomsInv ==
  /\ OneCall
  /\ RoomsUnheard
  /\ AllRoomsTold
  /\ RoomsExist
  /\ \A rid \in Rid : RoomAt(rid)

LEMMA RoomsInit == Init => RoomsInv
<1> SUFFICES ASSUME Init PROVE RoomsInv
  OBVIOUS
<1>1. calls = {Asked("subscriptions/get")} /\ ~Asked("subscriptions/get").answered
  BY DEF Init, Asked
<1>2. roomEvents = <<>> /\ DOMAIN roomEvents = {}
  BY DEF Init
<1>3. OneCall /\ RoomsUnheard /\ AllRoomsTold /\ RoomsExist
  BY <1>1, <1>2 DEF OneCall, RoomsUnheard, AllRoomsTold, Told, Silent, RoomsExist, Init
<1>4. \A rid \in Rid : RoomAt(rid)
  BY <1>1 DEF RoomAt, RoomIsKnown
<1> QED BY <1>3, <1>4 DEF RoomsInv

\* A change of a room is told of if the stream is heard, and no answer that is
\* under way is older than it, unless it is recorded as a race.
LEMMA RoomStep ==
  ASSUME TypeOK, TypeOK', RoomsInv, Change, NEW rid \in Rid,
         NEW action \in {"inserted", "updated", "removed"}, RoomChanged(action, rid),
         \A r \in Rid : r # rid => subscription'[r] = subscription[r],
         action = "removed" => subscription'[rid] = None
  PROVE  RoomsInv'
<1> DEFINE s == roomEvents
<1>1. UNCHANGED <<calls, streams, rows>> /\ changes' \in Revision /\ changes' # None
  BY ChangeLemma DEF Change, TypeOK, None
<1>2. /\ room'[rid] = IF action = "removed" THEN None ELSE changes'
      /\ \A r \in Rid : r # rid => room'[r] = room[r]
      /\ \A r \in Rid : room[r] \in Revision /\ room'[r] \in Revision
  BY <1>1 DEF TypeOK, RoomChanged
<1>3. PICK event \in Event : event = [action |-> action, rid |-> rid, revision |-> changes']
  BY <1>1 DEF Event
<1>4. event.rid = rid /\ IsCurrent(event, room'[rid])
  BY <1>1, <1>2, <1>3 DEF IsCurrent
<1>5. s \in Seq(Event)
  BY DEF TypeOK
<1>6. IF "rooms-changed" \in streams THEN roomEvents' = Append(s, event) ELSE UNCHANGED roomEvents
  BY <1>3 DEF RoomChanged, EmitRoom
<1>7. OneCall' /\ RoomsUnheard'
  BY <1>1, <1>6 DEF RoomsInv, OneCall, RoomsUnheard
<1>8. "rooms-changed" \notin streams => s = <<>> /\ \A r : Silent(s, r)
  BY DEF RoomsInv, RoomsUnheard, Silent
<1> HIDE DEF s
<1>9. AllRoomsTold'
  <2>1. ASSUME NEW r \in Rid PROVE Told(roomEvents', r, room'[r])
    <3>1. Told(s, r, room[r])
      BY DEF RoomsInv, AllRoomsTold, s
    <3>2. CASE "rooms-changed" \notin streams
      BY <1>6, <1>8, <3>2 DEF Told, s
    <3>3. CASE "rooms-changed" \in streams /\ r = rid
      BY <1>2, <1>4, <1>5, <1>6, <3>3, AppendedOwn
    <3>4. CASE "rooms-changed" \in streams /\ r # rid
      BY <1>2, <1>4, <1>5, <1>6, <3>1, <3>4, AppendedOther
    <3> QED BY <3>2, <3>3, <3>4
  <2> QED BY <2>1 DEF AllRoomsTold
<1>10. RoomsExist'
  BY <1>1, <1>2 DEF RoomsInv, RoomsExist
<1>11. ASSUME NEW r \in Rid, r # rid PROVE RoomAt(r)'
  <2>1. RoomAt(r) /\ (r \in unsure => r \in unsure')
    BY DEF RoomsInv, RoomChanged
  <2>2. Silent(roomEvents', r) <=> Silent(s, r)
    <3>1. CASE "rooms-changed" \in streams
      BY <1>4, <1>5, <1>6, <1>11, <3>1, AppendedOther
    <3>2. CASE "rooms-changed" \notin streams
      BY <1>6, <3>2 DEF s
    <3> QED BY <3>1, <3>2
  <2> QED BY <1>1, <1>2, <1>11, <2>1, <2>2 DEF RoomAt, RoomIsKnown, s
<1>12. RoomAt(rid)'
  <2>1. CASE TooEarly("rooms/get", "rooms-changed", rid) # {}
    BY <2>1 DEF RoomAt, RoomChanged, TooEarly
  <2>2. CASE Unanswered("rooms/get")
    <3>1. \A call \in calls' : ~call.answered
      BY <1>1, <2>2 DEF Unanswered, RoomsInv, OneCall
    <3>2. calls' # {}
      BY <1>1, <2>2 DEF Unanswered
    <3> QED BY <3>1, <3>2 DEF RoomAt, RoomIsKnown
  <2>3. CASE "rooms-changed" \in streams /\ ~Answered("rooms/get")
    <3>1. ~Silent(roomEvents', rid)
      BY <1>4, <1>5, <1>6, <2>3, AppendedOwn
    <3>2. \A call \in calls' : ~(call.method = "rooms/get" /\ call.answered)
      BY <1>1, <2>3 DEF Answered
    <3> QED BY <3>1, <3>2 DEF RoomAt, RoomIsKnown
  <2> QED BY <2>1, <2>2, <2>3 DEF TooEarly
<1>13. \A r \in Rid : RoomAt(r)'
  BY <1>11, <1>12
<1> QED BY <1>7, <1>9, <1>10, <1>13 DEF RoomsInv

\* A step that leaves the rooms, their stream and the answers alone.
LEMMA OtherRoomStep ==
  ASSUME RoomsInv, UNCHANGED <<room, roomEvents, calls>>,
         streams \subseteq streams', unsure \subseteq unsure',
         \A rid \in Rid : subscription[rid] = None => subscription'[rid] = None,
         \A n : \A rid \in Rid \ unsure' : RoomShown(rows, rid, n) => RoomShown(rows', rid, n)
  PROVE  RoomsInv'
<1>1. OneCall' /\ RoomsUnheard' /\ AllRoomsTold' /\ RoomsExist'
  BY DEF RoomsInv, OneCall, RoomsUnheard, AllRoomsTold, RoomsExist
<1>2. ASSUME NEW rid \in Rid PROVE RoomAt(rid)'
  <2>1. RoomAt(rid)
    BY DEF RoomsInv
  <2>2. RoomIsKnown(rid) /\ rid \notin unsure' => RoomIsKnown(rid)'
    BY DEF RoomIsKnown
  <2> QED BY <2>1, <2>2 DEF RoomAt
<1> QED BY <1>1, <1>2 DEF RoomsInv

LEMMA SubscriptionEventKeepsRooms ==
  ASSUME IInv, RoomsInv, SubscriptionEvent
  PROVE  RoomsInv'
<1>1. PICK event \in Event : event = Head(subscriptionEvents)
  BY HeadLemma DEF IInv, TypeOK, SubscriptionEvent
<1>2. event.rid \in Rid /\ event.revision \in Revision /\ rows \in Seq(Row)
  BY DEF Event, IInv, TypeOK
<1>3. UNCHANGED <<subscription, room, roomEvents, streams, calls>>
  BY DEF SubscriptionEvent, server
<1>4. /\ unsure \subseteq unsure'
      /\ \A n : \A rid \in Rid \ unsure' : RoomShown(rows, rid, n) => RoomShown(rows', rid, n)
  <2>1. CASE event.action = "removed" /\ removeRoom(event.rid)
    <3>1. unsure' = unsure \cup {event.rid}
      BY <1>1, <2>1 DEF SubscriptionEvent
    <3> QED BY <1>2, <2>1, <3>1, ShownAfterRemove
  <2>2. CASE event.action = "inserted" /\ addRoom(SubscriptionRow(event.rid, event.revision))
    <3>1. unsure' = unsure
      BY <1>1, <2>2 DEF SubscriptionEvent
    <3> QED BY <1>2, <2>2, <3>1, RowLemma, ShownAfterAdd
  <2>3. CASE event.action = "updated" /\ updateSubscriptionRoom(event.rid, event.revision)
    <3>1. unsure' = unsure
      BY <1>1, <2>3 DEF SubscriptionEvent
    <3> QED BY <1>2, <2>3, <3>1, ShownAfterSubscription
  <2> QED BY <1>1, <2>1, <2>2, <2>3 DEF SubscriptionEvent
<1> QED BY <1>3, <1>4, OtherRoomStep

\* The last event of a room leaves its row as the room is.
LEMMA RoomEventKeepsRooms ==
  ASSUME IInv, RoomsInv, RoomEvent
  PROVE  RoomsInv'
<1> DEFINE s == roomEvents
<1>0. UNCHANGED <<subscription, room, streams, calls>> /\ s # <<>> /\ roomEvents' = Tail(s)
  BY DEF RoomEvent, server
<1>1. s \in Seq(Event) /\ rows \in Seq(Row) /\ NoDuplicates
  BY DEF IInv, TypeOK
<1>2. PICK event \in Event : event = Head(s)
  BY <1>0, <1>1, HeadLemma
<1>3. PICK rid \in Rid : rid = event.rid
  BY DEF Event
<1>4. event.revision \in Revision
  BY DEF Event
<1>5. \A r \in Rid : room[r] \in Revision /\ Told(s, r, room[r])
  BY DEF IInv, TypeOK, RoomsInv, AllRoomsTold
<1>6. OneCall' /\ RoomsUnheard' /\ RoomsExist'
  BY <1>0 DEF RoomsInv, OneCall, RoomsUnheard, RoomsExist
<1>7. \/ /\ event.action = "updated" /\ updateRoom(rid, event.revision)
         /\ unsure' = IF ~Listed(rid) THEN unsure \cup {rid}
                      ELSE IF Answered("rooms/get") THEN unsure ELSE unsure \ {rid}
      \/ /\ event.action = "inserted" /\ addRoom(RoomRow(rid, event.revision))
         /\ unsure' = IF Listed(rid) THEN unsure \cup {rid}
                      ELSE IF Answered("rooms/get") THEN unsure ELSE unsure \ {rid}
      \/ event.action = "removed" /\ UNCHANGED <<rows, unsure>>
  BY <1>2, <1>3 DEF RoomEvent
<1> HIDE DEF s
<1>8. AllRoomsTold'
  <2>1. ASSUME NEW r \in Rid PROVE Told(Tail(s), r, room[r])
    <3>1. CASE r = rid
      BY <1>0, <1>1, <1>2, <1>3, <1>5, <3>1, TakenTold
    <3>2. CASE r # rid
      BY <1>0, <1>1, <1>2, <1>3, <1>5, <3>2, TakenOther
    <3> QED BY <3>1, <3>2
  <2> QED BY <1>0, <2>1 DEF AllRoomsTold
<1>9. /\ \A n : \A r \in Rid : r # rid /\ RoomShown(rows, r, n) => RoomShown(rows', r, n)
      /\ /\ (event.action = "updated" /\ Listed(rid)) \/ (event.action = "inserted" /\ ~Listed(rid))
         /\ event.revision # None
         => RoomShown(rows', rid, event.revision)
  <2>1. CASE event.action = "updated" /\ updateRoom(rid, event.revision)
    <3>0. [r \in Rid |-> IF r = rid THEN event.revision ELSE None] \in [Rid -> Revision]
      BY <1>4, MaxChangesAssumption DEF None, Revision
    <3>1. PICK update \in [Rid -> Revision] :
            update = [r \in Rid |-> IF r = rid THEN event.revision ELSE None]
      BY <3>0
    <3>2. updateRooms(update)
      BY <2>1, <3>1 DEF updateRoom
    <3>3. update[rid] = event.revision /\ \A r \in Rid : r # rid => update[r] = None
      BY <3>1
    <3> QED BY <1>1, <2>1, <3>2, <3>3, ShownAfterRooms
  <2>2. CASE event.action = "inserted" /\ addRoom(RoomRow(rid, event.revision))
    <3>1. PICK row \in Row : row = RoomRow(rid, event.revision)
      BY <1>4, RowLemma
    <3>2. row.rid = rid /\ row.room = event.revision /\ addRoom(row)
      BY <2>2, <3>1 DEF RoomRow
    <3> QED BY <1>1, <2>2, <3>2, ShownAfterAdd
  <2>3. CASE event.action = "removed" /\ UNCHANGED rows
    BY <2>3
  <2> QED BY <1>7, <2>1, <2>2, <2>3
<1>10. ASSUME NEW r \in Rid, r # rid PROVE RoomAt(r)'
  <2>1. RoomAt(r) /\ (r \in unsure => r \in unsure')
    BY <1>7, <1>10 DEF RoomsInv
  <2>2. Silent(Tail(s), r) <=> Silent(s, r)
    BY <1>0, <1>1, <1>2, <1>3, <1>10, TakenOther
  <2> QED BY <1>0, <1>9, <1>10, <2>1, <2>2 DEF RoomAt, RoomIsKnown, s
<1>11. RoomAt(rid)'
  <2>1. CASE rid \in unsure' \/ subscription[rid] = None
    BY <1>0, <2>1 DEF RoomAt
  <2>2. CASE rid \notin unsure' /\ subscription[rid] # None
    <3>1. RoomAt(rid) /\ room[rid] # None
      BY <2>2 DEF RoomsInv, RoomsExist
    <3>2. \A call \in calls :
            call.method = "rooms/get" /\ call.answered => call.update[rid] = room[rid]
      <4>1. CASE Answered("rooms/get")
        <5>1. rid \notin unsure
          BY <1>7, <2>2, <4>1
        <5> QED BY <2>2, <3>1, <5>1 DEF RoomAt, RoomIsKnown
      <4>2. CASE ~Answered("rooms/get")
        BY <4>2 DEF Answered
      <4> QED BY <4>1, <4>2
    <3>3. ASSUME Silent(Tail(s), rid) PROVE RoomShown(rows', rid, room[rid])
      <4>1. IsCurrent(event, room[rid])
        BY <1>0, <1>1, <1>2, <1>3, <1>5, <3>3, TakenTold
      <4>2. event.action # "removed" /\ event.revision = room[rid]
        BY <3>1, <4>1 DEF IsCurrent
      <4>3. (event.action = "updated" /\ Listed(rid)) \/ (event.action = "inserted" /\ ~Listed(rid))
        BY <1>7, <2>2, <4>2
      <4> QED BY <1>9, <3>1, <4>2, <4>3
    <3> QED BY <1>0, <3>2, <3>3 DEF RoomAt, RoomIsKnown
  <2> QED BY <2>1, <2>2
<1>12. \A r \in Rid : RoomAt(r)'
  BY <1>10, <1>11
<1> QED BY <1>6, <1>8, <1>12 DEF RoomsInv

\* The answer to rooms/get has every room the user is in, as it is.
LEMMA AnswerKeepsRooms ==
  ASSUME TypeOK, RoomsInv, NEW call \in calls, Answer(call)
  PROVE  RoomsInv'
<1>0. UNCHANGED <<subscription, room, streams, roomEvents, rows, unsure>>
  BY DEF Answer, server
<1>1. call \in Call
  BY DEF TypeOK
<1> DEFINE update == IF call.method = "subscriptions/get" THEN subscription
                     ELSE [rid \in Rid |-> IF subscription[rid] = None THEN None ELSE room[rid]]
<1>2. PICK new : /\ new = [call EXCEPT !.answered = TRUE, !.update = update]
                 /\ calls' = (calls \ {call}) \cup {new}
  BY DEF Answer
<1>3. calls' = {new}
  BY <1>2 DEF RoomsInv, OneCall
<1>4. new.method = call.method /\ new.update = update
  BY <1>1, <1>2 DEF Call
<1>5. OneCall' /\ RoomsUnheard' /\ AllRoomsTold' /\ RoomsExist'
  BY <1>0, <1>3 DEF RoomsInv, OneCall, RoomsUnheard, AllRoomsTold, RoomsExist
<1>6. ASSUME NEW rid \in Rid PROVE RoomAt(rid)'
  <2>1. CASE subscription[rid] = None
    BY <1>0, <2>1 DEF RoomAt
  <2>2. CASE subscription[rid] # None
    <3>1. new.method = "rooms/get" => new.update[rid] = room[rid]
      BY <1>4, <2>2
    <3> QED BY <1>0, <1>3, <3>1 DEF RoomAt, RoomIsKnown
  <2> QED BY <2>1, <2>2
<1> QED BY <1>5, <1>6 DEF RoomsInv

LEMMA LoadKeepsRooms ==
  ASSUME RoomsInv, NEW call \in calls, getsubscriptionParsing(call)
  PROVE  RoomsInv'
<1>0. UNCHANGED <<subscription, room, streams, roomEvents, unsure>>
  BY DEF getsubscriptionParsing, server
<1>1. calls' = {Asked("rooms/get")} /\ ~Asked("rooms/get").answered
  BY DEF getsubscriptionParsing, RoomsInv, OneCall, Asked
<1>2. OneCall' /\ RoomsUnheard' /\ AllRoomsTold' /\ RoomsExist'
  BY <1>0, <1>1 DEF RoomsInv, OneCall, RoomsUnheard, AllRoomsTold, RoomsExist
<1>3. \A rid \in Rid : RoomAt(rid)'
  BY <1>1 DEF RoomAt, RoomIsKnown
<1> QED BY <1>2, <1>3 DEF RoomsInv

LEMMA LoadRoomsKeepsRooms ==
  ASSUME IInv, RoomsInv, NEW call \in calls, roomsParsing(call)
  PROVE  RoomsInv'
<1>0. UNCHANGED <<subscription, room, streams, roomEvents>>
  BY DEF roomsParsing, server
<1>1. call.update \in [Rid -> Revision] /\ rows \in Seq(Row) /\ NoDuplicates
  BY DEF IInv, TypeOK, Call
<1>2. calls' = {} /\ call.method = "rooms/get" /\ call.answered /\ updateRooms(call.update)
  BY DEF roomsParsing, RoomsInv, OneCall
<1>3. OneCall' /\ RoomsUnheard' /\ AllRoomsTold' /\ RoomsExist'
  BY <1>0, <1>2 DEF RoomsInv, OneCall, RoomsUnheard, AllRoomsTold, RoomsExist
<1>4. ASSUME NEW rid \in Rid PROVE RoomAt(rid)'
  <2>1. CASE rid \in unsure' \/ subscription[rid] = None
    BY <1>0, <2>1 DEF RoomAt
  <2>2. CASE rid \notin unsure' /\ subscription[rid] # None
    <3>1. rid \notin unsure /\ (call.update[rid] # None => Listed(rid))
      BY <2>2 DEF roomsParsing
    <3>2. call.update[rid] = room[rid] /\ room[rid] # None
      BY <1>2, <2>2, <3>1 DEF RoomsInv, RoomAt, RoomIsKnown, RoomsExist
    <3>3. RoomShown(rows', rid, room[rid])
      BY <1>1, <1>2, <3>1, <3>2, ShownAfterRooms
    <3> QED BY <1>0, <1>2, <3>3 DEF RoomAt, RoomIsKnown
  <2> QED BY <2>1, <2>2
<1> QED BY <1>3, <1>4 DEF RoomsInv

LEMMA RoomsStep ==
  ASSUME IInv, IInv', RoomsInv, [Next]_vars
  PROVE  RoomsInv'
<1>0. TypeOK /\ TypeOK'
  BY DEF IInv
<1>1. ASSUME NEW rid \in Rid, Join(rid) PROVE RoomsInv'
  <2>1. PICK action \in {"inserted", "updated"} : RoomChanged(action, rid)
    BY <1>1 DEF Join
  <2>2. Change /\ \A r \in Rid : r # rid => subscription'[r] = subscription[r]
    BY <1>0, <1>1 DEF Join, SubscriptionChanged, TypeOK
  <2> QED BY <1>0, <2>1, <2>2, RoomStep
<1>2. ASSUME NEW rid \in Rid, Leave(rid) PROVE RoomsInv'
  <2>1. \A r \in Rid : subscription[r] = None => subscription'[r] = None
    BY <1>0, <1>2 DEF Leave, SubscriptionChanged, TypeOK
  <2> QED BY <1>2, <2>1, OtherRoomStep DEF Leave, Change
<1>3. ASSUME NEW rid \in Rid, Erase(rid) PROVE RoomsInv'
  <2>1. /\ subscription'[rid] = None
        /\ \A r \in Rid : r # rid => subscription'[r] = subscription[r]
    BY <1>0, <1>3 DEF Erase, SubscriptionChanged, TypeOK
  <2> QED BY <1>0, <1>3, <2>1, RoomStep DEF Erase
<1>4. ASSUME NEW rid \in Rid, ChangeSubscription(rid) PROVE RoomsInv'
  <2>1. \A r \in Rid : subscription[r] = None => subscription'[r] = None
    BY <1>0, <1>4 DEF ChangeSubscription, SubscriptionChanged, TypeOK
  <2> QED BY <1>4, <2>1, OtherRoomStep DEF ChangeSubscription, Change
<1>5. ASSUME NEW rid \in Rid, ChangeRoom(rid) PROVE RoomsInv'
  BY <1>0, <1>5, RoomStep DEF ChangeRoom
<1>6. ASSUME NEW stream \in Stream, Subscribed(stream) PROVE RoomsInv'
  BY <1>6, OtherRoomStep DEF Subscribed, wire
<1>7. ASSUME NEW call \in calls, Answer(call) PROVE RoomsInv'
  BY <1>0, <1>7, AnswerKeepsRooms
<1>8. CASE SubscriptionEvent
  BY <1>8, SubscriptionEventKeepsRooms
<1>9. CASE RoomEvent
  BY <1>9, RoomEventKeepsRooms
<1>10. ASSUME NEW call \in calls, getsubscriptionParsing(call) PROVE RoomsInv'
  BY <1>10, LoadKeepsRooms
<1>11. ASSUME NEW call \in calls, roomsParsing(call) PROVE RoomsInv'
  BY <1>11, LoadRoomsKeepsRooms
<1>12. CASE UNCHANGED vars
  BY <1>12, OtherRoomStep DEF vars
<1> QED
  BY <1>1, <1>2, <1>3, <1>4, <1>5, <1>6, <1>7, <1>8, <1>9, <1>10, <1>11, <1>12
  DEF Next, Server, Client

\* Once everything under way has come, a listed room shows the room as it is,
\* but for the recorded races, although the room's own document comes from an
\* answer and a stream that are not ordered with those of the subscriptions.
THEOREM RoomsCorrect == Spec => []RowsFollowRooms
<1>1. ASSUME IInv, RoomsInv, ListFollowsSubscriptions PROVE RowsFollowRooms
  <2>1. SUFFICES ASSUME Quiet, NEW i \in DOMAIN rows, rows[i].rid \notin unsure \cup overtaken
                 PROVE  rows[i].room = room[rows[i].rid]
    BY DEF RowsFollowRooms
  <2>2. PICK rid \in Rid : rid = rows[i].rid
    <3>1. rows[i] \in Row
      BY <1>1 DEF IInv, TypeOK
    <3> QED BY <3>1 DEF Row
  <2>3. Listed(rid)
    BY <2>2 DEF Listed
  <2>4. subscription[rid] # None
    BY <1>1, <2>1, <2>2, <2>3 DEF ListFollowsSubscriptions
  <2>5. RoomIsKnown(rid)
    BY <1>1, <2>1, <2>2, <2>4 DEF RoomsInv, RoomAt
  <2>6. calls = {} /\ Silent(roomEvents, rid)
    BY <2>1 DEF Quiet, Silent
  <2>7. PICK j \in DOMAIN rows : rows[j].rid = rid /\ rows[j].room = room[rid]
    BY <2>5, <2>6 DEF RoomIsKnown, RoomShown
  <2>8. i = j
    BY <1>1, <2>2, <2>7 DEF IInv, NoDuplicates
  <2> QED BY <2>2, <2>7, <2>8
<1>2. IInv /\ IInv' /\ RoomsInv /\ [Next]_vars => RoomsInv'
  BY RoomsStep
<1> QED BY <1>1, <1>2, Invariance, RoomsInit, ListCorrect, PTL DEF Spec
=============================================================================
