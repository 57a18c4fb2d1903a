---------------------------- MODULE OpenRoomProofs ----------------------------
(***************************************************************************)
(* The types of OpenRoom, and that a room that is wanted is always asked   *)
(* for, due, or waited for.                                                *)
(***************************************************************************)
EXTENDS OpenRoom, FiniteSetTheorems, SequenceTheorems, TLAPS

\* A room is asked for, its selection is due, or it will be.
PendingAt(p) ==
  \/ \E j \in jobs : j.place = p
  \/ \E j \in passwords : j.place = p
  \/ p \in Range(timers)
  \/ p[2] \in mDelayedSelectedRooms[p[1]] /\ rows[p] # "open"

IInv == TypeOK /\ WantedIsPending

-----------------------------------------------------------------------------
LEMMA Places ==
  /\ \A p \in Place : p[1] \in Account /\ p[2] \in RoomId /\ p = <<p[1], p[2]>>
  /\ "none" \notin RoomId
  BY OpenRoomAssumption

\* Appended, each is in the range as before.
LEMMA Appended ==
  ASSUME NEW S, NEW s \in Seq(S), NEW t \in Seq(S)
  PROVE  s \o t \in Seq(S) /\ Range(s \o t) = Range(s) \cup Range(t)
  <1>1. /\ s \o t \in Seq(S) /\ Len(s) \in Nat /\ Len(t) \in Nat
        /\ Len(s \o t) = Len(s) + Len(t)
        /\ \A i \in 1..Len(s) : (s \o t)[i] = s[i]
        /\ \A i \in 1..Len(t) : (s \o t)[Len(s) + i] = t[i]
        /\ \A i \in 1..(Len(s) + Len(t)) :
             i \in 1..Len(s) \/ (i - Len(s) \in 1..Len(t) /\ i = Len(s) + (i - Len(s)))
        /\ DOMAIN s = 1..Len(s) /\ DOMAIN t = 1..Len(t) /\ DOMAIN (s \o t) = 1..(Len(s) + Len(t))
    OBVIOUS
  <1>2. Range(s \o t) \subseteq Range(s) \cup Range(t)
    BY <1>1 DEF Range
  <1>3. Range(s) \subseteq Range(s \o t)
    <2>1. 1..Len(s) \subseteq 1..(Len(s) + Len(t))
      BY <1>1
    <2> QED
      BY <1>1, <2>1 DEF Range
  <1>4. Range(t) \subseteq Range(s \o t)
    <2> DEFINE u == s \o t
    <2>1. ASSUME NEW i \in 1..Len(t)
          PROVE  t[i] \in Range(u)
      <3>1. Len(s) + i \in DOMAIN u /\ u[Len(s) + i] = t[i]
        BY <1>1
      <3> HIDE DEF u
      <3> QED
        BY <3>1 DEF Range
    <2>2. \A e \in Range(t) : \E i \in 1..Len(t) : e = t[i]
      BY <1>1 DEF Range
    <2> QED
      BY <2>1, <2>2
  <1> QED
    BY <1>1, <1>2, <1>3, <1>4

LEMMA AppendedOne ==
  ASSUME NEW S, NEW s \in Seq(S), NEW e \in S
  PROVE  Append(s, e) \in Seq(S) /\ Range(Append(s, e)) = Range(s) \cup {e}
  <1>1. /\ Append(s, e) \in Seq(S) /\ Len(s) \in Nat
        /\ DOMAIN s = 1..Len(s) /\ DOMAIN Append(s, e) = 1..(Len(s) + 1)
        /\ \A i \in 1..Len(s) : Append(s, e)[i] = s[i]
        /\ Append(s, e)[Len(s) + 1] = e
        /\ 1..(Len(s) + 1) = 1..Len(s) \cup {Len(s) + 1}
    OBVIOUS
  <1> QED
    BY <1>1 DEF Range

LEMMA HeadTail ==
  ASSUME NEW S, NEW s \in Seq(S), s # <<>>
  PROVE  /\ Head(s) \in S /\ Tail(s) \in Seq(S)
         /\ Range(s) = {Head(s)} \cup Range(Tail(s))
  <1>1. Head(s) \in S /\ Tail(s) \in Seq(S) /\ <<Head(s)>> \in Seq(S) /\ s = <<Head(s)>> \o Tail(s)
    OBVIOUS
  <1>2. Range(<<Head(s)>>) = {Head(s)}
    <2>1. DOMAIN <<Head(s)>> = {1} /\ <<Head(s)>>[1] = Head(s)
      OBVIOUS
    <2> QED
      BY <2>1 DEF Range
  <1>3. Range(<<Head(s)>> \o Tail(s)) = Range(<<Head(s)>>) \cup Range(Tail(s))
    <2>1. PICK first \in Seq(S), rest \in Seq(S) : first = <<Head(s)>> /\ rest = Tail(s)
      BY <1>1
    <2>2. Range(first \o rest) = Range(first) \cup Range(rest)
      BY Appended
    <2> QED
      BY <2>1, <2>2
  <1> QED
    BY <1>1, <1>2, <1>3

-----------------------------------------------------------------------------
\* A room becomes the one that is shown, or is kept to be selected later.
LEMMA Selected ==
  ASSUME TypeOK, NEW room \in RoomId, Select(room)
  PROVE  /\ mRoomId' \in RoomId \cup {"none"}
         /\ lastSelectedRoom' \in [Account -> RoomId \cup {"none"}]
         /\ mDelayedSelectedRooms' \in [Account -> SUBSET RoomId]
         /\ \A a \in Account : mDelayedSelectedRooms[a] \subseteq mDelayedSelectedRooms'[a]
         /\ room \notin Listed(rows, account, mFilterString) => room \in mDelayedSelectedRooms'[account]
  BY DEF TypeOK, Select, shown, channelSelected

\* What is given up, or shown, is no longer wanted; what stays wanted is waited for.
LEMMA Requested ==
  ASSUME TypeOK, NEW a \in Account, NEW room \in RoomId, selectRoomByRoomIdRequested(a, room)
  PROVE  /\ wanted' \in [Account -> RoomId \cup {"none"}]
         /\ \A p \in Place : wanted'[p[1]] = p[2] =>
              /\ wanted[p[1]] = p[2]
              /\ p = <<a, room>> => room \in mDelayedSelectedRooms'[a] /\ rows[p] # "open"
  <1>1. wanted' = [b \in Account |->
          IF wanted[b] = room /\ (IF b = account THEN room \in Listed(rows, b, {}) ELSE b = a)
            THEN "none" ELSE wanted[b]]
    BY DEF selectRoomByRoomIdRequested
  <1>2. wanted \in [Account -> RoomId \cup {"none"}] /\ Select(room) /\ account \in Account
    BY DEF TypeOK, selectRoomByRoomIdRequested
  <1>3. wanted' \in [Account -> RoomId \cup {"none"}]
    BY <1>1, <1>2
  <1>4. ASSUME NEW p \in Place, wanted'[p[1]] = p[2]
        PROVE  /\ wanted[p[1]] = p[2]
               /\ p = <<a, room>> => room \in mDelayedSelectedRooms'[a] /\ rows[p] # "open"
    <2>1. wanted[p[1]] = p[2]
      BY <1>1, <1>4, Places
    <2>2. ASSUME p = <<a, room>>
          PROVE  room \in mDelayedSelectedRooms'[a] /\ rows[p] # "open"
      <3>1. p[1] = a /\ p[2] = room /\ "none" # room
        BY <2>2, Places
      <3>2. a = account /\ room \notin Listed(rows, a, {})
        BY <1>1, <1>4, <2>1, <3>1
      <3>3. rows[p] # "open"
        BY <2>2, <3>2 DEF Listed
      <3>4. room \notin Listed(rows, account, mFilterString)
        BY <3>2 DEF Listed
      <3> QED
        BY <3>2, <3>3, <3>4, <1>2, Selected
    <2> QED
      BY <2>1, <2>2
  <1> QED
    BY <1>3, <1>4

\* Another row may become the current one.
LEMMA Moved ==
  ASSUME TypeOK, NEW filter, CurrentRowMoves(filter)
  PROVE  /\ mRoomId' \in RoomId \cup {"none"}
         /\ lastSelectedRoom' \in [Account -> RoomId \cup {"none"}]
         /\ wanted' \in [Account -> RoomId \cup {"none"}]
         /\ \A p \in Place : wanted'[p[1]] = p[2] => wanted[p[1]] = p[2]
  <1>1. CASE UNCHANGED <<shown, wanted>>
    BY <1>1 DEF TypeOK, shown
  <1>2. ASSUME NEW next \in Listed(rows', account, filter), channelSelected(next),
               wanted' = [wanted EXCEPT ![account] = IF @ = next THEN "none" ELSE @]
        PROVE  /\ mRoomId' \in RoomId \cup {"none"}
               /\ lastSelectedRoom' \in [Account -> RoomId \cup {"none"}]
               /\ wanted' \in [Account -> RoomId \cup {"none"}]
               /\ \A p \in Place : wanted'[p[1]] = p[2] => wanted[p[1]] = p[2]
    <2>1. next \in RoomId
      BY DEF Listed
    <2> QED
      BY <1>2, <2>1, Places DEF TypeOK, channelSelected
  <1> QED
    BY <1>1, <1>2 DEF CurrentRowMoves

-----------------------------------------------------------------------------
\* If no more is wanted than was, and what is still wanted stays pending, no room is
\* forgotten.
LEMMA StillPending ==
  ASSUME WantedIsPending,
         \A p \in Place : wanted'[p[1]] = p[2] => wanted[p[1]] = p[2] /\ (PendingAt(p) => PendingAt(p)')
  PROVE  WantedIsPending'
  BY DEF WantedIsPending, PendingAt

LEMMA SelectDelayed ==
  ASSUME IInv, selectDelayed
  PROVE  IInv'
  <1> DEFINE p == Head(timers)
  <1>1. p \in Place /\ timers' \in Seq(Place) /\ Range(timers) = {p} \cup Range(timers')
    BY HeadTail DEF IInv, TypeOK, selectDelayed
  <1>2. /\ Select(p[2]) /\ selectRoomByRoomIdRequested(p[1], p[2])
        /\ UNCHANGED <<server, connected, rows, account, mFilterString, asked>>
    BY DEF selectDelayed, selectRoomByRoomIdRequested
  <1>3. p[1] \in Account /\ p[2] \in RoomId /\ p = <<p[1], p[2]>>
    BY <1>1, Places
  <1>4. TypeOK /\ WantedIsPending
    BY DEF IInv
  <1> HIDE DEF p
  <1>5. TypeOK'
    BY <1>1, <1>2, <1>3, <1>4, Selected, Requested DEF TypeOK, server, asked
  <1>6. ASSUME NEW q \in Place, wanted'[q[1]] = q[2], PendingAt(q)
        PROVE  PendingAt(q)'
    <2>1. CASE q = p
      <3>1. p[2] \in mDelayedSelectedRooms'[p[1]] /\ rows[p] # "open"
        BY <1>2, <1>3, <1>4, <1>6, <2>1, Requested
      <3> QED
        BY <3>1, <2>1, <1>2 DEF PendingAt
    <2>2. CASE q # p
      <3>1. \A a \in Account : mDelayedSelectedRooms[a] \subseteq mDelayedSelectedRooms'[a]
        BY <1>2, <1>3, <1>4, Selected
      <3> QED
        BY <3>1, <2>2, <1>1, <1>2, <1>6, Places DEF PendingAt, asked
    <2> QED
      BY <2>1, <2>2
  <1>7. \A q \in Place : wanted'[q[1]] = q[2] => wanted[q[1]] = q[2]
    BY <1>2, <1>3, <1>4, Requested
  <1> QED
    BY <1>4, <1>5, <1>6, <1>7, StillPending DEF IInv

LEMMA SelectChannelRequested ==
  ASSUME IInv, NEW room \in RoomId, selectChannelRequested(room)
  PROVE  IInv'
  <1>1. /\ TypeOK /\ WantedIsPending /\ Select(room)
        /\ wanted' = [wanted EXCEPT ![account] = "none"]
        /\ UNCHANGED <<server, connected, rows, account, mFilterString, timers, jobs, passwords>>
        /\ \/ UNCHANGED requests
           \/ requests < MaxRequests /\ requests' = requests + 1
    BY DEF IInv, selectChannelRequested
  <1>2. requests' \in 0..MaxRequests
    BY <1>1, OpenRoomAssumption DEF TypeOK
  <1>3. wanted' \in [Account -> RoomId \cup {"none"}]
    BY <1>1 DEF TypeOK
  <1>4. TypeOK'
    BY <1>1, <1>2, <1>3, Selected DEF TypeOK, server
  <1>5. \A a \in Account : mDelayedSelectedRooms[a] \subseteq mDelayedSelectedRooms'[a]
    BY <1>1, Selected
  <1>6. \A p \in Place : wanted'[p[1]] = p[2] => wanted[p[1]] = p[2] /\ (PendingAt(p) => PendingAt(p)')
    BY <1>1, <1>5, Places DEF TypeOK, PendingAt
  <1> QED
    BY <1>1, <1>4, <1>6, StillPending DEF IInv

LEMMA OpenChannel ==
  ASSUME IInv, NEW kind \in Kind, NEW room \in RoomId, openChannel(kind, room)
  PROVE  IInv'
  <1> DEFINE p == <<account, room>>
             j == [nr |-> requests + 1, kind |-> kind, place |-> p, done |-> FALSE]
  <1>1. /\ TypeOK /\ WantedIsPending /\ p \in Place
        /\ requests < MaxRequests /\ requests' = requests + 1
        /\ jobs' = jobs \cup {j}
        /\ wanted' = [wanted EXCEPT ![account] = room]
        /\ UNCHANGED <<server, connected, rows, window, delayed, passwords>>
    BY DEF IInv, openChannel
  <1>2. requests' \in 0..MaxRequests /\ requests + 1 \in 1..MaxRequests
    BY <1>1, OpenRoomAssumption DEF TypeOK
  <1>3. j \in Job /\ j.place = p
    BY <1>1, <1>2 DEF Job
  <1> HIDE DEF j
  <1>4. TypeOK'
    BY <1>1, <1>2, <1>3 DEF TypeOK, server, window, shown, delayed
  <1>5. ASSUME NEW q \in Place, wanted'[q[1]] = q[2]
        PROVE  PendingAt(q)'
    <2>1. CASE q[1] = account
      <3>1. q = p
        BY <1>1, <1>5, <2>1, Places DEF TypeOK
      <3> QED
        BY <3>1, <1>1, <1>3 DEF PendingAt
    <2>2. CASE q[1] # account
      <3>1. wanted[q[1]] = q[2]
        BY <1>1, <1>5, <2>2, Places DEF TypeOK
      <3> QED
        BY <3>1, <1>1 DEF WantedIsPending, PendingAt, delayed
    <2> QED
      BY <2>1, <2>2
  <1> QED
    BY <1>4, <1>5 DEF IInv, WantedIsPending, PendingAt

LEMMA SetFilterString ==
  ASSUME IInv, NEW filter \in Searches, setFilterString(filter)
  PROVE  IInv'
  <1>1. /\ TypeOK /\ WantedIsPending /\ CurrentRowMoves(filter)
        /\ mFilterString' = filter /\ UNCHANGED rows
        /\ UNCHANGED <<server, connected, account, delayed, asked>>
    BY DEF IInv, setFilterString
  <1>2. filter \subseteq RoomId
    BY OpenRoomAssumption
  <1>3. TypeOK'
    BY <1>1, <1>2, Moved DEF TypeOK, server, delayed, asked
  <1>4. \A p \in Place : wanted'[p[1]] = p[2] => wanted[p[1]] = p[2] /\ (PendingAt(p) => PendingAt(p)')
    BY <1>1, Moved DEF PendingAt, delayed, asked
  <1> QED
    BY <1>1, <1>3, <1>4, StillPending DEF IInv

LEMMA SetCurrentRocketChatAccount ==
  ASSUME IInv, NEW a \in Account, setCurrentRocketChatAccount(a)
  PROVE  IInv'
  <1> DEFINE room == lastSelectedRoom[a]
  <1>1. /\ TypeOK /\ WantedIsPending /\ room \in RoomId \cup {"none"}
        /\ account' = a /\ mFilterString' = {}
        /\ lastSelectedRoom' = [lastSelectedRoom EXCEPT ![account] = mRoomId]
        /\ UNCHANGED <<server, connected, rows, timers, asked>>
    BY DEF IInv, TypeOK, setCurrentRocketChatAccount
  <1>2. CASE /\ room \in Listed(rows, a, {}) /\ mRoomId' = room
             /\ wanted' = [wanted EXCEPT ![a] = IF @ = room THEN "none" ELSE @]
             /\ UNCHANGED mDelayedSelectedRooms
    <2>1. TypeOK'
      BY <1>1, <1>2 DEF TypeOK, server, asked
    <2>2. \A p \in Place : wanted'[p[1]] = p[2] => wanted[p[1]] = p[2] /\ (PendingAt(p) => PendingAt(p)')
      BY <1>1, <1>2, Places DEF TypeOK, PendingAt, asked
    <2> QED
      BY <1>1, <2>1, <2>2, StillPending DEF IInv
  <1>3. CASE /\ room \notin Listed(rows, a, {}) /\ mRoomId' = "none"
             /\ mDelayedSelectedRooms' = [mDelayedSelectedRooms EXCEPT ![a] = @ \cup ({room} \cap RoomId)]
             /\ UNCHANGED wanted
    <2>1. mDelayedSelectedRooms' \in [Account -> SUBSET RoomId]
      BY <1>1, <1>3 DEF TypeOK
    <2>2. TypeOK'
      BY <1>1, <1>3, <2>1 DEF TypeOK, server, asked
    <2>3. \A p \in Place : wanted'[p[1]] = p[2] => wanted[p[1]] = p[2] /\ (PendingAt(p) => PendingAt(p)')
      BY <1>1, <1>3, Places DEF TypeOK, PendingAt, asked
    <2> QED
      BY <1>1, <2>2, <2>3, StillPending DEF IInv
  <1> QED
    BY <1>2, <1>3 DEF setCurrentRocketChatAccount

LEMMA SlotMissingChannelPassword ==
  ASSUME IInv, NEW j \in passwords, slotMissingChannelPassword(j)
  PROVE  IInv'
  <1> DEFINE p == <<account, j.place[2]>>
             k == [j EXCEPT !.place = p]
  <1>1. /\ TypeOK /\ WantedIsPending /\ j \in Job
        /\ passwords' = passwords \ {j}
        /\ jobs' = jobs \/ (p \in Place /\ jobs' = jobs \cup {k})
        /\ wanted' = [wanted EXCEPT ![j.place[1]] =
              IF @ = j.place[2] /\ (jobs' = jobs \/ account # j.place[1]) THEN "none" ELSE @]
        /\ UNCHANGED <<server, connected, rows, window, delayed, requests>>
    BY DEF IInv, TypeOK, slotMissingChannelPassword
  <1>2. j.place \in Place /\ (p \in Place => k \in Job /\ k.place = p)
    BY <1>1 DEF Job
  <1> HIDE DEF k
  <1>3. wanted' \in [Account -> RoomId \cup {"none"}]
    BY <1>1 DEF TypeOK
  <1>4. TypeOK'
    BY <1>1, <1>2, <1>3 DEF TypeOK, server, window, shown, delayed
  <1>5. ASSUME NEW q \in Place, wanted'[q[1]] = q[2]
        PROVE  wanted[q[1]] = q[2] /\ (PendingAt(q) => PendingAt(q)')
    <2>1. wanted[q[1]] = q[2]
      BY <1>1, <1>5, Places DEF TypeOK
    <2>2. CASE q = j.place
      <3>1. jobs' # jobs /\ account = j.place[1]
        BY <1>1, <1>2, <1>5, <2>1, <2>2, Places DEF TypeOK
      <3>2. p = q /\ k \in jobs' /\ k.place = p
        BY <1>1, <1>2, <2>2, <3>1, Places
      <3> QED
        BY <2>1, <3>2 DEF PendingAt
    <2>3. CASE q # j.place
      BY <1>1, <2>1, <2>3 DEF PendingAt, delayed
    <2> QED
      BY <2>2, <2>3
  <1> QED
    BY <1>1, <1>4, <1>5, StillPending DEF IInv

-----------------------------------------------------------------------------
\* What the server keeps and tells of a subscription.
LEMMA MemberSet ==
  ASSUME TypeOK, NEW p \in Place, NEW status \in Status, SetMember(p, status)
  PROVE  /\ member' \in [Place -> Status]
         /\ events' \in [Place -> Seq(Event)]
         /\ inserted' \subseteq Place
  <1> DEFINE event == [status |-> status, insertion |-> member[p] = "absent"]
  <1>1. event \in Event
    BY DEF Event
  <1> HIDE DEF event
  <1>2. Append(events[p], event) \in Seq(Event)
    BY <1>1 DEF TypeOK
  <1>3. events' = events \/ events' = [events EXCEPT ![p] = Append(@, event)]
    BY DEF SetMember, event
  <1> QED
    BY <1>2, <1>3 DEF TypeOK, SetMember

LEMMA ChangedMember ==
  ASSUME IInv, NEW p \in Place, NEW status \in Status, ChangeMember(p, status)
  PROVE  IInv'
  <1>1. /\ TypeOK /\ WantedIsPending /\ SetMember(p, status)
        /\ changes < MaxChanges /\ changes' = changes + 1
        /\ wanted' = [wanted EXCEPT ![p[1]] = IF @ = p[2] THEN "none" ELSE @]
        /\ UNCHANGED <<connected, rows, window, delayed, asked>>
    BY DEF IInv, ChangeMember
  <1>2. changes' \in 0..MaxChanges
    BY <1>1, OpenRoomAssumption DEF TypeOK
  <1>3. wanted' \in [Account -> RoomId \cup {"none"}]
    BY <1>1 DEF TypeOK
  <1>4. TypeOK'
    BY <1>1, <1>2, <1>3, MemberSet DEF TypeOK, window, shown, delayed, asked
  <1>5. \A q \in Place : wanted'[q[1]] = q[2] => wanted[q[1]] = q[2] /\ (PendingAt(q) => PendingAt(q)')
    BY <1>1, Places DEF TypeOK, PendingAt, delayed, asked
  <1> QED
    BY <1>1, <1>4, <1>5, StillPending DEF IInv

LEMMA Served ==
  ASSUME IInv, NEW j \in jobs, Serve(j)
  PROVE  IInv'
  <1> DEFINE p == j.place
             k == [j EXCEPT !.done = TRUE]
             status == IF j.kind = "open" \/ member[p] = "absent" THEN "open" ELSE member[p]
  <1>1. /\ TypeOK /\ WantedIsPending /\ j \in Job
        /\ SetMember(p, status)
        /\ wanted' = [wanted EXCEPT ![p[1]] =
              IF @ = p[2] /\ (status = "open" => member[p] = status /\ events[p] = <<>> /\ rows[p] # "open")
                THEN "none" ELSE @]
        /\ jobs' = (jobs \ {j}) \cup {k}
        /\ UNCHANGED <<changes, connected, rows, window, delayed, passwords, requests>>
    BY DEF IInv, TypeOK, Serve
  <1>2. p \in Place /\ k \in Job /\ k.place = p
    BY <1>1 DEF Job
  <1>3. status \in Status
    BY <1>1, <1>2 DEF TypeOK, Status
  <1> HIDE DEF k, status
  <1>4. wanted' \in [Account -> RoomId \cup {"none"}]
    BY <1>1 DEF TypeOK
  <1>5. TypeOK'
    BY <1>1, <1>2, <1>3, <1>4, MemberSet DEF TypeOK, window, shown, delayed
  <1>6. ASSUME NEW q \in Place, wanted'[q[1]] = q[2]
        PROVE  wanted[q[1]] = q[2] /\ (PendingAt(q) => PendingAt(q)')
    <2>1. wanted[q[1]] = q[2]
      BY <1>1, <1>6, Places DEF TypeOK
    <2>2. \A i \in jobs : \E i2 \in jobs' : i2.place = i.place
      BY <1>1, <1>2
    <2> QED
      BY <1>1, <2>1, <2>2 DEF PendingAt, delayed
  <1> QED
    BY <1>1, <1>5, <1>6, StillPending DEF IInv

LEMMA Refused ==
  ASSUME IInv, NEW j \in jobs, Refuse(j)
  PROVE  IInv'
  <1>1. /\ TypeOK /\ WantedIsPending /\ j \in Job /\ j.place \in Place
        /\ jobs' = jobs \ {j}
        /\ \/ passwords' = passwords \cup {j} /\ UNCHANGED wanted
           \/ /\ wanted' = [wanted EXCEPT ![j.place[1]] = IF @ = j.place[2] THEN "none" ELSE @]
              /\ UNCHANGED passwords
        /\ UNCHANGED <<server, connected, rows, window, delayed, requests>>
    BY DEF IInv, TypeOK, Refuse, Job
  <1>2. wanted' \in [Account -> RoomId \cup {"none"}]
    BY <1>1 DEF TypeOK
  <1>3. TypeOK'
    BY <1>1, <1>2 DEF TypeOK, server, window, shown, delayed
  <1>4. \A q \in Place : wanted'[q[1]] = q[2] => wanted[q[1]] = q[2] /\ (PendingAt(q) => PendingAt(q)')
    BY <1>1, Places DEF TypeOK, PendingAt, delayed
  <1> QED
    BY <1>1, <1>3, <1>4, StillPending DEF IInv

LEMMA JoinDone ==
  ASSUME IInv, NEW j \in jobs, setChannelJoinDone(j)
  PROVE  IInv'
  <1> DEFINE p == j.place
  <1>1. /\ TypeOK /\ WantedIsPending /\ jobs' = jobs \ {j}
        /\ p \in Place /\ p[1] \in Account /\ p[2] \in RoomId /\ p = <<p[1], p[2]>>
        /\ UNCHANGED <<server, connected, rows, account, mFilterString, timers, passwords, requests>>
    BY Places DEF IInv, TypeOK, setChannelJoinDone, Job
  <1>2. CASE selectRoomByRoomIdRequested(p[1], p[2])
    <2>1. Select(p[2])
      BY <1>2 DEF selectRoomByRoomIdRequested
    <2>2. TypeOK'
      BY <1>1, <1>2, <2>1, Selected, Requested DEF TypeOK, server
    <2>3. ASSUME NEW q \in Place, wanted'[q[1]] = q[2]
          PROVE  wanted[q[1]] = q[2] /\ (PendingAt(q) => PendingAt(q)')
      <3>1. wanted[q[1]] = q[2]
        BY <1>1, <1>2, <2>3, Requested
      <3>2. CASE q = p
        <4>1. p[2] \in mDelayedSelectedRooms'[p[1]] /\ rows[p] # "open"
          BY <1>1, <1>2, <2>3, <3>2, Requested
        <4> QED
          BY <1>1, <3>1, <3>2, <4>1 DEF PendingAt
      <3>3. CASE q # p
        <4>1. \A a \in Account : mDelayedSelectedRooms[a] \subseteq mDelayedSelectedRooms'[a]
          BY <1>1, <2>1, Selected
        <4> QED
          BY <1>1, <3>1, <3>3, <4>1, Places DEF PendingAt
      <3> QED
        BY <3>2, <3>3
    <2> QED
      BY <1>1, <2>2, <2>3, StillPending DEF IInv
  <1>3. CASE /\ wanted' = [wanted EXCEPT ![p[1]] = IF @ = p[2] THEN "none" ELSE @]
             /\ UNCHANGED <<shown, mDelayedSelectedRooms>>
    <2>1. TypeOK'
      BY <1>1, <1>3 DEF TypeOK, server, shown
    <2>2. \A q \in Place : wanted'[q[1]] = q[2] => wanted[q[1]] = q[2] /\ (PendingAt(q) => PendingAt(q)')
      BY <1>1, <1>3, Places DEF TypeOK, PendingAt
    <2> QED
      BY <1>1, <2>1, <2>2, StillPending DEF IInv
  <1> QED
    BY <1>2, <1>3 DEF setChannelJoinDone

-----------------------------------------------------------------------------
\* A row that opens makes due what was waited for.
LEMMA UpdateSubscription ==
  ASSUME IInv, NEW p \in Place, updateSubscription(p)
  PROVE  IInv'
  <1> DEFINE event == Head(events[p])
             applies == event.status = "absent" \/ (event.insertion <=> rows[p] = "absent")
             opens == applies /\ event.status # "absent" /\ (event.status = "open") # (rows[p] = "open")
  <1>1. /\ TypeOK /\ WantedIsPending
        /\ events[p] # <<>> /\ events' = [events EXCEPT ![p] = Tail(@)]
        /\ rows' = IF applies THEN [rows EXCEPT ![p] = event.status] ELSE rows
        /\ IF opens THEN verifyNeedSelectChannel(p) ELSE UNCHANGED delayed
        /\ UNCHANGED <<member, inserted, changes, connected, account, mFilterString, asked>>
    BY DEF IInv, updateSubscription
  <1>2. event \in Event /\ Tail(events[p]) \in Seq(Event) /\ event.status \in Status
    <2>1. events[p] \in Seq(Event)
      BY <1>1 DEF TypeOK
    <2>2. event \in Event /\ Tail(events[p]) \in Seq(Event)
      BY <1>1, <2>1, HeadTail
    <2> QED
      BY <2>2 DEF Event
  <1>3. p[1] \in Account /\ p[2] \in RoomId /\ p = <<p[1], p[2]>>
    BY Places
  <1>4. /\ mRoomId' \in RoomId \cup {"none"}
        /\ lastSelectedRoom' \in [Account -> RoomId \cup {"none"}]
        /\ wanted' \in [Account -> RoomId \cup {"none"}]
        /\ \A q \in Place : wanted'[q[1]] = q[2] => wanted[q[1]] = q[2]
    <2>1. CASE CurrentRowMoves(mFilterString)
      BY <1>1, <2>1, Moved
    <2>2. CASE /\ wanted' = [wanted EXCEPT ![p[1]] = IF @ = p[2] THEN "none" ELSE @]
               /\ UNCHANGED shown
      BY <1>1, <2>2, Places DEF TypeOK, shown
    <2> QED
      BY <2>1, <2>2 DEF updateSubscription
  <1>5. /\ mDelayedSelectedRooms' \in [Account -> SUBSET RoomId]
        /\ timers' \in Seq(Place)
        /\ Range(timers) \subseteq Range(timers')
        /\ \A q \in Place : q[2] \in mDelayedSelectedRooms[q[1]] =>
             \/ q[2] \in mDelayedSelectedRooms'[q[1]] /\ (q = p => ~opens)
             \/ q \in Range(timers')
    <2> DEFINE due == p[2] \in mDelayedSelectedRooms[p[1]]
    <2>1. CASE opens /\ due
      <3>1. /\ timers' = Append(timers, p)
            /\ mDelayedSelectedRooms' = [mDelayedSelectedRooms EXCEPT ![p[1]] = @ \ {p[2]}]
        BY <1>1, <2>1 DEF verifyNeedSelectChannel
      <3>2. timers' \in Seq(Place) /\ Range(timers') = Range(timers) \cup {p}
        BY <1>1, <3>1, AppendedOne DEF TypeOK
      <3>3. mDelayedSelectedRooms' \in [Account -> SUBSET RoomId]
        BY <1>1, <3>1 DEF TypeOK
      <3>4. \A q \in Place : q[2] \in mDelayedSelectedRooms[q[1]] =>
              (q[2] \in mDelayedSelectedRooms'[q[1]] /\ q # p) \/ q \in Range(timers')
        BY <1>1, <1>3, <3>1, <3>2, Places DEF TypeOK
      <3> QED
        BY <3>2, <3>3, <3>4
    <2>2. CASE ~(opens /\ due)
      <3>1. UNCHANGED delayed
        BY <1>1, <2>2 DEF verifyNeedSelectChannel
      <3> QED
        BY <1>1, <2>2, <3>1 DEF TypeOK, delayed
    <2> QED
      BY <2>1, <2>2
  <1>6. TypeOK'
    <2>1. rows' \in [Place -> Status]
      BY <1>1, <1>2 DEF TypeOK
    <2>2. events' \in [Place -> Seq(Event)]
      BY <1>1, <1>2 DEF TypeOK
    <2> QED
      BY <1>1, <1>4, <1>5, <2>1, <2>2 DEF TypeOK, asked
  <1>7. ASSUME NEW q \in Place, PendingAt(q)
        PROVE  PendingAt(q)'
    <2>1. CASE q[2] \in mDelayedSelectedRooms[q[1]] /\ rows[q] # "open"
      <3>1. q = p /\ ~opens => rows'[q] # "open"
        BY <1>1, <1>2, <2>1 DEF TypeOK
      <3>2. q # p => rows'[q] # "open"
        BY <1>1, <2>1 DEF TypeOK
      <3> QED
        BY <1>5, <2>1, <3>1, <3>2 DEF PendingAt
    <2> QED
      BY <1>1, <1>5, <1>7, <2>1 DEF PendingAt, asked
  <1> QED
    BY <1>1, <1>4, <1>6, <1>7, StillPending DEF IInv

LEMMA InsertRoom ==
  ASSUME IInv, NEW p \in Place, insertRoom(p)
  PROVE  IInv'
  <1>1. /\ TypeOK /\ WantedIsPending
        /\ inserted' = inserted \ {p}
        /\ rows' = IF rows[p] = "absent" THEN [rows EXCEPT ![p] = "hidden"] ELSE rows
        /\ UNCHANGED <<member, events, changes, connected, window, delayed, asked, wanted>>
    BY DEF IInv, insertRoom
  <1>2. rows' \in [Place -> Status]
    BY <1>1 DEF TypeOK, Status
  <1>3. TypeOK'
    BY <1>1, <1>2 DEF TypeOK, window, shown, delayed, asked
  <1>4. \A q \in Place : PendingAt(q) => PendingAt(q)'
    BY <1>1 DEF TypeOK, PendingAt, delayed, asked
  <1> QED
    BY <1>1, <1>3, <1>4, StillPending DEF IInv

\* The list is loaded: what is waited for and open is due, in any order.
LEMMA GetsubscriptionParsing ==
  ASSUME IInv, NEW a \in Account, getsubscriptionParsing(a)
  PROVE  IInv'
  <1> DEFINE room == lastSelectedRoom[a]
             due == {p \in Place \cap ({a} \X mDelayedSelectedRooms[a]) : member[p] = "open"}
             left == mDelayedSelectedRooms[a] \ {p[2] : p \in due}
  <1>1. /\ TypeOK /\ WantedIsPending /\ connected' = connected \cup {a}
        /\ rows' = [p \in Place |-> IF p[1] = a THEN member[p] ELSE rows[p]]
        /\ \E order \in [1..Cardinality(due) -> due] : Range(order) = due /\ timers' = timers \o order
        /\ UNCHANGED <<server, account, mFilterString, asked>>
    BY DEF IInv, getsubscriptionParsing
  <1>2. /\ mRoomId' \in RoomId \cup {"none"}
        /\ lastSelectedRoom' \in [Account -> RoomId \cup {"none"}]
        /\ wanted' \in [Account -> RoomId \cup {"none"}]
        /\ \A q \in Place : wanted'[q[1]] = q[2] => wanted[q[1]] = q[2]
        /\ \/ mDelayedSelectedRooms' = [mDelayedSelectedRooms EXCEPT ![a] = left]
           \/ mDelayedSelectedRooms' = [mDelayedSelectedRooms EXCEPT ![a] = left \cup ({room} \cap RoomId)]
    <2>1. CASE /\ a = account /\ room \in Listed(rows', a, mFilterString)
               /\ channelSelected(room)
               /\ mDelayedSelectedRooms' = [mDelayedSelectedRooms EXCEPT ![a] = left]
               /\ wanted' = [wanted EXCEPT ![a] = IF @ = room THEN "none" ELSE @]
      BY <1>1, <2>1, Places DEF TypeOK, channelSelected, Listed
    <2>2. CASE /\ mDelayedSelectedRooms' = [mDelayedSelectedRooms EXCEPT ![a] = left \cup ({room} \cap RoomId)]
               /\ wanted' = [wanted EXCEPT ![a] =
                    IF @ = room /\ room \in Listed(rows', a, {}) THEN "none" ELSE @]
               /\ UNCHANGED shown
      BY <1>1, <2>2, Places DEF TypeOK, shown
    <2>3. CASE /\ mDelayedSelectedRooms' = [mDelayedSelectedRooms EXCEPT ![a] = left]
               /\ UNCHANGED <<shown, wanted>>
      BY <1>1, <2>3 DEF TypeOK, shown
    <2> QED
      BY <2>1, <2>2, <2>3 DEF getsubscriptionParsing
  <1>3. due \subseteq Place /\ mDelayedSelectedRooms[a] \subseteq RoomId /\ left \subseteq RoomId
    BY <1>1 DEF TypeOK
  <1>4. Cardinality(due) \in Nat
    <2>1. IsFiniteSet(mDelayedSelectedRooms[a])
      BY <1>3, FS_Subset, OpenRoomAssumption
    <2>2. IsFiniteSet({a} \X mDelayedSelectedRooms[a])
      BY <2>1, FS_Singleton, FS_Product
    <2>3. due \in SUBSET ({a} \X mDelayedSelectedRooms[a])
      OBVIOUS
    <2>4. IsFiniteSet(due)
      BY <2>2, <2>3, FS_Subset
    <2> QED
      BY <2>4, FS_CardinalityType
  <1>5. /\ timers' \in Seq(Place)
        /\ Range(timers') = Range(timers) \cup due
    <2>1. PICK order \in [1..Cardinality(due) -> due] : Range(order) = due /\ timers' = timers \o order
      BY <1>1
    <2>2. order \in Seq(Place)
      <3>1. order \in [1..Cardinality(due) -> Place]
        BY <1>3
      <3> HIDE DEF due
      <3>2. \A n \in Nat : [1..n -> Place] \subseteq Seq(Place)
        BY SeqDef
      <3> QED
        BY <1>4, <3>1, <3>2
    <2> QED
      BY <1>1, <2>1, <2>2, Appended DEF TypeOK
  <1>6. \A q \in Place : q[2] \in mDelayedSelectedRooms[q[1]] =>
          \/ q[2] \in mDelayedSelectedRooms'[q[1]] /\ (q[1] = a => q \notin due)
          \/ q \in Range(timers')
    <2>1. ASSUME NEW q \in Place, q[2] \in mDelayedSelectedRooms[q[1]]
          PROVE  \/ q[2] \in mDelayedSelectedRooms'[q[1]] /\ (q[1] = a => q \notin due)
                 \/ q \in Range(timers')
      <3>1. CASE q \in due
        BY <1>5, <3>1
      <3>2. CASE q \notin due /\ q[1] = a
        <4>1. \A p \in due : p[1] = a /\ p = <<a, p[2]>>
          BY <1>3, Places
        <4>2. q[2] \in left
          BY <2>1, <3>2, <4>1, Places
        <4> HIDE DEF left
        <4> QED
          BY <1>1, <1>2, <3>2, <4>2 DEF TypeOK
      <3>3. CASE q[1] # a
        BY <1>1, <1>2, <2>1, <3>3, Places DEF TypeOK
      <3> QED
        BY <3>1, <3>2, <3>3
    <2> QED
      BY <2>1
  <1>7. TypeOK'
    <2>1. rows' \in [Place -> Status]
      BY <1>1 DEF TypeOK, server
    <2>2. mDelayedSelectedRooms' \in [Account -> SUBSET RoomId]
      <3> DEFINE more == {room} \cap RoomId
      <3>1. mDelayedSelectedRooms \in [Account -> SUBSET RoomId] /\ left \cup more \subseteq RoomId
        BY <1>1, <1>3 DEF TypeOK
      <3>2. \/ mDelayedSelectedRooms' = [mDelayedSelectedRooms EXCEPT ![a] = left]
            \/ mDelayedSelectedRooms' = [mDelayedSelectedRooms EXCEPT ![a] = left \cup more]
        BY <1>2
      <3> HIDE DEF left, more
      <3> QED
        BY <1>3, <3>1, <3>2
    <2> QED
      BY <1>1, <1>2, <1>5, <2>1, <2>2 DEF TypeOK, server, asked
  <1>8. ASSUME NEW q \in Place, PendingAt(q)
        PROVE  PendingAt(q)'
    <2>1. CASE q[2] \in mDelayedSelectedRooms[q[1]] /\ rows[q] # "open"
      <3>1. q[1] = a /\ q \notin due => member[q] # "open"
        BY <2>1, Places
      <3>2. (q[1] = a => q \notin due) => rows'[q] # "open"
        BY <1>1, <2>1, <3>1 DEF TypeOK
      <3> QED
        BY <1>6, <2>1, <3>2 DEF PendingAt
    <2> QED
      BY <1>1, <1>5, <1>8, <2>1 DEF PendingAt, asked
  <1> QED
    BY <1>1, <1>2, <1>7, <1>8, StillPending DEF IInv

LEMMA ForceDisconnect ==
  ASSUME IInv, NEW a \in Account, forceDisconnect(a)
  PROVE  IInv'
  <1> DEFINE lost == {j \in jobs : j.place[1] = a}
  <1>1. /\ TypeOK /\ WantedIsPending
        /\ changes < MaxChanges /\ changes' = changes + 1
        /\ connected' = connected \ {a}
        /\ rows' = [p \in Place |-> IF p[1] = a THEN "absent" ELSE rows[p]]
        /\ events' = [p \in Place |-> IF p[1] = a THEN <<>> ELSE events[p]]
        /\ inserted' = {p \in inserted : p[1] # a}
        /\ jobs' = jobs \ lost
        /\ wanted' = [wanted EXCEPT ![a] = IF \E j \in lost : j.place[2] = @ THEN "none" ELSE @]
        /\ UNCHANGED <<member, window, delayed, passwords, requests>>
    BY DEF IInv, forceDisconnect
  <1>2. changes' \in 0..MaxChanges
    BY <1>1, OpenRoomAssumption DEF TypeOK
  <1>3. events' \in [Place -> Seq(Event)]
    BY <1>1 DEF TypeOK
  <1>4. rows' \in [Place -> Status]
    BY <1>1 DEF TypeOK, Status
  <1>5. wanted' \in [Account -> RoomId \cup {"none"}]
    BY <1>1 DEF TypeOK
  <1>6. TypeOK'
    BY <1>1, <1>2, <1>3, <1>4, <1>5 DEF TypeOK, window, shown, delayed
  <1>7. ASSUME NEW q \in Place, wanted'[q[1]] = q[2]
        PROVE  wanted[q[1]] = q[2] /\ (PendingAt(q) => PendingAt(q)')
    <2>1. /\ wanted[q[1]] = q[2]
          /\ q[1] = a => \A j \in lost : j.place[2] # q[2]
      BY <1>1, <1>7, Places DEF TypeOK
    <2>2. \A j \in jobs : j.place = q => j \in jobs'
      BY <1>1, <2>1, Places
    <2>3. rows[q] # "open" => rows'[q] # "open"
      BY <1>1 DEF TypeOK
    <2> QED
      BY <1>1, <2>1, <2>2, <2>3 DEF PendingAt, delayed
  <1> QED
    BY <1>1, <1>6, <1>7, StillPending DEF IInv

-----------------------------------------------------------------------------
LEMMA InitLemma ==
  ASSUME Init
  PROVE  IInv
  <1>1. member \in [Place -> Status]
    BY OpenRoomAssumption DEF Init, Status
  <1>2. events \in [Place -> Seq(Event)]
    <2>1. <<>> \in Seq(Event)
      OBVIOUS
    <2> QED
      BY <2>1 DEF Init
  <1>3. timers \in Seq(Place)
    BY DEF Init
  <1>4. rows \in [Place -> Status]
    BY DEF Init, Status
  <1>5. TypeOK
    BY <1>1, <1>2, <1>3, <1>4, OpenRoomAssumption DEF Init, TypeOK
  <1>6. WantedIsPending
    BY Places DEF Init, WantedIsPending
  <1> QED
    BY <1>5, <1>6 DEF IInv

LEMMA StepLemma ==
  ASSUME IInv, [Next]_vars
  PROVE  IInv'
  <1>1. CASE selectDelayed
    BY <1>1, SelectDelayed
  <1>2. ASSUME NEW room \in RoomId, selectChannelRequested(room)
        PROVE  IInv'
    BY <1>2, SelectChannelRequested
  <1>3. ASSUME NEW room \in RoomId, NEW kind \in Kind, openChannel(kind, room)
        PROVE  IInv'
    BY <1>3, OpenChannel
  <1>4. ASSUME NEW j \in passwords, slotMissingChannelPassword(j)
        PROVE  IInv'
    BY <1>4, SlotMissingChannelPassword
  <1>5. ASSUME NEW filter \in Searches, setFilterString(filter)
        PROVE  IInv'
    BY <1>5, SetFilterString
  <1>6. ASSUME NEW p \in Place, JobOf(p)
        PROVE  IInv'
    BY <1>6, Served, Refused, JoinDone DEF JobOf
  <1>7. ASSUME NEW p \in Place, updateSubscription(p)
        PROVE  IInv'
    BY <1>7, UpdateSubscription
  <1>8. ASSUME NEW p \in Place, insertRoom(p)
        PROVE  IInv'
    BY <1>8, InsertRoom
  <1>9. ASSUME NEW p \in Place, NEW status \in Status, ChangeMember(p, status)
        PROVE  IInv'
    BY <1>9, ChangedMember
  <1>10. ASSUME NEW a \in Account,
                setCurrentRocketChatAccount(a) \/ getsubscriptionParsing(a) \/ forceDisconnect(a)
         PROVE  IInv'
    BY <1>10, SetCurrentRocketChatAccount, GetsubscriptionParsing, ForceDisconnect
  <1>11. CASE UNCHANGED vars
    BY <1>11 DEF IInv, TypeOK, WantedIsPending, vars, server, window, shown, delayed, asked
  <1> QED
    BY <1>1, <1>2, <1>3, <1>4, <1>5, <1>6, <1>7, <1>8, <1>9, <1>10, <1>11 DEF Next

LEMMA Invariance == Spec => []IInv
  BY InitLemma, StepLemma, PTL DEF Spec

\* The rows, jobs and ids of rooms keep their types.
THEOREM TypeCorrect == Spec => []TypeOK
  BY Invariance, PTL DEF IInv

\* With any number of accounts, rooms, requests and disruptions, a room that is wanted
\* is asked for, due, or waited for by a list that does not show it yet.
THEOREM WantedIsNotForgotten == Spec => []WantedIsPending
  BY Invariance, PTL DEF IInv
=============================================================================
