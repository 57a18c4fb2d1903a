---------------------------- MODULE RoomMessages ----------------------------
(***************************************************************************)
(* The messages of one room: MessagesModel, which keeps them as rows       *)
(* sorted by time, and what fills it, namely the room's event stream on    *)
(* the websocket, the pages of history loaded over REST, and the REST      *)
(* replies to the user's own posts.  The two transports are not ordered    *)
(* against each other: a page or a reply may be overtaken by events that   *)
(* are newer.                                                              *)
(*                                                                         *)
(* The room is open in a connected account and the local database is off   *)
(* (storeMessageInDataBase), as it is by default.                          *)
(***************************************************************************)
EXTENDS Integers, Sequences, FiniteSets, SequencesExt

CONSTANTS
  Message,           \* identifiers of the room's messages
  Timestamp,         \* when each is posted, Message -> Nat \ {0}
  History,           \* those posted before the program starts
  PageSize,          \* the 50 of loadMessagesHistory
  KeepRows,          \* the 50 of clearHistory
  MaxVersion,        \* bound on the edits of a message
  MaxChanged,        \* bound on the messages edited or deleted
  MaxEvents,         \* bound on the events under way
  MaxJobs            \* bound on the history jobs under way

ASSUME MessageAssumption == IsFiniteSet(Message)
ASSUME TimestampAssumption == Timestamp \in [Message -> Nat \ {0}]
ASSUME HistoryAssumption ==
  /\ History \subseteq Message
  /\ \A old \in History, new \in Message \ History : Timestamp[old] <= Timestamp[new]
ASSUME SizeAssumption == PageSize \in Nat /\ KeepRows \in Nat \ {0}
ASSUME BoundAssumption == {MaxVersion, MaxChanged, MaxEvents, MaxJobs} \subseteq Nat

VARIABLES
  live,              \* on the server: the messages that exist
  version,           \* on the server: how often each was edited
  unposted,          \* messages still to be posted
  stream,            \* subscription to the events: "none", "sent", "active"
  events,            \* stream-room-messages and deleteMessage under way, in order
  jobs,              \* loadHistory jobs under way
  replies,           \* the user's own posts whose REST reply is under way
  rows,              \* mAllMessages
  batch,             \* what addMessages' loop has still to add
  overtaken,         \* history: rows older than what the client was told
  torn               \* history: something may have opened a gap in the rows

vars == <<live, version, unposted, stream, events, jobs, replies, rows, batch, overtaken, torn>>
server == <<live, version, unposted>>

Row == [id : Message, version : 0..MaxVersion, pending : BOOLEAN]
Event == [kind : {"message", "delete"}, row : Row]
NoEnd == 0
Job == [end : Nat, answered : BOOLEAN, page : SUBSET Row]

Time(row) == Timestamp[row.id]
Current(id) == [id |-> id, version |-> version[id], pending |-> FALSE]
Loaded(id) == \E i \in DOMAIN rows : rows[i].id = id
Announced(id) == \E i \in DOMAIN events : events[i].row.id = id

\* The client's thread is in none of its handlers.
Idle == batch = <<>>

Init ==
  /\ live = History
  /\ version = [id \in Message |-> 0]
  /\ unposted = Message \ History
  /\ stream = "none"
  /\ events = <<>>
  /\ jobs = <<>>
  /\ replies = {}
  /\ rows = <<>>
  /\ batch = <<>>
  /\ overtaken = {}
  /\ torn = FALSE

-----------------------------------------------------------------------------
\* The messages of a page in the order the server sends them.
NewestFirst(page) == {s \in SetToSeqs(page) : \A i, j \in DOMAIN s : i <= j => Time(s[i]) >= Time(s[j])}

\* What std::sort leaves, which need not keep the order of equal times.
Sorted(page) == {s \in SetToSeqs(page) : \A i, j \in DOMAIN s : i <= j => Time(s[i]) <= Time(s[j])}

\* Faulty: the insertion point is the lower bound.
LowerBound(u, row) ==
  /\ \A i \in 1..u : Time(rows[i]) < Time(row)
  /\ \A i \in (u + 1)..Len(rows) : Time(rows[i]) >= Time(row)

\* std::upper_bound: the first u rows are not later than the message.
UpperBound(u, row) ==
  /\ \A i \in 1..u : Time(rows[i]) <= Time(row)
  /\ \A i \in (u + 1)..Len(rows) : Time(rows[i]) > Time(row)

IsOnlyRow(row) == Len(rows) = 1 /\ rows[1].id = row.id

\* Faulty: a message that is there already is not updated.
AddMessageNeverUpdates(row) ==
  \E u \in 0..Len(rows) :
    /\ UpperBound(u, row)
    /\ \/ IsOnlyRow(row) /\ rows' = <<row>>
       \/ /\ ~IsOnlyRow(row) /\ u > 0 /\ rows[u].id = row.id
          /\ rows' = rows
       \/ /\ ~IsOnlyRow(row) /\ ~(u > 0 /\ rows[u].id = row.id)
          /\ rows' = InsertAt(rows, u + 1, row)

AddMessage(row) ==
  \E u \in 0..Len(rows) :
    /\ UpperBound(u, row)
    /\ \/ IsOnlyRow(row) /\ rows' = <<row>>
       \/ /\ ~IsOnlyRow(row) /\ u > 0 /\ rows[u].id = row.id
          /\ rows' = IF row.pending THEN rows ELSE [rows EXCEPT ![u] = row]
       \/ /\ ~IsOnlyRow(row) /\ ~(u > 0 /\ rows[u].id = row.id)
          /\ rows' = InsertAt(rows, u + 1, row)

\* addMessages with one message, which its loop handles in one turn.
AddMessages(row) ==
  \/ rows = <<>> /\ rows' = <<row>>
  \/ rows # <<>> /\ AddMessage(row)

deleteMessage(id) ==
  \/ ~Loaded(id) /\ UNCHANGED rows
  \/ \E i \in DOMAIN rows :
       /\ rows[i].id = id
       /\ \A j \in 1..(i - 1) : rows[j].id # id
       /\ rows' = RemoveAt(rows, i)

\* Faulty: an empty model has no time, -1 stands for it.
lastTimestampMinusOne == IF rows = <<>> THEN -1 ELSE Time(rows[1])

\* isEmpty() asks for the newest page, as the first load does.
lastTimestamp == IF rows = <<>> THEN NoEnd ELSE Time(rows[1])

\* row is put before the rows there are: what lies between is not loaded.
PutInFront(row) ==
  /\ ~Loaded(row.id)
  /\ IF rows = <<>> THEN row.pending \/ row.version > 0 ELSE Time(row) < Time(rows[1])

\* The server has changed the message since, and will not say so again.
Outdated(row) == (row.id \notin live \/ row.version # version[row.id]) /\ ~Announced(row.id)

-----------------------------------------------------------------------------
\* The server, as far as the client sees it.
Emit(kind, row) ==
  events' = IF stream = "active" THEN Append(events, [kind |-> kind, row |-> row]) ELSE events

\* A change that is not announced, to a message that is loaded.
Untold(id) == IF stream # "active" /\ Loaded(id) THEN {id} ELSE {}

Post(id, own) ==
  /\ id \in unposted
  /\ \A other \in unposted : Timestamp[id] <= Timestamp[other]
  /\ Len(events) < MaxEvents
  /\ own => stream # "none"
  /\ live' = live \cup {id}
  /\ unposted' = unposted \ {id}
  /\ replies' = IF own THEN replies \cup {id} ELSE replies
  /\ Emit("message", Current(id))
  /\ torn' = (torn \/ stream = "sent")
  /\ UNCHANGED <<version, stream, jobs, rows, batch, overtaken>>

\* At most MaxChanged messages are ever edited or deleted.
MayChange(id) ==
  Cardinality({id} \cup {other \in Message \ unposted : version[other] > 0 \/ other \notin live}) <= MaxChanged

Edit(id) ==
  /\ id \in live
  /\ MayChange(id)
  /\ version[id] < MaxVersion
  /\ Len(events) < MaxEvents
  /\ version' = [version EXCEPT ![id] = @ + 1]
  /\ Emit("message", [Current(id) EXCEPT !.version = @ + 1])
  /\ overtaken' = overtaken \cup Untold(id)
  /\ UNCHANGED <<live, unposted, stream, jobs, replies, rows, batch, torn>>

Delete(id) ==
  /\ id \in live
  /\ MayChange(id)
  /\ Len(events) < MaxEvents
  /\ live' = live \ {id}
  /\ Emit("delete", Current(id))
  /\ overtaken' = overtaken \cup Untold(id)
  /\ UNCHANGED <<version, unposted, stream, jobs, replies, rows, batch, torn>>

Subscribed ==
  /\ stream = "sent"
  /\ stream' = "active"
  /\ UNCHANGED <<server, events, jobs, replies, rows, batch, overtaken, torn>>

\* The newest messages before the end the job names.
AnswerHistory(i) ==
  LET Older == {id \in live : jobs[i].end = NoEnd \/ Timestamp[id] < jobs[i].end} IN
  /\ ~jobs[i].answered
  /\ \E page \in SUBSET Older :
       /\ Cardinality(page) = IF Cardinality(Older) < PageSize THEN Cardinality(Older) ELSE PageSize
       /\ \A id \in page, other \in Older \ page : Timestamp[other] <= Timestamp[id]
       /\ jobs' = [jobs EXCEPT ![i].answered = TRUE, ![i].page = {Current(id) : id \in page}]
  /\ UNCHANGED <<server, stream, events, replies, rows, batch, overtaken, torn>>

-----------------------------------------------------------------------------
StartJob(end) ==
  /\ Len(jobs) < MaxJobs
  /\ jobs' = Append(jobs, [end |-> end, answered |-> FALSE, page |-> {}])

\* The subscription goes over the websocket, the first page over REST.
checkInitializedRoom ==
  /\ Idle
  /\ stream = "none"
  /\ stream' = "sent"
  /\ StartJob(NoEnd)
  /\ UNCHANGED <<server, events, replies, rows, batch, overtaken, torn>>

\* The view is scrolled to its top.  The room's own count of its messages
\* comes with other events, so any count may be met.
loadHistory(numberMessages) ==
  /\ Idle
  /\ stream # "none"
  /\ numberMessages # Len(rows)
  /\ StartJob(lastTimestamp)
  /\ UNCHANGED <<server, stream, events, replies, rows, batch, overtaken, torn>>

\* processIncomingMessages of a page: all of it at once into an empty model,
\* else one by one.
HistoryDone(i) ==
  /\ Idle
  /\ jobs[i].answered
  /\ jobs' = RemoveAt(jobs, i)
  /\ LET page == jobs[i].page IN
     /\ overtaken' = overtaken \cup {row.id : row \in {r \in page : Outdated(r)}}
     /\ \/ rows = <<>> /\ rows' \in Sorted(page) /\ batch' = <<>>
        \/ rows # <<>> /\ batch' \in NewestFirst(page) /\ rows' = rows
  /\ UNCHANGED <<server, stream, events, replies, torn>>

\* The job fails: methodCallDone is not emitted.
HistoryFails(i) ==
  /\ Idle
  /\ jobs' = RemoveAt(jobs, i)
  /\ UNCHANGED <<server, stream, events, replies, rows, batch, overtaken, torn>>

\* One turn of addMessages' loop.
AddNext ==
  /\ ~Idle
  /\ AddMessage(Head(batch))
  /\ batch' = Tail(batch)
  /\ UNCHANGED <<server, stream, events, jobs, replies, overtaken, torn>>

slotChanged ==
  /\ Idle
  /\ events # <<>>
  /\ events' = Tail(events)
  /\ LET event == Head(events) IN
     /\ \/ event.kind = "message" /\ AddMessages(event.row)
        \/ event.kind = "delete" /\ deleteMessage(event.row.id)
     /\ overtaken' = overtaken \ {event.row.id}
     /\ torn' = (torn \/ (event.kind = "message" /\ PutInFront(event.row)))
  /\ UNCHANGED <<server, stream, jobs, replies, batch>>

\* The reply to a post adds it as pending, as it was posted.
slotPostMessageDone(id) ==
  LET row == [id |-> id, version |-> 0, pending |-> TRUE] IN
  /\ Idle
  /\ id \in replies
  /\ replies' = replies \ {id}
  /\ AddMessages(row)
  /\ overtaken' = IF Outdated(row) /\ rows' # rows THEN overtaken \cup {id} ELSE overtaken
  /\ torn' = (torn \/ PutInFront(row))
  /\ UNCHANGED <<server, stream, events, jobs, batch>>

\* Faulty: the newest rows are removed.
clearHistoryKeepsOldest ==
  /\ Idle
  /\ Len(rows) > KeepRows
  /\ rows' = SubSeq(rows, 1, KeepRows)
  /\ torn' = (torn \/ jobs # <<>>)
  /\ UNCHANGED <<server, stream, events, jobs, replies, batch, overtaken>>

\* MemoryManager's hourly timer, or the user.
clearHistory ==
  /\ Idle
  /\ Len(rows) > KeepRows
  /\ rows' = SubSeq(rows, Len(rows) - KeepRows + 1, Len(rows))
  /\ torn' = (torn \/ jobs # <<>>)
  /\ UNCHANGED <<server, stream, events, jobs, replies, batch, overtaken>>

-----------------------------------------------------------------------------
Server ==
  \/ \E id \in Message, own \in BOOLEAN : Post(id, own)
  \/ \E id \in Message : Edit(id) \/ Delete(id)
  \/ Subscribed
  \/ \E i \in DOMAIN jobs : AnswerHistory(i)

Client ==
  \/ checkInitializedRoom
  \/ \E numberMessages \in 0..Cardinality(Message) : loadHistory(numberMessages)
  \/ \E i \in DOMAIN jobs : HistoryDone(i) \/ HistoryFails(i)
  \/ AddNext
  \/ slotChanged
  \/ \E id \in Message : slotPostMessageDone(id)
  \/ clearHistory

\* While the client is in addMessages' loop nothing else is of interest.
Next == (Idle /\ Server) \/ Client

Spec == Init /\ [][Next]_vars

-----------------------------------------------------------------------------
\* Types: what is put into, cut off and taken out of the lists keeps them
\* lists of messages, and the end a job names is a time.
TypeOK ==
  /\ live \subseteq Message
  /\ version \in [Message -> 0..MaxVersion]
  /\ unposted \subseteq Message
  /\ stream \in {"none", "sent", "active"}
  /\ events \in Seq(Event)
  /\ jobs \in Seq(Job)
  /\ replies \subseteq Message
  /\ rows \in Seq(Row)
  /\ batch \in Seq(Row)
  /\ overtaken \subseteq Message
  /\ torn \in BOOLEAN

\* The rows are in the order of their times, whatever order they came in:
\* the binary search of addMessage and lastTimestamp() rely on it.
RowsSorted == \A i, j \in DOMAIN rows : i <= j => Time(rows[i]) <= Time(rows[j])

\* Another message of the room has the same time, to the millisecond: the
\* binary search may then find the other one.
SharesTime(id) == \E other \in Message \ {id} : Timestamp[other] = Timestamp[id]

\* No message is in the list twice, though pages, events and replies bring
\* it again, unless it shares its time with another message.
NoDuplicates ==
  \A i, j \in DOMAIN rows : rows[i].id = rows[j].id => i = j \/ SharesTime(rows[i].id)

Quiet == Idle /\ events = <<>>

IsLast(i) == \A j \in DOMAIN rows : j > i => rows[j].id # rows[i].id

\* With all events applied, every row, the last one of a message that has
\* several, shows its message as the server has it, unless a page or a reply
\* was overtaken on the way by that message's last event.  A row whose message
\* is deleted can only stay when the message shares its time with another.
RowsAreCurrent ==
  Quiet => \A i \in DOMAIN rows :
    LET id == rows[i].id IN
    id \notin overtaken /\ IsLast(i) =>
      IF id \in live THEN rows[i].version = version[id] ELSE SharesTime(id)

Gone(id) == id \notin live /\ id \notin unposted

\* With all events applied, every message newer than the oldest row is a
\* row, so that loading before the oldest row misses nothing; what is known
\* to tear the list apart is recorded in torn.  Of messages that share a time
\* one at least is a row, or was and is deleted: pages are cut at a time.
NothingMissing ==
  Quiet /\ stream = "active" /\ rows # <<>> /\ ~torn =>
    \A id \in live : Timestamp[id] > Time(rows[1]) =>
      \E other \in Message : Timestamp[other] = Timestamp[id] /\ (Loaded(other) \/ Gone(other))
=============================================================================
