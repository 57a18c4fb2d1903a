---------------------------- MODULE FileCacheProofs ----------------------------
(***************************************************************************)
(* The types of FileCache, and that its queue of avatars is served, that   *)
(* its files are fetched once, and which changes of avatars reach what is  *)
(* kept of them.                                                           *)
(***************************************************************************)
EXTENDS FileCache, FiniteSetTheorems, TLAPS

\* There are no more events than there were changes.
EventsAreOfChanges == \A a \in Avatar : events[a] < version[a]

Typed == TypeOK /\ EventsAreOfChanges

\* What is kept of an avatar, and what is on its way to be kept.
Fresh(a) ==
  /\ disk[a] \in {Nothing, version[a]}
  /\ \A v \in View : pixmap[v][a] \in {Nothing, version[a]}
  /\ \A j \in Job : j.what = a /\ jobs[j] > 0 => j.answer \in {Nothing, version[a]}

ChangesReachAll == \A a \in Avatar : events[a] = 0 /\ a \notin overtaken => Fresh(a)

IInv == Typed /\ QueueIsServed /\ FilesAreFetchedOnce /\ ChangesReachAll

-----------------------------------------------------------------------------
\* Jobs are of one avatar or of one file.
LEMMA Jobs ==
  /\ \A a \in Avatar : asked(a) \in Job /\ asked(a).what = a /\ asked(a).answer = Nothing
  /\ \A f \in File : /\ asked(f) \in Job /\ asked(f).what = f /\ asked(f).answer = 1
                     /\ \A j \in Job : j.what = f => j = asked(f)
  /\ \A j \in Job : /\ j.what \in What
                    /\ j.answer \in Version \cup {Nothing}
                    /\ j.answer = Nothing => j.what \in Avatar
  /\ \A j \in Job, n \in Version : j.answer = Nothing =>
       LET k == [j EXCEPT !.answer = n] IN k \in Job /\ k.what = j.what /\ k.answer = n /\ k # j
  <1>0. Avatar \cap File = {} /\ 1 \in Version /\ Nothing \notin Version
    BY FileAssumption, FileBoundAssumption DEF Version, Nothing
  <1> DEFINE Of(a) == [what : Avatar, answer : Version \cup {Nothing}]
             OfFile == [what : File, answer : {1}]
  <1>1. Job = Of(0) \cup OfFile
    BY DEF Job
  <1>2. ASSUME NEW a \in Avatar
        PROVE  asked(a) \in Job /\ asked(a).what = a /\ asked(a).answer = Nothing
    BY <1>1 DEF asked
  <1>3. ASSUME NEW f \in File
        PROVE  /\ asked(f) \in Job /\ asked(f).what = f /\ asked(f).answer = 1
               /\ \A j \in Job : j.what = f => j = asked(f)
    <2>1. asked(f) = [what |-> f, answer |-> 1]
      BY <1>0 DEF asked
    <2>2. ASSUME NEW j \in Job, j.what = f
          PROVE  j = asked(f)
      <3>1. j \in OfFile
        BY <1>0, <1>1, <2>2
      <3> QED
        BY <3>1, <2>1, <2>2
    <2> QED
      BY <2>1, <2>2, <1>1
  <1>4. ASSUME NEW j \in Job
        PROVE  /\ j.what \in What
               /\ j.answer \in Version \cup {Nothing}
               /\ j.answer = Nothing => j.what \in Avatar
    BY <1>0, <1>1 DEF What, Nothing
  <1>5. ASSUME NEW j \in Job, NEW n \in Version, j.answer = Nothing
        PROVE  LET k == [j EXCEPT !.answer = n] IN k \in Job /\ k.what = j.what /\ k.answer = n /\ k # j
    <2>1. j \in Of(0)
      BY <1>1, <1>5 DEF Nothing
    <2> QED
      BY <2>1, <1>0, <1>1, <1>5
  <1> QED
    BY <1>2, <1>3, <1>4, <1>5

\* Numbers of jobs stay natural.
LEMMA JobCounts ==
  ASSUME jobs \in [Job -> Nat], version \in [Avatar -> Version]
  PROVE  /\ \A w \in What : start(w) => jobs' \in [Job -> Nat]
         /\ \A j \in Job : jobs[j] > 0 /\ finish(j) => jobs' \in [Job -> Nat]
         /\ \A j \in Job : Answer(j) => jobs' \in [Job -> Nat]
  <1>1. ASSUME NEW w \in What, start(w)
        PROVE  jobs' \in [Job -> Nat]
    <2>1. asked(w) \in Job
      BY Jobs DEF What
    <2> QED
      BY <1>1, <2>1 DEF start
  <1>2. ASSUME NEW j \in Job, jobs[j] > 0, finish(j)
        PROVE  jobs' \in [Job -> Nat]
    BY <1>2 DEF finish
  <1>3. ASSUME NEW j \in Job, Answer(j)
        PROVE  jobs' \in [Job -> Nat]
    <2>1. j.what \in Avatar /\ version[j.what] \in Version
      BY <1>3, Jobs DEF Answer
    <2> DEFINE k == [j EXCEPT !.answer = version[j.what]]
    <2>2. k \in Job /\ k # j
      BY <1>3, <2>1, Jobs DEF Answer
    <2>3. jobs' = [jobs EXCEPT ![j] = @ - 1, ![k] = @ + 1]
      BY <1>3 DEF Answer
    <2> HIDE DEF k
    <2> QED
      BY <2>2, <2>3, <1>3 DEF Answer
  <1> QED
    BY <1>1, <1>2, <1>3

-----------------------------------------------------------------------------
\* What an insertion leaves in the queue.
LEMMA Inserted ==
  ASSUME NEW a \in Avatar,
         mAvatarDownloadIdentifer \in Seq(Avatar), mTimer \in BOOLEAN,
         insertInDownloadQueue(a)
  PROVE  /\ mAvatarDownloadIdentifer' \in Seq(Avatar)
         /\ mTimer' \in BOOLEAN
         /\ Range(mAvatarDownloadIdentifer') = Range(mAvatarDownloadIdentifer) \cup {a}
         /\ mTimer \/ mAvatarDownloadIdentifer = <<>> => mTimer' /\ mAvatarDownloadIdentifer' # <<>>
         /\ mTimer' => mTimer \/ mAvatarDownloadIdentifer' # <<>>
         /\ IsInjective(mAvatarDownloadIdentifer) => IsInjective(mAvatarDownloadIdentifer')
  <1> DEFINE q == mAvatarDownloadIdentifer
  <1>1. CASE a \in Range(q)
    <2>1. q # <<>>
      BY <1>1 DEF Range
    <2> QED
      BY <1>1, <2>1 DEF insertInDownloadQueue
  <1>2. CASE a \notin Range(q)
    <2>1. q' = Append(q, a)
      BY <1>2 DEF insertInDownloadQueue
    <2>2. /\ q' \in Seq(Avatar) /\ q' # <<>> /\ Len(q') = Len(q) + 1
          /\ q'[Len(q) + 1] = a
          /\ \A i \in 1..Len(q) : q'[i] = q[i]
          /\ DOMAIN q = 1..Len(q) /\ DOMAIN q' = 1..(Len(q) + 1)
      BY <2>1
    <2>3. Range(q') = Range(q) \cup {a}
      BY <2>2 DEF Range
    <2>4. IsInjective(q) => IsInjective(q')
      <3>1. \A i \in 1..Len(q) : q[i] # a
        BY <1>2, <2>2 DEF Range
      <3> QED
        BY <2>2, <3>1 DEF IsInjective
    <2> QED
      BY <2>2, <2>3, <2>4 DEF insertInDownloadQueue
  <1> QED
    BY <1>1, <1>2

\* What the first one queued leaves behind.
LEMMA TailLeft ==
  ASSUME NEW S, NEW q \in Seq(S), q # <<>>
  PROVE  /\ Head(q) \in S /\ Head(q) \in Range(q)
         /\ Tail(q) \in Seq(S)
         /\ Range(q) \subseteq Range(Tail(q)) \cup {Head(q)}
         /\ IsInjective(q) => IsInjective(Tail(q))
  <1>1. /\ Len(q) \in Nat /\ Len(q) > 0
        /\ DOMAIN q = 1..Len(q) /\ DOMAIN Tail(q) = 1..(Len(q) - 1)
        /\ \A i \in 1..(Len(q) - 1) : Tail(q)[i] = q[i + 1]
        /\ Head(q) = q[1] /\ Head(q) \in S /\ Tail(q) \in Seq(S)
    OBVIOUS
  <1>2. Head(q) \in Range(q)
    BY <1>1 DEF Range
  <1>3. ASSUME NEW x \in Range(q), x # Head(q)
        PROVE  x \in Range(Tail(q))
    <2>1. PICK i \in 1..Len(q) : q[i] = x
      BY <1>1 DEF Range
    <2>2. i - 1 \in 1..(Len(q) - 1) /\ Tail(q)[i - 1] = x
      BY <1>1, <1>3, <2>1
    <2> QED
      BY <1>1, <2>2 DEF Range
  <1>4. IsInjective(q) => IsInjective(Tail(q))
    BY <1>1 DEF IsInjective
  <1> QED
    BY <1>1, <1>2, <1>3, <1>4

\* The queue, as it is read, inserted into, served and lost.
LEMMA QueueStep ==
  ASSUME Typed, QueueIsServed, [Next]_vars
  PROVE  QueueIsServed'
  <1> DEFINE q == mAvatarDownloadIdentifer
             Keeps == UNCHANGED <<mAvatarUrl, manager>>
  <1>0. /\ q \in Seq(Avatar) /\ mTimer \in BOOLEAN
        /\ mAvatarUrl \in [Avatar -> {"absent", "empty", "url"}]
    BY DEF Typed, TypeOK
  <1>1. Keeps => QueueIsServed'
    BY DEF QueueIsServed, manager
  <1>2. ASSUME NEW a \in Avatar, insertInDownloadQueue(a),
               \A b \in Avatar : b # a => mAvatarUrl'[b] = mAvatarUrl[b]
        PROVE  QueueIsServed'
    <2>1. Range(q') = Range(q) \cup {a} /\ q' \in Seq(Avatar)
      BY <1>0, <1>2, Inserted
    <2>2. mTimer' <=> q' # <<>>
      BY <1>0, <1>2, Inserted DEF QueueIsServed
    <2>3. IsInjective(q')
      BY <1>0, <1>2, Inserted DEF QueueIsServed
    <2>4. \A b \in Avatar : mAvatarUrl'[b] = "empty" => b \in Range(q')
      BY <1>2, <2>1 DEF QueueIsServed
    <2> QED
      BY <2>2, <2>3, <2>4 DEF QueueIsServed
  <1>3. ASSUME NEW a \in Avatar, avatarUrl(a)
        PROVE  QueueIsServed'
    <2>1. \A b \in Avatar : b # a => mAvatarUrl'[b] = mAvatarUrl[b]
      BY <1>0, <1>3 DEF avatarUrl
    <2> QED
      BY <1>2, <1>3, <2>1 DEF avatarUrl
  <1>4. ASSUME NEW v \in View, NEW a \in Avatar, makeAvatarPixmap(v, a)
        PROVE  QueueIsServed'
    BY <1>1, <1>3, <1>4 DEF makeAvatarPixmap
  <1>5. ASSUME NEW a \in Avatar, slotAvatarChanged(a)
        PROVE  QueueIsServed'
    <2>1. CASE updateAvatar(a)
      <3>1. \A b \in Avatar : b # a => mAvatarUrl'[b] = mAvatarUrl[b]
        BY <1>0, <2>1 DEF updateAvatar
      <3> QED
        BY <1>2, <2>1, <3>1 DEF updateAvatar
    <2> QED
      BY <1>1, <1>3, <1>5, <2>1 DEF slotAvatarChanged
  <1>6. CASE slotLoadNextAvatar
    <2> DEFINE a == Head(q)
    <2>1. q # <<>>
      BY <1>6 DEF slotLoadNextAvatar, QueueIsServed
    <2>2. q' = Tail(q) /\ mTimer' = (q' # <<>>) /\ mAvatarUrl' = [mAvatarUrl EXCEPT ![a] = "url"]
      BY <1>6 DEF slotLoadNextAvatar
    <2>3. /\ a \in Avatar /\ IsInjective(q') /\ q' \in Seq(Avatar)
          /\ Range(q) \subseteq Range(q') \cup {a}
      BY <1>0, <2>1, <2>2, TailLeft DEF QueueIsServed
    <2>4. ASSUME NEW b \in Avatar, mAvatarUrl'[b] = "empty"
          PROVE  b \in Range(q')
      <3>1. b # a /\ mAvatarUrl[b] = "empty"
        BY <1>0, <2>2, <2>3, <2>4
      <3> QED
        BY <2>3, <3>1 DEF QueueIsServed
    <2>5. mTimer' <=> q' # <<>>
      BY <2>2
    <2> QED
      BY <2>3, <2>4, <2>5 DEF QueueIsServed
  <1>7. CASE Restart
    <2>1. q' = <<>> /\ mTimer' = FALSE /\ \A a \in Avatar : mAvatarUrl'[a] # "empty"
      BY <1>7 DEF Restart
    <2>2. IsInjective(q')
      BY <2>1 DEF IsInjective
    <2> QED
      BY <2>1, <2>2 DEF QueueIsServed
  <1>8. ASSUME NEW v \in View, clearCache(v)
        PROVE  QueueIsServed'
    BY <1>1, <1>8 DEF clearCache
  <1>9. ASSUME NEW a \in Avatar, ChangeAvatar(a)
        PROVE  QueueIsServed'
    BY <1>1, <1>9 DEF ChangeAvatar
  <1>10. ASSUME NEW f \in File, downloadFileFromServer(f)
         PROVE  QueueIsServed'
    BY <1>1, <1>10 DEF downloadFileFromServer
  <1>11. ASSUME NEW w \in What, JobOf(w)
         PROVE  QueueIsServed'
    BY <1>1, <1>11 DEF JobOf, Answer, slotDownloadDone, DownloadFailed
  <1>12. CASE LogIn \/ forceDisconnect \/ UNCHANGED vars
    BY <1>1, <1>12 DEF LogIn, forceDisconnect, vars
  <1> QED
    BY <1>4, <1>5, <1>6, <1>7, <1>8, <1>9, <1>10, <1>11, <1>12 DEF Next

-----------------------------------------------------------------------------
\* The types after each kind of step.
LEMMA TypesOfJobs ==
  ASSUME Typed, NEW w \in What, JobOf(w)
  PROVE  Typed'
  <1> PICK j \in Job : Answer(j) \/ slotDownloadDone(j) \/ DownloadFailed(j)
    BY DEF JobOf
  <1>0. j.what \in What /\ j.answer \in Version \cup {Nothing}
    BY Jobs
  <1>1. jobs' \in [Job -> Nat]
    BY JobCounts DEF Typed, TypeOK, slotDownloadDone, DownloadFailed
  <1>2. CASE Answer(j)
    BY <1>1, <1>2 DEF Answer, Typed, TypeOK, EventsAreOfChanges, server, manager, history
  <1>3. CASE slotDownloadDone(j)
    <2>1. disk' \in [What -> Version \cup {Nothing}]
      BY <1>0, <1>3 DEF slotDownloadDone, Typed, TypeOK
    <2>2. mFileInDownload' \subseteq File /\ givenUp' \subseteq File
      BY <1>3 DEF slotDownloadDone, Typed, TypeOK
    <2> QED
      BY <1>1, <1>3, <2>1, <2>2
      DEF slotDownloadDone, Typed, TypeOK, EventsAreOfChanges, server, manager
  <1>4. CASE DownloadFailed(j)
    <2>1. failed' \subseteq Avatar /\ givenUp' \subseteq File
      BY <1>4 DEF DownloadFailed, Typed, TypeOK
    <2> QED
      BY <1>1, <1>4, <2>1
      DEF DownloadFailed, Typed, TypeOK, EventsAreOfChanges, server, manager
  <1> QED
    BY <1>2, <1>3, <1>4

LEMMA TypesOfAvatarUrl ==
  ASSUME Typed, NEW a \in Avatar, avatarUrl(a)
  PROVE  /\ mAvatarUrl' \in [Avatar -> {"absent", "empty", "url"}]
         /\ mAvatarDownloadIdentifer' \in Seq(Avatar)
         /\ mTimer' \in BOOLEAN
         /\ failed' \subseteq Avatar
  <1>1. mAvatarDownloadIdentifer' \in Seq(Avatar) /\ mTimer' \in BOOLEAN
    BY Inserted DEF Typed, TypeOK, avatarUrl
  <1>2. mAvatarUrl' \in [Avatar -> {"absent", "empty", "url"}]
    BY DEF Typed, TypeOK, avatarUrl
  <1> QED
    BY <1>1, <1>2 DEF Typed, TypeOK, avatarUrl

LEMMA TypesOfPaint ==
  ASSUME Typed, NEW v \in View, NEW a \in Avatar, makeAvatarPixmap(v, a)
  PROVE  Typed'
  <1>1. CASE avatarUrl(a) /\ UNCHANGED pixmap
    BY <1>1, TypesOfAvatarUrl DEF makeAvatarPixmap, Typed, TypeOK, EventsAreOfChanges, server
  <1>2. CASE pixmap' = [pixmap EXCEPT ![v][a] = disk[a]] /\ UNCHANGED <<mAvatarUrl, manager, failed>>
    <2>1. disk[a] \in Version \cup {Nothing}
      BY DEF Typed, TypeOK, What
    <2>2. pixmap' \in [View -> [Avatar -> Version \cup {Nothing}]]
      BY <1>2, <2>1 DEF Typed, TypeOK
    <2> QED
      BY <1>2, <2>2 DEF makeAvatarPixmap, Typed, TypeOK, EventsAreOfChanges, server, manager
  <1> QED
    BY <1>1, <1>2 DEF makeAvatarPixmap

LEMMA TypesOfChange ==
  ASSUME Typed, NEW a \in Avatar, slotAvatarChanged(a)
  PROVE  Typed'
  <1>1. events' \in [Avatar -> 0..MaxChanges] /\ EventsAreOfChanges'
    <2>1. events' = [events EXCEPT ![a] = @ - 1] /\ events[a] > 0 /\ version' = version
      BY DEF slotAvatarChanged
    <2> QED
      BY <2>1, FileBoundAssumption DEF Typed, TypeOK, EventsAreOfChanges, Version
  <1>2. overtaken' \subseteq Avatar
    BY DEF slotAvatarChanged, Typed, TypeOK
  <1>3. CASE avatarUrl(a) /\ UNCHANGED <<disk, pixmap>>
    BY <1>1, <1>2, <1>3, TypesOfAvatarUrl DEF slotAvatarChanged, Typed, TypeOK
  <1>4. CASE UNCHANGED <<mAvatarUrl, manager, disk, pixmap, failed>>
    BY <1>1, <1>2, <1>4 DEF slotAvatarChanged, Typed, TypeOK, manager
  <1>5. ASSUME NEW first \in View, pixmap' = [pixmap EXCEPT ![first][a] = Nothing], updateAvatar(a)
        PROVE  Typed'
    <2>1. pixmap' \in [View -> [Avatar -> Version \cup {Nothing}]]
      BY <1>5 DEF Typed, TypeOK
    <2>2. disk' \in [What -> Version \cup {Nothing}]
      BY <1>5 DEF updateAvatar, Typed, TypeOK
    <2>3. mAvatarUrl' \in [Avatar -> {"absent", "empty", "url"}] /\ failed' \subseteq Avatar
      BY <1>5 DEF updateAvatar, Typed, TypeOK
    <2>4. mAvatarDownloadIdentifer' \in Seq(Avatar) /\ mTimer' \in BOOLEAN
      BY <1>5, Inserted DEF updateAvatar, Typed, TypeOK
    <2> QED
      BY <1>1, <1>2, <2>1, <2>2, <2>3, <2>4 DEF slotAvatarChanged, Typed, TypeOK
  <1> QED
    BY <1>3, <1>4, <1>5 DEF slotAvatarChanged, holders

LEMMA TypesOfTimer ==
  ASSUME Typed, QueueIsServed, slotLoadNextAvatar
  PROVE  Typed'
  <1> DEFINE a == Head(mAvatarDownloadIdentifer)
  <1>1. a \in Avatar /\ mAvatarDownloadIdentifer' \in Seq(Avatar)
    BY TailLeft DEF slotLoadNextAvatar, QueueIsServed, Typed, TypeOK
  <1>2. jobs' \in [Job -> Nat]
    <2>1. start(a) \/ UNCHANGED jobs
      BY DEF slotLoadNextAvatar
    <2> QED
      BY <1>1, <2>1, JobCounts DEF Typed, TypeOK, What
  <1>3. mAvatarUrl' \in [Avatar -> {"absent", "empty", "url"}] /\ failed' \subseteq Avatar
    BY <1>1 DEF slotLoadNextAvatar, Typed, TypeOK
  <1>4. mTimer' \in BOOLEAN
    BY DEF slotLoadNextAvatar
  <1> QED
    BY <1>1, <1>2, <1>3, <1>4 DEF slotLoadNextAvatar, Typed, TypeOK, EventsAreOfChanges, server

LEMMA TypesOfConnections ==
  ASSUME Typed, LogIn \/ forceDisconnect \/ Restart
  PROVE  Typed'
  <1>1. CASE LogIn
    BY <1>1 DEF LogIn, Typed, TypeOK, EventsAreOfChanges, manager, history
  <1>2. ASSUME LoseConnections
        PROVE  /\ authenticated' \in BOOLEAN /\ jobs' \in [Job -> Nat]
               /\ events' \in [Avatar -> 0..MaxChanges] /\ EventsAreOfChanges'
               /\ overtaken' \subseteq Avatar /\ version' = version
    <2>1. authenticated' \in BOOLEAN /\ version' = version
      BY <1>2 DEF LoseConnections
    <2>2. jobs' \in [Job -> Nat]
      BY <1>2 DEF LoseConnections
    <2>3. events' \in [Avatar -> 0..MaxChanges] /\ \A a \in Avatar : events'[a] = 0
      BY <1>2, FileBoundAssumption DEF LoseConnections
    <2>4. EventsAreOfChanges'
      BY <2>1, <2>3 DEF Typed, TypeOK, EventsAreOfChanges, Version
    <2>5. overtaken' \subseteq Avatar
      BY <1>2 DEF LoseConnections, Typed, TypeOK
    <2> QED
      BY <2>1, <2>2, <2>3, <2>4, <2>5
  <1>3. CASE forceDisconnect
    <2>1. failed' \subseteq Avatar /\ givenUp' \subseteq File
      BY <1>3 DEF forceDisconnect, Typed, TypeOK
    <2> QED
      BY <1>2, <1>3, <2>1 DEF forceDisconnect, Typed, TypeOK, manager
  <1>4. CASE Restart
    <2>1. stored' \subseteq Avatar /\ mAvatarUrl' \in [Avatar -> {"absent", "empty", "url"}]
      BY <1>4 DEF Restart, Typed, TypeOK
    <2>2. pixmap' \in [View -> [Avatar -> Version \cup {Nothing}]]
      BY <1>4 DEF Restart
    <2>3. failed' \subseteq Avatar /\ givenUp' \subseteq File /\ mFileInDownload' \subseteq File
      BY <1>4 DEF Restart, Typed, TypeOK
    <2>4. mAvatarDownloadIdentifer' \in Seq(Avatar) /\ mTimer' \in BOOLEAN
      <3>1. mTimer' = FALSE
        BY <1>4 DEF Restart
      <3>2. mTimer' \in BOOLEAN
        BY <3>1
      <3>3. mAvatarDownloadIdentifer' \in Seq(Avatar)
        <4>1. mAvatarDownloadIdentifer' = <<>>
          BY <1>4 DEF Restart
        <4>2. <<>> \in Seq(Avatar)
          OBVIOUS
        <4> QED
          BY <4>1, <4>2
      <3> QED
        BY <3>2, <3>3
    <2> QED
      BY <1>2, <1>4, <2>1, <2>2, <2>3, <2>4 DEF Restart, Typed, TypeOK
  <1> QED
    BY <1>1, <1>3, <1>4

LEMMA TypeStep ==
  ASSUME Typed, QueueIsServed, [Next]_vars
  PROVE  Typed'
  <1>1. ASSUME NEW v \in View, clearCache(v)
        PROVE  Typed'
    <2>1. pixmap' \in [View -> [Avatar -> Version \cup {Nothing}]]
      BY <1>1 DEF clearCache, Typed, TypeOK
    <2> QED
      BY <1>1, <2>1 DEF clearCache, Typed, TypeOK, EventsAreOfChanges, server, manager, history
  <1>2. ASSUME NEW a \in Avatar, ChangeAvatar(a)
        PROVE  Typed'
    <2>1. /\ version' \in [Avatar -> Version] /\ events' \in [Avatar -> 0..MaxChanges]
          /\ EventsAreOfChanges'
      <3>1. /\ version \in [Avatar -> Nat] /\ events \in [Avatar -> Nat]
            /\ \A b \in Avatar : version[b] \in Version /\ events[b] < version[b]
            /\ \A b \in Avatar : events[b] \in 0..MaxChanges
        BY FileBoundAssumption DEF Typed, TypeOK, EventsAreOfChanges, Version
      <3>2. version[a] <= MaxChanges /\ version' = [version EXCEPT ![a] = @ + 1]
        BY <1>2 DEF ChangeAvatar
      <3>3. version' \in [Avatar -> Version]
        BY <3>1, <3>2, FileBoundAssumption DEF Version
      <3>4. events' = events \/ events' = [events EXCEPT ![a] = @ + 1]
        BY <1>2 DEF ChangeAvatar
      <3>5. events' \in [Avatar -> 0..MaxChanges]
        BY <3>1, <3>2, <3>4, FileBoundAssumption
      <3>6. EventsAreOfChanges'
        BY <3>1, <3>2, <3>4 DEF EventsAreOfChanges
      <3> QED
        BY <3>3, <3>5, <3>6
    <2>2. overtaken' \subseteq Avatar
      BY <1>2 DEF ChangeAvatar, Typed, TypeOK
    <2> QED
      BY <1>2, <2>1, <2>2 DEF ChangeAvatar, Typed, TypeOK, manager
  <1>3. ASSUME NEW f \in File, downloadFileFromServer(f)
        PROVE  Typed'
    <2>1. jobs' \in [Job -> Nat]
      BY <1>3, JobCounts DEF downloadFileFromServer, Typed, TypeOK, What
    <2>2. mFileInDownload' \subseteq File /\ givenUp' \subseteq File
      BY <1>3 DEF downloadFileFromServer, Typed, TypeOK
    <2> QED
      BY <1>3, <2>1, <2>2
      DEF downloadFileFromServer, Typed, TypeOK, EventsAreOfChanges, server, manager
  <1>4. CASE UNCHANGED vars
    BY <1>4 DEF vars, Typed, TypeOK, EventsAreOfChanges, server, manager, history
  <1> QED
    BY <1>1, <1>2, <1>3, <1>4, TypesOfJobs, TypesOfPaint, TypesOfChange, TypesOfTimer,
       TypesOfConnections DEF Next

-----------------------------------------------------------------------------
FetchedOnce(f) ==
  /\ f \in mFileInDownload \ givenUp => busy(f)
  /\ busy(f) => f \in mFileInDownload
  /\ jobs[asked(f)] <= 1

\* A file is being fetched by the one job it may have.
LEMMA BusyFile ==
  ASSUME jobs \in [Job -> Nat], NEW f \in File
  PROVE  /\ busy(f) <=> jobs[asked(f)] > 0
         /\ jobs[asked(f)] \in Nat
  BY Jobs DEF busy

\* A step under which the job of each file, and its mark, stay.
LEMMA FilesKept ==
  ASSUME FilesAreFetchedOnce,
         UNCHANGED <<mFileInDownload, givenUp>>,
         jobs \in [Job -> Nat], jobs' \in [Job -> Nat],
         \A f \in File : jobs'[asked(f)] = jobs[asked(f)]
  PROVE  FilesAreFetchedOnce'
  <1> SUFFICES ASSUME NEW f \in File PROVE FetchedOnce(f)'
    BY DEF FilesAreFetchedOnce, FetchedOnce
  <1>1. busy(f)' <=> jobs'[asked(f)] > 0
    BY Jobs DEF busy
  <1>2. busy(f)' <=> busy(f)
    BY <1>1, BusyFile
  <1> QED
    BY <1>2 DEF FilesAreFetchedOnce, FetchedOnce, asked

LEMMA FilesStep ==
  ASSUME Typed, Typed', QueueIsServed, FilesAreFetchedOnce, [Next]_vars
  PROVE  FilesAreFetchedOnce'
  <1>0. jobs \in [Job -> Nat] /\ jobs' \in [Job -> Nat] /\ Avatar \cap File = {}
    BY FileAssumption DEF Typed, TypeOK
  <1>1. ASSUME UNCHANGED <<mFileInDownload, givenUp, jobs>>
        PROVE  FilesAreFetchedOnce'
    BY <1>0, <1>1, FilesKept
  <1>2. CASE slotLoadNextAvatar
    <2> DEFINE a == Head(mAvatarDownloadIdentifer)
    <2>1. a \in Avatar /\ UNCHANGED <<mFileInDownload, givenUp>>
      BY <1>2, TailLeft DEF slotLoadNextAvatar, QueueIsServed, Typed, TypeOK
    <2>2. start(a) \/ UNCHANGED jobs
      BY <1>2 DEF slotLoadNextAvatar
    <2>3. ASSUME NEW f \in File
          PROVE  jobs'[asked(f)] = jobs[asked(f)]
      <3>1. asked(a) # asked(f) /\ asked(a) \in Job /\ asked(f) \in Job
        BY <1>0, <2>1, Jobs
      <3> QED
        BY <1>0, <2>2, <3>1 DEF start
    <2> QED
      BY <1>0, <2>1, <2>3, FilesKept
  <1>3. ASSUME NEW f \in File, downloadFileFromServer(f)
        PROVE  FilesAreFetchedOnce'
    <2> SUFFICES ASSUME NEW g \in File PROVE FetchedOnce(g)'
      BY DEF FilesAreFetchedOnce, FetchedOnce
    <2>1. /\ f \notin mFileInDownload /\ mFileInDownload' = mFileInDownload \cup {f}
          /\ \/ start(f) /\ givenUp' = givenUp
             \/ UNCHANGED jobs /\ givenUp' = givenUp \cup {f}
      BY <1>3 DEF downloadFileFromServer
    <2>2. asked(f) \in Job /\ asked(g) \in Job /\ (f # g => asked(f) # asked(g))
      BY Jobs
    <2>3. jobs[asked(f)] = 0
      BY <1>0, <2>1, BusyFile DEF FilesAreFetchedOnce
    <2>4. busy(g)' <=> jobs'[asked(g)] > 0
      BY <1>0, Jobs DEF busy
    <2>5. busy(g) <=> jobs[asked(g)] > 0
      BY <1>0, BusyFile
    <2>6. CASE g = f
      <3>1. start(f) => jobs'[asked(f)] = 1
        BY <1>0, <2>2, <2>3 DEF start
      <3>2. UNCHANGED jobs => jobs'[asked(f)] = 0
        BY <2>3
      <3> QED
        BY <2>1, <2>4, <2>6, <3>1, <3>2 DEF FetchedOnce, asked
    <2>7. CASE g # f
      <3>1. jobs'[asked(g)] = jobs[asked(g)]
        BY <1>0, <2>1, <2>2, <2>7 DEF start
      <3> QED
        BY <2>1, <2>4, <2>5, <2>7, <3>1 DEF FilesAreFetchedOnce, FetchedOnce, asked
    <2> QED
      BY <2>6, <2>7
  <1>4. ASSUME NEW j \in Job, Answer(j)
        PROVE  FilesAreFetchedOnce'
    <2>1. j.what \in Avatar /\ UNCHANGED <<mFileInDownload, givenUp>>
      BY <1>4, Jobs DEF Answer, history
    <2> DEFINE k == [j EXCEPT !.answer = version[j.what]]
    <2>2. k \in Job /\ k.what = j.what
      BY <1>4, <2>1, Jobs DEF Answer, Typed, TypeOK
    <2>3. jobs' = [jobs EXCEPT ![j] = @ - 1, ![k] = @ + 1]
      BY <1>4 DEF Answer
    <2>4. ASSUME NEW f \in File
          PROVE  jobs'[asked(f)] = jobs[asked(f)]
      <3> HIDE DEF k
      <3>1. asked(f) # j /\ asked(f) # k /\ asked(f) \in Job
        <4>1. asked(f) \in Job /\ asked(f).what = f /\ f \notin Avatar
          BY <1>0, Jobs
        <4> QED
          BY <2>1, <2>2, <4>1
      <3> QED
        BY <1>0, <2>3, <3>1
    <2> QED
      BY <1>0, <2>1, <2>4, FilesKept
  <1>5. ASSUME NEW j \in Job, slotDownloadDone(j) \/ DownloadFailed(j)
        PROVE  FilesAreFetchedOnce'
    <2> SUFFICES ASSUME NEW g \in File PROVE FetchedOnce(g)'
      BY DEF FilesAreFetchedOnce, FetchedOnce
    <2>1. jobs[j] > 0 /\ jobs' = [jobs EXCEPT ![j] = @ - 1]
      BY <1>5 DEF slotDownloadDone, DownloadFailed, finish
    <2>2. asked(g) \in Job /\ (j.what = g => j = asked(g)) /\ (j = asked(g) => j.what = g)
      BY Jobs
    <2>3. /\ busy(g)' <=> jobs'[asked(g)] > 0
          /\ busy(g) <=> jobs[asked(g)] > 0
          /\ asked(g)' = asked(g)
      BY <1>0, Jobs DEF busy, asked
    <2>4. CASE j.what = g
      <3>1. jobs'[asked(g)] = 0
        <4>1. j = asked(g) /\ jobs[j] \in Nat /\ jobs'[j] = jobs[j] - 1
          BY <1>0, <2>1, <2>2, <2>4
        <4>2. jobs[j] <= 1
          BY <4>1 DEF FilesAreFetchedOnce
        <4> QED
          BY <2>1, <4>1, <4>2
      <3>2. g \in givenUp' \/ g \notin mFileInDownload'
        BY <1>5, <2>4 DEF slotDownloadDone, DownloadFailed
      <3> QED
        BY <2>3, <3>1, <3>2 DEF FetchedOnce
    <2>5. CASE j.what # g
      <3>1. jobs'[asked(g)] = jobs[asked(g)]
        BY <1>0, <2>1, <2>2, <2>5
      <3>2. /\ g \in mFileInDownload' <=> g \in mFileInDownload
            /\ g \in givenUp' <=> g \in givenUp
        BY <1>5, <2>5 DEF slotDownloadDone, DownloadFailed
      <3> QED
        BY <2>3, <3>1, <3>2 DEF FilesAreFetchedOnce, FetchedOnce
    <2> QED
      BY <2>4, <2>5
  <1>6. CASE forceDisconnect \/ Restart
    <2> SUFFICES ASSUME NEW g \in File PROVE FetchedOnce(g)'
      BY DEF FilesAreFetchedOnce, FetchedOnce
    <2>1. asked(g) \in Job /\ asked(g)' = asked(g) /\ (busy(g)' <=> jobs'[asked(g)] > 0)
      BY Jobs DEF busy, asked
    <2>2. jobs' = [j \in Job |-> 0]
      BY <1>6 DEF forceDisconnect, Restart, LoseConnections
    <2>3. ~busy(g)' /\ jobs'[asked(g)] = 0
      BY <2>1, <2>2
    <2>4. g \notin mFileInDownload' \ givenUp'
      BY <1>6 DEF forceDisconnect, Restart, FilesAreFetchedOnce
    <2> QED
      BY <2>1, <2>3, <2>4 DEF FetchedOnce
  <1>7. ASSUME NEW v \in View, (\E a \in Avatar : makeAvatarPixmap(v, a)) \/ clearCache(v)
        PROVE  FilesAreFetchedOnce'
    BY <1>1, <1>7 DEF makeAvatarPixmap, clearCache, history
  <1>8. ASSUME NEW a \in Avatar, slotAvatarChanged(a) \/ ChangeAvatar(a)
        PROVE  FilesAreFetchedOnce'
    BY <1>1, <1>8 DEF slotAvatarChanged, ChangeAvatar
  <1>9. CASE LogIn \/ UNCHANGED vars
    BY <1>1, <1>9 DEF LogIn, vars, history
  <1> QED
    BY <1>2, <1>3, <1>4, <1>5, <1>6, <1>7, <1>8, <1>9 DEF Next, JobOf

-----------------------------------------------------------------------------
\* What is kept of an avatar stays what it was, or is kept no more.
LEMMA FreshKept ==
  ASSUME NEW a \in Avatar, Fresh(a),
         version'[a] = version[a],
         disk'[a] \in {Nothing, version[a], disk[a]},
         \A v \in View : pixmap'[v][a] \in {Nothing, version[a], pixmap[v][a], disk[a]},
         \A j \in Job : j.what = a /\ jobs'[j] > 0 =>
           jobs[j] > 0 \/ j.answer \in {Nothing, version[a]}
  PROVE  Fresh(a)'
  <1>1. disk'[a] \in {Nothing, version'[a]}
    BY DEF Fresh
  <1>2. \A v \in View : pixmap'[v][a] \in {Nothing, version'[a]}
    BY DEF Fresh
  <1>3. \A j \in Job : j.what = a /\ jobs'[j] > 0 => j.answer \in {Nothing, version'[a]}
    BY DEF Fresh
  <1> QED
    BY <1>1, <1>2, <1>3 DEF Fresh, Nothing, Job, Version

\* An avatar of which nothing is kept is fresh.
LEMMA FreshNothing ==
  ASSUME NEW a \in Avatar,
         disk'[a] = Nothing,
         \A v \in View : pixmap'[v][a] = Nothing,
         \A j \in Job : j.what = a => ~(jobs'[j] > 0)
  PROVE  Fresh(a)'
  BY DEF Fresh, Nothing, Job, Version

\* A change that reaches all that is kept leaves nothing of it.
LEMMA FreshAfterChange ==
  ASSUME Typed, NEW a \in Avatar, slotAvatarChanged(a), Reached(a)
  PROVE  Fresh(a)'
  <1>0. /\ pixmap \in [View -> [Avatar -> Version \cup {Nothing}]]
        /\ disk \in [What -> Version \cup {Nothing}]
        /\ a \in What
    BY DEF Typed, TypeOK, What
  <1>1. \A j \in Job : j.what = a => ~(jobs'[j] > 0)
    BY DEF slotAvatarChanged, Reached, busy
  <1>2. CASE disk[a] = Nothing /\ holders(a) = {}
    <2>1. UNCHANGED <<disk, pixmap>>
      BY <1>2 DEF slotAvatarChanged
    <2>2. \A v \in View : pixmap[v][a] = Nothing
      BY <1>2 DEF holders
    <2> QED
      BY <1>1, <1>2, <2>1, <2>2, FreshNothing
  <1>3. CASE cached(a) /\ Cardinality(holders(a)) = 1
    <2>1. IsFiniteSet(holders(a))
      BY FileAssumption, FS_Subset DEF holders
    <2>2. PICK v \in View : holders(a) = {v}
      <3>1. PICK x : holders(a) = {x}
        BY <1>3, <2>1, FS_Singleton
      <3> QED
        BY <3>1 DEF holders
    <2>3. updateAvatar(a) /\ pixmap' = [pixmap EXCEPT ![v][a] = Nothing]
      BY <1>3, <2>2 DEF slotAvatarChanged, avatarUrl
    <2>4. disk'[a] = Nothing
      BY <1>0, <2>3 DEF updateAvatar
    <2>5. \A w \in View : pixmap'[w][a] = Nothing
      BY <1>0, <2>2, <2>3 DEF holders
    <2> QED
      BY <1>1, <2>4, <2>5, FreshNothing
  <1> QED
    BY <1>2, <1>3 DEF Reached

LEMMA FreshStep ==
  ASSUME Typed, QueueIsServed, ChangesReachAll, [Next]_vars,
         NEW a \in Avatar, events'[a] = 0, a \notin overtaken'
  PROVE  Fresh(a)'
  <1>0. /\ pixmap \in [View -> [Avatar -> Version \cup {Nothing}]]
        /\ disk \in [What -> Version \cup {Nothing}]
        /\ jobs \in [Job -> Nat]
        /\ version \in [Avatar -> Version]
        /\ events \in [Avatar -> 0..MaxChanges]
        /\ a \in What
    BY DEF Typed, TypeOK, What
  <1>1. ASSUME UNCHANGED <<version, events, overtaken, disk, pixmap, jobs>>
        PROVE  Fresh(a)'
    BY <1>1, FreshKept DEF ChangesReachAll
  <1>2. ASSUME NEW v \in View, NEW b \in Avatar, makeAvatarPixmap(v, b)
        PROVE  Fresh(a)'
    <2>1. UNCHANGED <<version, events, overtaken, disk, jobs>>
      BY <1>2 DEF makeAvatarPixmap, server
    <2>2. \A w \in View : pixmap'[w][a] \in {pixmap[w][a], disk[a]}
      BY <1>0, <1>2 DEF makeAvatarPixmap
    <2>3. Fresh(a)
      BY <2>1 DEF ChangesReachAll
    <2> QED
      BY <2>1, <2>2, <2>3, FreshKept
  <1>3. ASSUME NEW v \in View, clearCache(v)
        PROVE  Fresh(a)'
    <2>1. UNCHANGED <<version, events, overtaken, disk, jobs>>
      BY <1>3 DEF clearCache, server, history
    <2>2. \A w \in View : pixmap'[w][a] \in {pixmap[w][a], Nothing}
      BY <1>0, <1>3 DEF clearCache
    <2>3. Fresh(a)
      BY <2>1 DEF ChangesReachAll
    <2> QED
      BY <2>1, <2>2, <2>3, FreshKept
  <1>4. ASSUME NEW b \in Avatar, slotAvatarChanged(b)
        PROVE  Fresh(a)'
    <2>1. CASE b = a
      <3>1. Reached(a)
        BY <1>4, <2>1 DEF slotAvatarChanged
      <3> QED
        BY <1>4, <2>1, <3>1, FreshAfterChange
    <2>2. CASE b # a
      <3>1. events[a] = 0 /\ a \notin overtaken /\ UNCHANGED <<version, jobs>>
        BY <1>0, <1>4, <2>2 DEF slotAvatarChanged
      <3>2. disk'[a] = disk[a] /\ \A w \in View : pixmap'[w][a] = pixmap[w][a]
        BY <1>0, <1>4, <2>2 DEF slotAvatarChanged, updateAvatar
      <3>3. Fresh(a)
        BY <3>1 DEF ChangesReachAll
      <3> QED
        BY <3>1, <3>2, <3>3, FreshKept
    <2> QED
      BY <2>1, <2>2
  <1>5. ASSUME NEW b \in Avatar, ChangeAvatar(b)
        PROVE  Fresh(a)'
    <2>1. b # a
      BY <1>0, <1>5, FileBoundAssumption DEF ChangeAvatar
    <2>2. /\ events[a] = 0 /\ a \notin overtaken /\ version'[a] = version[a]
          /\ UNCHANGED <<jobs, disk, pixmap>>
      BY <1>0, <1>5, <2>1 DEF ChangeAvatar
    <2>3. Fresh(a)
      BY <2>2 DEF ChangesReachAll
    <2> QED
      BY <2>2, <2>3, FreshKept
  <1>6. CASE slotLoadNextAvatar
    <2> DEFINE b == Head(mAvatarDownloadIdentifer)
    <2>1. b \in Avatar /\ UNCHANGED <<version, events, overtaken, disk, pixmap>>
      BY <1>6, TailLeft DEF slotLoadNextAvatar, QueueIsServed, Typed, TypeOK, server
    <2>2. start(b) \/ UNCHANGED jobs
      BY <1>6 DEF slotLoadNextAvatar
    <2>3. \A j \in Job : jobs'[j] > 0 => jobs[j] > 0 \/ j.answer \in {Nothing, version[a]}
      BY <1>0, <2>1, <2>2, Jobs DEF start
    <2>4. Fresh(a)
      BY <2>1 DEF ChangesReachAll
    <2> QED
      BY <2>1, <2>3, <2>4, FreshKept
  <1>7. ASSUME NEW f \in File, downloadFileFromServer(f)
        PROVE  Fresh(a)'
    <2>1. UNCHANGED <<version, events, overtaken, disk, pixmap>> /\ (start(f) \/ UNCHANGED jobs)
      BY <1>7 DEF downloadFileFromServer, server
    <2>2. \A j \in Job : j.what = a /\ jobs'[j] > 0 => jobs[j] > 0
      BY <1>0, <2>1, Jobs, FileAssumption DEF start
    <2>3. Fresh(a)
      BY <2>1 DEF ChangesReachAll
    <2> QED
      BY <2>1, <2>2, <2>3, FreshKept
  <1>8. ASSUME NEW j \in Job, Answer(j)
        PROVE  Fresh(a)'
    <2>1. UNCHANGED <<version, events, overtaken, disk, pixmap>>
      BY <1>8 DEF Answer, server, history
    <2>2. j.what \in Avatar /\ version[j.what] \in Version
      BY <1>0, <1>8, Jobs DEF Answer
    <2> DEFINE k == [j EXCEPT !.answer = version[j.what]]
    <2>3. k \in Job /\ k.what = j.what /\ k.answer = version[j.what] /\ k # j
      BY <1>8, <2>2, Jobs DEF Answer
    <2>4. jobs' = [jobs EXCEPT ![j] = @ - 1, ![k] = @ + 1]
      BY <1>8 DEF Answer
    <2>5. \A i \in Job : i.what = a /\ jobs'[i] > 0 => jobs[i] > 0 \/ i.answer \in {Nothing, version[a]}
      <3> HIDE DEF k
      <3> QED
        BY <1>0, <2>3, <2>4
    <2>6. Fresh(a)
      BY <2>1 DEF ChangesReachAll
    <2> QED
      BY <2>1, <2>5, <2>6, FreshKept
  <1>9. ASSUME NEW j \in Job, slotDownloadDone(j) \/ DownloadFailed(j)
        PROVE  Fresh(a)'
    <2>1. UNCHANGED <<version, events, overtaken, pixmap>> /\ jobs[j] > 0 /\ finish(j)
      BY <1>9 DEF slotDownloadDone, DownloadFailed, server
    <2>2. Fresh(a)
      BY <2>1 DEF ChangesReachAll
    <2>3. disk'[a] \in {Nothing, version[a], disk[a]}
      BY <1>0, <1>9, <2>1, <2>2 DEF slotDownloadDone, DownloadFailed, Fresh
    <2>4. \A i \in Job : jobs'[i] > 0 => jobs[i] > 0
      BY <1>0, <2>1 DEF finish
    <2> QED
      BY <2>1, <2>2, <2>3, <2>4, FreshKept
  <1>10. CASE forceDisconnect \/ Restart
    <2>1. LoseConnections /\ UNCHANGED disk
      BY <1>10 DEF forceDisconnect, Restart
    <2>2. /\ a \notin overtaken /\ events[a] = 0 /\ UNCHANGED version
          /\ jobs' = [j \in Job |-> 0]
      BY <1>0, <2>1 DEF LoseConnections
    <2>3. \A w \in View : pixmap'[w][a] \in {pixmap[w][a], Nothing}
      BY <1>10 DEF forceDisconnect, Restart
    <2>4. Fresh(a)
      BY <2>2 DEF ChangesReachAll
    <2> QED
      BY <2>1, <2>2, <2>3, <2>4, FreshKept
  <1>11. CASE LogIn \/ UNCHANGED vars
    BY <1>1, <1>11 DEF LogIn, vars, server, history
  <1> QED
    BY <1>2, <1>3, <1>4, <1>5, <1>6, <1>7, <1>8, <1>9, <1>10, <1>11 DEF Next, JobOf

-----------------------------------------------------------------------------
LEMMA InitInv == Init => IInv
  <1> SUFFICES ASSUME Init PROVE IInv
    OBVIOUS
  <1>1. version \in [Avatar -> Version] /\ events \in [Avatar -> 0..MaxChanges]
    BY FileBoundAssumption DEF Init, Version
  <1>2. mAvatarUrl \in [Avatar -> {"absent", "empty", "url"}] /\ jobs \in [Job -> Nat]
    BY DEF Init
  <1>3. /\ disk \in [What -> Version \cup {Nothing}]
        /\ pixmap \in [View -> [Avatar -> Version \cup {Nothing}]]
    BY DEF Init
  <1>4. mAvatarDownloadIdentifer \in Seq(Avatar)
    <2>1. mAvatarDownloadIdentifer = <<>> /\ <<>> \in Seq(Avatar)
      BY DEF Init
    <2> QED
      BY <2>1
  <1>5. mTimer \in BOOLEAN /\ authenticated \in BOOLEAN
    BY DEF Init
  <1>6. TypeOK
    BY <1>1, <1>2, <1>3, <1>4, <1>5 DEF Init, TypeOK
  <1>7. EventsAreOfChanges
    BY DEF Init, EventsAreOfChanges
  <1>8. QueueIsServed
    <2>1. IsInjective(mAvatarDownloadIdentifer)
      BY DEF Init, IsInjective
    <2> QED
      BY <2>1 DEF Init, QueueIsServed
  <1>9. FilesAreFetchedOnce
    BY Jobs DEF Init, FilesAreFetchedOnce, busy
  <1>10. ChangesReachAll
    BY DEF Init, ChangesReachAll, Fresh, What
  <1> QED
    BY <1>6, <1>7, <1>8, <1>9, <1>10 DEF IInv, Typed

LEMMA StepInv == IInv /\ [Next]_vars => IInv'
  <1> SUFFICES ASSUME IInv, [Next]_vars PROVE IInv'
    OBVIOUS
  <1>1. Typed' /\ QueueIsServed'
    BY TypeStep, QueueStep DEF IInv
  <1>2. FilesAreFetchedOnce'
    BY <1>1, FilesStep DEF IInv
  <1>3. ChangesReachAll'
    BY FreshStep DEF IInv, ChangesReachAll
  <1> QED
    BY <1>1, <1>2, <1>3 DEF IInv

\* The inductive invariant holds of FileCache.
THEOREM Invariance == Spec => []IInv
  BY InitInv, StepInv, PTL DEF Spec

\* The variables have their types, whatever is fetched, lost and restarted.
THEOREM TypeCorrect == Spec => []TypeOK
  <1>1. IInv => TypeOK
    BY DEF IInv, Typed
  <1> QED
    BY <1>1, Invariance, PTL

\* AvatarManager: the timer runs just while something is queued, and what has an
\* empty url is queued.
THEOREM AvatarsAreServed == Spec => []QueueIsServed
  <1>1. IInv => QueueIsServed
    BY DEF IInv
  <1> QED
    BY <1>1, Invariance, PTL

\* RocketChatCache::mFileInDownload: a marked file is fetched, by one job, unless
\* its job ended without taking it out.
THEOREM FilesFetchedOnce == Spec => []FilesAreFetchedOnce
  <1>1. IInv => FilesAreFetchedOnce
    BY DEF IInv
  <1> QED
    BY <1>1, Invariance, PTL

\* AvatarCacheManager::slotAvatarChanged: which changes of avatars reach the disk
\* and all views, for any number of views and downloads.
THEOREM ChangesAreSeen == Spec => []ChangesReachViews
  <1>1. IInv => ChangesReachViews
    BY DEF IInv, ChangesReachAll, ChangesReachViews, Fresh
  <1> QED
    BY <1>1, Invariance, PTL
=============================================================================
