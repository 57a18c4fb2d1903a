------------------------------- MODULE FileCache -------------------------------
(***************************************************************************)
(* The files of an account on disk: RocketChatCache, the AvatarManager     *)
(* that fetches avatars one every two seconds, the DownloadFileJobs that   *)
(* write the cache, and the AvatarCacheManagers, one in each view, that    *)
(* keep pixmaps of what the cache held.  The avatar of a user changes on   *)
(* the server, which says so on the websocket; its url stays the same.     *)
(* The account has a server, so that an avatar always has a url.           *)
(***************************************************************************)
EXTENDS Naturals, Sequences, FiniteSets, Functions

CONSTANTS
  Avatar,            \* the users, whose avatars have no etag
  File,              \* attachments, previews, sounds
  Private,           \* the files the server gives to who is logged in
  Changing,          \* the avatars that change
  View,              \* the AvatarCacheManagers
  Shown,             \* the avatars each of them shows
  MaxChanges,        \* bound on the changes of each avatar
  MaxJobs            \* bound on the jobs that fetch avatars at a time

ASSUME FileAssumption ==
  /\ Avatar \cap File = {}
  /\ Private \subseteq File
  /\ Changing \subseteq Avatar
  /\ IsFiniteSet(View) /\ View # {}
  /\ Shown \in [View -> SUBSET Avatar]
ASSUME FileBoundAssumption == MaxChanges \in Nat /\ MaxJobs \in Nat

VARIABLES
  version,           \* of each avatar, on the server
  events,            \* "updateAvatar" events on their way
  authenticated,     \* has the Connection a token?
  mAvatarUrl,        \* of RocketChatCache
  stored,            \* avatars whose url is in the settings file
  mAvatarDownloadIdentifer,
  mTimer,            \* is it active?
  mFileInDownload,
  jobs,              \* how many there are of each
  disk,              \* the version of each file in the cache directory
  pixmap,            \* in each view, of each avatar
  failed,            \* history: avatars whose download failed or got lost since they were queued
  overtaken,         \* history: avatars of which a change did not reach all views
  givenUp            \* history: files in mFileInDownload that no job will take out

manager == <<mAvatarDownloadIdentifer, mTimer>>
server == <<version, events, authenticated>>
history == <<failed, overtaken, givenUp>>
vars == <<server, mAvatarUrl, stored, manager, mFileInDownload, jobs, disk, pixmap, history>>

What == Avatar \cup File
Nothing == 0
Version == 1..(MaxChanges + 1)

\* The answer with an avatar is the version the server has by then; of other files
\* there is one version.
Job == [what : Avatar, answer : Version \cup {Nothing}] \cup [what : File, answer : {1}]

Init ==
  /\ version = [a \in Avatar |-> 1]
  /\ events = [a \in Avatar |-> 0]
  /\ authenticated = FALSE
  /\ mAvatarUrl = [a \in Avatar |-> "absent"]
  /\ stored = {}
  /\ mAvatarDownloadIdentifer = <<>>
  /\ mTimer = FALSE
  /\ mFileInDownload = {}
  /\ jobs = [j \in Job |-> 0]
  /\ disk = [w \in What |-> Nothing]
  /\ pixmap = [v \in View |-> [a \in Avatar |-> Nothing]]
  /\ failed = {}
  /\ overtaken = {}
  /\ givenUp = {}

-----------------------------------------------------------------------------
busy(w) == \E j \in Job : j.what = w /\ jobs[j] > 0
asked(w) == [what |-> w, answer |-> IF w \in Avatar THEN Nothing ELSE 1]

\* Connection::downloadFile, and the end of what it starts.
start(w) == jobs' = [jobs EXCEPT ![asked(w)] = @ + 1]
finish(j) == jobs' = [jobs EXCEPT ![j] = @ - 1]

MayStart == FoldFunctionOnSet(+, 0, jobs, {j \in Job : j.what \in Avatar}) < MaxJobs

cached(a) == mAvatarUrl[a] = "url" /\ disk[a] # Nothing

holders(a) == {v \in View : pixmap[v][a] # Nothing}

\* Faulty: it is only looked after the insertion whether the queue is empty.
insertInDownloadQueueLate(a) ==
  /\ mAvatarDownloadIdentifer' =
       IF a \in Range(mAvatarDownloadIdentifer) THEN mAvatarDownloadIdentifer
       ELSE Append(mAvatarDownloadIdentifer, a)
  /\ UNCHANGED mTimer

\* The timer is started for the first one queued.
insertInDownloadQueue(a) ==
  /\ mAvatarDownloadIdentifer' =
       IF a \in Range(mAvatarDownloadIdentifer) THEN mAvatarDownloadIdentifer
       ELSE Append(mAvatarDownloadIdentifer, a)
  /\ mTimer' = (mTimer \/ mAvatarDownloadIdentifer = <<>>)

\* RocketChatCache::avatarUrl of an avatar that is not in the cache: an empty
\* url is noted for it if none is, and it is queued.
avatarUrl(a) ==
  /\ ~cached(a)
  /\ mAvatarUrl' = [mAvatarUrl EXCEPT ![a] = IF @ = "absent" THEN "empty" ELSE @]
  /\ insertInDownloadQueue(a)
  /\ failed' = failed \ {a}

\* A view paints an avatar.  A pixmap it has is only used when there is a file.
makeAvatarPixmap(v, a) ==
  /\ a \in Shown[v]
  /\ \/ /\ cached(a)
        /\ pixmap[v][a] = Nothing
        /\ pixmap' = [pixmap EXCEPT ![v][a] = disk[a]]
        /\ UNCHANGED <<mAvatarUrl, manager, failed>>
     \/ /\ avatarUrl(a)
        /\ UNCHANGED pixmap
  /\ UNCHANGED <<server, stored, mFileInDownload, jobs, disk, overtaken, givenUp>>

\* The screen's resolution changes, or another account is shown.
clearCache(v) ==
  /\ pixmap' = [pixmap EXCEPT ![v] = [a \in Avatar |-> Nothing]]
  /\ UNCHANGED <<server, mAvatarUrl, stored, manager, mFileInDownload, jobs, disk, history>>

\* Faulty: the file is not removed.
updateAvatarKeepsFile(a) ==
  /\ mAvatarUrl' = [mAvatarUrl EXCEPT ![a] = "empty"]
  /\ insertInDownloadQueue(a)
  /\ failed' = failed \ {a}
  /\ UNCHANGED disk

\* RocketChatCache::updateAvatar: the file and the url are forgotten.
updateAvatar(a) ==
  /\ disk' = [disk EXCEPT ![a] = Nothing]
  /\ mAvatarUrl' = [mAvatarUrl EXCEPT ![a] = "empty"]
  /\ insertInDownloadQueue(a)
  /\ failed' = failed \ {a}

\* Does a change of an avatar, told now, reach all that is kept of it?
Reached(a) ==
  /\ ~busy(a)
  /\ \/ disk[a] = Nothing /\ holders(a) = {}
     \/ cached(a) /\ Cardinality(holders(a)) = 1

\* All views hear of the change.  The first to have a pixmap drops it and the
\* file; the others, which then find no file, return before they look.
slotAvatarChanged(a) ==
  /\ events[a] > 0
  /\ events' = [events EXCEPT ![a] = @ - 1]
  /\ \/ /\ avatarUrl(a)
        /\ UNCHANGED <<disk, pixmap>>
     \/ /\ cached(a)
        /\ holders(a) = {}
        /\ UNCHANGED <<mAvatarUrl, manager, disk, pixmap, failed>>
     \/ \E first \in holders(a) :
          /\ cached(a)
          /\ pixmap' = [pixmap EXCEPT ![first][a] = Nothing]
          /\ updateAvatar(a)
  /\ overtaken' = IF Reached(a) THEN overtaken ELSE overtaken \cup {a}
  /\ UNCHANGED <<version, authenticated, stored, mFileInDownload, jobs, givenUp>>

\* Faulty: the timer is not started for the ones left.
slotLoadNextAvatarStops ==
  /\ mTimer
  /\ LET a == Head(mAvatarDownloadIdentifer)
         load == disk[a] = Nothing /\ authenticated IN
       /\ mAvatarUrl' = [mAvatarUrl EXCEPT ![a] = "url"]
       /\ IF load THEN MayStart /\ start(a) ELSE UNCHANGED jobs
       /\ failed' = IF disk[a] = Nothing /\ ~load THEN failed \cup {a} ELSE failed
  /\ mAvatarDownloadIdentifer' = Tail(mAvatarDownloadIdentifer)
  /\ mTimer' = FALSE
  /\ UNCHANGED <<server, stored, mFileInDownload, disk, pixmap, overtaken, givenUp>>

\* The timer: the first one queued, which is queued once, leaves the queue.  Its
\* url is noted, and it is fetched unless the file is there; without a token the
\* job does not start.
slotLoadNextAvatar ==
  /\ mTimer
  /\ LET a == Head(mAvatarDownloadIdentifer)
         load == disk[a] = Nothing /\ authenticated IN
       /\ mAvatarUrl' = [mAvatarUrl EXCEPT ![a] = "url"]
       /\ IF load THEN MayStart /\ start(a) ELSE UNCHANGED jobs
       /\ failed' = IF disk[a] = Nothing /\ ~load THEN failed \cup {a} ELSE failed
  /\ mAvatarDownloadIdentifer' = Tail(mAvatarDownloadIdentifer)
  /\ mTimer' = (Tail(mAvatarDownloadIdentifer) # <<>>)
  /\ UNCHANGED <<server, stored, mFileInDownload, disk, pixmap, overtaken, givenUp>>

-----------------------------------------------------------------------------
\* Faulty: a file that is being fetched is fetched again.
downloadFileFromServerAgain(f) ==
  LET started == f \in Private => authenticated IN
    /\ disk[f] = Nothing
    /\ mFileInDownload' = mFileInDownload \cup {f}
    /\ IF started THEN start(f) ELSE UNCHANGED jobs
    /\ givenUp' = IF started THEN givenUp ELSE givenUp \cup {f}
    /\ UNCHANGED <<server, mAvatarUrl, stored, manager, disk, pixmap, failed, overtaken>>

\* A file that is shown is not in the cache, and not being fetched.
downloadFileFromServer(f) ==
  LET started == f \in Private => authenticated IN
    /\ disk[f] = Nothing
    /\ f \notin mFileInDownload
    /\ mFileInDownload' = mFileInDownload \cup {f}
    /\ IF started THEN start(f) ELSE UNCHANGED jobs
    /\ givenUp' = IF started THEN givenUp ELSE givenUp \cup {f}
    /\ UNCHANGED <<server, mAvatarUrl, stored, manager, disk, pixmap, failed, overtaken>>

\* The server sends an avatar.
Answer(j) ==
  /\ jobs[j] > 0
  /\ j.answer = Nothing
  /\ jobs' = [jobs EXCEPT ![j] = @ - 1, ![[j EXCEPT !.answer = version[j.what]]] = @ + 1]
  /\ UNCHANGED <<server, mAvatarUrl, stored, manager, mFileInDownload, disk, pixmap, history>>

\* The file is written and taken out of those being fetched, under the url the
\* reply has, which is another one if the server redirected the request.
slotDownloadDone(j) ==
  /\ jobs[j] > 0
  /\ j.answer # Nothing
  /\ finish(j)
  /\ disk' = [disk EXCEPT ![j.what] = j.answer]
  /\ \/ /\ mFileInDownload' = mFileInDownload \ {j.what}
        /\ UNCHANGED givenUp
     \/ /\ j.what \in File
        /\ givenUp' = givenUp \cup {j.what}
        /\ UNCHANGED mFileInDownload
  /\ UNCHANGED <<server, mAvatarUrl, stored, manager, pixmap, failed, overtaken>>

\* Faulty: the answer to a job that went with its Connection is handled.
DownloadFailedLate(j) ==
  /\ finish(j)
  /\ failed' = IF j.what \in Avatar THEN failed \cup {j.what} ELSE failed
  /\ givenUp' = IF j.what \in File THEN givenUp \cup {j.what} ELSE givenUp
  /\ UNCHANGED <<server, mAvatarUrl, stored, manager, mFileInDownload, disk, pixmap, overtaken>>

\* The server refuses: nobody is told.
DownloadFailed(j) ==
  /\ jobs[j] > 0
  /\ finish(j)
  /\ failed' = IF j.what \in Avatar THEN failed \cup {j.what} ELSE failed
  /\ givenUp' = IF j.what \in File THEN givenUp \cup {j.what} ELSE givenUp
  /\ UNCHANGED <<server, mAvatarUrl, stored, manager, mFileInDownload, disk, pixmap, overtaken>>

-----------------------------------------------------------------------------
\* The jobs and the events that are lost with the connections.
LoseConnections ==
  /\ authenticated' = FALSE
  /\ jobs' = [j \in Job |-> 0]
  /\ events' = [a \in Avatar |-> 0]
  /\ overtaken' = overtaken \cup {a \in Avatar : events[a] > 0}
  /\ UNCHANGED version

LogIn ==
  /\ ~authenticated
  /\ authenticated' = TRUE
  /\ UNCHANGED <<version, events, mAvatarUrl, stored, manager, mFileInDownload, jobs, disk,
                 pixmap, history>>

\* Another network, or a network error of any job: the Connection goes with its
\* jobs, and takes no file out of those being fetched.
forceDisconnect ==
  /\ authenticated
  /\ LoseConnections
  /\ failed' = failed \cup {a \in Avatar : busy(a)}
  /\ givenUp' = givenUp \cup {f \in File : busy(f)}
  /\ UNCHANGED <<mAvatarUrl, stored, manager, mFileInDownload, disk, pixmap>>

\* The server only tells who is connected.
ChangeAvatar(a) ==
  /\ a \in Changing
  /\ version[a] <= MaxChanges
  /\ version' = [version EXCEPT ![a] = @ + 1]
  /\ \/ /\ authenticated
        /\ events' = [events EXCEPT ![a] = @ + 1]
        /\ UNCHANGED overtaken
     \/ /\ ~authenticated
        /\ overtaken' = overtaken \cup {a}
        /\ UNCHANGED events
  /\ UNCHANGED <<authenticated, mAvatarUrl, stored, manager, mFileInDownload, jobs, disk,
                 pixmap, failed, givenUp>>

\* Ruqola ends and starts again.  The urls are written by the destructor, which
\* a crash skips, beside those already in the file.
Restart ==
  \E crash \in BOOLEAN :
    /\ stored' = IF crash THEN stored ELSE stored \cup {a \in Avatar : mAvatarUrl[a] = "url"}
    /\ mAvatarUrl' = [a \in Avatar |-> IF a \in stored' THEN "url" ELSE "absent"]
    /\ mAvatarDownloadIdentifer' = <<>>
    /\ mTimer' = FALSE
    /\ mFileInDownload' = {}
    /\ LoseConnections
    /\ pixmap' = [v \in View |-> [a \in Avatar |-> Nothing]]
    /\ failed' = failed \cup {a \in Avatar : busy(a) \/ a \in Range(mAvatarDownloadIdentifer)}
    /\ givenUp' = {}
    /\ UNCHANGED disk

JobOf(w) ==
  \E j \in Job : j.what = w /\ (Answer(j) \/ slotDownloadDone(j) \/ DownloadFailed(j))

Next ==
  \/ \E v \in View : (\E a \in Avatar : makeAvatarPixmap(v, a)) \/ clearCache(v)
  \/ \E a \in Avatar : slotAvatarChanged(a) \/ ChangeAvatar(a)
  \/ slotLoadNextAvatar
  \/ \E f \in File : downloadFileFromServer(f)
  \/ \E w \in What : JobOf(w)
  \/ LogIn
  \/ forceDisconnect
  \/ Restart

\* The timer fires and the network answers or fails.
Fairness ==
  /\ WF_vars(slotLoadNextAvatar)
  /\ \A w \in What : WF_vars(JobOf(w))

Spec == Init /\ [][Next]_vars /\ Fairness

-----------------------------------------------------------------------------
\* What the variables may hold.
TypeOK ==
  /\ version \in [Avatar -> Version]
  /\ events \in [Avatar -> 0..MaxChanges]
  /\ authenticated \in BOOLEAN
  /\ mAvatarUrl \in [Avatar -> {"absent", "empty", "url"}]
  /\ stored \subseteq Avatar
  /\ mAvatarDownloadIdentifer \in Seq(Avatar)
  /\ mTimer \in BOOLEAN
  /\ mFileInDownload \subseteq File
  /\ jobs \in [Job -> Nat]
  /\ disk \in [What -> Version \cup {Nothing}]
  /\ pixmap \in [View -> [Avatar -> Version \cup {Nothing}]]
  /\ failed \subseteq Avatar
  /\ overtaken \subseteq Avatar
  /\ givenUp \subseteq File

\* The timer of the AvatarManager runs while there is something queued and never
\* fires on an empty queue, whose first element it takes unchecked; nothing is
\* queued twice; and what has an empty url is queued, so that it is fetched one
\* day whoever asked for it.
QueueIsServed ==
  /\ mTimer <=> mAvatarDownloadIdentifer # <<>>
  /\ IsInjective(mAvatarDownloadIdentifer)
  /\ \A a \in Avatar : mAvatarUrl[a] = "empty" => a \in Range(mAvatarDownloadIdentifer)

\* When no change of an avatar is on its way, what is kept of it, on disk and in
\* every view, is its last version: unless the change was told while it was being
\* fetched, or to several views, or to none that had painted it.
ChangesReachViews ==
  \A a \in Avatar : events[a] = 0 /\ a \notin overtaken =>
    /\ disk[a] \in {Nothing, version[a]}
    /\ \A v \in View : pixmap[v][a] \in {Nothing, version[a]}

\* A file that is marked as being fetched is, unless that failed, was redirected,
\* never started or lost its connection; what is marked no more is no more being
\* fetched; and a file is not fetched twice at a time.
FilesAreFetchedOnce ==
  \A f \in File :
    /\ f \in mFileInDownload \ givenUp => busy(f)
    /\ busy(f) => f \in mFileInDownload
    /\ jobs[asked(f)] <= 1

\* An avatar that was asked for gets into the cache, unless its download fails or
\* is lost as a connection or Ruqola ends.
AvatarsAreFetched ==
  \A a \in Avatar : mAvatarUrl[a] = "empty" ~> cached(a) \/ a \in failed
=============================================================================
