--------------------------- MODULE AccountSession ---------------------------
(***************************************************************************)
(* How RocketChatAccount and RocketChatBackend keep one account logged in, *)
(* in the default mode (useRestApiLogin): a REST Connection logs in, and   *)
(* the DDPClient's websocket then logs in with the token REST was given.   *)
(*                                                                         *)
(* One variable holds the account with the two clients it owns.  A signal  *)
(* runs its slots at once, so a chain of them is an operator from account  *)
(* to account, named after the slot; what waits in the event loop, for a   *)
(* timer, for the servers or for the user is an action.                    *)
(***************************************************************************)
EXTENDS AuthStatus, Naturals, Sequences, FiniteSets

CONSTANTS MaxDisruptions,  \* bound on what breaks: jobs, sockets, networks
          MaxRequests      \* bound on logins and logouts by the user

ASSUME BoundsAssumption == MaxDisruptions \in Nat /\ MaxRequests \in Nat

VARIABLES account, left, disruptions, requests

vars == <<account, left, disruptions, requests>>

Payload == {"none", "password", "resume"}
RestMethod == {"ServerInfo", "Login", "SendOtp", "LogoutCleanUp"}
DdpMethod == {"Login", "LogoutCleanUp", "GetSubscriptions"}

\* A Connection and its authentication manager; deleting it drops its calls.
NewConnection ==
  [status |-> "LoggedOut", token |-> FALSE, payload |-> "none",
   calls |-> {},         \* HTTP jobs, answered in any order
   lost |-> FALSE,       \* has a job failed without an answer?
   failing |-> FALSE]    \* mNetworkErrorEmitted: networkError() is 1 ms away

\* A DDPClient; socket "none" until its queued start() runs.
NewDdp ==
  [status |-> "LoggedOut", token |-> FALSE, socket |-> "none",
   calls |-> <<>>,       \* answered in order
   streams |-> FALSE,    \* subscribed to the user's notifications?
   watches |-> FALSE]    \* subscribed to the room's messages?

NoClient == [status |-> "absent"]
HasRest(a) == a.rest # NoClient
HasDdp(a) == a.ddp # NoClient

Init ==
  /\ \E token \in {"none", "fresh", "expired"} :
       account =
         [rest |-> NoClient, ddp |-> NoClient,
          token |-> token,       \* authToken and expireToken of the settings
          otp |-> FALSE,         \* does a twoFactorAuthenticationCode linger?
          password |-> FALSE,    \* read from the keychain, or typed
          version |-> FALSE,     \* server version known
          queue |-> {"clearModels", "startConnecting"},
          timers |-> 0,          \* autoReconnectDelayed() timers running
          countdown |-> FALSE,   \* ReconnectInfoWidget counting down
          orphan |-> FALSE,      \* a client to delete whose socket closed under its subscriptions
          room |-> "absent",     \* a room of the model: absent, listed, opened
          shown |-> "LoggedOut"] \* the status the window last heard of
  /\ left = FALSE
  /\ disruptions = 0
  /\ requests = 0

-----------------------------------------------------------------------------
\* restApi() and ddp() create what is missing.
RestApi(a) == IF HasRest(a) THEN a ELSE [a EXCEPT !.rest = NewConnection]
Ddp(a) == IF HasDdp(a) THEN a ELSE [a EXCEPT !.ddp = NewDdp]

loginStatus(a) == IF HasRest(a) THEN a.rest.status ELSE "LoggedOut"

\* Ephemeral calls are lost when the socket is not up.
SendDdp(a, method) ==
  IF a.ddp.socket = "up" THEN [a EXCEPT !.ddp.calls = Append(@, method)] ELSE a

\* slotDDpLoginStatusChanged: a cleaned-up client is left to deleteLater().
SetDdpStatus(a, status) ==
  IF status = "LoggedOutAndCleanedUp"
    THEN [a EXCEPT !.ddp = NoClient,
                   !.orphan = @ \/ (a.ddp.socket = "closed" /\ (a.ddp.streams \/ a.ddp.watches))]
    ELSE [a EXCEPT !.ddp.status = status]

\* RocketChatBackend::ddpLogin, with the request for the subscriptions that
\* initializeSubscription() sends right behind the login.
DdpLogin(a) ==
  LET b == Ddp(RestApi(a))
      c == [b EXCEPT !.ddp.token = b.rest.token]
  IN IF c.ddp.token /\ AcceptsLogin(c.ddp.status)
       THEN SendDdp(SetDdpStatus(SendDdp(c, "Login"), "LoginOngoing"), "GetSubscriptions")
       ELSE c

\* Faulty: the websocket is left to log in by itself.
BackendLoginStatusChangedOnlyStoresToken(a) ==
  IF loginStatus(a) # "LoggedIn" THEN a ELSE Ddp([a EXCEPT !.token = "fresh"])

\* RocketChatBackend::slotLoginStatusChanged
BackendLoginStatusChanged(a) ==
  IF loginStatus(a) # "LoggedIn" THEN a
  ELSE LET b == Ddp([a EXCEPT !.token = "fresh"])
       IN IF b.ddp.socket = "up" THEN DdpLogin(b) ELSE b

\* Faulty: the window is told the status of the connection that was released.
RestStatusChangedReadsReleased(a) ==
  LET b == CASE a.rest.status = "LoggedOutAndCleanedUp" -> [a EXCEPT !.rest = NoClient]
             [] a.rest.status = "GenericError" -> [a EXCEPT !.token = "none"]
             [] OTHER -> a
  IN BackendLoginStatusChanged([b EXCEPT !.shown = b.rest.status])

\* slotRESTLoginStatusChanged
RestStatusChanged(a) ==
  LET b == CASE a.rest.status = "LoggedOutAndCleanedUp" -> [a EXCEPT !.rest = NoClient]
             [] a.rest.status = "GenericError" -> [a EXCEPT !.token = "none"]
             [] OTHER -> a
  IN BackendLoginStatusChanged([b EXCEPT !.shown = loginStatus(b)])

SetRestStatus(a, status) ==
  IF a.rest.status = status THEN a
  ELSE RestStatusChanged([a EXCEPT !.rest.status = status])

\* The ids only tell the calls of one connection apart.
NewJob(calls, method, payload) ==
  LET free == {i \in 1..(Cardinality(calls) + 1) : \A c \in calls : c.id # i}
  IN [id |-> CHOOSE i \in free : \A j \in free : i <= j, method |-> method, payload |-> payload]

CallLogin(a, method, payload) ==
  SetRestStatus([a EXCEPT !.rest.calls = @ \cup {NewJob(@, method, payload)}],
                StatusAfterCall(method))

-----------------------------------------------------------------------------
Sent(a) == [ok |-> TRUE, account |-> a]
Refused(a) == [ok |-> FALSE, account |-> a]

LoginResume(a) ==
  LET b == [a EXCEPT !.rest.token = TRUE]
  IN IF AcceptsLogin(b.rest.status)
       THEN Sent(CallLogin([b EXCEPT !.rest.payload = "resume"], "Login", "resume"))
       ELSE Refused(b)

SendOtp(a) ==
  IF AcceptsOtp(a.rest.status) THEN Sent(CallLogin(a, "SendOtp", a.rest.payload))
                               ELSE Refused(a)

LoginPassword(a) ==
  LET b == [a EXCEPT !.rest.status = ResetGenericError(@)]
  IN IF AcceptsLogin(b.rest.status)
       THEN Sent(CallLogin([b EXCEPT !.rest.payload = "password"], "Login", "password"))
       ELSE Refused(b)

\* PasswordAuthenticationInterface::login
InterfaceLogin(a) ==
  CASE a.token = "fresh"                                -> LoginResume(RestApi(a))
    [] a.token # "fresh" /\ a.otp                       -> SendOtp(RestApi(a))
    [] a.token # "fresh" /\ ~a.otp /\ a.password        -> LoginPassword(RestApi(a))
    [] a.token # "fresh" /\ ~a.otp /\ ~a.password       -> Refused(a)

\* Faulty: a client that is stuck is kept.
KeepStuckDdp(a) == a

\* A DDPClient that is still waiting to be logged out is replaced.
ReplaceStuckDdp(a) ==
  IF a.ddp.status = "LogoutOngoing" THEN [a EXCEPT !.ddp = NewDdp] ELSE a

TryLogin(a) ==
  LET login == InterfaceLogin(Ddp(a))
  IN IF login.ok THEN [ReplaceStuckDdp(login.account) EXCEPT !.room = "absent"]
                 ELSE login.account

TryAutoLogin(a) == IF a.version /\ a.password THEN TryLogin(a) ELSE a

\* Faulty: the websocket survives.
ForceDisconnectKeepsDdp(a) == [a EXCEPT !.token = "none", !.room = "absent", !.rest = NoClient]

ForceDisconnect(a) ==
  [a EXCEPT !.token = "none", !.room = "absent", !.rest = NoClient, !.ddp = NoClient]

ReconnectToServer(a) == TryLogin(Ddp([a EXCEPT !.token = "none"]))

LogOut(a) ==
  LET b == [a EXCEPT !.token = "none", !.room = "absent"]
      c == IF ~HasRest(b) THEN b
           ELSE IF AcceptsLogout(b.rest.status) THEN CallLogin(b, "LogoutCleanUp", "none")
           ELSE [b EXCEPT !.rest = NoClient]
  IN IF ~HasDdp(c) THEN c
     ELSE IF AcceptsLogout(c.ddp.status)
            THEN SetDdpStatus(SendDdp(c, "LogoutCleanUp"), "LogoutOngoing")
     ELSE [c EXCEPT !.ddp = NoClient]

-----------------------------------------------------------------------------
\* The event loop: queued calls.
Dequeue(call) == call \in account.queue

StartConnecting ==
  /\ Dequeue("startConnecting")
  /\ account' = [Ddp(account) EXCEPT !.queue = (@ \ {"startConnecting"}) \cup {"loadServerInfo"}]
  /\ UNCHANGED <<left, disruptions, requests>>

\* MessageQueue::loadCache() asks for the connection. Nothing is queued yet.
ClearModels ==
  /\ Dequeue("clearModels")
  /\ account' = [RestApi(account) EXCEPT !.queue = @ \ {"clearModels"}, !.room = "absent"]
  /\ UNCHANGED <<left, disruptions, requests>>

LoadServerInfo ==
  /\ Dequeue("loadServerInfo")
  /\ account' = [RestApi(account) EXCEPT !.queue = @ \ {"loadServerInfo"},
                                         !.rest.calls = @ \cup {NewJob(@, "ServerInfo", "none")}]
  /\ UNCHANGED <<left, disruptions, requests>>

\* DDPClient::start, queued by ddp(); it is dropped with its client.
DdpStart ==
  /\ HasDdp(account)
  /\ account.ddp.socket = "none"
  /\ account' = SetDdpStatus([account EXCEPT !.ddp.socket = "opening"], "Connecting")
  /\ UNCHANGED <<left, disruptions, requests>>

\* The destructor of a client that lost its socket unsubscribes: the calls fail,
\* are queued, and processQueue() asks for ddp(), which creates a new client.
OrphanDeleted ==
  /\ account.orphan
  /\ LET a == [account EXCEPT !.orphan = FALSE]
     IN account' = IF loginStatus(a) = "LoggedIn" THEN Ddp(a) ELSE a
  /\ UNCHANGED <<left, disruptions, requests>>

\* The keychain answers.
PasswordRead ==
  /\ ~account.password
  /\ account' = TryAutoLogin([account EXCEPT !.password = TRUE])
  /\ UNCHANGED <<left, disruptions, requests>>

-----------------------------------------------------------------------------
\* What a server may refuse a request for.
Refusals(method, payload) ==
  CASE method = "SendOtp"      -> {"totp-invalid", "other"}
    [] payload = "resume"      -> {"403", "other"}
    [] OTHER                   -> {"403", "totp-required", "other"}

\* Faulty: the answer to a logout is not told to anyone.
RestAnswerIgnoresLogout(call) ==
  /\ HasRest(account)
  /\ call \in account.rest.calls
  /\ LET a == [account EXCEPT !.rest.calls = @ \ {call}] IN
     account' = CASE call.method = "ServerInfo" -> TryAutoLogin([a EXCEPT !.version = TRUE])
                  [] call.method \in CredentialMethod ->
                       SetRestStatus([a EXCEPT !.rest.token = TRUE], "LoggedIn")
                  [] OTHER -> a
  /\ UNCHANGED <<left, disruptions, requests>>

\* REST answers, and the status they lead to in AuthenticationManagerBase.
RestAnswer(call) ==
  /\ HasRest(account)
  /\ call \in account.rest.calls
  /\ LET a == [account EXCEPT !.rest.calls = @ \ {call}] IN
     \/ /\ call.method = "ServerInfo"
        /\ account' = TryAutoLogin([a EXCEPT !.version = TRUE])
     \/ /\ call.method # "ServerInfo"
        /\ account' = SetRestStatus([a EXCEPT !.rest.token = @ \/ call.method \in CredentialMethod],
                                    StatusAfterResult(call.method))
     \/ /\ call.method \in CredentialMethod
        /\ \E error \in Refusals(call.method, call.payload) :
             account' = SetRestStatus(a, StatusAfterLoginError(error))
  /\ UNCHANGED <<left, disruptions, requests>>

\* A job that fails is not heard of (ServerInfoJob, MethodCallJob).
RestJobFails(call) ==
  /\ disruptions < MaxDisruptions
  /\ HasRest(account)
  /\ call \in account.rest.calls
  /\ account' = [account EXCEPT !.rest.calls = @ \ {call}, !.rest.lost = TRUE]
  /\ disruptions' = disruptions + 1
  /\ UNCHANGED <<left, requests>>

\* Connection::slotResult, for one of these jobs or one of the many others.
RestNetworkError ==
  /\ disruptions < MaxDisruptions
  /\ HasRest(account)
  /\ ~account.rest.failing
  /\ \/ \E call \in account.rest.calls :
          account' = [account EXCEPT !.rest.calls = @ \ {call}, !.rest.failing = TRUE]
     \/ /\ account.rest.status = "LoggedIn"
        /\ account' = [account EXCEPT !.rest.failing = TRUE]
  /\ disruptions' = disruptions + 1
  /\ UNCHANGED <<left, requests>>

\* Faulty: no reconnection is planned.
NetworkErrorGivesUp ==
  /\ HasRest(account)
  /\ account.rest.failing
  /\ account' = ForceDisconnect(account)
  /\ UNCHANGED <<left, disruptions, requests>>

\* networkError(): forceDisconnect and autoReconnectDelayed
NetworkError ==
  /\ HasRest(account)
  /\ account.rest.failing
  /\ account' = [ForceDisconnect(account) EXCEPT !.timers = @ + 1]
  /\ UNCHANGED <<left, disruptions, requests>>

\* Faulty: the timer reopens the websocket but does not log in.
ReconnectTimerOnlyConnects ==
  /\ account.timers > 0
  /\ account' = Ddp([account EXCEPT !.timers = @ - 1, !.token = "none"])
  /\ UNCHANGED <<left, disruptions, requests>>

\* The delay has passed. The window starts a countdown of its own once the
\* delay is long enough (the delays are not modelled).
ReconnectTimer ==
  /\ account.timers > 0
  /\ \E counting \in {account.countdown, TRUE} :
       account' = ReconnectToServer([account EXCEPT !.timers = @ - 1, !.countdown = counting])
  /\ UNCHANGED <<left, disruptions, requests>>

\* ReconnectInfoWidget::tryReconnect, whatever happened since it was shown.
Countdown ==
  /\ account.countdown
  /\ account' = ReconnectToServer([account EXCEPT !.countdown = FALSE])
  /\ UNCHANGED <<left, disruptions, requests>>

\* NetworkManager reports a new primary connection.
NetworkChanged ==
  /\ disruptions < MaxDisruptions
  /\ HasDdp(account)
  /\ account' = ReconnectToServer(ForceDisconnect(account))
  /\ disruptions' = disruptions + 1
  /\ UNCHANGED <<left, requests>>

TokenExpires ==
  /\ account.token = "fresh"
  /\ account' = [account EXCEPT !.token = "expired"]
  /\ UNCHANGED <<left, disruptions, requests>>

-----------------------------------------------------------------------------
\* The server's "connected": slotDDPConnectedChanged.
DdpConnected ==
  /\ HasDdp(account)
  /\ account.ddp.socket = "opening"
  /\ LET a == RestApi([account EXCEPT !.ddp.socket = "up"])
     IN account' = IF a.rest.status = "LoggedIn" THEN DdpLogin(a) ELSE a
  /\ UNCHANGED <<left, disruptions, requests>>

\* DDPClient::onWSclosed. After a normal close the account has disconnected from
\* the client by the time it emits disconnectedByServer().
DdpClosed(normal) ==
  /\ disruptions < MaxDisruptions
  /\ HasDdp(account)
  /\ account.ddp.socket \in {"opening", "up"}
  /\ account' = SetDdpStatus([account EXCEPT !.ddp.socket = "closed", !.ddp.calls = <<>>],
                             IF normal THEN "LoggedOutAndCleanedUp" ELSE "GenericError")
  /\ disruptions' = disruptions + 1
  /\ UNCHANGED <<left, requests>>

\* A login is followed by "added", whose user id subscribes to the streams.
DdpLoginAnswer(a) ==
  \/ account' = SetDdpStatus([a EXCEPT !.ddp.streams = TRUE], "LoggedIn")
  \/ \E error \in Refusals("Login", "resume") :
       account' = SetDdpStatus(a, StatusAfterLoginError(error))

\* getsubscriptionParsing and initializeAccount
GetSubscriptionParsing(a) ==
  LET b == RestApi(a)
  IN IF loginStatus(a) = "LoggedIn" /\ a.ddp.status = "LoggedIn" /\ b.room = "absent"
       THEN [b EXCEPT !.room = "listed"] ELSE b

DdpAnswer ==
  /\ HasDdp(account)
  /\ account.ddp.calls # <<>>
  /\ LET a == [account EXCEPT !.ddp.calls = Tail(@)]
         method == Head(account.ddp.calls)
     IN \/ method = "Login" /\ DdpLoginAnswer(a)
        \/ method = "LogoutCleanUp" /\ account' = SetDdpStatus(a, StatusAfterResult(method))
        \/ method = "GetSubscriptions" /\ account' = GetSubscriptionParsing(a)
  /\ UNCHANGED <<left, disruptions, requests>>

-----------------------------------------------------------------------------
\* RuqolaLoginWidget::slotLogin: its page is up unless logged in, its button
\* off while a login is ongoing, its OTP field up when a code is asked for.
UserLogin ==
  /\ requests < MaxRequests
  /\ account.shown \notin {"LoggedIn", "LoginOngoing"}
  /\ account' = TryLogin([account EXCEPT
                  !.password = TRUE,
                  !.otp = @ \/ account.shown \in {"LoginOtpRequired", "LoginFailedInvalidOtp"}])
  /\ requests' = requests + 1
  /\ UNCHANGED <<left, disruptions>>

UserLogout ==
  /\ requests < MaxRequests
  /\ account.shown = "LoggedIn"
  /\ account' = LogOut(account)
  /\ left' = TRUE
  /\ requests' = requests + 1
  /\ UNCHANGED disruptions

\* checkInitializedRoom. Its subscriptions are lost when the socket is not up.
OpenRoom ==
  /\ account.shown = "LoggedIn"
  /\ account.room = "listed"
  /\ HasDdp(account) /\ account.ddp.socket # "none"
  /\ account' = [account EXCEPT !.room = "opened", !.ddp.watches = (account.ddp.socket = "up")]
  /\ UNCHANGED <<left, disruptions, requests>>

-----------------------------------------------------------------------------
RestCalls == IF HasRest(account) THEN account.rest.calls ELSE {}

Next ==
  \/ StartConnecting \/ ClearModels \/ LoadServerInfo \/ DdpStart \/ OrphanDeleted
  \/ PasswordRead
  \/ \E call \in RestCalls : RestAnswer(call)
  \/ \E call \in RestCalls : RestJobFails(call)
  \/ RestNetworkError \/ NetworkError \/ ReconnectTimer \/ Countdown \/ NetworkChanged
  \/ TokenExpires
  \/ DdpConnected
  \/ \E normal \in BOOLEAN : DdpClosed(normal)
  \/ DdpAnswer
  \/ UserLogin \/ UserLogout \/ OpenRoom

SafetySpec == Init /\ [][Next]_vars

\* As long as a call is queued, a timer runs or a server owes an answer, one of
\* them comes: what is pending is finite, so this is all that is asked of the
\* event loop and the servers. No user, network or disruption is obliged to act.
Progress ==
  \/ StartConnecting \/ ClearModels \/ LoadServerInfo \/ DdpStart \/ OrphanDeleted
  \/ NetworkError \/ ReconnectTimer
  \/ \E call \in RestCalls : RestAnswer(call)
  \/ DdpAnswer

Fairness == WF_vars(Progress)

Spec == SafetySpec /\ Fairness

-----------------------------------------------------------------------------
(***************************************************************************)
(* Types.  A status the window hears of is one of a client that exists.    *)
(***************************************************************************)
TypeOK ==
  /\ account.rest \in {NoClient} \cup
       [status : LoginStatus, token : BOOLEAN, payload : Payload, lost : BOOLEAN, failing : BOOLEAN,
        calls : SUBSET [id : Nat, method : RestMethod, payload : Payload]]
  /\ HasDdp(account) =>
       /\ account.ddp.status \in LoginStatus
       /\ account.ddp.socket \in {"none", "opening", "up", "closed"}
       /\ account.ddp.calls \in Seq(DdpMethod)
  /\ account.timers \in 0..MaxDisruptions
  /\ account.shown \in LoginStatus
  /\ account.room \in {"absent", "listed", "opened"}

restStatus == loginStatus(account)
ddpStatus == account.ddp.status

(***************************************************************************)
(* forceDisconnect() deletes both clients on a network error, and only the *)
(* timer of autoReconnectDelayed() brings them back: an account that could *)
(* log in and was not logged out by its user has a connection, or a timer  *)
(* that will make one.                                                     *)
(***************************************************************************)
NeverAbandoned ==
  ~left /\ account.version /\ account.password /\ ~HasRest(account) => account.timers > 0

(***************************************************************************)
(* ddpLogin() runs when REST logs in with the websocket up, and when the   *)
(* websocket comes up with REST logged in.  Whichever is last, and however *)
(* often either client was replaced meanwhile, a live websocket of a       *)
(* logged-in account is never one that was not asked to log in.            *)
(***************************************************************************)
DdpFollowsRest ==
  restStatus = "LoggedIn" /\ HasDdp(account) /\ account.ddp.socket = "up" =>
    ddpStatus \notin {"LoggedOut", "Connecting"}

(***************************************************************************)
(* The websocket logs in with REST's token, so it is not logged in when    *)
(* REST is not: forceDisconnect() and logOut() take both down together.    *)
(* A lingering OTP code, which sendOTP() sends in any status, and a login  *)
(* after a logout, whose late answers hit the new connection, are the      *)
(* exceptions.                                                             *)
(***************************************************************************)
DdpNeverLeads ==
  ~left /\ ~account.otp /\ ddpStatus \in {"LoginOngoing", "LoggedIn"} => restStatus = "LoggedIn"

(***************************************************************************)
(* tryLogin() recreates a DDP client that "is stuck logging out": an       *)
(* account that logs in again, or has, never keeps one that still waits    *)
(* for its logout.  With a lingering OTP code two logins can be under way, *)
(* and the late answer to one can log in an account that was just logged   *)
(* out.                                                                    *)
(***************************************************************************)
StuckDdpReplaced ==
  \/ restStatus \in {"LoginOngoing", "LoginOtpAuthOngoing"}
  \/ restStatus = "LoggedIn" /\ ~account.otp
  => ddpStatus # "LogoutOngoing"

-----------------------------------------------------------------------------
Settled == HasRest(account) /\ restStatus \notin {"LoggedOut", "LoginOngoing", "LoginOtpAuthOngoing"}

JobLost == HasRest(account) /\ account.rest.lost

(***************************************************************************)
(* A reconnection that is planned leads to an answered login, whatever the *)
(* user, the network and the other timers do before it fires, unless the   *)
(* job that carried the login failed (MethodCallJob tells nobody), or the  *)
(* user logged out: loginImpl() accepts a login while the logout is        *)
(* ongoing, and the answer to the logout deletes the connection with it.   *)
(***************************************************************************)
RetryIsAnswered == account.timers > 0 /\ account.password ~> Settled \/ JobLost \/ left

(***************************************************************************)
(* A logout ends, as its connection is only deleted once it is answered.   *)
(***************************************************************************)
LogoutEnds == restStatus = "LogoutOngoing" ~> restStatus # "LogoutOngoing" \/ JobLost

-----------------------------------------------------------------------------
(***************************************************************************)
(* slotReconnectToDdpServer(), "connected to                               *)
(* DDPClient::disconnectedByServer" (rocketchataccount.cpp:2267), begins   *)
(* by clearing the rooms: no client is taken away with its rooms kept.     *)
(***************************************************************************)
ServerCloseClearsRooms ==
  [][HasDdp(account) /\ ~HasDdp(account)' => account.room' = "absent"]_account
=============================================================================
