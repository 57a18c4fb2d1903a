----------------------------- MODULE AuthManager -----------------------------
(***************************************************************************)
(* AuthenticationManagerBase with its two transports, one of which a       *)
(* manager has for life.                                                   *)
(*                                                                         *)
(* "REST" (RESTAuthenticationManager): every call is an HTTP job of its    *)
(* own, so answers arrive in any order, and a failed job never answers.    *)
(* "DDP" (DDPAuthenticationManager): calls share one websocket, answers    *)
(* come in the order of the calls, nothing is sent while the socket is     *)
(* down, and a closing socket takes every unanswered call with it.         *)
(***************************************************************************)
EXTENDS AuthStatus, Naturals

CONSTANT MaxCalls     \* bound on the calls sent

ASSUME MaxCallsAssumption == MaxCalls \in Nat

VARIABLES
  transport,          \* the class of the manager: "REST" or "DDP"
  loginStatus,        \* mLoginStatus
  authToken,          \* is mAuthToken set?
  lastLoginPayload,   \* mLastLoginPayload, by the kind of login it came from
  socket,             \* the websocket: "none" before start(), then "opening", "up", "closed"
  inFlight,           \* calls the server has yet to answer
  lost,               \* calls that will never be answered
  nextId              \* mIndex of the REST manager, DDPClient's mUid

vars == <<transport, loginStatus, authToken, lastLoginPayload, socket, inFlight, lost, nextId>>

Payload == {"none", "password", "resume"}
Call == [id : 1..MaxCalls, method : Method, payload : Payload]

TypeOK ==
  /\ transport \in {"REST", "DDP"}
  /\ loginStatus \in LoginStatus
  /\ authToken \in BOOLEAN
  /\ lastLoginPayload \in Payload
  /\ socket \in {"none", "opening", "up", "closed"}
  /\ inFlight \subseteq Call
  /\ lost \subseteq Call
  /\ nextId \in 1..(MaxCalls + 1)

Init ==
  /\ transport \in {"REST", "DDP"}
  /\ loginStatus = "LoggedOut"
  /\ authToken = FALSE
  /\ lastLoginPayload = "none"
  /\ socket = "none"
  /\ inFlight = {}
  /\ lost = {}
  /\ nextId = 1

-----------------------------------------------------------------------------
\* callLoginImpl, then the status that goes with it. A DDP call made while the
\* socket is down is dropped (it is Ephemeral): its answer never comes. Before
\* start() DDPClient has no socket to call on, and its owner does not call.
Invoke(method, payload) ==
  LET call == [id |-> nextId, method |-> method, payload |-> payload] IN
  /\ nextId <= MaxCalls
  /\ transport = "DDP" => socket # "none"
  /\ nextId' = nextId + 1
  /\ UNCHANGED transport
  /\ loginStatus' = StatusAfterCall(method)
  /\ IF transport = "REST" \/ socket = "up"
       THEN inFlight' = inFlight \cup {call} /\ UNCHANGED lost
       ELSE lost' = lost \cup {call} /\ UNCHANGED inFlight

\* Faulty: the status is set even when loginImpl refuses.
LoginPasswordSetsStatus ==
  IF AcceptsLogin(ResetGenericError(loginStatus))
    THEN Invoke("Login", "password") /\ lastLoginPayload' = "password" /\ UNCHANGED <<authToken, socket>>
    ELSE loginStatus' = "LoginOngoing" /\ UNCHANGED <<transport, authToken, lastLoginPayload, socket, inFlight, lost, nextId>>

\* loginPassword, loginLDAP, loginOAuth. Refused, the call changes nothing:
\* an error state is always reset into one that accepts.
LoginPassword ==
  /\ AcceptsLogin(ResetGenericError(loginStatus))
  /\ Invoke("Login", "password")
  /\ lastLoginPayload' = "password"
  /\ UNCHANGED <<authToken, socket>>

\* The callers' setAuthToken and login(). The token is overwritten even when
\* the login that follows is refused; an error state is not reset here.
LoginResume ==
  /\ authToken' = TRUE
  /\ IF AcceptsLogin(loginStatus)
       THEN Invoke("Login", "resume") /\ lastLoginPayload' = "resume"
       ELSE UNCHANGED <<transport, loginStatus, lastLoginPayload, inFlight, lost, nextId>>
  /\ UNCHANGED socket

SendOtp ==
  /\ AcceptsOtp(loginStatus)
  /\ Invoke("SendOtp", lastLoginPayload)
  /\ UNCHANGED <<authToken, lastLoginPayload, socket>>

\* Faulty: the parameters of a logout are kept like those of a login.
LogoutKeepsPayload(method) ==
  /\ AcceptsLogout(loginStatus)
  /\ Invoke(method, "none")
  /\ lastLoginPayload' = method
  /\ UNCHANGED <<authToken, socket>>

Logout(method) ==
  /\ AcceptsLogout(loginStatus)
  /\ Invoke(method, "none")
  /\ UNCHANGED <<authToken, lastLoginPayload, socket>>

\* Personal access tokens: REST is declared logged in without asking.
TrustToken ==
  /\ transport = "REST"
  /\ authToken' = TRUE
  /\ loginStatus' = "LoggedIn"
  /\ UNCHANGED <<transport, lastLoginPayload, socket, inFlight, lost, nextId>>

\* initializeAuthenticationPlugins found no plugin.
PluginProblem ==
  /\ loginStatus' = "FailedToLoginPluginProblem"
  /\ UNCHANGED <<transport, authToken, lastLoginPayload, socket, inFlight, lost, nextId>>

-----------------------------------------------------------------------------
\* DDP answers in the order of the calls.
Answerable(call) ==
  /\ call \in inFlight
  /\ transport = "DDP" => \A other \in inFlight : call.id <= other.id

\* processMethodResponseImpl on a "result"
AnswerResult(call) ==
  /\ Answerable(call)
  /\ inFlight' = inFlight \ {call}
  /\ loginStatus' = StatusAfterResult(call.method)
  /\ authToken' = (authToken \/ call.method \in CredentialMethod)
  /\ UNCHANGED <<transport, lastLoginPayload, socket, lost, nextId>>

\* processMethodResponseImpl on an "error"
AnswerError(call, error) ==
  /\ Answerable(call)
  /\ inFlight' = inFlight \ {call}
  /\ loginStatus' = StatusAfterError(call.method, error)
  /\ UNCHANGED <<transport, authToken, lastLoginPayload, socket, lost, nextId>>

Answer(call) == AnswerResult(call) \/ \E error \in ErrorCode : AnswerError(call, error)

\* A MethodCallJob that fails emits failed(), which the manager does not hear.
JobFails(call) ==
  /\ transport = "REST"
  /\ call \in inFlight
  /\ inFlight' = inFlight \ {call}
  /\ lost' = lost \cup {call}
  /\ UNCHANGED <<transport, loginStatus, authToken, lastLoginPayload, socket, nextId>>

-----------------------------------------------------------------------------
\* DDPClient::start: opens the socket and emits connecting().
Start ==
  /\ transport = "DDP"
  /\ socket = "none"
  /\ socket' = "opening"
  /\ loginStatus' = "Connecting"
  /\ UNCHANGED <<transport, authToken, lastLoginPayload, inFlight, lost, nextId>>

\* The server's "connected": clientConnectedChangedSlot(true) leaves the status.
Connected ==
  /\ socket = "opening"
  /\ socket' = "up"
  /\ UNCHANGED <<transport, loginStatus, authToken, lastLoginPayload, inFlight, lost, nextId>>

\* Faulty: an abnormal close keeps the status.
SocketClosedKeepsStatus(normal) ==
  /\ socket \in {"opening", "up"}
  /\ socket' = "closed"
  /\ loginStatus' = IF normal THEN "LoggedOutAndCleanedUp" ELSE loginStatus
  /\ lost' = lost \cup inFlight
  /\ inFlight' = {}
  /\ UNCHANGED <<transport, authToken, lastLoginPayload, nextId>>

\* DDPClient::onWSclosed, and the clientConnectedChangedSlot(false) it causes.
SocketClosed(normal) ==
  /\ socket \in {"opening", "up"}
  /\ socket' = "closed"
  /\ loginStatus' = IF normal THEN "LoggedOutAndCleanedUp" ELSE "GenericError"
  /\ lost' = lost \cup inFlight
  /\ inFlight' = {}
  /\ UNCHANGED <<transport, authToken, lastLoginPayload, nextId>>

-----------------------------------------------------------------------------
Next ==
  \/ LoginPassword
  \/ LoginResume
  \/ SendOtp
  \/ Logout("Logout")
  \/ Logout("LogoutCleanUp")
  \/ TrustToken
  \/ PluginProblem
  \/ \E call \in inFlight : Answer(call)
  \/ \E call \in inFlight : JobFails(call)
  \/ Start
  \/ Connected
  \/ \E normal \in BOOLEAN : SocketClosed(normal)

\* The server answers what it received; nothing else is promised.
Fairness == \A id \in 1..MaxCalls : WF_vars(\E call \in inFlight : call.id = id /\ Answer(call))

SafetySpec == Init /\ [][Next]_vars
Spec == SafetySpec /\ Fairness

-----------------------------------------------------------------------------
\* The request whose answer a status waits for.
Awaits(status) ==
  CASE status = "LoginOngoing"        -> {"Login"}
    [] status = "LoginOtpAuthOngoing" -> {"SendOtp"}
    [] status = "LogoutOngoing"       -> {"Logout", "LogoutCleanUp"}
    [] OTHER                          -> {}

(***************************************************************************)
(* The manager never waits for nothing: in each "ongoing" status a call of *)
(* that kind is still unanswered.  Every answer, in whatever order, must   *)
(* therefore leave the status it finds, and no call may set a status       *)
(* without sending.                                                        *)
(***************************************************************************)
OngoingAwaitsAnswer ==
  Awaits(loginStatus) # {} =>
    \E call \in inFlight \cup lost : call.method \in Awaits(loginStatus)

(***************************************************************************)
(* An ongoing login, OTP check or logout ends, if the server answers what  *)
(* it received and no call is lost: while it lasts, loginImpl, sendOTP and *)
(* logout refuse the user another attempt.                                 *)
(***************************************************************************)
OngoingEnds ==
  /\ loginStatus = "LoginOngoing" ~> (loginStatus # "LoginOngoing" \/ lost # {})
  /\ loginStatus = "LoginOtpAuthOngoing" ~> (loginStatus # "LoginOtpAuthOngoing" \/ lost # {})
  /\ loginStatus = "LogoutOngoing" ~> (loginStatus # "LogoutOngoing" \/ lost # {})

-----------------------------------------------------------------------------
\* The abstraction of LoginProtocol.
PhaseOf(status) ==
  CASE IsLoggedOut(status) -> "out"
    [] status \in {"LoginOngoing", "LoginOtpAuthOngoing"} -> "waiting"
    [] status = "LoggedIn" -> "in"
    [] status = "LogoutOngoing" -> "leaving"
    [] status = "GenericError" -> "error"
    [] OTHER -> "idle"

KindOf(method) == IF method \in CredentialMethod THEN "credential" ELSE "logout"

Protocol == INSTANCE LoginProtocol WITH
  Ids <- 1..MaxCalls,
  phase <- PhaseOf(loginStatus),
  owed <- {[id |-> c.id, kind |-> KindOf(c.method)] : c \in inFlight}

(***************************************************************************)
(* The manager implements LoginProtocol, over both transports.             *)
(***************************************************************************)
ImplementsProtocol == Protocol!Spec
=============================================================================
