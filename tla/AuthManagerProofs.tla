-------------------------- MODULE AuthManagerProofs --------------------------
(***************************************************************************)
(* Theorems about AuthManager, for both transports and every MaxCalls.     *)
(***************************************************************************)
EXTENDS AuthManager, TLAPS

\* Where the status predicates of AuthStatus lead.
LEMMA StatusFacts ==
  /\ \A m \in Method : StatusAfterCall(m) \in LoginStatus
  /\ \A m \in Method : StatusAfterResult(m) \in LoginStatus
  /\ \A m \in Method, e \in ErrorCode : StatusAfterError(m, e) \in LoginStatus
BY DEF Method, CredentialMethod, ErrorCode, LoginStatus, StatusAfterCall,
       StatusAfterResult, StatusAfterError, StatusAfterLoginError

\* An answer never leaves the manager in a status that waits for an answer.
LEMMA AnswersSettle ==
  /\ \A m \in Method : Awaits(StatusAfterResult(m)) = {}
  /\ \A m \in Method, e \in ErrorCode : Awaits(StatusAfterError(m, e)) = {}
  /\ \A m \in Method : m \in Awaits(StatusAfterCall(m))
BY DEF Method, CredentialMethod, ErrorCode, Awaits, StatusAfterCall,
       StatusAfterResult, StatusAfterError, StatusAfterLoginError

\* Call ids are not reused: two unanswered calls never share an id, and the next
\* id is fresh.
CallsDistinct ==
  /\ \A c, d \in inFlight \cup lost : c.id = d.id => c = d
  /\ \A c \in inFlight \cup lost : c.id < nextId

\* What holds between two steps: the types, fresh ids, and a reason to wait.
IInv == TypeOK /\ CallsDistinct /\ OngoingAwaitsAnswer

\* A call that is sent (or dropped by a socket that is down) keeps the invariant.
LEMMA InvokeKeeps ==
  ASSUME IInv,
         NEW method \in Method, NEW payload \in Payload,
         Invoke(method, payload),
         authToken' \in BOOLEAN, lastLoginPayload' \in Payload,
         socket' = socket
  PROVE  IInv'
<1> DEFINE call == [id |-> nextId, method |-> method, payload |-> payload]
<1>1. /\ nextId \in 1..MaxCalls
      /\ nextId' = nextId + 1
      /\ nextId' \in 1..(MaxCalls + 1)
  BY MaxCallsAssumption DEF IInv, TypeOK, Invoke
<1>2. call \in Call
  BY <1>1 DEF Call
<1>3. /\ inFlight' \cup lost' = (inFlight \cup lost) \cup {call}
      /\ inFlight' \subseteq Call /\ lost' \subseteq Call
  BY <1>2 DEF IInv, TypeOK, Invoke
<1>4. TypeOK'
  BY <1>1, <1>3, StatusFacts DEF IInv, TypeOK, Invoke
<1>5. CallsDistinct'
  <2>1. \A c \in inFlight \cup lost : c.id \in Nat /\ c.id < nextId
    BY MaxCallsAssumption DEF IInv, TypeOK, CallsDistinct, Call
  <2>2. \A c \in inFlight' \cup lost' : c.id < nextId'
    BY <1>1, <1>3, <2>1
  <2>3. \A c, d \in inFlight' \cup lost' : c.id = d.id => c = d
    BY <1>1, <1>3, <2>1 DEF IInv, CallsDistinct
  <2> QED
    BY <2>2, <2>3 DEF CallsDistinct
<1>6. OngoingAwaitsAnswer'
  <2>1. call \in inFlight' \cup lost' /\ call.method = method
    BY <1>3
  <2>2. call.method \in Awaits(loginStatus')
    BY <2>1, AnswersSettle DEF Invoke
  <2> QED
    BY <2>1, <2>2 DEF OngoingAwaitsAnswer
<1> QED
  BY <1>4, <1>5, <1>6 DEF IInv

LEMMA InitInv == Init => IInv
<1> SUFFICES ASSUME Init PROVE IInv
  OBVIOUS
<1>1. TypeOK
  <2>1. nextId \in 1..(MaxCalls + 1)
    BY MaxCallsAssumption DEF Init
  <2>2. loginStatus \in LoginStatus /\ lastLoginPayload \in Payload
    BY DEF Init, LoginStatus, Payload
  <2> QED
    BY <2>1, <2>2, Zenon DEF Init, TypeOK
<1>2. CallsDistinct
  BY DEF Init, CallsDistinct
<1>3. OngoingAwaitsAnswer
  BY DEF Init, OngoingAwaitsAnswer, Awaits
<1> QED
  BY <1>1, <1>2, <1>3 DEF IInv

LEMMA NextInv == IInv /\ [Next]_vars => IInv'
<1> SUFFICES ASSUME IInv, [Next]_vars PROVE IInv'
  OBVIOUS
<1> USE MaxCallsAssumption
<1>1. CASE LoginPassword
  BY <1>1, InvokeKeeps
     DEF LoginPassword, IInv, TypeOK, Method, Payload
<1>2. CASE LoginResume
  <2>1. CASE AcceptsLogin(loginStatus)
    BY <1>2, <2>1, InvokeKeeps DEF LoginResume, IInv, TypeOK, Method, Payload
  <2>2. CASE ~AcceptsLogin(loginStatus)
    BY <1>2, <2>2 DEF LoginResume, IInv, TypeOK, CallsDistinct, OngoingAwaitsAnswer
  <2> QED
    BY <2>1, <2>2
<1>3. CASE SendOtp
  BY <1>3, InvokeKeeps DEF SendOtp, IInv, TypeOK, Method
<1>4. ASSUME NEW method \in {"Logout", "LogoutCleanUp"}, Logout(method)
      PROVE  IInv'
  BY <1>4, InvokeKeeps DEF Logout, IInv, TypeOK, Method, Payload
<1>5. CASE TrustToken
  BY <1>5 DEF TrustToken, IInv, TypeOK, CallsDistinct, OngoingAwaitsAnswer, Awaits, LoginStatus
<1>6. CASE PluginProblem
  BY <1>6 DEF PluginProblem, IInv, TypeOK, CallsDistinct, OngoingAwaitsAnswer, Awaits, LoginStatus
<1>7. ASSUME NEW call \in inFlight, Answer(call)
      PROVE  IInv'
  <2>1. call \in Call
    BY DEF IInv, TypeOK
  <2>2. /\ inFlight' \subseteq inFlight
        /\ UNCHANGED <<transport, lastLoginPayload, socket, lost, nextId>>
        /\ authToken' \in BOOLEAN
    BY <1>7 DEF Answer, AnswerResult, AnswerError, IInv, TypeOK
  <2>3. loginStatus' \in LoginStatus /\ Awaits(loginStatus') = {}
    BY <1>7, <2>1, StatusFacts, AnswersSettle DEF Answer, AnswerResult, AnswerError, Call
  <2> QED
    BY <2>2, <2>3 DEF IInv, TypeOK, CallsDistinct, OngoingAwaitsAnswer
<1>8. ASSUME NEW call \in inFlight, JobFails(call)
      PROVE  IInv'
  BY <1>8 DEF JobFails, IInv, TypeOK, CallsDistinct, OngoingAwaitsAnswer
<1>9. CASE Start
  BY <1>9 DEF Start, IInv, TypeOK, CallsDistinct, OngoingAwaitsAnswer, Awaits, LoginStatus
<1>10. CASE Connected
  BY <1>10 DEF Connected, IInv, TypeOK, CallsDistinct, OngoingAwaitsAnswer
<1>11. ASSUME NEW normal \in BOOLEAN, SocketClosed(normal)
       PROVE  IInv'
  BY <1>11 DEF SocketClosed, IInv, TypeOK, CallsDistinct, OngoingAwaitsAnswer, Awaits, LoginStatus
<1>12. CASE UNCHANGED vars
  BY <1>12 DEF vars, IInv, TypeOK, CallsDistinct, OngoingAwaitsAnswer
<1> QED
  BY <1>1, <1>2, <1>3, <1>4, <1>5, <1>6, <1>7, <1>8, <1>9, <1>10, <1>11, <1>12 DEF Next

\* The variables keep their types, whatever the order of calls and answers
\* (the fields and the enumeration of AuthenticationManagerBase).
THEOREM TypeCorrect == Spec => []TypeOK
<1>1. IInv => TypeOK
  BY DEF IInv
<1> QED
  BY InitInv, NextInv, <1>1, PTL DEF Spec, SafetySpec

\* An "ongoing" status always has a call of its kind unanswered: no answer,
\* late or out of order, strands AuthenticationManagerBase in a waiting status.
THEOREM AwaitsCorrect == Spec => []OngoingAwaitsAnswer
<1>1. IInv => OngoingAwaitsAnswer
  BY DEF IInv
<1> QED
  BY InitInv, NextInv, <1>1, PTL DEF Spec, SafetySpec

-----------------------------------------------------------------------------
(***************************************************************************)
(* AuthManager implements LoginProtocol.                                   *)
(***************************************************************************)
Owe(c) == [id |-> c.id, kind |-> KindOf(c.method)]
Owed == {Owe(c) : c \in inFlight}

\* Where the calls and the answers lead in terms of phases.
LEMMA PhaseFacts ==
  /\ \A m \in Method : KindOf(m) \in {"credential", "logout"}
  /\ \A m \in Method : PhaseOf(StatusAfterCall(m))
                           = IF KindOf(m) = "logout" THEN "leaving" ELSE "waiting"
  /\ \A m \in Method : \A s \in {StatusAfterResult(m)} \cup {StatusAfterError(m, e) : e \in ErrorCode} :
       PhaseOf(s) \in IF KindOf(m) = "credential" THEN {"in", "idle", "error"}
                                                   ELSE {"out", "error"}
BY DEF Method, CredentialMethod, ErrorCode, KindOf, PhaseOf, IsLoggedOut, StatusAfterCall,
       StatusAfterResult, StatusAfterError, StatusAfterLoginError

\* A call is an Ask: its id is fresh, and a logout is asked for only when there
\* is something to leave.
LEMMA InvokeAsks ==
  ASSUME IInv, NEW method \in Method, NEW payload \in Payload, Invoke(method, payload),
         KindOf(method) = "logout" => AcceptsLogout(loginStatus)
  PROVE  Protocol!Next
<1> DEFINE call == [id |-> nextId, method |-> method, payload |-> payload]
           sent == transport = "REST" \/ socket = "up"
<1>1. nextId \in 1..MaxCalls
  BY MaxCallsAssumption DEF IInv, TypeOK, Invoke
<1>2. \A r \in Owed : r.id # nextId
  BY <1>1, MaxCallsAssumption DEF Owed, Owe, IInv, CallsDistinct, TypeOK, Call
<1>3. KindOf(method) = "logout" => PhaseOf(loginStatus) \notin {"out", "leaving", "error"}
  BY DEF AcceptsLogout, PhaseOf, IsLoggedOut
<1>4. PhaseOf(loginStatus') = IF KindOf(method) = "logout" THEN "leaving" ELSE "waiting"
  BY PhaseFacts DEF Invoke
<1>5. Owe(call) = [id |-> nextId, kind |-> KindOf(method)]
  BY DEF Owe
<1>6. Owed' = IF sent THEN Owed \cup {Owe(call)} ELSE Owed
  BY DEF Owed, Owe, Invoke
<1>7. Protocol!Ask(nextId, KindOf(method))
  BY <1>2, <1>3, <1>4, <1>5, <1>6 DEF Protocol!Ask, Owed, Owe
<1>8. KindOf(method) \in Protocol!Kind
  BY PhaseFacts DEF Protocol!Kind
<1> QED
  BY <1>1, <1>7, <1>8 DEF Protocol!Next

\* Taking one call out of inFlight takes exactly what it is owed for out of owed.
LEMMA OwedWithout ==
  ASSUME IInv, NEW call \in inFlight, inFlight' = inFlight \ {call}
  PROVE  Owe(call) \in Owed /\ Owed' = Owed \ {Owe(call)}
<1>1. \A c \in inFlight : Owe(c) = Owe(call) => c = call
  BY DEF Owe, IInv, CallsDistinct
<1> QED
  BY <1>1 DEF Owed, Owe

LEMMA NextImplements == IInv /\ [Next]_vars =>
  [Protocol!Next]_<<PhaseOf(loginStatus), {[id |-> c.id, kind |-> KindOf(c.method)] : c \in inFlight}>>
<1> DEFINE pvars == <<PhaseOf(loginStatus), Owed>>
<1> SUFFICES ASSUME IInv, [Next]_vars
             PROVE  Protocol!Next \/ UNCHANGED pvars
  BY DEF Owed, Owe
<1>1. CASE LoginPassword
  BY <1>1, InvokeAsks DEF LoginPassword, Method, Payload, KindOf, CredentialMethod
<1>2. CASE LoginResume
  <2>1. CASE AcceptsLogin(loginStatus)
    BY <1>2, <2>1, InvokeAsks DEF LoginResume, Method, Payload, KindOf, CredentialMethod
  <2>2. CASE ~AcceptsLogin(loginStatus)
    BY <1>2, <2>2 DEF LoginResume, Owed
  <2> QED
    BY <2>1, <2>2
<1>3. CASE SendOtp
  BY <1>3, InvokeAsks DEF SendOtp, IInv, TypeOK, Method, KindOf, CredentialMethod
<1>4. ASSUME NEW method \in {"Logout", "LogoutCleanUp"}, Logout(method)
      PROVE  Protocol!Next
  BY <1>4, InvokeAsks DEF Logout, Method, Payload
<1>5. CASE TrustToken
  BY <1>5 DEF TrustToken, Protocol!Next, Protocol!Trust, PhaseOf, IsLoggedOut
<1>6. CASE PluginProblem
  BY <1>6 DEF PluginProblem, Protocol!Next, Protocol!Connect, PhaseOf, IsLoggedOut
<1>7. ASSUME NEW call \in inFlight, Answer(call)
      PROVE  Protocol!Next
  <2>1. call.method \in Method
    BY DEF IInv, TypeOK, Call
  <2>2. inFlight' = inFlight \ {call}
    BY <1>7 DEF Answer, AnswerResult, AnswerError
  <2>3. loginStatus' \in {StatusAfterResult(call.method)}
                           \cup {StatusAfterError(call.method, e) : e \in ErrorCode}
    BY <1>7 DEF Answer, AnswerResult, AnswerError
  <2>4. PhaseOf(loginStatus') \in
          IF KindOf(call.method) = "credential" THEN {"in", "idle", "error"} ELSE {"out", "error"}
    BY <2>1, <2>3, PhaseFacts
  <2>5. Protocol!Answered(Owe(call))
    BY <2>2, <2>4, OwedWithout DEF Protocol!Answered, Owed, Owe
  <2> QED
    BY <2>2, <2>5, OwedWithout DEF Protocol!Next, Owed, Owe
<1>8. ASSUME NEW call \in inFlight, JobFails(call)
      PROVE  Protocol!Next
  <2>1. Protocol!Lost(Owe(call))
    BY <1>8, OwedWithout DEF JobFails, Protocol!Lost, Owed, Owe
  <2> QED
    BY <1>8, <2>1, OwedWithout DEF JobFails, Protocol!Next, Owed, Owe
<1>9. CASE Start
  BY <1>9 DEF Start, Protocol!Next, Protocol!Connect, PhaseOf, IsLoggedOut
<1>10. CASE Connected
  BY <1>10 DEF Connected, Owed
<1>11. ASSUME NEW normal \in BOOLEAN, SocketClosed(normal)
       PROVE  Protocol!Next
  BY <1>11 DEF SocketClosed, Protocol!Next, Protocol!Disconnect, PhaseOf, IsLoggedOut
<1>12. CASE UNCHANGED vars
  BY <1>12 DEF vars, Owed
<1> QED
  BY <1>1, <1>2, <1>3, <1>4, <1>5, <1>6, <1>7, <1>8, <1>9, <1>10, <1>11, <1>12 DEF Next

\* Every behaviour of AuthManager is one of LoginProtocol: in by an answer to a
\* credential request or on trust, out by an answer to a logout or a closed socket.
THEOREM Implements == Spec => ImplementsProtocol
<1>1. Init => Protocol!Init
  BY DEF Init, Protocol!Init, PhaseOf, IsLoggedOut
<1> QED
  BY InitInv, NextInv, NextImplements, <1>1, PTL
     DEF Spec, SafetySpec, ImplementsProtocol, Protocol!Spec
=============================================================================
