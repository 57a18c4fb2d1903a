------------------------ MODULE AccountSessionProofs ------------------------
(***************************************************************************)
(* For any number of disruptions and of requests: the types of an account, *)
(* and that its two clients stay together.  A handler is a chain of        *)
(* operators from account to account; there is one lemma for each of them, *)
(* which says what it makes of an account that is sound.                   *)
(***************************************************************************)
EXTENDS AccountSession, FiniteSetTheorems, WellFoundedInduction, TLAPS

Job == [id : Nat, method : RestMethod, payload : Payload]

Rest ==
  [status : LoginStatus, token : BOOLEAN, payload : Payload, calls : SUBSET Job,
   lost : BOOLEAN, failing : BOOLEAN]

Websocket ==
  [status : LoginStatus, token : BOOLEAN, socket : {"none", "opening", "up", "closed"},
   calls : Seq(DdpMethod), streams : BOOLEAN, watches : BOOLEAN]

Account ==
  [rest : {NoClient} \cup Rest, ddp : {NoClient} \cup Websocket,
   token : {"none", "fresh", "expired"}, otp : BOOLEAN, password : BOOLEAN, version : BOOLEAN,
   queue : SUBSET {"clearModels", "startConnecting", "loadServerInfo"},
   timers : Nat, countdown : BOOLEAN, orphan : BOOLEAN,
   room : {"absent", "listed", "opened"}, shown : LoginStatus]

LEMMA Clients ==
  /\ NewConnection \in Rest
  /\ NewDdp \in Websocket
  /\ NoClient \notin Rest
  /\ NoClient \notin Websocket
  /\ NoClient.status = "absent"
  /\ "absent" \notin LoginStatus
<1>1. NewConnection \in Rest
  BY DEF NewConnection, Rest, LoginStatus, Payload
<1>2. <<>> \in Seq(DdpMethod)
  OBVIOUS
<1>3. NewDdp \in Websocket
  BY <1>2 DEF NewDdp, Websocket, LoginStatus
<1>4. NoClient.status = "absent" /\ "absent" \notin LoginStatus
  BY DEF NoClient, LoginStatus
<1>5. (\A r \in Rest : r.status \in LoginStatus) /\ (\A d \in Websocket : d.status \in LoginStatus)
  BY DEF Rest, Websocket
<1> QED BY <1>1, <1>3, <1>4, <1>5

LEMMA ClientTypes ==
  ASSUME NEW a \in Account
  PROVE  /\ HasRest(a) => a.rest \in Rest /\ a.rest.status \in LoginStatus
         /\ HasDdp(a) => a.ddp \in Websocket /\ a.ddp.status \in LoginStatus
         /\ ~HasRest(a) => loginStatus(a) = "LoggedOut"
         /\ HasRest(a) => loginStatus(a) = a.rest.status
         /\ loginStatus(a) \in LoginStatus
         /\ ~HasDdp(a) => a.ddp.status = "absent"
<1>1. a.rest \in {NoClient} \cup Rest /\ a.ddp \in {NoClient} \cup Websocket
  BY DEF Account
<1>2. "LoggedOut" \in LoginStatus
  BY DEF LoginStatus
<1> QED BY <1>1, <1>2, Clients DEF HasRest, HasDdp, loginStatus, Rest, Websocket

\* Putting a client into an account.
LEMMA PutRest ==
  ASSUME NEW a \in Account, NEW r \in {NoClient} \cup Rest
  PROVE  LET b == [a EXCEPT !.rest = r] IN
         /\ b \in Account
         /\ b.rest = r /\ b.ddp = a.ddp
         /\ b.otp = a.otp /\ b.password = a.password /\ b.version = a.version /\ b.timers = a.timers
         /\ b.token = a.token
         /\ b.shown = a.shown
BY DEF Account

-----------------------------------------------------------------------------
(***************************************************************************)
(* What is true of an account, given whether its user has left it.         *)
(***************************************************************************)
\* As long as no OTP code lingers, the one login under way is the one that the
\* status is about.
RestSound(a, gone) ==
  HasRest(a) =>
    /\ IsFiniteSet(a.rest.calls)
    /\ a.rest.status = "LoggedIn" => a.rest.token
    /\ ~gone => \A c \in a.rest.calls : c.method # "LogoutCleanUp"
    /\ ~a.otp => \A c, d \in a.rest.calls :
         /\ c.method # "SendOtp"
         /\ c.method = "Login" => a.rest.status = "LoginOngoing"
         /\ c.method = "Login" /\ d.method = "Login" => c = d

\* The websocket neither is logged in, nor asked to be, nor waits for its answer.
Passive(d) ==
  /\ d.status \notin {"LoginOngoing", "LoggedIn"}
  /\ \A i \in DOMAIN d.calls : d.calls[i] # "Login"

NeverLeads(a, gone) == ~gone /\ ~a.otp /\ HasDdp(a) /\ loginStatus(a) # "LoggedIn" => Passive(a.ddp)

\* A live websocket of a connection that is logged in was asked to log in.
Follows(a) ==
  loginStatus(a) = "LoggedIn" /\ HasDdp(a) /\ a.ddp.socket = "up" =>
    a.ddp.status \notin {"LoggedOut", "Connecting"}

\* The window knows of a login under way.
Told(a) ==
  HasRest(a) /\ ~a.otp => \A c \in a.rest.calls : c.method = "Login" => a.shown = "LoginOngoing"

NotStuck(a) ==
  \/ loginStatus(a) \in {"LoginOngoing", "LoginOtpAuthOngoing"}
  \/ loginStatus(a) = "LoggedIn" /\ ~a.otp
  => a.ddp.status # "LogoutOngoing"

Sound(a, gone) == a \in Account /\ RestSound(a, gone) /\ NeverLeads(a, gone)

Good(a, gone) == Sound(a, gone) /\ Follows(a) /\ Told(a)

Failing(a) == HasRest(a) /\ a.rest.failing

\* What no handler changes but those of the keychain, the timers and the window.
Kept(a, b) ==
  /\ b.otp = a.otp
  /\ b.password = a.password
  /\ b.version = a.version
  /\ b.timers = a.timers
  /\ Failing(b) => Failing(a)

LEMMA KeptSteps ==
  ASSUME NEW a, NEW b, NEW c, Kept(a, b), Kept(b, c)
  PROVE  Kept(a, c)
BY DEF Kept

LEMMA NewRest ==
  ASSUME NEW a, NEW gone \in BOOLEAN, Good(a, gone)
  PROVE  /\ Good(RestApi(a), gone) /\ HasRest(RestApi(a)) /\ Kept(a, RestApi(a))
         /\ loginStatus(RestApi(a)) = loginStatus(a)
         /\ RestApi(a).ddp = a.ddp /\ RestApi(a).shown = a.shown /\ RestApi(a).token = a.token
         /\ NotStuck(a) => NotStuck(RestApi(a))
<1> DEFINE b == [a EXCEPT !.rest = NewConnection]
<1>0. a \in Account
  BY DEF Good, Sound
<1>1. CASE HasRest(a)
  BY <1>1 DEF RestApi, Kept
<1>2. CASE ~HasRest(a)
  <2>1. /\ RestApi(a) = b
        /\ b \in Account /\ b.rest = NewConnection /\ b.ddp = a.ddp /\ b.otp = a.otp /\ b.shown = a.shown
    BY <1>0, <1>2, PutRest, Clients DEF RestApi
  <2>2. b.password = a.password /\ b.version = a.version /\ b.timers = a.timers /\ b.token = a.token
    BY <1>0 DEF Account
  <2> HIDE DEF b
  <2>3. HasRest(b) /\ loginStatus(b) = "LoggedOut" /\ b.rest.calls = {} /\ b.rest.failing = FALSE
    BY <2>1, ClientTypes, Clients DEF HasRest, NewConnection
  <2>4. loginStatus(a) = "LoggedOut"
    BY <1>0, <1>2, ClientTypes
  <2>5. RestSound(b, gone)
    BY <2>1, <2>3, FS_EmptySet DEF RestSound, NewConnection
  <2>6. NeverLeads(b, gone) /\ Follows(b) /\ Told(b)
    BY <2>1, <2>3, <2>4 DEF Good, Sound, NeverLeads, Follows, Told, HasDdp
  <2>7. NotStuck(b)
    BY <2>3 DEF NotStuck
  <2>8. Kept(a, b)
    BY <2>1, <2>2, <2>3 DEF Kept, Failing
  <2> QED BY <2>1, <2>2, <2>3, <2>4, <2>5, <2>6, <2>7, <2>8 DEF Good, Sound
<1> QED BY <1>1, <1>2

\* A handler that only changes the websocket.
OnlyDdp(a, b) ==
  /\ b \in Account
  /\ b.rest = a.rest
  /\ b.otp = a.otp /\ b.password = a.password /\ b.version = a.version /\ b.timers = a.timers
  /\ b.token = a.token
  /\ b.shown = a.shown

LEMMA PutDdp ==
  ASSUME NEW a \in Account, NEW d \in {NoClient} \cup Websocket
  PROVE  OnlyDdp(a, [a EXCEPT !.ddp = d]) /\ [a EXCEPT !.ddp = d].ddp = d
BY DEF Account, OnlyDdp

LEMMA NewWebsocket ==
  ASSUME NEW a, NEW gone \in BOOLEAN, Sound(a, gone)
  PROVE  /\ Sound(Ddp(a), gone) /\ HasDdp(Ddp(a)) /\ Kept(a, Ddp(a))
         /\ Ddp(a).rest = a.rest /\ Ddp(a).shown = a.shown /\ Ddp(a).token = a.token
         /\ Follows(a) => Follows(Ddp(a))
         /\ NotStuck(a) => NotStuck(Ddp(a))
<1> DEFINE b == [a EXCEPT !.ddp = NewDdp]
<1>0. a \in Account
  BY DEF Sound
<1>1. CASE HasDdp(a)
  BY <1>1 DEF Ddp, Kept
<1>2. CASE ~HasDdp(a)
  <2>1. /\ Ddp(a) = b
        /\ b \in Account /\ b.rest = a.rest /\ b.ddp = NewDdp /\ b.otp = a.otp /\ b.shown = a.shown
    BY <1>0, <1>2, PutDdp, Clients DEF Ddp, OnlyDdp
  <2>2. b.password = a.password /\ b.version = a.version /\ b.timers = a.timers /\ b.token = a.token
    BY <1>0 DEF Account
  <2> HIDE DEF b
  <2>3. HasDdp(b) /\ Passive(b.ddp) /\ b.ddp.socket = "none" /\ b.ddp.status = "LoggedOut"
    BY <2>1, Clients DEF HasDdp, NewDdp, Passive
  <2>4. HasRest(b) <=> HasRest(a)
    BY <2>1 DEF HasRest
  <2>5. RestSound(b, gone) /\ NeverLeads(b, gone) /\ Follows(b) /\ NotStuck(b)
    BY <2>1, <2>3, <2>4 DEF Sound, RestSound, NeverLeads, Follows, NotStuck
  <2>6. Kept(a, b)
    BY <2>1, <2>2, <2>4 DEF Kept, Failing
  <2> QED BY <2>1, <2>2, <2>3, <2>5, <2>6 DEF Sound
<1> QED BY <1>1, <1>2

LEMMA MakesDdp ==
  ASSUME NEW a, NEW gone \in BOOLEAN, Good(a, gone)
  PROVE  LET b == Ddp(a) IN
         /\ Good(b, gone) /\ Kept(a, b) /\ HasDdp(b)
         /\ b.rest = a.rest
         /\ NotStuck(a) => NotStuck(b)
<1>1. /\ Sound(Ddp(a), gone) /\ HasDdp(Ddp(a)) /\ Kept(a, Ddp(a))
      /\ Ddp(a).rest = a.rest /\ Ddp(a).shown = a.shown
      /\ Follows(a) => Follows(Ddp(a))
      /\ NotStuck(a) => NotStuck(Ddp(a))
  BY NewWebsocket DEF Good
<1>2. Told(Ddp(a))
  BY <1>1 DEF Good, Told, HasRest, Kept
<1> QED BY <1>1, <1>2 DEF Good

LEMMA OnlyDdpSteps ==
  ASSUME NEW a, NEW b, NEW c, OnlyDdp(a, b), OnlyDdp(b, c)
  PROVE  OnlyDdp(a, c)
BY DEF OnlyDdp

\* Such a handler leaves the connection as it was.
LEMMA OnlyDdpKeeps ==
  ASSUME NEW a \in Account, NEW b, NEW gone \in BOOLEAN, OnlyDdp(a, b)
  PROVE  /\ Kept(a, b)
         /\ HasRest(b) <=> HasRest(a)
         /\ loginStatus(b) = loginStatus(a)
         /\ RestSound(a, gone) => RestSound(b, gone)
         /\ Told(a) => Told(b)
BY DEF OnlyDdp, Kept, Failing, HasRest, loginStatus, RestSound, Told

LEMMA Sending ==
  ASSUME NEW a \in Account, HasDdp(a), NEW method \in DdpMethod
  PROVE  LET b == SendDdp(a, method) IN
         /\ OnlyDdp(a, b) /\ HasDdp(b)
         /\ b.ddp.status = a.ddp.status /\ b.ddp.socket = a.ddp.socket /\ b.ddp.token = a.ddp.token
         /\ method # "Login" /\ Passive(a.ddp) => Passive(b.ddp)
<1> DEFINE d == [a.ddp EXCEPT !.calls = Append(@, method)]
           b == SendDdp(a, method)
<1>1. a.ddp \in Websocket
  BY ClientTypes
<1>2. CASE a.ddp.socket = "up"
  <2>1. b = [a EXCEPT !.ddp = d]
    BY <1>2 DEF SendDdp
  <2>2. /\ d \in Websocket
        /\ d.status = a.ddp.status /\ d.socket = a.ddp.socket /\ d.token = a.ddp.token
        /\ d.calls = Append(a.ddp.calls, method)
    <3>1. Append(a.ddp.calls, method) \in Seq(DdpMethod)
      BY <1>1 DEF Websocket
    <3> QED BY <1>1, <3>1 DEF Websocket
  <2>3. OnlyDdp(a, b) /\ b.ddp = d
    BY <2>1, <2>2, PutDdp
  <2>4. method # "Login" /\ Passive(a.ddp) => Passive(d)
    <3>1. a.ddp.calls \in Seq(DdpMethod)
      BY <1>1 DEF Websocket
    <3>2. \A i \in DOMAIN d.calls : d.calls[i] = method \/ (i \in DOMAIN a.ddp.calls /\ d.calls[i] = a.ddp.calls[i])
      BY <2>2, <3>1
    <3> QED BY <2>2, <3>2 DEF Passive
  <2> QED BY <2>2, <2>3, <2>4, Clients DEF HasDdp
<1>3. CASE a.ddp.socket # "up"
  BY <1>3 DEF SendDdp, OnlyDdp
<1> QED BY <1>2, <1>3

\* A status other than that of a client that is cleaned up.
LEMMA DdpStatus ==
  ASSUME NEW a \in Account, HasDdp(a), NEW status \in LoginStatus, status # "LoggedOutAndCleanedUp"
  PROVE  LET b == SetDdpStatus(a, status) IN
         /\ OnlyDdp(a, b) /\ HasDdp(b)
         /\ b.ddp.status = status
         /\ b.ddp.socket = a.ddp.socket /\ b.ddp.token = a.ddp.token /\ b.ddp.calls = a.ddp.calls
<1> DEFINE d == [a.ddp EXCEPT !.status = status]
           b == SetDdpStatus(a, status)
<1>1. a.ddp \in Websocket
  BY ClientTypes
<1>2. b = [a EXCEPT !.ddp = d]
  BY DEF SetDdpStatus
<1>3. /\ d \in Websocket /\ d.status = status
      /\ d.socket = a.ddp.socket /\ d.token = a.ddp.token /\ d.calls = a.ddp.calls
  BY <1>1 DEF Websocket
<1>4. OnlyDdp(a, b) /\ b.ddp = d
  BY <1>2, <1>3, PutDdp
<1> QED BY <1>3, <1>4, Clients DEF HasDdp

\* The websocket of a connection that is logged in is asked to log in, if it was not.
LEMMA DdpLogsIn ==
  ASSUME NEW a \in Account, HasRest(a), HasDdp(a), a.rest.token = TRUE
  PROVE  LET b == DdpLogin(a) IN
         /\ OnlyDdp(a, b) /\ HasDdp(b)
         /\ b.ddp.socket = a.ddp.socket
         /\ b.ddp.status \notin {"LoggedOut", "Connecting"}
         /\ b.ddp.status = "LogoutOngoing" => a.ddp.status = "LogoutOngoing"
<1> DEFINE d == [a.ddp EXCEPT !.token = TRUE]
           c == [a EXCEPT !.ddp = d]
           e == SendDdp(c, "Login")
           f == SetDdpStatus(e, "LoginOngoing")
           g == SendDdp(f, "GetSubscriptions")
<1>1. a.ddp \in Websocket
  BY ClientTypes
<1>2. d \in Websocket /\ d.status = a.ddp.status /\ d.socket = a.ddp.socket /\ d.token = TRUE
  BY <1>1 DEF Websocket
<1>3. OnlyDdp(a, c) /\ c.ddp = d /\ HasDdp(c) /\ c \in Account
  <2>1. OnlyDdp(a, c) /\ c.ddp = d
    BY <1>2, PutDdp
  <2> QED BY <1>2, <2>1, Clients DEF HasDdp, OnlyDdp
<1>4. DdpLogin(a) = IF AcceptsLogin(d.status) THEN g ELSE c
  <2>1. Ddp(RestApi(a)) = a
    BY DEF Ddp, RestApi
  <2>2. [a EXCEPT !.ddp.token = a.rest.token] = c
    OBVIOUS
  <2> QED BY <1>2, <1>3, <2>1, <2>2 DEF DdpLogin
<1>5. CASE AcceptsLogin(d.status)
  <2> HIDE DEF c, d
  <2>1. OnlyDdp(c, e) /\ HasDdp(e) /\ e.ddp.socket = d.socket /\ e \in Account
    BY <1>3, Sending DEF DdpMethod, OnlyDdp
  <2> HIDE DEF e
  <2>2. /\ OnlyDdp(e, f) /\ HasDdp(f) /\ f.ddp.socket = d.socket /\ f.ddp.status = "LoginOngoing"
        /\ f \in Account
    BY <2>1, DdpStatus DEF LoginStatus, OnlyDdp
  <2> HIDE DEF f
  <2>3. OnlyDdp(f, g) /\ HasDdp(g) /\ g.ddp.socket = d.socket /\ g.ddp.status = "LoginOngoing"
    BY <2>2, Sending DEF DdpMethod
  <2> HIDE DEF g
  <2>4. OnlyDdp(a, g)
    BY <1>3, <2>1, <2>2, <2>3, OnlyDdpSteps
  <2> QED BY <1>2, <1>4, <1>5, <2>3, <2>4
<1>6. CASE ~AcceptsLogin(d.status)
  BY <1>2, <1>3, <1>4, <1>6 DEF AcceptsLogin
<1> QED BY <1>5, <1>6

\* It follows the connection.
LEMMA LoggedInSound ==
  ASSUME NEW a, NEW b, NEW gone \in BOOLEAN, Sound(a, gone), OnlyDdp(a, b),
         loginStatus(a) = "LoggedIn"
  PROVE  Sound(b, gone)
BY OnlyDdpKeeps DEF Sound, NeverLeads, OnlyDdp

-----------------------------------------------------------------------------
\* A handler that leaves the connection, and what the window was told, as it is.
SameRest(a, b) ==
  /\ b.rest = a.rest
  /\ b.otp = a.otp /\ b.password = a.password /\ b.version = a.version /\ b.timers = a.timers
  /\ b.shown = a.shown

\* RocketChatBackend hears of every status.
LEMMA BackendHears ==
  ASSUME NEW a, NEW gone \in BOOLEAN, Sound(a, gone)
  PROVE  LET b == BackendLoginStatusChanged(a) IN
         /\ Sound(b, gone) /\ Follows(b) /\ SameRest(a, b)
         /\ NotStuck(a) => NotStuck(b)
<1> DEFINE t == [a EXCEPT !.token = "fresh"]
           c == Ddp(t)
           b == BackendLoginStatusChanged(a)
<1>0. a \in Account
  BY DEF Sound
<1>1. CASE loginStatus(a) # "LoggedIn"
  <2>1. b = a
    BY <1>1 DEF BackendLoginStatusChanged
  <2> QED BY <1>1, <2>1 DEF Follows, SameRest
<1>2. CASE loginStatus(a) = "LoggedIn"
  <2>1. t \in Account /\ SameRest(a, t) /\ t.ddp = a.ddp
    BY <1>0 DEF Account, SameRest
  <2>2. Sound(t, gone) /\ loginStatus(t) = "LoggedIn" /\ (NotStuck(a) => NotStuck(t))
    BY <1>2, <2>1 DEF Sound, RestSound, NeverLeads, NotStuck, SameRest, HasRest, HasDdp, loginStatus
  <2> HIDE DEF t
  <2>3. /\ Sound(c, gone) /\ HasDdp(c) /\ SameRest(a, c) /\ loginStatus(c) = "LoggedIn"
        /\ NotStuck(a) => NotStuck(c)
    <3>1. Sound(c, gone) /\ HasDdp(c) /\ Kept(t, c) /\ c.rest = t.rest /\ c.shown = t.shown
          /\ (NotStuck(t) => NotStuck(c))
      BY <2>2, NewWebsocket
    <3>2. loginStatus(c) = loginStatus(t)
      BY <3>1 DEF loginStatus, HasRest
    <3> QED BY <2>1, <2>2, <3>1, <3>2 DEF SameRest, Kept
  <2>4. b = IF c.ddp.socket = "up" THEN DdpLogin(c) ELSE c
    BY <1>2 DEF BackendLoginStatusChanged, t
  <2> HIDE DEF c
  <2>5. CASE c.ddp.socket = "up"
    <3>1. c \in Account /\ HasRest(c) /\ c.rest.token = TRUE
      <4>1. c \in Account /\ HasRest(c) /\ c.rest.token
        BY <2>3 DEF Sound, RestSound, loginStatus
      <4>2. c.rest \in Rest
        BY <4>1, ClientTypes
      <4> QED BY <4>1, <4>2 DEF Rest
    <3>2. OnlyDdp(c, b) /\ HasDdp(b) /\ b.ddp.status \notin {"LoggedOut", "Connecting"}
          /\ (b.ddp.status = "LogoutOngoing" => c.ddp.status = "LogoutOngoing")
      BY <2>3, <2>4, <2>5, <3>1, DdpLogsIn
    <3> HIDE DEF b
    <3>3. Sound(b, gone) /\ Follows(b)
      BY <2>3, <3>2, LoggedInSound DEF Follows
    <3>4. SameRest(a, b)
      BY <2>3, <3>2 DEF SameRest, OnlyDdp
    <3>5. NotStuck(c) => NotStuck(b)
      BY <3>1, <3>2, OnlyDdpKeeps DEF NotStuck, OnlyDdp
    <3> QED BY <2>3, <3>3, <3>4, <3>5 DEF b
  <2>6. CASE c.ddp.socket # "up"
    BY <2>3, <2>4, <2>6 DEF Follows
  <2> QED BY <2>5, <2>6
<1> QED BY <1>1, <1>2

\* So does the window, whose last known status is then that of the connection.
LEMMA StatusHeard ==
  ASSUME NEW a \in Account, NEW gone \in BOOLEAN, HasRest(a),
         IF a.rest.status = "LoggedOutAndCleanedUp" THEN gone ELSE Sound(a, gone)
  PROVE  LET b == RestStatusChanged(a) IN
         /\ Good(b, gone) /\ Kept(a, b)
         /\ a.rest.status # "LoggedOutAndCleanedUp" => b.rest = a.rest
         /\ NotStuck(a) => NotStuck(b)
<1> DEFINE c == CASE a.rest.status = "LoggedOutAndCleanedUp" -> [a EXCEPT !.rest = NoClient]
                  [] a.rest.status = "GenericError" -> [a EXCEPT !.token = "none"]
                  [] OTHER -> a
           d == [c EXCEPT !.shown = loginStatus(c)]
           b == RestStatusChanged(a)
<1>0. a \in Account
  OBVIOUS
<1>1. /\ c \in Account
      /\ c.otp = a.otp /\ c.password = a.password /\ c.version = a.version /\ c.timers = a.timers
      /\ c.ddp = a.ddp
      /\ c.rest = IF a.rest.status = "LoggedOutAndCleanedUp" THEN NoClient ELSE a.rest
  <2>1. CASE a.rest.status = "LoggedOutAndCleanedUp"
    <3>1. c = [a EXCEPT !.rest = NoClient]
      BY <2>1
    <3> HIDE DEF c
    <3>2. NoClient \in {NoClient} \cup Rest
      OBVIOUS
    <3>3. /\ c \in Account /\ c.rest = NoClient /\ c.ddp = a.ddp
          /\ c.otp = a.otp /\ c.password = a.password /\ c.version = a.version /\ c.timers = a.timers
      BY <1>0, <3>1, <3>2, PutRest
    <3> QED BY <2>1, <3>3
  <2>2. CASE a.rest.status = "GenericError"
    <3>1. c = [a EXCEPT !.token = "none"]
      BY <2>2
    <3>2. a.rest.status # "LoggedOutAndCleanedUp"
      BY <2>2
    <3> QED BY <1>0, <3>1, <3>2 DEF Account
  <2>3. CASE a.rest.status \notin {"LoggedOutAndCleanedUp", "GenericError"}
    <3>1. c = a
      BY <2>3
    <3> QED BY <1>0, <2>3, <3>1
  <2> QED BY <2>1, <2>2, <2>3
<1>2. b = BackendLoginStatusChanged(d)
  BY DEF RestStatusChanged
<1> HIDE DEF c
<1>3. loginStatus(c) \in LoginStatus
  BY <1>1, ClientTypes
<1>4. /\ d \in Account
      /\ d.otp = a.otp /\ d.password = a.password /\ d.version = a.version /\ d.timers = a.timers
      /\ d.ddp = a.ddp /\ d.rest = c.rest /\ d.shown = loginStatus(c)
  BY <1>1, <1>3 DEF Account
<1> HIDE DEF d
<1>5. loginStatus(d) = loginStatus(c) /\ (HasRest(d) <=> HasRest(c)) /\ (HasDdp(d) <=> HasDdp(a))
  BY <1>4 DEF loginStatus, HasRest, HasDdp
<1>6. Sound(d, gone)
  <2>1. RestSound(d, gone)
    BY <1>1, <1>4 DEF Sound, RestSound, HasRest
  <2>2. NeverLeads(d, gone)
    BY <1>1, <1>4, <1>5 DEF Sound, NeverLeads, loginStatus, HasRest
  <2> QED BY <1>4, <2>1, <2>2 DEF Sound
<1>7. NotStuck(a) => NotStuck(d)
  BY <1>1, <1>4, <1>5 DEF NotStuck, loginStatus, HasRest
<1>8. Sound(b, gone) /\ Follows(b) /\ SameRest(d, b) /\ (NotStuck(d) => NotStuck(b))
  BY <1>2, <1>6, BackendHears
<1> HIDE DEF b
<1>9. Told(b)
  BY <1>4, <1>5, <1>8 DEF Told, Sound, RestSound, SameRest, HasRest, loginStatus
<1>10. Kept(a, b)
  BY <1>1, <1>4, <1>8 DEF Kept, SameRest, Failing, HasRest
<1>11. a.rest.status # "LoggedOutAndCleanedUp" => b.rest = a.rest
  BY <1>1, <1>4, <1>8 DEF SameRest
<1> QED BY <1>7, <1>8, <1>9, <1>10, <1>11 DEF Good, b

-----------------------------------------------------------------------------
(***************************************************************************)
(* Calls of the connection.                                                *)
(***************************************************************************)
LEMMA HasLeast ==
  ASSUME NEW T, T \subseteq Nat, T # {}
  PROVE  \E i \in T : \A j \in T : i <= j
<1> DEFINE R == {p \in Nat \X Nat : p[1] < p[2]}
<1>1. IsWellFoundedOn(R, Nat)
  BY NatLessThanWellFounded, Zenon DEF OpToRel
<1>2. PICK i \in T : \A j \in T : <<j, i>> \notin R
  <2> HIDE DEF R
  <2> QED BY <1>1, WFMin, Zenon
<1>3. ASSUME NEW j \in T PROVE i <= j
  <2>1. <<j, i>> \notin R /\ i \in Nat /\ j \in Nat
    BY <1>2
  <2> QED BY <2>1
<1> QED BY <1>2, <1>3

\* One of the first ids is free, as there are more of them than calls.
LEMMA JobIsNew ==
  ASSUME NEW calls \in SUBSET Job, IsFiniteSet(calls), NEW method \in RestMethod,
         NEW payload \in Payload
  PROVE  LET job == NewJob(calls, method, payload) IN
         job \in Job /\ job.method = method /\ job.payload = payload
<1> DEFINE ids == 1..(Cardinality(calls) + 1)
           free == {i \in ids : \A c \in calls : c.id # i}
<1>1. Cardinality(calls) \in Nat
  BY FS_CardinalityType
<1>2. free # {}
  <2> SUFFICES ASSUME free = {} PROVE FALSE
    OBVIOUS
  <2> DEFINE f == [i \in ids |-> CHOOSE c \in calls : c.id = i]
  <2>1. \A i \in ids : f[i] \in calls /\ f[i].id = i
    OBVIOUS
  <2>2. IsFiniteSet(ids) /\ Cardinality(ids) = Cardinality(calls) + 1
    BY <1>1, FS_Interval
  <2>3. f \in [ids -> calls] /\ Cardinality(calls) < Cardinality(ids)
    BY <1>1, <2>1, <2>2
  <2> HIDE DEF f, ids
  <2>4. \E i, j \in ids : i # j /\ f[i] = f[j]
    BY <2>2, <2>3, FS_PigeonHole
  <2> QED BY <2>1, <2>4
<1>3. free \subseteq Nat
  BY <1>1
<1>4. (CHOOSE i \in free : \A j \in free : i <= j) \in Nat
  <2> HIDE DEF free
  <2>1. \E i \in free : \A j \in free : i <= j
    BY <1>2, <1>3, HasLeast
  <2> QED BY <1>3, <2>1
<1> QED BY <1>4 DEF NewJob, Job

\* A status other than the one there is, set next to other changes of the connection.
LEMMA StatusSet ==
  ASSUME NEW a \in Account, HasRest(a), NEW status \in LoginStatus, a.rest.status # status,
         NEW gone \in BOOLEAN,
         IF status = "LoggedOutAndCleanedUp" THEN gone
         ELSE Sound([a EXCEPT !.rest.status = status], gone)
  PROVE  LET b == SetRestStatus(a, status) IN
         /\ Good(b, gone) /\ Kept(a, b)
         /\ status # "LoggedOutAndCleanedUp" => HasRest(b) /\ b.rest = [a.rest EXCEPT !.status = status]
         /\ NotStuck([a EXCEPT !.rest.status = status]) => NotStuck(b)
<1> DEFINE r == [a.rest EXCEPT !.status = status]
           c == [a EXCEPT !.rest = r]
           b == SetRestStatus(a, status)
<1>1. a.rest \in Rest /\ r \in Rest /\ r.status = status /\ r.failing = a.rest.failing
  <2>1. a.rest \in Rest
    BY ClientTypes
  <2> QED BY <2>1 DEF Rest
<1>2. c = [a EXCEPT !.rest.status = status]
  OBVIOUS
<1>3. b = RestStatusChanged(c)
  BY <1>2 DEF SetRestStatus
<1>4. /\ c \in Account /\ c.rest = r
      /\ c.otp = a.otp /\ c.password = a.password /\ c.version = a.version /\ c.timers = a.timers
  BY <1>1, PutRest
<1> HIDE DEF c, r
<1>5. HasRest(c) /\ Kept(a, c)
  BY <1>1, <1>4, Clients DEF HasRest, Kept, Failing
<1>6. /\ Good(b, gone) /\ Kept(c, b)
      /\ status # "LoggedOutAndCleanedUp" => b.rest = r
      /\ NotStuck(c) => NotStuck(b)
  BY <1>1, <1>2, <1>3, <1>4, <1>5, StatusHeard
<1> HIDE DEF b
<1>7. Kept(a, b)
  BY <1>5, <1>6, KeptSteps
<1>8. status # "LoggedOutAndCleanedUp" => HasRest(b)
  BY <1>1, <1>6, Clients DEF HasRest
<1> QED BY <1>2, <1>6, <1>7, <1>8 DEF b, r

LEMMA Called ==
  ASSUME NEW a \in Account, HasRest(a), IsFiniteSet(a.rest.calls),
         NEW method \in {"Login", "SendOtp", "LogoutCleanUp"}, NEW payload \in Payload,
         a.rest.status # StatusAfterCall(method), NEW gone \in BOOLEAN,
         \A q \in Account, job \in Job :
           /\ q.otp = a.otp /\ q.shown = a.shown /\ q.ddp = a.ddp
           /\ HasRest(q) /\ q.rest.status = StatusAfterCall(method)
           /\ job.method = method /\ q.rest.calls = a.rest.calls \cup {job}
           => Sound(q, gone)
  PROVE  LET b == CallLogin(a, method, payload) IN
         /\ Good(b, gone) /\ Kept(a, b)
         /\ HasRest(b) /\ b.rest.status = StatusAfterCall(method)
<1> DEFINE job == NewJob(a.rest.calls, method, payload)
           status == StatusAfterCall(method)
           r == [a.rest EXCEPT !.calls = @ \cup {job}]
           c == [a EXCEPT !.rest = r]
           p == [r EXCEPT !.status = status]
           q == [c EXCEPT !.rest = p]
           b == CallLogin(a, method, payload)
<1>1. a.rest \in Rest
  BY ClientTypes
<1>2. job \in Job /\ job.method = method
  <2>1. a.rest.calls \in SUBSET Job /\ method \in RestMethod
    BY <1>1 DEF Rest, RestMethod
  <2> QED BY <2>1, JobIsNew
<1>3. status \in LoginStatus \ {"LoggedOutAndCleanedUp"}
  BY DEF StatusAfterCall, LoginStatus
<1>4. b = SetRestStatus(c, status)
  BY DEF CallLogin
<1> HIDE DEF job, status
<1>5. /\ r \in Rest /\ r.status = a.rest.status /\ r.failing = a.rest.failing
      /\ r.calls = a.rest.calls \cup {job}
  BY <1>1, <1>2 DEF Rest
<1>6. p \in Rest /\ p.status = status /\ p.calls = r.calls
  BY <1>3, <1>5 DEF Rest
<1>7. /\ c \in Account /\ c.rest = r /\ c.ddp = a.ddp /\ c.shown = a.shown
      /\ c.otp = a.otp /\ c.password = a.password /\ c.version = a.version /\ c.timers = a.timers
  <2> HIDE DEF r
  <2> QED BY <1>5, PutRest
<1> HIDE DEF c
<1>8. [c EXCEPT !.rest.status = status] = q
  BY <1>7
<1>9. q \in Account /\ q.rest = p /\ q.ddp = c.ddp /\ q.shown = c.shown /\ q.otp = c.otp
  <2> HIDE DEF p
  <2> QED BY <1>6, <1>7, PutRest
<1> HIDE DEF r, p, q
<1>10. HasRest(c) /\ HasRest(q) /\ Kept(a, c)
  BY <1>5, <1>6, <1>7, <1>9, Clients DEF HasRest, Kept, Failing
<1>11. Sound(q, gone)
  BY <1>2, <1>5, <1>6, <1>7, <1>9, <1>10 DEF status
<1>12. c.rest.status # status
  BY <1>5, <1>7 DEF status
<1>13. /\ Good(b, gone) /\ Kept(c, b)
       /\ HasRest(b) /\ b.rest = [c.rest EXCEPT !.status = status]
  BY <1>3, <1>4, <1>7, <1>8, <1>10, <1>11, <1>12, StatusSet
<1>14. b.rest = p
  BY <1>7, <1>13 DEF p
<1> QED BY <1>6, <1>10, <1>13, <1>14, KeptSteps DEF b, status

-----------------------------------------------------------------------------
(***************************************************************************)
(* Logging in.                                                             *)
(***************************************************************************)
\* Changing what a connection logs in with.
LEMMA Touched ==
  ASSUME NEW a, NEW gone \in BOOLEAN, Good(a, gone), HasRest(a), NEW r \in Rest,
         r.calls = a.rest.calls, r.failing = a.rest.failing, r.token = TRUE \/ r.token = a.rest.token,
         \/ r.status = a.rest.status
         \/ a.rest.status = "GenericError" /\ r.status = "LoggedOut"
  PROVE  LET b == [a EXCEPT !.rest = r] IN
         /\ Good(b, gone) /\ Kept(a, b)
         /\ HasRest(b) /\ b.rest = r
         /\ NotStuck(a) => NotStuck(b)
<1> DEFINE b == [a EXCEPT !.rest = r]
<1>0. a \in Account
  BY DEF Good, Sound
<1>1. /\ b \in Account /\ b.rest = r /\ b.ddp = a.ddp /\ b.shown = a.shown
      /\ b.otp = a.otp /\ b.password = a.password /\ b.version = a.version /\ b.timers = a.timers
  BY <1>0, PutRest
<1> HIDE DEF b
<1>2. HasRest(b) /\ Kept(a, b) /\ loginStatus(b) = r.status /\ loginStatus(a) = a.rest.status
  BY <1>1, Clients DEF HasRest, Kept, Failing, loginStatus
<1>3. RestSound(b, gone)
  BY <1>1, <1>2 DEF Good, Sound, RestSound
<1>4. NeverLeads(b, gone) /\ Follows(b) /\ (NotStuck(a) => NotStuck(b))
  BY <1>1, <1>2 DEF Good, Sound, NeverLeads, Follows, NotStuck, HasDdp
<1>5. Told(b)
  BY <1>1, <1>2 DEF Good, Told
<1> QED BY <1>1, <1>2, <1>3, <1>4, <1>5 DEF Good, Sound, b

LEMMA CalledLogin ==
  ASSUME NEW a, NEW gone \in BOOLEAN, Good(a, gone), HasRest(a),
         NEW method \in {"Login", "SendOtp"}, NEW payload \in Payload,
         method = "Login" => AcceptsLogin(a.rest.status),
         method = "SendOtp" => AcceptsOtp(a.rest.status) /\ a.otp
  PROVE  LET b == CallLogin(a, method, payload) IN
         /\ Good(b, gone) /\ Kept(a, b)
         /\ HasRest(b) /\ b.rest.status \in {"LoginOngoing", "LoginOtpAuthOngoing"}
<1>1. a \in Account /\ IsFiniteSet(a.rest.calls)
  BY DEF Good, Sound, RestSound
<1>2. a.rest.status # StatusAfterCall(method) /\ StatusAfterCall(method) \in {"LoginOngoing", "LoginOtpAuthOngoing"}
  BY DEF AcceptsLogin, AcceptsOtp, StatusAfterCall
<1>3. ASSUME NEW q \in Account, NEW job \in Job,
             q.otp = a.otp, q.shown = a.shown, q.ddp = a.ddp,
             HasRest(q), q.rest.status = StatusAfterCall(method),
             job.method = method, q.rest.calls = a.rest.calls \cup {job}
      PROVE  Sound(q, gone)
  <2>1. IsFiniteSet(q.rest.calls)
    BY <1>1, <1>3, FS_AddElement
  <2>2. ~gone => \A c \in q.rest.calls : c.method # "LogoutCleanUp"
    BY <1>3 DEF Good, Sound, RestSound
  <2>3. ASSUME ~q.otp
        PROVE  \A c, d \in q.rest.calls :
                 /\ c.method # "SendOtp"
                 /\ c.method = "Login" => q.rest.status = "LoginOngoing"
                 /\ c.method = "Login" /\ d.method = "Login" => c = d
    <3>1. ~a.otp /\ method = "Login" /\ q.rest.status = "LoginOngoing" /\ a.rest.status # "LoginOngoing"
      BY <1>3, <2>3 DEF AcceptsLogin, StatusAfterCall
    <3>2. \A c \in a.rest.calls : c.method # "SendOtp" /\ c.method # "Login"
      BY <3>1 DEF Good, Sound, RestSound
    <3> QED BY <1>3, <3>1, <3>2
  <2>4. RestSound(q, gone)
    BY <1>2, <1>3, <2>1, <2>2, <2>3 DEF RestSound
  <2>5. NeverLeads(q, gone)
    <3>1. ~a.otp => a.rest.status # "LoggedIn"
      BY DEF AcceptsLogin
    <3> QED BY <1>3, <3>1 DEF Good, Sound, NeverLeads, loginStatus, HasDdp
  <2> QED BY <2>4, <2>5 DEF Sound
<1>4. method \in {"Login", "SendOtp", "LogoutCleanUp"}
  OBVIOUS
<1> QED BY <1>1, <1>2, <1>3, <1>4, Called

\* What a login leads to.
LoggingIn(a, gone, login) ==
  /\ login.ok \in BOOLEAN
  /\ Good(login.account, gone) /\ Kept(a, login.account)
  /\ HasRest(login.account)
  /\ IF login.ok
     THEN login.account.rest.status \in {"LoginOngoing", "LoginOtpAuthOngoing"}
     ELSE NotStuck(a) => NotStuck(login.account)

LEMMA Resumes ==
  ASSUME NEW a, NEW gone \in BOOLEAN, Good(a, gone), HasRest(a)
  PROVE  LoggingIn(a, gone, LoginResume(a))
<1> DEFINE r == [a.rest EXCEPT !.token = TRUE]
           b == [a EXCEPT !.rest.token = TRUE]
           p == [r EXCEPT !.payload = "resume"]
           c == [b EXCEPT !.rest.payload = "resume"]
           d == CallLogin(c, "Login", "resume")
<1>1. a.rest \in Rest
  BY ClientTypes DEF Good, Sound
<1>2. /\ r \in Rest /\ r.calls = a.rest.calls /\ r.failing = a.rest.failing
      /\ r.token = TRUE /\ r.status = a.rest.status
  BY <1>1 DEF Rest
<1>3. /\ p \in Rest /\ p.calls = r.calls /\ p.failing = r.failing /\ p.token = r.token
      /\ p.status = r.status
  BY <1>2 DEF Rest, Payload
<1>4. LoginResume(a) = IF AcceptsLogin(b.rest.status) THEN Sent(d) ELSE Refused(b)
  BY DEF LoginResume
<1>5. b = [a EXCEPT !.rest = r]
  OBVIOUS
<1> HIDE DEF r, b
<1>6. Good(b, gone) /\ Kept(a, b) /\ HasRest(b) /\ b.rest = r /\ (NotStuck(a) => NotStuck(b))
  BY <1>2, <1>5, Touched
<1>7. c = [b EXCEPT !.rest = p]
  BY <1>6
<1> HIDE DEF p, c
<1>8. Good(c, gone) /\ Kept(b, c) /\ HasRest(c) /\ c.rest = p
  BY <1>3, <1>6, <1>7, Touched
<1>9. CASE AcceptsLogin(r.status)
  <2>1. Good(d, gone) /\ Kept(c, d) /\ HasRest(d) /\ d.rest.status \in {"LoginOngoing", "LoginOtpAuthOngoing"}
    BY <1>3, <1>8, <1>9, CalledLogin DEF Payload
  <2> HIDE DEF d
  <2>2. Kept(a, d)
    BY <1>6, <1>8, <2>1, KeptSteps
  <2> QED BY <1>4, <1>6, <1>9, <2>1, <2>2 DEF LoggingIn, Sent
<1>10. CASE ~AcceptsLogin(r.status)
  BY <1>4, <1>6, <1>10 DEF LoggingIn, Refused
<1> QED BY <1>9, <1>10

LEMMA SendsOtp ==
  ASSUME NEW a, NEW gone \in BOOLEAN, Good(a, gone), HasRest(a), a.otp
  PROVE  LoggingIn(a, gone, SendOtp(a))
<1> DEFINE d == CallLogin(a, "SendOtp", a.rest.payload)
<1>1. CASE AcceptsOtp(a.rest.status)
  <2>1. a.rest.payload \in Payload
    <3>1. a.rest \in Rest
      BY ClientTypes DEF Good, Sound
    <3> QED BY <3>1 DEF Rest
  <2>2. Good(d, gone) /\ Kept(a, d) /\ HasRest(d) /\ d.rest.status \in {"LoginOngoing", "LoginOtpAuthOngoing"}
    BY <1>1, <2>1, CalledLogin
  <2> HIDE DEF d
  <2>3. SendOtp(a) = Sent(d)
    BY <1>1 DEF SendOtp, d
  <2> QED BY <2>2, <2>3 DEF LoggingIn, Sent
<1>2. CASE ~AcceptsOtp(a.rest.status)
  BY <1>2 DEF SendOtp, Refused, LoggingIn, Kept
<1> QED BY <1>1, <1>2

LEMMA LogsInByPassword ==
  ASSUME NEW a, NEW gone \in BOOLEAN, Good(a, gone), HasRest(a)
  PROVE  LoggingIn(a, gone, LoginPassword(a))
<1> DEFINE r == [a.rest EXCEPT !.status = ResetGenericError(@)]
           b == [a EXCEPT !.rest.status = ResetGenericError(@)]
           p == [r EXCEPT !.payload = "password"]
           c == [b EXCEPT !.rest.payload = "password"]
           d == CallLogin(c, "Login", "password")
<1>1. a.rest \in Rest
  BY ClientTypes DEF Good, Sound
<1>2. /\ r \in Rest /\ r.calls = a.rest.calls /\ r.failing = a.rest.failing
      /\ r.token = a.rest.token
      /\ \/ r.status = a.rest.status
         \/ a.rest.status = "GenericError" /\ r.status = "LoggedOut"
  BY <1>1 DEF Rest, ResetGenericError, LoginStatus
<1>3. /\ p \in Rest /\ p.calls = r.calls /\ p.failing = r.failing /\ p.token = r.token
      /\ p.status = r.status
  BY <1>2 DEF Rest, Payload
<1>4. LoginPassword(a) = IF AcceptsLogin(b.rest.status) THEN Sent(d) ELSE Refused(b)
  BY DEF LoginPassword
<1>5. b = [a EXCEPT !.rest = r]
  OBVIOUS
<1> HIDE DEF r, b
<1>6. Good(b, gone) /\ Kept(a, b) /\ HasRest(b) /\ b.rest = r /\ (NotStuck(a) => NotStuck(b))
  BY <1>2, <1>5, Touched
<1>7. c = [b EXCEPT !.rest = p]
  BY <1>6
<1> HIDE DEF p, c
<1>8. Good(c, gone) /\ Kept(b, c) /\ HasRest(c) /\ c.rest = p
  BY <1>3, <1>6, <1>7, Touched
<1>9. CASE AcceptsLogin(r.status)
  <2>1. Good(d, gone) /\ Kept(c, d) /\ HasRest(d) /\ d.rest.status \in {"LoginOngoing", "LoginOtpAuthOngoing"}
    BY <1>3, <1>8, <1>9, CalledLogin DEF Payload
  <2> HIDE DEF d
  <2>2. Kept(a, d)
    BY <1>6, <1>8, <2>1, KeptSteps
  <2> QED BY <1>4, <1>6, <1>9, <2>1, <2>2 DEF LoggingIn, Sent
<1>10. CASE ~AcceptsLogin(r.status)
  BY <1>4, <1>6, <1>10 DEF LoggingIn, Refused
<1> QED BY <1>9, <1>10

\* Changing neither client. A code may be typed.
LEMMA Elsewhere ==
  ASSUME NEW a, NEW b \in Account, NEW gone \in BOOLEAN, Good(a, gone),
         b.rest = a.rest, b.ddp = a.ddp, b.shown = a.shown, a.otp => b.otp
  PROVE  /\ Good(b, gone)
         /\ HasRest(b) <=> HasRest(a)
         /\ HasDdp(b) <=> HasDdp(a)
         /\ loginStatus(b) = loginStatus(a)
         /\ Failing(b) <=> Failing(a)
         /\ NotStuck(a) => NotStuck(b)
<1>1. /\ HasRest(b) <=> HasRest(a)
      /\ HasDdp(b) <=> HasDdp(a)
      /\ loginStatus(b) = loginStatus(a)
  BY DEF HasRest, HasDdp, loginStatus
<1>2. RestSound(b, gone)
  BY <1>1 DEF Good, Sound, RestSound
<1>3. NeverLeads(b, gone)
  BY <1>1 DEF Good, Sound, NeverLeads
<1>4. Follows(b)
  BY <1>1 DEF Good, Follows
<1>5. Told(b)
  BY <1>1 DEF Good, Told
<1>6. NotStuck(a) => NotStuck(b)
  BY <1>1 DEF NotStuck
<1>7. Failing(b) <=> Failing(a)
  BY <1>1 DEF Failing
<1> QED BY <1>1, <1>2, <1>3, <1>4, <1>5, <1>6, <1>7 DEF Good, Sound

LEMMA NoRoom ==
  ASSUME NEW a \in Account
  PROVE  LET b == [a EXCEPT !.room = "absent"] IN
         /\ b \in Account /\ b.rest = a.rest /\ b.ddp = a.ddp /\ b.shown = a.shown
         /\ b.otp = a.otp /\ b.password = a.password /\ b.version = a.version /\ b.timers = a.timers
BY DEF Account

LEMMA InterfaceLogsIn ==
  ASSUME NEW a, NEW gone \in BOOLEAN, Good(a, gone)
  PROVE  LET login == InterfaceLogin(a) IN
         /\ LoggingIn(a, gone, login) \/ login = Refused(a)
         /\ a.password => HasRest(login.account)
<1> DEFINE r == RestApi(a)
           login == InterfaceLogin(a)
<1>1. /\ Good(r, gone) /\ HasRest(r) /\ Kept(a, r)
      /\ NotStuck(a) => NotStuck(r)
  BY NewRest
<1>2. a.otp \in BOOLEAN /\ a.password \in BOOLEAN /\ r.otp = a.otp
  BY <1>1 DEF Good, Sound, Account, Kept
<1>3. \/ login = LoginResume(r)
      \/ a.otp /\ login = SendOtp(r)
      \/ login = LoginPassword(r)
      \/ ~a.password /\ login = Refused(a)
  BY <1>2 DEF InterfaceLogin
<1> HIDE DEF r, login
<1>4. ASSUME LoggingIn(r, gone, login) PROVE LoggingIn(a, gone, login) /\ HasRest(login.account)
  <2>1. Kept(a, login.account)
    BY <1>1, <1>4, KeptSteps DEF LoggingIn
  <2> QED BY <1>1, <1>4, <2>1 DEF LoggingIn
<1>5. \/ LoggingIn(r, gone, login)
      \/ ~a.password /\ login = Refused(a)
  BY <1>1, <1>2, <1>3, Resumes, SendsOtp, LogsInByPassword
<1> QED BY <1>4, <1>5 DEF login

\* A websocket that waits for its logout is replaced.
LEMMA Replaces ==
  ASSUME NEW a, NEW gone \in BOOLEAN, Good(a, gone)
  PROVE  LET b == ReplaceStuckDdp(a) IN
         Good(b, gone) /\ Kept(a, b) /\ b.rest = a.rest /\ NotStuck(b)
<1> DEFINE b == [a EXCEPT !.ddp = NewDdp]
<1>0. a \in Account
  BY DEF Good, Sound
<1>1. CASE a.ddp.status # "LogoutOngoing"
  BY <1>1 DEF ReplaceStuckDdp, NotStuck, Kept
<1>2. CASE a.ddp.status = "LogoutOngoing"
  <2>1. OnlyDdp(a, b) /\ b.ddp = NewDdp /\ ReplaceStuckDdp(a) = b
    BY <1>0, <1>2, PutDdp, Clients DEF ReplaceStuckDdp
  <2> HIDE DEF b
  <2>2. HasDdp(b) /\ Passive(b.ddp) /\ b.ddp.socket = "none" /\ b.ddp.status = "LoggedOut"
    BY <2>1, Clients DEF HasDdp, NewDdp, Passive
  <2>3. NeverLeads(b, gone) /\ Follows(b) /\ NotStuck(b)
    BY <2>2 DEF NeverLeads, Follows, NotStuck
  <2> QED BY <1>0, <2>1, <2>3, OnlyDdpKeeps DEF Good, Sound, OnlyDdp
<1> QED BY <1>1, <1>2

LEMMA TriesLogin ==
  ASSUME NEW a, NEW gone \in BOOLEAN, Good(a, gone)
  PROVE  LET b == TryLogin(a) IN
         /\ Good(b, gone) /\ Kept(a, b)
         /\ a.password => HasRest(b)
         /\ NotStuck(a) => NotStuck(b)
<1> DEFINE c == Ddp(a)
           login == InterfaceLogin(c)
           d == ReplaceStuckDdp(login.account)
           e == [d EXCEPT !.room = "absent"]
           b == TryLogin(a)
<1>1. Good(c, gone) /\ Kept(a, c) /\ (NotStuck(a) => NotStuck(c))
  BY MakesDdp
<1>2. b = IF login.ok THEN e ELSE login.account
  BY DEF TryLogin
<1> HIDE DEF c
<1>3. /\ LoggingIn(c, gone, login) \/ login = Refused(c)
      /\ c.password => HasRest(login.account)
  BY <1>1, InterfaceLogsIn
<1> HIDE DEF login
<1>4. CASE LoggingIn(c, gone, login) /\ login.ok
  <2>1. Good(login.account, gone) /\ Kept(c, login.account)
    BY <1>4 DEF LoggingIn
  <2>2. Good(d, gone) /\ Kept(login.account, d) /\ d.rest = login.account.rest /\ NotStuck(d)
    BY <2>1, Replaces
  <2> HIDE DEF d
  <2>3. /\ e \in Account /\ e.rest = d.rest /\ e.ddp = d.ddp /\ e.shown = d.shown
        /\ e.otp = d.otp /\ e.password = d.password /\ e.version = d.version /\ e.timers = d.timers
    BY <2>2, NoRoom DEF Good, Sound
  <2> HIDE DEF e
  <2>4. Good(e, gone) /\ NotStuck(e) /\ Kept(d, e)
    <3>1. Good(e, gone) /\ (NotStuck(d) => NotStuck(e)) /\ (Failing(e) <=> Failing(d))
      BY <2>2, <2>3, Elsewhere
    <3> QED BY <2>2, <2>3, <3>1 DEF Kept
  <2>5. Kept(a, e)
    BY <1>1, <2>1, <2>2, <2>4, KeptSteps
  <2>6. c.password => HasRest(e)
    BY <1>3, <2>2, <2>3 DEF HasRest
  <2> QED BY <1>1, <1>2, <1>4, <2>4, <2>5, <2>6 DEF Kept
<1>5. CASE LoggingIn(c, gone, login) /\ ~login.ok
  <2>1. Good(login.account, gone) /\ Kept(c, login.account) /\ (NotStuck(c) => NotStuck(login.account))
    BY <1>5 DEF LoggingIn
  <2>2. Kept(a, login.account)
    BY <1>1, <2>1, KeptSteps
  <2> QED BY <1>1, <1>2, <1>3, <1>5, <2>1, <2>2 DEF Kept
<1>6. CASE login = Refused(c)
  <2>1. ~login.ok /\ login.account = c
    BY <1>6 DEF Refused
  <2> QED BY <1>1, <1>2, <1>3, <2>1 DEF Kept
<1> QED BY <1>3, <1>4, <1>5, <1>6

LEMMA TriesAutoLogin ==
  ASSUME NEW a, NEW gone \in BOOLEAN, Good(a, gone)
  PROVE  LET b == TryAutoLogin(a) IN
         /\ Good(b, gone) /\ Kept(a, b)
         /\ (a.version /\ a.password) \/ HasRest(a) => HasRest(b) \/ ~a.password
         /\ NotStuck(a) => NotStuck(b)
<1>1. CASE a.version /\ a.password
  BY <1>1, TriesLogin DEF TryAutoLogin
<1>2. CASE ~(a.version /\ a.password)
  BY <1>2 DEF TryAutoLogin, Kept
<1> QED BY <1>1, <1>2

LEMMA Disconnects ==
  ASSUME NEW a \in Account, NEW gone \in BOOLEAN
  PROVE  LET b == ForceDisconnect(a) IN
         Good(b, gone) /\ Kept(a, b) /\ NotStuck(b) /\ ~HasRest(b)
<1> DEFINE b == ForceDisconnect(a)
<1>1. /\ b \in Account /\ b.rest = NoClient /\ b.ddp = NoClient
      /\ b.otp = a.otp /\ b.password = a.password /\ b.version = a.version /\ b.timers = a.timers
  BY DEF Account, ForceDisconnect
<1> HIDE DEF b
<1>2. ~HasRest(b) /\ ~HasDdp(b) /\ loginStatus(b) = "LoggedOut"
  BY <1>1 DEF HasRest, HasDdp, loginStatus
<1>3. Good(b, gone) /\ NotStuck(b) /\ Kept(a, b)
  BY <1>1, <1>2
  DEF Good, Sound, RestSound, NeverLeads, Follows, Told, NotStuck, Kept, Failing
<1> QED BY <1>2, <1>3 DEF b

LEMMA Reconnects ==
  ASSUME NEW a, NEW gone \in BOOLEAN, Good(a, gone)
  PROVE  LET b == ReconnectToServer(a) IN
         /\ Good(b, gone) /\ Kept(a, b)
         /\ a.password => HasRest(b)
         /\ NotStuck(a) => NotStuck(b)
<1> DEFINE c == [a EXCEPT !.token = "none"]
           d == Ddp(c)
           b == ReconnectToServer(a)
<1>1. /\ c \in Account /\ c.rest = a.rest /\ c.ddp = a.ddp /\ c.shown = a.shown
      /\ c.otp = a.otp /\ c.password = a.password /\ c.version = a.version /\ c.timers = a.timers
  BY DEF Good, Sound, Account
<1>2. b = TryLogin(d)
  BY DEF ReconnectToServer
<1> HIDE DEF c
<1>3. Good(c, gone) /\ Kept(a, c) /\ (NotStuck(a) => NotStuck(c))
  <2>1. Good(c, gone) /\ (NotStuck(a) => NotStuck(c)) /\ (Failing(c) <=> Failing(a))
    BY <1>1, Elsewhere
  <2> QED BY <1>1, <2>1 DEF Kept
<1>4. Good(d, gone) /\ Kept(c, d) /\ (NotStuck(c) => NotStuck(d))
  BY <1>3, MakesDdp
<1> HIDE DEF d
<1>5. Good(b, gone) /\ Kept(d, b) /\ (d.password => HasRest(b)) /\ (NotStuck(d) => NotStuck(b))
  BY <1>2, <1>4, TriesLogin
<1> HIDE DEF b
<1>6. Kept(a, b)
  BY <1>3, <1>4, <1>5, KeptSteps
<1> QED BY <1>3, <1>4, <1>5, <1>6 DEF Kept, b

-----------------------------------------------------------------------------
(***************************************************************************)
(* Logging out.                                                            *)
(***************************************************************************)
LEMMA CalledLogout ==
  ASSUME NEW a, NEW gone \in BOOLEAN, Good(a, gone), HasRest(a), a.shown = "LoggedIn",
         AcceptsLogout(a.rest.status)
  PROVE  LET b == CallLogin(a, "LogoutCleanUp", "none") IN
         Good(b, TRUE) /\ Kept(a, b) /\ HasRest(b) /\ b.rest.status = "LogoutOngoing"
<1>1. a \in Account /\ IsFiniteSet(a.rest.calls)
  BY DEF Good, Sound, RestSound
<1>2. StatusAfterCall("LogoutCleanUp") = "LogoutOngoing" /\ a.rest.status # "LogoutOngoing"
  BY DEF StatusAfterCall, AcceptsLogout
<1>3. ASSUME NEW q \in Account, NEW job \in Job,
             q.otp = a.otp, q.shown = a.shown, q.ddp = a.ddp,
             HasRest(q), q.rest.status = "LogoutOngoing",
             job.method = "LogoutCleanUp", q.rest.calls = a.rest.calls \cup {job}
      PROVE  Sound(q, TRUE)
  <2>1. IsFiniteSet(q.rest.calls)
    BY <1>1, <1>3, FS_AddElement
  <2>2. ~q.otp => \A c \in q.rest.calls : c.method # "SendOtp" /\ c.method # "Login"
    BY <1>3 DEF Good, Sound, RestSound, Told
  <2>3. RestSound(q, TRUE)
    BY <1>3, <2>1, <2>2 DEF RestSound
  <2> QED BY <2>3 DEF Sound, NeverLeads
<1>4. /\ "LogoutCleanUp" \in {"Login", "SendOtp", "LogoutCleanUp"}
      /\ "none" \in Payload
      /\ TRUE \in BOOLEAN
  BY DEF Payload
<1> QED BY <1>1, <1>2, <1>3, <1>4, Called

\* What is true of an account is true when its user has left it.
LEMMA Leaving ==
  ASSUME NEW a, NEW gone \in BOOLEAN, Good(a, gone)
  PROVE  Good(a, TRUE)
BY DEF Good, Sound, RestSound, NeverLeads

\* A step of the websocket alone.
LEMMA DdpStep ==
  ASSUME NEW a, NEW b, NEW gone \in BOOLEAN, Good(a, gone), OnlyDdp(a, b),
         NeverLeads(b, gone), Follows(b)
  PROVE  /\ Good(b, gone) /\ Kept(a, b)
         /\ HasRest(b) <=> HasRest(a)
         /\ loginStatus(b) = loginStatus(a)
<1>1. a \in Account /\ b \in Account /\ RestSound(a, gone) /\ Told(a)
  BY DEF Good, Sound, OnlyDdp
<1>2. /\ Kept(a, b)
      /\ HasRest(b) <=> HasRest(a)
      /\ loginStatus(b) = loginStatus(a)
      /\ RestSound(b, gone) /\ Told(b)
  BY <1>1, OnlyDdpKeeps
<1> QED BY <1>1, <1>2 DEF Good, Sound

LEMMA LogsOut ==
  ASSUME NEW a, NEW gone \in BOOLEAN, Good(a, gone), a.shown = "LoggedIn"
  PROVE  LET b == LogOut(a) IN Good(b, TRUE) /\ Kept(a, b) /\ NotStuck(b)
<1> DEFINE d == [a EXCEPT !.token = "none", !.room = "absent"]
           c == IF ~HasRest(d) THEN d
                ELSE IF AcceptsLogout(d.rest.status) THEN CallLogin(d, "LogoutCleanUp", "none")
                ELSE [d EXCEPT !.rest = NoClient]
           e == SetDdpStatus(SendDdp(c, "LogoutCleanUp"), "LogoutOngoing")
           f == [c EXCEPT !.ddp = NoClient]
           b == LogOut(a)
<1>1. /\ d \in Account /\ d.rest = a.rest /\ d.ddp = a.ddp /\ d.shown = a.shown
      /\ d.otp = a.otp /\ d.password = a.password /\ d.version = a.version /\ d.timers = a.timers
  BY DEF Good, Sound, Account
<1>2. b = IF ~HasDdp(c) THEN c ELSE IF AcceptsLogout(c.ddp.status) THEN e ELSE f
  BY DEF LogOut
<1> HIDE DEF d
<1>3. Good(d, gone) /\ Kept(a, d) /\ Good(d, TRUE)
  <2>1. Good(d, gone) /\ (Failing(d) <=> Failing(a))
    BY <1>1, Elsewhere
  <2> QED BY <1>1, <2>1, Leaving DEF Kept
<1>4. Good(c, TRUE) /\ Kept(d, c) /\ loginStatus(c) \in {"LoggedOut", "LogoutOngoing"}
  <2>1. CASE ~HasRest(d)
    BY <1>3, <2>1 DEF Kept, loginStatus
  <2>2. CASE HasRest(d) /\ AcceptsLogout(d.rest.status)
    <3>1. c = CallLogin(d, "LogoutCleanUp", "none")
      BY <2>2
    <3> HIDE DEF c
    <3> QED BY <1>1, <1>3, <2>2, <3>1, CalledLogout DEF loginStatus
  <2>3. CASE HasRest(d) /\ ~AcceptsLogout(d.rest.status)
    <3>1. c = [d EXCEPT !.rest = NoClient] /\ NoClient \in {NoClient} \cup Rest
      BY <2>3
    <3> HIDE DEF c
    <3>2. /\ c \in Account /\ c.rest = NoClient
          /\ c.otp = d.otp /\ c.password = d.password /\ c.version = d.version /\ c.timers = d.timers
      BY <1>1, <3>1, PutRest
    <3>3. ~HasRest(c) /\ loginStatus(c) = "LoggedOut"
      BY <3>2 DEF HasRest, loginStatus
    <3> QED BY <3>2, <3>3 DEF Good, Sound, RestSound, NeverLeads, Follows, Told, Kept, Failing
  <2> QED BY <2>1, <2>2, <2>3
<1> HIDE DEF c
<1>5. c \in Account
  BY <1>4 DEF Good, Sound
<1>6. OnlyDdp(c, b)
  <2>1. CASE HasDdp(c) /\ AcceptsLogout(c.ddp.status)
    <3> DEFINE s == SendDdp(c, "LogoutCleanUp")
    <3>1. OnlyDdp(c, s) /\ HasDdp(s) /\ s \in Account
      BY <1>5, <2>1, Sending DEF DdpMethod, OnlyDdp
    <3> HIDE DEF s
    <3>2. OnlyDdp(s, SetDdpStatus(s, "LogoutOngoing"))
      BY <3>1, DdpStatus DEF LoginStatus
    <3>3. b = SetDdpStatus(s, "LogoutOngoing")
      BY <1>2, <2>1 DEF s
    <3> QED BY <3>1, <3>2, <3>3, OnlyDdpSteps
  <2>2. CASE HasDdp(c) /\ ~AcceptsLogout(c.ddp.status)
    <3>1. b = [c EXCEPT !.ddp = NoClient] /\ NoClient \in {NoClient} \cup Websocket
      BY <1>2, <2>2
    <3> QED BY <1>5, <3>1, PutDdp
  <2>3. CASE ~HasDdp(c)
    BY <1>2, <1>5, <2>3 DEF OnlyDdp
  <2> QED BY <2>1, <2>2, <2>3
<1> HIDE DEF b
<1>7. loginStatus(b) = loginStatus(c)
  BY <1>5, <1>6, OnlyDdpKeeps
<1>8. NeverLeads(b, TRUE) /\ Follows(b) /\ NotStuck(b)
  BY <1>4, <1>7 DEF NeverLeads, Follows, NotStuck
<1>9. Good(b, TRUE) /\ Kept(c, b)
  BY <1>4, <1>6, <1>8, DdpStep
<1>10. Kept(a, b)
  BY <1>3, <1>4, <1>9, KeptSteps
<1> QED BY <1>8, <1>9, <1>10 DEF b

-----------------------------------------------------------------------------
(***************************************************************************)
(* The invariant.  An error that is on its way will start a timer.         *)
(***************************************************************************)
TimersBounded ==
  /\ disruptions \in 0..MaxDisruptions
  /\ account.timers + (IF Failing(account) THEN 1 ELSE 0) <= disruptions

IInv ==
  /\ left \in BOOLEAN
  /\ Good(account, left)
  /\ NotStuck(account)
  /\ NeverAbandoned
  /\ TimersBounded

\* What handlers lead to that keep the connection, once there is a password.
LEMMA Steady ==
  ASSUME IInv, UNCHANGED <<left, disruptions>>,
         Good(account', left), NotStuck(account'), Kept(account, account'),
         ~left /\ account.version /\ account.password /\ HasRest(account) => HasRest(account')
  PROVE  IInv'
<1>1. /\ account'.timers = account.timers /\ account'.version = account.version
      /\ account'.password = account.password
      /\ Failing(account') => Failing(account)
  BY DEF Kept
<1>2. NeverAbandoned'
  BY <1>1 DEF IInv, NeverAbandoned
<1>3. account.timers \in Nat /\ disruptions \in Nat
  BY DEF IInv, Good, Sound, Account, TimersBounded
<1>4. TimersBounded'
  <2>1. Failing(account)' <=> Failing(account')
    BY DEF Failing, HasRest
  <2> QED BY <1>1, <1>3, <2>1 DEF IInv, TimersBounded
<1> QED BY <1>2, <1>4 DEF IInv, Good, Sound, RestSound, NeverLeads, Follows, Told, NotStuck, HasRest, HasDdp, loginStatus

LEMMA InitLemma == Init => IInv
<1> SUFFICES ASSUME Init PROVE IInv
  OBVIOUS
<1>1. /\ account.rest = NoClient /\ account.ddp = NoClient
      /\ account.password = FALSE /\ account.timers = 0
      /\ account \in Account
  <2>1. PICK token \in {"none", "fresh", "expired"} : Init!1!(token)
    BY DEF Init
  <2>2. {"clearModels", "startConnecting"} \in SUBSET {"clearModels", "startConnecting", "loadServerInfo"}
        /\ "LoggedOut" \in LoginStatus
    BY DEF LoginStatus
  <2> QED BY <2>1, <2>2 DEF Account
<1>2. ~HasRest(account) /\ ~HasDdp(account) /\ loginStatus(account) = "LoggedOut"
  BY <1>1 DEF HasRest, HasDdp, loginStatus
<1>3. left = FALSE /\ disruptions = 0
  BY DEF Init
<1>4. Good(account, left) /\ NotStuck(account)
  BY <1>1, <1>2 DEF Good, Sound, RestSound, NeverLeads, Follows, Told, NotStuck
<1>5. NeverAbandoned
  BY <1>1 DEF NeverAbandoned
<1>6. TimersBounded
  BY <1>1, <1>2, <1>3, BoundsAssumption DEF TimersBounded, Failing
<1> QED BY <1>3, <1>4, <1>5, <1>6 DEF IInv

-----------------------------------------------------------------------------
(***************************************************************************)
(* The event loop.                                                         *)
(***************************************************************************)
\* Calls that come or go, but for new logins and logouts.
OnlyCalls(a, r, gone) ==
  LET b == [a EXCEPT !.rest = r] IN
  /\ Good(b, gone)
  /\ HasRest(b) /\ b.rest = r /\ b.ddp = a.ddp /\ b.shown = a.shown
  /\ b.otp = a.otp /\ b.password = a.password /\ b.version = a.version /\ b.timers = a.timers
  /\ NotStuck(a) => NotStuck(b)

LEMMA OtherCalls ==
  ASSUME NEW a, NEW gone \in BOOLEAN, Good(a, gone), HasRest(a), NEW r \in Rest,
         r.status = a.rest.status, r.token \in {TRUE, a.rest.token}, IsFiniteSet(r.calls),
         \A c \in r.calls : c \in a.rest.calls \/ c.method = "ServerInfo"
  PROVE  OnlyCalls(a, r, gone)
<1> DEFINE b == [a EXCEPT !.rest = r]
<1>0. a \in Account
  BY DEF Good, Sound
<1>1. /\ b \in Account /\ b.rest = r /\ b.ddp = a.ddp /\ b.shown = a.shown
      /\ b.otp = a.otp /\ b.password = a.password /\ b.version = a.version /\ b.timers = a.timers
  BY <1>0, PutRest
<1> HIDE DEF b
<1>2. HasRest(b) /\ loginStatus(b) = loginStatus(a)
  BY <1>1, Clients DEF HasRest, loginStatus
<1>3. RestSound(b, gone)
  <2>1. RestSound(a, gone)
    BY DEF Good, Sound
  <2>2. /\ b.rest.status = "LoggedIn" => b.rest.token
        /\ ~gone => \A c \in b.rest.calls : c.method # "LogoutCleanUp"
    BY <1>1, <2>1 DEF RestSound
  <2>3. ~b.otp => \A c, d \in b.rest.calls :
          /\ c.method # "SendOtp"
          /\ c.method = "Login" => b.rest.status = "LoginOngoing"
          /\ c.method = "Login" /\ d.method = "Login" => c = d
    BY <1>1, <2>1 DEF RestSound
  <2> QED BY <1>1, <2>2, <2>3 DEF RestSound
<1>4. NeverLeads(b, gone) /\ Follows(b) /\ (NotStuck(a) => NotStuck(b))
  BY <1>1, <1>2 DEF Good, Sound, NeverLeads, Follows, NotStuck, HasDdp
<1>5. Told(b)
  BY <1>1, <1>2 DEF Good, Told
<1> QED BY <1>1, <1>2, <1>3, <1>4, <1>5 DEF Good, Sound, OnlyCalls, b

\* Changing neither client.
LEMMA Aside ==
  ASSUME NEW a, NEW b \in Account, NEW gone \in BOOLEAN, Good(a, gone),
         b.rest = a.rest, b.ddp = a.ddp, b.shown = a.shown,
         b.otp = a.otp, b.password = a.password, b.version = a.version, b.timers = a.timers
  PROVE  /\ Good(b, gone) /\ Kept(a, b)
         /\ HasRest(b) <=> HasRest(a)
         /\ NotStuck(a) => NotStuck(b)
<1>1. /\ Good(b, gone)
      /\ HasRest(b) <=> HasRest(a)
      /\ Failing(b) <=> Failing(a)
      /\ NotStuck(a) => NotStuck(b)
  BY Elsewhere
<1> QED BY <1>1 DEF Kept

LEMMA StartConnectingStep == IInv /\ StartConnecting => IInv'
<1> SUFFICES ASSUME IInv, StartConnecting PROVE IInv'
  OBVIOUS
<1> DEFINE a == Ddp(account)
<1>1. Good(account, left) /\ NotStuck(account) /\ left \in BOOLEAN
  BY DEF IInv
<1>2. Good(a, left) /\ Kept(account, a) /\ a.rest = account.rest /\ NotStuck(a)
  BY <1>1, MakesDdp
<1>3. account' = [a EXCEPT !.queue = (@ \ {"startConnecting"}) \cup {"loadServerInfo"}]
  BY DEF StartConnecting
<1> HIDE DEF a
<1>4. /\ account' \in Account
      /\ account'.rest = a.rest /\ account'.ddp = a.ddp /\ account'.shown = a.shown
      /\ account'.otp = a.otp /\ account'.password = a.password
      /\ account'.version = a.version /\ account'.timers = a.timers
  BY <1>2, <1>3 DEF Good, Sound, Account
<1>5. Good(account', left) /\ Kept(a, account') /\ NotStuck(account')
  BY <1>1, <1>2, <1>4, Aside
<1>6. Kept(account, account') /\ (HasRest(account) => HasRest(account'))
  BY <1>2, <1>4, <1>5, KeptSteps DEF HasRest
<1> QED BY <1>5, <1>6, Steady DEF StartConnecting

LEMMA ClearModelsStep == IInv /\ ClearModels => IInv'
<1> SUFFICES ASSUME IInv, ClearModels PROVE IInv'
  OBVIOUS
<1> DEFINE a == RestApi(account)
<1>1. Good(account, left) /\ NotStuck(account) /\ left \in BOOLEAN
  BY DEF IInv
<1>2. Good(a, left) /\ Kept(account, a) /\ HasRest(a) /\ NotStuck(a)
  BY <1>1, NewRest
<1>3. account' = [a EXCEPT !.queue = @ \ {"clearModels"}, !.room = "absent"]
  BY DEF ClearModels
<1> HIDE DEF a
<1>4. /\ account' \in Account
      /\ account'.rest = a.rest /\ account'.ddp = a.ddp /\ account'.shown = a.shown
      /\ account'.otp = a.otp /\ account'.password = a.password
      /\ account'.version = a.version /\ account'.timers = a.timers
  BY <1>2, <1>3 DEF Good, Sound, Account
<1>5. Good(account', left) /\ Kept(a, account') /\ NotStuck(account') /\ HasRest(account')
  BY <1>1, <1>2, <1>4, Aside
<1>6. Kept(account, account')
  BY <1>2, <1>5, KeptSteps
<1> QED BY <1>5, <1>6, Steady DEF ClearModels

LEMMA LoadServerInfoStep == IInv /\ LoadServerInfo => IInv'
<1> SUFFICES ASSUME IInv, LoadServerInfo PROVE IInv'
  OBVIOUS
<1> DEFINE a == RestApi(account)
           job == NewJob(a.rest.calls, "ServerInfo", "none")
           r == [a.rest EXCEPT !.calls = @ \cup {job}]
           b == [a EXCEPT !.rest = r]
<1>1. Good(account, left) /\ NotStuck(account) /\ left \in BOOLEAN
  BY DEF IInv
<1>2. Good(a, left) /\ Kept(account, a) /\ HasRest(a) /\ NotStuck(a)
  BY <1>1, NewRest
<1>3. account' = [b EXCEPT !.queue = @ \ {"loadServerInfo"}]
  BY <1>2 DEF LoadServerInfo, Good, Sound, Account
<1> HIDE DEF a
<1>4. a \in Account /\ a.rest \in Rest /\ IsFiniteSet(a.rest.calls)
  BY <1>2, ClientTypes DEF Good, Sound, RestSound
<1>5. job \in Job /\ job.method = "ServerInfo"
  <2>1. /\ a.rest.calls \in SUBSET Job /\ "ServerInfo" \in RestMethod /\ "none" \in Payload
    BY <1>4 DEF Rest, RestMethod, Payload
  <2> QED BY <1>4, <2>1, JobIsNew
<1> HIDE DEF job
<1>6. /\ r \in Rest /\ r.status = a.rest.status /\ r.token = a.rest.token
      /\ r.failing = a.rest.failing /\ r.calls = a.rest.calls \cup {job}
  BY <1>4, <1>5 DEF Rest
<1> HIDE DEF r
<1>7. IsFiniteSet(r.calls)
  BY <1>4, <1>6, FS_AddElement
<1>8. /\ Good(b, left) /\ NotStuck(b) /\ HasRest(b) /\ b.rest = r
      /\ b.otp = a.otp /\ b.password = a.password /\ b.version = a.version /\ b.timers = a.timers
  <2>1. \A c \in r.calls : c \in a.rest.calls \/ c.method = "ServerInfo"
    BY <1>5, <1>6
  <2>2. r.token \in {TRUE, a.rest.token} /\ r \in Rest /\ r.status = a.rest.status
    BY <1>6
  <2>3. OnlyCalls(a, r, left)
    BY <1>1, <1>2, <1>7, <2>1, <2>2, OtherCalls
  <2> QED BY <1>1, <1>2, <2>3 DEF OnlyCalls
<1> HIDE DEF b
<1>9. Kept(a, b)
  BY <1>2, <1>6, <1>8 DEF Kept, Failing
<1>10. /\ account' \in Account
       /\ account'.rest = b.rest /\ account'.ddp = b.ddp /\ account'.shown = b.shown
       /\ account'.otp = b.otp /\ account'.password = b.password
       /\ account'.version = b.version /\ account'.timers = b.timers
  BY <1>3, <1>8 DEF Good, Sound, Account
<1>11. Good(account', left) /\ Kept(b, account') /\ NotStuck(account') /\ HasRest(account')
  BY <1>1, <1>8, <1>10, Aside
<1>12. Kept(account, account')
  BY <1>2, <1>9, <1>11, KeptSteps
<1> QED BY <1>11, <1>12, Steady DEF LoadServerInfo

LEMMA DdpStartStep == IInv /\ DdpStart => IInv'
<1> SUFFICES ASSUME IInv, DdpStart PROVE IInv'
  OBVIOUS
<1> DEFINE d == [account.ddp EXCEPT !.socket = "opening"]
           a == [account EXCEPT !.ddp = d]
<1>1. Good(account, left) /\ left \in BOOLEAN /\ HasDdp(account) /\ account \in Account
  BY DEF IInv, DdpStart, Good, Sound
<1>2. account.ddp \in Websocket
  BY <1>1, ClientTypes
<1>3. d \in Websocket /\ d.socket = "opening" /\ d.calls = account.ddp.calls
  BY <1>2 DEF Websocket
<1>4. account' = SetDdpStatus(a, "Connecting")
  BY DEF DdpStart
<1> HIDE DEF d
<1>5. OnlyDdp(account, a) /\ a.ddp = d /\ HasDdp(a) /\ a \in Account
  <2>1. OnlyDdp(account, a) /\ a.ddp = d
    BY <1>1, <1>3, PutDdp
  <2> QED BY <1>3, <2>1, Clients DEF HasDdp, OnlyDdp
<1> HIDE DEF a
<1>6. /\ OnlyDdp(a, account') /\ account'.ddp.status = "Connecting"
      /\ account'.ddp.socket = "opening" /\ account'.ddp.calls = account.ddp.calls
  BY <1>3, <1>4, <1>5, DdpStatus DEF LoginStatus
<1>7. OnlyDdp(account, account')
  BY <1>5, <1>6, OnlyDdpSteps
<1>8. NeverLeads(account', left)
  <2>1. loginStatus(account') = loginStatus(account)
    BY <1>1, <1>7, OnlyDdpKeeps
  <2> QED BY <1>1, <1>6, <1>7, <2>1 DEF Good, Sound, NeverLeads, Passive, OnlyDdp
<1>9. Follows(account') /\ NotStuck(account')
  BY <1>6 DEF Follows, NotStuck
<1>10. Good(account', left) /\ Kept(account, account') /\ (HasRest(account') <=> HasRest(account))
  BY <1>1, <1>7, <1>8, <1>9, DdpStep
<1> QED BY <1>9, <1>10, Steady DEF DdpStart

LEMMA OrphanDeletedStep == IInv /\ OrphanDeleted => IInv'
<1> SUFFICES ASSUME IInv, OrphanDeleted PROVE IInv'
  OBVIOUS
<1> DEFINE a == [account EXCEPT !.orphan = FALSE]
<1>1. Good(account, left) /\ NotStuck(account) /\ left \in BOOLEAN
  BY DEF IInv
<1>2. /\ a \in Account /\ a.rest = account.rest /\ a.ddp = account.ddp /\ a.shown = account.shown
      /\ a.otp = account.otp /\ a.password = account.password
      /\ a.version = account.version /\ a.timers = account.timers
  BY <1>1 DEF Good, Sound, Account
<1>3. account' = a \/ account' = Ddp(a)
  BY DEF OrphanDeleted
<1> HIDE DEF a
<1>4. Good(a, left) /\ Kept(account, a) /\ (HasRest(a) <=> HasRest(account)) /\ NotStuck(a)
  BY <1>1, <1>2, Aside
<1>5. /\ Good(account', left) /\ Kept(account, account') /\ NotStuck(account')
      /\ HasRest(account) => HasRest(account')
  <2>1. CASE account' = a
    BY <1>4, <2>1
  <2>2. CASE account' = Ddp(a)
    <3>1. Good(account', left) /\ Kept(a, account') /\ account'.rest = a.rest /\ NotStuck(account')
      BY <1>1, <1>4, <2>2, MakesDdp
    <3> QED BY <1>4, <3>1, KeptSteps DEF HasRest
  <2> QED BY <1>3, <2>1, <2>2
<1> QED BY <1>5, Steady DEF OrphanDeleted

\* What handlers lead to that let the account know its password or its server.
LEMMA Informed ==
  ASSUME IInv, UNCHANGED <<left, disruptions>>,
         Good(account', left), NotStuck(account'),
         account'.timers = account.timers, Failing(account') => Failing(account),
         account'.version /\ account'.password => HasRest(account')
  PROVE  IInv'
<1>1. NeverAbandoned'
  BY DEF NeverAbandoned, HasRest
<1>2. account.timers \in Nat /\ disruptions \in Nat
  BY DEF IInv, Good, Sound, Account, TimersBounded
<1>3. TimersBounded'
  <2>1. Failing(account)' <=> Failing(account')
    BY DEF Failing, HasRest
  <2> QED BY <1>2, <2>1 DEF IInv, TimersBounded
<1> QED BY <1>1, <1>3 DEF IInv, Good, Sound, RestSound, NeverLeads, Follows, Told, NotStuck, HasRest, HasDdp, loginStatus

LEMMA PasswordReadStep == IInv /\ PasswordRead => IInv'
<1> SUFFICES ASSUME IInv, PasswordRead PROVE IInv'
  OBVIOUS
<1> DEFINE a == [account EXCEPT !.password = TRUE]
<1>1. Good(account, left) /\ NotStuck(account) /\ left \in BOOLEAN
  BY DEF IInv
<1>2. /\ a \in Account /\ a.rest = account.rest /\ a.ddp = account.ddp /\ a.shown = account.shown
      /\ a.otp = account.otp /\ a.password = TRUE /\ a.timers = account.timers
  BY <1>1 DEF Good, Sound, Account
<1>3. account' = TryAutoLogin(a)
  BY DEF PasswordRead
<1> HIDE DEF a
<1>4. Good(a, left) /\ NotStuck(a) /\ (Failing(a) => Failing(account))
  BY <1>1, <1>2, Elsewhere
<1>5. /\ Good(account', left) /\ Kept(a, account') /\ NotStuck(account')
      /\ (a.version /\ a.password) \/ HasRest(a) => HasRest(account') \/ ~a.password
  BY <1>1, <1>3, <1>4, TriesAutoLogin
<1>6. /\ account'.timers = account.timers
      /\ Failing(account') => Failing(account)
      /\ account'.version /\ account'.password => HasRest(account')
  BY <1>2, <1>4, <1>5 DEF Kept
<1> QED BY <1>5, <1>6, Informed DEF PasswordRead

-----------------------------------------------------------------------------
(***************************************************************************)
(* Answers and failures of the connection.                                 *)
(***************************************************************************)
\* A login is answered.  Without a code it was the only one under way.
LEMMA LoginEnds ==
  ASSUME NEW a, NEW gone \in BOOLEAN, Good(a, gone), NotStuck(a), HasRest(a),
         NEW call \in a.rest.calls, call.method \in CredentialMethod,
         NEW r \in Rest, r.calls = a.rest.calls \ {call}, r.failing = a.rest.failing,
         r.status = a.rest.status, r.token \in {TRUE, a.rest.token},
         NEW status \in LoginStatus \ {"LoggedOutAndCleanedUp", "LoginOngoing", "LoginOtpAuthOngoing"},
         status = "LoggedIn" => r.token = TRUE
  PROVE  LET b == SetRestStatus([a EXCEPT !.rest = r], status) IN
         Good(b, gone) /\ Kept(a, b) /\ HasRest(b) /\ NotStuck(b)
<1> DEFINE c == [a EXCEPT !.rest = r]
           p == [r EXCEPT !.status = status]
           q == [c EXCEPT !.rest = p]
           b == SetRestStatus(c, status)
<1>1. a \in Account /\ RestSound(a, gone) /\ NeverLeads(a, gone)
  BY DEF Good, Sound
<1>2. IsFiniteSet(r.calls)
  BY <1>1, FS_RemoveElement DEF RestSound
<1>3. /\ Good(c, gone) /\ HasRest(c) /\ c.rest = r /\ c.ddp = a.ddp /\ c.shown = a.shown
      /\ c.otp = a.otp /\ c.password = a.password /\ c.version = a.version /\ c.timers = a.timers
      /\ NotStuck(c)
  <2>1. \A d \in r.calls : d \in a.rest.calls \/ d.method = "ServerInfo"
    OBVIOUS
  <2>2. r.status = a.rest.status /\ r.token \in {TRUE, a.rest.token}
    OBVIOUS
  <2>3. /\ Good(c, gone)
        /\ HasRest(c) /\ c.rest = r /\ c.ddp = a.ddp /\ c.shown = a.shown
        /\ c.otp = a.otp /\ c.password = a.password /\ c.version = a.version /\ c.timers = a.timers
        /\ NotStuck(a) => NotStuck(c)
    <3>1. OnlyCalls(a, r, gone)
      BY <1>2, <2>1, <2>2, OtherCalls
    <3> QED BY <3>1 DEF OnlyCalls
  <2> QED BY <2>3
<1> HIDE DEF c
<1>4. Kept(a, c) /\ c \in Account
  BY <1>3 DEF Kept, Failing, Good, Sound
<1>5. ~a.otp => /\ a.rest.status = "LoginOngoing"
                /\ \A d \in r.calls : d.method # "SendOtp" /\ d.method # "Login"
  BY <1>1 DEF RestSound, CredentialMethod
<1>6. p \in Rest /\ p.status = status /\ p.calls = r.calls /\ p.token = r.token
  BY DEF Rest
<1>7. [c EXCEPT !.rest.status = status] = q
  BY <1>3
<1> HIDE DEF p
<1>8. q \in Account /\ q.rest = p /\ q.ddp = a.ddp /\ q.otp = a.otp /\ q.shown = a.shown
  BY <1>3, <1>4, <1>6, PutRest
<1> HIDE DEF q
<1>9. HasRest(q) /\ loginStatus(q) = status /\ loginStatus(a) = a.rest.status /\ (HasDdp(q) <=> HasDdp(a))
  BY <1>6, <1>8, Clients DEF HasRest, HasDdp, loginStatus
<1>10. Sound(q, gone)
  <2>1. ~gone => \A d \in q.rest.calls : d.method # "LogoutCleanUp"
    BY <1>1, <1>6, <1>8 DEF RestSound
  <2>2. RestSound(q, gone)
    BY <1>2, <1>5, <1>6, <1>8, <2>1 DEF RestSound
  <2>3. NeverLeads(q, gone)
    BY <1>1, <1>5, <1>8, <1>9 DEF NeverLeads
  <2> QED BY <1>8, <2>2, <2>3 DEF Sound
<1>11. NotStuck(q)
  BY <1>5, <1>8, <1>9 DEF NotStuck
<1>12. CASE c.rest.status = status
  <2>1. b = c
    BY <1>12 DEF SetRestStatus
  <2> HIDE DEF b
  <2> QED BY <1>3, <1>4, <2>1 DEF b, c
<1>13. CASE c.rest.status # status
  <2>1. Good(b, gone) /\ Kept(c, b) /\ HasRest(b) /\ NotStuck(b)
    BY <1>3, <1>4, <1>7, <1>10, <1>11, <1>13, StatusSet
  <2> HIDE DEF b
  <2> QED BY <1>4, <2>1, KeptSteps DEF b, c
<1> QED BY <1>12, <1>13 DEF c

LEMMA RestAnswerStep == ASSUME NEW call \in RestCalls, IInv, RestAnswer(call) PROVE IInv'
<1> DEFINE r == [account.rest EXCEPT !.calls = @ \ {call}]
           a == [account EXCEPT !.rest = r]
<1>0. HasRest(account) /\ call \in account.rest.calls /\ UNCHANGED <<left, disruptions>>
  BY DEF RestAnswer
<1>1. Good(account, left) /\ NotStuck(account) /\ left \in BOOLEAN
  BY DEF IInv
<1>2. account \in Account /\ account.rest \in Rest /\ RestSound(account, left)
  BY <1>0, <1>1, ClientTypes DEF Good, Sound
<1>3. /\ r \in Rest /\ r.calls = account.rest.calls \ {call} /\ r.failing = account.rest.failing
      /\ r.status = account.rest.status /\ r.token = account.rest.token
      /\ IsFiniteSet(r.calls)
  <2>1. IsFiniteSet(account.rest.calls)
    BY <1>0, <1>2 DEF RestSound
  <2>2. r \in Rest /\ r.calls = account.rest.calls \ {call} /\ r.failing = account.rest.failing
        /\ r.status = account.rest.status /\ r.token = account.rest.token
    BY <1>2 DEF Rest
  <2> QED BY <2>1, <2>2, FS_RemoveElement
<1>4. [account EXCEPT !.rest.calls = @ \ {call}] = a
  OBVIOUS
<1> HIDE DEF r
<1>5. /\ Good(a, left) /\ HasRest(a) /\ a.rest = r /\ NotStuck(a)
      /\ a.otp = account.otp /\ a.password = account.password
      /\ a.version = account.version /\ a.timers = account.timers
  <2>1. r.token \in {TRUE, account.rest.token} /\ \A c \in r.calls : c \in account.rest.calls
    BY <1>3
  <2>2. OnlyCalls(account, r, left)
    BY <1>0, <1>1, <1>3, <2>1, OtherCalls
  <2> QED BY <1>1, <2>2 DEF OnlyCalls
<1> HIDE DEF a
<1>6. Kept(account, a)
  BY <1>0, <1>3, <1>5 DEF Kept, Failing
<1>7. CASE call.method = "ServerInfo" /\ account' = TryAutoLogin([a EXCEPT !.version = TRUE])
  <2> DEFINE b == [a EXCEPT !.version = TRUE]
  <2>1. /\ b \in Account /\ b.rest = a.rest /\ b.ddp = a.ddp /\ b.shown = a.shown
        /\ b.otp = a.otp /\ b.timers = a.timers
    BY <1>5 DEF Good, Sound, Account
  <2> HIDE DEF b
  <2>2. Good(b, left) /\ NotStuck(b) /\ HasRest(b) /\ (Failing(b) <=> Failing(a))
    BY <1>1, <1>5, <2>1, Elsewhere
  <2>3. /\ Good(account', left) /\ Kept(b, account') /\ NotStuck(account')
        /\ HasRest(account') \/ ~b.password
    BY <1>1, <1>7, <2>2, TriesAutoLogin DEF b
  <2>4. /\ account'.timers = account.timers
        /\ Failing(account') => Failing(account)
        /\ account'.password => HasRest(account')
    BY <1>5, <1>6, <2>1, <2>2, <2>3 DEF Kept
  <2> QED BY <1>0, <2>3, <2>4, Informed
<1>8. CASE /\ call.method \in CredentialMethod
           /\ account' = SetRestStatus([a EXCEPT !.rest.token = @ \/ call.method \in CredentialMethod],
                                       StatusAfterResult(call.method))
  <2> DEFINE p == [r EXCEPT !.token = TRUE]
  <2>1. /\ p \in Rest /\ p.calls = r.calls /\ p.failing = r.failing
        /\ p.status = r.status /\ p.token = TRUE
    BY <1>3 DEF Rest
  <2>2. account' = SetRestStatus([account EXCEPT !.rest = p], "LoggedIn")
    <3>1. (a.rest.token \/ call.method \in CredentialMethod) = TRUE
      BY <1>8
    <3>2. [a EXCEPT !.rest.token = @ \/ call.method \in CredentialMethod] = [account EXCEPT !.rest = p]
      BY <1>5, <3>1 DEF a
    <3>3. StatusAfterResult(call.method) = "LoggedIn"
      BY <1>8 DEF StatusAfterResult, CredentialMethod
    <3> QED BY <1>8, <3>2, <3>3
  <2> HIDE DEF p
  <2>3. "LoggedIn" \in LoginStatus \ {"LoggedOutAndCleanedUp", "LoginOngoing", "LoginOtpAuthOngoing"}
    BY DEF LoginStatus
  <2>4. Good(account', left) /\ Kept(account, account') /\ HasRest(account') /\ NotStuck(account')
    <3>1. p.calls = account.rest.calls \ {call} /\ p.failing = account.rest.failing
          /\ p.status = account.rest.status
      BY <1>3, <2>1
    <3>2. p.token \in {TRUE, account.rest.token}
      BY <2>1
    <3>3. "LoggedIn" = "LoggedIn" => p.token = TRUE
      BY <2>1
    <3> DEFINE b == SetRestStatus([account EXCEPT !.rest = p], "LoggedIn")
    <3>4. Good(b, left) /\ Kept(account, b) /\ HasRest(b) /\ NotStuck(b)
      BY <1>0, <1>1, <1>8, <2>1, <2>3, <3>1, <3>2, <3>3, LoginEnds
    <3> HIDE DEF b
    <3> QED BY <2>2, <3>4 DEF b
  <2> QED BY <1>0, <2>4, Steady
<1>9. CASE /\ call.method = "LogoutCleanUp"
           /\ account' = SetRestStatus([a EXCEPT !.rest.token = @ \/ call.method \in CredentialMethod],
                                       StatusAfterResult(call.method))
  <2>1. left = TRUE
    BY <1>0, <1>1, <1>2, <1>9 DEF RestSound
  <2>2. account' = SetRestStatus(a, "LoggedOutAndCleanedUp")
    <3>1. call.method \notin CredentialMethod /\ a.rest.token \in BOOLEAN
      BY <1>3, <1>5, <1>9 DEF CredentialMethod, Rest
    <3>2. [a EXCEPT !.rest.token = @ \/ call.method \in CredentialMethod] = a
      <4>1. (a.rest.token \/ call.method \in CredentialMethod) = a.rest.token
        BY <3>1
      <4>2. [a.rest EXCEPT !.token = a.rest.token] = a.rest /\ [a EXCEPT !.rest = a.rest] = a
        BY <1>3, <1>5 DEF Rest, Good, Sound, Account
      <4> QED BY <4>1, <4>2
    <3> QED BY <1>9, <3>2 DEF StatusAfterResult, CredentialMethod
  <2>3. Good(account', left) /\ Kept(a, account') /\ NotStuck(account')
    <3>1. CASE a.rest.status = "LoggedOutAndCleanedUp"
      BY <1>5, <2>2, <3>1 DEF SetRestStatus, Kept
    <3>2. CASE a.rest.status # "LoggedOutAndCleanedUp"
      <4> DEFINE q == [a EXCEPT !.rest.status = "LoggedOutAndCleanedUp"]
      <4>1. "LoggedOutAndCleanedUp" \in LoginStatus /\ a \in Account
        BY <1>5 DEF LoginStatus, Good, Sound
      <4>2. NotStuck(q)
        <5>1. [a.rest EXCEPT !.status = "LoggedOutAndCleanedUp"] \in Rest
          BY <1>3, <1>5, <4>1 DEF Rest
        <5>2. q.rest.status = "LoggedOutAndCleanedUp" /\ HasRest(q)
          BY <1>3, <1>5, <4>1, <5>1, Clients DEF Account, Rest, HasRest
        <5> QED BY <5>2 DEF NotStuck, loginStatus
      <4> QED BY <1>5, <2>1, <2>2, <3>2, <4>1, <4>2, StatusSet
    <3> QED BY <3>1, <3>2
  <2>4. Kept(account, account')
    BY <1>6, <2>3, KeptSteps
  <2> QED BY <1>0, <2>1, <2>3, <2>4, Steady
<1>10. ASSUME NEW error \in Refusals(call.method, call.payload),
              call.method \in CredentialMethod,
              account' = SetRestStatus(a, StatusAfterLoginError(error))
       PROVE  IInv'
  <2>1. error \in {"403", "totp-invalid", "totp-required", "other"}
    BY <1>10 DEF Refusals
  <2>2. /\ StatusAfterLoginError(error)
             \in LoginStatus \ {"LoggedOutAndCleanedUp", "LoginOngoing", "LoginOtpAuthOngoing"}
        /\ StatusAfterLoginError(error) # "LoggedIn"
    BY <2>1 DEF StatusAfterLoginError, LoginStatus
  <2>3. Good(account', left) /\ Kept(account, account') /\ HasRest(account') /\ NotStuck(account')
    BY <1>0, <1>1, <1>3, <1>10, <2>2, LoginEnds DEF a
  <2> QED BY <1>0, <2>3, Steady
<1>11. call.method \in RestMethod
  BY <1>0, <1>2 DEF Rest, Job
<1> QED BY <1>4, <1>7, <1>8, <1>9, <1>10, <1>11 DEF RestAnswer, RestMethod, CredentialMethod

\* The invariant, read of the account there is next.
LEMMA HoldsNext ==
  ASSUME left' \in BOOLEAN, Good(account', left'), NotStuck(account'),
         ~left' /\ account'.version /\ account'.password => HasRest(account') \/ account'.timers > 0,
         disruptions' \in 0..MaxDisruptions,
         account'.timers + (IF Failing(account') THEN 1 ELSE 0) <= disruptions'
  PROVE  IInv'
<1>1. NeverAbandoned'
  BY DEF NeverAbandoned, HasRest
<1>2. TimersBounded'
  <2>1. Failing(account)' <=> Failing(account')
    BY DEF Failing, HasRest
  <2> QED BY <2>1 DEF TimersBounded
<1> QED BY <1>1, <1>2 DEF IInv, Good, Sound, RestSound, NeverLeads, Follows, Told, NotStuck, HasRest, HasDdp, loginStatus

\* A disruption, which may be an error that will be told.
LEMMA Disrupted ==
  ASSUME IInv, left' = left, disruptions < MaxDisruptions, disruptions' = disruptions + 1,
         Good(account', left), NotStuck(account'), account'.timers = account.timers,
         \/ account'.password => HasRest(account')
         \/ /\ account'.password = account.password /\ account'.version = account.version
            /\ HasRest(account) => HasRest(account')
  PROVE  IInv'
<1>1. account.timers \in Nat /\ disruptions \in Nat /\ account.timers <= disruptions
  BY DEF IInv, Good, Sound, Account, TimersBounded
<1>2. disruptions' \in 0..MaxDisruptions
  BY <1>1, BoundsAssumption
<1>3. account'.timers + (IF Failing(account') THEN 1 ELSE 0) <= disruptions'
  BY <1>1
<1>4. ~left' /\ account'.version /\ account'.password => HasRest(account') \/ account'.timers > 0
  BY DEF IInv, NeverAbandoned
<1>5. left' \in BOOLEAN /\ Good(account', left')
  BY DEF IInv
<1> QED BY <1>2, <1>3, <1>4, <1>5, HoldsNext

\* Fewer calls, for one reason or another.
LEMMA CallGone ==
  ASSUME IInv, left' = left, disruptions < MaxDisruptions, disruptions' = disruptions + 1,
         HasRest(account), NEW r \in Rest, r.calls \subseteq account.rest.calls,
         r.status = account.rest.status, r.token = account.rest.token,
         account' = [account EXCEPT !.rest = r]
  PROVE  IInv'
<1>1. Good(account, left) /\ NotStuck(account) /\ left \in BOOLEAN
  BY DEF IInv
<1>2. IsFiniteSet(r.calls)
  <2>1. IsFiniteSet(account.rest.calls)
    BY <1>1 DEF Good, Sound, RestSound
  <2> QED BY <2>1, FS_Subset
<1>3. /\ \A c \in r.calls : c \in account.rest.calls \/ c.method = "ServerInfo"
      /\ r.token \in {TRUE, account.rest.token}
  OBVIOUS
<1> DEFINE b == [account EXCEPT !.rest = r]
<1>4. /\ Good(b, left)
      /\ HasRest(b) /\ b.rest = r /\ b.ddp = account.ddp /\ b.shown = account.shown
      /\ b.otp = account.otp /\ b.password = account.password
      /\ b.version = account.version /\ b.timers = account.timers
      /\ NotStuck(account) => NotStuck(b)
  <2>1. OnlyCalls(account, r, left)
    BY <1>1, <1>2, <1>3, OtherCalls
  <2> QED BY <2>1 DEF OnlyCalls
<1>5. account' = b
  OBVIOUS
<1> HIDE DEF b
<1> QED BY <1>1, <1>4, <1>5, Disrupted

LEMMA RestJobFailsStep == ASSUME NEW call \in RestCalls, IInv, RestJobFails(call) PROVE IInv'
<1> DEFINE r == [account.rest EXCEPT !.calls = @ \ {call}, !.lost = TRUE]
<1>1. /\ HasRest(account) /\ disruptions < MaxDisruptions /\ disruptions' = disruptions + 1
      /\ left' = left /\ account' = [account EXCEPT !.rest = r]
  BY DEF RestJobFails
<1>2. account.rest \in Rest
  BY <1>1, ClientTypes DEF IInv, Good, Sound
<1>3. /\ r \in Rest /\ r.calls \subseteq account.rest.calls
      /\ r.status = account.rest.status /\ r.token = account.rest.token
  BY <1>2 DEF Rest
<1> HIDE DEF r
<1> QED BY <1>1, <1>3, CallGone

LEMMA RestNetworkErrorStep == IInv /\ RestNetworkError => IInv'
<1> SUFFICES ASSUME IInv, RestNetworkError PROVE IInv'
  OBVIOUS
<1>1. /\ HasRest(account) /\ disruptions < MaxDisruptions /\ disruptions' = disruptions + 1
      /\ left' = left
  BY DEF RestNetworkError
<1>2. account.rest \in Rest
  BY <1>1, ClientTypes DEF IInv, Good, Sound
<1>3. ASSUME NEW call \in account.rest.calls,
             account' = [account EXCEPT !.rest.calls = @ \ {call}, !.rest.failing = TRUE]
      PROVE  IInv'
  <2> DEFINE r == [account.rest EXCEPT !.calls = @ \ {call}, !.failing = TRUE]
  <2>1. account' = [account EXCEPT !.rest = r]
    BY <1>3
  <2>2. /\ r \in Rest /\ r.calls \subseteq account.rest.calls
        /\ r.status = account.rest.status /\ r.token = account.rest.token
    BY <1>2 DEF Rest
  <2> HIDE DEF r
  <2> QED BY <1>1, <2>1, <2>2, CallGone
<1>4. CASE account' = [account EXCEPT !.rest.failing = TRUE]
  <2> DEFINE r == [account.rest EXCEPT !.failing = TRUE]
  <2>1. account' = [account EXCEPT !.rest = r]
    BY <1>4
  <2>2. /\ r \in Rest /\ r.calls \subseteq account.rest.calls
        /\ r.status = account.rest.status /\ r.token = account.rest.token
    BY <1>2 DEF Rest
  <2> HIDE DEF r
  <2> QED BY <1>1, <2>1, <2>2, CallGone
<1> QED BY <1>3, <1>4 DEF RestNetworkError

-----------------------------------------------------------------------------
(***************************************************************************)
(* Reconnections.                                                          *)
(***************************************************************************)
LEMMA NetworkErrorStep == IInv /\ NetworkError => IInv'
<1> SUFFICES ASSUME IInv, NetworkError PROVE IInv'
  OBVIOUS
<1> DEFINE a == ForceDisconnect(account)
<1>1. /\ Good(account, left) /\ left \in BOOLEAN /\ account \in Account
      /\ Failing(account) /\ UNCHANGED <<left, disruptions>>
  BY DEF IInv, Good, Sound, NetworkError, Failing
<1>2. Good(a, left) /\ Kept(account, a) /\ NotStuck(a) /\ ~HasRest(a)
  BY <1>1, Disconnects
<1>3. account' = [a EXCEPT !.timers = @ + 1]
  BY DEF NetworkError
<1> HIDE DEF a
<1>4. account.timers \in Nat /\ a.timers = account.timers
  BY <1>1, <1>2 DEF Account, Kept
<1>5. /\ account' \in Account
      /\ account'.rest = a.rest /\ account'.ddp = a.ddp /\ account'.shown = a.shown
      /\ account'.otp = a.otp /\ account'.timers = account.timers + 1
  BY <1>2, <1>3, <1>4 DEF Good, Sound, Account
<1>6. Good(account', left) /\ NotStuck(account') /\ ~HasRest(account') /\ ~Failing(account')
  <2>1. Good(account', left) /\ NotStuck(account') /\ ~HasRest(account')
    BY <1>1, <1>2, <1>5, Elsewhere
  <2> QED BY <2>1 DEF Failing
<1>7. disruptions \in 0..MaxDisruptions /\ account.timers + 1 <= disruptions
  BY <1>1 DEF IInv, TimersBounded
<1> QED BY <1>1, <1>4, <1>5, <1>6, <1>7, HoldsNext

\* A timer that runs out, or the window's own.
LEMMA Retried ==
  ASSUME IInv, UNCHANGED <<left, disruptions>>, NEW a \in Account,
         a.rest = account.rest, a.ddp = account.ddp, a.shown = account.shown, a.otp = account.otp,
         a.timers <= account.timers,
         account' = ReconnectToServer(a)
  PROVE  IInv'
<1>1. Good(account, left) /\ NotStuck(account) /\ left \in BOOLEAN
  BY DEF IInv
<1>2. Good(a, left) /\ NotStuck(a) /\ (Failing(a) => Failing(account))
  BY <1>1, Elsewhere
<1>3. /\ Good(account', left) /\ Kept(a, account') /\ NotStuck(account')
      /\ a.password => HasRest(account')
  BY <1>1, <1>2, Reconnects
<1>4. /\ account'.timers = a.timers /\ account'.password = a.password
      /\ Failing(account') => Failing(account)
  BY <1>2, <1>3 DEF Kept
<1>5. /\ account.timers \in Nat /\ a.timers \in Nat /\ disruptions \in 0..MaxDisruptions
      /\ account.timers + (IF Failing(account) THEN 1 ELSE 0) <= disruptions
  BY <1>1 DEF IInv, TimersBounded, Good, Sound, Account
<1>6. account'.timers + (IF Failing(account') THEN 1 ELSE 0) <= disruptions'
  BY <1>4, <1>5
<1> QED BY <1>1, <1>3, <1>4, <1>5, <1>6, HoldsNext

LEMMA ReconnectTimerStep == IInv /\ ReconnectTimer => IInv'
<1> SUFFICES ASSUME IInv, ReconnectTimer PROVE IInv'
  OBVIOUS
<1>1. account \in Account
  BY DEF IInv, Good, Sound
<1>2. account.countdown \in BOOLEAN /\ account.timers \in Nat
  BY <1>1 DEF Account
<1>3. PICK counting \in BOOLEAN :
        account' = ReconnectToServer([account EXCEPT !.timers = @ - 1, !.countdown = counting])
  BY <1>2 DEF ReconnectTimer
<1> DEFINE a == [account EXCEPT !.timers = @ - 1, !.countdown = counting]
<1>4. account.timers > 0 /\ UNCHANGED <<left, disruptions>>
  BY DEF ReconnectTimer
<1>5. account.timers - 1 \in Nat
  BY <1>2, <1>4
<1>6. /\ a \in Account /\ a.timers = account.timers - 1
      /\ a.rest = account.rest /\ a.ddp = account.ddp /\ a.shown = account.shown /\ a.otp = account.otp
  BY <1>1, <1>5 DEF Account
<1>7. account' = ReconnectToServer(a)
  BY <1>3
<1> HIDE DEF a
<1>8. a.timers <= account.timers
  BY <1>2, <1>6
<1> QED BY <1>4, <1>6, <1>7, <1>8, Retried

LEMMA CountdownStep == IInv /\ Countdown => IInv'
<1> SUFFICES ASSUME IInv, Countdown PROVE IInv'
  OBVIOUS
<1> DEFINE a == [account EXCEPT !.countdown = FALSE]
<1>1. account \in Account
  BY DEF IInv, Good, Sound
<1>2. account.timers \in Nat
  BY <1>1 DEF Account
<1>3. /\ a \in Account /\ a.timers = account.timers
      /\ a.rest = account.rest /\ a.ddp = account.ddp /\ a.shown = account.shown /\ a.otp = account.otp
  BY <1>1 DEF Account
<1>4. account' = ReconnectToServer(a) /\ UNCHANGED <<left, disruptions>>
  BY DEF Countdown
<1> HIDE DEF a
<1>5. a.timers <= account.timers
  BY <1>2, <1>3
<1> QED BY <1>3, <1>4, <1>5, Retried

LEMMA NetworkChangedStep == IInv /\ NetworkChanged => IInv'
<1> SUFFICES ASSUME IInv, NetworkChanged PROVE IInv'
  OBVIOUS
<1> DEFINE a == ForceDisconnect(account)
<1>1. /\ account \in Account /\ left \in BOOLEAN
      /\ left' = left /\ disruptions < MaxDisruptions /\ disruptions' = disruptions + 1
      /\ account' = ReconnectToServer(a)
  BY DEF IInv, Good, Sound, NetworkChanged
<1>2. Good(a, left) /\ Kept(account, a) /\ NotStuck(a)
  BY <1>1, Disconnects
<1> HIDE DEF a
<1>3. /\ Good(account', left) /\ Kept(a, account') /\ NotStuck(account')
      /\ a.password => HasRest(account')
  BY <1>1, <1>2, Reconnects
<1>4. account'.timers = account.timers /\ (account'.password => HasRest(account'))
  BY <1>2, <1>3 DEF Kept
<1> QED BY <1>1, <1>3, <1>4, Disrupted

LEMMA TokenExpiresStep == IInv /\ TokenExpires => IInv'
<1> SUFFICES ASSUME IInv, TokenExpires PROVE IInv'
  OBVIOUS
<1>1. Good(account, left) /\ NotStuck(account) /\ left \in BOOLEAN
  BY DEF IInv
<1>2. /\ account' \in Account
      /\ account'.rest = account.rest /\ account'.ddp = account.ddp /\ account'.shown = account.shown
      /\ account'.otp = account.otp /\ account'.password = account.password
      /\ account'.version = account.version /\ account'.timers = account.timers
  BY <1>1 DEF TokenExpires, Good, Sound, Account
<1>3. /\ Good(account', left) /\ Kept(account, account') /\ NotStuck(account')
      /\ HasRest(account') <=> HasRest(account)
  BY <1>1, <1>2, Aside
<1> QED BY <1>3, Steady DEF TokenExpires

-----------------------------------------------------------------------------
(***************************************************************************)
(* The websocket.                                                          *)
(***************************************************************************)
LEMMA CleanedUp ==
  ASSUME NEW a \in Account
  PROVE  LET b == SetDdpStatus(a, "LoggedOutAndCleanedUp") IN
         OnlyDdp(a, b) /\ ~HasDdp(b) /\ b.ddp.status = "absent"
<1> DEFINE b == SetDdpStatus(a, "LoggedOutAndCleanedUp")
<1>1. OnlyDdp(a, b) /\ b.ddp = NoClient
  BY DEF SetDdpStatus, Account, OnlyDdp
<1> QED BY <1>1, Clients DEF HasDdp

\* What handlers of the websocket lead to.
LEMMA Moved ==
  ASSUME IInv, UNCHANGED left, disruptions' \in disruptions..MaxDisruptions,
         OnlyDdp(account, account'),
         NeverLeads(account', left), Follows(account'), NotStuck(account')
  PROVE  IInv'
<1>1. Good(account, left) /\ left \in BOOLEAN
  BY DEF IInv
<1>2. Good(account', left) /\ Kept(account, account') /\ (HasRest(account') <=> HasRest(account))
  BY <1>1, DdpStep
<1>3. /\ account'.timers = account.timers /\ account'.version = account.version
      /\ account'.password = account.password
      /\ Failing(account') => Failing(account)
  BY <1>2 DEF Kept
<1>4. /\ account.timers \in Nat /\ disruptions \in 0..MaxDisruptions
      /\ account.timers + (IF Failing(account) THEN 1 ELSE 0) <= disruptions
  BY <1>1 DEF IInv, TimersBounded, Good, Sound, Account
<1>5. /\ disruptions' \in 0..MaxDisruptions
      /\ account'.timers + (IF Failing(account') THEN 1 ELSE 0) <= disruptions'
  BY <1>3, <1>4, BoundsAssumption
<1>6. ~left' /\ account'.version /\ account'.password => HasRest(account') \/ account'.timers > 0
  BY <1>2, <1>3 DEF IInv, NeverAbandoned
<1> QED BY <1>1, <1>2, <1>5, <1>6, HoldsNext

LEMMA DdpConnectedStep == IInv /\ DdpConnected => IInv'
<1> SUFFICES ASSUME IInv, DdpConnected PROVE IInv'
  OBVIOUS
<1> DEFINE d == [account.ddp EXCEPT !.socket = "up"]
           e == [account EXCEPT !.ddp = d]
           a == RestApi(e)
<1>1. /\ Good(account, left) /\ NotStuck(account) /\ left \in BOOLEAN
      /\ HasDdp(account) /\ account \in Account /\ UNCHANGED <<left, disruptions>>
  BY DEF IInv, DdpConnected, Good, Sound
<1>2. account.ddp \in Websocket
  BY <1>1, ClientTypes
<1>3. d \in Websocket /\ d.socket = "up" /\ d.calls = account.ddp.calls /\ d.status = account.ddp.status
  BY <1>2 DEF Websocket
<1>4. account' = IF a.rest.status = "LoggedIn" THEN DdpLogin(a) ELSE a
  BY DEF DdpConnected
<1> HIDE DEF d
<1>5. OnlyDdp(account, e) /\ e.ddp = d /\ HasDdp(e) /\ e \in Account
  <2>1. OnlyDdp(account, e) /\ e.ddp = d
    BY <1>1, <1>3, PutDdp
  <2> QED BY <1>3, <2>1, Clients DEF HasDdp, OnlyDdp
<1> HIDE DEF e
<1>6. loginStatus(e) = loginStatus(account) /\ (HasRest(e) <=> HasRest(account)) /\ RestSound(e, left)
  BY <1>1, <1>5, OnlyDdpKeeps DEF Good, Sound
<1>7. CASE loginStatus(account) = "LoggedIn"
  <2>1. HasRest(e) /\ e.rest.token = TRUE
    <3>1. HasRest(e) /\ e.rest.status = "LoggedIn"
      BY <1>6, <1>7 DEF loginStatus
    <3>2. e.rest \in Rest /\ e.rest.token
      BY <1>5, <1>6, <3>1, ClientTypes DEF RestSound
    <3> QED BY <3>1, <3>2 DEF Rest
  <2>2. account' = DdpLogin(e)
    <3>1. a = e
      BY <2>1 DEF RestApi
    <3> QED BY <1>4, <1>6, <1>7, <2>1, <3>1 DEF loginStatus
  <2>3. /\ OnlyDdp(e, account') /\ HasDdp(account')
        /\ account'.ddp.status \notin {"LoggedOut", "Connecting"}
        /\ account'.ddp.status = "LogoutOngoing" => account.ddp.status = "LogoutOngoing"
    BY <1>3, <1>5, <2>1, <2>2, DdpLogsIn
  <2>4. OnlyDdp(account, account')
    BY <1>5, <2>3, OnlyDdpSteps
  <2>5. loginStatus(account') = loginStatus(account) /\ account'.otp = account.otp
    BY <1>1, <2>4, OnlyDdpKeeps DEF OnlyDdp
  <2>6. NeverLeads(account', left) /\ Follows(account') /\ NotStuck(account')
    BY <1>1, <1>7, <2>3, <2>5 DEF NeverLeads, Follows, NotStuck
  <2>7. Good(account', left) /\ Kept(account, account') /\ (HasRest(account') <=> HasRest(account))
    BY <1>1, <2>4, <2>6, DdpStep
  <2> QED BY <1>1, <2>6, <2>7, Steady
<1>8. CASE loginStatus(account) # "LoggedIn"
  <2>1. NeverLeads(e, left) /\ Follows(e) /\ NotStuck(e)
    BY <1>1, <1>3, <1>5, <1>6, <1>8
    DEF Good, Sound, NeverLeads, Passive, Follows, NotStuck, OnlyDdp
  <2>2. Good(e, left) /\ Kept(account, e)
    BY <1>1, <1>5, <2>1, DdpStep
  <2>3. Good(a, left) /\ HasRest(a) /\ Kept(e, a) /\ loginStatus(a) = loginStatus(e) /\ NotStuck(a)
    BY <1>1, <2>1, <2>2, NewRest
  <2> HIDE DEF a
  <2>4. account' = a
    BY <1>4, <1>6, <1>8, <2>3 DEF loginStatus
  <2>5. Kept(account, a)
    BY <2>2, <2>3, KeptSteps
  <2> QED BY <1>1, <2>3, <2>4, <2>5, Steady
<1> QED BY <1>7, <1>8

LEMMA DdpClosedStep == ASSUME NEW normal \in BOOLEAN, IInv, DdpClosed(normal) PROVE IInv'
<1> DEFINE d == [account.ddp EXCEPT !.socket = "closed", !.calls = <<>>]
           e == [account EXCEPT !.ddp = d]
<1>1. /\ Good(account, left) /\ left \in BOOLEAN /\ HasDdp(account) /\ account \in Account
      /\ left' = left /\ disruptions < MaxDisruptions /\ disruptions' = disruptions + 1
  BY DEF IInv, DdpClosed, Good, Sound
<1>2. account.ddp \in Websocket /\ <<>> \in Seq(DdpMethod)
  BY <1>1, ClientTypes
<1>3. d \in Websocket /\ d.socket = "closed" /\ d.calls = <<>>
  BY <1>2 DEF Websocket
<1>4. account' = SetDdpStatus(e, IF normal THEN "LoggedOutAndCleanedUp" ELSE "GenericError")
  <2>1. e = [account EXCEPT !.ddp.socket = "closed", !.ddp.calls = <<>>]
    OBVIOUS
  <2> QED BY <2>1 DEF DdpClosed
<1> HIDE DEF d
<1>5. OnlyDdp(account, e) /\ e.ddp = d /\ HasDdp(e) /\ e \in Account
  <2>1. OnlyDdp(account, e) /\ e.ddp = d
    BY <1>1, <1>3, PutDdp
  <2> QED BY <1>3, <2>1, Clients DEF HasDdp, OnlyDdp
<1> HIDE DEF e
<1>6. /\ OnlyDdp(e, account')
      /\ NeverLeads(account', left) /\ Follows(account') /\ NotStuck(account')
  <2>1. CASE normal
    <3>1. OnlyDdp(e, account') /\ ~HasDdp(account') /\ account'.ddp.status = "absent"
      BY <1>4, <1>5, <2>1, CleanedUp
    <3> QED BY <3>1 DEF NeverLeads, Follows, NotStuck
  <2>2. CASE ~normal
    <3>1. /\ OnlyDdp(e, account') /\ account'.ddp.status = "GenericError"
          /\ account'.ddp.calls = <<>> /\ account'.ddp.socket = "closed"
      BY <1>3, <1>4, <1>5, <2>2, DdpStatus DEF LoginStatus
    <3> QED BY <3>1 DEF NeverLeads, Passive, Follows, NotStuck
  <2> QED BY <2>1, <2>2
<1>7. OnlyDdp(account, account')
  BY <1>5, <1>6, OnlyDdpSteps
<1>8. disruptions' \in disruptions..MaxDisruptions
  BY <1>1, BoundsAssumption DEF IInv, TimersBounded
<1> QED BY <1>1, <1>6, <1>7, <1>8, Moved

LEMMA DdpAnswerStep == IInv /\ DdpAnswer => IInv'
<1> SUFFICES ASSUME IInv, DdpAnswer PROVE IInv'
  OBVIOUS
<1> DEFINE d == [account.ddp EXCEPT !.calls = Tail(@)]
           a == [account EXCEPT !.ddp = d]
           method == Head(account.ddp.calls)
<1>1. /\ Good(account, left) /\ NotStuck(account) /\ left \in BOOLEAN
      /\ HasDdp(account) /\ account \in Account /\ UNCHANGED <<left, disruptions>>
      /\ account.ddp.calls # <<>>
  BY DEF IInv, DdpAnswer, Good, Sound
<1>2. account.ddp \in Websocket /\ account.ddp.calls \in Seq(DdpMethod)
  <2>1. account.ddp \in Websocket
    BY <1>1, ClientTypes
  <2> QED BY <2>1 DEF Websocket
<1>3. /\ Tail(account.ddp.calls) \in Seq(DdpMethod)
      /\ method \in DdpMethod
      /\ method = account.ddp.calls[1] /\ 1 \in DOMAIN account.ddp.calls
      /\ \A i \in DOMAIN Tail(account.ddp.calls) :
           i + 1 \in DOMAIN account.ddp.calls /\ Tail(account.ddp.calls)[i] = account.ddp.calls[i + 1]
  BY <1>1, <1>2
<1>4. /\ d \in Websocket /\ d.socket = account.ddp.socket /\ d.status = account.ddp.status
      /\ d.calls = Tail(account.ddp.calls)
  BY <1>2, <1>3 DEF Websocket
<1>5. Passive(account.ddp) => Passive(d) /\ method # "Login"
  BY <1>3, <1>4 DEF Passive
<1>6. \/ method = "Login" /\ DdpLoginAnswer(a)
      \/ method = "LogoutCleanUp" /\ account' = SetDdpStatus(a, "LoggedOutAndCleanedUp")
      \/ method = "GetSubscriptions" /\ account' = GetSubscriptionParsing(a)
  BY DEF DdpAnswer, StatusAfterResult, CredentialMethod
<1> HIDE DEF d, method
<1>7. OnlyDdp(account, a) /\ a.ddp = d /\ HasDdp(a) /\ a \in Account
  <2>1. OnlyDdp(account, a) /\ a.ddp = d
    BY <1>1, <1>4, PutDdp
  <2> QED BY <1>4, <2>1, Clients DEF HasDdp, OnlyDdp
<1> HIDE DEF a
<1>8. disruptions' \in disruptions..MaxDisruptions
  BY <1>1 DEF IInv, TimersBounded
<1>9. ASSUME method = "Login", NEW e \in Account, OnlyDdp(a, e), HasDdp(e),
             NEW status \in LoginStatus
               \ {"LoggedOut", "Connecting", "LogoutOngoing", "LoggedOutAndCleanedUp"},
             account' = SetDdpStatus(e, status)
      PROVE  IInv'
  <2>1. OnlyDdp(e, account') /\ HasDdp(account') /\ account'.ddp.status = status
    BY <1>9, DdpStatus
  <2>2. OnlyDdp(account, account')
    BY <1>7, <1>9, <2>1, OnlyDdpSteps
  <2>3. loginStatus(account') = loginStatus(account) /\ account'.otp = account.otp
    BY <1>1, <2>2, OnlyDdpKeeps DEF OnlyDdp
  <2>4. NeverLeads(account', left) /\ Follows(account') /\ NotStuck(account')
    BY <1>1, <1>5, <1>9, <2>1, <2>3 DEF Good, Sound, NeverLeads, Follows, NotStuck
  <2> QED BY <1>1, <1>8, <2>2, <2>4, Moved
<1>10. CASE method = "Login" /\ account' = SetDdpStatus([a EXCEPT !.ddp.streams = TRUE], "LoggedIn")
  <2> DEFINE s == [d EXCEPT !.streams = TRUE]
             e == [a EXCEPT !.ddp = s]
  <2>1. s \in Websocket
    BY <1>4 DEF Websocket
  <2>2. e = [a EXCEPT !.ddp.streams = TRUE]
    BY <1>7
  <2> HIDE DEF s
  <2>3. OnlyDdp(a, e) /\ HasDdp(e) /\ e \in Account
    <3>1. OnlyDdp(a, e) /\ e.ddp = s
      BY <1>7, <2>1, PutDdp
    <3> QED BY <2>1, <3>1, Clients DEF HasDdp, OnlyDdp
  <2>4. "LoggedIn" \in LoginStatus
          \ {"LoggedOut", "Connecting", "LogoutOngoing", "LoggedOutAndCleanedUp"}
    BY DEF LoginStatus
  <2>5. account' = SetDdpStatus(e, "LoggedIn")
    BY <1>10, <2>2
  <2> HIDE DEF e
  <2> QED BY <1>9, <1>10, <2>3, <2>4, <2>5
<1>11. ASSUME NEW error \in Refusals("Login", "resume"), method = "Login",
              account' = SetDdpStatus(a, StatusAfterLoginError(error))
       PROVE  IInv'
  <2>1. error \in {"403", "other"}
    BY DEF Refusals
  <2>2. StatusAfterLoginError(error) \in LoginStatus
          \ {"LoggedOut", "Connecting", "LogoutOngoing", "LoggedOutAndCleanedUp"}
    BY <2>1 DEF StatusAfterLoginError, LoginStatus
  <2>3. OnlyDdp(a, a)
    BY <1>7 DEF OnlyDdp
  <2> QED BY <1>7, <1>9, <1>11, <2>2, <2>3
<1>12. CASE method = "LogoutCleanUp" /\ account' = SetDdpStatus(a, "LoggedOutAndCleanedUp")
  <2>1. OnlyDdp(a, account') /\ ~HasDdp(account') /\ account'.ddp.status = "absent"
    BY <1>7, <1>12, CleanedUp
  <2>2. OnlyDdp(account, account')
    BY <1>7, <2>1, OnlyDdpSteps
  <2>3. NeverLeads(account', left) /\ Follows(account') /\ NotStuck(account')
    BY <2>1 DEF NeverLeads, Follows, NotStuck
  <2> QED BY <1>1, <1>8, <2>2, <2>3, Moved
<1>13. CASE account' = GetSubscriptionParsing(a)
  <2> DEFINE b == RestApi(a)
  <2>1. loginStatus(a) = loginStatus(account) /\ a.otp = account.otp
    BY <1>1, <1>7, OnlyDdpKeeps DEF OnlyDdp
  <2>2. NeverLeads(a, left) /\ Follows(a) /\ NotStuck(a)
    BY <1>1, <1>4, <1>5, <1>7, <2>1 DEF Good, Sound, NeverLeads, Follows, NotStuck
  <2>3. Good(a, left) /\ Kept(account, a)
    BY <1>1, <1>7, <2>2, DdpStep
  <2>4. Good(b, left) /\ HasRest(b) /\ Kept(a, b) /\ NotStuck(b)
    BY <1>1, <2>2, <2>3, NewRest
  <2>5. account' = b \/ account' = [b EXCEPT !.room = "listed"]
    BY <1>13 DEF GetSubscriptionParsing
  <2> HIDE DEF b
  <2>6. /\ account' \in Account
        /\ account'.rest = b.rest /\ account'.ddp = b.ddp /\ account'.shown = b.shown
        /\ account'.otp = b.otp /\ account'.password = b.password
        /\ account'.version = b.version /\ account'.timers = b.timers
    <3>1. b \in Account
      BY <2>4 DEF Good, Sound
    <3> QED BY <2>5, <3>1 DEF Account
  <2>7. Good(account', left) /\ Kept(b, account') /\ HasRest(account') /\ NotStuck(account')
    BY <1>1, <2>4, <2>6, Aside
  <2>8. Kept(account, account')
    BY <2>3, <2>4, <2>7, KeptSteps
  <2> QED BY <1>1, <2>7, <2>8, Steady
<1> QED BY <1>6, <1>10, <1>11, <1>12, <1>13 DEF DdpLoginAnswer

-----------------------------------------------------------------------------
(***************************************************************************)
(* The user.                                                               *)
(***************************************************************************)
LEMMA UserLoginStep == IInv /\ UserLogin => IInv'
<1> SUFFICES ASSUME IInv, UserLogin PROVE IInv'
  OBVIOUS
<1> DEFINE code == account.shown \in {"LoginOtpRequired", "LoginFailedInvalidOtp"}
           a == [account EXCEPT !.password = TRUE, !.otp = @ \/ code]
<1>1. Good(account, left) /\ NotStuck(account) /\ left \in BOOLEAN /\ account \in Account
  BY DEF IInv, Good, Sound
<1>2. /\ a \in Account /\ a.rest = account.rest /\ a.ddp = account.ddp /\ a.shown = account.shown
      /\ a.password = TRUE /\ a.timers = account.timers
  <2>1. (account.otp \/ code) \in BOOLEAN
    OBVIOUS
  <2> HIDE DEF code
  <2> QED BY <1>1, <2>1 DEF Account
<1>3. account.otp => a.otp
  BY <1>1 DEF Account
<1>4. account' = TryLogin(a) /\ UNCHANGED <<left, disruptions>>
  BY DEF UserLogin
<1> HIDE DEF a
<1>5. Good(a, left) /\ NotStuck(a) /\ (Failing(a) <=> Failing(account))
  BY <1>1, <1>2, <1>3, Elsewhere
<1>6. /\ Good(account', left) /\ Kept(a, account') /\ NotStuck(account')
      /\ a.password => HasRest(account')
  BY <1>1, <1>4, <1>5, TriesLogin
<1>7. account'.timers = account.timers /\ (Failing(account') => Failing(account)) /\ HasRest(account')
  BY <1>2, <1>5, <1>6 DEF Kept
<1> QED BY <1>4, <1>6, <1>7, Informed

LEMMA UserLogoutStep == IInv /\ UserLogout => IInv'
<1> SUFFICES ASSUME IInv, UserLogout PROVE IInv'
  OBVIOUS
<1>1. /\ Good(account, left) /\ left \in BOOLEAN /\ account.shown = "LoggedIn"
      /\ account' = LogOut(account) /\ left' = TRUE /\ disruptions' = disruptions
  BY DEF IInv, UserLogout
<1>2. Good(account', TRUE) /\ Kept(account, account') /\ NotStuck(account')
  BY <1>1, LogsOut
<1>3. /\ account.timers \in Nat /\ disruptions \in 0..MaxDisruptions
      /\ account.timers + (IF Failing(account) THEN 1 ELSE 0) <= disruptions
  BY <1>1 DEF IInv, TimersBounded, Good, Sound, Account
<1>4. account'.timers + (IF Failing(account') THEN 1 ELSE 0) <= disruptions'
  BY <1>1, <1>2, <1>3 DEF Kept
<1> QED BY <1>1, <1>2, <1>3, <1>4, HoldsNext

LEMMA OpenRoomStep == IInv /\ OpenRoom => IInv'
<1> SUFFICES ASSUME IInv, OpenRoom PROVE IInv'
  OBVIOUS
<1> DEFINE d == [account.ddp EXCEPT !.watches = (account.ddp.socket = "up")]
<1>1. /\ Good(account, left) /\ NotStuck(account) /\ HasDdp(account) /\ account \in Account
      /\ UNCHANGED <<left, disruptions>>
  BY DEF IInv, OpenRoom, Good, Sound
<1>2. account.ddp \in Websocket
  BY <1>1, ClientTypes
<1>3. /\ d \in Websocket /\ d.socket = account.ddp.socket /\ d.calls = account.ddp.calls
      /\ d.status = account.ddp.status
  BY <1>2 DEF Websocket
<1>4. account' = [account EXCEPT !.room = "opened", !.ddp = d]
  BY DEF OpenRoom
<1> HIDE DEF d
<1>5. OnlyDdp(account, account') /\ account'.ddp = d
  BY <1>1, <1>3, <1>4 DEF Account, OnlyDdp
<1>6. loginStatus(account') = loginStatus(account) /\ account'.otp = account.otp
  BY <1>1, <1>5, OnlyDdpKeeps DEF OnlyDdp
<1>7. NeverLeads(account', left) /\ Follows(account') /\ NotStuck(account')
  BY <1>1, <1>3, <1>5, <1>6 DEF Good, Sound, NeverLeads, Passive, Follows, NotStuck
<1>8. disruptions' \in disruptions..MaxDisruptions
  BY <1>1 DEF IInv, TimersBounded
<1> QED BY <1>1, <1>5, <1>7, <1>8, Moved

-----------------------------------------------------------------------------
LEMMA StepLemma == IInv /\ [Next]_vars => IInv'
<1> SUFFICES ASSUME IInv, [Next]_vars PROVE IInv'
  OBVIOUS
<1>1. CASE UNCHANGED vars
  BY <1>1 DEF vars, IInv, Good, Sound, RestSound, NeverLeads, Follows, Told, NotStuck,
              NeverAbandoned, TimersBounded, Failing, HasRest, HasDdp, loginStatus
<1>2. CASE Next
  BY <1>2, StartConnectingStep, ClearModelsStep, LoadServerInfoStep, DdpStartStep, OrphanDeletedStep,
     PasswordReadStep, RestAnswerStep, RestJobFailsStep, RestNetworkErrorStep, NetworkErrorStep,
     ReconnectTimerStep, CountdownStep, NetworkChangedStep, TokenExpiresStep, DdpConnectedStep,
     DdpClosedStep, DdpAnswerStep, UserLoginStep, UserLogoutStep, OpenRoomStep DEF Next
<1> QED BY <1>1, <1>2

LEMMA Invariance == Spec => []IInv
BY InitLemma, StepLemma, PTL DEF Spec, SafetySpec

(***************************************************************************)
(* Types: an account is one, and no more reconnections are planned than    *)
(* there were disruptions.                                                 *)
(***************************************************************************)
THEOREM TypeCorrect == Spec => []TypeOK
<1>1. IInv => TypeOK
  <2> SUFFICES ASSUME IInv PROVE TypeOK
    OBVIOUS
  <2>1. account \in Account
    BY DEF IInv, Good, Sound
  <2>2. account.rest \in {NoClient} \cup
          [status : LoginStatus, token : BOOLEAN, payload : Payload, lost : BOOLEAN, failing : BOOLEAN,
           calls : SUBSET [id : Nat, method : RestMethod, payload : Payload]]
    BY <2>1 DEF Account, Rest, Job
  <2>3. HasDdp(account) => /\ account.ddp.status \in LoginStatus
                           /\ account.ddp.socket \in {"none", "opening", "up", "closed"}
                           /\ account.ddp.calls \in Seq(DdpMethod)
    BY <2>1, ClientTypes DEF Websocket
  <2>4. account.timers \in 0..MaxDisruptions
    <3>1. account.timers \in Nat
      BY <2>1 DEF Account
    <3> QED BY <3>1, BoundsAssumption DEF IInv, TimersBounded
  <2> QED BY <2>1, <2>2, <2>3, <2>4 DEF TypeOK, Account
<1> QED BY <1>1, Invariance, PTL

(***************************************************************************)
(* NetworkError deletes both clients, and an account that could log in is  *)
(* brought back: its user left it, or a timer is running.                  *)
(***************************************************************************)
THEOREM NotAbandoned == Spec => []NeverAbandoned
<1>1. IInv => NeverAbandoned
  BY DEF IInv
<1> QED BY <1>1, Invariance, PTL

(***************************************************************************)
(* Whichever of ddpLogin()'s two callers comes last, a live websocket of a *)
(* connection that is logged in was asked to log in.                       *)
(***************************************************************************)
THEOREM FollowsRest == Spec => []DdpFollowsRest
<1>1. IInv => DdpFollowsRest
  BY DEF IInv, Good, Follows, DdpFollowsRest, restStatus, ddpStatus
<1> QED BY <1>1, Invariance, PTL

(***************************************************************************)
(* Until the user logs out or types a code, the websocket is logged in, or *)
(* asked to be, only if the connection is logged in.                       *)
(***************************************************************************)
THEOREM LeadsNever == Spec => []DdpNeverLeads
<1>1. IInv => DdpNeverLeads
  <2> SUFFICES ASSUME IInv, ~left, ~account.otp, ddpStatus \in {"LoginOngoing", "LoggedIn"}
      PROVE  restStatus = "LoggedIn"
    BY DEF DdpNeverLeads
  <2>1. account \in Account /\ NeverLeads(account, left)
    BY DEF IInv, Good, Sound
  <2>2. HasDdp(account)
    BY <2>1, ClientTypes DEF ddpStatus
  <2> QED BY <2>1, <2>2 DEF NeverLeads, Passive, restStatus, ddpStatus
<1> QED BY <1>1, Invariance, PTL

(***************************************************************************)
(* tryLogin() replaces a websocket that still waits for its logout, so     *)
(* that none is left where a login is under way, or has succeeded without  *)
(* a code.                                                                 *)
(***************************************************************************)
THEOREM StuckIsReplaced == Spec => []StuckDdpReplaced
<1>1. IInv => StuckDdpReplaced
  BY DEF IInv, NotStuck, StuckDdpReplaced, restStatus, ddpStatus
<1> QED BY <1>1, Invariance, PTL

=============================================================================
