----------------------------- MODULE WebClient -----------------------------
(***************************************************************************)
(* The browser's connection to the gateway and its login state:            *)
(* ThreadLinkClient (websocket-client.ts), the provider that drives it     *)
(* (ChatProvider.tsx) and the part of the reducer's state that says        *)
(* whether the page is logged in (chatState.ts).                           *)
(*                                                                         *)
(* An action is one browser task: a click, a WebSocket event, a timer, or  *)
(* the render after which stateRef.current is the reducer's state.  The    *)
(* gateway is as GatewaySessions has it, for one WebSocket: a session is   *)
(* logged in, ready, and gone when its WebSocket is.  The page never calls *)
(* disconnect(), so intentionalClose stays false and is left out.          *)
(***************************************************************************)
EXTENDS Naturals, SequencesExt

CONSTANTS
  MaxReconnectAttempts,  \* 5 unless the options say otherwise
  Clicks                 \* bound: what the user asks for

ASSUME WebClientConstants ==
  MaxReconnectAttempts \in Nat /\ Clicks \in Nat

VARIABLES
  status,          \* ThreadLinkClient.status, and the page's connectionStatus
  socket,          \* readyState of the current WebSocket; "none" is null
  attempts,        \* reconnectAttempts
  timer,           \* reconnectTimer is set
  pendingAuth,     \* pendingAuthRef.current is set
  userId,          \* the reducer's userId is not null
  authenticating,  \* the reducer's authenticating
  ref,             \* stateRef.current.userId is not null
  up, down,        \* messages on their way to the gateway and back
  session,         \* gateway: the session of the current WebSocket
  clicks           \* what the user asked for so far (bound)

transport == <<status, socket, attempts, timer>>
page == <<pendingAuth, userId, authenticating, ref>>
gateway == <<up, down, session>>
vars == <<transport, page, gateway, clicks>>

Init ==
  /\ status = "idle" /\ socket = "none" /\ attempts = 0 /\ timer = FALSE
  /\ pendingAuth = FALSE /\ userId = FALSE /\ authenticating = FALSE /\ ref = FALSE
  /\ up = <<>> /\ down = <<>> /\ session = "none"
  /\ clicks = 0

----------------------------------------------------------------------------
(* ThreadLinkClient.                                                       *)

\* Slip: connect() forgets the timer.
SlipOpening ==
  /\ UNCHANGED timer
  /\ status' = "connecting"
  /\ socket' = "connecting"

\* connect(): the previous socket and timer are gone, a new socket is opened.
Opening ==
  /\ timer' = FALSE
  /\ status' = "connecting"
  /\ socket' = "connecting"

isConnected == status = "connected" /\ socket = "open"

\* Slip: the backoff never gives up.
SlipRetries == TRUE

\* onclose: another attempt is due.
Retries == attempts < MaxReconnectAttempts

\* Slip: the reconnect is announced and not scheduled.
SlipClosing ==
  /\ socket' = "none"
  /\ IF Retries
       THEN /\ attempts' = attempts + 1
            /\ status' = "reconnecting"
       ELSE /\ status' = IF attempts > 0 THEN "failed" ELSE "disconnected"
            /\ UNCHANGED attempts
  /\ UNCHANGED timer

\* onclose: schedule a reconnect, or give up.
Closing ==
  /\ socket' = "none"
  /\ IF Retries
       THEN /\ attempts' = attempts + 1
            /\ timer' = TRUE
            /\ status' = "reconnecting"
       ELSE /\ status' = IF attempts > 0 THEN "failed" ELSE "disconnected"
            /\ UNCHANGED <<attempts, timer>>

\* The provider's first effect: ensureClient().
Mount ==
  /\ status = "idle"
  /\ Opening
  /\ session' = "none"
  /\ UNCHANGED <<attempts, page, up, down, clicks>>

\* new WebSocket throws, which it does for a URL that is no WebSocket's: "failed",
\* and no other attempt is made.  (A URL that served once serves a reconnect.)
MountFails ==
  /\ status = "idle"
  /\ status' = "failed"
  /\ UNCHANGED <<socket, attempts, timer, page, gateway, clicks>>

\* The timer fires: connect().  By then the page has rendered.
Reconnect ==
  /\ timer /\ ref = userId
  /\ Opening
  /\ UNCHANGED <<attempts, page, gateway, clicks>>

\* Slip: the login that waited is sent and stays pending.
SlipOnOpen ==
  /\ socket = "connecting"
  /\ socket' = "open" /\ status' = "connected" /\ attempts' = 0
  /\ session' = "anonymous"
  /\ up' = IF pendingAuth THEN Append(up, "login") ELSE up
  /\ UNCHANGED <<timer, page, down, clicks>>

\* onopen, and the login that waited for it.
OnOpen ==
  /\ socket = "connecting"
  /\ socket' = "open" /\ status' = "connected" /\ attempts' = 0
  /\ session' = "anonymous"
  /\ pendingAuth' = FALSE
  /\ up' = IF pendingAuth THEN Append(up, "login") ELSE up
  /\ UNCHANGED <<timer, userId, authenticating, ref, down, clicks>>

\* onStatusChange("failed") logs out a page that has a user.
Failed(logsOut) ==
  IF logsOut /\ ref
    THEN userId' = FALSE /\ authenticating' = FALSE
    ELSE UNCHANGED <<userId, authenticating>>

\* The connection cannot be made: onerror, which sets "failed", then onclose.
OnRefused ==
  /\ socket = "connecting"
  /\ Failed(TRUE)
  /\ Closing
  /\ UNCHANGED <<pendingAuth, ref, gateway, clicks>>

\* An open connection is lost, and whatever was on its way: onclose.
OnLost ==
  /\ socket = "open"
  /\ session' = "none" /\ up' = <<>> /\ down' = <<>>
  /\ Closing
  /\ Failed(~Retries /\ attempts > 0)
  /\ UNCHANGED <<pendingAuth, ref, clicks>>

\* The gateway has closed the WebSocket, after everything it sent: onclose.
OnClosed ==
  /\ socket = "open" /\ session = "closed" /\ down = <<>>
  /\ session' = "none" /\ up' = <<>>
  /\ Closing
  /\ Failed(~Retries /\ attempts > 0)
  /\ UNCHANGED <<pendingAuth, ref, down, clicks>>

----------------------------------------------------------------------------
(* ChatProvider.                                                           *)

\* The effect after a render: stateRef.current = state.
Render ==
  /\ ref # userId
  /\ ref' = userId
  /\ UNCHANGED <<transport, pendingAuth, userId, authenticating, gateway, clicks>>

\* login or register, from the login screen: sent, or left for onopen.
Login ==
  /\ status # "idle" /\ ~ref /\ ~userId /\ ~authenticating /\ clicks < Clicks
  /\ clicks' = clicks + 1
  /\ authenticating' = TRUE
  /\ IF isConnected
       THEN up' = Append(up, "login") /\ UNCHANGED pendingAuth
       ELSE pendingAuth' = TRUE /\ UNCHANGED up
  /\ UNCHANGED <<transport, userId, ref, down, session>>

\* logout and changeNickname, from the chat: sent if there is a connection.
Send(message) ==
  /\ ref /\ userId /\ clicks < Clicks
  /\ clicks' = clicks + 1
  /\ up' = IF socket = "open" THEN Append(up, message) ELSE up
  /\ UNCHANGED <<transport, page, down, session>>

Receives(event) == socket = "open" /\ down # <<>> /\ Head(down) = event /\ down' = Tail(down)

\* READY.
OnReady ==
  /\ Receives("ready")
  /\ userId' = TRUE /\ authenticating' = FALSE
  /\ UNCHANGED <<transport, pendingAuth, ref, up, session, clicks>>

\* LOGGED_OUT.
OnLoggedOut ==
  /\ Receives("loggedOut")
  /\ userId' = FALSE /\ authenticating' = FALSE
  /\ UNCHANGED <<transport, pendingAuth, ref, up, session, clicks>>

\* Slip: every error is a banner in the chat.
SlipOnError ==
  /\ Receives("error")
  /\ UNCHANGED <<transport, page, up, session, clicks>>

\* AUTH_ERROR before anyone is logged in, a banner in the chat after.
OnError ==
  /\ Receives("error")
  /\ authenticating' = IF ref THEN authenticating ELSE FALSE
  /\ UNCHANGED <<transport, pendingAuth, userId, ref, up, session, clicks>>

----------------------------------------------------------------------------
(* The gateway, for the current WebSocket.                                 *)

Takes(message) == session \notin {"none", "closed"} /\ up # <<>> /\ Head(up) = message /\ up' = Tail(up)

Tells(event) == down' = Append(down, event)

GwRest == UNCHANGED <<transport, page, clicks>>

\* handleAuth: refused, or the session waits for the backend.
GwLogin ==
  /\ Takes("login")
  /\ \/ Tells("error") /\ UNCHANGED session
     \/ session = "anonymous" /\ session' = "claiming" /\ UNCHANGED down
  /\ GwRest

\* announceReady, or an error that closes the WebSocket.
GwClaimed ==
  /\ session = "claiming"
  /\ \/ session' = "ready" /\ Tells("ready")
     \/ session' = "closed" /\ Tells("error")
  /\ GwRest /\ UNCHANGED up

\* handleLogout.
GwLogout ==
  /\ Takes("logout")
  /\ IF session \in {"claiming", "ready"}
       THEN session' = "closed" /\ Tells("loggedOut")
       ELSE Tells("error") /\ UNCHANGED session
  /\ GwRest

\* onBackendClosed: BACKEND_DISCONNECTED, and the WebSocket is closed.
GwBackendLost ==
  /\ session \in {"claiming", "ready"}
  /\ session' = "closed" /\ Tells("error")
  /\ GwRest /\ UNCHANGED up

\* setNickname: the backend may refuse; queued, unanswered, before ready.
GwNick ==
  /\ Takes("nick")
  /\ \/ session = "ready" /\ Tells("error")
     \/ UNCHANGED down
  /\ UNCHANGED session /\ GwRest

----------------------------------------------------------------------------
(* The specification.                                                      *)

Answers == GwLogin \/ GwClaimed \/ GwLogout \/ GwNick

Events == OnReady \/ OnLoggedOut \/ OnError

Next ==
  \/ Mount \/ MountFails \/ Reconnect \/ OnOpen \/ OnRefused \/ OnLost \/ OnClosed
  \/ Render \/ Login \/ (\E m \in {"logout", "nick"} : Send(m)) \/ Events
  \/ Answers \/ GwBackendLost

Spec == Init /\ [][Next]_vars

\* The browser runs its tasks and the gateway answers; a connection attempt
\* ends.  Nobody has to click, and nothing has to get lost.
Fairness ==
  /\ WF_vars(Mount) /\ WF_vars(Reconnect) /\ WF_vars(OnOpen \/ OnRefused)
  /\ WF_vars(OnClosed) /\ WF_vars(Render) /\ WF_vars(Events) /\ WF_vars(Answers)

FairSpec == Spec /\ Fairness

----------------------------------------------------------------------------
(* Properties.                                                             *)

\* Every variable stays in its set.
TypeOK ==
  /\ status \in {"idle", "connecting", "connected", "reconnecting", "disconnected", "failed"}
  /\ socket \in {"none", "connecting", "open"}
  /\ attempts \in 0..MaxReconnectAttempts
  /\ timer \in BOOLEAN /\ pendingAuth \in BOOLEAN
  /\ userId \in BOOLEAN /\ authenticating \in BOOLEAN /\ ref \in BOOLEAN
  /\ up \in Seq({"login", "logout", "nick"})
  /\ down \in Seq({"ready", "error", "loggedOut"})
  /\ session \in {"none", "anonymous", "claiming", "ready", "closed"}
  /\ clicks \in 0..Clicks

\* The status the page shows is what the transport does, and there is never a
\* reconnect timer beside a socket (websocket-client.ts:47-90, 148-160).
StatusHonest ==
  /\ status = "connecting" <=> socket = "connecting"
  /\ status = "connected" <=> socket = "open"
  /\ status = "reconnecting" <=> timer

\* Where a login is: in a message that the gateway has not read, waiting for
\* the backend, or kept for onopen.
Sent == {i \in DOMAIN up : up[i] = "login"}

\* A login is made once: it is kept for onopen or it has been sent, never both,
\* whatever connections come and go (ChatProvider.tsx:121-128, 149-167).
OneLoginUnderWay ==
  /\ \A i, j \in Sent : i = j
  /\ session = "claiming" => Sent = {}
  /\ pendingAuth => Sent = {} /\ session # "claiming" /\ socket # "open"

\* A login that was sent is answered as long as its connection lasts: the login
\* screen stops waiting (ChatProvider.tsx:71-110).
LoginAnsweredOnline ==
  (isConnected /\ up # <<>> /\ Last(up) = "login") ~> (~authenticating \/ ~isConnected)

\* The backoff ends: in a connection, or with all attempts used
\* (websocket-client.ts:78-89).
BackoffEnds ==
  (status = "reconnecting")
    ~> (status = "connected" \/ (status = "failed" /\ attempts = MaxReconnectAttempts))

\* The page is logged out by the transport when "Reconnection attempts were
\* exhausted" (ChatProvider.tsx:129-134).
LogoutOnlyWhenExhausted ==
  [][userId /\ ~userId' =>
       \/ down # <<>> /\ Head(down) = "loggedOut"
       \/ status' = "failed" /\ ~timer']_vars

\* A page that shows itself connected and logged in has a session at the
\* gateway: the connection states are "honest" (README.md).
SessionBehindPage ==
  status = "connected" /\ userId /\ ref => session \in {"ready", "closed"}

\* "True while a register/login request is in flight" (chatState.ts:37): the
\* login screen does not wait for ever.
LoginEnds == authenticating ~> ~authenticating

\* "Before "ready" has ever arrived, any error [...] belongs on the login/register
\* screen" (ChatProvider.tsx:100-102), and in the chat once it has.
ErrorsWhereTheyBelong ==
  [][down # <<>> /\ Head(down) = "error" /\ down' = Tail(down) /\ socket' = "open"
       => ref = userId]_vars

=============================================================================
