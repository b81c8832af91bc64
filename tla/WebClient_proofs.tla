--------------------------- MODULE WebClient_proofs ---------------------------
(***************************************************************************)
(* The browser's transport and login state are consistent, for any number  *)
(* of reconnect attempts and clicks.                                       *)
(***************************************************************************)
EXTENDS WebClient, SequenceTheorems, TLAPS

\* A login that has not been answered.
Waiting == Sent # {} \/ session = "claiming" \/ pendingAuth

\* A page without a socket has no messages under way and no session; one with
\* a socket keeps no login for later.
SocketOwns ==
  /\ socket = "open" => session # "none" /\ ~pendingAuth
  /\ socket # "open" => up = <<>> /\ down = <<>> /\ session = "none"
  /\ socket = "connecting" \/ status = "idle" => ref = userId

\* While a login waits for its answer the login screen waits, and nothing else
\* is on its way to the page.
LoginWaits == Waiting => authenticating /\ ~userId /\ ~ref /\ down = <<>>

\* Before `ready` has been shown, and after the chat is left, the gateway has at
\* most one answer for the page, and an error after `ready`.
LoggedOutPage ==
  ~userId =>
    /\ down \in {<<>>, <<"error">>, <<"ready">>, <<"ready", "error">>}
    /\ ref \/ ~authenticating => down = <<>>
    /\ session # "closed" => up \in {<<>>, <<"login">>}
    /\ session = "ready" => down = <<"ready">>
    /\ ref => session \in {"none", "closed"}

\* In the chat there are errors, and `loggedOut` as the last word of a session.
LoggedInPage ==
  userId => \A i \in DOMAIN down :
    \/ down[i] = "error"
    \/ down[i] = "loggedOut" /\ i = Len(down) /\ session = "closed"

\* The type invariant in two parts: no prover takes both together.
Flags ==
  /\ timer \in BOOLEAN /\ pendingAuth \in BOOLEAN
  /\ userId \in BOOLEAN /\ authenticating \in BOOLEAN /\ ref \in BOOLEAN

ToGateway == {"login", "logout", "nick"}
ToPage == {"ready", "error", "loggedOut"}

Values ==
  /\ status \in {"idle", "connecting", "connected", "reconnecting", "disconnected", "failed"}
  /\ socket \in {"none", "connecting", "open"}
  /\ attempts \in 0..MaxReconnectAttempts
  /\ up \in Seq(ToGateway)
  /\ down \in Seq(ToPage)
  /\ session \in {"none", "anonymous", "claiming", "ready", "closed"}
  /\ clicks \in 0..Clicks

IInv ==
  /\ TypeOK
  /\ StatusHonest
  /\ OneLoginUnderWay
  /\ SocketOwns
  /\ LoginWaits
  /\ LoggedOutPage
  /\ LoggedInPage

----------------------------------------------------------------------------
(* Sequences of messages.                                                  *)

\* The two parts are the type invariant of the module.
LEMMA Types == TypeOK <=> Flags /\ Values
BY Zenon DEF TypeOK, Flags, Values, ToGateway, ToPage

\* Receives and Takes: what is left of a queue when its head is read.
LEMMA Tails ==
  ASSUME NEW S, NEW s \in Seq(S), s # <<>>
  PROVE  /\ Tail(s) \in Seq(S) /\ Head(s) = s[1] /\ Len(s) \in Nat \ {0}
         /\ Len(Tail(s)) = Len(s) - 1 /\ DOMAIN Tail(s) = 1 .. Len(s) - 1
         /\ \A i \in 1 .. Len(s) - 1 : Tail(s)[i] = s[i + 1]
OBVIOUS

\* send() on either side: a message goes to the end of its queue.
LEMMA Added ==
  ASSUME NEW S, NEW s \in Seq(S), NEW e \in S
  PROVE  /\ Append(s, e) \in Seq(S) /\ Append(s, e) # <<>>
         /\ Len(s) \in Nat /\ Len(Append(s, e)) = Len(s) + 1
         /\ DOMAIN Append(s, e) = 1 .. Len(s) + 1 /\ DOMAIN s = 1 .. Len(s)
         /\ \A i \in 1 .. Len(s) : Append(s, e)[i] = s[i]
         /\ Append(s, e)[Len(s) + 1] = e
OBVIOUS

\* The queues of a login and its answer, message by message.
LEMMA Literals ==
  /\ Append(<<>>, "login") = <<"login">> /\ Tail(<<"login">>) = <<>>
  /\ DOMAIN <<"login">> = {1} /\ <<"login">>[1] = "login"
  /\ Append(<<>>, "error") = <<"error">> /\ Append(<<>>, "ready") = <<"ready">>
  /\ Append(<<"ready">>, "error") = <<"ready", "error">>
<1>1. Append(<<>>, "login") = <<"login">>
  OBVIOUS
<1>2. Tail(<<"login">>) = <<>>
  OBVIOUS
<1>3. DOMAIN <<"login">> = {1} /\ <<"login">>[1] = "login"
  OBVIOUS
<1>4. Append(<<>>, "error") = <<"error">> /\ Append(<<>>, "ready") = <<"ready">>
  OBVIOUS
<1>5. Append(<<"ready">>, "error") = <<"ready", "error">>
  <2>1. /\ <<"ready">> \in Seq(ToPage) /\ <<"ready", "error">> \in Seq(ToPage)
        /\ Append(<<"ready">>, "error") \in Seq(ToPage)
    BY DEF ToPage
  <2>2. Len(Append(<<"ready">>, "error")) = 2 /\ Len(<<"ready", "error">>) = 2
    OBVIOUS
  <2>3. \A i \in 1 .. 2 : Append(<<"ready">>, "error")[i] = <<"ready", "error">>[i]
    OBVIOUS
  <2> QED BY <2>1, <2>2, <2>3, SeqEqual
<1> QED BY <1>1, <1>2, <1>3, <1>4, <1>5

----------------------------------------------------------------------------
(* The invariant at the start, and after every action.                     *)

\* The page as it is first rendered.
LEMMA InitInv == Init => IInv
<1> SUFFICES ASSUME Init PROVE IInv
  OBVIOUS
<1> USE WebClientConstants DEF Init
<1>0. Flags
  BY Zenon DEF Flags
<1>1. Values
  BY DEF Values
<1>2. StatusHonest /\ SocketOwns
  BY DEF StatusHonest, SocketOwns
<1>3. OneLoginUnderWay /\ LoginWaits
  BY DEF OneLoginUnderWay, LoginWaits, Waiting, Sent
<1>4. LoggedOutPage /\ LoggedInPage
  BY DEF LoggedOutPage, LoggedInPage
<1> QED BY <1>0, <1>1, <1>2, <1>3, <1>4, Types DEF IInv

\* Tails, for the messages to the gateway.
LEMMA UpTail ==
  ASSUME NEW s \in Seq(ToGateway), s # <<>>
  PROVE  /\ Tail(s) \in Seq(ToGateway) /\ Head(s) = s[1] /\ Len(s) \in Nat \ {0}
         /\ Len(Tail(s)) = Len(s) - 1 /\ DOMAIN Tail(s) = 1 .. Len(s) - 1
         /\ \A i \in 1 .. Len(s) - 1 : Tail(s)[i] = s[i + 1]
BY Tails, Zenon

\* Added, for the messages to the gateway.
LEMMA UpAdded ==
  ASSUME NEW s \in Seq(ToGateway), NEW e \in ToGateway
  PROVE  /\ Append(s, e) \in Seq(ToGateway) /\ Append(s, e) # <<>>
         /\ Len(s) \in Nat /\ Len(Append(s, e)) = Len(s) + 1
         /\ DOMAIN Append(s, e) = 1 .. Len(s) + 1 /\ DOMAIN s = 1 .. Len(s)
         /\ \A i \in 1 .. Len(s) : Append(s, e)[i] = s[i]
         /\ Append(s, e)[Len(s) + 1] = e
OBVIOUS

\* Added, for the messages to the page.
LEMMA DownAdded ==
  ASSUME NEW s \in Seq(ToPage), NEW e \in ToPage
  PROVE  /\ Append(s, e) \in Seq(ToPage) /\ Append(s, e) # <<>>
         /\ Len(s) \in Nat /\ Len(Append(s, e)) = Len(s) + 1
         /\ DOMAIN Append(s, e) = 1 .. Len(s) + 1 /\ DOMAIN s = 1 .. Len(s)
         /\ \A i \in 1 .. Len(s) : Append(s, e)[i] = s[i]
         /\ Append(s, e)[Len(s) + 1] = e
OBVIOUS

\* The first effect opens a connection; nothing has been clicked yet.
LEMMA MountKeeps ==
  ASSUME IInv, Mount
  PROVE  IInv'
<1> USE DEF IInv, Mount, Opening, transport, page, gateway
<1>0. Flags'
  BY Types, Zenon DEF Flags
<1> USE Types
<1>1. Values'
  BY DEF Values, ToGateway, ToPage
<1>2. StatusHonest'
  BY DEF StatusHonest
<1>3. OneLoginUnderWay'
  BY DEF OneLoginUnderWay, Sent
<1>4. SocketOwns'
  BY DEF StatusHonest, SocketOwns
<1>5. LoginWaits'
  BY DEF LoginWaits, Waiting, Sent
<1>6. LoggedOutPage'
  BY DEF StatusHonest, SocketOwns, LoggedOutPage
<1>7. LoggedInPage'
  BY DEF StatusHonest, SocketOwns, LoggedInPage
<1>8. TypeOK'
  BY <1>0, <1>1, Zenon DEF Flags, Values, TypeOK, ToGateway, ToPage
<1> QED BY <1>2, <1>3, <1>4, <1>5, <1>6, <1>7, <1>8

\* Or none, for good: nothing else has changed.
LEMMA MountFailsKeeps ==
  ASSUME IInv, MountFails
  PROVE  IInv'
<1> USE DEF IInv, MountFails, page, gateway
<1>0. Flags'
  BY Types, Zenon DEF Flags
<1> USE Types
<1>1. Values'
  BY DEF Values, ToGateway, ToPage
<1>2. StatusHonest'
  BY DEF StatusHonest
<1>3. OneLoginUnderWay'
  BY DEF OneLoginUnderWay, Sent
<1>4. SocketOwns'
  BY DEF StatusHonest, SocketOwns
<1>5. LoginWaits'
  BY DEF LoginWaits, Waiting, Sent
<1>6. LoggedOutPage'
  BY DEF StatusHonest, SocketOwns, LoggedOutPage
<1>7. LoggedInPage'
  BY DEF StatusHonest, SocketOwns, LoggedInPage
<1>8. TypeOK'
  BY <1>0, <1>1, Zenon DEF Flags, Values, TypeOK, ToGateway, ToPage
<1> QED BY <1>2, <1>3, <1>4, <1>5, <1>6, <1>7, <1>8

\* connect() again, when the timer fires: the timer is gone, nothing is under way.
LEMMA ReconnectKeeps ==
  ASSUME IInv, Reconnect
  PROVE  IInv'
<1> USE DEF IInv, Reconnect, Opening, transport, page, gateway
<1>0. Flags'
  BY Types, Zenon DEF Flags
<1> USE Types
<1>1. Values'
  BY DEF Values, ToGateway, ToPage
<1>2. StatusHonest'
  BY DEF StatusHonest
<1>3. OneLoginUnderWay'
  BY DEF OneLoginUnderWay, Sent
<1>4. SocketOwns'
  BY DEF StatusHonest, SocketOwns
<1>5. LoginWaits'
  BY DEF LoginWaits, Waiting, Sent
<1>6. LoggedOutPage'
  BY DEF LoggedOutPage
<1>7. LoggedInPage'
  BY DEF LoggedInPage
<1>8. TypeOK'
  BY <1>0, <1>1, Zenon DEF Flags, Values, TypeOK, ToGateway, ToPage
<1> QED BY <1>2, <1>3, <1>4, <1>5, <1>6, <1>7, <1>8

\* onopen sends the login that waited, and it waits no more.
LEMMA OnOpenKeeps ==
  ASSUME IInv, OnOpen
  PROVE  IInv'
<1> USE DEF IInv, OnOpen, transport, page, gateway
<1>0. Flags'
  BY Types, Zenon DEF Flags
<1> USE Types
<1>1. Values'
  <2>1. up' \in Seq(ToGateway)
    <3>1. up \in Seq(ToGateway) /\ "login" \in ToGateway
      BY DEF Values, ToGateway
    <3>2. Append(up, "login") \in Seq(ToGateway)
      BY <3>1, Added
    <3> QED BY <3>1, <3>2
  <2> QED BY <2>1, WebClientConstants DEF Values
<1>2. StatusHonest'
  BY DEF StatusHonest
<1>3. OneLoginUnderWay'
  BY DEF OneLoginUnderWay, Sent
<1>4. SocketOwns'
  BY DEF SocketOwns
<1>5. LoginWaits'
  BY DEF LoginWaits, Waiting, Sent
<1>6. LoggedOutPage'
  BY DEF SocketOwns, LoggedOutPage
<1>7. LoggedInPage'
  BY DEF SocketOwns, LoggedInPage
<1>8. TypeOK'
  BY <1>0, <1>1, Zenon DEF Flags, Values, TypeOK, ToGateway, ToPage
<1> QED BY <1>2, <1>3, <1>4, <1>5, <1>6, <1>7, <1>8

\* onerror and onclose: the next attempt is scheduled, or the page is logged out.
LEMMA OnRefusedKeeps ==
  ASSUME IInv, OnRefused
  PROVE  IInv'
<1> USE DEF IInv, OnRefused, Closing, Retries, Failed, transport, page, gateway
<1>0. Flags'
  BY Types, Zenon DEF Flags
<1> USE Types
<1>1. Values'
  BY WebClientConstants DEF Values, ToGateway, ToPage
<1>2. StatusHonest'
  BY DEF StatusHonest
<1>3. OneLoginUnderWay'
  BY DEF OneLoginUnderWay, Sent
<1>4. SocketOwns'
  BY DEF SocketOwns
<1>5. LoginWaits'
  BY DEF LoginWaits, Waiting, Sent
<1>6. LoggedOutPage'
  BY DEF SocketOwns, LoggedOutPage
<1>7. LoggedInPage'
  BY DEF LoggedInPage
<1>8. TypeOK'
  BY <1>0, <1>1, Zenon DEF Flags, Values, TypeOK, ToGateway, ToPage
<1> QED BY <1>2, <1>3, <1>4, <1>5, <1>6, <1>7, <1>8

\* onclose of an open connection: what was under way is lost with it.
LEMMA OnLostKeeps ==
  ASSUME IInv, OnLost
  PROVE  IInv'
<1> USE DEF IInv, OnLost, Closing, Retries, Failed, transport, page, gateway
<1>0. Flags'
  BY Types, Zenon DEF Flags
<1> USE Types
<1>1. Values'
  BY WebClientConstants DEF Values, ToGateway, ToPage
<1>2. StatusHonest'
  BY DEF StatusHonest
<1>3. OneLoginUnderWay'
  BY DEF OneLoginUnderWay, Sent
<1>4. SocketOwns'
  BY DEF SocketOwns
<1>5. LoginWaits'
  BY DEF LoginWaits, Waiting, Sent
<1>6. LoggedOutPage'
  BY DEF LoggedOutPage
<1>7. LoggedInPage'
  BY DEF LoggedInPage
<1>8. TypeOK'
  BY <1>0, <1>1, Zenon DEF Flags, Values, TypeOK, ToGateway, ToPage
<1> QED BY <1>2, <1>3, <1>4, <1>5, <1>6, <1>7, <1>8

\* onclose, after the last answer of the gateway has been shown.
LEMMA OnClosedKeeps ==
  ASSUME IInv, OnClosed
  PROVE  IInv'
<1> USE DEF IInv, OnClosed, Closing, Retries, Failed, transport, page, gateway
<1>0. Flags'
  BY Types, Zenon DEF Flags
<1> USE Types
<1>1. Values'
  BY WebClientConstants DEF Values, ToGateway, ToPage
<1>2. StatusHonest'
  BY DEF StatusHonest
<1>3. OneLoginUnderWay'
  BY DEF OneLoginUnderWay, Sent
<1>4. SocketOwns'
  BY DEF SocketOwns
<1>5. LoginWaits'
  BY DEF LoginWaits, Waiting, Sent
<1>6. LoggedOutPage'
  BY DEF LoggedOutPage
<1>7. LoggedInPage'
  BY DEF LoggedInPage
<1>8. TypeOK'
  BY <1>0, <1>1, Zenon DEF Flags, Values, TypeOK, ToGateway, ToPage
<1> QED BY <1>2, <1>3, <1>4, <1>5, <1>6, <1>7, <1>8

\* stateRef follows the state, once nothing on its way depends on the old one.
LEMMA RenderKeeps ==
  ASSUME IInv, Render
  PROVE  IInv'
<1> USE DEF IInv, Render, transport, page, gateway
<1>0. Flags'
  BY Types, Zenon DEF Flags
<1> USE Types
<1>1. Values'
  BY DEF Values, ToGateway, ToPage
<1>2. StatusHonest'
  BY DEF StatusHonest
<1>3. OneLoginUnderWay'
  BY DEF OneLoginUnderWay, Sent
<1>4. SocketOwns'
  BY DEF SocketOwns
<1>5. LoginWaits'
  BY DEF LoginWaits, Waiting, Sent
<1>6. LoggedOutPage'
  BY DEF LoggedOutPage
<1>7. LoggedInPage'
  BY DEF LoggedInPage
<1>8. TypeOK'
  BY <1>0, <1>1, Zenon DEF Flags, Values, TypeOK, ToGateway, ToPage
<1> QED BY <1>2, <1>3, <1>4, <1>5, <1>6, <1>7, <1>8

\* A click on the login screen: sent or kept, never both.
LEMMA LoginKeeps ==
  ASSUME IInv, Login
  PROVE  IInv'
<1> USE DEF IInv, Login, isConnected, transport, page, gateway
<1>0. Flags'
  BY Types, Zenon DEF Flags
<1> USE Types
<1>1. Values'
  <2>1. up' \in Seq(ToGateway)
    <3>1. up \in Seq(ToGateway) /\ "login" \in ToGateway
      BY DEF Values, ToGateway
    <3>2. Append(up, "login") \in Seq(ToGateway)
      BY <3>1, Added
    <3> QED BY <3>1, <3>2
  <2>2. clicks' \in 0..Clicks
    BY WebClientConstants DEF Values
  <2> QED BY <2>1, <2>2 DEF Values
<1>2. StatusHonest'
  BY DEF StatusHonest
<1>3. OneLoginUnderWay'
  <2>1. Sent = {} /\ session # "claiming"
    BY DEF LoginWaits, Waiting
  <2>2. CASE isConnected
    <3>1. /\ DOMAIN up' = 1 .. Len(up) + 1 /\ DOMAIN up = 1 .. Len(up) /\ Len(up) \in Nat
          /\ \A i \in 1 .. Len(up) : up'[i] = up[i]
      BY <2>2, Added DEF Values, ToGateway
    <3>2. \A i \in Sent' : i = Len(up) + 1
      BY <2>1, <3>1 DEF Sent
    <3>3. ~pendingAuth'
      BY <2>2 DEF SocketOwns
    <3> QED BY <2>1, <3>2, <3>3 DEF OneLoginUnderWay
  <2>3. CASE ~isConnected
    BY <2>1, <2>3 DEF OneLoginUnderWay, Sent, StatusHonest
  <2> QED BY <2>2, <2>3
<1>4. SocketOwns'
  BY DEF StatusHonest, SocketOwns
<1>5. LoginWaits'
  BY DEF LoginWaits, LoggedOutPage, Waiting, Sent
<1>6. LoggedOutPage'
  BY Literals DEF LoginWaits, LoggedOutPage, Waiting, Sent
<1>7. LoggedInPage'
  BY DEF LoggedInPage
<1>8. TypeOK'
  BY <1>0, <1>1, Zenon DEF Flags, Values, TypeOK, ToGateway, ToPage
<1> QED BY <1>2, <1>3, <1>4, <1>5, <1>6, <1>7, <1>8

\* A click in the chat: what is sent is no login.
LEMMA SendKeeps ==
  ASSUME IInv, NEW m \in {"logout", "nick"}, Send(m)
  PROVE  IInv'
<1> USE DEF IInv, Send, transport, page, gateway
<1>0. Flags'
  BY Types, Zenon DEF Flags
<1> USE Types
<1>1. Values'
  BY WebClientConstants DEF Values, ToGateway, ToPage
<1>2. StatusHonest'
  BY DEF StatusHonest
<1>3. OneLoginUnderWay'
  BY DEF OneLoginUnderWay, Sent
<1>4. SocketOwns'
  BY DEF SocketOwns
<1>5. LoginWaits'
  BY DEF LoginWaits, Waiting, Sent
<1>6. LoggedOutPage'
  BY DEF LoggedOutPage
<1>7. LoggedInPage'
  BY DEF LoggedInPage
<1>8. TypeOK'
  BY <1>0, <1>1, Zenon DEF Flags, Values, TypeOK, ToGateway, ToPage
<1> QED BY <1>2, <1>3, <1>4, <1>5, <1>6, <1>7, <1>8

\* `ready` is the one answer to a login.
LEMMA OnReadyKeeps ==
  ASSUME IInv, OnReady
  PROVE  IInv'
<1> USE DEF IInv, OnReady, Receives, transport, page, gateway
<1>0. Flags'
  BY Types, Zenon DEF Flags
<1> USE Types
<1>1. Values'
  BY DEF Values, ToGateway, ToPage
<1>2. StatusHonest'
  BY DEF StatusHonest
<1>3. OneLoginUnderWay'
  BY DEF OneLoginUnderWay, Sent
<1>4. SocketOwns'
  BY DEF StatusHonest, SocketOwns
<1>5. LoginWaits'
  BY DEF LoginWaits, Waiting, Sent
<1>6. LoggedOutPage'
  BY DEF LoggedOutPage
<1>7. LoggedInPage'
  BY DEF Values, LoggedOutPage, LoggedInPage
<1>8. TypeOK'
  BY <1>0, <1>1, Zenon DEF Flags, Values, TypeOK, ToGateway, ToPage
<1> QED BY <1>2, <1>3, <1>4, <1>5, <1>6, <1>7, <1>8

\* `loggedOut` is the last word of its session.
LEMMA OnLoggedOutKeeps ==
  ASSUME IInv, OnLoggedOut
  PROVE  IInv'
<1> USE DEF IInv, OnLoggedOut, Receives, transport, page, gateway
<1>0. Flags'
  BY Types, Zenon DEF Flags
<1> USE Types
<1>1. Values'
  BY DEF Values, ToGateway, ToPage
<1>2. StatusHonest'
  BY DEF StatusHonest
<1>3. OneLoginUnderWay'
  BY DEF OneLoginUnderWay, Sent
<1>4. SocketOwns'
  BY DEF StatusHonest, SocketOwns
<1>5. LoginWaits'
  BY DEF LoginWaits, Waiting, Sent
<1>6. LoggedOutPage'
  BY DEF Values, LoggedOutPage, LoggedInPage
<1>7. LoggedInPage'
  BY DEF LoggedInPage
<1>8. TypeOK'
  BY <1>0, <1>1, Zenon DEF Flags, Values, TypeOK, ToGateway, ToPage
<1> QED BY <1>2, <1>3, <1>4, <1>5, <1>6, <1>7, <1>8

\* An error leaves the chat as it is, or ends the wait of the login screen.
LEMMA OnErrorKeeps ==
  ASSUME IInv, OnError
  PROVE  IInv'
<1> USE DEF IInv, OnError, Receives, transport, page, gateway
<1>0. Flags'
  BY Types, Zenon DEF Flags
<1> USE Types
<1>1. Values'
  BY DEF Values, ToGateway, ToPage
<1>2. StatusHonest'
  BY DEF StatusHonest
<1>3. OneLoginUnderWay'
  BY DEF OneLoginUnderWay, Sent
<1>4. SocketOwns'
  BY DEF SocketOwns
<1>5. LoginWaits'
  BY DEF LoginWaits, Waiting, Sent
<1>6. LoggedOutPage'
  BY DEF Values, LoggedOutPage
<1>7. LoggedInPage'
  BY DEF LoggedInPage
<1>8. TypeOK'
  BY <1>0, <1>1, Zenon DEF Flags, Values, TypeOK, ToGateway, ToPage
<1> QED BY <1>2, <1>3, <1>4, <1>5, <1>6, <1>7, <1>8

\* handleAuth takes the login: the session claims, or the page is told.
LEMMA GwLoginKeeps ==
  ASSUME IInv, GwLogin
  PROVE  IInv'
<1> USE DEF IInv, GwLogin, Takes, Tells, GwRest, transport, page, gateway
<1>0. Flags'
  BY Types, Zenon DEF Flags
<1> USE Types
<1>1. Values'
  BY UpTail, DownAdded DEF Values, ToGateway, ToPage
<1>2. StatusHonest'
  BY DEF StatusHonest
<1>3. OneLoginUnderWay'
  BY DEF OneLoginUnderWay, Sent
<1>4. SocketOwns'
  BY DEF SocketOwns
<1>5. LoginWaits'
  <2>1. up \in Seq(ToGateway) /\ up # <<>> /\ Head(up) = "login" /\ up' = Tail(up)
    BY DEF Values
  <2>2. /\ up[1] = "login" /\ Len(up) \in Nat \ {0} /\ DOMAIN up = 1 .. Len(up)
        /\ DOMAIN up' = 1 .. Len(up) - 1 /\ \A i \in 1 .. Len(up) - 1 : up'[i] = up[i + 1]
    BY <2>1, UpTail
  <2>3. 1 \in Sent
    BY <2>2 DEF Sent
  <2>4. /\ \A i \in Sent : i = 1
        /\ session # "claiming" /\ ~pendingAuth /\ ~pendingAuth'
    BY <2>3 DEF OneLoginUnderWay
  <2>5. Sent' = {}
    <3>1. ASSUME NEW i \in Sent' PROVE FALSE
      <4>1. i \in 1 .. Len(up) - 1 /\ up[i + 1] = "login" /\ i + 1 \in DOMAIN up
        BY <2>2 DEF Sent
      <4>2. i + 1 \in Sent /\ i + 1 # 1
        BY <4>1 DEF Sent
      <4> QED BY <2>4, <4>2
    <3> QED BY <3>1
  <2>6. authenticating' /\ ~userId' /\ ~ref' /\ down = <<>>
    BY <2>3 DEF LoginWaits, Waiting
  <2> QED BY <2>4, <2>5, <2>6 DEF LoginWaits, Waiting
<1>6. LoggedOutPage'
  BY UpTail DEF LoginWaits, LoggedOutPage, Waiting, Sent
<1>7. LoggedInPage'
  BY DEF LoggedInPage
<1>8. TypeOK'
  BY <1>0, <1>1, Zenon DEF Flags, Values, TypeOK, ToGateway, ToPage
<1> QED BY <1>2, <1>3, <1>4, <1>5, <1>6, <1>7, <1>8

\* announceReady or a refusal: the login is answered once.
LEMMA GwClaimedKeeps ==
  ASSUME IInv, GwClaimed
  PROVE  IInv'
<1> USE DEF IInv, GwClaimed, Tells, GwRest, transport, page, gateway
<1>0. Flags'
  BY Types, Zenon DEF Flags
<1> USE Types
<1>1. Values'
  <2>1. down \in Seq(ToPage) /\ "ready" \in ToPage /\ "error" \in ToPage
    BY DEF Values, ToPage
  <2>2. down' \in Seq(ToPage)
    BY <2>1
  <2> QED BY <2>2 DEF Values
<1>2. StatusHonest'
  BY DEF StatusHonest
<1>3. OneLoginUnderWay'
  BY DEF OneLoginUnderWay, Sent
<1>4. SocketOwns'
  BY DEF SocketOwns
<1>5. LoginWaits'
  BY DEF OneLoginUnderWay, LoginWaits, Waiting, Sent
<1>6. LoggedOutPage'
  BY DEF LoginWaits, LoggedOutPage, Waiting
<1>7. LoggedInPage'
  BY DEF LoginWaits, LoggedInPage, Waiting
<1>8. TypeOK'
  BY <1>0, <1>1, Zenon DEF Flags, Values, TypeOK, ToGateway, ToPage
<1> QED BY <1>2, <1>3, <1>4, <1>5, <1>6, <1>7, <1>8

\* handleLogout: `loggedOut` goes out after everything else.
LEMMA GwLogoutKeeps ==
  ASSUME IInv, GwLogout
  PROVE  IInv'
<1> USE DEF IInv, GwLogout, Takes, Tells, GwRest, transport, page, gateway
<1>0. Flags'
  BY Types, Zenon DEF Flags
<1> USE Types
<1>1. Values'
  BY UpTail, DownAdded DEF Values, ToGateway, ToPage
<1>2. StatusHonest'
  BY DEF StatusHonest
<1>3. OneLoginUnderWay'
  BY DEF OneLoginUnderWay, Sent
<1>4. SocketOwns'
  BY DEF SocketOwns
<1>5. LoginWaits'
  BY DEF Values, LoginWaits, LoggedOutPage, Waiting, Sent
<1>6. LoggedOutPage'
  BY DEF LoggedOutPage
<1>7. LoggedInPage'
  <2>1. \A i \in DOMAIN down : userId => down[i] = "error"
    BY DEF LoggedInPage
  <2>2. \/ down' = down
        \/ down' = Append(down, "error")
        \/ down' = Append(down, "loggedOut") /\ session' = "closed"
    OBVIOUS
  <2>3. DOMAIN down = 1 .. Len(down) /\ Len(down) \in Nat
    BY DEF Values
  <2>4. ASSUME NEW e \in ToPage, down' = Append(down, e)
        PROVE  /\ DOMAIN down' = 1 .. Len(down) + 1 /\ Len(down') = Len(down) + 1
               /\ \A i \in 1 .. Len(down) : down'[i] = down[i]
               /\ down'[Len(down) + 1] = e
    BY <2>4, Added DEF Values
  <2> QED BY <2>1, <2>2, <2>3, <2>4 DEF LoggedInPage, ToPage
<1>8. TypeOK'
  BY <1>0, <1>1, Zenon DEF Flags, Values, TypeOK, ToGateway, ToPage
<1> QED BY <1>2, <1>3, <1>4, <1>5, <1>6, <1>7, <1>8

\* setNickname: an error or nothing.
LEMMA GwNickKeeps ==
  ASSUME IInv, GwNick
  PROVE  IInv'
<1> USE DEF IInv, GwNick, Takes, Tells, GwRest, transport, page, gateway
<1>0. Flags'
  BY Types, Zenon DEF Flags
<1> USE Types
<1>1. Values'
  BY UpTail, DownAdded DEF Values, ToGateway, ToPage
<1>2. StatusHonest'
  BY DEF StatusHonest
<1>3. OneLoginUnderWay'
  BY DEF Values, OneLoginUnderWay, LoginWaits, LoggedOutPage, Sent
<1>4. SocketOwns'
  BY DEF SocketOwns
<1>5. LoginWaits'
  BY DEF Values, LoginWaits, LoggedOutPage, Waiting, Sent
<1>6. LoggedOutPage'
  BY DEF LoggedOutPage
<1>7. LoggedInPage'
  <2>1. \A i \in DOMAIN down : userId => down[i] = "error"
    BY DEF LoggedInPage
  <2>2. \/ down' = down
        \/ down' = Append(down, "error")
    OBVIOUS
  <2>3. DOMAIN down = 1 .. Len(down) /\ Len(down) \in Nat
    BY DEF Values
  <2>4. ASSUME NEW e \in ToPage, down' = Append(down, e)
        PROVE  /\ DOMAIN down' = 1 .. Len(down) + 1 /\ Len(down') = Len(down) + 1
               /\ \A i \in 1 .. Len(down) : down'[i] = down[i]
               /\ down'[Len(down) + 1] = e
    BY <2>4, Added DEF Values
  <2> QED BY <2>1, <2>2, <2>3, <2>4 DEF LoggedInPage, ToPage
<1>8. TypeOK'
  BY <1>0, <1>1, Zenon DEF Flags, Values, TypeOK, ToGateway, ToPage
<1> QED BY <1>2, <1>3, <1>4, <1>5, <1>6, <1>7, <1>8

\* onBackendClosed: an error, and the session is closed.
LEMMA GwBackendLostKeeps ==
  ASSUME IInv, GwBackendLost
  PROVE  IInv'
<1> USE DEF IInv, GwBackendLost, Tells, GwRest, transport, page, gateway
<1>0. Flags'
  BY Types, Zenon DEF Flags
<1> USE Types
<1>1. Values'
  BY DEF Values, ToGateway, ToPage
<1>2. StatusHonest'
  BY DEF StatusHonest
<1>3. OneLoginUnderWay'
  BY DEF OneLoginUnderWay, Sent
<1>4. SocketOwns'
  BY DEF SocketOwns
<1>5. LoginWaits'
  BY DEF OneLoginUnderWay, LoginWaits, LoggedOutPage, Waiting, Sent
<1>6. LoggedOutPage'
  <2>1. CASE session = "claiming"
    BY <2>1, Literals DEF LoginWaits, Waiting, LoggedOutPage
  <2>2. CASE session = "ready" /\ ~userId
    <3>1. down = <<"ready">> /\ ~ref /\ authenticating
      BY <2>2 DEF LoggedOutPage
    <3> QED BY <2>2, <3>1, Literals DEF LoggedOutPage
  <2>3. CASE userId
    BY <2>3 DEF LoggedOutPage
  <2> QED BY <2>1, <2>2, <2>3
<1>7. LoggedInPage'
  BY DEF LoggedInPage
<1>8. TypeOK'
  BY <1>0, <1>1, Zenon DEF Flags, Values, TypeOK, ToGateway, ToPage
<1> QED BY <1>2, <1>3, <1>4, <1>5, <1>6, <1>7, <1>8

\* No task of the browser and no step of the gateway breaks the invariant.
LEMMA InvStep == IInv /\ [Next]_vars => IInv'
<1> SUFFICES ASSUME IInv, [Next]_vars PROVE IInv'
  OBVIOUS
<1>1. CASE Mount \/ MountFails
  BY <1>1, MountKeeps, MountFailsKeeps
<1>2. CASE Reconnect
  BY <1>2, ReconnectKeeps
<1>3. CASE OnOpen
  BY <1>3, OnOpenKeeps
<1>4. CASE OnRefused
  BY <1>4, OnRefusedKeeps
<1>5. CASE OnLost
  BY <1>5, OnLostKeeps
<1>6. CASE OnClosed
  BY <1>6, OnClosedKeeps
<1>7. CASE Render
  BY <1>7, RenderKeeps
<1>8. CASE Login
  BY <1>8, LoginKeeps
<1>9. CASE \E m \in {"logout", "nick"} : Send(m)
  BY <1>9, SendKeeps
<1>10. CASE OnReady
  BY <1>10, OnReadyKeeps
<1>11. CASE OnLoggedOut
  BY <1>11, OnLoggedOutKeeps
<1>12. CASE OnError
  BY <1>12, OnErrorKeeps
<1>13. CASE GwLogin
  BY <1>13, GwLoginKeeps
<1>14. CASE GwClaimed
  BY <1>14, GwClaimedKeeps
<1>15. CASE GwLogout
  BY <1>15, GwLogoutKeeps
<1>16. CASE GwNick
  BY <1>16, GwNickKeeps
<1>17. CASE GwBackendLost
  BY <1>17, GwBackendLostKeeps
<1>18. CASE UNCHANGED vars
  <2>1. UNCHANGED <<status, socket, attempts, timer, pendingAuth, userId, authenticating,
                    ref, up, down, session, clicks>>
    BY <1>18 DEF vars, transport, page, gateway
  <2> QED BY <2>1 DEF IInv, TypeOK, StatusHonest, OneLoginUnderWay, SocketOwns, LoginWaits,
             Waiting, Sent, LoggedOutPage, LoggedInPage
<1> QED BY <1>1, <1>2, <1>3, <1>4, <1>5, <1>6, <1>7, <1>8, <1>9, <1>10, <1>11, <1>12, <1>13, <1>14, <1>15, <1>16, <1>17, <1>18 DEF Next, Events, Answers

----------------------------------------------------------------------------
(* What follows for every behaviour.                                       *)

\* The invariant holds throughout: a page, its socket and its session fit
\* together (websocket-client.ts, ChatProvider.tsx).
THEOREM Invariant == Spec => []IInv
BY InitInv, InvStep, PTL DEF Spec

\* Every variable of the page stays in its set, the reconnect attempts within
\* MaxReconnectAttempts (websocket-client.ts:78-89).
THEOREM ClientTypes == Spec => []TypeOK
<1>1. IInv => TypeOK
  BY DEF IInv
<1> QED BY <1>1, Invariant, PTL

\* The status the page shows is what its socket and its timer do, however often
\* connections are refused, lost and opened again (websocket-client.ts:47-90).
THEOREM StatusIsHonest == Spec => []StatusHonest
<1>1. IInv => StatusHonest
  BY DEF IInv
<1> QED BY <1>1, Invariant, PTL

\* A login is sent once: it waits for onopen, is on its way, or is being
\* answered (ChatProvider.tsx:121-128, 149-167).
THEOREM OneLogin == Spec => []OneLoginUnderWay
<1>1. IInv => OneLoginUnderWay
  BY DEF IInv
<1> QED BY <1>1, Invariant, PTL

===============================================================================
