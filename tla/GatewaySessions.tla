-------------------------- MODULE GatewaySessions --------------------------
(***************************************************************************)
(* The life of a browser session in the gateway: gatewayServer.ts with     *)
(* session.ts, sessionManager.ts, users.ts and backendConnection.ts.       *)
(*                                                                         *)
(* Node runs one callback at a time, to its next await: an action is one   *)
(* callback.  What runs between the two halves of handleAuth is what the   *)
(* module is about: password hashing and backend.connect() are awaited,    *)
(* and everything checked before them may have changed after them.         *)
(*                                                                         *)
(* The C++ server appears as the gateway sees it, one connection per login *)
(* attempt: it welcomes, renames and closes, and broadcasts NICK to one    *)
(* connection after the other (see ThreadLinkServer for the real thing).   *)
(***************************************************************************)
EXTENDS Integers, FiniteSets, SequencesExt

CONSTANTS
  Session,       \* WebSocket connections, each a Session object
  Id,            \* account ids
  Name,          \* usernames and nicknames
  DefaultName,   \* DefaultName[n] is "User<n>"
  Accounts,      \* the users table at start: a function from ids to names
  Attempts,      \* bound: login or register messages per session
  Typed,         \* bound: the names browsers register and ask for
  Renames,       \* bound: setNickname messages in all
  Faults,        \* bound: what goes wrong in this instance
  NoId, NoName, NoTry

FaultKind == {"closeInAuth", "doubleLogin", "connectFails", "backendLost"}

ASSUME GatewayConstants ==
  /\ Accounts \in UNION {[I -> Name] : I \in SUBSET Id}
  /\ \A i, j \in DOMAIN Accounts : i # j => Accounts[i] # Accounts[j]
  /\ DefaultName \in Seq(Name)
  /\ Len(DefaultName) >= Attempts * Cardinality(Session)
  /\ \A i, j \in DOMAIN DefaultName : i # j => DefaultName[i] # DefaultName[j]
  /\ Typed \subseteq Name
  /\ Attempts \in Nat /\ Renames \in Nat
  /\ Faults \subseteq FaultKind
  /\ NoId \notin Id /\ NoName \notin Name
  /\ NoTry \notin Session \X (1..Attempts)

\* A login attempt, and the backend connection it makes if it succeeds.
Try == Session \X (1..Attempts)

VARIABLES
  ws,        \* readyState of each WebSocket ("none" before it connects)
  sess,      \* the Session objects
  roster,    \* SessionManager.byId
  users,     \* the users table
  try,       \* handleAuth: where each attempt is, and what it knows
  link,      \* each attempt's BackendConnection and its socket
  inbox,     \* events the backend sent, not yet emitted
  outbox,    \* lines sent to the backend, not yet read
  member,    \* C++ server: the nickname of each connection it welcomed
  telling,   \* C++ server: the NICK broadcast each handler is making
  view,      \* the users each browser shows online, from what it was sent
  asked,     \* setNickname messages so far (bound)
  crashed,   \* an unhandled rejection ended the process: nothing happens after
  crossed,   \* history: the connections whose name a NICK broadcast crosses
  failed     \* history: the accounts whose backend connection has failed

history == <<crossed, failed>>

vars == <<ws, sess, roster, users, try, link, inbox, outbox, member, telling,
          view, asked, crashed, crossed, failed>>

SessionRecord == [id : Id \cup {NoId}, authenticated : BOOLEAN,
                  backend : Try \cup {NoTry}, nickname : Name \cup {NoName},
                  desired : Name \cup {NoName}, ready : BOOLEAN,
                  welcomed : BOOLEAN, closed : BOOLEAN,
                  pending : Seq(Name)]

\* at: "none", "hashing" (the password), "connecting" (backend.connect()), "over".
TryRecord == [at : {"none", "hashing", "connecting", "over"},
              kind : {"register", "login"}, id : Id \cup {NoId},
              name : Name \cup {NoName}]

\* "up": wired; "lost": the server closed it and 'close' is not emitted yet;
\* "closed": the `closed` flag is set, or it never connected.
LinkState == {"none", "connecting", "up", "lost", "closed"}

EventRecord == [type : {"welcome", "nick", "err"}, old : Name \cup {NoName},
                new : Name \cup {NoName}]

\* Nobody is told yet of a rename until the handler has copied its targets.
Telling == [old : Name \cup {NoName}, new : Name \cup {NoName}, copied : BOOLEAN,
            to : SUBSET Try]
Silent == [old |-> NoName, new |-> NoName, copied |-> TRUE, to |-> {}]

----------------------------------------------------------------------------
(* What the handlers share.                                                *)

Fresh == [id |-> NoId, authenticated |-> FALSE, backend |-> NoTry,
          nickname |-> NoName, desired |-> NoName, ready |-> FALSE,
          welcomed |-> FALSE, closed |-> FALSE, pending |-> <<>>]

Init ==
  /\ ws = [s \in Session |-> "none"]
  /\ sess = [s \in Session |-> Fresh]
  /\ roster = [i \in {} |-> {}]
  /\ users = Accounts
  /\ try = [t \in Try |-> [at |-> "none", kind |-> "login", id |-> NoId, name |-> NoName]]
  /\ link = [t \in Try |-> "none"]
  /\ inbox = [t \in Try |-> <<>>]
  /\ outbox = [t \in Try |-> <<>>]
  /\ member = [t \in {} |-> {}]
  /\ telling = [t \in Try |-> Silent]
  /\ view = [s \in Session |-> {}]
  /\ asked = 0
  /\ crashed = FALSE
  /\ crossed = {}
  /\ failed = {}

Online == DOMAIN roster

NamesTaken == {users[i] : i \in DOMAIN users}

Hears(s) == ws[s] = "open"

\* The sessions broadcastToAll sends to when the Session objects are se.
Listeners(se, r) == {s \in {r[i] : i \in DOMAIN r} : se[s].welcomed /\ Hears(s)}

\* broadcastToAll of a userUpdate for user i; session x is skipped.
Appears(v, se, i, x) ==
  [s \in Session |-> IF s \in Listeners(se, roster) /\ se[s].id # x
                       THEN v[s] \cup {i} ELSE v[s]]

\* broadcastToAll of userOffline, once the user is out of the roster r.
Vanishes(v, r, i) ==
  [s \in Session |-> IF s \in Listeners(sess, r) THEN v[s] \ {i} ELSE v[s]]

\* Slip: sendReady lists every session there is, logged in or not.
SlipEverybody(v, se, s) ==
  IF Hears(s) THEN [v EXCEPT ![s] = {se[u].id : u \in {w \in Session : Hears(w)}}] ELSE v

\* Slip: sendReady lists the whole roster, welcomed or not.
SlipRoster(v, se, s) ==
  IF Hears(s) THEN [v EXCEPT ![s] = {se[u].id : u \in {roster[i] : i \in Online}}] ELSE v

\* sendReady: the browser's list of users is replaced by welcomedUsers().
Snapshot(v, se, s) ==
  IF Hears(s)
    THEN [v EXCEPT ![s] = {se[u].id : u \in {w \in {roster[i] : i \in Online} : se[w].welcomed}}]
    ELSE v

\* sendLine("/nick ...") for each of `names`.  It rejects when the connection
\* is closed, and may when its peer is gone; nobody handles the rejection.
Post(b, names) ==
  \/ /\ names = <<>> \/ link[b] # "closed"
     /\ outbox' = IF names = <<>> THEN outbox ELSE [outbox EXCEPT ![b] = @ \o names]
     /\ UNCHANGED crashed
  \/ /\ names # <<>> /\ link[b] \in {"lost", "closed"}
     /\ crashed' = TRUE
     /\ UNCHANGED outbox

\* backend?.close(): the socket is destroyed, nothing more is emitted.
Hangup(b) ==
  /\ link' = IF b = NoTry THEN link ELSE [link EXCEPT ![b] = "closed"]
  /\ inbox' = IF b = NoTry THEN inbox ELSE [inbox EXCEPT ![b] = <<>>]

Authenticating(s) == \E t \in Try : t[1] = s /\ try[t].at = "hashing"

----------------------------------------------------------------------------
(* WebSocket callbacks.                                                    *)

\* onConnection: a Session, not in the roster.
Connect(s) ==
  /\ ~crashed
  /\ ws[s] = "none"
  /\ ws' = [ws EXCEPT ![s] = "open"]
  /\ UNCHANGED <<sess, roster, users, try, link, inbox, outbox, member, telling,
                 view, asked, crashed, history>>

\* handleAuth up to the password hash: a login reads the account's row, a
\* registration finds the name unused.  (Refused at once, nothing changes.)
Auth(t, kind, n) ==
  LET s == t[1] IN
  /\ ~crashed
  /\ ws[s] \in {"open", "closing"} /\ ~sess[s].authenticated
  /\ try[t].at = "none" /\ \A k \in 1..(t[2] - 1) : try[<<s, k>>].at # "none"
  /\ "doubleLogin" \notin Faults => ~Authenticating(s)
  /\ IF kind = "register"
       THEN /\ n \in Typed \ NamesTaken
            /\ try' = [try EXCEPT ![t] = [at |-> "hashing", kind |-> kind, id |-> NoId, name |-> n]]
       ELSE \E i \in DOMAIN users :
            /\ users[i] = n
            /\ try' = [try EXCEPT ![t] = [at |-> "hashing", kind |-> kind, id |-> i, name |-> n]]
  /\ UNCHANGED <<ws, sess, roster, users, link, inbox, outbox, member, telling,
                 view, asked, crashed, history>>

\* The hash is there and it is refused: a wrong password, or (register) the
\* name was taken meanwhile and the UNIQUE constraint fails the INSERT.
AuthFails(t) ==
  /\ ~crashed
  /\ try[t].at = "hashing"
  /\ try[t].kind = "register" => try[t].name \in NamesTaken
  /\ try' = [try EXCEPT ![t].at = "over"]
  /\ UNCHANGED <<ws, sess, roster, users, link, inbox, outbox, member, telling,
                 view, asked, crashed, history>>

\* Slip: users.username is not UNIQUE.
SlipRow(t, i) ==
  IF try[t].kind = "login"
    THEN i = try[t].id /\ UNCHANGED users
    ELSE /\ i \in Id \ DOMAIN users
         /\ users' = [j \in DOMAIN users \cup {i} |-> IF j = i THEN try[t].name ELSE users[j]]

\* users.register's INSERT.
Row(t, i) ==
  IF try[t].kind = "login"
    THEN i = try[t].id /\ UNCHANGED users
    ELSE /\ try[t].name \notin NamesTaken /\ i \in Id \ DOMAIN users
         /\ users' = [j \in DOMAIN users \cup {i} |-> IF j = i THEN try[t].name ELSE users[j]]

\* Slip: an account counts as logged in once its session is ready.
SlipLoggedIn(i) == i \in Online /\ sess[roster[i]].ready

\* sessions.get(account.id), if it is not closed.
LoggedIn(i) == i \in Online /\ ~sess[roster[i]].closed

\* handleAuth after the hash: the session becomes account i's and its backend
\* connection is started, unless the account has a session that is not closed.
AuthSucceeds(t, i) ==
  LET s == t[1] IN
  /\ ~crashed
  /\ try[t].at = "hashing"
  /\ Row(t, i)
  /\ IF LoggedIn(i)
       THEN /\ try' = [try EXCEPT ![t].at = "over"]
            /\ UNCHANGED <<sess, roster, link>>
       ELSE /\ sess' = [sess EXCEPT ![s] = [@ EXCEPT !.id = i, !.authenticated = TRUE,
                                              !.desired = try[t].name, !.backend = t]]
            /\ roster' = [j \in Online \cup {i} |-> IF j = i THEN s ELSE roster[j]]
            /\ try' = [try EXCEPT ![t] = [@ EXCEPT !.at = "connecting", !.id = i]]
            /\ link' = [link EXCEPT ![t] = "connecting"]
  /\ UNCHANGED <<ws, inbox, outbox, member, telling, view, asked, crashed, history>>

\* backend.connect() resolves.
ConnectOk(t) ==
  /\ ~crashed
  /\ link[t] = "connecting"
  /\ link' = [link EXCEPT ![t] = "up"]
  /\ try' = [try EXCEPT ![t].at = "over"]
  /\ UNCHANGED <<ws, sess, roster, users, inbox, outbox, member, telling, view,
                 asked, crashed, history>>

\* backend.connect() rejects: BACKEND_UNAVAILABLE, and the roster entry goes.
ConnectFails(t) ==
  LET s == t[1] IN
  /\ ~crashed
  /\ "connectFails" \in Faults
  /\ link[t] = "connecting"
  /\ link' = [link EXCEPT ![t] = "closed"]
  /\ try' = [try EXCEPT ![t].at = "over"]
  /\ ws' = [ws EXCEPT ![s] = IF @ = "open" THEN "closing" ELSE @]
  /\ roster' = [i \in Online \ {sess[s].id} |-> roster[i]]
  /\ failed' = failed \cup {sess[s].id}
  /\ UNCHANGED <<sess, users, inbox, outbox, member, telling, view, asked, crashed,
                 crossed>>

\* requestState, once welcomed.  (Queued before that, and replayed right after
\* the same snapshot was sent.)
RequestState(s) ==
  /\ ~crashed
  /\ ws[s] \in {"open", "closing"} /\ sess[s].authenticated /\ sess[s].welcomed
  /\ view' = Snapshot(view, sess, s)
  /\ UNCHANGED <<ws, sess, roster, users, try, link, inbox, outbox, member, telling,
                 asked, crashed, history>>

\* setPresence, once welcomed: a userUpdate to everyone, ready or not.
SetPresence(s) ==
  /\ ~crashed
  /\ ws[s] \in {"open", "closing"} /\ sess[s].authenticated /\ sess[s].welcomed
  /\ view' = Appears(view, sess, sess[s].id, NoId)
  /\ UNCHANGED <<ws, sess, roster, users, try, link, inbox, outbox, member, telling,
                 asked, crashed, history>>

\* onClientRaw, setNickname: queued until the backend's WELCOME, sent after.
SetNickname(s, n) ==
  /\ ~crashed
  /\ ws[s] \in {"open", "closing"}
  /\ asked < Renames
  /\ asked' = asked + 1
  /\ IF ~sess[s].authenticated \/ ~sess[s].welcomed
       THEN /\ sess' = [sess EXCEPT ![s].pending = Append(@, n)]
            /\ UNCHANGED <<outbox, crashed>>
       ELSE Post(sess[s].backend, <<n>>) /\ UNCHANGED sess
  /\ UNCHANGED <<ws, roster, users, try, link, inbox, member, telling, view, history>>

\* handleLogout: the rest happens when the WebSocket has closed.
Logout(s) ==
  /\ ~crashed
  /\ ws[s] = "open" /\ sess[s].authenticated
  /\ ws' = [ws EXCEPT ![s] = "closing"]
  /\ UNCHANGED <<sess, roster, users, try, link, inbox, outbox, member, telling,
                 view, asked, crashed, history>>

\* onClientClosed, whoever closed the WebSocket.
WsClosed(s) ==
  /\ ~crashed
  /\ ws[s] \in {"open", "closing"}
  /\ "closeInAuth" \notin Faults => ~Authenticating(s)
  /\ ws' = [ws EXCEPT ![s] = "closed"]
  /\ sess' = [sess EXCEPT ![s].closed = TRUE]
  /\ IF sess[s].authenticated
       THEN LET r == [i \in Online \ {sess[s].id} |-> roster[i]] IN
            /\ roster' = r
            /\ Hangup(sess[s].backend)
            /\ view' = IF sess[s].welcomed THEN Vanishes(view, r, sess[s].id) ELSE view
       ELSE UNCHANGED <<roster, link, inbox, view>>
  /\ UNCHANGED <<users, try, outbox, member, telling, asked, crashed, history>>

----------------------------------------------------------------------------
(* Events of the backend connections.                                      *)

Emitted(t, type) == /\ link[t] \in {"up", "lost"}
                    /\ inbox[t] # <<>> /\ Head(inbox[t]).type = type

\* announceReady, for the session s as record r: `ready`, userUpdate to the
\* others, and what was queued is replayed.
AnnounceReady(s, r) ==
  LET se == [sess EXCEPT ![s] = [r EXCEPT !.ready = TRUE, !.pending = <<>>]] IN
  /\ sess' = se
  /\ view' = Appears(Snapshot(view, se, s), se, r.id, r.id)
  /\ Post(r.backend, r.pending)

\* Slip: whatever name the server gave will do.
SlipClaims(r) == FALSE

\* The account's name is not the one the server gave.
Claims(r) == r.desired \notin {NoName, r.nickname}

\* WELCOME: claim the account's name, or be ready at once.
OnWelcome(t) ==
  LET s == t[1]
      e == Head(inbox[t])
      r == [sess[s] EXCEPT !.welcomed = TRUE, !.nickname = e.new]
  IN
  /\ ~crashed
  /\ Emitted(t, "welcome")
  /\ inbox' = [inbox EXCEPT ![t] = Tail(@)]
  /\ IF Claims(r)
       THEN /\ sess' = [sess EXCEPT ![s] = r]
            /\ Post(r.backend, <<r.desired>>)
            /\ UNCHANGED view
       ELSE AnnounceReady(s, r)
  /\ UNCHANGED <<ws, roster, users, try, link, member, telling, asked, history>>

\* users.rename, whose collision is swallowed.
Persisted(i, n) ==
  IF \E j \in DOMAIN users \ {i} : users[j] = n THEN users ELSE [users EXCEPT ![i] = n]

\* Slip: only the rename the gateway asked for is followed.
SlipRenamed(s, e) == e.old = sess[s].nickname /\ e.new = sess[s].desired

\* A NICK is taken for the session's own when the old name is its nickname.
Renamed(s, e) == e.old = sess[s].nickname

\* NICK: the session's nickname follows, and the first one makes it ready.
OnNick(t) ==
  LET s == t[1]
      e == Head(inbox[t])
      r == [sess[s] EXCEPT !.nickname = e.new,
                           !.desired = IF @ = e.new THEN NoName ELSE @]
  IN
  /\ ~crashed
  /\ Emitted(t, "nick")
  /\ inbox' = [inbox EXCEPT ![t] = Tail(@)]
  /\ IF ~Renamed(s, e)
       THEN UNCHANGED <<sess, view, users, outbox, crashed>>
       ELSE IF ~r.ready
         THEN AnnounceReady(s, r) /\ UNCHANGED users
         ELSE LET se == [sess EXCEPT ![s] = r] IN
              /\ sess' = se
              /\ view' = Appears(view, se, r.id, NoId)
              /\ users' = Persisted(r.id, e.new)
              /\ UNCHANGED <<outbox, crashed>>
  /\ UNCHANGED <<ws, roster, try, link, member, telling, asked, history>>

\* Slip: NICK_TAKEN during a login is relayed like any other error.
SlipErr(t) ==
  /\ ~crashed
  /\ Emitted(t, "err")
  /\ inbox' = [inbox EXCEPT ![t] = Tail(@)]
  /\ UNCHANGED <<ws, sess, roster, users, try, link, outbox, member, telling, view,
                 asked, crashed, history>>

\* ERR: NICK_TAKEN before ready ends the login; any other is relayed.
OnErr(t) ==
  LET s == t[1] IN
  /\ ~crashed
  /\ Emitted(t, "err")
  /\ inbox' = [inbox EXCEPT ![t] = Tail(@)]
  /\ ws' = [ws EXCEPT ![s] = IF @ = "open" /\ ~sess[s].ready THEN "closing" ELSE @]
  /\ UNCHANGED <<sess, roster, users, try, link, outbox, member, telling, view,
                 asked, crashed, history>>

\* onBackendClosed: the WebSocket is closed in turn.
OnBackendClosed(t) ==
  LET s == t[1] IN
  /\ ~crashed
  /\ link[t] = "lost" /\ inbox[t] = <<>>
  /\ link' = [link EXCEPT ![t] = "closed"]
  /\ ws' = [ws EXCEPT ![s] = IF @ = "open" THEN "closing" ELSE @]
  /\ UNCHANGED <<sess, roster, users, try, inbox, outbox, member, telling, view,
                 asked, crashed, history>>

----------------------------------------------------------------------------
(* The C++ server, as far as these sessions depend on it.                  *)

Members == DOMAIN member

Borne == {member[u] : u \in Members}

Event(type, old, new) == [type |-> type, old |-> old, new |-> new]

Deliver(to, e) == IF link[to] = "up" THEN [inbox EXCEPT ![to] = Append(@, e)] ELSE inbox

\* t has still to be told of u's rename.
Untold(t, u) == ~telling[u].copied \/ t \in telling[u].to

\* t is given the name n, and has still to be told that another gave it up.
Overtakes(t, n) == \E u \in Try : Untold(t, u) /\ telling[u].old = n

\* accept_one, as one step: the lowest default name, and WELCOME.  A connection that
\* is refused (SERVER_FULL, an error the browser is shown, and a close) is BackendLost's.
Admit(t) ==
  /\ ~crashed
  /\ link[t] = "up" /\ t \notin Members
  /\ \E k \in DOMAIN DefaultName :
       /\ DefaultName[k] \notin Borne
       /\ \A j \in 1..(k - 1) : DefaultName[j] \in Borne
       /\ member' = [u \in Members \cup {t} |-> IF u = t THEN DefaultName[k] ELSE member[u]]
       /\ inbox' = Deliver(t, Event("welcome", NoName, DefaultName[k]))
       /\ crossed' = crossed \cup {u \in {t} : Overtakes(u, DefaultName[k])}
  /\ UNCHANGED <<ws, sess, roster, users, try, link, outbox, telling, view, asked,
                 crashed, failed>>

\* handle_nick: refused, or taken and still to be told.  Giving up a name crosses
\* whoever has given it up before and has not been told so yet.
Rename(t) ==
  /\ ~crashed
  /\ t \in Members /\ outbox[t] # <<>> /\ telling[t] = Silent
  /\ outbox' = [outbox EXCEPT ![t] = Tail(@)]
  /\ LET n == Head(outbox[t]) IN
     IF \E u \in Members \ {t} : member[u] = n
       THEN /\ inbox' = Deliver(t, Event("err", NoName, NoName))
            /\ UNCHANGED <<member, telling, crossed>>
       ELSE /\ member' = [member EXCEPT ![t] = n]
            /\ telling' = [telling EXCEPT ![t] = [old |-> member[t], new |-> n,
                                                  copied |-> FALSE, to |-> {}]]
            /\ crossed' = crossed \cup {u \in {t} : Overtakes(u, n)}
                                  \cup {u \in Try : Untold(u, u) /\ telling[u].old = member[t]}
            /\ UNCHANGED inbox
  /\ UNCHANGED <<ws, sess, roster, users, try, link, view, asked, crashed, failed>>

\* broadcast(): the targets are copied, some time after the rename.
CopyTargets(t) ==
  /\ ~crashed
  /\ ~telling[t].copied
  /\ telling' = [telling EXCEPT ![t] = [@ EXCEPT !.copied = TRUE, !.to = Members]]
  /\ UNCHANGED <<ws, sess, roster, users, try, link, inbox, outbox, member, view,
                 asked, crashed, history>>

\* broadcast(): one target after the other.
Tell(t, u) ==
  /\ ~crashed
  /\ u \in telling[t].to
  /\ inbox' = Deliver(u, Event("nick", telling[t].old, telling[t].new))
  /\ LET left == telling[t].to \ {u} IN
     telling' = [telling EXCEPT ![t] = IF left = {} THEN Silent ELSE [@ EXCEPT !.to = left]]
  /\ UNCHANGED <<ws, sess, roster, users, try, link, outbox, member, view, asked,
                 crashed, history>>

Without(t) == [u \in Members \ {t} |-> member[u]]

\* The handler finds its connection closed by the gateway, which may take
\* any time: the name stays taken until then.
Drop(t) ==
  /\ ~crashed
  /\ link[t] = "closed" /\ t \in Members /\ telling[t] = Silent
  /\ member' = Without(t)
  /\ telling' = [u \in Try |-> IF telling[u].to = {t} THEN Silent
                               ELSE [telling[u] EXCEPT !.to = @ \ {t}]]
  /\ UNCHANGED <<ws, sess, roster, users, try, link, inbox, outbox, view, asked,
                 crashed, history>>

\* The server shuts a connection down.
BackendLost(t) ==
  /\ ~crashed
  /\ "backendLost" \in Faults
  /\ link[t] = "up" /\ telling[t] = Silent
  /\ link' = [link EXCEPT ![t] = "lost"]
  /\ member' = Without(t)
  /\ telling' = [u \in Try |-> IF telling[u].to = {t} THEN Silent
                               ELSE [telling[u] EXCEPT !.to = @ \ {t}]]
  /\ UNCHANGED <<ws, sess, roster, users, try, inbox, outbox, view, asked, crashed,
                 history>>

----------------------------------------------------------------------------
(* The specification.                                                      *)

FromBrowser(s) ==
  \/ Connect(s)
  \/ \E k \in 1..Attempts, kind \in {"register", "login"}, n \in Name : Auth(<<s, k>>, kind, n)
  \/ \E n \in Typed : SetNickname(s, n)
  \/ RequestState(s)
  \/ SetPresence(s)
  \/ Logout(s)
  \/ WsClosed(s)

Hashed(t) == AuthFails(t) \/ \E i \in Id : AuthSucceeds(t, i)

Connected(t) == ConnectOk(t) \/ ConnectFails(t)

FromBackend(t) == OnWelcome(t) \/ OnNick(t) \/ OnErr(t) \/ OnBackendClosed(t)

ServerStep(t) ==
  Admit(t) \/ Rename(t) \/ CopyTargets(t) \/ (\E u \in Try : Tell(t, u)) \/ Drop(t)

Next ==
  \/ \E s \in Session : FromBrowser(s)
  \/ \E t \in Try : Hashed(t) \/ Connected(t) \/ FromBackend(t) \/ ServerStep(t) \/ BackendLost(t)

Spec == Init /\ [][Next]_vars

\* Node runs every callback that is due: a hash that is computed, a connection
\* that is made or refused, an event that has arrived, a WebSocket whose close
\* was asked for.  The server's threads are scheduled.  Browsers do as they like.
Fairness ==
  /\ \A t \in Try : /\ WF_vars(Hashed(t))
                    /\ WF_vars(Connected(t))
                    /\ WF_vars(FromBackend(t))
                    /\ WF_vars(ServerStep(t))
  /\ \A s \in Session : WF_vars(ws[s] = "closing" /\ WsClosed(s))

FairSpec == Spec /\ Fairness

----------------------------------------------------------------------------
(* Properties.                                                             *)

\* Every variable stays in its set.
TypeOK ==
  /\ ws \in [Session -> {"none", "open", "closing", "closed"}]
  /\ sess \in [Session -> SessionRecord]
  /\ Online \subseteq Id /\ \A i \in Online : roster[i] \in Session
  /\ DOMAIN users \subseteq Id /\ \A i \in DOMAIN users : users[i] \in Name
  /\ try \in [Try -> TryRecord]
  /\ link \in [Try -> LinkState]
  /\ inbox \in [Try -> Seq(EventRecord)]
  /\ outbox \in [Try -> Seq(Name)]
  /\ Members \subseteq Try /\ \A t \in Members : member[t] \in Name
  /\ telling \in [Try -> Telling]
  /\ view \in [Session -> SUBSET Id]
  /\ asked \in 0..Renames
  /\ crashed \in BOOLEAN
  /\ crossed \subseteq Try /\ failed \subseteq Id

\* No two accounts share a username, whatever registrations and renames run
\* while a password is being hashed: register checks before the hash, and
\* INSERT and rename check again (users.ts:52-63, 84-92).
AccountsUnique ==
  \A i, j \in DOMAIN users : i # j => users[i] # users[j]

\* Whatever goes wrong, an entry of the roster is a session that logged in to
\* that account, and a session that is logged in and not closed is the entry of
\* its account, so an account has one live session; except that an account whose
\* connection to the backend has failed once may have sessions that are not in
\* the roster (gatewayServer.ts:76-91, 180-213).
RosterAccurate ==
  /\ \A i \in Online :
       \E t \in Try : t[1] = roster[i] /\ try[t].id = i /\ link[t] # "none"
  /\ \A s \in Session :
       sess[s].authenticated /\ ~sess[s].closed /\ sess[s].id \notin failed
         => sess[s].id \in Online /\ roster[sess[s].id] = s

ReadyUsers == {i \in Online : sess[roster[i]].ready}
WelcomedUsers == {i \in Online : sess[roster[i]].welcomed}

\* What `ready`, userUpdate and userOffline add up to in a browser that is
\* ready: nobody who is ready is missing, nobody who has left is shown
\* (gatewayServer.ts:88-90, 475-482, 506-512).
ViewMatchesRoster ==
  \A s \in Session : Hears(s) /\ sess[s].ready
    => ReadyUsers \subseteq view[s] /\ view[s] \subseteq WelcomedUsers

\* Nothing is under way between the session's backend connection and the server.
Settled(t) ==
  /\ link[t] = "up" /\ t \in Members
  /\ inbox[t] = <<>> /\ outbox[t] = <<>>
  /\ \A u \in Try : ~Untold(t, u)

\* Session.nickname follows the server by matching old names in NICK broadcasts
\* that every connection gets, several at once: once those for a connection are
\* in, its session has the nickname the server has for it, unless the connection
\* has borne a name while another bearer's NICK about it was on its way there
\* (gatewayServer.ts:373-398, Server.cpp:300-320).
NicknameMirrored ==
  \A s \in Session :
    LET t == sess[s].backend IN
    t # NoTry /\ t \notin crossed /\ ~crashed => (Settled(t) => sess[s].nickname = member[t])

\* A browser that is told of its login is told the name it asked for, not "a
\* transient generic default name", unless the name its connection was given
\* first is one that another bearer's NICK, still on its way there, gives up
\* (gatewayServer.ts:359-384).
AnnouncedByName ==
  [][\A s \in Session :
       Hears(s) /\ sess'[s].ready /\ ~sess[s].ready /\ sess[s].backend \notin crossed
         => sess'[s].nickname = try[sess[s].backend].name]_vars

\* A session in the roster has not closed: "the gateway removes the session and
\* broadcasts userOffline" (docs/GATEWAY_PROTOCOL.md).
NoGhosts == \A i \in Online : ~sess[roster[i]].closed

\* "Only the session whose current nickname matches `oldNick` is the one who
\* actually renamed" (gatewayServer.ts:374-378): whatever crosses, a session has
\* its connection's nickname once all that was sent is in.
OnlyItsOwnRenames ==
  \A s \in Session :
    LET t == sess[s].backend IN
    t # NoTry /\ ~crashed => (Settled(t) => sess[s].nickname = member[t])

\* createBackendConnection is "only called once" (session.ts:47-48).
OneBackendPerSession ==
  \A s \in Session : Cardinality({t \in Try : t[1] = s /\ link[t] \in {"connecting", "up", "lost"}}) <= 1

\* Two sessions are never logged in to one account (gatewayServer.ts:180-188).
OneSessionPerAccount ==
  \A s, u \in Session :
    s # u /\ ws[s] = "open" /\ ws[u] = "open" /\ sess[s].authenticated /\ sess[u].authenticated
      => sess[s].id # sess[u].id

\* Losing the backend does not end the gateway process (tests/e2e.test.ts).
NoCrash == ~crashed

\* A nickname that was changed is the account's username at the next login
\* (gatewayServer.ts:385-393).
RenamesPersist ==
  [][\A s \in Session :
       sess[s].ready /\ sess'[s].nickname # sess[s].nickname
         => users'[sess[s].id] = sess'[s].nickname]_vars

\* desiredUsername is set "to the account's persisted username"
\* (session.ts:26-29).
DesiredIsPersisted ==
  [][\A s \in Session :
       sess'[s].desired # NoName /\ sess'[s].desired # sess[s].desired
         => sess'[s].desired = users'[sess'[s].id]]_vars

\* A login that passed the password check is answered: the session becomes
\* ready, or its WebSocket is closed (gatewayServer.ts:204-213, 359-384, 442-453).
LoginAnswered ==
  \A s \in Session :
    (sess[s].authenticated /\ ws[s] = "open")
      ~> (sess[s].ready \/ ws[s] # "open" \/ crashed)

=============================================================================
