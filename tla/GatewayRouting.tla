--------------------------- MODULE GatewayRouting ---------------------------
(***************************************************************************)
(* A message from the page it is written on to the pages that show it:     *)
(* handleSendMessage, handleCreateGroup and the msg, priv and privSent     *)
(* events of gatewayServer.ts, with conversationManager.ts and             *)
(* messageStore.ts, the C++ server's broadcast and /msg in between, and    *)
(* ChatReducer at both ends.                                               *)
(*                                                                         *)
(* A message is stored once, when it is sent.  Groups are told by the      *)
(* gateway at once; public and direct messages travel through the server,  *)
(* under nicknames, while users rename, leave and come back.  Messages     *)
(* are numbered as they are stored: message m is history[m].               *)
(*                                                                         *)
(* A page has what the gateway sent it: the delay of the WebSocket, which  *)
(* keeps order, is left out, and a user's click is the gateway's handler.  *)
(* Messages stored within a millisecond keep their order in a snapshot.    *)
(*                                                                         *)
(* An account has one session and one backend connection at a time, and    *)
(* logs in again when the server has dropped its former connection: the    *)
(* other cases are GatewaySessions'.  A default nickname is given to one   *)
(* account only, and a descriptor is not reused under a broadcast: these   *)
(* are GatewaySessions' and ThreadLinkServer's.                            *)
(***************************************************************************)
EXTENDS ChatReducer

CONSTANTS
  Home,         \* the users table at start: each account's username
  Online,       \* the accounts that are logged in at start
  Guest,        \* the default nickname each account's connections are given
  NoName,       \* no nickname
  Typed,        \* bound: the nicknames users ask for
  Uses,         \* bound: what users do in this instance
  MaxMessages,  \* bound: messages stored
  MaxGroups,    \* bound: groups created
  MaxErrors,    \* bound: error lines on a page, after which its user does not
                \* repeat what is refused
  Requests,     \* bound: setNickname, requestState, and conversations opened to
                \* be read
  Logins        \* bound: logins after the start

Use == {"public", "direct", "group", "open", "leave", "logout", "requestState", "crash"}

ASSUME RoutingConstants ==
  /\ Home \in [Account -> Name] /\ Guest \in [Account -> Name]
  /\ Online \subseteq Account
  /\ \A a, b \in Account : a # b => Home[a] # Home[b] /\ Guest[a] # Guest[b]
  /\ \A a, b \in Account : Home[a] # Guest[b]
  /\ Typed \subseteq Name \ {Guest[a] : a \in Account}
  /\ NoName \notin Name /\ NoUser \notin Account \cup Name
  /\ Account \cap Name = {}
  /\ Uses \subseteq Use
  /\ {MaxMessages, MaxGroups, MaxErrors, Requests, Logins} \subseteq Nat

VARIABLES
  sess,      \* each account's session: "off" (not in the roster), "joining"
             \* (no WELCOME yet), "welcomed", "ready", "closing" (its WebSocket)
  nick,      \* Session.nickname
  users,     \* the users table
  convs,     \* conversations and conversation_members
  history,   \* messages
  page,      \* the page of each account's browser
  conn,      \* C++ server: the nickname of each connection
  inbox,     \* events the server sent, not yet emitted
  outbox,    \* lines sent to the server, not yet read
  relay,     \* C++ server: what each handler has still to send
  asked,     \* setNickname, requestState and openings so far (bound)
  logins,    \* logins so far (bound)
  lost,      \* messages the server refused, never read, or gave to another
  upto       \* the messages stored when each page got its last snapshot

vars == <<sess, nick, users, convs, history, page, conn, inbox, outbox, relay,
          asked, logins, lost, upto>>

Database == <<users, convs, history>>
Server == <<conn, inbox, outbox, relay, lost>>
Bounds == <<asked, logins>>

EventTypes == {"welcome", "nick", "msg", "priv", "privSent", "err"}
Event(type, who, new, m) == [type |-> type, who |-> who, new |-> new, m |-> m]
Line(cmd, name, m) == [cmd |-> cmd, name |-> name, m |-> m]

\* A broadcast whose targets are not copied yet, and frames to be sent.
Bcast(ev, except) == [op |-> "bcast", ev |-> ev, to |-> except]
Send(ev, to) == [op |-> "send", ev |-> ev, to |-> to]

\* The server has run for a while: the accounts of Online have logged in, and
\* the gateway has told each of the others.
Init ==
  /\ sess = [a \in Account |-> IF a \in Online THEN "ready" ELSE "off"]
  /\ nick = [a \in Account |-> IF a \in Online THEN Home[a] ELSE NoName]
  /\ users = Home
  /\ convs = [c \in {} |-> {}]
  /\ history = <<>>
  /\ page = [a \in Account |->
               IF a \in Online
                 THEN ready(InitialPage, a, [b \in Online |-> Home[b]], [c \in {} |-> {}], <<>>)
               ELSE InitialPage]
  /\ conn = nick
  /\ inbox = [a \in Account |-> <<>>]
  /\ outbox = [a \in Account |-> <<>>]
  /\ relay = [a \in Account |-> <<>>]
  /\ asked = 0
  /\ logins = 0
  /\ lost = {}
  /\ upto = [a \in Account |-> 0]

----------------------------------------------------------------------------
(* The gateway's helpers.                                                  *)

Welcomed(a) == sess[a] \in {"welcomed", "ready", "closing"}

\* sendTo: the WebSocket is open.
Hears(a) == sess[a] \in {"joining", "welcomed", "ready"}

\* findByNickname, for what a message is attributed to: the first bearer in the
\* roster, or `none`.
FoundByNickname(name, none) ==
  LET bearers == {a \in Account : Welcomed(a) /\ nick[a] = name}
  IN  IF bearers = {} THEN {none} ELSE bearers

\* ensureDirect: the two rows are written with the conversation's.
EnsureDirect(x, y) ==
  IF Direct(x, y) \in DOMAIN convs THEN convs ELSE With(convs, Direct(x, y), {x, y})

\* conversationsFor
ConversationsFor(cs, a) == [c \in {k \in DOMAIN cs : a \in cs[k]} |-> cs[c]]

\* Slip: historyForUser without its first condition.
HistoryOfConversations(a) ==
  LET all == [m \in DOMAIN history |->
                [m |-> m, conv |-> history[m].conv, from |-> history[m].from]]
      Theirs(c) == c \in DOMAIN convs /\ a \in convs[c]
  IN  Among(all, {m \in DOMAIN history : Theirs(history[m].conv)})

\* historyForUser: what is public, and what is in a conversation of theirs.  Ordered
\* by created_at, which is the order of the rows while the clock is not set back.
HistoryFor(a) ==
  LET all == [m \in DOMAIN history |->
                [m |-> m, conv |-> history[m].conv, from |-> history[m].from]]
      Theirs(c) == c = Public \/ (c \in DOMAIN convs /\ a \in convs[c])
  IN  Among(all, {m \in DOMAIN history : Theirs(history[m].conv)})

\* welcomedUsers, when nicknames are n
WelcomedUsers(n) == [a \in {b \in Account : Welcomed(b)} |-> n[a]]

\* sendReady
Snapshot(p, n, a) ==
  ready(p, a, WelcomedUsers(n), ConversationsFor(convs, a), HistoryFor(a))

\* append: a message is numbered by its place in the table.
NewMessage == Len(history) + 1
Store(c, a) == history' = Append(history, [conv |-> c, from |-> a])

Post(a, line) == outbox' = [outbox EXCEPT ![a] = Append(@, line)]

----------------------------------------------------------------------------
(* Sessions come and go.                                                   *)

\* A login whose backend connection the server has accepted and welcomed.
Login(a) ==
  /\ sess[a] = "off" /\ conn[a] = NoName /\ logins < Logins
  /\ logins' = logins + 1
  /\ sess' = [sess EXCEPT ![a] = "joining"]
  /\ conn' = [conn EXCEPT ![a] = Guest[a]]
  /\ inbox' = [inbox EXCEPT ![a] = <<Event("welcome", Guest[a], NoName, 0)>>]
  /\ UNCHANGED <<nick, Database, page, outbox, relay, asked, lost, upto>>

\* handleLogout: the page is told and the WebSocket closes; the session is in
\* the roster until it has.
Logout(a) ==
  /\ "logout" \in Uses
  /\ sess[a] = "ready"
  /\ sess' = [sess EXCEPT ![a] = "closing"]
  /\ page' = [page EXCEPT ![a] = loggedOut(@)]
  /\ UNCHANGED <<nick, Database, Server, Bounds, upto>>

\* onClientClosed, for a WebSocket that was asked to close or a page that goes
\* away: the session leaves the roster, its backend socket is destroyed.
WsClosed(a) ==
  /\ sess[a] = "closing" \/ (sess[a] # "off" /\ "leave" \in Uses)
  /\ sess' = [sess EXCEPT ![a] = "off"]
  /\ nick' = [nick EXCEPT ![a] = NoName]
  /\ upto' = [upto EXCEPT ![a] = 0]
  /\ inbox' = [inbox EXCEPT ![a] = <<>>]
  /\ page' = [b \in Account |->
                IF b = a THEN IF sess[a] = "closing" THEN page[a] ELSE InitialPage
                ELSE IF Welcomed(a) /\ Welcomed(b) /\ Hears(b) THEN userOffline(page[b], a)
                ELSE page[b]]
  /\ UNCHANGED <<Database, conn, outbox, relay, Bounds, lost>>

----------------------------------------------------------------------------
(* What a user does on a page that is logged in: opens a conversation and  *)
(* writes in it, creates a group, changes the nickname.                    *)

Patient(a) ==
  Cardinality(UNION {{<<c, i>> : i \in {j \in DOMAIN page[a].convs[c].messages :
                                          page[a].convs[c].messages[j] = ErrorLine}} :
                     c \in DOMAIN page[a].convs}) < MaxErrors

\* Public: stored, shown to the sender, and sent to the server.  (Not modelled here:
\* what still comes while the gateway is closing the WebSocket.)
SendPublic(a) ==
  /\ "public" \in Uses
  /\ sess[a] = "ready" /\ Len(history) < MaxMessages
  /\ Store(Public, a)
  /\ page' = [page EXCEPT ![a] = messageReceived(setActive(@, Public), Public, NewMessage, a)]
  /\ Post(a, Line("say", NoName, NewMessage))
  /\ UNCHANGED <<sess, nick, users, convs, conn, inbox, relay, Bounds, lost, upto>>

\* Slip: hasDirect is looked up after ensureDirect, so no conversation is new.
SendDirectUntold(a, b) ==
  /\ "direct" \in Uses
  /\ a # b /\ sess[a] = "ready" /\ Len(history) < MaxMessages /\ Welcomed(b)
  /\ b \in DOMAIN page[a].users \/ Direct(a, b) \in DOMAIN page[a].convs
  /\ convs' = EnsureDirect(a, b)
  /\ Store(Direct(a, b), a)
  /\ page' = [page EXCEPT ![a] = startDirect(@, b)]
  /\ Post(a, Line("msg", nick[b], NewMessage))
  /\ UNCHANGED <<sess, nick, users, conn, inbox, relay, Bounds, lost, upto>>

\* Direct, to a user the page shows online or has a conversation with.  An
\* offline peer is an error; else the conversation is made if need be, both
\* sides are told of a new one, the message is stored and sent as /msg to the
\* peer's nickname of the moment.  Any conversation may be written in, one whose
\* peerId is not known included; a peer that is a nickname and no account, which is
\* answered USER_NOT_FOUND, is left out.
SendDirect(a, b) ==
  LET c == Direct(a, b)
      opened == startDirect(page[a], b)
      isNew == c \notin DOMAIN convs
  IN
  /\ "direct" \in Uses
  /\ a # b /\ sess[a] = "ready" /\ Len(history) < MaxMessages
  /\ b \in DOMAIN page[a].users \/ c \in DOMAIN page[a].convs
  /\ \/ /\ ~Welcomed(b) /\ Patient(a)
        /\ page' = [page EXCEPT ![a] = errorIn(opened, c)]
        /\ UNCHANGED <<convs, history, outbox>>
     \/ /\ Welcomed(b)
        /\ convs' = EnsureDirect(a, b)
        /\ Store(c, a)
        /\ page' = [page EXCEPT
             ![a] = IF isNew THEN conversationCreated(opened, c, {a, b}) ELSE opened,
             ![b] = IF isNew /\ Hears(b) THEN conversationCreated(@, c, {a, b}) ELSE @]
        /\ Post(a, Line("msg", nick[b], NewMessage))
  /\ UNCHANGED <<sess, nick, users, conn, inbox, relay, Bounds, lost, upto>>

\* Slip: a group's message goes to whoever is online.
EveryoneOnline(c) == {b \in Account : Hears(b)}

\* Who a group's message is sent to.
GroupTargets(c) == {b \in convs[c] : Hears(b)}

\* Group: stored, and sent at once to the members who are online.  (A page
\* only has the groups its account is a member of: NOT_A_MEMBER is not reached.)
SendGroup(a, c) ==
  /\ "group" \in Uses
  /\ sess[a] = "ready" /\ Len(history) < MaxMessages
  /\ c \in DOMAIN page[a].convs /\ a \in convs[c]
  /\ Store(c, a)
  /\ page' = [b \in Account |->
       LET p == IF b = a THEN setActive(page[a], c) ELSE page[b]
       IN  IF b \in GroupTargets(c) THEN messageReceived(p, c, NewMessage, a) ELSE p]
  /\ UNCHANGED <<sess, nick, users, convs, Server, Bounds, upto>>

Groups == {c \in DOMAIN convs : c.kind = "group"}

\* handleCreateGroup: refused unless everyone is in the roster and welcomed.
\* Someone ticked in the dialog may have left since.
CreateGroup(a, others) ==
  LET c == Group(Cardinality(Groups) + 1)
      members == {a} \cup others
  IN
  /\ "group" \in Uses
  /\ sess[a] = "ready" /\ Cardinality(Groups) < MaxGroups
  /\ others # {} /\ others \subseteq page[a].listed \ {a}
  /\ \/ /\ \A b \in members : Welcomed(b)
        /\ convs' = With(convs, c, members)
        /\ page' = [b \in Account |->
             LET p == IF b = a THEN markPending(page[a]) ELSE page[b]
             IN  IF b \in members /\ Hears(b) THEN conversationCreated(p, c, members) ELSE p]
     \/ /\ \E b \in members : ~Welcomed(b)
        /\ Patient(a)
        /\ page' = [page EXCEPT ![a] = errorHere(markPending(@))]
        /\ UNCHANGED convs
  /\ UNCHANGED <<sess, nick, users, history, Server, Bounds, upto>>

\* selectConversation, openPublicConversation, startDirectConversation
Open(a) ==
  /\ "open" \in Uses
  /\ page[a].user # NoUser /\ asked < Requests
  /\ asked' = asked + 1
  /\ \/ \E c \in DOMAIN page[a].convs \ {page[a].active} : page' = [page EXCEPT ![a] = setActive(@, c)]
     \/ \E b \in DOMAIN page[a].users \ {a} : page' = [page EXCEPT ![a] = startDirect(@, b)]
  /\ UNCHANGED <<sess, nick, Database, Server, logins, upto>>

SetNickname(a, n) ==
  /\ sess[a] = "ready" /\ asked < Requests
  /\ asked' = asked + 1
  /\ Post(a, Line("nick", n, 0))
  /\ UNCHANGED <<sess, nick, Database, page, conn, inbox, relay, logins, lost, upto>>

\* requestState: the snapshot again.
RequestState(a) ==
  /\ "requestState" \in Uses
  /\ sess[a] = "ready" /\ asked < Requests
  /\ asked' = asked + 1
  /\ page' = [page EXCEPT ![a] = Snapshot(@, nick, a)]
  /\ upto' = [upto EXCEPT ![a] = Len(history)]
  /\ UNCHANGED <<sess, nick, Database, Server, logins>>

----------------------------------------------------------------------------
(* The C++ server's handler of each connection (see ThreadLinkServer).     *)

Registered == {a \in Account : conn[a] # NoName}

\* Slip: the broadcast of a message excludes nobody.
ExceptNobody(a) == {}

\* Broadcasts do not go back to the speaker; NICK does.
Except(a) == {a}

\* handle_line, plain text.  Texts that are commands, and relays over the frame
\* limit, are in BackendLine.
HandleSay(a) ==
  /\ Head(outbox[a]).cmd = "say"
  /\ relay' = [relay EXCEPT ![a] =
                 <<Bcast(Event("msg", conn[a], NoName, Head(outbox[a]).m), Except(a))>>]
  /\ UNCHANGED <<conn, lost>>

\* handle_nick
HandleNick(a) ==
  LET n == Head(outbox[a]).name IN
  /\ Head(outbox[a]).cmd = "nick"
  /\ IF \E b \in Account \ {a} : conn[b] = n
       THEN /\ relay' = [relay EXCEPT ![a] = <<Send(Event("err", NoName, n, 0), {a})>>]
            /\ UNCHANGED conn
       ELSE /\ conn' = [conn EXCEPT ![a] = n]
            /\ relay' = [relay EXCEPT ![a] = <<Bcast(Event("nick", conn[a], n, 0), {})>>]
  /\ UNCHANGED lost

\* handle_msg: PRIV to the bearer of the name, then PRIV_SENT to the speaker;
\* or an error, when nobody bears it or the speaker does.
HandleMsg(a) ==
  LET n == Head(outbox[a]).name
      m == Head(outbox[a]).m
      targets == {b \in Account : conn[b] = n} \ {a}
  IN
  /\ Head(outbox[a]).cmd = "msg"
  /\ relay' = [relay EXCEPT ![a] =
                 IF targets = {} THEN <<Send(Event("err", NoName, NoName, m), {a})>>
                 ELSE <<Send(Event("priv", conn[a], NoName, m), targets),
                        Send(Event("privSent", n, NoName, m), {a})>>]
  /\ lost' = IF targets = history[m].conv.ids \ {a} THEN lost ELSE lost \cup {m}
  /\ UNCHANGED conn

Handle(a) ==
  /\ conn[a] # NoName /\ relay[a] = <<>> /\ outbox[a] # <<>>
  /\ HandleSay(a) \/ HandleNick(a) \/ HandleMsg(a)
  /\ outbox' = [outbox EXCEPT ![a] = Tail(@)]
  /\ UNCHANGED <<sess, nick, Database, page, inbox, Bounds, upto>>

\* broadcast: the targets are copied under the lock, all but the excepted.
CopyTargets(a) ==
  /\ relay[a] # <<>> /\ Head(relay[a]).op = "bcast"
  /\ LET to == Registered \ Head(relay[a]).to IN
     relay' = [relay EXCEPT ![a] =
                 IF to = {} THEN Tail(@) ELSE <<Send(Head(@).ev, to)>> \o Tail(@)]
  /\ UNCHANGED <<sess, nick, Database, page, conn, inbox, outbox, Bounds, lost, upto>>

\* One frame of a broadcast or a reply; nobody hears it on a closed socket.
Relay(a, b) ==
  LET job == Head(relay[a])
      rest == IF job.to = {b} THEN Tail(relay[a])
              ELSE <<Send(job.ev, job.to \ {b})>> \o Tail(relay[a])
  IN
  /\ relay[a] # <<>> /\ job.op = "send" /\ b \in job.to
  /\ relay' = [relay EXCEPT ![a] = rest]
  /\ inbox' = IF sess[b] = "off" THEN inbox ELSE [inbox EXCEPT ![b] = Append(@, job.ev)]
  /\ UNCHANGED <<sess, nick, Database, page, conn, outbox, Bounds, lost, upto>>

\* The handler of a connection whose session is over reads no further, and
\* unregisters it.  What the others' broadcasts still have for it is dropped.
Drop(a) ==
  LET Without(r) == Among([i \in DOMAIN r |->
                             IF r[i].op = "send" THEN [r[i] EXCEPT !.to = @ \ {a}] ELSE r[i]],
                          {i \in DOMAIN r : r[i].op = "bcast" \/ r[i].to # {a}})
  IN
  /\ sess[a] = "off" /\ conn[a] # NoName /\ relay[a] = <<>>
  /\ conn' = [conn EXCEPT ![a] = NoName]
  /\ outbox' = [outbox EXCEPT ![a] = <<>>]
  /\ lost' = lost \cup ({outbox[a][i].m : i \in DOMAIN outbox[a]} \ {0})
  /\ relay' = [b \in Account |-> Without(relay[b])]
  /\ UNCHANGED <<sess, nick, Database, page, inbox, Bounds, upto>>

----------------------------------------------------------------------------
(* onBackendEvent: the events of a session's own connection, in order.     *)

Emitted(a, type) ==
  /\ sess[a] # "off" /\ inbox[a] # <<>> /\ Head(inbox[a]).type = type
  /\ inbox' = [inbox EXCEPT ![a] = Tail(@)]

\* sendTo of a `message` event.
Shown(a, c, m, from) ==
  page' = IF Hears(a) THEN [page EXCEPT ![a] = messageReceived(@, c, m, from)] ELSE page

\* welcome: the account's username is claimed.
OnWelcome(a) ==
  /\ Emitted(a, "welcome")
  /\ sess' = [sess EXCEPT ![a] = "welcomed"]
  /\ nick' = [nick EXCEPT ![a] = Head(inbox[a]).who]
  /\ Post(a, Line("nick", users[a], 0))
  /\ UNCHANGED <<Database, page, conn, relay, Bounds, lost, upto>>

\* Whose rename a NICK is: the session's own, told by the old name.
Mine(a, ev) == ev.who = nick[a]

\* nick: at login the page is ready; later it is a rename, which is kept unless
\* the username is another account's.
OnNick(a) ==
  LET ev == Head(inbox[a])
      renamed == [nick EXCEPT ![a] = ev.new]
      tell(p, b) == IF b # a /\ Welcomed(b) /\ Hears(b) THEN userUpdate(p, a, ev.new) ELSE p
  IN
  /\ Emitted(a, "nick")
  /\ IF ~Mine(a, ev)
       THEN UNCHANGED <<sess, nick, users, page, upto>>
       ELSE /\ nick' = renamed
            /\ IF sess[a] = "welcomed"
                 THEN /\ sess' = [sess EXCEPT ![a] = "ready"]
                      /\ page' = [b \in Account |->
                           IF b = a THEN Snapshot(page[a], renamed, a) ELSE tell(page[b], b)]
                      /\ upto' = [upto EXCEPT ![a] = Len(history)]
                      /\ UNCHANGED users
                 ELSE /\ page' = [b \in Account |->
                           IF b = a /\ Hears(a) THEN userUpdate(page[a], a, ev.new)
                           ELSE tell(page[b], b)]
                      /\ users' = IF \E i \in Account \ {a} : users[i] = ev.new THEN users
                                  ELSE [users EXCEPT ![a] = ev.new]
                      /\ UNCHANGED <<sess, upto>>
  /\ UNCHANGED <<convs, history, conn, outbox, relay, Bounds, lost>>

\* msg: attributed to whoever bears the name now, or to nobody.
OnMsg(a) ==
  /\ Emitted(a, "msg")
  /\ \E from \in FoundByNickname(Head(inbox[a]).who, NoUser) :
       Shown(a, Public, Head(inbox[a]).m, from)
  /\ UNCHANGED <<sess, nick, Database, conn, outbox, relay, Bounds, lost, upto>>

\* priv: the conversation is with the bearer of the sender's name, or with
\* the name.
OnPriv(a) ==
  LET ev == Head(inbox[a]) IN
  /\ Emitted(a, "priv")
  /\ \E other \in FoundByNickname(ev.who, ev.who) :
       /\ convs' = EnsureDirect(a, other)
       /\ Shown(a, Direct(a, other), ev.m, IF other \in Account THEN other ELSE NoUser)
  /\ UNCHANGED <<sess, nick, users, history, conn, outbox, relay, Bounds, lost, upto>>

\* privSent: the same, with the recipient; this is when the sender sees it.
OnPrivSent(a) ==
  LET ev == Head(inbox[a]) IN
  /\ Emitted(a, "privSent")
  /\ \E other \in FoundByNickname(ev.who, ev.who) :
       /\ convs' = EnsureDirect(a, other)
       /\ Shown(a, Direct(a, other), ev.m, a)
  /\ UNCHANGED <<sess, nick, users, history, conn, outbox, relay, Bounds, lost, upto>>

\* err: a name that is taken ends a login; else the page shows an error line.
OnErr(a) ==
  /\ Emitted(a, "err")
  /\ \/ /\ sess[a] = "welcomed" /\ Head(inbox[a]).new # NoName
        /\ sess' = [sess EXCEPT ![a] = "closing"]
        /\ UNCHANGED page
     \/ /\ sess[a] # "welcomed" \/ Head(inbox[a]).new = NoName
        /\ page' = IF Hears(a) THEN [page EXCEPT ![a] = errorHere(@)] ELSE page
        /\ UNCHANGED sess
  /\ UNCHANGED <<nick, Database, conn, outbox, relay, Bounds, lost, upto>>

----------------------------------------------------------------------------
(* The gateway process ends and is started again; the pages are reloaded.  *)

Restart ==
  /\ sess' = [a \in Account |-> "off"]
  /\ inbox' = [a \in Account |-> <<>>]
  /\ page' = [a \in Account |-> InitialPage]
  /\ nick' = [a \in Account |-> NoName]
  /\ upto' = [a \in Account |-> 0]
  /\ UNCHANGED <<users, history, conn, outbox, relay, Bounds, lost>>

Crash ==
  /\ "crash" \in Uses
  /\ \E a \in Account : sess[a] # "off"
  /\ UNCHANGED convs
  /\ Restart

\* In handleSendMessage, between two statements: the rows of the conversation
\* and of its members are written one by one, a first, then the message.
CrashInDirect(a, b) ==
  /\ {"crash", "direct"} \subseteq Uses
  /\ a # b /\ sess[a] = "ready" /\ Welcomed(b) /\ Direct(a, b) \notin DOMAIN convs
  /\ b \in DOMAIN page[a].users
  /\ \E rows \in {{}, {a}, {a, b}} : convs' = With(convs, Direct(a, b), rows)
  /\ Restart

\* In createGroup, between two statements: the creator's row is the first.
CrashInGroup(a, others) ==
  /\ {"crash", "group"} \subseteq Uses
  /\ sess[a] = "ready" /\ Cardinality(Groups) < MaxGroups
  /\ others # {} /\ others \subseteq page[a].listed \ {a}
  /\ \A b \in others : Welcomed(b)
  /\ \E rows \in {{}} \cup {{a} \cup some : some \in SUBSET others \ {others}} :
       convs' = With(convs, Group(Cardinality(Groups) + 1), rows)
  /\ Restart

----------------------------------------------------------------------------

UserStep(a) ==
  \/ SendPublic(a)
  \/ \E b \in Account : SendDirect(a, b)
  \/ \E c \in Groups : SendGroup(a, c)
  \/ \E others \in SUBSET Account : CreateGroup(a, others)
  \/ \E n \in Typed : SetNickname(a, n)
  \/ Open(a)
  \/ RequestState(a)
  \/ Logout(a)

GatewayStep(a) ==
  OnWelcome(a) \/ OnNick(a) \/ OnMsg(a) \/ OnPriv(a) \/ OnPrivSent(a) \/ OnErr(a)

ServerStep(a) ==
  Handle(a) \/ CopyTargets(a) \/ (\E b \in Account : Relay(a, b)) \/ Drop(a)

CrashStep ==
  \/ Crash
  \/ \E a, b \in Account : CrashInDirect(a, b)
  \/ \E a \in Account, others \in SUBSET Account : CrashInGroup(a, others)

Next ==
  \/ \E a \in Account : Login(a) \/ WsClosed(a) \/ UserStep(a) \/ GatewayStep(a) \/ ServerStep(a)
  \/ CrashStep

Spec == Init /\ [][Next]_vars

----------------------------------------------------------------------------
(* Properties.                                                             *)

ConvId == {Public} \cup {Direct(a, x) : a \in Account, x \in Account \cup Name}
          \cup {Group(n) : n \in 1..MaxGroups}
PageMessage == [m : 1..MaxMessages, from : Account \cup {NoUser}] \cup {ErrorLine}

PageTypeOK(p) ==
  /\ p.user \in Account \cup {NoUser}
  /\ DOMAIN p.users \subseteq Account /\ \A u \in DOMAIN p.users : p.users[u] \in Name
  /\ Public \in DOMAIN p.convs /\ DOMAIN p.convs \subseteq ConvId
  /\ \A c \in DOMAIN p.convs :
       /\ p.convs[c].peer \in Account \cup Name \cup {NoUser}
       /\ p.convs[c].messages \in Seq(PageMessage)
       /\ p.convs[c].unread \in 0..Len(p.convs[c].messages)
  /\ p.active \in DOMAIN p.convs
  /\ p.pending \in BOOLEAN /\ p.listed \subseteq Account

\* Every variable has its type; a page always has its public conversation, and
\* the conversation it has open.
TypeOK ==
  /\ sess \in [Account -> {"off", "joining", "welcomed", "ready", "closing"}]
  /\ nick \in [Account -> Name \cup {NoName}]
  /\ users \in [Account -> Name]
  /\ DOMAIN convs \subseteq ConvId \ {Public}
  /\ \A c \in DOMAIN convs : convs[c] \subseteq Account \cup Name
  /\ history \in Seq([conv : ConvId, from : Account]) /\ Len(history) <= MaxMessages
  /\ \A a \in Account : PageTypeOK(page[a])
  /\ conn \in [Account -> Name \cup {NoName}]
  /\ \A a \in Account :
       /\ \A i \in DOMAIN inbox[a] : inbox[a][i].type \in EventTypes
       /\ \A i \in DOMAIN outbox[a] : outbox[a][i].cmd \in {"nick", "say", "msg"}
       /\ \A i \in DOMAIN relay[a] : relay[a][i].op = "send" => relay[a][i].to # {}
  /\ asked \in 0..Requests /\ logins \in 0..Logins
  /\ lost \subseteq DOMAIN history
  /\ upto \in [Account -> 0..MaxMessages]

\* What page a shows in conversation c, and where that is a message.
Lines(a, c) == page[a].convs[c].messages
MessagesAt(p, c) == {i \in DOMAIN p.convs[c].messages : p.convs[c].messages[i] # ErrorLine}

Shows(a, m) == \E c \in DOMAIN page[a].convs :
                 \E i \in DOMAIN page[a].convs[c].messages : page[a].convs[c].messages[i].m = m

\* Message m, of sender s, is still under way to account a.
UnderWay(m, s, a) ==
  \/ \E i \in DOMAIN outbox[s] : outbox[s][i].m = m
  \/ \E i \in DOMAIN relay[s] : /\ relay[s][i].ev.m = m
                                /\ relay[s][i].op = "bcast" \/ a \in relay[s][i].to
  \/ \E i \in DOMAIN inbox[a] : inbox[a][i].m = m /\ inbox[a][i].type # "err"

Readers(m) == LET c == history[m].conv IN
              IF c = Public THEN Account ELSE Account \cap convs[c]

\* A page that is ready shows every stored message its account may read, or
\* the message is on its way to it, or the server refused it or never read it:
\* nothing falls between the snapshot of sendReady (gatewayServer.ts:484-499)
\* and the broadcasts that arrive from then on.
NothingMissed ==
  \A a \in Account, m \in DOMAIN history :
    sess[a] = "ready" /\ a \in Readers(m) /\ m \notin lost
      => Shows(a, m) \/ UnderWay(m, history[m].from, a)

\* "Only members receive messages, non-members never do" (tests/e2e.test.ts:221):
\* a ready page has the groups of its account and no other, and each holds what
\* is stored in it, once and in order, whether it came live or in a snapshot.
GroupsExact ==
  \A a \in Account : sess[a] = "ready" =>
    LET groups == {c \in DOMAIN page[a].convs : c.kind = "group"} IN
    /\ groups = {c \in Groups : a \in convs[c]}
    /\ \A c \in groups :
         LET q == Lines(a, c)
             at == MessagesAt(page[a], c)
         IN
         /\ \A m \in DOMAIN history : history[m].conv = c
              => \E i \in at : q[i] = [m |-> m, from |-> history[m].from]
         /\ \A i \in at : q[i].m \in DOMAIN history /\ history[q[i].m].conv = c
         /\ \A i, j \in at : i < j => q[i].m < q[j].m

\* As long as names stay with their accounts (else priv adds rows that nobody is
\* told of), whoever has a row in a conversation has it on the page: a
\* first direct message or a new group is announced to every side online
\* (gatewayServer.ts:308-313, 255-261), and is in the snapshot of the others.
ConversationsShown ==
  \A a \in Account, c \in DOMAIN convs :
    sess[a] = "ready" /\ a \in convs[c] => c \in DOMAIN page[a].convs

\* A message that was stored after a page's last snapshot is shown once: the
\* sender's copy is made up by the gateway, the others' come from the server
\* (gatewayServer.ts:274-281).
ShownOnce ==
  \A a \in Account : sess[a] = "ready" =>
    \A c, d \in DOMAIN page[a].convs :
      \A i \in DOMAIN Lines(a, c), j \in DOMAIN Lines(a, d) :
        Lines(a, c)[i].m = Lines(a, d)[j].m /\ Lines(a, c)[i].m > upto[a] => c = d /\ i = j

\* Pages know each other by name: every ready page lists every ready session
\* under the nickname the gateway has for it.
NamesShown ==
  \A a, b \in Account :
    sess[a] = "ready" /\ sess[b] = "ready"
      => b \in DOMAIN page[a].users /\ page[a].users[b] = nick[b]

\* The unread count of a conversation goes up by what comes in while another is
\* open, and goes down only by opening it (chatState.ts:222-230, 258-265) or by
\* a new snapshot: names, presence and announcements leave it alone, and so do
\* error lines.
UnreadCounted ==
  [][\A a \in Account : page[a].user = a /\ page'[a].user = a /\ ~RequestState(a) =>
       \A c \in DOMAIN page[a].convs :
         /\ c \in DOMAIN page'[a].convs
         /\ page'[a].convs[c].unread =
              IF c = page'[a].active THEN 0
              ELSE page[a].convs[c].unread
                     + Cardinality(MessagesAt(page'[a], c)) - Cardinality(MessagesAt(page[a], c))]_vars

----------------------------------------------------------------------------
(* Claims the code does not keep.                                          *)

\* pendingGroupCreation "lets the reducer auto-select the group the creator just
\* made" (chatState.ts:36-39): nobody else's page changes its conversation.
OpensForItsCreator ==
  [][\A a, b \in Account, others \in SUBSET Account :
       a # b /\ CreateGroup(b, others) => page'[a].active = page[a].active]_vars

\* What a user wrote is never unread for them.
OwnIsRead ==
  \A a \in Account : \A c \in DOMAIN page[a].convs :
    (\A i \in MessagesAt(page[a], c) : Lines(a, c)[i].from = a) => page[a].convs[c].unread = 0

\* "`senderId` can be `null` for a `msg`/`priv` event whose sender left between
\* sending and this gateway processing the backend broadcast"
\* (docs/GATEWAY_PROTOCOL.md:182-184): a message is attributed to its sender or
\* to nobody, although it travels under a nickname that is looked up when it
\* arrives (gatewayServer.ts:404).
Attributed ==
  \A a \in Account : \A c \in DOMAIN page[a].convs : \A i \in MessagesAt(page[a], c) :
    Lines(a, c)[i].from \in {NoUser, history[Lines(a, c)[i].m].from}

\* A message is shown in the conversation it is stored in; or, when the other
\* side of a direct message has left the roster meanwhile, in one whose id is
\* made from the nickname (gatewayServer.ts:417, 432).
InItsConversation ==
  \A a \in Account : \A c \in DOMAIN page[a].convs : \A i \in MessagesAt(page[a], c) :
    LET stored == history[Lines(a, c)[i].m].conv IN
    c = stored \/ (stored.kind = "direct" /\ c.ids \cap Name # {})

\* priv and privSent are "purely for live delivery and [don't] touch the
\* database again" (gatewayServer.ts:311-314).
LiveDeliveryOnly ==
  [][\A a \in Account : OnPriv(a) \/ OnPrivSent(a) => UNCHANGED Database]_vars

\* ensureDirect makes the "conversation record ... for this pair (and its
\* membership rows)" (conversationManager.ts:53-54), and "membership survive[s]
\* gateway restarts" (26-27): both sides find a direct message again.
DirectRestored ==
  \A m \in DOMAIN history :
    history[m].conv.kind = "direct" => history[m].conv.ids \subseteq convs[history[m].conv]

\* Messages are shown at most once, snapshots included.
NeverTwice ==
  \A a \in Account : sess[a] = "ready" =>
    \A c \in DOMAIN page[a].convs : \A i, j \in MessagesAt(page[a], c) :
      i # j => Lines(a, c)[i].m # Lines(a, c)[j].m

=============================================================================
