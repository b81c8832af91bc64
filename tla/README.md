# ThreadLink in TLA+

A specification of ThreadLink, a chat system made of a thread-per-client C++
server (`src/`, `include/`), a Node gateway that gives every browser session its
own TCP connection to that server (`gateway/`), and a React front end
(`frontend/`). Paths below are relative to the repository root, which the
`src/` prefix of PROJECT.json stands for.

Run `tlc -config X.cfg M` for the model-checking runs listed in PROJECT.json, and
`tlapm` on `ThreadLinkServer_proofs`, `ThreadLinkRoom_proofs`,
`ThreadLinkDelivery_proofs`, `FrameLink_proofs`, `BackendLine_proofs`,
`GatewaySessions_proofs`, `GatewayRouting_proofs` and `WebClient_proofs` for the proofs.

## 1. The system

| Component | State | Operations | Talks to |
|---|---|---|---|
| Chat server, `src/Server.cpp` | `clients_` (descriptor to record, under `clients_mtx_`), `client_threads_`, `running_`, a write mutex per client | `accept_loop`, `accept_one`, `reap_finished_threads`, `handle_client` with `/nick`, `/msg`, `/list`, `/exit` and plain text, `broadcast`, `send_to_fd`, `shutdown_all` | clients over TCP frames |
| Framing, `src/Protocol.cpp`, `gateway/src/wireProtocol.ts` | the decoder's buffer | `send_frame`, `recv_frame`, `writeFrame`, `FrameDecoder.push` | sockets |
| Limits, `src/Config.cpp`, `gateway/src/config.ts`, `gateway/src/clientProtocol.ts` | `max_message_size`, `backendMaxMessageBytes`, `MAX_TEXT_LEN` | `load_config`, `intFromEnv`, `validateClientMessage` | framing, the gateway's input |
| Gateway sessions, `gatewayServer.ts`, `session.ts`, `sessionManager.ts`, `backendConnection.ts` | one `Session` per WebSocket, the roster `byId`, one `BackendConnection` per login | `handleAuth`, `handleLogout`, `onClientClosed`, `onBackendEvent`, `announceReady` | browsers, the chat server, the database |
| Users, `users.ts`, `auth.ts` | table `users` | `register`, `login`, `rename` | SQLite |
| Gateway routing, `gatewayServer.ts` | none of its own | `handleSendMessage`, `handleCreateGroup`, `msg`/`priv`/`privSent` events | roster, stores, chat server |
| Stores, `conversationManager.ts`, `messageStore.ts` | `conversations`, `conversation_members`, `messages` | `ensureDirect`, `createGroup`, `append`, `historyForUser` | SQLite |
| Browser transport, `lib/websocket-client.ts` | status, socket, reconnect timer and count | `connect`, `disconnect`, `send`, socket callbacks | gateway |
| Browser provider and reducer, `context/` | `ChatState`, `pendingAuthRef`, `stateRef` | `chatReducer`, `handleServerEvent`, `onStatusChange`, the user's commands | transport, components |
| The rest | other settings, logging, terminal client, UI components | | |

What is hard here:

* **Threads and descriptors.** The server copies descriptors under its lock and
  uses them after unlocking, while other threads close them and `accept()` hands
  them out again. Threads to be joined are matched by descriptor too.
* **A blocking `send()`** in every broadcast, in shutdown's goodbye, and behind
  every `join()`.
* **Awaits.** `handleAuth` checks, awaits a password hash, and acts; it awaits a
  connection, and undoes. Anything may have happened in between.
* **Two sources of truth for a name.** The server owns live nicknames, the
  database owns usernames, and the gateway follows the first by matching
  broadcasts.
* **Sizes.** A text is limited in UTF-16 units, a line and a frame in bytes, by two
  programs that read the limit from different places; a relay is longer than the
  line it relays; and TCP hands bytes over in any pieces.
* **Callbacks of a reconnecting socket** against state of the last render.

What makes each part correct is stated as the properties of section 4; every
hazard is listed in PROJECT.json at the line where it bites, with the properties
that cover it.

## 2. The modules

### ChatRoom and ThreadLinkServer

`ChatRoom` is what the server promises its users: a room with `Seats` seats,
joined, renamed in and left in indivisible steps, under unique names. Nobody
comes back under the same connection.

`ThreadLinkServer` is the server: one action per critical section of
`clients_mtx_`, per `send()` of a frame's header or body, per `accept()`, `join()`,
`shutdown()` or `close()`.

* `clients`, `threads`, `running` are the fields of the class. `owner` is the
  kernel's descriptor table: `accept()` takes the lowest free descriptor and
  `Close` frees it, so that a descriptor in a variable may come to refer to
  another connection. `peer` is the TCP state of a connection.
* `pc[t]` is the statement thread `t` is at; the threads are `Main` (`main()`,
  `run()`, the accept loop, shutdown) and one handler per connection, named by
  the connection. `todo[t]` is the queue of frames and broadcasts that `t` has to
  send before its next statement, `inFrame[t]` says it is between the header and
  the body of one. `Sending` takes the next step of the queue: a broadcast becomes
  its snapshot of targets under the lock, a send looks up the record again
  (`send_to_fd`), a put writes to whatever the descriptor refers to *now*, and
  waits for the target's write mutex.
* `send()` blocks while its peer's buffer is full. `Blocked(t)` is a thread that writes,
  or waits to write, to a peer in `SlowPeer`: how much fits is left open, so the step may
  be taken, and is not owed (section 5). A frame over the limit is dropped before its
  header (`TooLarge`), a failed `select()` ends the loop like a request does (`LoopTop`).
* `stream` and `asked` are history: what the kernel took for each connection, with
  the connection the sender meant, and whether shutdown was ever requested.
* `Start`, `LoopTop`, `ReapCheck`, `ReapJoin`, `Idle`, `Accept`, `Full`/`Refuse`,
  `Admit`, `MarkWelcomed`, `Spawn`, `ListVictims`, `Cut`, `JoinAll` are `Main`;
  `Say`, `Nick`, `Msg`, `List`, `BadLine`, `Quit`, `Eof`, `Leave`, `Close` a handler;
  `PeerCloses` and `RequestShutdown` the outside.

### MessageChannel and FrameLink

`MessageChannel` is what framing promises: each one-way stream hands its payloads
to its reader whole, once each, in the order they were written.

`FrameLink` is framing, for a set of connections with a stream each way. Bytes are
numbers 0 to 255, so that a payload can look like a header.

* `bytes[s]` is what was written and not lost, `arrived[s]` how much the reader has
  taken from its socket. `Write` is `send_frame` or `writeFrame`, one whole frame: the
  threads that write to one socket take its write mutex, which is
  ThreadLinkServer's. A stale frame, put under the mutex of the descriptor's former owner,
  can mix with others there (`FramesIntact`) and is not part of this model.
* The server's reader is `recv_exact` inside `recv_frame`: `buffer[s]` is what it has
  filled, `Wanted` what it asked for, and a `recv()` gives any part of that
  (`RecvPart`, `RecvHeader`, `RecvBody`). The gateway's is `FrameDecoder.push`: `Data`
  appends a chunk, then each iteration of its loop is an `Extract` or a `TooLarge`.
* `Close` is either end closing: it reads no more, and of what it wrote some first
  part arrives.
* `sent`, `ends` and `got` are history: the payloads written, where each ends in the
  stream, the payloads handed over.

### BackendLine

The two programs on top of FrameLink: a public text from a browser through the
gateway's checks and queue, the server's handler, the relay, and the pages that
show it, with sizes and with connections that end.

* `setup` holds the lines of `server.conf` and the environment; `limits` is what
  `LoadConfig` and `IntFromEnv` make of them, each with its program's own idea of a
  valid number.
* `FromBrowser` is `onClientRaw` with `validateClientMessage`; `ready[c]` and
  `pending[c]` decide whether a text is sent or queued, as `onClientRaw` does, and
  `Replay` is the loop of `announceReady`. A callback of Node may take several steps
  here; `Busy` keeps others out until it is done.
* `ServerReads` is one `recv()` of a handler and, when it completes a frame,
  `HandleLine`; `todo[c]` has the frames its thread still has to send, `ServerSends`
  sends one or fails to. A text that is a command is answered like an unknown one, but
  for `/exit`, alone or with more behind it (`IsExit`). `Leave` closes the socket, and a
  close with bytes unread may cost the gateway the bytes it has not read yet.
* `closed[c]` is `BackendConnection.closed`. `Discard` is the handler's own `close()`
  after a frame over the limit, `OnBackendClosed` and `OnClientClosed` the two other
  ways to `Hangup`; `SendLine` on a closed connection throws, and `crashed` ends the
  gateway.
* `typed` and `since` are history. `At(s, I)` are the elements of `s` at the places
  `I`, in order: who typed what, and what is relayed, are such parts of a sequence.

### GatewaySessions

One browser session from its WebSocket to its end. Node runs one callback to
its next await, so an action is one callback. A login attempt `t` (a session and
a number) is also the backend connection it makes.

* `sess` holds the Session objects, `roster` is `SessionManager.byId`, `users` the
  table, `ws` the WebSockets' `readyState`. `try[t]` is `handleAuth`'s position and
  locals: `Auth` runs to the hash, `AuthFails`/`AuthSucceeds` from the hash to the
  connection, `ConnectOk`/`ConnectFails` to its end.
* `link[t]`, `inbox[t]`, `outbox[t]` are a `BackendConnection`, the events it has
  not emitted and the lines the server has not read. A `sendLine` on a closed
  connection, and possibly on one whose peer is gone, rejects; nobody handles the
  rejection, and `crashed` ends everything (`Post`).
* `member` and `telling` are as much of the C++ server as matters: nicknames,
  and the NICK broadcasts its handlers are making, which copy their targets some
  time after the rename and reach them one by one.
* `view[s]` is the set of users browser `s` shows as online after every `ready`,
  `userUpdate` and `userOffline` it was sent.
* `crossed` and `failed` are history: the connections that have borne a name while
  another's NICK about that name was still on its way to them, and the accounts whose
  connection to the backend has failed. Both happen to the code; the properties that
  name them say that nothing else does the same harm.
* `Faults` says what may go wrong in an instance: a browser leaving during a
  hash, two logins on one WebSocket, refused connections, the backend going
  away (a connection that is refused for want of a seat looks the same). `Faults` is a
  bound, not an assumption of the code; the runs in which the code's claims fail each
  turn one on. NICK broadcasts race with renames, admissions and each other in every
  instance.

### ChatReducer and GatewayRouting

`ChatReducer` is the browser's `chatReducer`: an operator from page to page for
every action of it that changes users, conversations, their messages, error lines
and unread counts, the open conversation or `pendingGroupCreation`. `listed` is
whom the dialog for a new group has offered since it was opened: a user who was
ticked there and left is still ticked.

`GatewayRouting` follows a message from the page it is written on to the pages
that show it. It uses ChatReducer at both ends, so its properties are about what
users see.

* `users`, `convs`, `history` are the tables; message `m` is `history[m]`, which
  stands for its text. A conversation's id is a record, the unordered pair of a
  direct one being the sorted id of the code.
* `page[a]` is the page of account `a`. `SendPublic`, `SendDirect`, `SendGroup`,
  `CreateGroup`, `SetNickname`, `RequestState` and `Logout` are a click together
  with the gateway's handler of it, and the error it answers a message to someone
  offline or a group with someone offline; `Open` is a click on a conversation or a
  user; `OnWelcome` to `OnErr` are `onBackendEvent`,
  one event of one session each, `sendTo` being the reducer applied to that
  page.
* `outbox`, `relay`, `inbox` are what is under way: lines a handler of the C++
  server has not read, the broadcast or reply it is making (targets are copied
  at one moment, `CopyTargets`, and reached one by one, `Relay`), and the events a
  `BackendConnection` has not emitted. `conn` has the server's nicknames.
* `Crash` stops the gateway between two handlers, `CrashInDirect` and
  `CrashInGroup` between two SQL statements of one; all the pages start again.
* `Online` are the accounts logged in at the start; `lost` and `upto` are history:
  the messages the server refused, never read or gave to another client, and how
  much was stored when a page got its last snapshot.
* `Uses` says what users do in an instance, a bound like `Faults` above.

### WebClient

The browser's transport and login state. An action is one browser task: a
click, a WebSocket event, a timer, the render after which `stateRef.current`
is the reducer's state (`ref` against `userId`). `up`, `down` and `session` are
the gateway, for the current WebSocket, as GatewaySessions describes it. `new WebSocket`
may throw when the page is mounted (`MountFails`). The
page never calls `disconnect()`.

## 3. Instances and bounds

`MCServer`, `MCGateway`, `MCRouting` and `MCLine` instantiate their modules; WebClient's
constants are plain values in its cfg file.

| Run | Module | Instance | Why it is enough |
|---|---|---|---|
| `names` | MCServer | 3 connections, 2 seats, 3 default names and `alice`, two lines in all (`/nick`, `/exit`, one over the limit), symmetry | a third client is refused, or takes a seat, a descriptor and a default name just freed, while a rename is under way; nothing more than two renames is needed for a clash |
| `streams` | MCServer | 3 connections, 2 seats, one line (text, `/list`, a bad one, `/exit`), frames that are too large to send, frames of five kinds recorded, symmetry | two writers and a broadcast meet on one socket, and a descriptor is reused under a snapshot |
| `stop` | MCServer | 2 connections, one of which may stop reading, shutdown, a failed `select()`, a peer that closes, a private message | every statement of a handler meets every statement of `shutdown_all`; each of the three threads can be the one that writes to the slow peer, and another has frames of its own for the peer that reads |
| `welcome` | MCServer | the smallest instance that shows the violation | |
| `accounts` | MCGateway | 2 sessions, one account and one that can be registered, one `setNickname`, the backend may go away, symmetry | two sessions compete for one account and for one name; a rename meets a login, a registration or a disconnect, and broadcasts cross |
| `logins` | MCGateway | 2 sessions, 2 accounts, one named like a default nickname, every fault but two logins on one WebSocket | a login meets the lingering connection of the previous one, and sessions take roster entries over from each other |
| `ghost` | MCGateway | the one fault of the finding | |
| `chat` | MCRouting | 3 accounts, two online and one that logs in, one public or direct message, one rename or `requestState`, departures, symmetry | a message, a rename and a snapshot meet at a third user; two renames, or two messages, with everyone online from the start and nobody logging in, were checked as well |
| `groups` | MCRouting | 3 accounts, two online and one that logs in, one group, one message, one conversation opened to be read, logouts, a stop of the gateway at any statement, symmetry | there is a member, a creator and a non-member, a login after the stop, and a conversation to be read besides the one that is open; two messages and four logins of two accounts were checked as well, without openings |
| `attribution` | MCRouting | 3 accounts, two renames of one name: the smallest instance that shows the violation | |
| `line` | MCLine | 2 connections, one of which sends two texts and may leave; the default limits (3 bytes, from settings out of range) with texts that are relayed, over the limit, relayed over the limit, too long for the gateway, `/exit`; a gateway with a lower limit than the server's (5) with texts over its limit, a command, a blank line and `/exit` with more behind it; the sender's streams are cut into pieces of 3 bytes or not at all | pieces of 3 bytes end inside a header, at its end, inside a body and in the next header; two texts are a queue of two, or one on each side of WELCOME, `ready` or a close; limits of a few bytes are as far from their texts as 4096 is from 12000 |
| `page` | WebClient | 3 reconnect attempts, 5 clicks, any number of losses | the backoff is exhausted and restarted; a click more repeats the cycle |

The constants that are bounds and not parameters of the code are marked
`bound:` in the modules: `Events`, `Kept`, `Wanted`, `MaxLines` in ThreadLinkServer;
`Typed`, `Attempts`, `Renames`, `Faults` in GatewaySessions; `Typed`, `Uses`,
`MaxMessages`, `MaxGroups`, `MaxErrors`, `Requests`, `Logins` in GatewayRouting; `Texts`,
`Setups`, `Claimers`, `Typists`, `Leavers`, `MaxTexts`, `ChunkSizes` in BackendLine; `Clicks`
in WebClient.
Symmetry is used for safety only, over connections, sessions, or accounts with
their names, which no action and no property distinguishes (`Online` distinguishes
accounts in the initial state only).

A server never stops while it waits for connections, so the server's passing
runs check deadlock: `Stopped` stutters when `run()` has returned, and any other
state without a step is an error. The gateway and the browser may come to rest
(everyone has left, the process has crashed, the attempts are used up), and their
runs say `CHECK_DEADLOCK FALSE`.

## 4. What the runs show

Server, passing:

* `NickUnique`, `WithinCapacity`: the check-then-insert of `accept_one` and the
  check-then-rename of `handle_nick` hold against each other in every
  interleaving.
* `RegistryMatches`: a record of `clients_` is that of the client its descriptor
  refers to. This is what makes matching by descriptor sound, and it depends on
  the order of `Leave` (erase) and `Close`.
* `IsChatRoom`: the server implements `ChatRoom`, with `member` computed from
  `clients_` and `gone` from the handlers' positions.
* `JoinsOnlyLeavers`, `NoHandlerForgotten`: reaping by descriptor never waits for a
  handler that still serves a client, and never loses one.
* `WelcomeBeforeRest`, `FramesIntact`: among the frames *meant for* a client, WELCOME
  is first and headers and bodies alternate. What else a client is sent, between the
  halves of a frame too, can only be a piece of a frame for a former owner of its
  descriptor, which has closed: the finding below.
* `GoodbyeBeforeCut`: a shutdown says goodbye to whoever is still there before it cuts
  the sockets. `RequestedStopHappens`: one requested of an accepting server ends, unless
  some thread is blocked in `send()` for good.
* `OnlyItsWritersWait`: one of the peers may stop reading, and whoever waits then has a
  frame for that peer as its next: every other thread gets out what it has to send,
  because the registry is not locked while frames are sent. That is what is left of "a
  slow client can't stall broadcasts" (`Server.h:18-20`), which `ReadersNotStalled`
  states and TLC refutes in the same instance (below).

Gateway, passing: `AccountsUnique` (two registrations of one name, a rename and a
registration), `ViewMatchesRoster` (a snapshot and the increments that follow it add up
in every browser), and

* `RosterAccurate`: an entry of the roster is a session that logged in to that account,
  and every live session is the entry of its account, with browsers that leave during
  the hash, connections that fail and a backend that goes away. The first breaks only
  the converse (an entry may be closed: `ghost`); the second the account it happens to
  (`gatewayServer.ts:212` removes whatever entry the account has by then), so `failed`
  excepts those accounts: without the exception it is `OneSessionPerAccount`, refuted
  below.
* `NicknameMirrored` and `AnnouncedByName`: with several NICK broadcasts under way, to
  different connections in different orders, a session follows its own connection's
  renames and no other, and is announced under the name it claims, except where a
  broadcast about the very name a connection bears has crossed it. Without the
  exception the first is `OnlyItsOwnRenames`, refuted below in the same instance.
* `LoginAnswered`: with every fault but two logins on one WebSocket.

Routing, passing:

* `NothingMissed`: a ready page shows every stored message its account may read,
  unless it is under way or lost on the server. A login's snapshot is read from
  the database while older broadcasts are still coming, so the two could have
  left a gap.
* `ShownOnce`: a message stored since the page's last snapshot is shown once,
  whether the gateway made the copy up or the server sent it back.
* `NamesShown`: ready pages list each other under the nicknames of the moment.
* `GroupsExact`: pages have exactly the groups of their accounts, with the stored
  messages, whichever way they came, and a gateway that stops half-way through
  `createGroup` does not change that for the members it recorded.
* `UnreadCounted`: in every step the count of a conversation that is not open
  goes up by the messages that came into it and that of the open one is zero,
  whatever snapshot, announcement or error arrives in between.
* `ConversationsShown`: whoever is recorded in a conversation has it on the page.
  Names are fixed in this run; with two renames it fails, because `OnPriv`
  records conversations that nobody is told of (`LiveDeliveryOnly` below).

The line between the two programs, passing:

* `LinkInv` and `IsChannel`: however the bytes are cut, both readers are where the
  frames they handed over end, and framing implements `MessageChannel`.
* `LineInv`: neither program writes to a connection it has closed, or closes one
  twice, in whatever order a frame over the limit, the server's close and the
  browser's come.
* `TypedIsStored`: every accepted text is stored once or still queued, in the order
  that follows from queueing only before WELCOME.
* `RelayedInOrder`: a page shows what others stored, in order, without exactly these:
  blank lines, lines that begin with `/`, relays over the limit, and what follows a
  line over the limit or `/exit`. `AllRelayed`: on connections that last, all of it.
* `ServerFitsGateway`: a gateway whose limit is not below the server's never drops
  a connection over a frame. `LossIsSeen`: with equal limits, as
  `docs/GATEWAY_PROTOCOL.md:209` asks, a browser whose backend connection is gone is
  told, because its WebSocket is closed. With a lower limit in the gateway,
  which is what `config.ts:15` allows ("must not exceed"), the `close` event is
  suppressed and the browser stays connected to nothing (`backendConnection.ts:70`):
  the second setup of `MCLine` does that, the property leaves it out by
  `Documented`, and without that TLC refutes it (`LossIsAlwaysSeen` below).

Browser, passing: `StatusHonest`, `OneLoginUnderWay`, `LoginAnsweredOnline`,
`BackoffEnds`.

Violations, each a disagreement between the code and something the repository
says (PROJECT.json, `findings`, has the quotations and the lines):

| Run | What happens |
|---|---|
| `welcome` | a broadcast's copied descriptor delivers a frame to a new client before its WELCOME |
| `ghost` | a browser that leaves during the hash stays in the roster, until a later login of its account replaces it |
| `attribution` | a message is shown as another user's, who took the sender's nickname |

Other claims the code does not keep. Each is a definition of its module that TLC
refutes in the instance given, and has no run of its own because the run would
ask little that the ones above do not:

| Property | Instance | What happens |
|---|---|---|
| `PrivReachesItsTarget` (ThreadLinkServer, invariant) | `MCServer_streams` with `Events = {"msg", "exit"}`, `Wanted = {u2}`, `Kept = {"PRIV"}` | a private message goes to the client that reused the recipient's descriptor (`Server.cpp:355`) |
| `ReadersNotStalled` (FairSpec) | `MCServer_stop` | a peer that does not read stalls a broadcast for everyone after it, against "a slow client can't stall broadcasts" (`Server.h:18-20`) |
| `RequestedStopHappens` | `MCServer_stop` with `Conn = {c1}`, `Events = {"stop", "early"}`, `SlowPeer = {}`, `MaxLines = 0` | a signal before `running_.store(true)` is lost (`Server.cpp:54`) |
| `OneBackendPerSession` (GatewaySessions, invariant) | one session, `OneAccount`, `Attempts = 2`, `Faults = {"doubleLogin"}` | two logins on one WebSocket open two backend connections |
| `OneSessionPerAccount` | three sessions, `OneAccount`, `Faults = {"connectFails"}` | a failed session removes a newer session's roster entry, and two sessions share an account (`gatewayServer.ts:212`) |
| `OnlyItsOwnRenames` (invariant) | `MCGateway_accounts` | a late NICK for a reused default name is taken for the session's own rename (`gatewayServer.ts:374-379`) |
| `NoCrash` (invariant) | one session, `Renames = 1`, `Faults = {"backendLost"}` | a rejected `sendLine` is an unhandled rejection and ends the process |
| `RenamesPersist` | one session, `TwoAccounts`, `Renames = 1`, `Faults = {}` | a rename to an offline account's name is live and not persisted |
| `DesiredIsPersisted` | two sessions, `OneAccount`, `Typed = {bob}`, `Renames = 1`, `Faults = {}` | a login claims the username the account had before the hash |
| `InItsConversation` (GatewayRouting, invariant) | `MCRouting_attribution` with `Uses = {"direct", "leave"}` | a private message is shown in the conversation with whoever has the nickname now |
| `LiveDeliveryOnly` (action property) | two accounts, none online, `Uses = {"direct", "leave"}`, three logins, no renames | `priv` or `privSent` records a conversation with a nickname for an id, against "doesn't touch the database again" (`gatewayServer.ts:311-314`) |
| `NeverTwice` | `MCRouting_chat` | a login's snapshot holds a message whose broadcast is still coming |
| `DirectRestored` (GatewayRouting, invariant) | two accounts, both online, `Uses = {"direct", "crash"}`, one message, two logins | a stop inside `ensureDirect` leaves a direct conversation without one of its members for good, although "membership survive[s] gateway restarts" (`conversationManager.ts:26-27`) |
| `OpensForItsCreator` (action property) | `MCRouting_groups` without symmetry | `pendingGroupCreation`, left set by a refused group, opens a group somebody else creates (`chatState.ts:36-39`) |
| `OwnIsRead` (invariant) | `MCRouting_groups` | a sender's own direct message, which comes back as PRIV_SENT after another conversation was opened, counts as unread |
| `StoredIsRelayed` (BackendLine, FairSpec) | `MCLine_line` | a stored public text that the server runs as a command, or whose relay is over the limit, reaches nobody |
| `LossIsAlwaysSeen` (FairSpec) | `MCLine_line` | with a lower limit in the gateway a relay closes the reader's backend connection without `close` being emitted, and the session goes on with none (`backendConnection.ts:70`) |
| `TextsAreCarried` (invariant) | `MCLine_line` | a text within 4000 characters (`docs/GATEWAY_PROTOCOL.md:108`) is over the frame limit in bytes, and costs its sender the session |
| `QueuedUntilReady` (invariant) | `MCLine_line` | a text sent between WELCOME and `ready` is not queued, against `docs/GATEWAY_PROTOCOL.md:30-33` (`gatewayServer.ts:141`) |
| `SessionBehindPage` (WebClient, invariant) | two attempts, two clicks | after a reconnect the page is "Connected" and logged in, and the gateway has no session for it (`ChatProvider.tsx:121`) |
| `LogoutOnlyWhenExhausted` (WebClient) | two attempts, two clicks | the first failed reconnect logs the page out while it goes on reconnecting |
| `LoginEnds` (FairSpec) | two attempts, one click | a login cut off by a lost connection keeps the login screen busy for ever |
| `ErrorsWhereTheyBelong` | two attempts, two clicks | an error between `ready` and the render goes to the login screen |

Every property of a passing run has a mutant in PROJECT.json: an operator named
`Slip...` or described as a slip, next to the definition it stands in for, that a
plausible mistake would have produced, and under which the property fails.

## 5. Fairness

* Server: `WF` on `MainStep` and on each `HandlerStep` of a thread that is not `Blocked`.
  Threads are scheduled by the kernel; a step that waits for a mutex or in `join()` is
  disabled; a `send()` to a peer that may have stopped reading (`SlowPeer`) need never
  return. Peers owe nothing: lines, closes and signals are not in the fair actions.
  `RequestedStopHappens` has as its antecedent that no thread is blocked for ever,
  because `shutdown_all` sends and joins with no timeout; the antecedent leaves every
  finite delay in, and TLC checks it with a slow peer.
* Gateway: `WF` on what Node's event loop or the server's threads will run: a hash
  that completes, a connection attempt that ends either way, an event that has
  arrived, the close of a WebSocket that was asked for (the `ws` library
  enforces it with a timeout). Browsers' messages are not fair.
* Line: `WF` on `ServerStep(c)` and `GatewayStep(c)` of each connection: the handler's
  thread runs whenever there are bytes, the end of a stream or a frame to send, and
  the event loop emits what has arrived. The answer to a nickname claim is one of
  `GatewayStep`'s: the server gives it (`LoginAnswered` is about when). Texts and
  departures are not fair.
* Browser: `WF` on tasks that are due and on the gateway's answers. Clicks and
  losses are not fair.

## 6. What is proved

### The server

`ThreadLinkServer_proofs` and `ThreadLinkRoom_proofs` prove, for every set of
connections, descriptors and names and every bound:

* `Invariance`: `Spec => []IInv`; and from it `TypeCorrect`, `NicknamesUnique`,
  `CapacityKept`, `ReapingIsSafe`, `HandlersTracked`, `NoStaleRecord`;
* `ImplementsChatRoom`: `Spec => IsChatRoom`.

Assumptions: `ServerConstants` (descriptors are natural numbers, finitely many;
default names are distinct; the markers are not in the sets they mark), and
nothing about scheduling.

None of the safety properties is inductive. Nickname uniqueness is about records,
and a record that outlived its descriptor would be found by the next owner;
capacity needs `accept_one`'s own connection to be counted between its insertion
and the start of its thread; reaping needs each entry of `client_threads_` to
name the descriptor its thread still owns. `IInv` says all of it together:

1. `DescriptorsHeld`: a handler owns its descriptor until it closes it, and
   `accept_one` owns the one it accepted until it has started the thread;
2. `RegistryMatches`: a descriptor is registered exactly while it belongs to a
   client being served or admitted (`Seated`);
3. `ThreadsMatch`: an entry of `client_threads_` has the descriptor of its
   connection, and the iterator points at one while it joins;
4. `NickUnique`, `WithinCapacity`, `JoinsOnlyLeavers`, `NoHandlerForgotten`, with the
   type invariant and the labels of each thread.

The proof goes part by part (`LabelsStep`, `DescriptorsStep`, `RegistryStep`,
`NicksStep`, `CapacityStep`, `ThreadsStep`, `ScanStep`, `JoinsStep`, `ForgottenStep`,
`TypesStep`), each by the actions that can disturb it; steps that only send
leave the registry alone (`QuietKeepsRegistry`).

The refinement uses the invariant to see a record through its connection:
`MemberIsSeated` says the room's `member` is the nickname of each seated client's
own descriptor, after which `AdmitJoins`, `LeaveLeaves` and `NickRenamesOrNot` map
one action each, and everything else is a stutter.

### What the server delivers

`ThreadLinkDelivery_proofs` proves, under the same assumptions, what becomes of the
bytes: `Delivery`, `Spec => []DeliveryInv`, and from it

* `FramesWhole`: `FramesIntact`, that the frames meant for a client are whole and that
  anything else it is sent is `Stale`;
* `WelcomeFirst` and `GoodbyeFirst`: `WelcomeBeforeRest`, if `Kept` has the two
  greetings, and `GoodbyeBeforeCut`, if it has BYE. `Kept` only bounds which frames
  `stream` records; a history that does not record greetings has nothing to say
  about them.

The promises are about what was sent, and what will be sent is decided earlier, when a frame
is queued or a broadcast copies its targets; so `DeliveryInv` follows a frame from there:
who has a descriptor in hand has it open (`OpenDescriptors`), the queue of a thread has the
form its next statement expects (`QueuesFit`), a thread that is between the header and the
body of a frame holds the mutex of the connection whose stream ends in that header
(`FramesUnderWay`), a frame goes to the descriptor its client was accepted on, which is
another's only when that client has closed (`HeldUntilClosed`), only the client that is
being greeted is registered without being welcomed, and only its greeting was queued for it
or sent to it (`WelcomedInTime`, `GreetingsFirst`), and whoever shutdown has not told yet is
still to be told (`GoodbyesSaid`). It is inductive together with `IInv` only.

### Framing and the line

`FrameLink_proofs` proves, for every set of connections, every two limits and every
payload of bytes:

* `LinkInvariant`: `LinkSpec => []LinkInv`;
* `OnlyTooLargeRefused`: a reader refuses a frame only for a payload over its limit,
  so it never takes other bytes for a length;
* `NothingDiscarded`: `ServerFitsGateway`; `LinkIsChannel`: `LinkSpec => IsChannel`.

That payloads come out whole is not inductive: what a reader will do depends on
where in the stream it is and on the bytes it holds. `LinkInv` says for each stream

1. `Written`: the stream is the frames of `sent`, laid end to end (`LaidOut`), or a
   first part of them once its writer has closed;
2. `Given`: the reader has been given the first payloads of `sent`;
3. `Phased`: it stands behind them (`Mark`), behind the next header too if it reads a
   body, and `buffer` holds the bytes from there to `arrived`.

The proof rests on lemmas about frames: a header is the length it was made of
(`HeaderOfLength`), a stream stays laid out when a frame is appended
(`LaidOutWrite`) or its end cut off (`LaidOutCut`), four bytes behind a mark are the
header of the next frame (`HeaderRead`), and the bytes after it its payload
(`BodyRead`). Each action then has a lemma of its own (`WriteKeeps` to `CloseKeeps`).

`BackendLine_proofs` carries it over to the two programs:

* `LineInvariant`: `LineInv`, types and `EndsMatch`, which is inductive with `LinkInv`
  only (a `Write` needs its stream open, and a `Close` once);
* `LineUsesLink`: `Spec => LinkSpec`, so that every step of a handler, a callback or a
  browser is a step of one stream or of none; and from it `LineKeepsLink`,
  `LineIsChannel` and `NoFrameTooLarge`.

With framing settled, two theorems say what becomes of a text:

* `TextsAreStored`: `Spec => []TypedIsStored`, every text is stored once or waits in
  the queue, in the order of typing but for those of the claim;
* `RelaysInOrder`: `Spec => []RelayedInOrder`, a page shows the others' texts in order
  and once each, without those the server does not relay.

Neither is inductive: between a text typed and a text shown lie two streams, the
handler's thread and what it has still to send. `RelayInv` has a part for each
stretch of the way (`HeadOf(u, v)`: `v` begins with `u`):

1. `StoredOn`: what is stored and queued is what was typed, by whether it was typed
   before WELCOME, during the claim, or when ready;
2. `SentOn`: the gateway has written to the server the texts stored, a first part of
   them once the connection is closed;
3. `RelaysOn`: the texts of `c` in the stream to `d` begin `Plan(c, d)`, the relays of
   what the handler of `c` has read since `d` was welcomed, and are all of it but for
   at most one frame that is still due, as long as `d` can be reached;
4. `PagesOn`: the page of `d` shows what its connection brought, a first part once the
   browser has gone;
5. and what these need: `LimitsHold` (nothing over its limit was read), `ExitsLast`
   (`/exit` is the last line a handler reads), `JobsFit` (a handler sends relays of its
   own client to others, and ERR to its client), `Greeted` (WELCOME comes once and first).

`RelayInductive` proves it together with `LineInv` and `LinkInv`. `PagesFollow` then
chains the parts: a page is a head of what the connection brought, that of what was
sent (`IsChannel`'s argument), that of the plan, and the plan of what is relayed of the
texts stored. The lemmas under it are about `At`: what it is when a sequence gets one
element more (`AtAppend`), and that a head of a sequence gives a head of what is picked.
A line that ends the session is known by how it begins (`IsExit`), not by being one line.

Assumptions: `LineConstants` (texts, prefixes and the server's lines are sequences of
bytes, the limits natural numbers, the settings records of the form given,
connections finitely many) and `LinesDiffer` (the gateway tells the server's lines
apart: WELCOME and ERR do not begin with `MSG <nick> `, and no such prefix begins with
another, as a nickname holds no blank; `/exit` is a command; the default limit is
between the least and the greatest, which a header can hold: `Config.cpp`), and nothing
about scheduling or about `ChunkSizes`.

### Sessions

`GatewaySessions_proofs` proves, for every set of WebSockets, accounts and names and
every number of login attempts:

* `GatewayTypes`: `Spec => []TypeOK`, whatever goes wrong (`Faults` is arbitrary);
* `UsernamesUnique`: `Spec => []AccountsUnique`, likewise;
* `RosterIsAccurate`: `Spec => []RosterAccurate`, likewise: browsers that leave or log in
  twice while a password is hashed and connections that fail are all in it.
* `ViewsMatch`: `Spec => []ViewMatchesRoster`, for `Faults` without `closeInAuth`,
  `doubleLogin` and `connectFails`. It needs the roster to have live sessions only
  (`RosterExact`), and each of the three breaks that: the first is the run
  `ghost`; with the second a session changes its account and stays under the old one;
  with the third `handleAuth` takes a session out of the roster before it has closed.
* `NicknamesMirrored`: `Spec => []NicknameMirrored`, and
* `AnnouncedByTheirName`: `Spec => AnnouncedByName`, both for `Faults` without `doubleLogin`
  and with everything else, NICK broadcasts that race with renames and with each other
  included. Of two logins on one WebSocket the second one's name replaces the first one's,
  and the first one's connection goes on renaming the session.

Types alone are not inductive, because the code looks things up through several
objects: a session shown online must have an account, so whoever has a connection or a
place in the roster must be authenticated (`SessionsOwned`); `onClientClosed` hangs up
`session.backend`, which must be a connection of that session; a NICK that is stored as
a username must carry a name, in the inbox (`EventsNamed`) and in the broadcast it comes
from (`TellsNamed`). `TypeInv` adds these to `TypeOK`; each action has a lemma, which
takes the variables it changes one by one.

`RosterAccurate` follows the roster from what writes it: a login, an end of a WebSocket, a
failed connection (`RosterMoves`). `ListInv` adds to it and to the types that a Session
object is closed when its WebSocket is (`Shut`), and that an attempt has no connection
before its hash is done (`Unlinked`), so that the attempt of an entry keeps its account.

The exact roster needs to know what an attempt that is hashing will find when it resumes:
`RosterInv` adds to `RosterExact` that its session is neither closed nor logged in
(`HashingOpen`), that it is the only one of its session (`OneHashing`), and `Shut`. Those
are what the faults take away.

For what browsers show, `ViewInv` adds `OwnInv` (whose account, connection and name
belong together, and that `ready` comes after `welcomed` and that after a login), that a
session with a connection that is alive is not closed (`LinksOpen`), and that a
WebSocket that never connected has asked for nothing (`NotYet`).

A nickname follows its connection through events that are still to come: `Leads(q, n, m)`
says that the events of queue `q`, as the gateway takes them, turn name `n` into `m`, and
`NicknamesFollow` that the inbox of a connection that is not crossed turns the nickname of
its session into the last name the connection was told (`Known`). An event about somebody
else must not look like one's own: `MirrorInv` adds that a NICK broadcast under way is
about its handler's own client, whose name is the new one (`TellingsFit`), that names on the
server are unique (`MembersUnique`), and that what a connection is still to be told by
others is neither about the name it bears nor about the one it was last told
(`NamesApart`). Only taking or giving up a name could end that, and then the name is one
that somebody's broadcast, still on its way to the connection, gives up: exactly what
`crossed` records (`NamesApartStep`).

That a login is announced by its name depends on everything that is on the way between
`OnWelcome` and the answer to the claim it makes. `ClaimInv` adds to `MirrorInv`: nothing is
sent over a connection before its session is welcomed (`SilentBefore`), WELCOME is its first
event and comes once, and, unless it is crossed, no event behind it is about the name it
gives (`WelcomeOnce`, `WelcomeAhead`), until it is ready a session wants the name of its
attempt (`WantsItsName`), and as long as its browser listens and its connection is not
crossed, the first event to decide the login gives that name or refuses it (`NameUnderWay`).
There the claim is followed from the outbox, where it stands before whatever the browser has
asked for since, to the handler that tells of the rename, to the inbox (`Claimed`); a
refusal closes the WebSocket before anything behind it is read.

### Routing and the pages

`GatewayRouting_proofs` proves, for every set of accounts and names, everything users do
(`Uses`) and every bound:

* `RoutingTypes`: `Spec => []TypeOK`;
* `NamesAreShown`: `Spec => []NamesShown`;
* `GroupsAreExact`: `Spec => []GroupsExact`;
* `UnreadIsCounted`: `Spec => UnreadCounted`;
* `MessagesShownOnce`: `Spec => []ShownOnce`;
* `NothingIsMissed`: `Spec => []NothingMissed`;
* `ConversationsAreShown`: `Spec /\ [][AsksOwn(own)]_vars => []ConversationsShown` for every
  division `own` of the names among the accounts (`Owned(own)`: no name is two accounts'),
  where nobody asks for a name that is not theirs;
* `ShownUnderUsernames`: `Spec => []ConversationsShown` if no other names can be typed, the
  case of the `groups` run.

The hypothesis of the last two is needed: when a nickname goes from one account to
another, `OnPriv` finds the wrong account by it and records a conversation that nobody is
told of, as the run `attribution` shows.

Assumptions: `RoutingConstants` (usernames and default nicknames are distinct, ids are
not names), and nothing about scheduling, about crashes or about how many messages,
groups and renames there are.

Many actions change pages, so the proofs first say what each does to one variable
at a time (`HistoryMoves`, `ConvsMoves`, `OutboxMoves`, `RelayMoves`, `InboxMoves`,
`SessMoves`), and to a page: it says the same as before (`Calm`), has one line more
(`Adds`), or is a snapshot (`Fresh`), for each operator of ChatReducer and then for each
action (`PageMoves`). Snapshots are what the two SQL queries and the reducer's filter make
of the tables, in the order of the tables: `RowsExact` says so from the definition of
`Among`.

1. `Core` is the type invariant with what makes it inductive: lines, jobs and events that
   name a message name a stored one (`QueuesFit`), pages belong to whoever is ready and to
   nobody else (`PagesFit`), groups are numbered (`GroupsNumbered`), and a welcome comes
   once and first (`Greetings`), without which a second snapshot could come at any time.
2. `NamesShown` is inductive with it: a session becomes ready and is told to every other in
   the same callback.
3. `GroupsInv` is `GroupsExact` for the tables at hand (`HasGroups`, `Holds`), and that no
   message is stored in a group there is not.
4. `UnreadCounted` is a fact about single steps from a state of `Core`: `Counts` holds of each
   of the three things that happen to a page.
5. `ShownOnce` needs the whole way of a message: the line to the server, then the jobs of
   the handler that took it, then the events in the inboxes, then the pages. At each place
   it is once per account, and never at two of them (`Alone`); a group's message takes the
   way through the gateway only; and a page that has it has nothing of it before it
   (`OncePages`). A handler's jobs go to every client but the sender, and the sender's own
   copy is the gateway's: that keeps the two apart (`Away`).
6. `NothingMissed` follows a message forward along the same way. `Coming` is the inductive
   part: a ready page has the message, or a line, a job or an event will bring it, or it is
   counted lost. It needs that who is in the roster has a connection to be reached by
   (`Bound`), that a stored message has its conversation (`Homed`) and that a direct
   conversation has rows of its two sides only (`Paired`). A snapshot is taken from the
   tables, so it has all that is stored; groups' messages take no such way (`GroupsInv`).
7. `ConversationsShown` needs `OwnInv`: the names that the tables, lines, jobs and events
   carry are their account's own, and whoever a direct message names has a conversation with
   its sender in the table (`Met`). So when the message comes, by `OnPriv` or
   `OnPrivSent`, the account found by the name is that one, and the conversation exists.
   What is new in the table is then announced in the same step to every side that is online
   (`GroupTold`, `ConversationsStep`), and the others get it with their snapshot.

### The browser's connection

`WebClient_proofs` proves `ClientTypes`, `StatusIsHonest` and `OneLogin`: `Spec =>` the
type invariant, `StatusHonest` and `OneLoginUnderWay`, for every number of reconnect
attempts and clicks.

That a login is under way once is not inductive: it depends on the login screen being shown
only when nothing is pending, and so on what the page will be told. `IInv` adds: a page
without an open socket has nothing under way (`SocketOwns`); while a login waits, so does
the login screen, and no other message is on its way to the page (`LoginWaits`); before
`ready` is shown the page gets at most that and one error (`LoggedOutPage`), and after it
errors, and `loggedOut` as a session's last word (`LoggedInPage`). Each action has a lemma,
with one step per part.

### Only model-checked

Liveness, which the prover does not do: every invariant and action property of a passing
run is stated by a theorem, within the hypotheses given above.

## 7. What is not modelled

* SYS notices in the streams of BackendLine, which the gateway ignores, and `/nick`
  there with its answers, whose races are GatewaySessions' subject: the answer to a
  claim comes at any time. They are frames like the others for FrameLink. `/nick`, `/msg`
  and `/list` typed as texts are answered there as BAD_CMD is.
* A descriptor that is reused while a frame for its former owner is on its way, outside
  ThreadLinkServer: in FrameLink and BackendLine frames are written whole.
* Texts that reach the gateway while it is closing the WebSocket (they are stored, and
  their `sendLine` rejects), in BackendLine and GatewayRouting.
* Messages of a browser other than `sendMessage` in the validation of
  `clientProtocol.ts`, which only refuses what no page sends. Names, passwords and
  groups are model values.
* In GatewayRouting: the delay of the WebSocket, and two sessions of one account; a
  public text that is a command, or whose relay is over the frame limit, which BackendLine
  has, and so `lost` does not count; a conversation whose peer is a nickname and no account,
  which the gateway answers USER_NOT_FOUND (the model lets a user write in every
  conversation of the page, one whose `peerId` is not set included); a clock set back
  between two messages, which `ORDER BY created_at` would show.
* `new WebSocket` throwing in a reconnect: it does so for the URL, which has served by then.
* The gateway's orderly shutdown (`GatewayServer.close`): nothing the models say
  depends on how a gateway ends, and an end at any moment is modelled (`Crash`).
* Presence, titles, banners, the sidebar and the dialogs but for whom the group
  dialog has listed: they are drawn, and no other state depends on them.
* Formatting, logging, settings other than the frame limits, the terminal client
  (a `select` loop over the same framing, without chat state), UI components.

## 8. Plan

In order:

1. An abstract room for the gateway (who is online, under which name, who may
   read what), with GatewaySessions shown to implement its roster.
2. GatewayRouting on the Session objects of GatewaySessions: two sessions of one
   account, and a backend that goes away while messages are under way.
3. The gateway's orderly shutdown, against sessions that are still logging in.
