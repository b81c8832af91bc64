------------------------------ MODULE BackendLine ------------------------------
(***************************************************************************)
(* A public text from the browser that sends it to the browsers that show  *)
(* it, with its size: the gateway's checks (clientProtocol.ts), the queue  *)
(* of an unready session (session.ts), the line in a frame to the chat     *)
(* server, handle_line there, the relay in a frame to every other          *)
(* connection, and the events a BackendConnection makes of what it reads;  *)
(* and what becomes of a connection when a frame is over a limit.  The     *)
(* limits are what Config.cpp and config.ts make of their settings.  Left  *)
(* out of the streams are SYS notices, which the gateway ignores, and      *)
(* /nick with its answers, whose races are in GatewaySessions: here the    *)
(* answer to a claim comes at any time.                                    *)
(***************************************************************************)
EXTENDS FrameLink, FiniteSets

CONSTANTS
  Texts,          \* bound: Texts[u]: what users type under setup u, in UTF-8
  Prefix,         \* Prefix[c]: "MSG <nickname of c> "
  Welcome, Err,   \* the server's other frames; their text is left out
  Slash, Space,   \* the bytes "/" and " "
  Exit,           \* the line "/exit"
  Newlines,       \* the bytes CR and LF
  MaxTextLen,     \* MAX_TEXT_LEN
  MinLimit, MaxLimit, DefaultLimit,   \* of a frame, the same in both programs
  Setups,         \* bound: the MAX_MESSAGE_SIZE lines of server.conf, and the
                  \* values of BACKEND_MAX_MESSAGE_BYTES, as records
  Claimers,       \* bound: whose username is not the nickname the server gives
  Typists,        \* bound: whose browsers send texts
  Leavers,        \* bound: whose browsers leave
  MaxTexts,       \* bound: texts typed in a behaviour
  ChunkSizes      \* bound: ChunkSizes[s]: the chunks the socket of s gives,
                  \* besides everything there is

VARIABLES
  setup,      \* the settings both programs were started with
  ws,         \* ws[c]: readyState of the browser's WebSocket
  closed,     \* closed[c]: BackendConnection.closed
  ready,      \* ready[c]: "no" before WELCOME, "claiming" the username
              \* after it, "yes" once readyAnnounced
  pending,    \* pending[c]: Session.pending
  messages,   \* the messages table
  page,       \* page[c]: the messages of others shown to the browser of c
  crashed,    \* the gateway process has ended
  typed,      \* history: the texts of each browser, and ready[c] at the time
  serving,    \* serving[c]: how far handle_client is: "accepted", "serving",
              \* "leaving" (out of its loop), "gone"
  todo,       \* todo[c]: the frames its thread has to send before it reads on
  since       \* history: since[d][c], how many lines of c were handled before
              \* d was welcomed

gatewayVars == <<ws, closed, ready, pending, messages, page, crashed, typed>>
serverVars == <<serving, todo, since>>
vars == <<linkVars, setup, gatewayVars, serverVars>>

Up(c) == <<c, "up">>
Down(c) == <<c, "down">>

(* How much a read may return: all there is, a part of it, and at most     *)
(* what recv_exact still wants.                                            *)
Chunks(s) ==
  LET there == Len(bytes[s]) - arrived[s]
      wanted == Wanted(s) - Len(buffer[s])
  IN  ChunkSizes[s] \cup {IF IsUp(s) /\ wanted < there THEN wanted ELSE there}

(* How much of a stream a close may leave: all of it, or part of what has  *)
(* not arrived yet.                                                        *)
Cuts(s) ==
  {n \in arrived[s] .. Len(bytes[s]) :
     n - arrived[s] \in ChunkSizes[s] \cup {0, Len(bytes[s]) - arrived[s]}}
-------------------------------------------------------------------------------
(* A setting as its program reads it: the number it starts with, if it     *)
(* does, and whether something follows.  `unset` stands for no setting.    *)
Setting == [unset : BOOLEAN, digits : BOOLEAN, num : Int, tail : BOOLEAN]

ASSUME LineConstants ==
  /\ IsFiniteSet(Conn)
  /\ Texts \in [Setups -> SUBSET Payload] /\ Prefix \in [Conn -> Payload]
  /\ Welcome \in Payload /\ Err \in Payload
  /\ MinLimit \in Nat /\ MaxLimit \in Nat /\ DefaultLimit \in Nat
  /\ Setups \subseteq [conf : Seq(Setting), env : Setting]

(* What split_first finds of a line: it begins with p, a word and its blank. *)
Begins(line, p) == Len(p) <= Len(line) /\ SubSeq(line, 1, Len(p)) = p

(* A nickname has no blank in it, so no prefix begins with another;        *)
(* WELCOME and ERR lines are not messages; /exit is a command; a length    *)
(* within the limits fits a header.                                        *)
ASSUME LinesDiffer ==
  /\ \A c \in Conn : ~Begins(Welcome, Prefix[c]) /\ ~Begins(Err, Prefix[c])
  /\ \A c, d \in Conn : c # d => ~Begins(Prefix[c], Prefix[d])
  /\ Welcome # Err
  /\ Exit # <<>> /\ Exit[1] = Slash
  /\ MinLimit <= DefaultLimit /\ DefaultLimit <= MaxLimit /\ Fits(MaxLimit)

InRange(n) == n \in MinLimit .. MaxLimit

(* apply_max_message_size: the whole value must be a number in the range. *)
Applies(v) == ~v.unset /\ v.digits /\ ~v.tail /\ InRange(v.num)

(* load_config: every line with a valid value overrides the ones before. *)
LoadConfig(lines) ==
  LET valid == {i \in DOMAIN lines : Applies(lines[i])}
  IN  IF valid = {} THEN DefaultLimit
      ELSE lines[CHOOSE i \in valid : \A j \in valid : j <= i].num

(* intFromEnv: parseInt takes the number the value starts with. *)
IntFromEnv(v) == IF ~v.unset /\ v.digits /\ InRange(v.num) THEN v.num ELSE DefaultLimit

(* validateClientMessage: a text of 1 to MAX_TEXT_LEN UTF-16 units.  Bytes *)
(* 128..191 continue a character, and 240 and up start one of two units.   *)
Units(text) ==
  Cardinality({i \in DOMAIN text : text[i] \notin 128 .. 191})
    + Cardinality({i \in DOMAIN text : text[i] >= 240})
Accepted(text) == Units(text) \in 1 .. MaxTextLen

(* handle_line: the line without its trailing CR and LF. *)
Trim(line) ==
  LET text == {i \in DOMAIN line : line[i] \notin Newlines}
  IN  IF text = {} THEN <<>>
      ELSE SubSeq(line, 1, CHOOSE i \in text : \A j \in text : j <= i)

IsCommand(line) == line # <<>> /\ line[1] = Slash

(* What split_first finds first is "/exit", whatever comes after it. *)
IsExit(line) == IsCommand(line) /\ (line = Exit \/ Begins(line, Append(Exit, Space)))

Job(to, frame) == [to |-> to, frame |-> frame]

\* Slip: the loop over the targets goes round once more.
SlipOrders(C) == [1 .. Cardinality(C) + 1 -> C]

(* A sequence of one job per connection of a set: broadcast() goes through *)
(* clients_ in the order of descriptors, which is any.                     *)
Orders(C) == {o \in [1 .. Cardinality(C) -> C] : \A c \in C : \E i \in DOMAIN o : o[i] = c}
Broadcasts(C, frame) == {[i \in DOMAIN o |-> Job(o[i], frame)] : o \in Orders(C)}

(* The welcomed clients but one: a record is erased at the end. *)
Others(c) == {d \in Conn \ {c} : serving[d] \in {"serving", "leaving"}}
-------------------------------------------------------------------------------
(* The chat server. *)

(* accept_one, from WELCOME to the thread. *)
Accept(c) ==
  /\ serving[c] = "accepted"
  /\ Write(Down(c), Welcome)
  /\ serving' = [serving EXCEPT ![c] = "serving"]
  /\ since' = [since EXCEPT ![c] = [d \in Conn |-> Len(got[Up(d)])]]
  /\ UNCHANGED <<setup, gatewayVars, todo>>

(* handle_line, and the loop of handle_client around it.  Any command but  *)
(* /exit is answered as an unknown one is, with BAD_CMD; what /nick, /msg  *)
(* and /list do, typed as a text, is in ThreadLinkServer.                  *)
HandleLine(c, payload) ==
  LET line == Trim(payload) IN
  \/ /\ line = <<>>
     /\ UNCHANGED serverVars
  \/ /\ IsExit(line)
     /\ serving' = [serving EXCEPT ![c] = "leaving"]
     /\ UNCHANGED <<todo, since>>
  \/ /\ IsCommand(line) /\ ~IsExit(line)
     /\ todo' = [todo EXCEPT ![c] = <<Job(c, Err)>>]
     /\ UNCHANGED <<serving, since>>
  \/ /\ line # <<>> /\ ~IsCommand(line)
     /\ \E jobs \in Broadcasts(Others(c), Prefix[c] \o line) : todo' = [todo EXCEPT ![c] = jobs]
     /\ UNCHANGED <<serving, since>>

(* A recv() of the handler of c, and what handle_client does when it       *)
(* completes recv_frame: handle a line, or complain about a length.        *)
ServerReads(c) ==
  /\ serving[c] = "serving" /\ todo[c] = <<>>
  /\ \E n \in Chunks(Up(c)) : Recv(Up(c), n)
  /\ \/ /\ got' = got /\ phase'[Up(c)] # "refused"
        /\ UNCHANGED serverVars
     \/ /\ got' # got
        /\ HandleLine(c, got'[Up(c)][Len(got'[Up(c)])])
     \/ /\ phase'[Up(c)] = "refused"
        /\ todo' = [todo EXCEPT ![c] = <<Job(c, Err)>>]
        /\ serving' = [serving EXCEPT ![c] = "leaving"]
        /\ UNCHANGED since
  /\ UNCHANGED <<setup, gatewayVars>>

(* recv() returns 0 or an error: the gateway has closed the connection, or *)
(* is no more.                                                             *)
ServerAtEnd(c) ==
  /\ serving[c] = "serving" /\ todo[c] = <<>>
  /\ AtEnd(Up(c)) \/ crashed
  /\ serving' = [serving EXCEPT ![c] = "leaving"]
  /\ UNCHANGED <<linkVars, setup, gatewayVars, todo, since>>

(* send_frame to the next target.  A frame over the limit is not sent, nor *)
(* one to a connection that is closed or that nobody reads any more; the   *)
(* result is not looked at.                                                *)
Reaches(job) == MayWrite(Down(job.to), job.frame) /\ phase[Down(job.to)] # "closed"
ServerSends(c) ==
  /\ todo[c] # <<>>
  /\ todo' = [todo EXCEPT ![c] = Tail(@)]
  /\ LET job == Head(todo[c]) IN
     \/ Reaches(job) /\ Write(Down(job.to), job.frame)
     \/ ~Reaches(job) /\ UNCHANGED linkVars
  /\ UNCHANGED <<setup, gatewayVars, serving, since>>

(* The end of handle_client: the record is erased and the socket closed.   *)
(* A close with bytes unread resets the connection, and what the gateway   *)
(* has not read by then may be lost.                                       *)
Leave(c) ==
  /\ serving[c] = "leaving" /\ todo[c] = <<>>
  /\ \E n \in Cuts(Down(c)) :
       /\ arrived[Up(c)] = Len(bytes[Up(c)]) => n = Len(bytes[Down(c)])
       /\ Close(c, "down", n)
  /\ serving' = [serving EXCEPT ![c] = "gone"]
  /\ UNCHANGED <<setup, gatewayVars, todo, since>>
-------------------------------------------------------------------------------
(* The gateway.  A callback runs to its end: what takes several steps      *)
(* here, a push and the replay of a queue, lets nothing else in.           *)
Busy ==
  \E c \in Conn :
    \/ Decoding(Down(c))
    \/ phase[Down(c)] = "refused" /\ ~closed[c]
    \/ ready[c] = "yes" /\ pending[c] # <<>>
Free == ~crashed /\ ~Busy

(* sendLine: throws on a closed connection, and nobody catches it.  On one *)
(* the server has closed the write may fail, to the same effect.           *)
SendLine(c, line) ==
  \/ /\ closed[c]
     /\ crashed' = TRUE
     /\ UNCHANGED linkVars
  \/ /\ ~closed[c] /\ serving[c] = "gone"
     /\ crashed' \in BOOLEAN
     /\ UNCHANGED linkVars
  \/ /\ ~closed[c] /\ serving[c] # "gone"
     /\ Write(Up(c), line)
     /\ UNCHANGED crashed

(* handleSendMessage to the public conversation: store, echo, send.  The   *)
(* echo is on the sender's page with the message, in every case.           *)
SendMessage(c, text) ==
  /\ messages' = Append(messages, [by |-> c, text |-> text])
  /\ SendLine(c, text)

(* onClientRaw for a sendMessage that is valid.  A text that comes while   *)
(* the gateway is closing the WebSocket is left out: it would be stored,   *)
(* and its sendLine rejected.                                              *)
FromBrowser(c, text) ==
  /\ Free /\ ws[c] = "open" /\ Accepted(text)
  /\ Len(typed) < MaxTexts
  /\ typed' = Append(typed, [by |-> c, text |-> text, when |-> ready[c]])
  /\ \/ /\ ready[c] # "no"
        /\ SendMessage(c, text)
        /\ UNCHANGED pending
     \/ /\ ready[c] = "no"
        /\ pending' = [pending EXCEPT ![c] = Append(@, text)]
        /\ UNCHANGED <<linkVars, messages, crashed>>
  /\ UNCHANGED <<setup, ws, closed, ready, page, serverVars>>

(* The answer to the claim: NICK, or ERR NICK_TAKEN, which ends the        *)
(* session.                                                                *)
Claimed(c) ==
  /\ Free /\ ~closed[c] /\ ready[c] = "claiming"
  /\ \/ /\ ready' = [ready EXCEPT ![c] = "yes"]
        /\ UNCHANGED ws
     \/ /\ ws' = [ws EXCEPT ![c] = IF @ = "open" THEN "closing" ELSE @]
        /\ UNCHANGED ready
  /\ UNCHANGED <<linkVars, setup, closed, pending, messages, page, crashed, typed, serverVars>>

\* Slip: the queue is not emptied from its front.
SlipReplay(c) ==
  /\ ~crashed /\ ready[c] = "yes" /\ pending[c] # <<>>
  /\ SendMessage(c, pending[c][Len(pending[c])])
  /\ pending' = [pending EXCEPT ![c] = SubSeq(@, 1, Len(@) - 1)]
  /\ UNCHANGED <<setup, ws, closed, ready, page, typed, serverVars>>

(* announceReady replays what was queued. *)
Replay(c) ==
  /\ ~crashed /\ ready[c] = "yes" /\ pending[c] # <<>>
  /\ SendMessage(c, Head(pending[c]))
  /\ pending' = [pending EXCEPT ![c] = Tail(@)]
  /\ UNCHANGED <<setup, ws, closed, ready, page, typed, serverVars>>

(* A `data` event. *)
OnData(c) ==
  /\ Free /\ ~closed[c]
  /\ \E n \in Chunks(Down(c)) : Data(Down(c), n)
  /\ UNCHANGED <<setup, gatewayVars, serverVars>>

(* A frame of it, and onBackendEvent for the line in it.  A page is sent   *)
(* nothing once its WebSocket is closing (sendTo).                         *)
From(frame) == {c \in Conn : Begins(frame, Prefix[c])}
OnFrame(c) ==
  /\ ~crashed
  /\ Extract(Down(c))
  /\ LET frame == got'[Down(c)][Len(got'[Down(c)])] IN
     \/ /\ frame = Welcome
        /\ ready' = [ready EXCEPT ![c] = IF c \in Claimers THEN "claiming" ELSE "yes"]
        /\ UNCHANGED page
     \/ /\ frame = Err
        /\ UNCHANGED <<ready, page>>
     \/ \E by \in From(frame) :
        /\ page' = IF ws[c] # "open" THEN page
                   ELSE [page EXCEPT ![c] = Append(@,
                     [by |-> by, text |-> SubSeq(frame, Len(Prefix[by]) + 1, Len(frame))])]
        /\ UNCHANGED ready
  /\ UNCHANGED <<setup, ws, closed, pending, messages, crashed, typed, serverVars>>

(* push returns too_large; the `data` handler then calls close(), which    *)
(* sets `closed` before the socket's own `close` event can be passed on.   *)
OnTooLarge(c) ==
  /\ ~crashed
  /\ TooLarge(Down(c))
  /\ UNCHANGED <<setup, gatewayVars, serverVars>>

\* Slip: close() does not remember that it was called.
SlipHangup(c) ==
  /\ UNCHANGED closed
  /\ \E n \in Cuts(Up(c)) : Close(c, "up", n)

Hangup(c) ==
  /\ closed' = [closed EXCEPT ![c] = TRUE]
  /\ \E n \in Cuts(Up(c)) : Close(c, "up", n)

Discard(c) ==
  /\ ~crashed
  /\ phase[Down(c)] = "refused" /\ ~closed[c]
  /\ Hangup(c)
  /\ UNCHANGED <<setup, ws, ready, pending, messages, page, crashed, typed, serverVars>>

\* Slip: the WebSocket of a session that has lost its backend stays open.
SlipOnBackendClosed(c) ==
  /\ Free /\ ~closed[c]
  /\ AtEnd(Down(c))
  /\ Hangup(c)
  /\ UNCHANGED <<setup, ws, ready, pending, messages, page, crashed, typed, serverVars>>

(* The socket's `close` event, and onBackendClosed. *)
OnBackendClosed(c) ==
  /\ Free /\ ~closed[c]
  /\ AtEnd(Down(c))
  /\ Hangup(c)
  /\ ws' = [ws EXCEPT ![c] = IF @ = "open" THEN "closing" ELSE @]
  /\ UNCHANGED <<setup, ready, pending, messages, page, crashed, typed, serverVars>>

(* The browser closes its WebSocket. *)
BrowserLeaves(c) ==
  /\ Free /\ ws[c] = "open"
  /\ ws' = [ws EXCEPT ![c] = "closing"]
  /\ UNCHANGED <<linkVars, setup, closed, ready, pending, messages, page, crashed, typed, serverVars>>

(* onClientClosed: the roster entry goes and the connection is closed. *)
OnClientClosed(c) ==
  /\ Free /\ ws[c] = "closing"
  /\ ws' = [ws EXCEPT ![c] = "closed"]
  /\ \/ closed[c] /\ UNCHANGED <<linkVars, closed>>
     \/ ~closed[c] /\ Hangup(c)
  /\ UNCHANGED <<setup, ready, pending, messages, page, crashed, typed, serverVars>>
-------------------------------------------------------------------------------
Init ==
  /\ setup \in Setups
  /\ limits = [server |-> LoadConfig(setup.conf), gateway |-> IntFromEnv(setup.env)]
  /\ LinkInit
  /\ ws = [c \in Conn |-> "open"]
  /\ closed = [c \in Conn |-> FALSE]
  /\ ready = [c \in Conn |-> "no"]
  /\ pending = [c \in Conn |-> <<>>]
  /\ messages = <<>>
  /\ page = [c \in Conn |-> <<>>]
  /\ crashed = FALSE
  /\ typed = <<>>
  /\ serving = [c \in Conn |-> "accepted"]
  /\ todo = [c \in Conn |-> <<>>]
  /\ since = [c \in Conn |-> [d \in Conn |-> 0]]

ServerStep(c) ==
  \/ Accept(c) \/ ServerReads(c) \/ ServerAtEnd(c)
  \/ ServerSends(c) \/ Leave(c)

GatewayStep(c) ==
  \/ Claimed(c) \/ Replay(c) \/ OnData(c) \/ OnFrame(c) \/ OnTooLarge(c) \/ Discard(c)
  \/ OnBackendClosed(c) \/ OnClientClosed(c)

Next ==
  \E c \in Conn :
    \/ ServerStep(c)
    \/ GatewayStep(c)
    \/ c \in Leavers /\ BrowserLeaves(c)
    \/ c \in Typists /\ \E text \in Texts[setup] : FromBrowser(c, text)

Spec == Init /\ [][Next]_vars

(* The server's threads run, and so does Node's event loop; users owe      *)
(* nothing.                                                                *)
FairSpec == Spec /\ \A c \in Conn : WF_vars(ServerStep(c)) /\ WF_vars(GatewayStep(c))
-------------------------------------------------------------------------------
Readiness == {"no", "claiming", "yes"}
Log == Seq([by : Conn, text : Payload])
LineTypeOK ==
  /\ setup \in Setups
  /\ ws \in [Conn -> {"open", "closing", "closed"}]
  /\ closed \in [Conn -> BOOLEAN]
  /\ ready \in [Conn -> Readiness]
  /\ pending \in [Conn -> Seq(Payload)]
  /\ messages \in Log
  /\ page \in [Conn -> Log]
  /\ crashed \in BOOLEAN
  /\ typed \in Seq([by : Conn, text : Payload, when : Readiness])
  /\ serving \in [Conn -> {"accepted", "serving", "leaving", "gone"}]
  /\ todo \in [Conn -> Seq([to : Conn, frame : Payload])]
  /\ since \in [Conn -> [Conn -> Nat]]

(* What each program believes of its end of a connection is so: it writes  *)
(* to one that is open only, and closes none twice (BackendConnection      *)
(* `closed`, backendConnection.ts:90 and :97; the record of a client,      *)
(* Server.cpp:222).                                                        *)
EndsMatch ==
  \A c \in Conn :
    /\ ended[Up(c)] = closed[c]
    /\ ended[Down(c)] = (serving[c] = "gone")

LineInv == LineTypeOK /\ EndsMatch

(* The two programs are set up as config.ts:15 and docs/GATEWAY_PROTOCOL.md *)
(* 6 ask: the gateway has the server's limit.                              *)
Documented ==
  \/ setup.env.unset /\ setup.conf = <<>>
  \/ /\ setup.env.digits /\ ~setup.env.tail
     /\ setup.conf = <<setup.env>>

(* What becomes of a stored text: the server cuts the connection off, or   *)
(* leaves, or relays it, or does something else with it.                   *)
Refused(text) == Len(text) > limits.server
Ends(text) == Refused(text) \/ IsExit(Trim(text))
IsRelayed(c, text) ==
  LET line == Trim(text) IN
    ~Refused(text) /\ line # <<>> /\ ~IsCommand(line) /\ Len(Prefix[c] \o line) <= limits.server

(* The elements of a sequence at the places I, in their order. *)
Place(I, k) == CHOOSE i \in I : Cardinality({j \in I : j <= i}) = k
At(s, I) == [k \in 1 .. Cardinality(I) |-> s[Place(I, k)]]

TextsOf(log) == [i \in DOMAIN log |-> log[i].text]
TextsBy(c, log) == At(TextsOf(log), {i \in DOMAIN log : log[i].by = c})
TypedWhen(c, when) ==
  At(TextsOf(typed), {i \in DOMAIN typed : typed[i].by = c /\ typed[i].when = when})

(* Of the texts `all` of c the server relays to d, for as long as it       *)
(* handles them, those since d was welcomed.                               *)
Carried(c, d, all) ==
  {i \in DOMAIN all :
     since[d][c] < i /\ IsRelayed(c, all[i]) /\ \A j \in 1 .. i : ~Ends(all[j])}
Relayed(c, d) ==
  LET all == TextsBy(c, messages)
      lines == At(all, Carried(c, d, all))
  IN  [i \in DOMAIN lines |-> Trim(lines[i])]

IsPrefixOf(u, v) == Len(u) <= Len(v) /\ u = SubSeq(v, 1, Len(u))

(* Every text a browser sends is stored, once, or waits in the queue.  The *)
(* queue keeps its order, and texts sent between WELCOME and `ready` pass  *)
(* those sent before WELCOME: they are not queued (gatewayServer.ts:141).  *)
TypedIsStored ==
  \A c \in Conn :
    TextsBy(c, messages) \o pending[c] =
      TypedWhen(c, "claiming") \o TypedWhen(c, "no") \o TypedWhen(c, "yes")

(* Not kept.  A text sent before `ready` is queued, and answered only      *)
(* after it (docs/GATEWAY_PROTOCOL.md:30).                                 *)
QueuedUntilReady ==
  \A c \in Conn : TextsBy(c, messages) # <<>> => ready[c] = "yes"

(* What a browser shows of another's public messages is what that other    *)
(* stored, in order, without the trailing newlines, and without exactly    *)
(* these: blank lines, lines that begin with "/", which the server runs as *)
(* commands, relays over the limit, and what follows a line over the limit *)
(* or /exit (gatewayServer.ts:283, Protocol.cpp:43, clientProtocol.ts:36). *)
RelayedInOrder ==
  \A c, d \in Conn : c # d => IsPrefixOf(TextsBy(c, page[d]), Relayed(c, d))

(* If every connection lasts, all of it is shown in the end. *)
Healthy == ~crashed /\ \A c \in Conn : ~closed[c] /\ serving[c] \in {"accepted", "serving"}
AllRelayed ==
  <>[]Healthy =>
    <>[](\A c, d \in Conn : c # d => TextsBy(c, page[d]) = Relayed(c, d))

(* A session whose connection is gone is ended: its WebSocket is closed,   *)
(* provided the limits are set as documented (backendConnection.ts:70).    *)
LossIsSeen ==
  \A c \in Conn :
    (Documented /\ (closed[c] \/ serving[c] = "gone")) ~> (ws[c] = "closed" \/ crashed)

(* Not kept.  Whatever the limits, a session whose connection is gone is     *)
(* ended: BackendConnection tells by `close` (gatewayServer.ts:93-104).     *)
LossIsAlwaysSeen ==
  \A c \in Conn : (closed[c] \/ serving[c] = "gone") ~> (ws[c] = "closed" \/ crashed)

(* Not kept.  Every stored public message reaches the others. *)
StoredIsRelayed ==
  <>[]Healthy =>
    <>[](\A c, d \in Conn : c # d => TextsBy(c, page[d]) = TextsBy(c, messages))

(* Not kept.  A text the gateway accepts, of up to 4000 characters         *)
(* (docs/GATEWAY_PROTOCOL.md:108), does not cost the sender its session.   *)
TextsAreCarried == \A c \in Conn : phase[Up(c)] # "refused"
===============================================================================
