-------------------------- MODULE ThreadLinkServer --------------------------
(***************************************************************************)
(* The thread-per-client C++ server (src/src/Server.cpp), at the           *)
(* granularity its locks and system calls give it: one action per critical *)
(* section of clients_mtx_, per send() of a frame's header or body, per    *)
(* accept(), join(), shutdown() or close().                                *)
(*                                                                         *)
(* Threads are Main (accept_one, reap_finished_threads, shutdown_all) and  *)
(* one handler per accepted connection, named by the connection.  Every    *)
(* outgoing message goes through broadcast() or send_to_fd(): what a       *)
(* thread still has to send before its next statement is its queue todo.   *)
(*                                                                         *)
(* Descriptors are real: close() frees one and accept() hands out the      *)
(* lowest free one, so a descriptor read under the lock and used after it  *)
(* may by then be another connection's.                                    *)
(***************************************************************************)
EXTENDS Integers, SequencesExt

CONSTANTS
  Conn,          \* connections that may ever be accepted
  FD,            \* descriptors accept() may return
  Name,          \* nicknames
  DefaultName,   \* DefaultName[n] is "User<n>"
  MaxClients,    \* config_.max_clients
  Events,        \* bound: what peers and the operator do in this instance
  Kept,          \* bound: the kinds of frame the history of streams records
  Wanted,        \* bound: the names peers ask for in /nick and /msg
  MaxLines,      \* bound: lines received by all handlers together
  SlowPeer,      \* peers that may stop reading what they are sent
  Main, NoConn, NoName, NoFd

ASSUME ServerConstants ==
  /\ FD \subseteq Nat /\ IsFiniteSet(FD) /\ NoFd \notin FD
  /\ MaxClients \in Nat
  /\ DefaultName \in Seq(Name)
  /\ \A i, j \in DOMAIN DefaultName : i # j => DefaultName[i] # DefaultName[j]
  /\ Wanted \subseteq Name
  /\ MaxLines \in Nat
  /\ SlowPeer \subseteq Conn
  /\ Main \notin Conn /\ NoConn \notin Conn /\ NoName \notin Name

VARIABLES
  running,   \* running_
  asked,     \* history: a shutdown was requested
  clients,   \* clients_: a partial function from descriptors to records
  threads,   \* client_threads_
  owner,     \* kernel: the connection each descriptor refers to
  peer,      \* the TCP state of each connection
  stream,    \* history: what the kernel took for each connection, in order
  pc,        \* where each thread is
  todo,      \* what each thread has to send before it goes on
  inFrame,   \* the thread is between the header and the body of a frame
  fd,        \* the descriptor a connection was accepted on
  cur,       \* accept_one's connection and its `nickname` local
  scan,      \* reap_finished_threads's iterator
  victims,   \* shutdown_all's `fds`
  lines      \* lines received so far (bound)

vars == <<running, asked, clients, threads, owner, peer, stream, pc, todo,
          inFrame, fd, cur, scan, victims, lines>>

Thread == Conn \cup {Main}

FrameKind == {"WELCOME", "JOINED", "LEFT", "BYE", "MSG", "PRIV", "PRIV_SENT",
              "NICK", "LIST", "FULL", "ERR"}

\* A frame is its type and the nickname its text leads with; NICK also has
\* the new name and LIST the names listed.  The rest of the text is left out.
Frame == [kind : FrameKind, nick : Name \cup {NoName},
          arg : Name \cup {NoName} \cup SUBSET Name]

F(k, n) == [kind |-> k, nick |-> n, arg |-> NoName]

ClientRecord == [nick : Name, lock : Conn, welcomed : BOOLEAN]

\* A sending step: "bcast" (fd is the one excluded), "send" (send_to_fd
\* before it looks fd up), "put" (send_frame on fd under the write mutex
\* lock).  `to` is a history value no step reads: the connection that owned
\* fd when the sender resolved it, whom the frame is for.
Step == [op : {"bcast", "send", "put"}, fd : FD \cup {NoFd},
         lock : Conn \cup {NoConn}, to : Conn \cup {NoConn}, frame : Frame]

Bcast(frame, except) ==
  [op |-> "bcast", fd |-> except, lock |-> NoConn, to |-> NoConn, frame |-> frame]
SendTo(f, c, frame) ==
  [op |-> "send", fd |-> f, lock |-> NoConn, to |-> c, frame |-> frame]
Put(f, l, c, frame) ==
  [op |-> "put", fd |-> f, lock |-> l, to |-> c, frame |-> frame]

Registered == DOMAIN clients

NamesInUse == {clients[f].nick : f \in Registered}

Doing(t, op) == todo[t] # <<>> /\ Head(todo[t]).op = op

At(t, label) == pc[t] = label /\ todo[t] = <<>>

----------------------------------------------------------------------------
Init ==
  /\ running = FALSE
  /\ asked = FALSE
  /\ clients = [f \in {} |-> {}]
  /\ threads = <<>>
  /\ owner = [f \in FD |-> NoConn]
  /\ peer = [c \in Conn |-> "idle"]
  /\ stream = [c \in Conn |-> <<>>]
  /\ pc = [t \in Thread |-> IF t = Main THEN "setup" ELSE "unborn"]
  /\ todo = [t \in Thread |-> <<>>]
  /\ inFrame = [t \in Thread |-> FALSE]
  /\ fd = [c \in Conn |-> NoFd]
  /\ cur = [conn |-> NoConn, nick |-> NoName]
  /\ scan = 1
  /\ victims = {}
  /\ lines = 0

----------------------------------------------------------------------------
(* Sending: broadcast, send_to_fd and send_frame, by any thread.           *)

\* Slip: clients_mtx_ is held until the frames are out.
SnapshotLocked(t) ==
  /\ Doing(t, "bcast")
  /\ \A u \in Thread : ~Doing(u, "put")
  /\ LET b == Head(todo[t])
         targets == {f \in Registered : f # b.fd /\ clients[f].welcomed}
     IN \E o \in SetToSeqs(targets) :
          todo' = [todo EXCEPT ![t] =
                     [i \in DOMAIN o |->
                        Put(o[i], clients[o[i]].lock, owner[o[i]], b.frame)] \o Tail(@)]
  /\ UNCHANGED <<running, asked, clients, threads, owner, peer, stream, pc,
                 inFrame, fd, cur, scan, victims, lines>>

\* broadcast(): the targets and their write mutexes, copied under clients_mtx_
\* in the order the hash map iterates, which is any.
Snapshot(t) ==
  /\ Doing(t, "bcast")
  /\ LET b == Head(todo[t])
         targets == {f \in Registered : f # b.fd /\ clients[f].welcomed}
     IN \E o \in SetToSeqs(targets) :
          todo' = [todo EXCEPT ![t] =
                     [i \in DOMAIN o |->
                        Put(o[i], clients[o[i]].lock, owner[o[i]], b.frame)] \o Tail(@)]
  /\ UNCHANGED <<running, asked, clients, threads, owner, peer, stream, pc,
                 inFrame, fd, cur, scan, victims, lines>>

\* send_to_fd(): the record is looked up by descriptor; none, no send.
Lookup(t) ==
  /\ Doing(t, "send")
  /\ LET s == Head(todo[t]) IN
     todo' = [todo EXCEPT ![t] =
                IF s.fd \in Registered
                  THEN <<Put(s.fd, clients[s.fd].lock, s.to, s.frame)>> \o Tail(@)
                  ELSE Tail(@)]
  /\ UNCHANGED <<running, asked, clients, threads, owner, peer, stream, pc,
                 inFrame, fd, cur, scan, victims, lines>>

Target(t) == owner[Head(todo[t]).fd]

\* Slip: frames are sent under no mutex at all.
NoLock(t) == TRUE

\* The write mutex is held from the header to the end of the body; only the
\* SERVER_FULL refusal is sent under no mutex.
Holds(t) == inFrame[t]
LockFree(t) ==
  \/ Head(todo[t]).lock = NoConn
  \/ \A u \in Thread \ {t} : Holds(u) => Head(todo[u]).lock # Head(todo[t]).lock

Alive(c) == c # NoConn /\ peer[c] = "up"

Piece(t, part) == [part |-> part, by |-> t, to |-> Head(todo[t]).to,
                   frame |-> Head(todo[t]).frame]

Extended(t, part) ==
  IF Head(todo[t]).frame.kind \in Kept
    THEN [stream EXCEPT ![Target(t)] = Append(@, Piece(t, part))]
    ELSE stream

\* send_frame's first send_all: the length header.
PutHeader(t) ==
  /\ Doing(t, "put") /\ ~inFrame[t] /\ LockFree(t)
  /\ Alive(Target(t))
  /\ stream' = Extended(t, "header")
  /\ inFrame' = [inFrame EXCEPT ![t] = TRUE]
  /\ UNCHANGED <<running, asked, clients, threads, owner, peer, pc, todo, fd,
                 cur, scan, victims, lines>>

\* send_frame's second send_all, and the mutex is released.
PutBody(t) ==
  /\ Doing(t, "put") /\ inFrame[t]
  /\ Alive(Target(t))
  /\ stream' = Extended(t, "body")
  /\ inFrame' = [inFrame EXCEPT ![t] = FALSE]
  /\ todo' = [todo EXCEPT ![t] = Tail(@)]
  /\ UNCHANGED <<running, asked, clients, threads, owner, peer, pc, fd, cur,
                 scan, victims, lines>>

\* Slip: send_all retries on every error, as it does on EINTR.
PutRetries(t) == Doing(t, "put") /\ ~Alive(Target(t)) /\ UNCHANGED vars

\* A frame whose length depends on what clients sent may exceed
\* max_message_size: send_frame returns TooLarge before it writes anything.
\* (No limit Config.cpp accepts is too small for the other kinds.)
TooLarge(t) ==
  /\ "long" \in Events /\ ~inFrame[t]
  /\ Head(todo[t]).frame.kind \in {"MSG", "PRIV", "PRIV_SENT", "LIST", "ERR"}

\* send() fails (EPIPE, ECONNRESET, EBADF), or is not tried: the status is
\* ignored.
PutFails(t) ==
  /\ Doing(t, "put") /\ (inFrame[t] \/ LockFree(t))
  /\ ~Alive(Target(t)) \/ TooLarge(t)
  /\ inFrame' = [inFrame EXCEPT ![t] = FALSE]
  /\ todo' = [todo EXCEPT ![t] = Tail(@)]
  /\ UNCHANGED <<running, asked, clients, threads, owner, peer, stream, pc, fd,
                 cur, scan, victims, lines>>

Sending(t) == Snapshot(t) \/ Lookup(t) \/ PutHeader(t) \/ PutBody(t) \/ PutFails(t)

----------------------------------------------------------------------------
(* Main: the accept loop.                                                  *)

\* SIGINT, SIGTERM (request_shutdown) or SHUTDOWN on the console.  main()
\* installs the handlers before run(): a signal may come during setup.
RequestShutdown ==
  /\ "stop" \in Events
  /\ ~asked
  /\ pc[Main] = "setup" => "early" \in Events
  /\ asked' = TRUE
  /\ running' = FALSE
  /\ UNCHANGED <<clients, threads, owner, peer, stream, pc, todo, inFrame, fd,
                 cur, scan, victims, lines>>

\* run(): the listener is set up and running_ is set, whatever it was.
Start ==
  /\ At(Main, "setup")
  /\ running' = TRUE
  /\ pc' = [pc EXCEPT ![Main] = "loop"]
  /\ UNCHANGED <<asked, clients, threads, owner, peer, stream, todo, inFrame,
                 fd, cur, scan, victims, lines>>

\* Slip: shutdown_all forgets its goodbye.
LoopTopSilent ==
  /\ At(Main, "loop")
  /\ scan' = 1
  /\ pc' = [pc EXCEPT ![Main] = IF running THEN "reap" ELSE "bye"]
  /\ UNCHANGED <<running, asked, clients, threads, owner, peer, stream, todo,
                 inFrame, fd, cur, victims, lines>>

\* while (running_.load()) and select(): another round, or shutdown_all and its
\* goodbye.  select() fails other than by EINTR: the loop ends unasked.
LoopTop ==
  /\ At(Main, "loop")
  /\ scan' = 1
  /\ \/ /\ running
        /\ pc' = [pc EXCEPT ![Main] = "reap"]
        /\ UNCHANGED todo
     \/ /\ ~running \/ "selectFails" \in Events
        /\ pc' = [pc EXCEPT ![Main] = "bye"]
        /\ todo' = [todo EXCEPT ![Main] = <<Bcast(F("BYE", NoName), NoFd)>>]
  /\ UNCHANGED <<running, asked, clients, threads, owner, peer, stream, inFrame,
                 fd, cur, victims, lines>>

\* Slip: still_active is tested the wrong way round.
ReapCheckInverted ==
  /\ At(Main, "reap")
  /\ IF scan > Len(threads)
       THEN pc' = [pc EXCEPT ![Main] = "ready"] /\ UNCHANGED scan
       ELSE IF threads[scan].fd \in Registered
              THEN pc' = [pc EXCEPT ![Main] = "join"] /\ UNCHANGED scan
              ELSE scan' = scan + 1 /\ UNCHANGED pc
  /\ UNCHANGED <<running, asked, clients, threads, owner, peer, stream, todo,
                 inFrame, fd, cur, victims, lines>>

\* reap_finished_threads, one entry: still registered, so skip it, or join it.
ReapCheck ==
  /\ At(Main, "reap")
  /\ IF scan > Len(threads)
       THEN pc' = [pc EXCEPT ![Main] = "ready"] /\ UNCHANGED scan
       ELSE IF threads[scan].fd \in Registered
              THEN scan' = scan + 1 /\ UNCHANGED pc
              ELSE pc' = [pc EXCEPT ![Main] = "join"] /\ UNCHANGED scan
  /\ UNCHANGED <<running, asked, clients, threads, owner, peer, stream, todo,
                 inFrame, fd, cur, victims, lines>>

\* Slip: the thread is detached instead of joined.
ReapDetach ==
  /\ At(Main, "join")
  /\ threads' = RemoveAt(threads, scan)
  /\ pc' = [pc EXCEPT ![Main] = "reap"]
  /\ UNCHANGED <<running, asked, clients, owner, peer, stream, todo, inFrame,
                 fd, cur, scan, victims, lines>>

\* thread.join() and erase: blocks until the handler has returned.
ReapJoin ==
  /\ At(Main, "join")
  /\ pc[threads[scan].conn] = "done"
  /\ threads' = RemoveAt(threads, scan)
  /\ pc' = [pc EXCEPT ![Main] = "reap"]
  /\ UNCHANGED <<running, asked, clients, owner, peer, stream, todo, inFrame,
                 fd, cur, scan, victims, lines>>

\* Nothing to accept within the poll interval, or accept() failed.
Idle ==
  /\ At(Main, "ready")
  /\ pc' = [pc EXCEPT ![Main] = "loop"]
  /\ UNCHANGED <<running, asked, clients, threads, owner, peer, stream, todo,
                 inFrame, fd, cur, scan, victims, lines>>

\* Slip: the result of accept() is not tested before it is used.
AcceptUnchecked(c) ==
  /\ At(Main, "ready")
  /\ peer[c] = "idle"
  /\ peer' = [peer EXCEPT ![c] = "up"]
  /\ cur' = [conn |-> c, nick |-> NoName]
  /\ pc' = [pc EXCEPT ![Main] = "admit"]
  /\ UNCHANGED <<running, asked, clients, threads, owner, stream, todo, inFrame,
                 fd, scan, victims, lines>>

\* accept(): the lowest descriptor not open.
Accept(c) ==
  /\ At(Main, "ready")
  /\ peer[c] = "idle"
  /\ \E f \in FD :
       /\ owner[f] = NoConn
       /\ \A g \in FD : g < f => owner[g] # NoConn
       /\ owner' = [owner EXCEPT ![f] = c]
       /\ fd' = [fd EXCEPT ![c] = f]
  /\ peer' = [peer EXCEPT ![c] = "up"]
  /\ cur' = [conn |-> c, nick |-> NoName]
  /\ pc' = [pc EXCEPT ![Main] = "admit"]
  /\ UNCHANGED <<running, asked, clients, threads, stream, todo, inFrame, scan,
                 victims, lines>>

\* Slip: off by one.
FullTooLate == Cardinality(Registered) > MaxClients

Full == Cardinality(Registered) >= MaxClients

\* Slip: the next number instead of the lowest unused one.
NextDefaultNick(n) == n = DefaultName[Cardinality(Registered) + 1]

\* The lowest unused "User<n>" (assign_default_nickname_locked).
IsDefaultNick(n) ==
  \E i \in DOMAIN DefaultName :
    /\ n = DefaultName[i] /\ n \notin NamesInUse
    /\ \A j \in 1..(i - 1) : DefaultName[j] \in NamesInUse

\* Slip: the record is created welcomed.
AdmitWelcomed ==
  /\ At(Main, "admit") /\ ~Full
  /\ LET c == cur.conn IN
     \E n \in Name :
       /\ IsDefaultNick(n)
       /\ clients' = [f \in Registered \cup {fd[c]} |->
                        IF f = fd[c] THEN [nick |-> n, lock |-> c, welcomed |-> TRUE]
                                     ELSE clients[f]]
       /\ cur' = [cur EXCEPT !.nick = n]
       /\ todo' = [todo EXCEPT ![Main] = <<SendTo(fd[c], c, F("WELCOME", n))>>]
  /\ pc' = [pc EXCEPT ![Main] = "welcome"]
  /\ UNCHANGED <<running, asked, threads, owner, peer, stream, inFrame, fd, scan,
                 victims, lines>>

\* accept_one under clients_mtx_: a seat is free.
Admit ==
  /\ At(Main, "admit") /\ ~Full
  /\ LET c == cur.conn IN
     \E n \in Name :
       /\ IsDefaultNick(n)
       /\ clients' = [f \in Registered \cup {fd[c]} |->
                        IF f = fd[c] THEN [nick |-> n, lock |-> c, welcomed |-> FALSE]
                                     ELSE clients[f]]
       /\ cur' = [cur EXCEPT !.nick = n]
       /\ todo' = [todo EXCEPT ![Main] = <<SendTo(fd[c], c, F("WELCOME", n))>>]
  /\ pc' = [pc EXCEPT ![Main] = "welcome"]
  /\ UNCHANGED <<running, asked, threads, owner, peer, stream, inFrame, fd, scan,
                 victims, lines>>

\* accept_one under clients_mtx_: no seat; SERVER_FULL goes out under no mutex.
Refuse ==
  /\ At(Main, "admit") /\ Full
  /\ todo' = [todo EXCEPT ![Main] =
                <<Put(fd[cur.conn], NoConn, cur.conn, F("FULL", NoName))>>]
  /\ pc' = [pc EXCEPT ![Main] = "refused"]
  /\ UNCHANGED <<running, asked, clients, threads, owner, peer, stream, inFrame,
                 fd, cur, scan, victims, lines>>

\* The Socket destructor at the end of a refusal.
CloseRefused ==
  /\ At(Main, "refused")
  /\ owner' = [owner EXCEPT ![fd[cur.conn]] = NoConn]
  /\ peer' = [peer EXCEPT ![cur.conn] = "closed"]
  /\ cur' = [conn |-> NoConn, nick |-> NoName]
  /\ pc' = [pc EXCEPT ![Main] = "loop"]
  /\ UNCHANGED <<running, asked, clients, threads, stream, todo, inFrame, fd,
                 scan, victims, lines>>

\* WELCOME is out: the client may now be a target of broadcast and /msg.
MarkWelcomed ==
  /\ At(Main, "welcome")
  /\ fd[cur.conn] \in Registered
  /\ clients' = [clients EXCEPT ![fd[cur.conn]].welcomed = TRUE]
  /\ pc' = [pc EXCEPT ![Main] = "spawn"]
  /\ UNCHANGED <<running, asked, threads, owner, peer, stream, todo, inFrame, fd,
                 cur, scan, victims, lines>>

\* The handler thread starts; then the others are told, under the name given
\* at accept time whatever the handler does meanwhile.
Spawn ==
  /\ At(Main, "spawn")
  /\ threads' = Append(threads, [fd |-> fd[cur.conn], conn |-> cur.conn])
  /\ pc' = [pc EXCEPT ![cur.conn] = "recv", ![Main] = "loop"]
  /\ todo' = [todo EXCEPT ![Main] = <<Bcast(F("JOINED", cur.nick), fd[cur.conn])>>]
  /\ cur' = [conn |-> NoConn, nick |-> NoName]
  /\ UNCHANGED <<running, asked, clients, owner, peer, stream, inFrame, fd, scan,
                 victims, lines>>

----------------------------------------------------------------------------
(* Main: shutdown_all, once its goodbye broadcast is out.                  *)

ListVictims ==
  /\ At(Main, "bye")
  /\ victims' = Registered
  /\ pc' = [pc EXCEPT ![Main] = "cut"]
  /\ UNCHANGED <<running, asked, clients, threads, owner, peer, stream, todo,
                 inFrame, fd, cur, scan, lines>>

\* Slip: the sockets are not shut down before the join.
CutNothing(f) ==
  /\ At(Main, "cut")
  /\ f \in victims
  /\ victims' = victims \ {f}
  /\ UNCHANGED <<running, asked, clients, threads, owner, peer, stream, pc, todo,
                 inFrame, fd, cur, scan, lines>>

\* ::shutdown(fd, SHUT_RDWR), whatever connection fd is by now.
Cut(f) ==
  /\ At(Main, "cut")
  /\ f \in victims
  /\ victims' = victims \ {f}
  /\ peer' = IF owner[f] = NoConn THEN peer ELSE [peer EXCEPT ![owner[f]] = "shut"]
  /\ UNCHANGED <<running, asked, clients, threads, owner, stream, pc, todo,
                 inFrame, fd, cur, scan, lines>>

\* Every thread is joined, then the listening socket is closed.
JoinAll ==
  /\ At(Main, "cut") /\ victims = {}
  /\ \A i \in DOMAIN threads : pc[threads[i].conn] = "done"
  /\ threads' = <<>>
  /\ pc' = [pc EXCEPT ![Main] = "stopped"]
  /\ UNCHANGED <<running, asked, clients, owner, peer, stream, todo, inFrame, fd,
                 cur, scan, victims, lines>>

----------------------------------------------------------------------------
(* Handlers: one line from recv_frame to the end of its first critical     *)
(* section; what is left to send afterwards is in todo.                    *)

Line(c, kind) ==
  /\ At(c, "recv")
  /\ kind \in Events
  /\ lines < MaxLines
  /\ lines' = lines + 1
  /\ UNCHANGED <<running, asked, threads, owner, peer, stream, pc, inFrame, fd,
                 cur, scan, victims>>

Reply(c, frame) == SendTo(fd[c], c, frame)

\* handle_line, plain text.
Say(c) ==
  /\ Line(c, "text")
  /\ todo' = [todo EXCEPT ![c] =
                IF fd[c] \in Registered
                  THEN <<Bcast(F("MSG", clients[fd[c]].nick), fd[c])>> ELSE <<>>]
  /\ UNCHANGED clients

\* Slip: only clients already welcomed are searched for the name.
NickAmongWelcomed(c, n) ==
  /\ Line(c, "nick")
  /\ fd[c] \in Registered
  /\ IF \E f \in Registered \ {fd[c]} : clients[f].welcomed /\ clients[f].nick = n
       THEN /\ todo' = [todo EXCEPT ![c] = <<Reply(c, F("ERR", NoName))>>]
            /\ UNCHANGED clients
       ELSE /\ clients' = [clients EXCEPT ![fd[c]].nick = n]
            /\ todo' = [todo EXCEPT ![c] =
                 <<Bcast([kind |-> "NICK", nick |-> clients[fd[c]].nick, arg |-> n], NoFd)>>]

\* handle_nick: the name is checked and taken in one critical section.
Nick(c, n) ==
  /\ Line(c, "nick")
  /\ fd[c] \in Registered
  /\ IF \E f \in Registered \ {fd[c]} : clients[f].nick = n
       THEN /\ todo' = [todo EXCEPT ![c] = <<Reply(c, F("ERR", NoName))>>]
            /\ UNCHANGED clients
       ELSE /\ clients' = [clients EXCEPT ![fd[c]].nick = n]
            /\ todo' = [todo EXCEPT ![c] =
                 <<Bcast([kind |-> "NICK", nick |-> clients[fd[c]].nick, arg |-> n], NoFd)>>]

\* handle_msg: the target's descriptor is resolved here and used later.
Msg(c, n) ==
  /\ Line(c, "msg")
  /\ fd[c] \in Registered
  /\ LET me == clients[fd[c]].nick
         found == {f \in Registered : clients[f].welcomed /\ clients[f].nick = n}
     IN todo' = [todo EXCEPT ![c] =
          IF found \in {{}, {fd[c]}}
            THEN <<Reply(c, F("ERR", NoName))>>
            ELSE LET f == CHOOSE g \in found : TRUE
                 IN <<SendTo(f, owner[f], F("PRIV", me)), Reply(c, F("PRIV_SENT", n))>>]
  /\ UNCHANGED clients

\* handle_list.
List(c) ==
  /\ Line(c, "list")
  /\ LET names == {clients[f].nick : f \in {g \in Registered : clients[g].welcomed}}
     IN todo' = [todo EXCEPT ![c] =
                   <<Reply(c, [kind |-> "LIST", nick |-> NoName, arg |-> names])>>]
  /\ UNCHANGED clients

\* BAD_CMD, NICK_EMPTY, NICK_INVALID and MSG_USAGE.
BadLine(c) ==
  /\ Line(c, "bad")
  /\ todo' = [todo EXCEPT ![c] = <<Reply(c, F("ERR", NoName))>>]
  /\ UNCHANGED clients

\* /exit, or a frame over the limit (answered before the loop ends).
Quit(c) ==
  /\ At(c, "recv")
  /\ \/ "exit" \in Events /\ UNCHANGED todo
     \/ /\ "huge" \in Events
        /\ todo' = [todo EXCEPT ![c] = <<Reply(c, F("ERR", NoName))>>]
  /\ pc' = [pc EXCEPT ![c] = "leave"]
  /\ UNCHANGED <<running, asked, clients, threads, owner, peer, stream, inFrame,
                 fd, cur, scan, victims, lines>>

\* recv_frame returns ClosedByPeer or Error.
Eof(c) ==
  /\ At(c, "recv")
  /\ peer[c] \in {"gone", "shut"}
  /\ pc' = [pc EXCEPT ![c] = "leave"]
  /\ UNCHANGED <<running, asked, clients, threads, owner, peer, stream, todo,
                 inFrame, fd, cur, scan, victims, lines>>

\* Slip: the record is left in clients_.
LeaveNoErase(c) ==
  /\ At(c, "leave")
  /\ todo' = [todo EXCEPT ![c] =
                IF fd[c] \in Registered
                  THEN <<Bcast(F("LEFT", clients[fd[c]].nick), fd[c])>> ELSE <<>>]
  /\ pc' = [pc EXCEPT ![c] = "closing"]
  /\ UNCHANGED <<running, asked, clients, threads, owner, peer, stream, inFrame,
                 fd, cur, scan, victims, lines>>

\* The record is erased under clients_mtx_, the others are told.
Leave(c) ==
  /\ At(c, "leave")
  /\ clients' = [f \in Registered \ {fd[c]} |-> clients[f]]
  /\ todo' = [todo EXCEPT ![c] =
                IF fd[c] \in Registered
                  THEN <<Bcast(F("LEFT", clients[fd[c]].nick), fd[c])>> ELSE <<>>]
  /\ pc' = [pc EXCEPT ![c] = "closing"]
  /\ UNCHANGED <<running, asked, threads, owner, peer, stream, inFrame, fd, cur,
                 scan, victims, lines>>

\* The Socket destructor: the descriptor is free again, the thread returns.
Close(c) ==
  /\ At(c, "closing")
  /\ owner' = [owner EXCEPT ![fd[c]] = NoConn]
  /\ peer' = [peer EXCEPT ![c] = "closed"]
  /\ pc' = [pc EXCEPT ![c] = "done"]
  /\ UNCHANGED <<running, asked, clients, threads, stream, todo, inFrame, fd,
                 cur, scan, victims, lines>>

\* A peer closes or resets its end.
PeerCloses(c) ==
  /\ "close" \in Events
  /\ peer[c] = "up"
  /\ peer' = [peer EXCEPT ![c] = "gone"]
  /\ UNCHANGED <<running, asked, clients, threads, owner, stream, pc, todo,
                 inFrame, fd, cur, scan, victims, lines>>

----------------------------------------------------------------------------
Accepting == \E c \in Conn : Accept(c)

MainStep ==
  \/ Start \/ LoopTop \/ ReapCheck \/ ReapJoin \/ Idle \/ Accepting
  \/ Admit \/ Refuse \/ CloseRefused \/ MarkWelcomed \/ Spawn
  \/ ListVictims \/ JoinAll \/ \E f \in FD : Cut(f)
  \/ Sending(Main)

LineStep(c) ==
  \/ Say(c) \/ List(c) \/ BadLine(c) \/ Quit(c)
  \/ \E n \in Wanted : Nick(c, n) \/ Msg(c, n)

\* What a handler does of its own accord, without another line from the peer.
HandlerStep(c) == Eof(c) \/ Leave(c) \/ Close(c) \/ Sending(c)

\* run() has returned.
Stopped == pc[Main] = "stopped" /\ UNCHANGED vars

Next ==
  \/ MainStep
  \/ \E c \in Conn : LineStep(c) \/ HandlerStep(c) \/ PeerCloses(c)
  \/ RequestShutdown
  \/ Stopped

Spec == Init /\ [][Next]_vars

\* The thread is writing, or waiting to write, to a peer that may have stopped
\* reading: send() blocks while the socket's buffer is full.  How much fits in
\* the buffer is left open.
Blocked(t) == Doing(t, "put") /\ Target(t) \in SlowPeer /\ Alive(Target(t))

\* Every runnable thread is scheduled.  Peers owe nothing, not even to close,
\* and those in SlowPeer not even to read.
Fairness ==
  /\ WF_vars(~Blocked(Main) /\ MainStep)
  /\ \A c \in Conn : WF_vars(~Blocked(c) /\ HandlerStep(c))

FairSpec == Spec /\ Fairness

----------------------------------------------------------------------------
(* Safety.                                                                 *)

\* The state is what the declarations say it is (one invariant for them all).
TypeOK ==
  /\ running \in BOOLEAN /\ asked \in BOOLEAN
  /\ Registered \subseteq FD /\ clients \in [Registered -> ClientRecord]
  /\ threads \in Seq([fd : FD, conn : Conn])
  /\ owner \in [FD -> Conn \cup {NoConn}]
  /\ peer \in [Conn -> {"idle", "up", "gone", "shut", "closed"}]
  /\ stream \in [Conn -> Seq([part : {"header", "body"}, by : Thread,
                              to : Conn \cup {NoConn}, frame : Frame])]
  /\ pc \in [Thread -> {"setup", "loop", "reap", "join", "ready", "admit",
                        "welcome", "refused", "spawn", "bye", "cut", "stopped",
                        "unborn", "recv", "leave", "closing", "done"}]
  /\ todo \in [Thread -> Seq(Step)]
  /\ inFrame \in [Thread -> BOOLEAN]
  /\ fd \in [Conn -> FD \cup {NoFd}]
  /\ cur \in [conn : Conn \cup {NoConn}, nick : Name \cup {NoName}]
  /\ scan \in Nat
  /\ victims \subseteq FD
  /\ lines \in Nat

\* No two connected clients bear the same nickname: the default given at
\* accept and the check-then-rename of handle_nick run in different threads.
NickUnique ==
  \A f, g \in Registered : f # g => clients[f].nick # clients[g].nick

\* accept_one's test of clients_.size() keeps the room within max_clients.
WithinCapacity == Cardinality(Registered) <= MaxClients

\* reap_finished_threads joins a thread because its descriptor is not
\* registered; descriptors are reused, and yet the accept loop never waits
\* for a handler that is still serving its client.
JoinsOnlyLeavers ==
  pc[Main] = "join" => pc[threads[scan].conn] \in {"closing", "done"}

\* Every running handler is in client_threads_ until it has returned, so that
\* run() never returns while one still uses the Server object.
NoHandlerForgotten ==
  \A c \in Conn : pc[c] \in {"recv", "leave", "closing"} =>
                    \E i \in DOMAIN threads : threads[i].conn = c

\* What c received and was meant for it: a frame may go to the client that has
\* taken over a descriptor.  The first of it, the last of it, two in a row.
Meant(c, i) == stream[c][i].to = c
FirstFor(c, i) == Meant(c, i) /\ \A j \in 1..(i - 1) : ~Meant(c, j)
LastFor(c, i) == Meant(c, i) /\ \A j \in (i + 1)..Len(stream[c]) : ~Meant(c, j)
NextFor(c, j, i) ==
  /\ j < i /\ Meant(c, j) /\ Meant(c, i)
  /\ \A k \in (j + 1)..(i - 1) : ~Meant(c, k)

Greeting == {"WELCOME", "FULL"}

\* Nothing meant for a client gets ahead of its WELCOME (accept_one writes it
\* before welcomed is set and the handler starts).
WelcomeBeforeRest ==
  \A c \in Conn : \A i \in DOMAIN stream[c] :
    FirstFor(c, i) => stream[c][i].frame.kind \in Greeting

\* The header and the body of one frame.
SameFrame(h, b) ==
  h.part = "header" /\ b.part = "body" /\ h.by = b.by /\ h.frame = b.frame

\* Of what is meant for a client, the stream starts with a header, every header
\* is followed by the body of its frame, and every body by another header.
OwnFramesWhole ==
  \A c \in Conn :
    /\ \A i \in DOMAIN stream[c] : FirstFor(c, i) => stream[c][i].part = "header"
    /\ \A i, j \in DOMAIN stream[c] : NextFor(c, j, i) =>
         \/ SameFrame(stream[c][j], stream[c][i])
         \/ stream[c][j].part = "body" /\ stream[c][i].part = "header"

\* A piece of a frame for a client that has gone since its descriptor was
\* resolved, and whose descriptor is c's now.
Stale(c, i) ==
  LET d == stream[c][i].to IN d \in Conn \ {c} /\ peer[d] = "closed" /\ fd[d] = fd[c]

RestIsStale == \A c \in Conn : \A i \in DOMAIN stream[c] : Meant(c, i) \/ Stale(c, i)

\* The write mutex keeps frames whole, whichever threads write to the client.
\* What else reaches it, between the halves of a frame too, can only be stale: a
\* broadcast or a private message resolved for a former owner of the descriptor
\* and sent under that one's mutex (Server.cpp:405-421).
FramesIntact == OwnFramesWhole /\ RestIsStale

\* Every client whose socket shutdown_all is about to cut was told goodbye.
GoodbyeBeforeCut ==
  pc[Main] = "cut" =>
    \A f \in Registered : Alive(owner[f]) =>
      \E i \in DOMAIN stream[owner[f]] :
        /\ stream[owner[f]][i].frame.kind = "BYE"
        /\ stream[owner[f]][i].part = "body"

----------------------------------------------------------------------------
(* The inductive invariant: registry, descriptor table and threads agree.  *)

MainLabel == {"setup", "loop", "reap", "join", "ready", "admit", "welcome",
              "refused", "spawn", "bye", "cut", "stopped"}
HandlerLabel == {"unborn", "recv", "leave", "closing", "done"}

Labels == pc[Main] \in MainLabel /\ \A c \in Conn : pc[c] \in HandlerLabel

\* A handler owns its descriptor until it closes it, and accept_one owns the
\* one it accepted until the handler thread starts.
DescriptorsHeld ==
  /\ \A c \in Conn : pc[c] # "unborn" => peer[c] # "idle"
  /\ \A c \in Conn : pc[c] \in {"recv", "leave", "closing"} =>
                       fd[c] \in FD /\ owner[fd[c]] = c
  /\ pc[Main] \in {"admit", "welcome", "refused", "spawn"} =>
       /\ cur.conn \in Conn
       /\ pc[cur.conn] = "unborn" /\ peer[cur.conn] # "idle"
       /\ fd[cur.conn] \in FD /\ owner[fd[cur.conn]] = cur.conn

\* The connection whose record is being created by accept_one.
Joining == IF pc[Main] \in {"welcome", "spawn"} THEN {cur.conn} ELSE {}

\* The clients of the room: those served by a handler, and the one joining.
Seated == {c \in Conn : pc[c] \in {"recv", "leave"}} \cup Joining

\* A descriptor is registered exactly while it is a seated client's, and the
\* record is that client's: no record outlives its descriptor, so that a
\* reused descriptor never finds an old record.
RegistryMatches ==
  /\ \A f \in Registered : clients[f].lock \in Seated /\ fd[clients[f].lock] = f
  /\ \A c \in Seated : fd[c] \in Registered /\ clients[fd[c]].lock = c

ThreadsMatch ==
  /\ \A i \in DOMAIN threads :
       /\ fd[threads[i].conn] = threads[i].fd
       /\ pc[threads[i].conn] # "unborn"
  /\ scan >= 1
  /\ pc[Main] = "join" => scan \in DOMAIN threads

\* All of it together: what every step of every thread of the server keeps.
IInv ==
  /\ TypeOK /\ Labels
  /\ DescriptorsHeld /\ RegistryMatches /\ ThreadsMatch
  /\ NickUnique /\ WithinCapacity
  /\ JoinsOnlyLeavers /\ NoHandlerForgotten

----------------------------------------------------------------------------
(* The invariant of what is sent: whom the queued frames are for, and how  *)
(* far each stream is.  It rests on IInv.                                  *)

\* A descriptor that is open is the one its connection was accepted on.
OpenDescriptors ==
  \A f \in FD : owner[f] # NoConn =>
    fd[owner[f]] = f /\ peer[owner[f]] \in {"up", "gone", "shut"}

\* Main is about to greet or refuse c: nobody else has a frame for it.
Admitting(c) == pc[Main] \in {"admit", "welcome", "refused"} /\ cur.conn = c

\* The converse: a connection owns its descriptor until it is closed.
HeldUntilClosed ==
  \A c \in Conn : peer[c] \in {"up", "gone", "shut"} => fd[c] \in FD /\ owner[fd[c]] = c

\* A frame goes to the descriptor its client was accepted on, under that client's
\* mutex, unless the client has gone; SERVER_FULL is sent while nobody else knows
\* the client.
StepFits(t, s) ==
  /\ s.op # "bcast" => s.fd \in FD /\ s.to \in Conn /\ fd[s.to] = s.fd
  /\ s.to # NoConn =>
       /\ peer[s.to] # "idle"
       /\ Admitting(s.to) => t = Main /\ pc[Main] # "admit"
       /\ s.op = "put" /\ owner[s.fd] = s.to =>
            s.lock = s.to \/ (s.lock = NoConn /\ pc[Main] = "refused" /\ Admitting(s.to))

QueuesFit == \A t \in Thread : \A i \in DOMAIN todo[t] : StepFits(t, todo[t][i])

\* Thread t is between the two halves of a frame for c.
Halfway(t, c) ==
  inFrame[t] /\ Head(todo[t]).to = c /\ owner[Head(todo[t]).fd] = c /\ peer[c] = "up"

\* Whoever is inside a frame holds its mutex alone; the stream of a client that
\* is still there ends in a header exactly while a thread is inside that frame.
FramesUnderWay ==
  /\ \A t \in Thread : inFrame[t] => Doing(t, "put")
  /\ \A t, u \in Thread : t # u /\ inFrame[t] /\ inFrame[u] =>
       Head(todo[t]).lock = NoConn \/ Head(todo[t]).lock # Head(todo[u]).lock
  /\ \A c \in Conn : \A i \in DOMAIN stream[c] :
       /\ stream[c][i].frame.kind \in Kept /\ peer[c] # "idle"
       /\ LastFor(c, i) /\ stream[c][i].part = "header" /\ peer[c] = "up" =>
            LET t == stream[c][i].by IN Halfway(t, c) /\ Head(todo[t]).frame = stream[c][i].frame
  /\ \A t \in Thread, c \in Conn :
       Halfway(t, c) /\ Head(todo[t]).frame.kind \in Kept =>
         \E i \in DOMAIN stream[c] :
           /\ LastFor(c, i) /\ stream[c][i].part = "header"
           /\ stream[c][i].by = t /\ stream[c][i].frame = Head(todo[t]).frame

\* Only the client Main is greeting is registered and not welcomed.
WelcomedInTime ==
  \A f \in Registered :
    clients[f].welcomed <=> ~(pc[Main] = "welcome" /\ f = fd[cur.conn])

\* Until a client is greeted nothing is queued for it but its greeting; if that
\* fails the client is gone.
Greeted(c) == \E i \in DOMAIN stream[c] : FirstFor(c, i) /\ stream[c][i].frame.kind \in Greeting
Silent(c) == \A i \in DOMAIN stream[c] : ~Meant(c, i)
ToGreet(c) ==
  \/ peer[c] = "idle"
  \/ Admitting(c) /\ (pc[Main] = "welcome" => todo[Main] # <<>>)
GreetingsQueued ==
  pc[Main] \in {"welcome", "refused"} =>
    \A i \in DOMAIN todo[Main] :
      LET s == todo[Main][i] IN
      /\ s.frame.kind \in Greeting /\ s.to = cur.conn /\ s.fd = fd[cur.conn]
      /\ s.op \in {"send", "put"}
GreetedOrSilent(c) ==
  Greeted(c) \/ (Silent(c) /\ (ToGreet(c) \/ peer[c] \in {"gone", "shut", "closed"}))
GreetingsFirst ==
  GreetingsQueued /\ (Greeting \subseteq Kept => \A c \in Conn : GreetedOrSilent(c))

\* shutdown_all: whoever is registered has been told goodbye, has gone, or the
\* goodbye is queued.
Told(f) ==
  Alive(owner[f]) =>
    \E i \in DOMAIN stream[owner[f]] :
      stream[owner[f]][i].frame.kind = "BYE" /\ stream[owner[f]][i].part = "body"
ToTell(f) ==
  \E i \in DOMAIN todo[Main] :
    LET s == todo[Main][i] IN
    /\ s.frame.kind = "BYE"
    /\ (s.op = "bcast" /\ s.fd = NoFd) \/ (s.op = "put" /\ s.fd = f)
GoodbyesSaid ==
  pc[Main] \in {"bye", "cut"} /\ "BYE" \in Kept =>
    \A f \in Registered : Told(f) \/ (pc[Main] = "bye" /\ ToTell(f))

DeliveryInv ==
  /\ OpenDescriptors /\ HeldUntilClosed /\ WelcomedInTime /\ QueuesFit
  /\ FramesUnderWay /\ FramesIntact /\ GreetingsFirst /\ GoodbyesSaid

----------------------------------------------------------------------------
(* The room: who is registered, under which name, and who has left.        *)

Member == [c \in {clients[f].lock : f \in Registered} |->
             clients[CHOOSE f \in Registered : clients[f].lock = c].nick]

Gone == {c \in Conn : pc[c] \in {"closing", "done"}}

Room == INSTANCE ChatRoom
          WITH Person <- Conn, Seats <- MaxClients, member <- Member, gone <- Gone

\* The server implements ChatRoom: threads, locks and sockets never show.
IsChatRoom == Room!Spec

----------------------------------------------------------------------------
(* Liveness, under FairSpec.                                               *)

\* Server.h 29-34: run() goes on until shutdown is requested, and then returns,
\* as long as no thread blocks for ever in send(): the goodbye, the sockets'
\* shutdown and the joins never wait on each other.
\* (Of a server that is accepting: with "early" \in Events a request that
\* comes before running_ is set is lost.)
RequestedStopHappens ==
  (\A t \in Thread : []<>~Blocked(t)) => (asked ~> pc[Main] = "stopped")

\* A peer that does not read holds up only the threads that write to it: every
\* other thread gets out what it has to send, because the registry is never
\* locked across a send() and no client's mutex is held while waiting for
\* another's (Server.h 18-20, and what is true of it: see ReadersNotStalled).
OnlyItsWritersWait ==
  \A t \in Thread : todo[t] # <<>> ~> (todo[t] = <<>> \/ Blocked(t))

----------------------------------------------------------------------------
(* What docs/PROTOCOL.md, README.md and include/Server.h say.              *)

\* PROTOCOL.md 2.3: WELCOME is the first frame a client ever receives
\* (SERVER_FULL instead, when it is refused).
WelcomeIsFirst ==
  \A c \in Conn : stream[c] # <<>> => stream[c][1].frame.kind \in {"WELCOME", "FULL"}

Pending(c) == \E t \in Thread : \E i \in DOMAIN todo[t] :
                todo[t][i].op = "put" /\ todo[t][i].to = c

\* Server.h 18-20: "a slow client can't stall broadcasts to everyone else": a
\* client that reads gets every frame queued for it.
ReadersNotStalled == \A c \in Conn \ SlowPeer : Pending(c) ~> ~Pending(c)

\* PROTOCOL.md 3: /msg goes to the client currently using the nickname.
PrivReachesItsTarget ==
  \A c \in Conn : \A i \in DOMAIN stream[c] :
    stream[c][i].frame.kind = "PRIV" => stream[c][i].to = c

=============================================================================
