----------------------- MODULE ThreadLinkDelivery_proofs -----------------------
(***************************************************************************)
(* What the server sends reaches its clients whole and in order: the three *)
(* promises about the bytes of a client (WelcomeBeforeRest, FramesIntact,  *)
(* GoodbyeBeforeCut), for every set of connections, descriptors and names  *)
(* and every capacity.  They follow from DeliveryInv, which is inductive   *)
(* relative to IInv, the invariant of the registry.                        *)
(***************************************************************************)
EXTENDS ThreadLinkServer_proofs

----------------------------------------------------------------------------
(* Who touches queues, streams and descriptors.                            *)

\* Only the threads' own sending steps touch streams and frames under way.
LEMMA StreamsChange ==
  ASSUME [Next]_vars
  PROVE  (\E t \in Thread : Sending(t)) \/ UNCHANGED <<stream, inFrame>>
<1>1. CASE Quiet
  BY <1>1 DEF Quiet, Say, List, BadLine, Msg, Line, RequestShutdown, vars
<1>2. CASE MainMoves
  BY <1>2 DEF MainMoves, Start, LoopTop, ReapCheck, ReapJoin, Idle, Accepting, Accept, Admit,
     Refuse, CloseRefused, MarkWelcomed, Spawn, ListVictims, Cut, JoinAll
<1>3. ASSUME NEW c \in Conn, HandlerMoves(c) PROVE UNCHANGED <<stream, inFrame>>
  BY <1>3 DEF HandlerMoves, Nick, Line, Quit, Eof, Leave, Close, PeerCloses
<1> QED BY <1>1, <1>2, <1>3, NextCases

\* The steps that give a thread something to send, and those that send.
Fills(t) ==
  \/ t = Main /\ (LoopTop \/ Admit \/ Refuse \/ Spawn)
  \/ t \in Conn /\ (LineStep(t) \/ Leave(t))

\* Nothing else touches the queues of what threads have still to send.
LEMMA QueuesChange ==
  ASSUME IInv, [Next]_vars
  PROVE  \/ UNCHANGED todo
         \/ \E t \in Thread : Sending(t) \/ Fills(t)
<1>1. CASE Quiet
  BY <1>1 DEF Quiet, RequestShutdown, vars, Fills, LineStep, Thread
<1>2. CASE MainMoves
  BY <1>2 DEF MainMoves, Start, ReapCheck, ReapJoin, Idle, Accepting, Accept,
     CloseRefused, MarkWelcomed, ListVictims, Cut, JoinAll, Fills, Thread
<1>3. ASSUME NEW c \in Conn, HandlerMoves(c) PROVE UNCHANGED todo \/ Fills(c)
  BY <1>3 DEF HandlerMoves, LineStep, Eof, Close, PeerCloses, Fills
<1> QED BY <1>1, <1>2, <1>3, NextCases DEF Thread

\* A thread gets something to send when it has nothing left.
LEMMA FillsEmpty ==
  ASSUME IInv, NEW t \in Thread, Fills(t)
  PROVE  /\ todo[t] = <<>>
         /\ \E q : todo' = [todo EXCEPT ![t] = q]
         /\ UNCHANGED <<stream, inFrame, owner, peer, fd>>
<1> USE DEF TypeOK, IInv
<1>0. todo = [todo EXCEPT ![t] = todo[t]]
  OBVIOUS
<1>1. CASE t = Main /\ (LoopTop \/ Admit \/ Refuse \/ Spawn)
  <2>1. CASE LoopTop
    BY <1>0, <1>1, <2>1 DEF LoopTop, At
  <2>2. CASE Admit
    BY <1>1, <2>2 DEF Admit, At
  <2>3. CASE Refuse
    BY <1>1, <2>3 DEF Refuse, At
  <2>4. CASE Spawn
    BY <1>1, <2>4 DEF Spawn, At
  <2> QED BY <1>1, <2>1, <2>2, <2>3, <2>4
<1>2. CASE t \in Conn /\ Leave(t)
  BY <1>2 DEF Leave, At
<1>3. CASE t \in Conn /\ LineStep(t)
  <2>1. CASE Say(t)
    BY <2>1 DEF Say, Line, At
  <2>2. CASE List(t)
    BY <2>2 DEF List, Line, At
  <2>3. CASE BadLine(t)
    BY <2>3 DEF BadLine, Line, At
  <2>4. CASE Quit(t)
    BY <1>0, <2>4 DEF Quit, At
  <2>5. CASE \E n \in Wanted : Nick(t, n)
    BY <2>5 DEF Nick, Line, At
  <2>6. CASE \E n \in Wanted : Msg(t, n)
    BY <2>6 DEF Msg, Line, At
  <2> QED BY <1>3, <2>1, <2>2, <2>3, <2>4, <2>5, <2>6 DEF LineStep
<1> QED BY <1>1, <1>2, <1>3 DEF Fills

\* What opens, closes or hands over a descriptor.
LEMMA DescriptorsMove ==
  ASSUME IInv, [Next]_vars
  PROVE  \/ UNCHANGED <<owner, fd, peer>> \/ CloseRefused
         \/ \E c \in Conn : Accept(c) \/ Close(c) \/ PeerCloses(c)
         \/ \E f \in FD : Cut(f)
<1> USE DEF IInv
<1>1. CASE Quiet
  BY <1>1, QuietKeepsRegistry DEF registry
<1>2. CASE MainMoves
  BY <1>2 DEF MainMoves, Start, LoopTop, ReapCheck, ReapJoin, Idle, Accepting, Admit,
     Refuse, MarkWelcomed, Spawn, ListVictims, JoinAll
<1>3. ASSUME NEW c \in Conn, HandlerMoves(c)
      PROVE  UNCHANGED <<owner, fd, peer>> \/ Close(c) \/ PeerCloses(c)
  BY <1>3 DEF HandlerMoves, Nick, Line, Quit, Eof, Leave
<1> QED BY <1>1, <1>2, <1>3, NextCases

\* accept hands out a descriptor that is free, to a connection that has none.
LEMMA OpenDescriptorsStep ==
  ASSUME IInv, OpenDescriptors, [Next]_vars
  PROVE  OpenDescriptors'
<1> USE ServerConstants DEF IInv, TypeOK, OpenDescriptors, DescriptorsHeld
<1>1. CASE UNCHANGED <<owner, fd, peer>>
  BY <1>1
<1>2. ASSUME NEW c \in Conn, Accept(c) PROVE OpenDescriptors'
  <2>1. PICK f \in FD : owner[f] = NoConn /\ owner' = [owner EXCEPT ![f] = c] /\ fd' = [fd EXCEPT ![c] = f]
    BY <1>2 DEF Accept
  <2>2. peer[c] = "idle" /\ peer' = [peer EXCEPT ![c] = "up"]
    BY <1>2 DEF Accept
  <2>3. ASSUME NEW g \in FD, owner[g] = c PROVE FALSE
    <3>1. owner[g] # NoConn
      BY <2>3
    <3> QED BY <2>2, <2>3, <3>1
  <2> QED BY <2>1, <2>2, <2>3
<1>3. CASE CloseRefused
  <2>1. /\ cur.conn \in Conn /\ fd[cur.conn] \in FD /\ UNCHANGED fd
        /\ owner' = [owner EXCEPT ![fd[cur.conn]] = NoConn]
        /\ peer' = [peer EXCEPT ![cur.conn] = "closed"]
    BY <1>3 DEF CloseRefused, At
  <2> QED BY <2>1
<1>4. ASSUME NEW c \in Conn, Close(c) PROVE OpenDescriptors'
  <2>1. /\ fd[c] \in FD /\ UNCHANGED fd
        /\ owner' = [owner EXCEPT ![fd[c]] = NoConn]
        /\ peer' = [peer EXCEPT ![c] = "closed"]
    BY <1>4 DEF Close, At
  <2> QED BY <2>1
<1>5. ASSUME NEW f \in FD, Cut(f) PROVE OpenDescriptors'
  BY <1>5 DEF Cut
<1>6. ASSUME NEW c \in Conn, PeerCloses(c) PROVE OpenDescriptors'
  BY <1>6 DEF PeerCloses
<1> QED BY <1>1, <1>2, <1>3, <1>4, <1>5, <1>6, DescriptorsMove

\* close() gives up the descriptor of the connection it closes, and only that.
LEMMA HeldStep ==
  ASSUME IInv, OpenDescriptors, HeldUntilClosed, [Next]_vars
  PROVE  HeldUntilClosed'
<1> USE ServerConstants DEF IInv, TypeOK, HeldUntilClosed
<1>1. CASE UNCHANGED <<owner, fd, peer>>
  BY <1>1
<1>2. ASSUME NEW c \in Conn, Accept(c) PROVE HeldUntilClosed'
  <2>1. PICK f \in FD : owner[f] = NoConn /\ owner' = [owner EXCEPT ![f] = c] /\ fd' = [fd EXCEPT ![c] = f]
    BY <1>2 DEF Accept
  <2>2. peer' = [peer EXCEPT ![c] = "up"]
    BY <1>2 DEF Accept
  <2> QED BY <2>1, <2>2
<1>3. ASSUME NEW c \in Conn, NEW g, g = fd[c], g \in FD, owner[g] = c, UNCHANGED fd,
             owner' = [owner EXCEPT ![g] = NoConn], peer' = [peer EXCEPT ![c] = "closed"]
      PROVE  HeldUntilClosed'
  BY <1>3
<1>4. CASE CloseRefused
  BY <1>3, <1>4 DEF CloseRefused, At, DescriptorsHeld
<1>5. ASSUME NEW c \in Conn, Close(c) PROVE HeldUntilClosed'
  BY <1>3, <1>5 DEF Close, At, DescriptorsHeld
<1>6. ASSUME NEW f \in FD, Cut(f) PROVE HeldUntilClosed'
  BY <1>6 DEF Cut, OpenDescriptors
<1>7. ASSUME NEW c \in Conn, PeerCloses(c) PROVE HeldUntilClosed'
  BY <1>7 DEF PeerCloses
<1> QED BY <1>1, <1>2, <1>4, <1>5, <1>6, <1>7, DescriptorsMove

\* A connection is accepted once, on one descriptor, and closed once.
LEMMA DescriptorKept ==
  ASSUME IInv, OpenDescriptors, [Next]_vars, NEW c \in Conn, peer[c] # "idle"
  PROVE  fd'[c] = fd[c] /\ peer'[c] # "idle" /\ (peer[c] = "closed" => peer'[c] = "closed")
<1> USE ServerConstants DEF IInv, TypeOK
<1>1. CASE UNCHANGED <<owner, fd, peer>>
  BY <1>1
<1>2. ASSUME NEW d \in Conn, Accept(d)
      PROVE  fd'[c] = fd[c] /\ peer'[c] # "idle" /\ (peer[c] = "closed" => peer'[c] = "closed")
  BY <1>2 DEF Accept
<1>3. CASE CloseRefused
  BY <1>3 DEF CloseRefused
<1>4. ASSUME NEW d \in Conn, Close(d) \/ PeerCloses(d)
      PROVE  fd'[c] = fd[c] /\ peer'[c] # "idle" /\ (peer[c] = "closed" => peer'[c] = "closed")
  BY <1>4 DEF Close, PeerCloses
<1>5. ASSUME NEW f \in FD, Cut(f)
      PROVE  fd'[c] = fd[c] /\ peer'[c] # "idle" /\ (peer[c] = "closed" => peer'[c] = "closed")
  BY <1>5 DEF Cut, OpenDescriptors
<1> QED BY <1>1, <1>2, <1>3, <1>4, <1>5, DescriptorsMove

\* How a step moves accept_one and the descriptors, as StepFits sees it.
LEMMA AdmissionMoves ==
  ASSUME IInv, OpenDescriptors, [Next]_vars, NEW c \in Conn
  PROVE  /\ peer[c] # "idle" => peer'[c] # "idle"
         /\ Admitting(c)' => \/ peer[c] = "idle"
                             \/ Admitting(c) /\ (pc'[Main] = pc[Main] \/ pc[Main] = "admit")
         /\ \A f \in FD : owner'[f] = c => owner[f] = c \/ peer[c] = "idle"
         /\ pc[Main] = "refused" /\ Admitting(c) =>
              \/ pc'[Main] = "refused" /\ Admitting(c)'
              \/ \A f \in FD : owner'[f] # c
<1> USE ServerConstants DEF IInv, TypeOK, Thread, Admitting
<1>1. CASE Quiet
  BY <1>1, QuietKeepsRegistry DEF registry
<1>2. CASE MainMoves
  <2>1. CASE Start \/ LoopTop \/ ReapCheck
    <3>1. PICK l \in {"loop", "reap", "bye", "ready", "join"} : pc' = [pc EXCEPT ![Main] = l]
      BY <2>1, RoundMoves
    <3>2. pc[Main] \in {"setup", "loop", "reap"} /\ UNCHANGED <<clients, threads, owner, peer, fd, cur>>
      BY <2>1, RoundMoves
    <3> QED BY <3>1, <3>2
  <2>2. CASE ReapJoin
    BY <2>2 DEF ReapJoin, At
  <2>3. CASE Idle
    BY <2>3 DEF Idle, At
  <2>4. ASSUME NEW d \in Conn, Accept(d)
        PROVE  /\ pc[Main] = "ready" /\ peer[d] = "idle" /\ cur'.conn = d
               /\ peer' = [peer EXCEPT ![d] = "up"]
               /\ \E f \in FD : owner' = [owner EXCEPT ![f] = d]
    BY <2>4 DEF Accept, At
  <2>5. CASE Accepting
    BY <2>4, <2>5 DEF Accepting
  <2>6. CASE Admit
    BY <2>6 DEF Admit, At
  <2>7. CASE Refuse
    BY <2>7 DEF Refuse, At
  <2>8. CASE CloseRefused
    <3>1. /\ pc' = [pc EXCEPT ![Main] = "loop"] /\ owner' = [owner EXCEPT ![fd[cur.conn]] = NoConn]
          /\ peer' = [peer EXCEPT ![cur.conn] = "closed"] /\ fd[cur.conn] \in FD
      BY <2>8 DEF CloseRefused, At, DescriptorsHeld
    <3>2. \A f \in FD : owner[f] = cur.conn /\ cur.conn \in Conn => f = fd[cur.conn]
      BY DEF OpenDescriptors
    <3> QED BY <3>1, <3>2
  <2>9. CASE MarkWelcomed
    BY <2>9 DEF MarkWelcomed, At
  <2>10. CASE Spawn
    BY <2>10 DEF Spawn, At, DescriptorsHeld
  <2>11. CASE ListVictims
    BY <2>11 DEF ListVictims, At
  <2>12. CASE JoinAll
    BY <2>12 DEF JoinAll, At
  <2>13. CASE \E f \in FD : Cut(f)
    BY <2>13 DEF Cut, At
  <2> QED BY <1>2, <2>1, <2>2, <2>3, <2>5, <2>6, <2>7, <2>8, <2>9, <2>10, <2>11, <2>12, <2>13
          DEF MainMoves
<1>3. ASSUME NEW d \in Conn, HandlerMoves(d)
      PROVE  /\ UNCHANGED cur /\ pc'[Main] = pc[Main]
             /\ peer[c] # "idle" => peer'[c] # "idle"
             /\ \A f \in FD : owner'[f] = c => owner[f] = c
  <2>1. CASE \E n \in Wanted : Nick(d, n)
    BY <2>1, NickMoves
  <2>2. CASE Quit(d)
    BY <2>2 DEF Quit, At
  <2>3. CASE Eof(d)
    BY <2>3 DEF Eof, At
  <2>4. CASE Leave(d)
    BY <2>4 DEF Leave, At
  <2>5. CASE Close(d)
    BY <2>5 DEF Close, At, DescriptorsHeld
  <2>6. CASE PeerCloses(d)
    BY <2>6 DEF PeerCloses, At
  <2> QED BY <1>3, <2>1, <2>2, <2>3, <2>4, <2>5, <2>6 DEF HandlerMoves
<1> QED BY <1>1, <1>2, <1>3, NextCases

\* A frame that was queued for its client under its mutex still is.
LEMMA StepKept ==
  ASSUME IInv, OpenDescriptors, [Next]_vars, NEW t \in Thread, NEW s \in Step, StepFits(t, s)
  PROVE  StepFits(t, s)'
<1>1. CASE s.to = NoConn
  BY <1>1, ServerConstants DEF StepFits
<1>2. CASE s.to # NoConn
  <2>1. s.to \in Conn
    BY <1>2 DEF Step
  <2>2. /\ s.op # "bcast" => s.fd \in FD /\ s.to \in Conn /\ fd[s.to] = s.fd
        /\ peer[s.to] # "idle"
        /\ Admitting(s.to) => t = Main /\ pc[Main] # "admit"
        /\ s.op = "put" /\ owner[s.fd] = s.to =>
             s.lock = s.to \/ (s.lock = NoConn /\ pc[Main] = "refused" /\ Admitting(s.to))
    BY <1>2 DEF StepFits
  <2>3. s.op = "put" => s.fd \in FD
    BY <2>2
  <2>4. peer'[s.to] # "idle" /\ fd'[s.to] = fd[s.to]
    BY <2>1, <2>2, DescriptorKept
  <2>5. Admitting(s.to)' => t = Main /\ pc'[Main] # "admit"
    BY <2>1, <2>2, AdmissionMoves DEF Admitting
  <2>6. s.op = "put" /\ owner'[s.fd] = s.to =>
          s.lock = s.to \/ (s.lock = NoConn /\ pc'[Main] = "refused" /\ Admitting(s.to)')
    BY <2>1, <2>2, <2>3, AdmissionMoves
  <2> QED BY <2>2, <2>4, <2>5, <2>6 DEF StepFits
<1> QED BY <1>1, <1>2

\* The record of a client that is welcomed, and its mutex, are its own.
LEMMA RegisteredIsOwned ==
  ASSUME IInv, NEW f \in Registered
  PROVE  /\ f \in FD /\ owner[f] \in Conn /\ clients[f].lock = owner[f] /\ fd[owner[f]] = f
         /\ peer[owner[f]] # "idle"
         /\ Admitting(owner[f]) => pc[Main] = "welcome" /\ f = fd[cur.conn]
<1> DEFINE l == clients[f].lock
<1>1. l \in Seated /\ fd[l] = f /\ f \in FD
  BY DEF IInv, TypeOK, RegistryMatches
<1>2. CASE l \in Conn /\ pc[l] \in {"recv", "leave"}
  <2>1. owner[f] = l /\ peer[l] # "idle"
    BY <1>1, <1>2 DEF IInv, DescriptorsHeld
  <2>2. ~Admitting(l)
    BY <1>2 DEF IInv, DescriptorsHeld, Admitting
  <2> QED BY <1>1, <1>2, <2>1, <2>2
<1>3. CASE pc[Main] \in {"welcome", "spawn"} /\ l = cur.conn
  BY <1>1, <1>3 DEF IInv, DescriptorsHeld, Admitting
<1> QED BY <1>1, <1>2, <1>3 DEF Seated, Joining

\* While accept_one greets a client, Main does nothing else.
LEMMA WelcomeMoves ==
  ASSUME IInv, [Next]_vars, ~Admit, ~MarkWelcomed
  PROVE  /\ pc'[Main] = "welcome" <=> pc[Main] = "welcome"
         /\ pc[Main] = "welcome" => UNCHANGED <<cur, fd>>
<1> USE ServerConstants DEF IInv, TypeOK, Thread
<1>1. CASE Quiet
  BY <1>1, QuietKeepsRegistry DEF registry
<1>2. CASE MainMoves
  <2>1. CASE Start \/ LoopTop \/ ReapCheck
    BY <2>1, RoundMoves
  <2>2. CASE ReapJoin \/ Idle \/ Accepting
    BY <2>2 DEF ReapJoin, Idle, Accepting, Accept, At
  <2>3. CASE Refuse \/ CloseRefused \/ Spawn
    BY <2>3 DEF Refuse, CloseRefused, Spawn, At, DescriptorsHeld
  <2>4. CASE ListVictims \/ JoinAll \/ \E f \in FD : Cut(f)
    BY <2>4 DEF ListVictims, JoinAll, Cut, At
  <2> QED BY <1>2, <2>1, <2>2, <2>3, <2>4 DEF MainMoves
<1>3. ASSUME NEW d \in Conn, HandlerMoves(d)
      PROVE  UNCHANGED <<cur, fd>> /\ pc'[Main] = pc[Main]
  BY <1>3, NickMoves DEF HandlerMoves, Quit, Eof, Leave, Close, PeerCloses
<1> QED BY <1>1, <1>2, <1>3, NextCases

\* welcomed is set once the client's WELCOME has been sent, and stays set.
LEMMA WelcomedStep ==
  ASSUME IInv, WelcomedInTime, [Next]_vars
  PROVE  WelcomedInTime'
<1> USE DEF WelcomedInTime
<1>0. clients \in [Registered -> ClientRecord] /\ Main \in Thread /\ pc[Main] \in MainLabel
  BY DEF IInv, TypeOK, Thread, Labels
<1>1. CASE Admit
  <2>1. /\ pc[Main] = "admit" /\ pc' = [pc EXCEPT ![Main] = "welcome"]
        /\ \E n : clients' = [g \in Registered \cup {fd[cur.conn]} |->
                     IF g = fd[cur.conn] THEN [nick |-> n, lock |-> cur.conn, welcomed |-> FALSE]
                                         ELSE clients[g]]
        /\ cur'.conn = cur.conn /\ UNCHANGED fd
    BY <1>1 DEF Admit, At, IInv, TypeOK
  <2>2. pc'[Main] = "welcome"
    BY <2>1 DEF IInv, TypeOK, Thread
  <2> QED BY <1>0, <1>1, <2>1, <2>2, AdmitAdds DEF Registered
<1>2. CASE MarkWelcomed
  <2>1. /\ pc[Main] = "welcome" /\ pc' = [pc EXCEPT ![Main] = "spawn"]
        /\ clients' = [clients EXCEPT ![fd[cur.conn]].welcomed = TRUE]
    BY <1>2 DEF MarkWelcomed, At
  <2>2. pc'[Main] = "spawn"
    BY <2>1 DEF IInv, TypeOK, Thread
  <2> QED BY <1>0, <2>1, <2>2 DEF Registered, ClientRecord
<1>3. CASE ~Admit /\ ~MarkWelcomed
  <2>1. (pc'[Main] = "welcome" <=> pc[Main] = "welcome") /\ (pc[Main] = "welcome" => UNCHANGED <<cur, fd>>)
    BY <1>3, WelcomeMoves
  <2>2. ASSUME NEW f \in Registered'
        PROVE  f \in Registered /\ clients'[f].welcomed = clients[f].welcomed
    <3>1. CASE UNCHANGED clients
      BY <3>1 DEF Registered
    <3>2. CASE \E c \in Conn : Leave(c)
      BY <3>2 DEF Leave, Registered
    <3>3. CASE \E c \in Conn : \E n \in Wanted : Nick(c, n)
      <4>1. PICK c \in Conn, n \in Wanted : Nick(c, n)
        BY <3>3
      <4>2. CASE clients' = [clients EXCEPT ![fd[c]].nick = n]
        <5>1. DOMAIN clients' = DOMAIN clients
          BY <1>0, <4>2
        <5>2. f \in Registered
          BY <5>1 DEF Registered
        <5>3. clients[f] \in ClientRecord
          BY <1>0, <5>2
        <5>4. clients'[f] = IF f = fd[c] THEN [clients[f] EXCEPT !.nick = n] ELSE clients[f]
          BY <1>0, <4>2, <5>2
        <5> QED BY <5>2, <5>3, <5>4 DEF ClientRecord
      <4> QED BY <3>1, <4>1, <4>2, NickMoves
    <3> QED BY <1>3, <3>1, <3>2, <3>3, ClientsChange
  <2> QED BY <2>1, <2>2
<1> QED BY <1>1, <1>2, <1>3

----------------------------------------------------------------------------
(* What a thread is given to send fits.                                  *)

\* A frame for a client that Main has done admitting.
LEMMA FreshStep ==
  ASSUME IInv, OpenDescriptors, [Next]_vars, NEW t \in Thread, NEW s,
         s.to \in Conn, peer[s.to] # "idle", ~Admitting(s.to),
         s.fd \in FD, fd[s.to] = s.fd,
         s.op = "put" /\ owner'[s.fd] = s.to => s.lock = s.to
  PROVE  StepFits(t, s)'
<1>1. peer'[s.to] # "idle" /\ ~Admitting(s.to)' /\ fd'[s.to] = s.fd
  BY AdmissionMoves, DescriptorKept
<1> QED BY <1>1 DEF StepFits

\* What a handler tells its own client.
LEMMA ReplyFits ==
  ASSUME IInv, OpenDescriptors, [Next]_vars, NEW c \in Conn, pc[c] \in {"recv", "leave"},
         NEW x, NEW s, s = Reply(c, x)
  PROVE  StepFits(c, s)'
<1>1. fd[c] \in FD /\ peer[c] # "idle" /\ ~Admitting(c)
  BY DEF IInv, DescriptorsHeld, Admitting
<1>2. s.op = "send" /\ s.fd = fd[c] /\ s.to = c
  BY DEF Reply, SendTo
<1> QED BY <1>1, <1>2, FreshStep DEF Thread

\* What a thread tells everybody.
LEMMA BcastFits ==
  ASSUME NEW t, NEW f, NEW x, NEW s, s = Bcast(x, f)
  PROVE  StepFits(t, s)'
<1>1. s.op = "bcast" /\ s.to = NoConn
  BY DEF Bcast
<1> QED BY <1>1 DEF StepFits

\* A queue of one or two steps.
LEMMA Filled ==
  ASSUME TypeOK, NEW t \in Thread, NEW a, NEW b,
         todo' = [todo EXCEPT ![t] = <<>>] \/ todo' = [todo EXCEPT ![t] = <<a>>]
           \/ todo' = [todo EXCEPT ![t] = <<a, b>>]
  PROVE  \A i \in DOMAIN todo'[t] : todo'[t][i] \in {a, b}
<1>1. \/ todo'[t] = <<>> \/ todo'[t] = <<a>> \/ todo'[t] = <<a, b>>
  BY DEF TypeOK
<1>2. \A i \in DOMAIN <<a, b>> : <<a, b>>[i] \in {a, b}
  OBVIOUS
<1>3. \A i \in DOMAIN <<a>> : <<a>>[i] \in {a, b}
  OBVIOUS
<1>4. DOMAIN <<>> = {}
  OBVIOUS
<1>5. CASE todo'[t] = <<>>
  BY <1>4, <1>5
<1>6. CASE todo'[t] = <<a>>
  BY <1>3, <1>6
<1>7. CASE todo'[t] = <<a, b>>
  BY <1>2, <1>7
<1> QED BY <1>1, <1>5, <1>6, <1>7

\* What every thread is given to send fits.
LEMMA FillsFit ==
  ASSUME IInv, OpenDescriptors, WelcomedInTime, [Next]_vars,
         NEW t \in Thread, Fills(t), NEW i \in DOMAIN todo'[t]
  PROVE  StepFits(t, todo[t][i])'
<1>0. TypeOK /\ todo[t] = <<>>
  BY FillsEmpty DEF IInv
<1>1. ASSUME NEW a, NEW b, StepFits(t, a)', StepFits(t, b)',
             \/ todo' = [todo EXCEPT ![t] = <<>>]
             \/ todo' = [todo EXCEPT ![t] = <<a>>]
             \/ todo' = [todo EXCEPT ![t] = <<a, b>>]
      PROVE  StepFits(t, todo[t][i])'
  <2>1. todo'[t][i] \in {a, b}
    BY <1>0, <1>1, Filled
  <2> QED BY <1>1, <2>1
<1>2. ASSUME NEW x, NEW f, \/ todo' = [todo EXCEPT ![t] = <<Bcast(x, f)>>]
                           \/ todo' = [todo EXCEPT ![t] = <<>>]
      PROVE  StepFits(t, todo[t][i])'
  <2>1. PICK s : s = Bcast(x, f)
    OBVIOUS
  <2> QED BY <1>1, <1>2, <2>1, BcastFits
<1>3. ASSUME NEW x, t \in Conn, pc[t] = "recv",
             \/ todo' = [todo EXCEPT ![t] = <<Reply(t, x)>>]
             \/ todo' = [todo EXCEPT ![t] = <<>>]
      PROVE  StepFits(t, todo[t][i])'
  <2>1. PICK s : s = Reply(t, x)
    OBVIOUS
  <2>2. StepFits(t, s)'
    BY <1>3, <2>1, ReplyFits
  <2> QED BY <1>1, <1>3, <2>1, <2>2
<1>9. ASSUME UNCHANGED todo
      PROVE  StepFits(t, todo[t][i])'
  <2>1. todo'[t] = <<>>
    BY <1>0, <1>9
  <2> QED BY <2>1
<1>4. CASE t = Main /\ LoopTop
  BY <1>2, <1>4, <1>9 DEF LoopTop
<1>5. CASE t = Main /\ Admit
  <2>1. PICK n \in Name :
          todo' = [todo EXCEPT ![t] = <<SendTo(fd[cur.conn], cur.conn, F("WELCOME", n))>>]
    BY <1>5 DEF Admit
  <2>2. PICK s : s = SendTo(fd[cur.conn], cur.conn, F("WELCOME", n))
    OBVIOUS
  <2>3. /\ cur.conn \in Conn /\ fd[cur.conn] \in FD /\ peer[cur.conn] # "idle"
        /\ UNCHANGED <<fd, peer>> /\ cur'.conn = cur.conn /\ pc'[Main] = "welcome"
    BY <1>5 DEF Admit, At, IInv, DescriptorsHeld, TypeOK, Thread
  <2>4. s.op = "send" /\ s.fd = fd[cur.conn] /\ s.to = cur.conn
    BY <2>2 DEF SendTo
  <2>5. StepFits(t, s)'
    BY <1>5, <2>3, <2>4 DEF StepFits, Admitting
  <2> QED BY <1>1, <2>1, <2>2, <2>5
<1>6. CASE t = Main /\ Refuse
  <2>1. PICK s : s = Put(fd[cur.conn], NoConn, cur.conn, F("FULL", NoName))
    OBVIOUS
  <2>2. todo' = [todo EXCEPT ![t] = <<s>>]
    BY <1>6, <2>1 DEF Refuse
  <2>3. /\ cur.conn \in Conn /\ fd[cur.conn] \in FD /\ peer[cur.conn] # "idle"
        /\ UNCHANGED <<fd, peer, cur>> /\ pc'[Main] = "refused"
    BY <1>6 DEF Refuse, At, IInv, DescriptorsHeld, TypeOK, Thread
  <2>4. s.op = "put" /\ s.fd = fd[cur.conn] /\ s.to = cur.conn /\ s.lock = NoConn
    BY <2>1 DEF Put
  <2>5. StepFits(t, s)'
    BY <1>6, <2>3, <2>4 DEF StepFits, Admitting
  <2> QED BY <1>1, <2>2, <2>5
<1>7. CASE t = Main /\ Spawn
  BY <1>2, <1>7 DEF Spawn
<1>8. CASE t \in Conn /\ Leave(t)
  BY <1>2, <1>8 DEF Leave
<1>10. CASE t \in Conn /\ LineStep(t)
  <2>0. t \in Conn /\ pc[t] = "recv"
    BY <1>10 DEF LineStep, Say, List, BadLine, Quit, Nick, Msg, Line, At
  <2>1. CASE Say(t)
    BY <1>2, <2>1 DEF Say
  <2>2. CASE List(t)
    <3> DEFINE names == {clients[f].nick : f \in {g \in Registered : clients[g].welcomed}}
    <3>1. todo' = [todo EXCEPT ![t] =
                     <<Reply(t, [kind |-> "LIST", nick |-> NoName, arg |-> names])>>]
      BY <2>2 DEF List
    <3> HIDE DEF names
    <3> QED BY <1>3, <2>0, <3>1
  <2>3. CASE BadLine(t)
    BY <1>3, <2>0, <2>3 DEF BadLine
  <2>4. CASE Quit(t)
    BY <1>3, <1>9, <2>0, <2>4 DEF Quit
  <2>5. ASSUME NEW n \in Wanted, Nick(t, n) PROVE StepFits(t, todo[t][i])'
    <3>1. CASE todo' = [todo EXCEPT ![t] = <<Reply(t, F("ERR", NoName))>>]
      BY <1>3, <2>0, <3>1
    <3>2. CASE todo' = [todo EXCEPT ![t] =
                 <<Bcast([kind |-> "NICK", nick |-> clients[fd[t]].nick, arg |-> n], NoFd)>>]
      BY <1>2, <3>2
    <3> QED BY <2>5, <3>1, <3>2 DEF Nick
  <2>6. ASSUME NEW n \in Wanted, Msg(t, n) PROVE StepFits(t, todo[t][i])'
    <3> DEFINE found == {f \in Registered : clients[f].welcomed /\ clients[f].nick = n}
               g == CHOOSE f \in found : TRUE
               me == clients[fd[t]].nick
    <3>1. CASE todo' = [todo EXCEPT ![t] = <<Reply(t, F("ERR", NoName))>>]
      BY <1>3, <2>0, <3>1
    <3>2. CASE /\ found # {}
               /\ todo' = [todo EXCEPT ![t] =
                     <<SendTo(g, owner[g], F("PRIV", me)), Reply(t, F("PRIV_SENT", n))>>]
      <4>1. g \in Registered /\ clients[g].welcomed
        BY <3>2
      <4> HIDE DEF g, found, me
      <4>2. PICK s : s = SendTo(g, owner[g], F("PRIV", me))
        OBVIOUS
      <4>3. s.op = "send" /\ s.fd = g /\ s.to = owner[g]
        BY <4>2 DEF SendTo
      <4>4. StepFits(t, s)'
        <5>1. /\ g \in FD /\ owner[g] \in Conn /\ fd[owner[g]] = g
              /\ peer[owner[g]] # "idle" /\ ~Admitting(owner[g])
          BY <4>1, RegisteredIsOwned DEF WelcomedInTime
        <5> QED BY <4>3, <5>1, FreshStep
      <4>5. PICK r : r = Reply(t, F("PRIV_SENT", n))
        OBVIOUS
      <4>6. StepFits(t, r)'
        BY <2>0, <4>5, ReplyFits
      <4> QED BY <1>1, <3>2, <4>2, <4>4, <4>5, <4>6
    <3> QED BY <2>6, <3>1, <3>2 DEF Msg
  <2> QED BY <1>10, <2>1, <2>2, <2>3, <2>4, <2>5, <2>6 DEF LineStep
<1> QED BY <1>4, <1>5, <1>6, <1>7, <1>8, <1>10 DEF Fills

----------------------------------------------------------------------------
(* What is in a queue after a step of sending.                           *)

\* r is q with its head replaced by the steps of p.
Replaced(p, q, r) ==
  /\ \A i \in DOMAIN r : \/ i \in DOMAIN p /\ r[i] = p[i]
                         \/ \E j \in DOMAIN q : j > 1 /\ r[i] = q[j]
  /\ \A i \in DOMAIN p : i \in DOMAIN r /\ r[i] = p[i]
  /\ \A j \in DOMAIN q : j > 1 => \E i \in DOMAIN r : r[i] = q[j]

\* Where each step of a queue comes from whose head was replaced.
LEMMA HeadReplaced ==
  ASSUME NEW S, NEW p \in Seq(S), NEW q \in Seq(S), q # <<>>, NEW r, r = p \o Tail(q)
  PROVE  Replaced(p, q, r)
<1>1. /\ Tail(q) \in Seq(S) /\ Len(Tail(q)) = Len(q) - 1
      /\ \A i \in 1..(Len(q) - 1) : Tail(q)[i] = q[i + 1]
  OBVIOUS
<1>2. /\ Len(p) \in Nat /\ Len(q) \in Nat /\ Len(q) > 0
      /\ DOMAIN p = 1..Len(p) /\ DOMAIN q = 1..Len(q)
  OBVIOUS
<1>3. /\ r \in Seq(S) /\ Len(r) = Len(p) + (Len(q) - 1)
      /\ \A i \in 1..Len(r) : r[i] = IF i <= Len(p) THEN p[i] ELSE Tail(q)[i - Len(p)]
  BY <1>1, <1>2, ConcatProperties
<1>4. DOMAIN r = 1..Len(r)
  BY <1>3
<1>5. ASSUME NEW i \in DOMAIN r
      PROVE  (i \in DOMAIN p /\ r[i] = p[i]) \/ \E j \in DOMAIN q : j > 1 /\ r[i] = q[j]
  <2>1. CASE i <= Len(p)
    BY <1>2, <1>3, <1>4, <1>5, <2>1
  <2>2. CASE ~(i <= Len(p))
    <3>0. i \in 1..Len(r) /\ Len(r) = Len(p) + (Len(q) - 1)
      BY <1>3, <1>4, <1>5
    <3>1. i - Len(p) \in 1..(Len(q) - 1)
      BY <1>2, <2>2, <3>0
    <3>4. r[i] = Tail(q)[i - Len(p)]
      BY <1>3, <2>2, <3>0
    <3>2. r[i] = q[i - Len(p) + 1]
      BY <1>1, <3>1, <3>4
    <3>3. i - Len(p) + 1 \in DOMAIN q /\ i - Len(p) + 1 > 1
      BY <1>2, <3>1
    <3> QED BY <3>2, <3>3
  <2> QED BY <2>1, <2>2
<1>6. ASSUME NEW i \in DOMAIN p
      PROVE  i \in DOMAIN r /\ r[i] = p[i]
  BY <1>2, <1>3, <1>4, <1>6
<1>7. ASSUME NEW j \in DOMAIN q, j > 1
      PROVE  \E i \in DOMAIN r : r[i] = q[j]
  <2>1. j - 1 \in 1..(Len(q) - 1) /\ Len(p) + (j - 1) \in 1..Len(r)
        /\ ~(Len(p) + (j - 1) <= Len(p)) /\ Len(p) + (j - 1) - Len(p) = j - 1
    BY <1>2, <1>3, <1>7
  <2>2. r[Len(p) + (j - 1)] = Tail(q)[j - 1]
    <3> DEFINE m == Len(p) + (j - 1)
    <3>1. m \in 1..Len(r) /\ ~(m <= Len(p)) /\ m - Len(p) = j - 1
      BY <2>1
    <3> HIDE DEF m
    <3>2. r[m] = Tail(q)[m - Len(p)]
      BY <1>3, <3>1
    <3>3. r[m] = Tail(q)[j - 1]
      BY <3>1, <3>2
    <3> QED BY <3>3 DEF m
  <2>3. Tail(q)[j - 1] = q[j - 1 + 1] /\ j - 1 + 1 = j
    BY <1>1, <1>2, <2>1
  <2> QED BY <1>4, <2>1, <2>2, <2>3
<1> QED BY <1>5, <1>6, <1>7 DEF Replaced

\* Queue r has the entries of q but the head.
Behind(q, r) ==
  /\ \A i \in DOMAIN r : \E j \in DOMAIN q : j > 1 /\ r[i] = q[j]
  /\ \A j \in DOMAIN q : j > 1 => \E i \in DOMAIN r : r[i] = q[j]

\* A queue whose head is dropped.
LEMMA TailElements ==
  ASSUME NEW S, NEW q \in Seq(S), q # <<>>, NEW r, r = Tail(q)
  PROVE  Behind(q, r)
<1>1. /\ Tail(q) \in Seq(S) /\ Len(Tail(q)) = Len(q) - 1
      /\ \A i \in 1..(Len(q) - 1) : Tail(q)[i] = q[i + 1]
      /\ DOMAIN Tail(q) = 1..(Len(q) - 1) /\ DOMAIN q = 1..Len(q) /\ Len(q) \in Nat
  OBVIOUS
<1>2. ASSUME NEW j \in DOMAIN q, j > 1
      PROVE  \E i \in DOMAIN Tail(q) : Tail(q)[i] = q[j]
  <2>1. j - 1 \in DOMAIN Tail(q) /\ j - 1 + 1 = j
    BY <1>1, <1>2
  <2> QED BY <1>1, <2>1
<1>3. ASSUME NEW i \in DOMAIN Tail(q)
      PROVE  i + 1 \in DOMAIN q /\ i + 1 > 1 /\ Tail(q)[i] = q[i + 1]
  BY <1>1, <1>3
<1>4. /\ \A i \in DOMAIN r : i + 1 \in DOMAIN q /\ i + 1 > 1 /\ r[i] = q[i + 1]
      /\ \A j \in DOMAIN q : j > 1 => \E i \in DOMAIN r : r[i] = q[j]
  BY <1>2, <1>3
<1> QED BY <1>4 DEF Behind

\* What a frame under a client's own mutex looks like in a queue.
PutTo(f, x) == Put(f, clients[f].lock, owner[f], x)

\* broadcast: one frame per welcomed client but the one excluded, and what was
\* queued behind.
LEMMA SnapshotQueue ==
  ASSUME IInv, NEW t \in Thread, Snapshot(t)
  PROVE  /\ \A i \in DOMAIN todo'[t] :
              \/ \E f \in Registered : clients[f].welcomed /\ todo'[t][i] = PutTo(f, Head(todo[t]).frame)
              \/ \E j \in DOMAIN todo[t] : j > 1 /\ todo'[t][i] = todo[t][j]
         /\ \A f \in Registered : f # Head(todo[t]).fd /\ clients[f].welcomed =>
              \E i \in DOMAIN todo'[t] : todo'[t][i] = PutTo(f, Head(todo[t]).frame)
         /\ \A j \in DOMAIN todo[t] : j > 1 => \E i \in DOMAIN todo'[t] : todo'[t][i] = todo[t][j]
<1>1. MessageTypes /\ Registered \subseteq FD /\ PlainTypes
  BY TypeParts
<1>2. todo[t] # <<>> /\ todo[t] \in Seq(Step) /\ Head(todo[t]) \in Step
  BY <1>1, QueueFacts DEF Snapshot, Doing, MessageTypes
<1> DEFINE b == Head(todo[t])
           targets == {f \in Registered : f # b.fd /\ clients[f].welcomed}
           puts(o) == [i \in DOMAIN o |->
                         Put(o[i], clients[o[i]].lock, owner[o[i]], b.frame)]
<1>3. PICK o \in SetToSeqs(targets) : todo' = [todo EXCEPT ![t] = puts(o) \o Tail(@)]
  BY DEF Snapshot
<1>4. b.frame \in Frame
  BY <1>2 DEF Step
<1>5. IsFiniteSet(targets) /\ Cardinality(targets) \in Nat
  BY <1>1, ServerConstants, FS_Subset, FS_CardinalityType
<1> DEFINE n == Cardinality(targets)
<1>6. o \in [1..n -> targets] /\ \A i, j \in 1..n : i # j => o[i] # o[j]
  BY DEF SetToSeqs
<1>7. DOMAIN puts(o) = 1..n /\ \A i \in 1..n : puts(o)[i] = PutTo(o[i], b.frame)
  BY <1>6 DEF PutTo
<1>8. ASSUME NEW i \in 1..n
      PROVE  PutTo(o[i], b.frame) \in Step
  <2>1. o[i] \in Registered
    BY <1>6, <1>8
  <2>2. clients[o[i]].lock \in Conn /\ owner[o[i]] \in Conn \cup {NoConn} /\ o[i] \in FD
    BY <1>1, <2>1 DEF IInv, TypeOK, ClientRecord, PlainTypes
  <2> QED BY <1>4, <2>2, Steps DEF PutTo
<1>9. ASSUME NEW f \in targets
      PROVE  \E i \in 1..n : o[i] = f
  <2>1. IsFiniteSet(1..n) /\ Cardinality(1..n) = n
    BY <1>5, FS_Interval
  <2>2. o \in Injection(1..n, targets)
    BY <1>6 DEF Injection, IsInjective
  <2>3. o \in Surjection(1..n, targets)
    BY <1>5, <2>1, <2>2, FS_Injection
  <2> QED BY <2>3 DEF Surjection
<1> DEFINE p == puts(o)
<1>10. todo'[t] = p \o Tail(todo[t])
  BY <1>1, <1>3 DEF MessageTypes
<1>12. \A f \in targets : f \in Registered /\ clients[f].welcomed
  OBVIOUS
<1>13. \A f \in Registered : f # b.fd /\ clients[f].welcomed => f \in targets
  OBVIOUS
<1> HIDE DEF b, targets, n
<1>11. p \in Seq(Step)
  <2>1. p \in [1..n -> Step]
    BY <1>6, <1>7, <1>8
  <2> HIDE DEF p
  <2> QED BY <1>5, <2>1, SeqDef DEF n
<1> HIDE DEF p, puts
<1>14. /\ \A i \in DOMAIN todo'[t] : \/ i \in DOMAIN p /\ todo'[t][i] = p[i]
                                     \/ \E j \in DOMAIN todo[t] : j > 1 /\ todo'[t][i] = todo[t][j]
       /\ \A i \in DOMAIN p : i \in DOMAIN todo'[t] /\ todo'[t][i] = p[i]
       /\ \A j \in DOMAIN todo[t] : j > 1 => \E i \in DOMAIN todo'[t] : todo'[t][i] = todo[t][j]
  <2>1. PICK q : q = todo[t]
    OBVIOUS
  <2>2. PICK r : r = todo'[t]
    OBVIOUS
  <2>3. q \in Seq(Step) /\ q # <<>> /\ r = p \o Tail(q)
    BY <1>2, <1>10, <2>1, <2>2
  <2>4. Replaced(p, q, r)
    BY <1>11, <2>3, HeadReplaced, Zenon
  <2> QED BY <2>1, <2>2, <2>4 DEF Replaced
<1>15. DOMAIN p = 1..n /\ \A i \in 1..n : p[i] = PutTo(o[i], b.frame)
  BY <1>7 DEF p
<1>16. ASSUME NEW i \in DOMAIN todo'[t]
       PROVE  \/ \E f \in Registered : clients[f].welcomed /\ todo'[t][i] = PutTo(f, b.frame)
              \/ \E j \in DOMAIN todo[t] : j > 1 /\ todo'[t][i] = todo[t][j]
  <2>1. CASE i \in DOMAIN p /\ todo'[t][i] = p[i]
    <3>1. o[i] \in Registered /\ clients[o[i]].welcomed
      BY <1>6, <1>12, <1>15, <2>1
    <3> QED BY <1>15, <2>1, <3>1
  <2> QED BY <1>14, <1>16, <2>1
<1>17. ASSUME NEW f \in Registered, f # b.fd, clients[f].welcomed
       PROVE  \E i \in DOMAIN todo'[t] : todo'[t][i] = PutTo(f, b.frame)
  <2>1. PICK i \in 1..n : o[i] = f
    BY <1>9, <1>13, <1>17
  <2> QED BY <1>14, <1>15, <2>1
<1> QED BY <1>14, <1>16, <1>17 DEF b

\* send_to_fd: the frame under the mutex found for the descriptor, if there is
\* one, and what was queued behind.
LEMMA LookupQueue ==
  ASSUME IInv, NEW t \in Thread, Lookup(t)
  PROVE  LET h == Head(todo[t])
             x == Put(h.fd, clients[h.fd].lock, h.to, h.frame)
         IN  /\ h \in Step
             /\ \A i \in DOMAIN todo'[t] :
                  \/ h.fd \in Registered /\ todo'[t][i] = x
                  \/ \E j \in DOMAIN todo[t] : j > 1 /\ todo'[t][i] = todo[t][j]
             /\ h.fd \in Registered => \E i \in DOMAIN todo'[t] : todo'[t][i] = x
             /\ \A j \in DOMAIN todo[t] : j > 1 => \E i \in DOMAIN todo'[t] : todo'[t][i] = todo[t][j]
<1> DEFINE h == Head(todo[t])
           x == Put(h.fd, clients[h.fd].lock, h.to, h.frame)
<1>1. MessageTypes
  BY TypeParts
<1>2. todo[t] # <<>> /\ todo[t] \in Seq(Step) /\ h \in Step
  BY <1>1, QueueFacts DEF Lookup, Doing, MessageTypes
<1>3. h.fd \in Registered => x \in Step
  <2> SUFFICES ASSUME h.fd \in Registered PROVE x \in Step
    OBVIOUS
  <2>1. clients[h.fd].lock \in Conn
    BY DEF IInv, TypeOK, ClientRecord
  <2>2. h.fd \in FD \cup {NoFd} /\ h.to \in Conn \cup {NoConn} /\ h.frame \in Frame
    BY <1>2 DEF Step
  <2> QED BY <2>1, <2>2, Steps
<1>4. todo'[t] = IF h.fd \in Registered THEN <<x>> \o Tail(todo[t]) ELSE Tail(todo[t])
  BY <1>1 DEF Lookup, MessageTypes
<1> HIDE DEF x, h
<1>5. CASE h.fd \in Registered
  <2>1. <<x>> \in Seq(Step) /\ DOMAIN <<x>> = {1} /\ <<x>>[1] = x
    BY <1>3, <1>5
  <2>2. todo'[t] = <<x>> \o Tail(todo[t])
    BY <1>4, <1>5
  <2> DEFINE p == <<x>>
  <2>3. p \in Seq(Step) /\ todo'[t] = p \o Tail(todo[t]) /\ \A i \in DOMAIN p : p[i] = x /\ 1 \in DOMAIN p
    BY <2>1, <2>2
  <2> HIDE DEF p
  <2>4. /\ \A i \in DOMAIN todo'[t] : \/ i \in DOMAIN p /\ todo'[t][i] = p[i]
                                      \/ \E j \in DOMAIN todo[t] : j > 1 /\ todo'[t][i] = todo[t][j]
        /\ \A i \in DOMAIN p : i \in DOMAIN todo'[t] /\ todo'[t][i] = p[i]
        /\ \A j \in DOMAIN todo[t] : j > 1 => \E i \in DOMAIN todo'[t] : todo'[t][i] = todo[t][j]
    <3>1. PICK q : q = todo[t]
      OBVIOUS
    <3>2. PICK r : r = todo'[t]
      OBVIOUS
    <3>3. q \in Seq(Step) /\ q # <<>> /\ r = p \o Tail(q)
      BY <1>2, <2>3, <3>1, <3>2
    <3>4. Replaced(p, q, r)
      BY <2>3, <3>3, HeadReplaced, Zenon
    <3> QED BY <3>1, <3>2, <3>4 DEF Replaced
  <2>5. 1 \in DOMAIN p
    BY <2>1 DEF p
  <2> QED BY <1>2, <1>5, <2>3, <2>4, <2>5 DEF x, h
<1>6. CASE h.fd \notin Registered
  <2>1. todo'[t] = Tail(todo[t])
    BY <1>4, <1>6
  <2>2. PICK q \in Seq(Step) : q = todo[t]
    BY <1>2
  <2>3. PICK r : r = todo'[t]
    OBVIOUS
  <2>4. q # <<>> /\ r = Tail(q)
    BY <1>2, <2>1, <2>2, <2>3
  <2>5. Behind(q, r)
    BY <2>4, TailElements, Zenon
  <2> QED BY <1>2, <1>6, <2>2, <2>3, <2>5 DEF h, Behind
<1> QED BY <1>5, <1>6

\* A sending step touches only its own thread's queue and frame, and streams.
LEMMA SendingKeeps ==
  ASSUME IInv, NEW t \in Thread, Sending(t)
  PROVE  /\ UNCHANGED <<clients, owner, peer, pc, fd, cur, victims>>
         /\ \A u \in Thread \ {t} : todo'[u] = todo[u] /\ inFrame'[u] = inFrame[u]
         /\ todo[t] # <<>> /\ todo[t] \in Seq(Step) /\ Head(todo[t]) \in Step
         /\ 1 \in DOMAIN todo[t] /\ Head(todo[t]) = todo[t][1]
<1>1. MessageTypes
  BY TypeParts
<1>2. todo[t] # <<>>
  BY DEF Sending, Snapshot, Lookup, PutHeader, PutBody, PutFails, Doing
<1>3. todo[t] \in Seq(Step) /\ Head(todo[t]) \in Step
  BY <1>1, <1>2, QueueFacts DEF MessageTypes
<1>4. 1 \in DOMAIN todo[t] /\ Head(todo[t]) = todo[t][1]
  BY <1>2, <1>3
<1>5. UNCHANGED <<clients, owner, peer, pc, fd, cur, victims>>
  BY DEF Sending, Snapshot, Lookup, PutHeader, PutBody, PutFails
<1>6. \A u \in Thread \ {t} : todo'[u] = todo[u] /\ inFrame'[u] = inFrame[u]
  <2>0. todo \in [Thread -> Seq(Step)] /\ inFrame \in [Thread -> BOOLEAN]
    BY DEF IInv, TypeOK
  <2> USE <2>0
  <2>1. CASE Snapshot(t)
    BY <2>1 DEF Snapshot
  <2>2. CASE Lookup(t)
    BY <2>2 DEF Lookup
  <2>3. CASE PutHeader(t) \/ PutBody(t) \/ PutFails(t)
    BY <2>3 DEF PutHeader, PutBody, PutFails
  <2> QED BY <2>1, <2>2, <2>3 DEF Sending
<1> QED BY <1>2, <1>3, <1>4, <1>5, <1>6

\* What is in the queue of a thread after it has sent something.
LEMMA SendingQueue ==
  ASSUME IInv, NEW t \in Thread, Sending(t)
  PROVE  /\ \A i \in DOMAIN todo'[t] :
              \/ \E j \in DOMAIN todo[t] : todo'[t][i] = todo[t][j]
              \/ /\ Snapshot(t)
                 /\ \E f \in Registered : clients[f].welcomed /\ todo'[t][i] = PutTo(f, Head(todo[t]).frame)
              \/ /\ Head(todo[t]).fd \in Registered /\ Lookup(t)
                 /\ todo'[t][i] = Put(Head(todo[t]).fd, clients[Head(todo[t]).fd].lock,
                                      Head(todo[t]).to, Head(todo[t]).frame)
         /\ \A j \in DOMAIN todo[t] : j > 1 => \E i \in DOMAIN todo'[t] : todo'[t][i] = todo[t][j]
<1>1. MessageTypes /\ todo[t] # <<>> /\ todo[t] \in Seq(Step)
  BY TypeParts, SendingKeeps
<1>2. CASE Snapshot(t)
  BY <1>2, SnapshotQueue
<1>3. CASE Lookup(t)
  BY <1>3, LookupQueue
<1>4. CASE PutHeader(t)
  BY <1>4 DEF PutHeader
<1>5. CASE PutBody(t) \/ PutFails(t)
  <2>1. todo'[t] = Tail(todo[t])
    BY <1>1, <1>5 DEF PutBody, PutFails, MessageTypes
  <2>2. PICK q \in Seq(Step) : q = todo[t]
    BY <1>1
  <2>3. PICK r : r = todo'[t]
    OBVIOUS
  <2>4. q # <<>> /\ r = Tail(q)
    BY <1>1, <2>1, <2>2, <2>3
  <2>5. Behind(q, r)
    BY <2>4, TailElements, Zenon
  <2> QED BY <2>2, <2>3, <2>5 DEF Behind
<1> QED BY <1>2, <1>3, <1>4, <1>5 DEF Sending

\* Whatever a thread has queued stays meant for who it was meant for: the
\* snapshots broadcasts take, the look-ups of handle_msg, the descriptors the
\* kernel reuses.
LEMMA QueuesFitStep ==
  ASSUME IInv, OpenDescriptors, WelcomedInTime, QueuesFit, [Next]_vars
  PROVE  QueuesFit'
<1> SUFFICES ASSUME NEW t \in Thread, NEW i \in DOMAIN todo'[t]
             PROVE  StepFits(t, todo[t][i])'
  BY DEF QueuesFit
<1>0. todo \in [Thread -> Seq(Step)]
  BY DEF IInv, TypeOK
<1>1. ASSUME NEW j \in DOMAIN todo[t], todo'[t][i] = todo[t][j]
      PROVE  StepFits(t, todo[t][i])'
  <2>1. PICK s : s = todo[t][j]
    OBVIOUS
  <2>2. s \in Step /\ StepFits(t, s)
    BY <1>0, <2>1 DEF QueuesFit
  <2>3. StepFits(t, s)'
    BY <2>2, StepKept
  <2> QED BY <1>1, <2>1, <2>3
<1>2. CASE todo'[t] = todo[t]
  BY <1>1, <1>2
<1>3. CASE Sending(t)
  <2>1. CASE \E f \in Registered : clients[f].welcomed /\ todo'[t][i] = PutTo(f, Head(todo[t]).frame)
    <3>1. PICK f \in Registered : clients[f].welcomed /\ todo'[t][i] = PutTo(f, Head(todo[t]).frame)
      BY <2>1
    <3>2. PICK s : s = PutTo(f, Head(todo[t]).frame)
      OBVIOUS
    <3>3. s.op = "put" /\ s.fd = f /\ s.to = owner[f] /\ s.lock = clients[f].lock
      BY <3>2 DEF PutTo, Put
    <3>4. /\ f \in FD /\ owner[f] \in Conn /\ clients[f].lock = owner[f] /\ fd[owner[f]] = f
          /\ peer[owner[f]] # "idle" /\ ~Admitting(owner[f])
      BY <3>1, RegisteredIsOwned DEF WelcomedInTime
    <3>5. StepFits(t, s)'
      BY <3>3, <3>4, FreshStep
    <3> QED BY <3>1, <3>2, <3>5
  <2>2. CASE /\ Head(todo[t]).fd \in Registered /\ Lookup(t)
             /\ todo'[t][i] = Put(Head(todo[t]).fd, clients[Head(todo[t]).fd].lock,
                                  Head(todo[t]).to, Head(todo[t]).frame)
    <3>1. PICK h : h = Head(todo[t])
      OBVIOUS
    <3>2. StepFits(t, h)
      BY <1>3, <3>1, SendingKeeps DEF QueuesFit
    <3>3. PICK s : s = Put(h.fd, clients[h.fd].lock, h.to, h.frame)
      OBVIOUS
    <3>4. s.op = "put" /\ s.fd = h.fd /\ s.to = h.to /\ s.lock = clients[h.fd].lock
      BY <3>3 DEF Put
    <3>5. h.fd \in FD /\ clients[h.fd].lock = owner[h.fd]
      BY <2>2, <3>1, RegisteredIsOwned
    <3>6. h.op # "bcast"
      BY <2>2, <3>1 DEF Lookup, Doing
    <3>7. StepFits(t, s)
      BY <3>2, <3>4, <3>5, <3>6 DEF StepFits
    <3>8. StepFits(t, s)'
      BY <1>3, <3>7, SendingKeeps DEF StepFits, Admitting
    <3> QED BY <2>2, <3>1, <3>3, <3>8
  <2> QED BY <1>1, <1>3, <2>1, <2>2, SendingQueue
<1>4. CASE Fills(t)
  BY <1>4, FillsFit
<1>5. CASE \E u \in Thread \ {t} : Sending(u) \/ Fills(u)
  <2>1. PICK u \in Thread \ {t} : Sending(u) \/ Fills(u)
    BY <1>5
  <2>2. todo'[t] = todo[t]
    BY <1>0, <2>1, SendingKeeps, FillsEmpty
  <2> QED BY <1>2, <2>2
<1> QED BY <1>2, <1>3, <1>4, <1>5, QueuesChange

----------------------------------------------------------------------------
(* Whose frames are under way.                                           *)

\* A connection is up only once, and keeps its descriptor while it is up.
LEMMA PeerMoves ==
  ASSUME IInv, OpenDescriptors, [Next]_vars, NEW c \in Conn, peer'[c] = "up"
  PROVE  /\ peer[c] \in {"idle", "up"}
         /\ peer[c] = "up" => \A f \in FD : owner[f] = c => owner'[f] = c
<1> USE DEF IInv, TypeOK
<1>1. CASE UNCHANGED <<owner, peer>>
  BY <1>1
<1>2. ASSUME NEW d \in Conn, Accept(d)
      PROVE  peer[c] \in {"idle", "up"} /\ (peer[c] = "up" => \A f \in FD : owner[f] = c => owner'[f] = c)
  <2>1. PICK g \in FD : owner[g] = NoConn /\ owner' = [owner EXCEPT ![g] = d]
    BY <1>2 DEF Accept
  <2>2. peer[d] = "idle" /\ peer' = [peer EXCEPT ![d] = "up"]
    BY <1>2 DEF Accept
  <2>3. c # NoConn
    BY ServerConstants
  <2>4. owner \in [FD -> Conn \cup {NoConn}] /\ peer \in [Conn -> {"idle", "up", "gone", "shut", "closed"}]
    OBVIOUS
  <2>5. \A f \in FD : owner[f] = c => owner'[f] = c
    BY ONLY <2>1, <2>3, <2>4
  <2>6. peer[c] \in {"idle", "up"}
    BY ONLY <2>2, <2>4, peer'[c] = "up", c \in Conn, d \in Conn
  <2> QED BY <2>5, <2>6
<1>3. ASSUME NEW d \in Conn, NEW g, g = fd[d], owner[g] = d, g \in FD,
             owner' = [owner EXCEPT ![g] = NoConn], peer' = [peer EXCEPT ![d] = "closed"]
      PROVE  peer[c] \in {"idle", "up"} /\ (peer[c] = "up" => \A f \in FD : owner[f] = c => owner'[f] = c)
  <2>1. c # d /\ peer[c] = "up"
    BY <1>3
  <2> QED BY <1>3, <2>1
<1>4. CASE CloseRefused
  <2>1. /\ cur.conn \in Conn /\ fd[cur.conn] \in FD /\ owner[fd[cur.conn]] = cur.conn
        /\ owner' = [owner EXCEPT ![fd[cur.conn]] = NoConn]
        /\ peer' = [peer EXCEPT ![cur.conn] = "closed"]
    BY <1>4 DEF CloseRefused, At, DescriptorsHeld
  <2> QED BY <1>3, <2>1
<1>5. ASSUME NEW d \in Conn, Close(d)
      PROVE  peer[c] \in {"idle", "up"} /\ (peer[c] = "up" => \A f \in FD : owner[f] = c => owner'[f] = c)
  <2>1. /\ fd[d] \in FD /\ owner[fd[d]] = d
        /\ owner' = [owner EXCEPT ![fd[d]] = NoConn] /\ peer' = [peer EXCEPT ![d] = "closed"]
    BY <1>5 DEF Close, At, DescriptorsHeld
  <2> QED BY <1>3, <2>1
<1>6. ASSUME NEW f \in FD, Cut(f)
      PROVE  peer[c] \in {"idle", "up"} /\ UNCHANGED owner
  BY <1>6 DEF Cut
<1>7. ASSUME NEW d \in Conn, PeerCloses(d)
      PROVE  peer[c] \in {"idle", "up"} /\ UNCHANGED owner
  BY <1>7 DEF PeerCloses
<1>8. CASE Quiet
  BY <1>1, <1>8, QuietKeepsRegistry DEF registry
<1>9. CASE MainMoves
  <2>1. CASE Start \/ LoopTop \/ ReapCheck
    BY <1>1, <2>1, RoundMoves
  <2>2. CASE ReapJoin \/ Idle \/ Admit \/ Refuse \/ MarkWelcomed \/ Spawn \/ ListVictims \/ JoinAll
    BY <1>1, <2>2 DEF ReapJoin, Idle, Admit, Refuse, MarkWelcomed, Spawn, ListVictims, JoinAll
  <2> QED BY <1>2, <1>4, <1>6, <1>9, <2>1, <2>2 DEF MainMoves, Accepting
<1>10. ASSUME NEW d \in Conn, HandlerMoves(d)
       PROVE  peer[c] \in {"idle", "up"} /\ (peer[c] = "up" => \A f \in FD : owner[f] = c => owner'[f] = c)
  <2>1. CASE \E n \in Wanted : Nick(d, n)
    BY <1>1, <2>1, NickMoves
  <2>2. CASE Quit(d) \/ Eof(d) \/ Leave(d)
    BY <1>1, <2>2 DEF Quit, Eof, Leave
  <2> QED BY <1>5, <1>7, <1>10, <2>1, <2>2 DEF HandlerMoves
<1> QED BY <1>8, <1>9, <1>10, NextCases

\* A thread in the middle of a frame keeps what it has to send, unless it is
\* the one that goes on.
LEMMA FramesKept ==
  ASSUME IInv, FramesUnderWay, [Next]_vars
  PROVE  \/ \E t \in Thread : PutHeader(t) \/ PutBody(t) \/ PutFails(t)
         \/ /\ UNCHANGED <<stream, inFrame>>
            /\ \A t \in Thread : inFrame[t] => todo'[t] = todo[t]
<1>0. /\ todo \in [Thread -> Seq(Step)]
      /\ \A t \in Thread : inFrame[t] => todo[t] # <<>> /\ Head(todo[t]).op = "put"
  BY DEF IInv, TypeOK, FramesUnderWay, Doing
<1>1. CASE UNCHANGED todo
  BY <1>1, StreamsChange DEF Sending, Snapshot, Lookup
<1>2. ASSUME NEW t \in Thread, Fills(t)
      PROVE  /\ UNCHANGED <<stream, inFrame>>
             /\ \A u \in Thread : inFrame[u] => todo'[u] = todo[u]
  BY <1>0, <1>2, FillsEmpty
<1>3. ASSUME NEW t \in Thread, Snapshot(t) \/ Lookup(t)
      PROVE  /\ UNCHANGED <<stream, inFrame>>
             /\ \A u \in Thread : inFrame[u] => todo'[u] = todo[u]
  <2>1. Head(todo[t]).op # "put" /\ UNCHANGED <<stream, inFrame>>
    BY <1>3 DEF Snapshot, Lookup, Doing
  <2> QED BY <1>0, <1>3, <2>1, SendingKeeps DEF Sending
<1> QED BY <1>1, <1>2, <1>3, QueuesChange DEF Sending

----------------------------------------------------------------------------
(* A stream gains a piece.                                               *)

\* A stream that a step leaves as it was.
LEMMA SameStream ==
  ASSUME NEW c, stream'[c] = stream[c]
  PROVE  /\ \A i : /\ Meant(c, i)' <=> Meant(c, i)
                   /\ LastFor(c, i)' <=> LastFor(c, i)
                   /\ FirstFor(c, i)' <=> FirstFor(c, i)
         /\ \A i, j : NextFor(c, j, i)' <=> NextFor(c, j, i)
BY DEF Meant, LastFor, FirstFor, NextFor

\* The stream of c gets one more piece, p, behind the n it had.
Longer(c, p, n) ==
  /\ n \in Nat /\ DOMAIN stream[c] = 1..n /\ DOMAIN stream'[c] = 1..(n + 1)
  /\ stream'[c][n + 1] = p /\ \A i \in 1..n : stream'[c][i] = stream[c][i]
  /\ \A i \in 1..n : /\ Meant(c, i)' <=> Meant(c, i)
                     /\ LastFor(c, i)' <=> LastFor(c, i) /\ p.to # c
                     /\ FirstFor(c, i)' <=> FirstFor(c, i)
  /\ LastFor(c, n + 1)' <=> p.to = c
  /\ FirstFor(c, n + 1)' <=> p.to = c /\ \A j \in 1..n : ~Meant(c, j)
  /\ \A i, j \in 1..n : NextFor(c, j, i)' <=> NextFor(c, j, i)
  /\ \A j \in 1..n : NextFor(c, j, n + 1)' <=> LastFor(c, j) /\ p.to = c
  /\ \A i \in 1..(n + 1) : ~NextFor(c, n + 1, i)'

\* Appending a piece to the history of c makes it longer, and nothing else.
LEMMA LongerStream ==
  ASSUME TypeOK, NEW c \in Conn, NEW p, stream'[c] = Append(stream[c], p),
         NEW n, n = Len(stream[c])
  PROVE  Longer(c, p, n)
<1> DEFINE P == [part : {"header", "body"}, by : Thread, to : Conn \cup {NoConn}, frame : Frame]
<1>1. stream[c] \in Seq(P)
  BY DEF TypeOK
<1>2. n \in Nat /\ DOMAIN stream[c] = 1..n
  BY <1>1
<1>3. /\ DOMAIN stream'[c] = 1..(n + 1) /\ Len(stream'[c]) = n + 1
      /\ stream'[c][n + 1] = p /\ \A i \in 1..n : stream'[c][i] = stream[c][i]
  BY <1>1
<1> HIDE DEF P
<1>4. \A i \in 1..n : Meant(c, i)' <=> Meant(c, i)
  BY <1>3 DEF Meant
<1>5. Meant(c, n + 1)' <=> p.to = c
  BY <1>3 DEF Meant
<1>6. ASSUME NEW i \in 1..n
      PROVE  LastFor(c, i)' <=> LastFor(c, i) /\ p.to # c
  <2>1. \A j : j \in (i + 1)..(n + 1) <=> j \in (i + 1)..n \/ j = n + 1
    BY <1>2, <1>6
  <2>2. \A j \in (i + 1)..n : j \in 1..n
    BY <1>2, <1>6
  <2> QED BY <1>3, <1>4, <1>5, <1>6, <2>1, <2>2 DEF LastFor
<1>7. ASSUME NEW i \in 1..n
      PROVE  FirstFor(c, i)' <=> FirstFor(c, i)
  <2>1. \A j \in 1..(i - 1) : j \in 1..n
    BY <1>2, <1>7
  <2> QED BY <1>4, <1>7, <2>1 DEF FirstFor
<1>8. LastFor(c, n + 1)' <=> p.to = c
  <2>1. (n + 1 + 1)..(n + 1) = {}
    BY <1>2
  <2> QED BY <1>3, <1>5, <2>1 DEF LastFor
<1>9. FirstFor(c, n + 1)' <=> p.to = c /\ \A j \in 1..n : ~Meant(c, j)
  <2>1. 1..(n + 1 - 1) = 1..n
    BY <1>2
  <2> QED BY <1>4, <1>5, <2>1 DEF FirstFor
<1>10. ASSUME NEW i \in 1..n, NEW j \in 1..n
       PROVE  NextFor(c, j, i)' <=> NextFor(c, j, i)
  <2>1. \A k \in (j + 1)..(i - 1) : k \in 1..n
    BY <1>2, <1>10
  <2> QED BY <1>4, <1>10, <2>1 DEF NextFor
<1>11. ASSUME NEW j \in 1..n
       PROVE  NextFor(c, j, n + 1)' <=> LastFor(c, j) /\ p.to = c
  <2>1. (j + 1)..(n + 1 - 1) = (j + 1)..n /\ j < n + 1
    BY <1>2, <1>11
  <2>2. \A k \in (j + 1)..n : k \in 1..n
    BY <1>2, <1>11
  <2> QED BY <1>4, <1>5, <1>11, <2>1, <2>2 DEF NextFor, LastFor
<1>12. ASSUME NEW i \in 1..(n + 1)
       PROVE  ~NextFor(c, n + 1, i)'
  <2>1. ~(n + 1 < i)
    BY <1>2, <1>12
  <2> QED BY <2>1 DEF NextFor
<1> QED BY <1>2, <1>3, <1>4, <1>6, <1>7, <1>8, <1>9, <1>10, <1>11, <1>12 DEF Longer

\* Two threads with a frame for the same client both need that client's mutex.
LEMMA SameMutex ==
  ASSUME QueuesFit, TypeOK, NEW c \in Conn,
         NEW t \in Thread, NEW u \in Thread, t # u,
         todo[t] # <<>>, Head(todo[t]).op = "put", Head(todo[t]).to = c, owner[Head(todo[t]).fd] = c,
         todo[u] # <<>>, Head(todo[u]).op = "put", Head(todo[u]).to = c, owner[Head(todo[u]).fd] = c
  PROVE  Head(todo[t]).lock = c /\ Head(todo[u]).lock = c /\ c # NoConn
<1>0. c # NoConn
  BY ServerConstants
<1>1. todo[t] \in Seq(Step) /\ todo[u] \in Seq(Step)
  BY DEF TypeOK
<1>2. StepFits(t, Head(todo[t])) /\ StepFits(u, Head(todo[u]))
  <2>1. /\ 1 \in DOMAIN todo[t] /\ Head(todo[t]) = todo[t][1]
        /\ 1 \in DOMAIN todo[u] /\ Head(todo[u]) = todo[u][1]
    BY <1>1
  <2> QED BY <2>1 DEF QueuesFit
<1> QED BY <1>0, <1>2 DEF StepFits

\* No two threads are in the middle of a frame for the same client, and none
\* starts one while another is.
LEMMA OneAtATime ==
  ASSUME IInv, QueuesFit, FramesUnderWay, NEW c \in Conn,
         NEW t \in Thread, Doing(t, "put"), Head(todo[t]).to = c, owner[Head(todo[t]).fd] = c,
         inFrame[t] \/ LockFree(t),
         NEW u \in Thread, Halfway(u, c)
  PROVE  t = u
<1> SUFFICES ASSUME t # u PROVE FALSE
  OBVIOUS
<1>1. Doing(u, "put") /\ inFrame[u] /\ Head(todo[u]).to = c /\ owner[Head(todo[u]).fd] = c
  BY DEF Halfway, FramesUnderWay
<1>2. Head(todo[t]).lock = c /\ Head(todo[u]).lock = c /\ c # NoConn
  BY <1>1, SameMutex DEF Doing, IInv
<1> QED BY <1>1, <1>2 DEF LockFree, Holds, FramesUnderWay

----------------------------------------------------------------------------
(* The parts of FramesUnderWay and OwnFramesWhole.                         *)

\* What a piece of a stream is made of.
LEMMA PieceTypes ==
  ASSUME IInv, NEW c \in Conn, NEW i \in DOMAIN stream[c]
  PROVE  stream[c][i].part \in {"header", "body"} /\ stream[c][i].by \in Thread
<1> DEFINE P == [part : {"header", "body"}, by : Thread, to : Conn \cup {NoConn}, frame : Frame]
<1>1. stream[c] \in Seq(P)
  BY DEF IInv, TypeOK
<1> HIDE DEF P
<1>2. stream[c][i] \in P
  BY <1>1
<1> QED BY <1>2 DEF P

\* A frame under way stays so whatever the other threads do, while its client
\* is up.
LEMMA HalfwaySame ==
  ASSUME IInv, OpenDescriptors, QueuesFit, FramesUnderWay, [Next]_vars,
         NEW t \in Thread, NEW c \in Conn, peer'[c] = "up",
         inFrame'[t] = inFrame[t], inFrame[t] => todo'[t] = todo[t]
  PROVE  Halfway(t, c)' <=> Halfway(t, c)
<1>1. CASE ~inFrame[t]
  BY <1>1 DEF Halfway
<1>2. CASE inFrame[t]
  <2>0. todo[t] \in Seq(Step) /\ Doing(t, "put") /\ c # NoConn
    BY <1>2, ServerConstants DEF IInv, TypeOK, FramesUnderWay
  <2>1. PICK h : h = Head(todo[t])
    OBVIOUS
  <2>2. StepFits(t, h) /\ h.op = "put"
    <3>1. 1 \in DOMAIN todo[t] /\ h = todo[t][1]
      BY <2>0, <2>1 DEF Doing
    <3> QED BY <2>0, <2>1, <3>1 DEF QueuesFit, Doing
  <2>3. h.fd \in FD /\ (h.to = c => peer[c] # "idle")
    BY <2>0, <2>2 DEF StepFits
  <2>4. h = Head(todo'[t]) /\ inFrame'[t]
    BY <1>2, <2>1
  <2>5. ASSUME h.to = c, owner'[h.fd] = c
        PROVE  owner[h.fd] = c /\ peer[c] = "up"
    BY <2>3, <2>5, PeerMoves, AdmissionMoves
  <2>6. ASSUME owner[h.fd] = c, peer[c] = "up"
        PROVE  owner'[h.fd] = c
    BY <2>3, <2>6, PeerMoves
  <2> QED BY <1>2, <2>1, <2>4, <2>5, <2>6 DEF Halfway
<1> QED BY <1>1, <1>2

\* What is known of the last piece of a stream, and of the frames under way.
LastPiece(c) ==
  \A i \in DOMAIN stream[c] :
    LastFor(c, i) /\ stream[c][i].part = "header" /\ peer[c] = "up" =>
      /\ Halfway(stream[c][i].by, c)
      /\ Head(todo[stream[c][i].by]).frame = stream[c][i].frame

\* The header of the frame t is in the middle of is the last thing c got.
Started(t, c) ==
  Halfway(t, c) /\ Head(todo[t]).frame.kind \in Kept =>
    \E i \in DOMAIN stream[c] :
      /\ LastFor(c, i) /\ stream[c][i].part = "header"
      /\ stream[c][i].by = t /\ stream[c][i].frame = Head(todo[t]).frame

\* The history records frames of Kept, of connections that were made.
KeptPieces(c) ==
  \A i \in DOMAIN stream[c] : stream[c][i].frame.kind \in Kept /\ peer[c] # "idle"

\* What c was sent so far, frame by frame.
WholeSoFar(c) ==
  /\ \A i \in DOMAIN stream[c] : FirstFor(c, i) => stream[c][i].part = "header"
  /\ \A i, j \in DOMAIN stream[c] : NextFor(c, j, i) =>
       \/ SameFrame(stream[c][j], stream[c][i])
       \/ stream[c][j].part = "body" /\ stream[c][i].part = "header"

\* Two threads in the middle of a frame do not hold the same mutex.
MutexesApart ==
  \A t, u \in Thread : t # u /\ inFrame[t] /\ inFrame[u] =>
    Head(todo[t]).lock = NoConn \/ Head(todo[t]).lock # Head(todo[u]).lock

\* The invariants about frames, connection by connection.
LEMMA FramesParts ==
  /\ FramesUnderWay <=> /\ \A t \in Thread : inFrame[t] => Doing(t, "put")
                        /\ MutexesApart
                        /\ \A c \in Conn : KeptPieces(c) /\ LastPiece(c)
                        /\ \A t \in Thread, c \in Conn : Started(t, c)
  /\ OwnFramesWhole <=> \A c \in Conn : WholeSoFar(c)
<1>1. FramesUnderWay <=> /\ \A t \in Thread : inFrame[t] => Doing(t, "put")
                         /\ MutexesApart
                         /\ \A c \in Conn : KeptPieces(c) /\ LastPiece(c)
                         /\ \A t \in Thread, c \in Conn : Started(t, c)
  BY DEF FramesUnderWay, MutexesApart, KeptPieces, LastPiece, Started
<1>2. OwnFramesWhole <=> \A c \in Conn : WholeSoFar(c)
  BY DEF OwnFramesWhole, WholeSoFar
<1> QED BY <1>1, <1>2

\* The same of the state after a step.
LEMMA FramesPartsNext ==
  /\ FramesUnderWay' <=> /\ \A t \in Thread : inFrame'[t] => Doing(t, "put")'
                         /\ MutexesApart'
                         /\ \A c \in Conn : KeptPieces(c)' /\ LastPiece(c)'
                         /\ \A t \in Thread, c \in Conn : Started(t, c)'
  /\ OwnFramesWhole' <=> \A c \in Conn : WholeSoFar(c)'
<1>1. FramesUnderWay' <=> /\ \A t \in Thread : inFrame'[t] => Doing(t, "put")'
                          /\ MutexesApart'
                          /\ \A c \in Conn : KeptPieces(c)' /\ LastPiece(c)'
                          /\ \A t \in Thread, c \in Conn : Started(t, c)'
  BY DEF FramesUnderWay, MutexesApart, KeptPieces, LastPiece, Started
<1>2. OwnFramesWhole' <=> \A c \in Conn : WholeSoFar(c)'
  BY DEF OwnFramesWhole, WholeSoFar
<1> QED BY <1>1, <1>2

\* A connection to whose stream nothing is added.
LEMMA StreamUntouched ==
  ASSUME IInv, OpenDescriptors, QueuesFit, FramesUnderWay, OwnFramesWhole, [Next]_vars,
         NEW c \in Conn, stream'[c] = stream[c],
         \A t \in Thread : Halfway(t, c) /\ peer'[c] = "up" /\ Head(todo[t]).frame.kind \in Kept =>
           inFrame'[t] = inFrame[t] /\ todo'[t] = todo[t],
         \A t \in Thread : Halfway(t, c)' => \/ inFrame'[t] = inFrame[t] /\ todo'[t] = todo[t]
                                             \/ Head(todo'[t]).frame.kind \notin Kept
  PROVE  /\ KeptPieces(c)' /\ LastPiece(c)' /\ WholeSoFar(c)'
         /\ \A t \in Thread : Started(t, c)'
<1>0. KeptPieces(c) /\ LastPiece(c) /\ WholeSoFar(c) /\ \A t \in Thread : Started(t, c)
  BY FramesParts
<1>1. KeptPieces(c)'
  BY <1>0, AdmissionMoves DEF KeptPieces
<1>2. WholeSoFar(c)'
  BY <1>0, SameStream DEF WholeSoFar
<1>3. ASSUME NEW i \in DOMAIN stream'[c], LastFor(c, i)', stream'[c][i].part = "header", peer'[c] = "up"
      PROVE  Halfway(stream[c][i].by, c)' /\ Head(todo'[stream'[c][i].by]).frame = stream'[c][i].frame
  <2>1. LastFor(c, i) /\ i \in DOMAIN stream[c] /\ stream'[c][i] = stream[c][i]
    BY <1>3, SameStream
  <2>2. peer[c] = "up"
    BY <1>0, <1>3, <2>1, PeerMoves DEF KeptPieces
  <2>3. PICK t : t = stream[c][i].by
    OBVIOUS
  <2>4. t \in Thread
    BY <2>1, <2>3, PieceTypes
  <2>5. Halfway(t, c) /\ Head(todo[t]).frame = stream[c][i].frame /\ stream[c][i].frame.kind \in Kept
    BY <1>0, <1>3, <2>1, <2>2, <2>3 DEF LastPiece, KeptPieces
  <2>6. inFrame'[t] = inFrame[t] /\ todo'[t] = todo[t]
    BY <1>3, <2>4, <2>5
  <2>7. Halfway(t, c)'
    BY <1>3, <2>4, <2>5, <2>6, HalfwaySame
  <2> QED BY <2>1, <2>3, <2>5, <2>6, <2>7
<1>4. ASSUME NEW t \in Thread, Halfway(t, c)', Head(todo'[t]).frame.kind \in Kept
      PROVE  \E i \in DOMAIN stream'[c] :
               /\ LastFor(c, i)' /\ stream'[c][i].part = "header"
               /\ stream'[c][i].by = t /\ stream'[c][i].frame = Head(todo'[t]).frame
  <2>1. inFrame'[t] = inFrame[t] /\ todo'[t] = todo[t] /\ peer'[c] = "up"
    BY <1>4 DEF Halfway
  <2>2. Halfway(t, c)
    BY <1>4, <2>1, HalfwaySame
  <2> QED BY <1>0, <1>4, <2>1, <2>2, SameStream DEF Started
<1> QED BY <1>1, <1>2, <1>3, <1>4 DEF LastPiece, Started

\* Nothing starts or ends a frame.
LEMMA FramesQuiet ==
  ASSUME IInv, OpenDescriptors, QueuesFit, FramesUnderWay, OwnFramesWhole, [Next]_vars,
         UNCHANGED <<stream, inFrame>>,
         \A t \in Thread : inFrame[t] => todo'[t] = todo[t]
  PROVE  FramesUnderWay' /\ OwnFramesWhole'
<1>1. \A t \in Thread : inFrame'[t] => Doing(t, "put")'
  BY DEF FramesUnderWay, Doing
<1>2. MutexesApart'
  BY DEF FramesUnderWay, MutexesApart
<1>3. ASSUME NEW c \in Conn
      PROVE  KeptPieces(c)' /\ LastPiece(c)' /\ WholeSoFar(c)' /\ \A t \in Thread : Started(t, c)'
  <2>1. \A t \in Thread : Halfway(t, c) => inFrame[t]
    BY DEF Halfway
  <2>2. \A t \in Thread : Halfway(t, c)' => inFrame[t]
    BY DEF Halfway
  <2> QED BY <1>3, <2>1, <2>2, StreamUntouched
<1> QED BY <1>1, <1>2, <1>3, FramesPartsNext

\* A thread starts a frame.
LEMMA FrameStarts ==
  ASSUME IInv, OpenDescriptors, QueuesFit, FramesUnderWay, OwnFramesWhole, [Next]_vars,
         NEW t \in Thread, PutHeader(t)
  PROVE  FramesUnderWay' /\ OwnFramesWhole'
<1>0. /\ inFrame \in [Thread -> BOOLEAN] /\ ~inFrame[t] /\ inFrame' = [inFrame EXCEPT ![t] = TRUE]
      /\ todo' = todo /\ Doing(t, "put") /\ LockFree(t) /\ Alive(Target(t))
      /\ stream' = Extended(t, "header") /\ UNCHANGED <<peer, owner>> /\ TypeOK
  BY DEF IInv, TypeOK, PutHeader
<1>1. PICK h : h = Head(todo[t])
  OBVIOUS
<1>2. PICK o : o = owner[h.fd]
  OBVIOUS
<1>3. h \in Step /\ StepFits(t, h) /\ h.op = "put"
  <2>1. Sending(t)
    BY DEF Sending
  <2> QED BY <1>0, <1>1, <2>1, SendingKeeps DEF QueuesFit, Doing
<1>4. h.fd \in FD /\ o \in Conn /\ peer[o] = "up" /\ o = Target(t)
  BY <1>0, <1>1, <1>2, <1>3 DEF StepFits, Step, Target, Alive, TypeOK
<1>5. \A u \in Thread : inFrame[u] => u # t
  BY <1>0
<1>6. \A u \in Thread : inFrame'[u] => Doing(u, "put")'
  BY <1>0 DEF FramesUnderWay, Doing
<1>7. MutexesApart'
  BY <1>0 DEF FramesUnderWay, MutexesApart, LockFree, Holds
<1>8. ASSUME NEW c \in Conn, stream'[c] = stream[c], h.frame.kind \notin Kept \/ o # c
      PROVE  KeptPieces(c)' /\ LastPiece(c)' /\ WholeSoFar(c)' /\ \A u \in Thread : Started(u, c)'
  <2>1. \A u \in Thread : Halfway(u, c) => inFrame'[u] = inFrame[u] /\ todo'[u] = todo[u]
    BY <1>0, <1>5 DEF Halfway
  <2>2. \A u \in Thread : Halfway(u, c)' =>
          (inFrame'[u] = inFrame[u] /\ todo'[u] = todo[u]) \/ Head(todo'[u]).frame.kind \notin Kept
    BY <1>0, <1>1, <1>2, <1>8 DEF Halfway
  <2> QED BY <1>8, <2>1, <2>2, StreamUntouched
<1>9. CASE h.frame.kind \notin Kept
  <2>1. stream' = stream
    BY <1>0, <1>1, <1>9 DEF Extended
  <2> QED BY <1>6, <1>7, <1>8, <1>9, <2>1, FramesPartsNext
<1>10. CASE h.frame.kind \in Kept
  <2>1. PICK p : p = Piece(t, "header")
    OBVIOUS
  <2>2. p.part = "header" /\ p.by = t /\ p.to = h.to /\ p.frame = h.frame
    BY <1>1, <2>1 DEF Piece
  <2>3. stream' = [stream EXCEPT ![o] = Append(@, p)]
    BY <1>0, <1>1, <1>4, <1>10, <2>1 DEF Extended
  <2>4. stream'[o] = Append(stream[o], p) /\ \A c \in Conn \ {o} : stream'[c] = stream[c]
    BY <1>0, <1>4, <2>3 DEF TypeOK
  <2>5. PICK n : n = Len(stream[o])
    OBVIOUS
  <2>16. Longer(o, p, n)
    BY <1>0, <1>4, <2>4, <2>5, LongerStream
  <2>6. /\ n \in Nat /\ DOMAIN stream[o] = 1..n /\ DOMAIN stream'[o] = 1..(n + 1)
        /\ stream'[o][n + 1] = p /\ \A i \in 1..n : stream'[o][i] = stream[o][i]
        /\ \A i \in 1..n : /\ Meant(o, i)' <=> Meant(o, i)
                           /\ LastFor(o, i)' <=> LastFor(o, i) /\ p.to # o
                           /\ FirstFor(o, i)' <=> FirstFor(o, i)
        /\ LastFor(o, n + 1)' <=> p.to = o
        /\ FirstFor(o, n + 1)' <=> p.to = o /\ \A j \in 1..n : ~Meant(o, j)
        /\ \A i, j \in 1..n : NextFor(o, j, i)' <=> NextFor(o, j, i)
        /\ \A j \in 1..n : NextFor(o, j, n + 1)' <=> LastFor(o, j) /\ p.to = o
        /\ \A i \in 1..(n + 1) : ~NextFor(o, n + 1, i)'
    BY <2>16 DEF Longer
  <2>7. KeptPieces(o) /\ LastPiece(o) /\ WholeSoFar(o) /\ \A u \in Thread : Started(u, o)
    BY <1>4, FramesParts
  <2>8. \A u \in Thread \ {t} : Halfway(u, o)' <=> Halfway(u, o)
    BY <1>0 DEF Halfway
  <2>9. h.to = o => \A u \in Thread : ~Halfway(u, o)
    BY <1>0, <1>1, <1>2, <1>4, <1>5, OneAtATime DEF Halfway
  <2>10. h.to = o => Halfway(t, o)'
    BY <1>0, <1>1, <1>2, <1>4 DEF Halfway
  <2>18. \A i \in 1..(n + 1) : i \in 1..n \/ i = n + 1
    BY <2>6
  <2>11. KeptPieces(o)'
    BY <1>0, <1>4, <1>10, <2>2, <2>6, <2>7, <2>18 DEF KeptPieces
  <2>12. LastPiece(o)'
    <3> SUFFICES ASSUME NEW i \in 1..(n + 1), LastFor(o, i)', stream'[o][i].part = "header"
                 PROVE  /\ Halfway(stream[o][i].by, o)'
                        /\ Head(todo'[stream'[o][i].by]).frame = stream'[o][i].frame
      BY <2>6 DEF LastPiece
    <3>1. CASE i = n + 1
      BY <1>0, <1>1, <2>2, <2>6, <2>10, <3>1
    <3>2. CASE i \in 1..n
      <4>1. LastFor(o, i) /\ stream'[o][i] = stream[o][i]
        BY <2>6, <3>2
      <4>2. PICK u : u = stream[o][i].by
        OBVIOUS
      <4>3. Halfway(u, o) /\ Head(todo[u]).frame = stream[o][i].frame
        BY <1>4, <2>6, <2>7, <3>2, <4>1, <4>2 DEF LastPiece
      <4>4. Halfway(u, o)'
        BY <1>0, <4>3 DEF Halfway
      <4> QED BY <1>0, <4>1, <4>2, <4>3, <4>4
    <3> QED BY <2>18, <3>1, <3>2
  <2>13. WholeSoFar(o)'
    <3>1. ASSUME NEW i \in 1..(n + 1), FirstFor(o, i)'
          PROVE  stream'[o][i].part = "header"
      BY <2>2, <2>6, <2>7, <2>18, <3>1 DEF WholeSoFar
    <3>2. ASSUME NEW i \in 1..(n + 1), NEW j \in 1..(n + 1), NextFor(o, j, i)'
          PROVE  \/ SameFrame(stream'[o][j], stream'[o][i])
                 \/ stream'[o][j].part = "body" /\ stream'[o][i].part = "header"
      <4>1. CASE i \in 1..n /\ j \in 1..n
        <5>1. NextFor(o, j, i)
          BY <2>6, <3>2, <4>1
        <5>2. stream'[o][i] = stream[o][i] /\ stream'[o][j] = stream[o][j]
          BY <2>6, <4>1
        <5>3. i \in DOMAIN stream[o] /\ j \in DOMAIN stream[o]
          BY <2>6, <4>1
        <5>4. \/ SameFrame(stream[o][j], stream[o][i])
              \/ stream[o][j].part = "body" /\ stream[o][i].part = "header"
          BY <2>7, <5>1, <5>3 DEF WholeSoFar
        <5> QED BY <5>2, <5>4
      <4>2. CASE i = n + 1 /\ j \in 1..n
        <5>1. LastFor(o, j) /\ p.to = o
          BY <2>6, <3>2, <4>2
        <5>2. stream[o][j].part # "header"
          BY <1>4, <2>2, <2>6, <2>7, <2>9, <4>2, <5>1, PieceTypes DEF LastPiece
        <5>3. stream[o][j].part = "body"
          BY <1>4, <2>6, <4>2, <5>2, PieceTypes
        <5> QED BY <2>2, <2>6, <4>2, <5>3
      <4> QED BY <2>6, <2>18, <3>2, <4>1, <4>2
    <3> QED BY <2>6, <3>1, <3>2 DEF WholeSoFar
  <2>14. ASSUME NEW u \in Thread
         PROVE  Started(u, o)'
    <3>1. CASE u = t
      <4>1. SUFFICES ASSUME Halfway(t, o)'
                     PROVE  \E i \in DOMAIN stream'[o] :
                              /\ LastFor(o, i)' /\ stream'[o][i].part = "header"
                              /\ stream'[o][i].by = t /\ stream'[o][i].frame = Head(todo'[t]).frame
        BY <3>1 DEF Started
      <4>2. h.to = o
        BY <1>0, <1>1, <4>1 DEF Halfway
      <4> QED BY <1>0, <1>1, <2>2, <2>6, <4>2
    <3>2. CASE u # t
      <4>1. SUFFICES ASSUME Halfway(u, o)', Head(todo'[u]).frame.kind \in Kept
                     PROVE  \E i \in DOMAIN stream'[o] :
                              /\ LastFor(o, i)' /\ stream'[o][i].part = "header"
                              /\ stream'[o][i].by = u /\ stream'[o][i].frame = Head(todo'[u]).frame
        BY DEF Started
      <4>2. Halfway(u, o)
        BY <2>8, <3>2, <4>1
      <4>3. h.to # o
        BY <2>9, <4>2
      <4>4. PICK i \in DOMAIN stream[o] :
              /\ LastFor(o, i) /\ stream[o][i].part = "header"
              /\ stream[o][i].by = u /\ stream[o][i].frame = Head(todo[u]).frame
        BY <1>0, <2>7, <4>1, <4>2 DEF Started
      <4> QED BY <1>0, <2>2, <2>6, <4>3, <4>4
    <3> QED BY <3>1, <3>2
  <2>15. ASSUME NEW c \in Conn
         PROVE  KeptPieces(c)' /\ LastPiece(c)' /\ WholeSoFar(c)' /\ \A u \in Thread : Started(u, c)'
    <3>1. CASE c = o
      BY <2>11, <2>12, <2>13, <2>14, <3>1
    <3>2. CASE c # o
      BY <1>8, <2>4, <3>2
    <3> QED BY <3>1, <3>2
  <2> QED BY <1>6, <1>7, <2>15, FramesPartsNext
<1> QED BY <1>9, <1>10

\* What is known of a thread that writes the second half of a frame or gives
\* the frame up.
LEMMA FrameLeft ==
  ASSUME IInv, QueuesFit, FramesUnderWay, [Next]_vars,
         NEW t \in Thread, PutBody(t) \/ PutFails(t)
  PROVE  /\ inFrame' = [inFrame EXCEPT ![t] = FALSE]
         /\ UNCHANGED <<peer, owner>> /\ \A u \in Thread \ {t} : todo'[u] = todo[u]
         /\ inFrame \in [Thread -> BOOLEAN] /\ Head(todo[t]) \in Step
         /\ (\A u \in Thread : inFrame[u] => Doing(u, "put"))
              => \A u \in Thread : inFrame'[u] => Doing(u, "put")'
         /\ MutexesApart'
         /\ Head(todo[t]).fd \in FD /\ Doing(t, "put") /\ StepFits(t, Head(todo[t]))
<1>1. /\ inFrame' = [inFrame EXCEPT ![t] = FALSE] /\ UNCHANGED <<peer, owner>>
      /\ Doing(t, "put") /\ Sending(t) /\ inFrame \in [Thread -> BOOLEAN]
  BY DEF PutBody, PutFails, Sending, IInv, TypeOK
<1>2. /\ \A u \in Thread \ {t} : todo'[u] = todo[u] /\ inFrame'[u] = inFrame[u]
      /\ Head(todo[t]) \in Step /\ 1 \in DOMAIN todo[t] /\ Head(todo[t]) = todo[t][1]
  BY <1>1, SendingKeeps
<1>8. StepFits(t, Head(todo[t]))
  BY <1>2 DEF QueuesFit
<1>3. \A u \in Thread : inFrame'[u] => u # t
  BY <1>1
<1>4. MutexesApart'
  BY <1>2, <1>3 DEF FramesUnderWay, MutexesApart
<1>5. \A u \in Thread : inFrame[u] /\ Doing(u, "put") /\ u # t => Doing(u, "put")'
  BY <1>2 DEF Doing
<1>6. Head(todo[t]).fd \in FD
  BY <1>1, <1>8 DEF StepFits, Doing
<1>7. \A u \in Thread : inFrame'[u] => inFrame[u] /\ u # t
  BY <1>2, <1>3
<1> QED BY <1>1, <1>2, <1>4, <1>5, <1>6, <1>7, <1>8

\* A frame is given up: its client is gone, or it is too large.
LEMMA FrameFails ==
  ASSUME IInv, OpenDescriptors, QueuesFit, FramesUnderWay, OwnFramesWhole, [Next]_vars,
         NEW t \in Thread, PutFails(t)
  PROVE  FramesUnderWay' /\ OwnFramesWhole'
<1>1. /\ inFrame' = [inFrame EXCEPT ![t] = FALSE] /\ inFrame \in [Thread -> BOOLEAN]
      /\ UNCHANGED <<peer, owner>> /\ \A u \in Thread \ {t} : todo'[u] = todo[u]
      /\ \A u \in Thread : inFrame'[u] => Doing(u, "put")'
      /\ MutexesApart'
  BY FrameLeft DEF FramesUnderWay
<1>2. stream' = stream /\ (~Alive(owner[Head(todo[t]).fd]) \/ ~inFrame[t])
  BY DEF PutFails, Target, TooLarge
<1>3. ASSUME NEW c \in Conn
      PROVE  KeptPieces(c)' /\ LastPiece(c)' /\ WholeSoFar(c)' /\ \A u \in Thread : Started(u, c)'
  <2>1. ~Halfway(t, c)
    BY <1>2, ServerConstants DEF Halfway, Alive
  <2>2. \A u \in Thread : Halfway(u, c) => inFrame'[u] = inFrame[u] /\ todo'[u] = todo[u]
    BY <1>1, <2>1
  <2>3. \A u \in Thread : Halfway(u, c)' => inFrame'[u] = inFrame[u] /\ todo'[u] = todo[u]
    BY <1>1 DEF Halfway
  <2> QED BY <1>2, <1>3, <2>2, <2>3, StreamUntouched
<1> QED BY <1>1, <1>3, FramesPartsNext

\* A frame is completed.
LEMMA FrameEnds ==
  ASSUME IInv, OpenDescriptors, QueuesFit, FramesUnderWay, OwnFramesWhole, [Next]_vars,
         NEW t \in Thread, PutBody(t)
  PROVE  FramesUnderWay' /\ OwnFramesWhole'
<1>0. /\ inFrame' = [inFrame EXCEPT ![t] = FALSE] /\ inFrame \in [Thread -> BOOLEAN]
      /\ UNCHANGED <<peer, owner>> /\ \A u \in Thread \ {t} : todo'[u] = todo[u]
      /\ \A u \in Thread : inFrame'[u] => Doing(u, "put")'
      /\ MutexesApart' /\ Head(todo[t]) \in Step /\ Head(todo[t]).fd \in FD
      /\ Doing(t, "put")
  BY FrameLeft DEF FramesUnderWay
<1>1. PICK h : h = Head(todo[t])
  OBVIOUS
<1>2. PICK o : o = owner[h.fd]
  OBVIOUS
<1>3. TypeOK /\ inFrame[t] /\ Alive(Target(t)) /\ stream' = Extended(t, "body")
  BY DEF PutBody, IInv
<1>4. h.fd \in FD /\ o \in Conn /\ peer[o] = "up" /\ o = Target(t)
  BY <1>0, <1>1, <1>2, <1>3 DEF Target, Alive, TypeOK
<1>5. ~inFrame'[t] /\ \A u \in Thread \ {t} : inFrame'[u] = inFrame[u]
  BY <1>0
<1>6. \A c \in Conn : Halfway(t, c) => c = o /\ h.to = o
  BY <1>1, <1>2 DEF Halfway
<1>8. ASSUME NEW c \in Conn, stream'[c] = stream[c], h.frame.kind \notin Kept \/ o # c
      PROVE  KeptPieces(c)' /\ LastPiece(c)' /\ WholeSoFar(c)' /\ \A u \in Thread : Started(u, c)'
  <2>1. \A u \in Thread : Halfway(u, c) /\ Head(todo[u]).frame.kind \in Kept =>
          inFrame'[u] = inFrame[u] /\ todo'[u] = todo[u]
    BY <1>0, <1>1, <1>5, <1>6, <1>8
  <2>2. \A u \in Thread : Halfway(u, c)' => inFrame'[u] = inFrame[u] /\ todo'[u] = todo[u]
    BY <1>0, <1>5 DEF Halfway
  <2> QED BY <1>8, <2>1, <2>2, StreamUntouched
<1>9. CASE h.frame.kind \notin Kept
  <2>1. stream' = stream
    BY <1>1, <1>3, <1>9 DEF Extended
  <2> QED BY <1>0, <1>8, <1>9, <2>1, FramesPartsNext
<1>10. CASE h.frame.kind \in Kept
  <2>1. PICK p : p = Piece(t, "body")
    OBVIOUS
  <2>2. p.part = "body" /\ p.by = t /\ p.to = h.to /\ p.frame = h.frame
    BY <1>1, <2>1 DEF Piece
  <2>3. stream' = [stream EXCEPT ![o] = Append(@, p)]
    BY <1>1, <1>3, <1>4, <1>10, <2>1 DEF Extended
  <2>4. stream'[o] = Append(stream[o], p) /\ \A c \in Conn \ {o} : stream'[c] = stream[c]
    BY <1>3, <1>4, <2>3 DEF TypeOK
  <2>5. PICK n : n = Len(stream[o])
    OBVIOUS
  <2>16. Longer(o, p, n)
    BY <1>3, <1>4, <2>4, <2>5, LongerStream
  <2>6. /\ n \in Nat /\ DOMAIN stream[o] = 1..n /\ DOMAIN stream'[o] = 1..(n + 1)
        /\ stream'[o][n + 1] = p /\ \A i \in 1..n : stream'[o][i] = stream[o][i]
        /\ \A i \in 1..n : /\ Meant(o, i)' <=> Meant(o, i)
                           /\ LastFor(o, i)' <=> LastFor(o, i) /\ p.to # o
                           /\ FirstFor(o, i)' <=> FirstFor(o, i)
        /\ LastFor(o, n + 1)' <=> p.to = o
        /\ FirstFor(o, n + 1)' <=> p.to = o /\ \A j \in 1..n : ~Meant(o, j)
        /\ \A i, j \in 1..n : NextFor(o, j, i)' <=> NextFor(o, j, i)
        /\ \A j \in 1..n : NextFor(o, j, n + 1)' <=> LastFor(o, j) /\ p.to = o
        /\ \A i \in 1..(n + 1) : ~NextFor(o, n + 1, i)'
    BY <2>16 DEF Longer
  <2>7. KeptPieces(o) /\ LastPiece(o) /\ WholeSoFar(o) /\ \A u \in Thread : Started(u, o)
    BY <1>4, FramesParts
  <2>18. \A i \in 1..(n + 1) : i \in 1..n \/ i = n + 1
    BY <2>6
  <2>8. \A u \in Thread : Halfway(u, o)' => u # t /\ Halfway(u, o)
    BY <1>0, <1>5 DEF Halfway
  <2>9. ASSUME h.to = o
        PROVE  Halfway(t, o) /\ \A u \in Thread : Halfway(u, o) => u = t
    <3>1. Halfway(t, o)
      BY <1>1, <1>2, <1>3, <1>4, <2>9 DEF Halfway
    <3> QED BY <1>0, <1>1, <1>2, <1>3, <1>4, <2>9, <3>1, OneAtATime
  <2>10. ASSUME h.to = o
         PROVE  \E i \in 1..n : /\ LastFor(o, i) /\ stream[o][i].part = "header"
                                /\ stream[o][i].by = t /\ stream[o][i].frame = h.frame
    BY <1>1, <1>10, <2>6, <2>7, <2>9, <2>10 DEF Started
  <2>11. KeptPieces(o)'
    BY <1>0, <1>4, <1>10, <2>2, <2>6, <2>7, <2>18 DEF KeptPieces
  <2>12. LastPiece(o)'
    <3> SUFFICES ASSUME NEW i \in 1..(n + 1), LastFor(o, i)', stream'[o][i].part = "header"
                 PROVE  /\ Halfway(stream[o][i].by, o)'
                        /\ Head(todo'[stream'[o][i].by]).frame = stream'[o][i].frame
      BY <2>6 DEF LastPiece
    <3>1. i # n + 1 /\ i \in 1..n
      BY <2>2, <2>6, <2>18
    <3>2. LastFor(o, i) /\ p.to # o /\ stream'[o][i] = stream[o][i]
      BY <2>6, <3>1
    <3>3. PICK u : u = stream[o][i].by
      OBVIOUS
    <3>4. u \in Thread /\ Halfway(u, o) /\ Head(todo[u]).frame = stream[o][i].frame
      BY <1>4, <2>6, <2>7, <3>1, <3>2, <3>3, PieceTypes DEF LastPiece
    <3>5. u # t
      BY <1>6, <2>2, <3>2, <3>4, <1>4
    <3>6. Halfway(u, o)' /\ todo'[u] = todo[u]
      BY <1>0, <1>5, <3>4, <3>5 DEF Halfway
    <3> QED BY <3>2, <3>3, <3>4, <3>6
  <2>13. WholeSoFar(o)'
    <3>1. ASSUME NEW i \in 1..(n + 1), FirstFor(o, i)'
          PROVE  stream'[o][i].part = "header"
      <4>1. CASE i = n + 1
        BY <2>2, <2>6, <2>10, <3>1, <4>1 DEF LastFor
      <4>2. CASE i \in 1..n
        BY <2>6, <2>7, <3>1, <4>2 DEF WholeSoFar
      <4> QED BY <2>18, <4>1, <4>2
    <3>2. ASSUME NEW i \in 1..(n + 1), NEW j \in 1..(n + 1), NextFor(o, j, i)'
          PROVE  \/ SameFrame(stream'[o][j], stream'[o][i])
                 \/ stream'[o][j].part = "body" /\ stream'[o][i].part = "header"
      <4>1. CASE i \in 1..n /\ j \in 1..n
        <5>1. NextFor(o, j, i)
          BY <2>6, <3>2, <4>1
        <5>2. stream'[o][i] = stream[o][i] /\ stream'[o][j] = stream[o][j]
          BY <2>6, <4>1
        <5>3. i \in DOMAIN stream[o] /\ j \in DOMAIN stream[o]
          BY <2>6, <4>1
        <5>4. \/ SameFrame(stream[o][j], stream[o][i])
              \/ stream[o][j].part = "body" /\ stream[o][i].part = "header"
          BY <2>7, <5>1, <5>3 DEF WholeSoFar
        <5> QED BY <5>2, <5>4
      <4>2. CASE i = n + 1 /\ j \in 1..n
        <5>1. LastFor(o, j) /\ p.to = o
          BY <2>6, <3>2, <4>2
        <5>2. PICK k \in 1..n : /\ LastFor(o, k) /\ stream[o][k].part = "header"
                                /\ stream[o][k].by = t /\ stream[o][k].frame = h.frame
          BY <2>2, <2>10, <5>1
        <5>3. j = k
          <6>1. ~(j < k) /\ ~(k < j)
            BY <2>5, <2>6, <4>2, <5>1, <5>2 DEF LastFor
          <6> QED BY <2>6, <4>2, <5>2, <6>1
        <5>4. stream'[o][j] = stream[o][k] /\ stream'[o][i] = p
          BY <2>6, <4>2, <5>2, <5>3
        <5> QED BY <2>2, <5>2, <5>4 DEF SameFrame
      <4> QED BY <2>6, <2>18, <3>2, <4>1, <4>2
    <3> QED BY <2>6, <3>1, <3>2 DEF WholeSoFar
  <2>14. ASSUME NEW u \in Thread
         PROVE  Started(u, o)'
    <3> SUFFICES ASSUME Halfway(u, o)', Head(todo'[u]).frame.kind \in Kept
                 PROVE  \E i \in DOMAIN stream'[o] :
                          /\ LastFor(o, i)' /\ stream'[o][i].part = "header"
                          /\ stream'[o][i].by = u /\ stream'[o][i].frame = Head(todo'[u]).frame
      BY DEF Started
    <3>1. u # t /\ Halfway(u, o) /\ todo'[u] = todo[u]
      BY <1>0, <2>8
    <3>2. h.to # o
      BY <2>9, <3>1
    <3>3. PICK i \in DOMAIN stream[o] :
            /\ LastFor(o, i) /\ stream[o][i].part = "header"
            /\ stream[o][i].by = u /\ stream[o][i].frame = Head(todo[u]).frame
      BY <2>7, <3>1 DEF Started
    <3>4. i \in 1..n /\ i \in DOMAIN stream'[o] /\ stream'[o][i] = stream[o][i]
      BY <2>6
    <3>5. LastFor(o, i)'
      BY <2>2, <2>6, <3>2, <3>3, <3>4
    <3> QED BY <3>1, <3>3, <3>4, <3>5
  <2>15. ASSUME NEW c \in Conn
         PROVE  KeptPieces(c)' /\ LastPiece(c)' /\ WholeSoFar(c)' /\ \A u \in Thread : Started(u, c)'
    <3>1. CASE c = o
      BY <2>11, <2>12, <2>13, <2>14, <3>1
    <3>2. CASE c # o
      BY <1>8, <2>4, <3>2
    <3> QED BY <3>1, <3>2
  <2> QED BY <1>0, <2>15, FramesPartsNext
<1> QED BY <1>9, <1>10

\* Frames stay whole.
LEMMA FramesStep ==
  ASSUME IInv, OpenDescriptors, QueuesFit, FramesUnderWay, OwnFramesWhole, [Next]_vars
  PROVE  FramesUnderWay' /\ OwnFramesWhole'
BY FramesKept, FramesQuiet, FrameStarts, FrameEnds, FrameFails

----------------------------------------------------------------------------
(* What Main has to say.                                                 *)

\* What Main is about changes by its own steps only, and it takes those when it
\* has nothing left to send.
LEMMA MainRests ==
  ASSUME IInv, [Next]_vars
  PROVE  \/ MainMoves /\ todo[Main] = <<>>
         \/ /\ pc'[Main] = pc[Main] /\ UNCHANGED <<cur, fd>>
            /\ todo'[Main] = todo[Main] \/ Sending(Main)
<1>0. /\ pc \in [Thread -> MainLabel \cup HandlerLabel] /\ Main \in Thread /\ Main \notin Conn
      /\ todo \in [Thread -> Seq(Step)]
  BY ServerConstants DEF IInv, TypeOK, Thread, MainLabel, HandlerLabel
<1>1. ASSUME NEW t \in Thread, Fills(t), t # Main
      PROVE  todo'[Main] = todo[Main]
  BY <1>0, <1>1, FillsEmpty
<1>2. ASSUME NEW t \in Thread, Sending(t)
      PROVE  todo'[Main] = todo[Main] \/ Sending(Main)
  BY <1>0, <1>2, SendingKeeps
<1>3. CASE Quiet
  <2>1. pc' = pc /\ UNCHANGED <<cur, fd>>
    BY <1>3, QuietKeepsRegistry DEF registry
  <2>2. ASSUME NEW c \in Conn, Say(c) \/ List(c) \/ BadLine(c) \/ \E n \in Wanted : Msg(c, n)
        PROVE  todo'[Main] = todo[Main]
    BY <1>0, <1>1, <2>2 DEF Fills, LineStep, Thread
  <2> QED BY <1>2, <1>3, <2>1, <2>2 DEF Quiet, RequestShutdown, vars
<1>4. CASE MainMoves
  BY <1>4 DEF MainMoves, Start, LoopTop, ReapCheck, ReapJoin, Idle, Accepting, Accept, Admit,
     Refuse, CloseRefused, MarkWelcomed, Spawn, ListVictims, Cut, JoinAll, At
<1>5. ASSUME NEW c \in Conn, HandlerMoves(c)
      PROVE  /\ pc'[Main] = pc[Main] /\ UNCHANGED <<cur, fd>>
             /\ todo'[Main] = todo[Main]
  <2>1. pc'[Main] = pc[Main] /\ UNCHANGED <<cur, fd>>
    BY <1>0, <1>5 DEF HandlerMoves, Nick, Line, Quit, Eof, Leave, Close, PeerCloses
  <2>2. CASE Fills(c)
    BY <1>0, <1>1, <2>1, <2>2 DEF Thread
  <2>3. CASE UNCHANGED todo
    BY <2>1, <2>3
  <2> QED BY <1>5, <2>1, <2>2, <2>3 DEF HandlerMoves, Fills, LineStep, Eof, Close, PeerCloses
<1> QED BY <1>3, <1>4, <1>5, NextCases

\* Thread t adds the piece p to what c has been sent.
Gains(c, t, p) ==
  /\ \/ PutHeader(t) /\ p = Piece(t, "header")
     \/ PutBody(t) /\ p = Piece(t, "body")
  /\ owner[Head(todo[t]).fd] = c /\ peer[c] = "up" /\ Head(todo[t]).frame.kind \in Kept
  /\ stream'[c] = Append(stream[c], p)

\* A step of sending adds at most one piece to the stream of a connection: a
\* header or a body of the frame at the head of the queue of its thread.
LEMMA StreamGains ==
  ASSUME IInv, [Next]_vars, NEW c \in Conn
  PROVE  stream'[c] = stream[c] \/ \E t \in Thread : \E p : Gains(c, t, p)
<1>1. ASSUME NEW t \in Thread, NEW part \in {"header", "body"},
             \/ PutHeader(t) /\ part = "header"
             \/ PutBody(t) /\ part = "body"
      PROVE  stream'[c] = stream[c] \/ Gains(c, t, Piece(t, part))
  <2>1. stream' = Extended(t, part) /\ Alive(Target(t))
    BY <1>1 DEF PutHeader, PutBody
  <2>2. CASE Head(todo[t]).frame.kind \notin Kept \/ Target(t) # c
    <3>1. stream'[c] = stream[c]
      BY <2>1, <2>2 DEF Extended, IInv, TypeOK
    <3> QED BY <3>1
  <2>3. CASE Head(todo[t]).frame.kind \in Kept /\ Target(t) = c
    <3>1. PICK p : p = Piece(t, part)
      OBVIOUS
    <3>2. stream' = [stream EXCEPT ![c] = Append(@, p)]
      BY <2>1, <2>3, <3>1 DEF Extended
    <3>3. stream'[c] = Append(stream[c], p)
      BY <3>2 DEF IInv, TypeOK
    <3>4. owner[Head(todo[t]).fd] = c /\ peer[c] = "up"
      BY <2>1, <2>3 DEF Target, Alive
    <3>5. Gains(c, t, p)
      BY <1>1, <2>3, <3>1, <3>3, <3>4 DEF Gains
    <3> QED BY <3>1, <3>5
  <2> QED BY <2>2, <2>3
<1>2. CASE UNCHANGED stream
  BY <1>2
<1>3. ASSUME NEW t \in Thread, Sending(t)
      PROVE  UNCHANGED stream \/ PutHeader(t) \/ PutBody(t)
  BY <1>3 DEF Sending, Snapshot, Lookup, PutFails
<1>4. ASSUME NEW t \in Thread, PutHeader(t) \/ PutBody(t)
      PROVE  stream'[c] = stream[c] \/ \E u \in Thread : \E p : Gains(c, u, p)
  <2>1. CASE PutHeader(t)
    <3>1. stream'[c] = stream[c] \/ Gains(c, t, Piece(t, "header"))
      BY <1>1, <2>1
    <3> QED BY <3>1
  <2>2. CASE PutBody(t)
    <3>1. stream'[c] = stream[c] \/ Gains(c, t, Piece(t, "body"))
      BY <1>1, <2>2
    <3> QED BY <3>1
  <2> QED BY <1>4, <2>1, <2>2
<1> QED BY <1>2, <1>3, <1>4, StreamsChange

\* What has been sent stays sent.
LEMMA StreamGrows ==
  ASSUME IInv, [Next]_vars, NEW c \in Conn, NEW i \in DOMAIN stream[c]
  PROVE  i \in DOMAIN stream'[c] /\ stream'[c][i] = stream[c][i]
<1>1. CASE stream'[c] = stream[c]
  BY <1>1
<1>2. ASSUME NEW p, stream'[c] = Append(stream[c], p)
      PROVE  i \in DOMAIN stream'[c] /\ stream'[c][i] = stream[c][i]
  <2>1. PICK n : n = Len(stream[c])
    OBVIOUS
  <2>2. Longer(c, p, n)
    BY <1>2, <2>1, LongerStream DEF IInv
  <2> QED BY <2>2 DEF Longer
<1> QED BY <1>1, <1>2, StreamGains DEF Gains

\* What is known of the head of a queue.
LEMMA HeadFits ==
  ASSUME IInv, QueuesFit, NEW t \in Thread, todo[t] # <<>>
  PROVE  /\ Head(todo[t]) \in Step /\ StepFits(t, Head(todo[t]))
         /\ 1 \in DOMAIN todo[t] /\ Head(todo[t]) = todo[t][1]
<1>1. todo[t] \in Seq(Step)
  BY DEF IInv, TypeOK
<1>2. 1 \in DOMAIN todo[t] /\ Head(todo[t]) = todo[t][1] /\ Head(todo[t]) \in Step
  BY <1>1
<1> QED BY <1>2 DEF QueuesFit

\* A thread writes to whoever has the descriptor now: if that is not the client
\* the frame is for, that client has closed and had the same descriptor.
LEMMA RestIsStaleStep ==
  ASSUME IInv, OpenDescriptors, HeldUntilClosed, QueuesFit, FramesUnderWay, RestIsStale,
         [Next]_vars
  PROVE  RestIsStale'
<1> SUFFICES ASSUME NEW c \in Conn, NEW i \in DOMAIN stream'[c]
             PROVE  Meant(c, i)' \/ Stale(c, i)'
  BY DEF RestIsStale
<1>1. ASSUME i \in DOMAIN stream[c], stream'[c][i] = stream[c][i]
      PROVE  Meant(c, i)' \/ Stale(c, i)'
  <2>1. CASE Meant(c, i)
    BY <1>1, <2>1 DEF Meant
  <2>2. CASE Stale(c, i)
    <3>1. PICK d \in Conn \ {c} : d = stream[c][i].to /\ peer[d] = "closed" /\ fd[d] = fd[c]
      BY <2>2 DEF Stale
    <3>2. peer[c] # "idle"
      BY <1>1 DEF FramesUnderWay
    <3>3. fd'[c] = fd[c] /\ fd'[d] = fd[d] /\ peer'[d] = "closed"
      BY <3>1, <3>2, DescriptorKept
    <3> QED BY <1>1, <3>1, <3>3 DEF Stale
  <2> QED BY <1>1, <2>1, <2>2 DEF RestIsStale
<1>2. ASSUME NEW t \in Thread, NEW p, Gains(c, t, p)
      PROVE  Meant(c, i)' \/ Stale(c, i)'
  <2>1. PICK n : n = Len(stream[c])
    OBVIOUS
  <2>2. Longer(c, p, n)
    BY <1>2, <2>1, LongerStream DEF IInv, Gains
  <2>3. CASE i \in 1..n
    BY <1>1, <2>2, <2>3 DEF Longer
  <2>4. CASE i = n + 1
    <3>1. PICK h : h = Head(todo[t])
      OBVIOUS
    <3>2. /\ h.op = "put" /\ todo[t] # <<>> /\ owner[h.fd] = c /\ UNCHANGED <<fd, peer>>
          /\ p.to = h.to
      BY <1>2, <3>1 DEF Gains, PutHeader, PutBody, Doing, Piece
    <3>3. h.fd \in FD /\ h.to \in Conn /\ fd[h.to] = h.fd /\ peer[h.to] # "idle"
      BY <3>1, <3>2, HeadFits, ServerConstants DEF StepFits
    <3>4. fd[c] = h.fd
      BY <3>2, <3>3, ServerConstants DEF OpenDescriptors
    <3>5. h.to # c => peer[h.to] = "closed"
      BY <3>2, <3>3 DEF HeldUntilClosed, IInv, TypeOK
    <3>6. stream'[c][i] = p
      BY <2>2, <2>4 DEF Longer
    <3> QED BY <3>2, <3>3, <3>4, <3>5, <3>6 DEF Meant, Stale
  <2> QED BY <2>2, <2>3, <2>4 DEF Longer
<1>3. CASE stream'[c] = stream[c]
  BY <1>1, <1>3
<1> QED BY <1>2, <1>3, StreamGains

----------------------------------------------------------------------------
(* The greeting is queued first.                                         *)

\* Main is greeting or refusing a client: it has just begun to, or was before.
LEMMA GreetingMain ==
  ASSUME IInv, [Next]_vars, pc'[Main] \in {"welcome", "refused"}
  PROVE  \/ Admit \/ Refuse
         \/ /\ pc'[Main] = pc[Main] /\ UNCHANGED <<cur, fd>>
            /\ todo'[Main] = todo[Main] \/ Sending(Main)
<1> USE DEF IInv, TypeOK, Thread
<1>1. CASE MainMoves
  <2>1. CASE Start \/ LoopTop \/ ReapCheck
    BY <2>1, RoundMoves
  <2>2. CASE ReapJoin \/ Idle \/ Accepting \/ CloseRefused \/ MarkWelcomed \/ ListVictims \/ JoinAll
    BY <2>2 DEF ReapJoin, Idle, Accepting, Accept, CloseRefused, MarkWelcomed, ListVictims, JoinAll
  <2>3. CASE Spawn
    <3>1. cur.conn # Main /\ pc'[Main] = "loop"
      BY <2>3, ServerConstants DEF Spawn, At, DescriptorsHeld
    <3> QED BY <3>1
  <2>4. ASSUME NEW f \in FD, Cut(f) PROVE FALSE
    BY <2>4 DEF Cut, At
  <2> QED BY <1>1, <2>1, <2>2, <2>3, <2>4 DEF MainMoves
<1> QED BY <1>1, MainRests

\* What Main has queued while it greets or refuses a client is the greeting.
LEMMA GreetingsQueuedStep ==
  ASSUME IInv, GreetingsQueued, [Next]_vars
  PROVE  GreetingsQueued'
<1> SUFFICES ASSUME pc'[Main] \in {"welcome", "refused"}, NEW i \in DOMAIN todo'[Main]
             PROVE  LET s == todo'[Main][i] IN
                    /\ s.frame.kind \in Greeting /\ s.to = cur'.conn /\ s.fd = fd'[cur'.conn]
                    /\ s.op \in {"send", "put"}
  BY DEF GreetingsQueued
<1>0. Main \in Thread /\ TypeOK
  BY DEF Thread, IInv
<1>1. CASE Admit
  <2>1. PICK n \in Name :
          /\ todo' = [todo EXCEPT ![Main] = <<SendTo(fd[cur.conn], cur.conn, F("WELCOME", n))>>]
          /\ cur' = [cur EXCEPT !.nick = n]
    BY <1>1 DEF Admit
  <2>2. PICK s : s = SendTo(fd[cur.conn], cur.conn, F("WELCOME", n))
    OBVIOUS
  <2>5. todo' = [todo EXCEPT ![Main] = <<s>>]
    BY <2>1, <2>2
  <2>6. \A k \in DOMAIN todo'[Main] : todo'[Main][k] \in {s, s}
    BY <1>0, <2>5, Filled
  <2>3. todo'[Main][i] = s
    BY <2>6
  <2>4. fd' = fd /\ cur'.conn = cur.conn
    BY <1>0, <1>1, <2>1 DEF Admit, TypeOK
  <2> QED BY <2>2, <2>3, <2>4 DEF SendTo, F, Greeting
<1>2. CASE Refuse
  <2>1. PICK s : s = Put(fd[cur.conn], NoConn, cur.conn, F("FULL", NoName))
    OBVIOUS
  <2>2. todo' = [todo EXCEPT ![Main] = <<s>>] /\ UNCHANGED <<cur, fd>>
    BY <1>2, <2>1 DEF Refuse
  <2>4. \A k \in DOMAIN todo'[Main] : todo'[Main][k] \in {s, s}
    BY <1>0, <2>2, Filled
  <2>3. todo'[Main][i] = s
    BY <2>4
  <2> QED BY <2>1, <2>2, <2>3 DEF Put, F, Greeting
<1>3. CASE pc'[Main] = pc[Main] /\ UNCHANGED <<cur, fd>>
  <2>1. ASSUME NEW j \in DOMAIN todo[Main]
        PROVE  /\ todo[Main][j].frame.kind \in Greeting /\ todo[Main][j].to = cur.conn
               /\ todo[Main][j].fd = fd[cur.conn] /\ todo[Main][j].op \in {"send", "put"}
    BY <1>3 DEF GreetingsQueued
  <2>2. CASE \E j \in DOMAIN todo[Main] : todo'[Main][i] = todo[Main][j]
    BY <1>3, <2>1, <2>2
  <2>3. CASE Sending(Main) /\ ~(\E j \in DOMAIN todo[Main] : todo'[Main][i] = todo[Main][j])
    <3>1. PICK h : h = Head(todo[Main])
      OBVIOUS
    <3>2. /\ h.frame.kind \in Greeting /\ h.to = cur.conn /\ h.fd = fd[cur.conn]
          /\ h.op \in {"send", "put"}
      BY <1>0, <2>1, <2>3, <3>1, SendingKeeps
    <3>3. ~Snapshot(Main)
      BY <3>1, <3>2 DEF Snapshot, Doing
    <3>4. todo'[Main][i] = Put(h.fd, clients[h.fd].lock, h.to, h.frame)
      BY <1>0, <2>3, <3>1, <3>3, SendingQueue
    <3>5. PICK s : s = Put(h.fd, clients[h.fd].lock, h.to, h.frame)
      OBVIOUS
    <3>6. s.frame = h.frame /\ s.to = h.to /\ s.fd = h.fd /\ s.op = "put"
      BY <3>5 DEF Put
    <3> QED BY <1>3, <3>2, <3>4, <3>5, <3>6
  <2>4. CASE todo'[Main] = todo[Main]
    BY <2>2, <2>4
  <2>5. todo'[Main] = todo[Main] \/ Sending(Main) \/ (MainMoves /\ todo[Main] = <<>>)
    BY MainRests
  <2>6. CASE MainMoves /\ ~Admit /\ ~Refuse
    BY <2>2, <2>3, <2>4, <2>6, GreetingMain
  <2> QED BY <1>1, <1>2, <2>2, <2>3, <2>4, <2>5, <2>6
<1> QED BY <1>1, <1>2, <1>3, GreetingMain

\* A connection leaves "idle" when Main accepts it.
LEMMA AcceptedNow ==
  ASSUME IInv, OpenDescriptors, [Next]_vars, NEW c \in Conn, peer[c] = "idle", peer'[c] # "idle"
  PROVE  pc'[Main] = "admit" /\ cur'.conn = c
<1> USE DEF IInv, TypeOK, Thread
<1>1. CASE UNCHANGED peer
  BY <1>1
<1>2. ASSUME NEW d \in Conn, Accept(d)
      PROVE  pc'[Main] = "admit" /\ cur'.conn = c
  BY <1>2 DEF Accept
<1>3. CASE CloseRefused
  BY <1>3 DEF CloseRefused, At, DescriptorsHeld
<1>4. ASSUME NEW d \in Conn, Close(d) PROVE FALSE
  <2>1. pc[d] # "unborn" /\ peer' = [peer EXCEPT ![d] = "closed"]
    BY <1>4 DEF Close, At
  <2> QED BY <2>1 DEF DescriptorsHeld
<1>5. ASSUME NEW f \in FD, Cut(f) PROVE FALSE
  <2>1. peer' = IF owner[f] = NoConn THEN peer ELSE [peer EXCEPT ![owner[f]] = "shut"]
    BY <1>5 DEF Cut
  <2> QED BY <1>5, <2>1 DEF OpenDescriptors
<1>6. ASSUME NEW d \in Conn, PeerCloses(d) PROVE FALSE
  BY <1>6 DEF PeerCloses
<1>7. CASE Quiet
  BY <1>1, <1>7, QuietKeepsRegistry DEF registry
<1>8. CASE MainMoves
  <2>1. CASE Start \/ LoopTop \/ ReapCheck
    BY <1>1, <2>1, RoundMoves
  <2>2. CASE ReapJoin \/ Idle \/ Admit \/ Refuse \/ MarkWelcomed \/ Spawn \/ ListVictims \/ JoinAll
    BY <1>1, <2>2 DEF ReapJoin, Idle, Admit, Refuse, MarkWelcomed, Spawn, ListVictims, JoinAll
  <2> QED BY <1>2, <1>3, <1>5, <1>8, <2>1, <2>2 DEF MainMoves, Accepting
<1>9. ASSUME NEW d \in Conn, HandlerMoves(d)
      PROVE  FALSE
  <2>1. CASE \E n \in Wanted : Nick(d, n)
    BY <1>1, <2>1, NickMoves
  <2>2. CASE Quit(d) \/ Eof(d) \/ Leave(d)
    BY <2>2 DEF Quit, Eof, Leave
  <2> QED BY <1>4, <1>6, <1>9, <2>1, <2>2 DEF HandlerMoves
<1> QED BY <1>7, <1>8, <1>9, NextCases

\* Whom Main is greeting: it goes on to, or the greeting is written, or the
\* client is gone.
LEMMA ToGreetStep ==
  ASSUME IInv, OpenDescriptors, QueuesFit, GreetingsQueued, Greeting \subseteq Kept, [Next]_vars,
         NEW c \in Conn, ToGreet(c), stream'[c] = stream[c], peer'[c] = "up"
  PROVE  ToGreet(c)'
<1>0. /\ TypeOK /\ Labels /\ DescriptorsHeld /\ RegistryMatches /\ Main \in Thread
      /\ todo \in [Thread -> Seq(Step)]
  BY DEF IInv, TypeOK, Thread
<1>1. CASE peer[c] = "idle"
  BY <1>1, AcceptedNow DEF ToGreet, Admitting
<1>2. CASE peer[c] # "idle"
  <2>1. Admitting(c) /\ (pc[Main] = "welcome" => todo[Main] # <<>>)
    BY <1>2 DEF ToGreet
  <2>2. peer[c] = "up"
    BY <1>2, PeerMoves
  <2>3. fd[c] \in FD /\ owner[fd[c]] = c /\ cur.conn = c
    BY <1>0, <2>1 DEF DescriptorsHeld, Admitting
  <2>4. CASE pc'[Main] = pc[Main] /\ UNCHANGED <<cur, fd>> /\ todo'[Main] = todo[Main]
    BY <2>1, <2>4 DEF ToGreet, Admitting
  <2>5. CASE Sending(Main)
    <3>1. UNCHANGED <<pc, cur, peer>> /\ todo[Main] # <<>>
      BY <1>0, <2>5, SendingKeeps
    <3>2. Admitting(c)'
      BY <2>1, <3>1 DEF Admitting
    <3>3. ASSUME pc[Main] = "welcome" PROVE todo'[Main] # <<>>
      <4>1. PICK h : h = Head(todo[Main])
        OBVIOUS
      <4>2. /\ h.frame.kind \in Greeting /\ h.to = c /\ h.fd = fd[c] /\ h.op \in {"send", "put"}
        BY <1>0, <2>3, <2>5, <3>3, <4>1, SendingKeeps DEF GreetingsQueued
      <4>3. ~Snapshot(Main)
        BY <4>1, <4>2 DEF Snapshot, Doing
      <4>4. CASE Lookup(Main)
        <5>1. fd[c] \in Registered
          BY <1>0, <2>3, <3>3 DEF RegistryMatches, Seated, Joining
        <5>2. \E i \in DOMAIN todo'[Main] : TRUE
          BY <1>0, <4>1, <4>2, <4>4, <5>1, LookupQueue
        <5> QED BY <5>2
      <4>5. CASE PutHeader(Main)
        BY <3>1, <4>5 DEF PutHeader
      <4>6. ~PutFails(Main)
        BY <2>2, <2>3, <4>1, <4>2, ServerConstants DEF PutFails, Target, Alive, TooLarge, Greeting
      <4>7. ~PutBody(Main)
        <5> SUFFICES ASSUME PutBody(Main) PROVE FALSE
          OBVIOUS
        <5>1. stream' = [stream EXCEPT ![c] = Append(@, Piece(Main, "body"))]
          BY <2>3, <4>1, <4>2 DEF PutBody, Extended, Target
        <5>2. PICK p : p = Piece(Main, "body")
          OBVIOUS
        <5>3. stream'[c] = Append(stream[c], p)
          BY <1>0, <5>1, <5>2 DEF TypeOK
        <5>4. PICK n : n = Len(stream[c])
          OBVIOUS
        <5>5. Longer(c, p, n)
          BY <1>0, <5>3, <5>4, LongerStream
        <5>6. n \in Nat /\ 1..n = 1..(n + 1)
          BY <5>5 DEF Longer
        <5> QED BY <5>6
      <4> QED BY <2>5, <4>3, <4>4, <4>5, <4>6, <4>7 DEF Sending
    <3> QED BY <3>1, <3>2, <3>3 DEF ToGreet
  <2>6. CASE MainMoves /\ todo[Main] = <<>>
    <3>1. pc[Main] # "welcome"
      BY <2>1, <2>6
    <3>2. CASE Admit
      <4>1. PICK n \in Name :
              /\ todo' = [todo EXCEPT ![Main] = <<SendTo(fd[cur.conn], cur.conn, F("WELCOME", n))>>]
              /\ cur' = [cur EXCEPT !.nick = n]
        BY <3>2 DEF Admit
      <4>2. todo'[Main] # <<>>
        BY <1>0, <4>1
      <4>3. cur'.conn = c /\ pc'[Main] = "welcome"
        BY <1>0, <2>3, <3>2, <4>1 DEF Admit, TypeOK
      <4> QED BY <4>2, <4>3 DEF ToGreet, Admitting
    <3>3. CASE Refuse
      BY <1>0, <2>3, <3>3 DEF Refuse, ToGreet, Admitting, TypeOK
    <3>4. ~CloseRefused
      <4> SUFFICES ASSUME CloseRefused PROVE FALSE
        OBVIOUS
      <4>1. peer'[c] = "closed"
        BY <1>0, <2>3 DEF CloseRefused, TypeOK
      <4> QED BY <4>1
    <3>5. pc[Main] \in {"admit", "refused"}
      BY <2>1, <3>1 DEF Admitting
    <3>6. ~(Start \/ LoopTop \/ ReapCheck)
      BY <3>5, RoundMoves
    <3>7. ~(ReapJoin \/ Idle \/ Accepting \/ MarkWelcomed \/ Spawn \/ ListVictims \/ JoinAll \/ \E f \in FD : Cut(f))
      BY <3>5 DEF ReapJoin, Idle, Accepting, Accept, MarkWelcomed, Spawn, ListVictims, JoinAll, Cut, At
    <3> QED BY <2>6, <3>2, <3>3, <3>4, <3>6, <3>7 DEF MainMoves
  <2> QED BY <2>4, <2>5, <2>6, MainRests
<1> QED BY <1>1, <1>2

\* Nobody hears anything meant for it before its greeting.
LEMMA GreetingsStep ==
  ASSUME IInv, IInv', OpenDescriptors, QueuesFit, GreetingsFirst, [Next]_vars
  PROVE  GreetingsFirst'
<1>0. GreetingsQueued' /\ GreetingsQueued /\ TypeOK /\ TypeOK' /\ DescriptorsHeld
  BY GreetingsQueuedStep DEF GreetingsFirst, IInv
<1> SUFFICES ASSUME Greeting \subseteq Kept, NEW c \in Conn
             PROVE  GreetedOrSilent(c)'
  BY <1>0 DEF GreetingsFirst
<1>1. GreetedOrSilent(c)
  BY DEF GreetingsFirst
<1>2. CASE stream'[c] = stream[c]
  <2>1. Greeted(c)' <=> Greeted(c)
    BY <1>2, SameStream DEF Greeted
  <2>2. Silent(c)' <=> Silent(c)
    BY <1>2, SameStream DEF Silent
  <2>3. CASE Silent(c) /\ ToGreet(c)
    <3>1. CASE peer'[c] = "up"
      BY <1>0, <1>2, <2>2, <2>3, <3>1, ToGreetStep DEF GreetedOrSilent
    <3>2. CASE peer'[c] = "idle"
      BY <2>2, <2>3, <3>2 DEF GreetedOrSilent, ToGreet
    <3>3. CASE peer'[c] \notin {"up", "idle"}
      BY <1>0, <2>2, <2>3, <3>3 DEF GreetedOrSilent, TypeOK
    <3> QED BY <3>1, <3>2, <3>3
  <2>4. CASE Silent(c) /\ peer[c] \in {"gone", "shut", "closed"}
    <3>1. peer'[c] \in {"gone", "shut", "closed"}
      BY <1>0, <2>4, PeerMoves, AdmissionMoves DEF TypeOK
    <3> QED BY <2>2, <2>4, <3>1 DEF GreetedOrSilent
  <2> QED BY <1>1, <2>1, <2>3, <2>4 DEF GreetedOrSilent
<1>3. ASSUME NEW t \in Thread, NEW p, Gains(c, t, p)
      PROVE  GreetedOrSilent(c)'
  <2>1. PICK h : h = Head(todo[t])
    OBVIOUS
  <2>2. /\ p.to = h.to /\ p.frame = h.frame /\ owner[h.fd] = c /\ peer[c] = "up"
        /\ h.op = "put" /\ todo[t] # <<>> /\ Sending(t) /\ stream'[c] = Append(stream[c], p)
    BY <1>3, <2>1 DEF Gains, Piece, PutHeader, PutBody, Doing, Sending
  <2>3. PICK n : n = Len(stream[c])
    OBVIOUS
  <2>4. Longer(c, p, n)
    BY <1>0, <2>2, <2>3, LongerStream
  <2>5. /\ n \in Nat /\ DOMAIN stream[c] = 1..n /\ DOMAIN stream'[c] = 1..(n + 1)
        /\ stream'[c][n + 1] = p /\ \A i \in 1..n : stream'[c][i] = stream[c][i]
        /\ \A i \in 1..n : (Meant(c, i)' <=> Meant(c, i)) /\ (FirstFor(c, i)' <=> FirstFor(c, i))
        /\ FirstFor(c, n + 1)' <=> p.to = c /\ \A j \in 1..n : ~Meant(c, j)
        /\ n + 1 \in 1..(n + 1) /\ \A i \in 1..n : i \in 1..(n + 1)
        /\ \A i \in 1..(n + 1) : i \in 1..n \/ i = n + 1
    BY <2>4 DEF Longer
  <2>6. CASE Greeted(c)
    BY <2>5, <2>6 DEF Greeted, GreetedOrSilent
  <2>7. CASE Silent(c) /\ ToGreet(c)
    <3>1. Admitting(c) /\ (pc[Main] = "welcome" => todo[Main] # <<>>)
      BY <2>2, <2>7 DEF ToGreet
    <3>2. UNCHANGED <<pc, cur, peer, fd>> /\ \A u \in Thread \ {t} : todo'[u] = todo[u]
      BY <2>2, SendingKeeps
    <3>3. CASE h.to = c
      <4>1. StepFits(t, h) /\ c # NoConn
        BY <2>1, <2>2, HeadFits, ServerConstants
      <4>2. t = Main /\ pc[Main] \in {"welcome", "refused"}
        BY <3>1, <3>3, <4>1 DEF StepFits, Admitting
      <4>3. h.frame.kind \in Greeting
        BY <1>0, <2>1, <2>2, <4>2, HeadFits DEF GreetingsQueued
      <4>4. FirstFor(c, n + 1)' /\ stream'[c][n + 1].frame.kind \in Greeting
        BY <2>2, <2>5, <2>7, <3>3, <4>3 DEF Silent
      <4> QED BY <2>5, <4>4 DEF GreetedOrSilent, Greeted
    <3>4. CASE h.to # c
      <4>1. Silent(c)'
        BY <2>2, <2>5, <2>7, <3>4 DEF Silent, Meant
      <4>2. ASSUME pc[Main] = "welcome" PROVE t # Main
        <5>1. Main \in Thread /\ cur.conn = c
          BY <3>1 DEF Thread, Admitting
        <5>2. t = Main => h.to = c
          BY <1>0, <2>1, <2>2, <4>2, <5>1, HeadFits DEF GreetingsQueued
        <5> QED BY <3>4, <5>2
      <4>3. ToGreet(c)'
        BY <3>1, <3>2, <4>2 DEF ToGreet, Admitting, Thread
      <4> QED BY <4>1, <4>3 DEF GreetedOrSilent
    <3> QED BY <3>3, <3>4
  <2> QED BY <1>1, <2>2, <2>6, <2>7 DEF GreetedOrSilent
<1> QED BY <1>2, <1>3, StreamGains

----------------------------------------------------------------------------
(* The goodbye is said before the sockets are cut.                       *)

\* Main is shutting down: it has just begun to, has just listed whom to cut, or
\* was shutting down before.
LEMMA GoodbyeMain ==
  ASSUME IInv, [Next]_vars, pc'[Main] \in {"bye", "cut"}
  PROVE  /\ ~Admit
         /\ \/ LoopTop /\ pc'[Main] = "bye" /\ todo'[Main] = <<Bcast(F("BYE", NoName), NoFd)>>
            \/ todo[Main] = <<>> /\ pc[Main] \in {"bye", "cut"}
            \/ pc'[Main] = pc[Main] /\ (todo'[Main] = todo[Main] \/ Sending(Main))
<1> USE DEF IInv, TypeOK, Thread
<1>1. CASE MainMoves /\ todo[Main] = <<>>
  <2>1. CASE Start \/ ReapCheck
    <3>1. /\ pc[Main] \in {"setup", "reap"} /\ Main \in Thread
          /\ \/ UNCHANGED pc
             \/ \E where \in {"loop", "ready", "join"} : pc' = [pc EXCEPT ![Main] = where]
      BY <2>1 DEF Start, ReapCheck, At
    <3> QED BY <3>1
  <2>2. CASE LoopTop
    <3>1. /\ todo \in [Thread -> Seq(Step)] /\ Main \in Thread /\ pc[Main] = "loop" /\ ~Admit
          /\ \/ pc' = [pc EXCEPT ![Main] = "reap"]
             \/ /\ pc' = [pc EXCEPT ![Main] = "bye"]
                /\ todo' = [todo EXCEPT ![Main] = <<Bcast(F("BYE", NoName), NoFd)>>]
      BY <2>2 DEF LoopTop, Admit, At
    <3> QED BY <2>2, <3>1
  <2>3. CASE ReapJoin \/ Idle \/ Accepting \/ Admit \/ Refuse \/ CloseRefused \/ MarkWelcomed
    BY <2>3 DEF ReapJoin, Idle, Accepting, Accept, Admit, Refuse, CloseRefused, MarkWelcomed
  <2>4. CASE JoinAll
    BY <2>4 DEF JoinAll
  <2>5. CASE Spawn
    <3>1. cur.conn # Main /\ pc'[Main] = "loop"
      BY <2>5, ServerConstants DEF Spawn, At, DescriptorsHeld
    <3> QED BY <3>1
  <2>6. CASE ListVictims \/ \E f \in FD : Cut(f)
    <3>1. pc[Main] \in {"bye", "cut"}
      BY <2>6 DEF ListVictims, Cut, At
    <3> QED BY <1>1, <3>1 DEF Admit, At
  <2> QED BY <1>1, <2>1, <2>2, <2>3, <2>4, <2>5, <2>6 DEF MainMoves
<1>2. CASE pc'[Main] = pc[Main] /\ (todo'[Main] = todo[Main] \/ Sending(Main))
  BY <1>2 DEF Admit, At
<1> QED BY <1>1, <1>2, MainRests

\* Whoever is still registered has the descriptor it was registered with.
LEMMA RegisteredBefore ==
  ASSUME IInv, IInv', [Next]_vars, ~Admit, NEW f \in DOMAIN clients'
  PROVE  f \in Registered /\ owner'[f] = owner[f] /\ owner[f] \in Conn
<1>1. f \in Registered /\ clients'[f].lock = clients[f].lock
  <2>1. CASE UNCHANGED clients
    BY <2>1 DEF Registered
  <2>2. ASSUME NEW c \in Conn, NEW n \in Wanted, Nick(c, n)
        PROVE  f \in Registered /\ clients'[f].lock = clients[f].lock
    BY <2>2, NickRenames DEF Registered
  <2>3. CASE MarkWelcomed
    <3>1. clients' = [clients EXCEPT ![fd[cur.conn]].welcomed = TRUE]
      BY <2>3 DEF MarkWelcomed
    <3>2. f \in Registered /\ clients[f] \in ClientRecord
      BY <3>1 DEF IInv, TypeOK, Registered
    <3>3. clients'[f] = clients[f] \/ clients'[f] = [clients[f] EXCEPT !.welcomed = TRUE]
      BY <3>1, <3>2 DEF IInv, TypeOK
    <3> QED BY <3>2, <3>3 DEF ClientRecord
  <2>4. ASSUME NEW c \in Conn, Leave(c)
        PROVE  f \in Registered /\ clients'[f].lock = clients[f].lock
    BY <2>4 DEF Leave, Registered
  <2> QED BY <2>1, <2>2, <2>3, <2>4, ClientsChange
<1>2. owner[f] \in Conn /\ clients[f].lock = owner[f]
  BY <1>1, RegisteredIsOwned
<1>3. clients'[f].lock = owner'[f]
  <2>1. clients'[f].lock \in Seated' /\ fd'[clients'[f].lock] = f
    BY DEF IInv, RegistryMatches, Registered
  <2> QED BY <2>1 DEF IInv, DescriptorsHeld, Seated, Joining
<1> QED BY <1>1, <1>2, <1>3

\* While shutdown_all runs, whoever is registered was told goodbye, or is still
\* to be told.
LEMMA GoodbyesStep ==
  ASSUME IInv, IInv', OpenDescriptors, QueuesFit, WelcomedInTime, GoodbyesSaid, [Next]_vars
  PROVE  GoodbyesSaid'
<1> SUFFICES ASSUME pc'[Main] \in {"bye", "cut"}, "BYE" \in Kept, NEW f \in DOMAIN clients'
             PROVE  Told(f)' \/ (pc'[Main] = "bye" /\ ToTell(f)')
  BY DEF GoodbyesSaid, Registered
<1>0. Main \in Thread /\ todo \in [Thread -> Seq(Step)]
  BY DEF Thread, IInv, TypeOK
<1>1. f \in Registered /\ owner'[f] = owner[f] /\ owner[f] \in Conn
  BY GoodbyeMain, RegisteredBefore
<1>2. ASSUME Told(f) PROVE Told(f)'
  <2> SUFFICES ASSUME Alive(owner[f])'
               PROVE  \E i \in DOMAIN stream'[owner'[f]] :
                        /\ stream'[owner'[f]][i].frame.kind = "BYE"
                        /\ stream'[owner'[f]][i].part = "body"
    BY DEF Told
  <2>1. PICK o \in Conn : o = owner[f] /\ o = owner'[f]
    BY <1>1
  <2>2. peer'[o] = "up" /\ peer[o] # "idle"
    BY <1>1, <2>1, RegisteredIsOwned DEF Alive
  <2>3. Alive(owner[f])
    BY <2>1, <2>2, PeerMoves, ServerConstants DEF Alive
  <2>4. PICK i \in DOMAIN stream[o] : stream[o][i].frame.kind = "BYE" /\ stream[o][i].part = "body"
    BY <1>2, <2>1, <2>3 DEF Told
  <2>5. i \in DOMAIN stream'[o] /\ stream'[o][i] = stream[o][i]
    BY <2>1, <2>4, StreamGrows
  <2> QED BY <2>1, <2>4, <2>5
<1>3. CASE LoopTop /\ pc'[Main] = "bye" /\ todo'[Main] = <<Bcast(F("BYE", NoName), NoFd)>>
  <2>1. PICK s : s = Bcast(F("BYE", NoName), NoFd)
    OBVIOUS
  <2>2. s.frame.kind = "BYE" /\ s.op = "bcast" /\ s.fd = NoFd
    BY <2>1 DEF Bcast, F
  <2>3. 1 \in DOMAIN todo'[Main] /\ todo'[Main][1] = s
    BY <1>3, <2>1
  <2>4. ToTell(f)'
    BY <2>2, <2>3 DEF ToTell
  <2> QED BY <1>3, <2>4
<1>4. CASE todo[Main] = <<>> /\ pc[Main] \in {"bye", "cut"}
  <2>1. ~ToTell(f)
    BY <1>4 DEF ToTell
  <2> QED BY <1>1, <1>2, <1>4, <2>1 DEF GoodbyesSaid
<1>5. CASE pc'[Main] = pc[Main] /\ (todo'[Main] = todo[Main] \/ Sending(Main))
  <2>1. Told(f) \/ (pc[Main] = "bye" /\ ToTell(f))
    BY <1>1, <1>5 DEF GoodbyesSaid
  <2>2. CASE pc[Main] = "bye" /\ ToTell(f) /\ todo'[Main] = todo[Main]
    BY <1>5, <2>2 DEF ToTell
  <2>3. ASSUME pc[Main] = "bye", ToTell(f), Sending(Main)
        PROVE  Told(f)' \/ (pc'[Main] = "bye" /\ ToTell(f)')
    <3>1. PICK i \in DOMAIN todo[Main] :
            /\ todo[Main][i].frame.kind = "BYE"
            /\ \/ todo[Main][i].op = "bcast" /\ todo[Main][i].fd = NoFd
               \/ todo[Main][i].op = "put" /\ todo[Main][i].fd = f
      BY <2>3 DEF ToTell
    <3>2. CASE \E k \in DOMAIN todo'[Main] : todo'[Main][k] = todo[Main][i]
      BY <1>5, <2>3, <3>1, <3>2 DEF ToTell
    <3>3. CASE ~ \E k \in DOMAIN todo'[Main] : todo'[Main][k] = todo[Main][i]
      <4>1. ~(i > 1) /\ todo'[Main] # todo[Main]
        BY <1>0, <2>3, <3>1, <3>3, SendingQueue
      <4>2. PICK h : h = Head(todo[Main])
        OBVIOUS
      <4>3. i = 1 /\ h = todo[Main][1]
        <5>1. i \in Nat /\ i >= 1
          BY <1>0, <3>1
        <5>2. i = 1
          BY <4>1, <5>1
        <5> QED BY <1>0, <2>3, <4>2, <5>2, SendingKeeps
      <4>4. /\ h.frame.kind = "BYE"
            /\ (h.op = "bcast" /\ h.fd = NoFd) \/ (h.op = "put" /\ h.fd = f)
        BY <3>1, <4>3
      <4>5. ~Lookup(Main) /\ ~PutHeader(Main)
        BY <4>1, <4>2, <4>4 DEF Lookup, PutHeader, Doing
      <4>6. CASE Snapshot(Main)
        <5>1. h.op = "bcast" /\ f # h.fd
          BY <1>1, <4>2, <4>4, <4>6, RegisteredIsOwned, ServerConstants DEF Snapshot, Doing
        <5>2. clients[f].welcomed
          BY <1>1, <2>3 DEF WelcomedInTime
        <5>3. PICK s : s = PutTo(f, h.frame)
          OBVIOUS
        <5>4. PICK k \in DOMAIN todo'[Main] : todo'[Main][k] = s
          BY <1>0, <1>1, <4>2, <4>6, <5>1, <5>2, <5>3, SnapshotQueue
        <5>5. s.frame.kind = "BYE" /\ s.op = "put" /\ s.fd = f
          BY <4>4, <5>3 DEF PutTo, Put
        <5>6. ToTell(f)'
          BY <5>4, <5>5 DEF ToTell
        <5> QED BY <1>5, <2>3, <5>6
      <4>7. CASE PutFails(Main)
        <5>1. ~Alive(owner[f]) /\ UNCHANGED <<owner, peer>>
          BY <4>2, <4>4, <4>7 DEF PutFails, Target, Doing, TooLarge
        <5>2. ~Alive(owner[f])'
          BY <5>1 DEF Alive
        <5> QED BY <5>2 DEF Told
      <4>8. CASE PutBody(Main)
        <5>1. PICK o \in Conn : o = owner[f] /\ o = owner'[f]
          BY <1>1
        <5>2. h.fd = f /\ Target(Main) = o
          BY <4>2, <4>4, <4>8, <5>1 DEF PutBody, Doing, Target
        <5>3. PICK p : p = Piece(Main, "body")
          OBVIOUS
        <5>4. p.part = "body" /\ p.frame = h.frame
          BY <4>2, <5>3 DEF Piece
        <5>5. stream' = [stream EXCEPT ![o] = Append(@, p)]
          BY <4>2, <4>4, <4>8, <5>2, <5>3 DEF PutBody, Extended
        <5>6. stream'[o] = Append(stream[o], p)
          BY <5>1, <5>5 DEF IInv, TypeOK
        <5>7. PICK n : n = Len(stream[o])
          OBVIOUS
        <5>8. Longer(o, p, n)
          BY <5>1, <5>6, <5>7, LongerStream DEF IInv
        <5>9. n + 1 \in DOMAIN stream'[o] /\ stream'[o][n + 1] = p
          BY <5>8 DEF Longer
        <5> QED BY <4>4, <5>1, <5>4, <5>9 DEF Told
      <4> QED BY <2>3, <4>5, <4>6, <4>7, <4>8 DEF Sending
    <3> QED BY <3>2, <3>3
  <2> QED BY <1>2, <1>5, <2>1, <2>2, <2>3
<1> QED BY <1>3, <1>4, <1>5, GoodbyeMain

----------------------------------------------------------------------------
(* The theorems about what is sent.                                        *)

\* A server that has not started has nothing to send.
LEMMA DeliveryInit == Init => DeliveryInv
<1> SUFFICES ASSUME Init PROVE DeliveryInv
  OBVIOUS
<1>1. /\ \A f \in FD : owner[f] = NoConn
      /\ \A c \in Conn : stream[c] = <<>> /\ peer[c] = "idle"
      /\ \A t \in Thread : todo[t] = <<>> /\ ~inFrame[t]
      /\ pc[Main] = "setup" /\ Registered = {}
  BY DEF Init, Registered, Thread
<1>2. OpenDescriptors /\ HeldUntilClosed /\ WelcomedInTime /\ QueuesFit
  BY <1>1 DEF OpenDescriptors, HeldUntilClosed, WelcomedInTime, QueuesFit
<1>3. FramesUnderWay /\ FramesIntact
  BY <1>1 DEF FramesUnderWay, FramesIntact, OwnFramesWhole, RestIsStale, Halfway
<1>4. GreetingsFirst /\ GoodbyesSaid
  BY <1>1 DEF GreetingsFirst, GreetingsQueued, GreetedOrSilent, Silent, ToGreet, GoodbyesSaid
<1> QED BY <1>2, <1>3, <1>4 DEF DeliveryInv

\* Every step keeps what is queued, under way and sent in agreement.
LEMMA DeliveryStep == IInv /\ IInv' /\ DeliveryInv /\ [Next]_vars => DeliveryInv'
<1> SUFFICES ASSUME IInv, IInv', DeliveryInv, [Next]_vars PROVE DeliveryInv'
  OBVIOUS
<1> USE DEF DeliveryInv
<1>1. OpenDescriptors' /\ HeldUntilClosed' /\ WelcomedInTime' /\ QueuesFit'
  BY OpenDescriptorsStep, HeldStep, WelcomedStep, QueuesFitStep
<1>2. FramesUnderWay' /\ FramesIntact'
  BY FramesStep, RestIsStaleStep DEF FramesIntact
<1>3. GreetingsFirst' /\ GoodbyesSaid'
  BY GreetingsStep, GoodbyesStep
<1> QED BY <1>1, <1>2, <1>3

\* What is queued, under way and sent agrees with the registry, whatever the
\* threads, the peers and the operator do and in whatever order.
THEOREM Delivery == Spec => []DeliveryInv
<1>1. Init => DeliveryInv
  BY DeliveryInit
<1>2. IInv /\ IInv' /\ DeliveryInv /\ [Next]_vars => DeliveryInv'
  BY DeliveryStep
<1> QED BY <1>1, <1>2, Invariance, PTL DEF Spec

\* send_frame under a client's mutex: of what is meant for a client every frame
\* arrives whole, and whatever else lands in its stream, between the halves of a
\* frame too, was resolved for a client that has closed since and left its
\* descriptor to this one.
THEOREM FramesWhole == Spec => []FramesIntact
<1>1. DeliveryInv => FramesIntact
  BY DEF DeliveryInv
<1> QED BY <1>1, Delivery, PTL

\* accept_one writes WELCOME before the client can be a target: nothing meant
\* for a client gets ahead of its greeting.  (Kept bounds what the history
\* records: the greetings have to be in it.)
THEOREM WelcomeFirst ==
  ASSUME Greeting \subseteq Kept
  PROVE  Spec => []WelcomeBeforeRest
<1>1. IInv /\ DeliveryInv => WelcomeBeforeRest
  <2> SUFFICES ASSUME IInv, DeliveryInv,
                      NEW c \in Conn, NEW i \in DOMAIN stream[c], FirstFor(c, i)
               PROVE  stream[c][i].frame.kind \in Greeting
    BY DEF WelcomeBeforeRest
  <2>1. GreetedOrSilent(c) /\ ~Silent(c)
    BY DEF DeliveryInv, GreetingsFirst, Silent, FirstFor
  <2>2. PICK j \in DOMAIN stream[c] : FirstFor(c, j) /\ stream[c][j].frame.kind \in Greeting
    BY <2>1 DEF GreetedOrSilent, Greeted
  <2>3. i \in Nat /\ j \in Nat /\ i >= 1 /\ j >= 1
    BY DEF IInv, TypeOK
  <2>4. ~(i < j) /\ ~(j < i)
    BY <2>2, <2>3 DEF FirstFor
  <2> QED BY <2>2, <2>3, <2>4
<1> QED BY <1>1, Delivery, Invariance, PTL

\* shutdown_all: every client whose socket is about to be cut was told goodbye
\* or is gone.
THEOREM GoodbyeFirst ==
  ASSUME "BYE" \in Kept
  PROVE  Spec => []GoodbyeBeforeCut
<1>1. DeliveryInv => GoodbyeBeforeCut
  BY DEF DeliveryInv, GoodbyesSaid, GoodbyeBeforeCut, Told
<1> QED BY <1>1, Delivery, PTL

============================================================================
