----------------------- MODULE ThreadLinkServer_proofs -----------------------
(***************************************************************************)
(* Proofs about ThreadLinkServer, for every set of connections,            *)
(* descriptors and names and every capacity.                               *)
(***************************************************************************)
EXTENDS ThreadLinkServer, TLAPS, FiniteSetTheorems, SequenceTheorems

\* What the invariant is about: everything but messages and bounds.
registry == <<clients, threads, owner, peer, pc, fd, cur, scan>>

\* The steps that change none of it.
Quiet ==
  \/ \E t \in Thread : Sending(t)
  \/ \E c \in Conn : Say(c) \/ List(c) \/ BadLine(c) \/ \E n \in Wanted : Msg(c, n)
  \/ RequestShutdown
  \/ UNCHANGED vars

\* The steps of Main and of a handler that change some of it.
MainMoves ==
  \/ Start \/ LoopTop \/ ReapCheck \/ ReapJoin \/ Idle \/ Accepting
  \/ Admit \/ Refuse \/ CloseRefused \/ MarkWelcomed \/ Spawn
  \/ ListVictims \/ JoinAll \/ \E f \in FD : Cut(f)

HandlerMoves(c) ==
  \/ \E n \in Wanted : Nick(c, n)
  \/ Quit(c) \/ Eof(c) \/ Leave(c) \/ Close(c) \/ PeerCloses(c)

\* Every step of the server is quiet, one of Main's, or one of a handler's.
LEMMA NextCases ==
  [Next]_vars => Quiet \/ MainMoves \/ \E c \in Conn : HandlerMoves(c)
BY DEF Next, MainStep, LineStep, HandlerStep, Stopped, Quiet, MainMoves,
       HandlerMoves, Thread

\* Sending, talking, listing and asking to stop leave the registry alone.
LEMMA QuietKeepsRegistry == Quiet => UNCHANGED registry
<1> SUFFICES ASSUME Quiet PROVE UNCHANGED registry
  OBVIOUS
<1>1. CASE \E t \in Thread : Sending(t)
  BY <1>1 DEF Sending, Snapshot, Lookup, PutHeader, PutBody, PutFails, registry
<1>2. CASE \E c \in Conn : Say(c) \/ List(c) \/ BadLine(c) \/ \E n \in Wanted : Msg(c, n)
  BY <1>2 DEF Say, List, BadLine, Msg, Line, registry
<1>3. CASE RequestShutdown
  BY <1>3 DEF RequestShutdown, registry
<1>4. CASE UNCHANGED vars
  BY <1>4 DEF vars, registry
<1> QED BY <1>1, <1>2, <1>3, <1>4 DEF Quiet

\* Start, LoopTop and ReapCheck only move Main to the next statement.
LEMMA RoundMoves ==
  ASSUME IInv, Start \/ LoopTop \/ ReapCheck
  PROVE  /\ pc[Main] \in {"setup", "loop", "reap"}
         /\ \E l \in {"loop", "reap", "bye", "ready", "join"} : pc' = [pc EXCEPT ![Main] = l]
         /\ UNCHANGED <<clients, threads, owner, peer, fd, cur>>
<1> USE DEF IInv, TypeOK, Thread
<1>0. CASE Start
  BY <1>0 DEF Start, At
<1>1. CASE LoopTop
  BY <1>1 DEF LoopTop, At
<1>2. CASE ReapCheck
  <2>1. CASE scan > Len(threads)
    BY <1>2, <2>1 DEF ReapCheck, At
  <2>2. CASE ~(scan > Len(threads)) /\ threads[scan].fd \in Registered
    <3>1. pc = [pc EXCEPT ![Main] = "reap"]
      BY <1>2 DEF ReapCheck, At
    <3> QED BY <1>2, <2>2, <3>1 DEF ReapCheck, At
  <2>3. CASE ~(scan > Len(threads)) /\ threads[scan].fd \notin Registered
    BY <1>2, <2>3 DEF ReapCheck, At
  <2> QED BY <2>1, <2>2, <2>3
<1> QED BY <1>0, <1>1, <1>2

\* handle_nick either renames the handler's own record or changes nothing.
LEMMA NickMoves ==
  ASSUME NEW c \in Conn, NEW n \in Wanted, Nick(c, n)
  PROVE  /\ pc[c] = "recv" /\ fd[c] \in Registered
         /\ UNCHANGED <<threads, owner, peer, pc, fd, cur, scan>>
         /\ \/ UNCHANGED clients
            \/ /\ clients' = [clients EXCEPT ![fd[c]].nick = n]
               /\ \A f \in Registered \ {fd[c]} : clients[f].nick # n
BY DEF Nick, Line, At

\* Every thread stays in its own program.
LEMMA LabelsStep ==
  ASSUME IInv, [Next]_vars
  PROVE  Labels'
<1> USE ServerConstants DEF IInv, TypeOK, Labels, MainLabel, HandlerLabel, Thread, DescriptorsHeld
<1>1. CASE Quiet
  BY <1>1, QuietKeepsRegistry DEF registry
<1>2. CASE MainMoves
  <2>1. CASE Start \/ LoopTop \/ ReapCheck
    <3>1. PICK l \in {"loop", "reap", "bye", "ready", "join"} : pc' = [pc EXCEPT ![Main] = l]
      BY <2>1, RoundMoves
    <3>2. pc[Main] \in {"setup", "loop", "reap"} /\ UNCHANGED <<clients, threads, owner, peer, fd, cur>>
      BY <2>1, RoundMoves
    <3> QED BY <3>1, <3>2
  <2>2. CASE ReapJoin
    BY <2>2 DEF ReapJoin, At
  <2>3. CASE Idle
    BY <2>3 DEF Idle, At
  <2>4. CASE Accepting
    BY <2>4 DEF Accepting, Accept, At
  <2>5. CASE Admit
    BY <2>5 DEF Admit, At
  <2>6. CASE Refuse
    BY <2>6 DEF Refuse, At
  <2>7. CASE CloseRefused
    BY <2>7 DEF CloseRefused, At
  <2>8. CASE MarkWelcomed
    BY <2>8 DEF MarkWelcomed, At
  <2>9. CASE Spawn
    BY <2>9 DEF Spawn, At
  <2>10. CASE ListVictims
    BY <2>10 DEF ListVictims, At
  <2>11. CASE JoinAll
    BY <2>11 DEF JoinAll, At
  <2>12. CASE \E f \in FD : Cut(f)
    BY <2>12 DEF Cut, At
  <2> QED BY <1>2, <2>1, <2>2, <2>3, <2>4, <2>5, <2>6, <2>7, <2>8, <2>9, <2>10, <2>11, <2>12 DEF MainMoves
<1>3. ASSUME NEW c \in Conn, HandlerMoves(c) PROVE Labels'
  <2>1. CASE \E n \in Wanted : Nick(c, n)
    BY <2>1, NickMoves
  <2>2. CASE Quit(c)
    BY <2>2 DEF Quit, At
  <2>3. CASE Eof(c)
    BY <2>3 DEF Eof, At
  <2>4. CASE Leave(c)
    BY <2>4 DEF Leave, At
  <2>5. CASE Close(c)
    BY <2>5 DEF Close, At
  <2>6. CASE PeerCloses(c)
    BY <2>6 DEF PeerCloses, At
  <2> QED BY <1>3, <2>1, <2>2, <2>3, <2>4, <2>5, <2>6 DEF HandlerMoves
<1> QED BY <1>1, <1>2, <1>3, NextCases

\* Only the holder of a descriptor closes it, and accept never returns a held one.
LEMMA DescriptorsStep ==
  ASSUME IInv, [Next]_vars
  PROVE  DescriptorsHeld'
<1> USE ServerConstants DEF IInv, TypeOK, Labels, MainLabel, HandlerLabel, Thread, DescriptorsHeld
<1>1. CASE Quiet
  BY <1>1, QuietKeepsRegistry DEF registry
<1>2. CASE MainMoves
  <2>1. CASE Start \/ LoopTop \/ ReapCheck
    <3>1. PICK l \in {"loop", "reap", "bye", "ready", "join"} : pc' = [pc EXCEPT ![Main] = l]
      BY <2>1, RoundMoves
    <3>2. pc[Main] \in {"setup", "loop", "reap"} /\ UNCHANGED <<clients, threads, owner, peer, fd, cur>>
      BY <2>1, RoundMoves
    <3> QED BY <3>1, <3>2
  <2>2. CASE ReapJoin
    BY <2>2 DEF ReapJoin, At
  <2>3. CASE Idle
    BY <2>3 DEF Idle, At
  <2>4. CASE Accepting
    BY <2>4 DEF Accepting, Accept, At
  <2>5. CASE Admit
    BY <2>5 DEF Admit, At
  <2>6. CASE Refuse
    BY <2>6 DEF Refuse, At
  <2>7. CASE CloseRefused
    BY <2>7 DEF CloseRefused, At
  <2>8. CASE MarkWelcomed
    BY <2>8 DEF MarkWelcomed, At
  <2>9. CASE Spawn
    BY <2>9 DEF Spawn, At
  <2>10. CASE ListVictims
    BY <2>10 DEF ListVictims, At
  <2>11. CASE JoinAll
    BY <2>11 DEF JoinAll, At
  <2>12. CASE \E f \in FD : Cut(f)
    BY <2>12 DEF Cut, At
  <2> QED BY <1>2, <2>1, <2>2, <2>3, <2>4, <2>5, <2>6, <2>7, <2>8, <2>9, <2>10, <2>11, <2>12 DEF MainMoves
<1>3. ASSUME NEW c \in Conn, HandlerMoves(c) PROVE DescriptorsHeld'
  <2>1. CASE \E n \in Wanted : Nick(c, n)
    BY <2>1, NickMoves, SMTT(30)
  <2>2. CASE Quit(c)
    BY <2>2 DEF Quit, At
  <2>3. CASE Eof(c)
    BY <2>3 DEF Eof, At
  <2>4. CASE Leave(c)
    BY <2>4 DEF Leave, At
  <2>5. CASE Close(c)
    BY <2>5 DEF Close, At
  <2>6. CASE PeerCloses(c)
    BY <2>6 DEF PeerCloses, At
  <2> QED BY <1>3, <2>1, <2>2, <2>3, <2>4, <2>5, <2>6 DEF HandlerMoves
<1> QED BY <1>1, <1>2, <1>3, NextCases

\* Records come and go with their descriptors.
LEMMA RegistryStep ==
  ASSUME IInv, [Next]_vars
  PROVE  RegistryMatches'
<1> USE ServerConstants DEF IInv, TypeOK, Labels, MainLabel, HandlerLabel, Thread, DescriptorsHeld, RegistryMatches, Seated, Joining, Registered, ClientRecord
<1>1. CASE Quiet
  BY <1>1, QuietKeepsRegistry DEF registry
<1>2. CASE MainMoves
  <2>1. CASE Start \/ LoopTop \/ ReapCheck
    <3>1. PICK l \in {"loop", "reap", "bye", "ready", "join"} : pc' = [pc EXCEPT ![Main] = l]
      BY <2>1, RoundMoves
    <3>2. pc[Main] \in {"setup", "loop", "reap"} /\ UNCHANGED <<clients, threads, owner, peer, fd, cur>>
      BY <2>1, RoundMoves
    <3> QED BY <3>1, <3>2
  <2>2. CASE ReapJoin
    BY <2>2, ZenonT(30) DEF ReapJoin, At
  <2>3. CASE Idle
    BY <2>3 DEF Idle, At
  <2>4. CASE Accepting
    <3> PICK a \in Conn : Accept(a)
      BY <2>4 DEF Accepting
    <3>1. PICK f \in FD : /\ owner[f] = NoConn
                          /\ owner' = [owner EXCEPT ![f] = a]
                          /\ fd' = [fd EXCEPT ![a] = f]
      BY DEF Accept
    <3>2. /\ pc[Main] = "ready" /\ peer[a] = "idle" /\ UNCHANGED clients
          /\ pc' = [pc EXCEPT ![Main] = "admit"]
      BY DEF Accept, At
    <3>3. Joining' = {} /\ Joining = {} /\ Seated' = Seated /\ a \notin Seated
      BY <3>2
    <3> QED BY <3>1, <3>2, <3>3, SMTT(30)
  <2>5. CASE Admit
    BY <2>5 DEF Admit, At
  <2>6. CASE Refuse
    BY <2>6 DEF Refuse, At
  <2>7. CASE CloseRefused
    BY <2>7 DEF CloseRefused, At
  <2>8. CASE MarkWelcomed
    BY <2>8 DEF MarkWelcomed, At
  <2>9. CASE Spawn
    <3>1. Seated' = Seated
      BY <2>9, SMTT(30) DEF Spawn, At
    <3>2. UNCHANGED <<clients, fd>>
      BY <2>9 DEF Spawn
    <3> QED BY <3>1, <3>2
  <2>10. CASE ListVictims
    BY <2>10 DEF ListVictims, At
  <2>11. CASE JoinAll
    BY <2>11 DEF JoinAll, At
  <2>12. CASE \E f \in FD : Cut(f)
    BY <2>12 DEF Cut, At
  <2> QED BY <1>2, <2>1, <2>2, <2>3, <2>4, <2>5, <2>6, <2>7, <2>8, <2>9, <2>10, <2>11, <2>12 DEF MainMoves
<1>3. ASSUME NEW c \in Conn, HandlerMoves(c) PROVE RegistryMatches'
  <2>1. CASE \E n \in Wanted : Nick(c, n)
    <3> PICK n \in Wanted : Nick(c, n)
      BY <2>1
    <3>1. Seated' = Seated
      BY NickMoves
    <3>2. Registered' = Registered /\ \A f \in Registered : clients'[f].lock = clients[f].lock
      <4>1. CASE UNCHANGED clients
        BY <4>1
      <4>2. CASE clients' = [clients EXCEPT ![fd[c]].nick = n]
        BY <4>2
      <4> QED BY <4>1, <4>2, NickMoves
    <3>3. UNCHANGED fd
      BY NickMoves
    <3>4. RegistryMatches
      OBVIOUS
    <3> QED BY ONLY <3>1, <3>2, <3>3, <3>4 DEF RegistryMatches
  <2>2. CASE Quit(c)
    BY <2>2, SMTT(30) DEF Quit, At
  <2>3. CASE Eof(c)
    BY <2>3 DEF Eof, At
  <2>4. CASE Leave(c)
    <3>1. Seated' = Seated \ {c} /\ c \in Seated
      BY <2>4 DEF Leave, At
    <3>2. Registered' = Registered \ {fd[c]} /\ \A f \in Registered' : clients'[f] = clients[f]
      BY <2>4 DEF Leave, At
    <3>3. UNCHANGED fd /\ fd[c] \in Registered /\ clients[fd[c]].lock = c
      BY <2>4, <3>1 DEF Leave
    <3> HIDE DEF Seated, Joining
    <3>4. \A f \in Registered' : clients'[f].lock \in Seated' /\ fd'[clients'[f].lock] = f
      BY <3>1, <3>2, <3>3
    <3>5. \A b \in Seated' : fd'[b] \in Registered' /\ clients'[fd'[b]].lock = b
      <4> SUFFICES ASSUME NEW b \in Seated \ {c}
                   PROVE  fd[b] \in Registered' /\ clients'[fd[b]].lock = b
        BY <3>1, <3>3
      <4>1. fd[b] \in Registered /\ clients[fd[b]].lock = b
        OBVIOUS
      <4>2. fd[b] /= fd[c]
        BY <4>1, <3>3
      <4> QED BY <4>1, <4>2, <3>2
    <3> QED BY <3>4, <3>5
  <2>5. CASE Close(c)
    BY <2>5, SMTT(30) DEF Close, At
  <2>6. CASE PeerCloses(c)
    BY <2>6, SMTT(30) DEF PeerCloses, At
  <2> QED BY <1>3, <2>1, <2>2, <2>3, <2>4, <2>5, <2>6 DEF HandlerMoves
<1> QED BY <1>1, <1>2, <1>3, NextCases

\* What a step may do to a connection that has a handler.
HandlersAdvance ==
  \A c \in Conn :
    /\ pc[c] # "unborn" => pc'[c] # "unborn" /\ fd'[c] = fd[c]
    /\ pc[c] \in {"closing", "done"} => pc'[c] \in {"closing", "done"}
    /\ pc[c] = "done" => pc'[c] = "done"
    /\ pc[c] = "unborn" /\ pc'[c] # "unborn" => Spawn /\ c = cur.conn

\* Handlers only move forward, and keep their descriptor.
LEMMA HandlersStep ==
  ASSUME IInv, [Next]_vars
  PROVE  HandlersAdvance
<1> USE ServerConstants DEF IInv, TypeOK, Labels, MainLabel, HandlerLabel, Thread, DescriptorsHeld, HandlersAdvance
<1>1. CASE Quiet
  BY <1>1, QuietKeepsRegistry DEF registry
<1>2. CASE MainMoves
  <2>1. CASE Start \/ LoopTop \/ ReapCheck
    <3>1. PICK l \in {"loop", "reap", "bye", "ready", "join"} : pc' = [pc EXCEPT ![Main] = l]
      BY <2>1, RoundMoves
    <3>2. pc[Main] \in {"setup", "loop", "reap"} /\ UNCHANGED <<clients, threads, owner, peer, fd, cur>>
      BY <2>1, RoundMoves
    <3> QED BY <3>1, <3>2
  <2>2. CASE ReapJoin
    BY <2>2 DEF ReapJoin, At
  <2>3. CASE Idle
    BY <2>3 DEF Idle, At
  <2>4. CASE Accepting
    BY <2>4 DEF Accepting, Accept, At
  <2>5. CASE Admit
    BY <2>5 DEF Admit, At
  <2>6. CASE Refuse
    BY <2>6 DEF Refuse, At
  <2>7. CASE CloseRefused
    BY <2>7 DEF CloseRefused, At
  <2>8. CASE MarkWelcomed
    BY <2>8 DEF MarkWelcomed, At
  <2>9. CASE Spawn
    BY <2>9 DEF Spawn, At
  <2>10. CASE ListVictims
    BY <2>10 DEF ListVictims, At
  <2>11. CASE JoinAll
    BY <2>11 DEF JoinAll, At
  <2>12. CASE \E f \in FD : Cut(f)
    BY <2>12 DEF Cut, At
  <2> QED BY <1>2, <2>1, <2>2, <2>3, <2>4, <2>5, <2>6, <2>7, <2>8, <2>9, <2>10, <2>11, <2>12 DEF MainMoves
<1>3. ASSUME NEW c \in Conn, HandlerMoves(c) PROVE HandlersAdvance
  <2>1. CASE \E n \in Wanted : Nick(c, n)
    BY <2>1, NickMoves
  <2>2. CASE Quit(c)
    BY <2>2 DEF Quit, At
  <2>3. CASE Eof(c)
    BY <2>3 DEF Eof, At
  <2>4. CASE Leave(c)
    BY <2>4 DEF Leave, At
  <2>5. CASE Close(c)
    BY <2>5 DEF Close, At
  <2>6. CASE PeerCloses(c)
    BY <2>6 DEF PeerCloses, At
  <2> QED BY <1>3, <2>1, <2>2, <2>3, <2>4, <2>5, <2>6 DEF HandlerMoves
<1> QED BY <1>1, <1>2, <1>3, NextCases

\* The three steps that change client_threads_.
LEMMA ThreadsChange ==
  ASSUME [Next]_vars
  PROVE  UNCHANGED threads \/ ReapJoin \/ Spawn \/ JoinAll
<1>1. Quiet => UNCHANGED threads
  BY QuietKeepsRegistry DEF registry
<1>2. MainMoves => UNCHANGED threads \/ ReapJoin \/ Spawn \/ JoinAll
  BY DEF MainMoves, Start, LoopTop, ReapCheck, Idle, Accepting, Accept, Admit, Refuse,
         CloseRefused, MarkWelcomed, ListVictims, Cut
<1>3. ASSUME NEW c \in Conn, HandlerMoves(c) PROVE UNCHANGED threads
  BY <1>3 DEF HandlerMoves, Nick, Line, Quit, Eof, Leave, Close, PeerCloses
<1> QED BY <1>1, <1>2, <1>3, NextCases

\* Main is joining after a step because it was, or has just found an entry
\* whose descriptor is not registered.
LEMMA JoiningMain ==
  ASSUME IInv, [Next]_vars, pc'[Main] = "join"
  PROVE  /\ UNCHANGED <<threads, scan>>
         /\ \/ pc[Main] = "join"
            \/ /\ scan \in DOMAIN threads /\ threads[scan].fd \notin Registered
               /\ UNCHANGED pc \/ pc' = [pc EXCEPT ![Main] = "join"]
<1> USE ServerConstants DEF IInv, TypeOK, Labels, MainLabel, Thread
<1>1. CASE Quiet
  BY <1>1, QuietKeepsRegistry DEF registry
<1>2. CASE MainMoves
  <2>1. CASE ReapCheck
    BY <2>1 DEF ReapCheck, At, ThreadsMatch
  <2>2. CASE ~ReapCheck
    BY <1>2, <2>2 DEF MainMoves, Start, LoopTop, ReapJoin, Idle, Accepting, Accept, Admit,
       Refuse, CloseRefused, MarkWelcomed, Spawn, ListVictims, Cut, JoinAll, At
  <2> QED BY <2>1, <2>2
<1>3. ASSUME NEW c \in Conn, HandlerMoves(c)
      PROVE  UNCHANGED <<threads, scan>> /\ pc'[Main] = pc[Main]
  BY <1>3 DEF HandlerMoves, Nick, Line, Quit, Eof, Leave, Close, PeerCloses
<1> QED BY <1>1, <1>2, <1>3, NextCases

\* What erasing entry k of a sequence leaves.
LEMMA Erased ==
  ASSUME NEW S, NEW s \in Seq(S), NEW k \in DOMAIN s
  PROVE  LET r == RemoveAt(s, k)
         IN  /\ r \in Seq(S)
             /\ \A j \in DOMAIN r : \E i \in DOMAIN s : r[j] = s[i]
             /\ \A i \in DOMAIN s : i # k => \E j \in DOMAIN r : r[j] = s[i]
<1> DEFINE n == Len(s)
           a == SubSeq(s, 1, k - 1)
           b == SubSeq(s, k + 1, n)
           r == RemoveAt(s, k)
<1>1. n \in Nat /\ DOMAIN s = 1..n /\ k \in 1..n
  BY LenProperties
<1>2. \A i \in 1..n : s[i] \in S
  BY ElementOfSeq
<1> HIDE DEF n
<1>3. /\ a \in Seq(S) /\ Len(a) = k - 1
      /\ \A i \in 1..(k - 1) : a[i] = s[i]
  <2>1. \A i \in 1..(k - 1) : s[i] \in S
    BY <1>1, <1>2
  <2>2. /\ SubSeq(s, 1, k - 1) \in Seq(S)
        /\ Len(SubSeq(s, 1, k - 1)) = IF 1 <= k - 1 THEN (k - 1) - 1 + 1 ELSE 0
        /\ \A i \in 1..((k - 1) - 1 + 1) : SubSeq(s, 1, k - 1)[i] = s[1 + i - 1]
    BY <1>1, <2>1, SubSeqProperties
  <2> QED BY <1>1, <2>2
<1>4. /\ b \in Seq(S) /\ Len(b) = n - k
      /\ \A i \in 1..(n - k) : b[i] = s[k + i]
  <2>1. \A i \in (k + 1)..n : s[i] \in S
    BY <1>1, <1>2
  <2>2. /\ SubSeq(s, k + 1, n) \in Seq(S)
        /\ Len(SubSeq(s, k + 1, n)) = IF k + 1 <= n THEN n - (k + 1) + 1 ELSE 0
        /\ \A i \in 1..(n - (k + 1) + 1) : SubSeq(s, k + 1, n)[i] = s[(k + 1) + i - 1]
    BY <1>1, <2>1, SubSeqProperties
  <2>3. \A i \in 1..(n - k) : i \in 1..(n - (k + 1) + 1) /\ (k + 1) + i - 1 = k + i
    BY <1>1
  <2>4. \A i \in 1..(n - k) : b[i] = s[k + i]
    BY <2>2, <2>3
  <2> QED BY <1>1, <2>2, <2>4
<1>5. r = a \o b
  BY DEF a, b, n, RemoveAt
<1> HIDE DEF a, b, r
<1>6. /\ r \in Seq(S) /\ Len(r) = n - 1
      /\ \A j \in 1..(n - 1) : r[j] = IF j <= k - 1 THEN a[j] ELSE b[j - (k - 1)]
  <2>1. /\ a \o b \in Seq(S) /\ Len(a \o b) = Len(a) + Len(b)
        /\ \A j \in 1..(Len(a) + Len(b)) :
             (a \o b)[j] = IF j <= Len(a) THEN a[j] ELSE b[j - Len(a)]
    BY <1>3, <1>4, ConcatProperties
  <2>2. Len(a) + Len(b) = n - 1
    BY <1>1, <1>3, <1>4
  <2> QED BY <2>1, <2>2, <1>3, <1>5
<1>7. DOMAIN r = 1..(n - 1)
  BY <1>6, LenProperties
<1>8. \A j \in 1..(n - 1) : r[j] = IF j < k THEN s[j] ELSE s[j + 1]
  <2> TAKE j \in 1..(n - 1)
  <2>1. CASE j < k
    <3>1. j <= k - 1 /\ j \in 1..(k - 1)
      BY <1>1, <2>1
    <3> QED BY <1>3, <1>6, <2>1, <3>1
  <2>2. CASE ~(j < k)
    <3>1. ~(j <= k - 1) /\ j - (k - 1) \in 1..(n - k) /\ k + (j - (k - 1)) = j + 1
      BY <1>1, <2>2
    <3>2. r[j] = b[j - (k - 1)]
      BY <1>6, <3>1
    <3>3. b[j - (k - 1)] = s[j + 1]
      BY <1>4, <3>1
    <3> QED BY <2>2, <3>2, <3>3
  <2> QED BY <2>1, <2>2
<1>9. ASSUME NEW i \in 1..n, i # k PROVE \E j \in 1..(n - 1) : r[j] = s[i]
  <2>1. CASE i < k
    BY <1>1, <1>8, <2>1
  <2>2. CASE i > k
    <3>1. /\ i - 1 \in 1..(n - 1) /\ ~(i - 1 < k) /\ (i - 1) + 1 = i
      BY <1>1, <2>2
    <3>2. r[i - 1] = s[(i - 1) + 1]
      BY <1>8, <3>1
    <3> QED BY <3>1, <3>2
  <2>3. i < k \/ i > k
    BY <1>1, <1>9
  <2> QED BY <2>1, <2>2, <2>3
<1>10. ASSUME NEW j \in 1..(n - 1) PROVE \E i \in 1..n : r[j] = s[i]
  <2>1. j \in 1..n /\ j + 1 \in 1..n
    BY <1>1
  <2> QED BY <1>8, <2>1
<1> QED BY <1>1, <1>6, <1>7, <1>9, <1>10 DEF r

\* client_threads_ is a sequence of known descriptors and connections.
LEMMA ThreadFacts ==
  ASSUME TypeOK
  PROVE  /\ Len(threads) \in Nat /\ DOMAIN threads = 1..Len(threads)
         /\ \A i \in DOMAIN threads : threads[i].conn \in Conn /\ threads[i].fd \in FD
<1>1. threads \in Seq([fd : FD, conn : Conn])
  BY DEF TypeOK
<1>2. /\ Len(threads) \in Nat /\ DOMAIN threads = 1..Len(threads)
      /\ \A i \in 1..Len(threads) : threads[i] \in [fd : FD, conn : Conn]
  BY <1>1, LenProperties, ElementOfSeq
<1> QED BY <1>2

\* The entry Spawn adds.
LEMMA SpawnAppends ==
  ASSUME IInv, Spawn
  PROVE  LET e == [fd |-> fd[cur.conn], conn |-> cur.conn]
         IN  /\ e \in [fd : FD, conn : Conn]
             /\ DOMAIN threads' = 1..(Len(threads) + 1)
             /\ \A i \in DOMAIN threads : threads'[i] = threads[i]
             /\ threads'[Len(threads) + 1] = e
             /\ pc'[cur.conn] = "recv" /\ UNCHANGED fd
<1> DEFINE e == [fd |-> fd[cur.conn], conn |-> cur.conn]
<1>1. pc[Main] = "spawn" /\ threads' = Append(threads, e) /\ UNCHANGED fd
  BY DEF Spawn, At
<1>2. e \in [fd : FD, conn : Conn]
  BY <1>1 DEF IInv, DescriptorsHeld
<1>3. threads \in Seq([fd : FD, conn : Conn])
  BY DEF IInv, TypeOK
<1>4. pc'[cur.conn] = "recv"
  <2>1. cur.conn \in Thread /\ cur.conn # Main
    BY <1>1, ServerConstants DEF IInv, DescriptorsHeld, Thread
  <2> QED BY <2>1 DEF Spawn, IInv, TypeOK
<1> HIDE DEF e
<1>5. /\ threads' \in Seq([fd : FD, conn : Conn]) /\ Len(threads') = Len(threads) + 1
      /\ \A i \in 1..Len(threads) : threads'[i] = threads[i]
      /\ threads'[Len(threads) + 1] = e
  BY <1>1, <1>2, <1>3, AppendProperties
<1>6. DOMAIN threads' = 1..Len(threads') /\ DOMAIN threads = 1..Len(threads)
  BY <1>3, <1>5, LenProperties
<1> QED BY <1>1, <1>2, <1>4, <1>5, <1>6 DEF e

\* An entry of client_threads_ keeps its descriptor and a started handler.
LEMMA ThreadsStep ==
  ASSUME IInv, [Next]_vars
  PROVE  /\ \A i \in DOMAIN threads' :
              fd'[threads'[i].conn] = threads'[i].fd /\ pc'[threads'[i].conn] # "unborn"
         /\ threads' \in Seq([fd : FD, conn : Conn])
<1>1. threads \in Seq([fd : FD, conn : Conn])
  BY DEF IInv, TypeOK
<1>2. \A i \in DOMAIN threads : /\ threads[i].conn \in Conn
                                /\ fd'[threads[i].conn] = threads[i].fd
                                /\ pc'[threads[i].conn] # "unborn"
  BY HandlersStep, ThreadFacts DEF IInv, ThreadsMatch, HandlersAdvance
<1>3. CASE UNCHANGED threads
  BY <1>1, <1>2, <1>3
<1>4. CASE ReapJoin
  <2>1. scan \in DOMAIN threads
    BY <1>4 DEF ReapJoin, At, IInv, ThreadsMatch
  <2>2. threads' = RemoveAt(threads, scan)
    BY <1>4 DEF ReapJoin, At
  <2>3. /\ threads' \in Seq([fd : FD, conn : Conn])
        /\ \A j \in DOMAIN threads' : \E i \in DOMAIN threads : threads'[j] = threads[i]
    <3> DEFINE E == [fd : FD, conn : Conn]
    <3>1. threads \in Seq(E)
      BY <1>1
    <3> HIDE DEF E
    <3>2. /\ threads' \in Seq(E)
          /\ \A j \in DOMAIN threads' : \E i \in DOMAIN threads : threads'[j] = threads[i]
      BY ONLY <3>1, <2>1, <2>2, Erased
    <3> QED BY <3>2 DEF E
  <2> QED BY <1>2, <2>3
<1>5. CASE Spawn
  <2> DEFINE e == [fd |-> fd[cur.conn], conn |-> cur.conn]
  <2>1. threads' = Append(threads, e)
    BY <1>5 DEF Spawn
  <2>2. e \in [fd : FD, conn : Conn]
    BY <1>5, SpawnAppends
  <2>3. threads' \in Seq([fd : FD, conn : Conn])
    BY <1>1, <2>1, <2>2, AppendProperties
  <2>4. ASSUME NEW i \in DOMAIN threads'
        PROVE  fd'[threads'[i].conn] = threads'[i].fd /\ pc'[threads'[i].conn] # "unborn"
    <3>1. CASE i \in DOMAIN threads
      BY <1>2, <1>5, <3>1, SpawnAppends
    <3>2. CASE i \notin DOMAIN threads
      <4>1. i = Len(threads) + 1
        BY <1>5, <3>2, <2>4, SpawnAppends, ThreadFacts DEF IInv
      <4> QED BY <4>1, <1>5, SpawnAppends
    <3> QED BY <3>1, <3>2
  <2> QED BY <2>3, <2>4
<1>6. CASE JoinAll
  BY <1>6, EmptySeq DEF JoinAll
<1> QED BY <1>3, <1>4, <1>5, <1>6, ThreadsChange

\* reap_finished_threads's iterator stays on an entry while Main joins it.
LEMMA ScanStep ==
  ASSUME IInv, [Next]_vars
  PROVE  scan' \in Nat /\ scan' >= 1 /\ (pc'[Main] = "join" => scan' \in DOMAIN threads')
<1>1. scan' \in Nat /\ scan' >= 1
  <2> USE DEF IInv, TypeOK, ThreadsMatch
  <2>1. CASE Quiet
    BY <2>1, QuietKeepsRegistry DEF registry
  <2>2. CASE MainMoves
    BY <2>2 DEF MainMoves, Start, LoopTop, ReapCheck, ReapJoin, Idle, Accepting, Accept,
       Admit, Refuse, CloseRefused, MarkWelcomed, Spawn, ListVictims, Cut, JoinAll
  <2>3. ASSUME NEW c \in Conn, HandlerMoves(c) PROVE UNCHANGED scan
    BY <2>3 DEF HandlerMoves, Nick, Line, Quit, Eof, Leave, Close, PeerCloses
  <2> QED BY <2>1, <2>2, <2>3, NextCases
<1>2. ASSUME pc'[Main] = "join" PROVE scan' \in DOMAIN threads'
  BY <1>2, JoiningMain DEF IInv, ThreadsMatch
<1> QED BY <1>1, <1>2

\* The thread being joined stays past its last critical section.
LEMMA JoinsStep ==
  ASSUME IInv, [Next]_vars
  PROVE  JoinsOnlyLeavers'
<1> SUFFICES ASSUME pc'[Main] = "join"
             PROVE  pc'[threads[scan].conn] \in {"closing", "done"}
  BY JoiningMain DEF JoinsOnlyLeavers
<1> DEFINE d == threads[scan].conn
<1>1. scan \in DOMAIN threads
  BY JoiningMain DEF IInv, ThreadsMatch
<1>2. d \in Conn /\ fd[d] = threads[scan].fd /\ pc[d] # "unborn"
  BY <1>1, ThreadFacts DEF IInv, ThreadsMatch
<1>3. pc[d] \in {"closing", "done"}
  <2>1. CASE pc[Main] = "join"
    BY <2>1 DEF IInv, JoinsOnlyLeavers
  <2>2. CASE threads[scan].fd \notin Registered
    BY <1>2, <2>2 DEF IInv, RegistryMatches, Seated, Labels, HandlerLabel
  <2> QED BY <2>1, <2>2, JoiningMain
<1> QED BY <1>2, <1>3, HandlersStep DEF HandlersAdvance

\* A handler is in client_threads_ from its start until it has returned.
LEMMA ForgottenStep ==
  ASSUME IInv, [Next]_vars
  PROVE  NoHandlerForgotten'
<1> SUFFICES ASSUME NEW c \in Conn, pc'[c] \in {"recv", "leave", "closing"}
             PROVE  \E i \in DOMAIN threads' : threads'[i].conn = c
  BY DEF NoHandlerForgotten
<1>1. CASE pc[c] = "unborn"
  <2>1. Spawn /\ c = cur.conn
    BY <1>1, HandlersStep DEF HandlersAdvance
  <2>2. Len(threads) + 1 \in DOMAIN threads' /\ threads'[Len(threads) + 1].conn = c
    BY <2>1, SpawnAppends, ThreadFacts DEF IInv
  <2> QED BY <2>2
<1>2. CASE pc[c] # "unborn"
  <2>1. pc[c] \in {"recv", "leave", "closing"}
    BY <1>2, HandlersStep DEF HandlersAdvance, IInv, Labels, HandlerLabel
  <2>2. PICK i \in DOMAIN threads : threads[i].conn = c
    BY <2>1 DEF IInv, NoHandlerForgotten
  <2>3. CASE UNCHANGED threads
    BY <2>2, <2>3
  <2>4. CASE Spawn
    BY <2>2, <2>4, SpawnAppends, ThreadFacts DEF IInv
  <2>5. CASE ReapJoin
    <3>1. pc[threads[scan].conn] = "done" /\ scan \in DOMAIN threads
      BY <2>5 DEF ReapJoin, At, IInv, ThreadsMatch
    <3>2. i # scan
      BY <2>1, <2>2, <3>1
    <3>3. /\ threads \in Seq([fd : FD, conn : Conn])
          /\ threads' = RemoveAt(threads, scan)
      BY <2>5 DEF ReapJoin, IInv, TypeOK
    <3>4. \A k \in DOMAIN threads : k # scan => \E j \in DOMAIN threads' : threads'[j] = threads[k]
      <4> DEFINE E == [fd : FD, conn : Conn]
      <4>1. threads \in Seq(E)
        BY <3>3
      <4> HIDE DEF E
      <4> QED BY ONLY <4>1, <3>1, <3>3, Erased
    <3> QED BY <2>2, <3>2, <3>4
  <2>6. CASE JoinAll
    BY <2>1, <2>2, <2>6 DEF JoinAll
  <2> QED BY <2>3, <2>4, <2>5, <2>6, ThreadsChange
<1> QED BY <1>1, <1>2

\* How a step may change clients_.
LEMMA ClientsChange ==
  ASSUME IInv, [Next]_vars
  PROVE  \/ UNCHANGED clients
         \/ Admit \/ MarkWelcomed
         \/ \E c \in Conn : Leave(c) \/ \E n \in Wanted : Nick(c, n)
<1>1. Quiet => UNCHANGED clients
  BY QuietKeepsRegistry DEF registry
<1>2. MainMoves => UNCHANGED clients \/ Admit \/ MarkWelcomed
  BY DEF MainMoves, Start, LoopTop, ReapCheck, ReapJoin, Idle, Accepting, Accept, Refuse,
         CloseRefused, Spawn, ListVictims, Cut, JoinAll
<1>3. ASSUME NEW c \in Conn, HandlerMoves(c)
      PROVE  UNCHANGED clients \/ Leave(c) \/ \E n \in Wanted : Nick(c, n)
  BY <1>3 DEF HandlerMoves, Quit, Eof, Close, PeerCloses
<1> QED BY <1>1, <1>2, <1>3, NextCases

\* The record accept_one adds: a new descriptor under a name nobody has.
LEMMA AdmitAdds ==
  ASSUME IInv, Admit
  PROVE  LET f == fd[cur.conn]
         IN  /\ f \in FD /\ f \notin Registered /\ cur.conn \in Conn
             /\ Registered' = Registered \cup {f}
             /\ \A g \in Registered : clients'[g] = clients[g]
             /\ clients'[f] \in ClientRecord
             /\ clients'[f].nick \notin NamesInUse
             /\ clients'[f].lock = cur.conn
             /\ clients' \in [Registered' -> ClientRecord]
<1> DEFINE f == fd[cur.conn]
<1>1. PICK n \in Name :
        /\ n \notin NamesInUse
        /\ clients' = [g \in Registered \cup {f} |->
                         IF g = f THEN [nick |-> n, lock |-> cur.conn, welcomed |-> FALSE]
                                  ELSE clients[g]]
  BY DEF Admit, IsDefaultNick
<1>2. pc[Main] = "admit" /\ cur.conn \in Conn /\ f \in FD /\ owner[f] = cur.conn
      /\ pc[cur.conn] = "unborn"
  BY DEF Admit, At, IInv, DescriptorsHeld
<1>3. f \notin Registered
  <2>1. fd[cur.conn] \in Registered => clients[f].lock \in Seated /\ fd[clients[f].lock] = f
    BY DEF IInv, RegistryMatches
  <2>2. Seated = {c \in Conn : pc[c] \in {"recv", "leave"}}
    BY <1>2 DEF Seated, Joining
  <2>3. \A c \in Seated : owner[fd[c]] = c
    BY <2>2 DEF IInv, DescriptorsHeld
  <2> QED BY <1>2, <2>1, <2>2, <2>3
<1>4. clients \in [Registered -> ClientRecord]
  BY DEF IInv, TypeOK
<1>5. Registered' = Registered \cup {f}
  BY <1>1 DEF Registered
<1> HIDE DEF f
<1>6. [nick |-> n, lock |-> cur.conn, welcomed |-> FALSE] \in ClientRecord
  BY <1>2 DEF ClientRecord
<1> QED BY <1>1, <1>2, <1>3, <1>4, <1>5, <1>6 DEF f

\* The record being renamed by handle_nick, and the others untouched.
LEMMA NickRenames ==
  ASSUME IInv, NEW c \in Conn, NEW n \in Wanted, Nick(c, n)
  PROVE  /\ Registered' = Registered
         /\ clients' \in [Registered' -> ClientRecord]
         /\ \A f \in Registered : clients'[f].lock = clients[f].lock
         /\ \/ UNCHANGED clients
            \/ /\ fd[c] \in Registered
               /\ \A f \in Registered : clients'[f].nick = IF f = fd[c] THEN n ELSE clients[f].nick
               /\ \A f \in Registered \ {fd[c]} : clients[f].nick # n
<1>1. clients \in [Registered -> ClientRecord] /\ n \in Name
  BY ServerConstants DEF IInv, TypeOK
<1>2. CASE UNCHANGED clients
  BY <1>1, <1>2 DEF Registered
<1>3. CASE /\ clients' = [clients EXCEPT ![fd[c]].nick = n]
           /\ \A f \in Registered \ {fd[c]} : clients[f].nick # n
  BY <1>1, <1>3, NickMoves DEF Registered, ClientRecord
<1> QED BY <1>2, <1>3, NickMoves

\* The other changes to clients_ leave every remaining nickname as it was.
LEMMA OtherChanges ==
  ASSUME IInv, MarkWelcomed \/ \E c \in Conn : Leave(c)
  PROVE  /\ Registered' \subseteq Registered
         /\ clients' \in [Registered' -> ClientRecord]
         /\ \A f \in Registered' : clients'[f].nick = clients[f].nick
<1>1. clients \in [Registered -> ClientRecord]
  BY DEF IInv, TypeOK
<1>2. CASE MarkWelcomed
  BY <1>1, <1>2 DEF MarkWelcomed, Registered, ClientRecord
<1>3. CASE \E c \in Conn : Leave(c)
  <2> PICK c \in Conn : clients' = [f \in Registered \ {fd[c]} |-> clients[f]]
    BY <1>3 DEF Leave
  <2>1. Registered' = Registered \ {fd[c]}
    BY DEF Registered
  <2> QED BY <1>1, <2>1
<1> QED BY <1>2, <1>3

\* No step makes two nicknames equal.
LEMMA NicksStep ==
  ASSUME IInv, [Next]_vars
  PROVE  NickUnique'
<1> SUFFICES ASSUME NEW f \in Registered', NEW g \in Registered', f # g
             PROVE  clients'[f].nick # clients'[g].nick
  BY DEF NickUnique
<1>1. \A x, y \in Registered : x # y => clients[x].nick # clients[y].nick
  BY DEF IInv, NickUnique
<1>2. CASE UNCHANGED clients
  BY <1>1, <1>2 DEF Registered
<1>3. CASE Admit
  <2>1. \A x \in Registered : clients'[x].nick \in NamesInUse
    BY <1>3, AdmitAdds DEF NamesInUse
  <2> QED BY <1>1, <1>3, <2>1, AdmitAdds
<1>4. CASE MarkWelcomed \/ \E c \in Conn : Leave(c)
  BY <1>1, <1>4, OtherChanges
<1>5. ASSUME NEW c \in Conn, NEW n \in Wanted, Nick(c, n)
      PROVE  clients'[f].nick # clients'[g].nick
  BY <1>1, <1>2, <1>5, NickRenames
<1> QED BY <1>2, <1>3, <1>4, <1>5, ClientsChange

\* Only accept_one adds a record, and only below capacity.
LEMMA CapacityStep ==
  ASSUME IInv, [Next]_vars
  PROVE  WithinCapacity'
<1>1. IsFiniteSet(Registered) /\ Cardinality(Registered) \in Nat
  BY ServerConstants, FS_Subset, FS_CardinalityType DEF IInv, TypeOK
<1>2. Cardinality(Registered) <= MaxClients /\ MaxClients \in Nat
  BY ServerConstants DEF IInv, WithinCapacity
<1>3. CASE Admit
  <2>1. ~(Cardinality(Registered) >= MaxClients)
    BY <1>3 DEF Admit, Full
  <2>2. Cardinality(Registered') = Cardinality(Registered) + 1
    BY <1>1, <1>3, AdmitAdds, FS_AddElement
  <2> QED BY <1>1, <1>2, <2>1, <2>2 DEF WithinCapacity
<1>4. CASE Registered' \subseteq Registered
  <2>1. Cardinality(Registered') <= Cardinality(Registered) /\ Cardinality(Registered') \in Nat
    BY <1>1, <1>4, FS_Subset, FS_CardinalityType
  <2> QED BY <1>1, <1>2, <2>1 DEF WithinCapacity
<1>5. UNCHANGED clients => Registered' = Registered
  BY DEF Registered
<1> QED BY <1>3, <1>4, <1>5, ClientsChange, OtherChanges, NickRenames

\* The part of TypeOK about everything but records, entries and messages.
PlainTypes ==
  /\ running \in BOOLEAN /\ asked \in BOOLEAN
  /\ owner \in [FD -> Conn \cup {NoConn}]
  /\ peer \in [Conn -> {"idle", "up", "gone", "shut", "closed"}]
  /\ pc \in [Thread -> MainLabel \cup HandlerLabel]
  /\ inFrame \in [Thread -> BOOLEAN]
  /\ fd \in [Conn -> FD \cup {NoFd}]
  /\ cur \in [conn : Conn \cup {NoConn}, nick : Name \cup {NoName}]
  /\ victims \subseteq FD
  /\ lines \in Nat

\* The part of TypeOK about messages.
MessageTypes ==
  /\ stream \in [Conn -> Seq([part : {"header", "body"}, by : Thread,
                              to : Conn \cup {NoConn}, frame : Frame])]
  /\ todo \in [Thread -> Seq(Step)]

\* The typing of the state that the invariant gives, in its two parts.
LEMMA TypeParts ==
  ASSUME IInv
  PROVE  PlainTypes /\ MessageTypes /\ Registered \subseteq FD
BY DEF IInv, TypeOK, PlainTypes, MessageTypes, MainLabel, HandlerLabel

\* A step keeps the types of everything but the queues and the streams.
LEMMA PlainTypesStep ==
  ASSUME IInv, [Next]_vars
  PROVE  PlainTypes'
<1> USE ServerConstants, TypeParts DEF PlainTypes, MainLabel, HandlerLabel, Thread
<1>1. CASE Quiet
  <2>1. CASE \E t \in Thread : Sending(t)
    <3> PICK t \in Thread : Sending(t)
      BY <2>1
    <3>1. UNCHANGED <<running, asked, owner, peer, pc, fd, cur, victims, lines>>
      BY DEF Sending, Snapshot, Lookup, PutHeader, PutBody, PutFails
    <3>2. \/ UNCHANGED inFrame
          \/ \E v \in BOOLEAN : inFrame' = [inFrame EXCEPT ![t] = v]
      BY DEF Sending, Snapshot, Lookup, PutHeader, PutBody, PutFails
    <3>3. inFrame' \in [Thread -> BOOLEAN]
      BY <3>2
    <3> QED BY <3>1, <3>3
  <2>2. CASE \E c \in Conn : Say(c) \/ List(c) \/ BadLine(c) \/ \E n \in Wanted : Msg(c, n)
    BY <2>2 DEF Say, List, BadLine, Msg, Line
  <2>3. CASE RequestShutdown \/ UNCHANGED vars
    BY <2>3 DEF RequestShutdown, vars
  <2> QED BY <1>1, <2>1, <2>2, <2>3 DEF Quiet
<1>2. CASE MainMoves
  <2>0. CASE Start
    BY <2>0 DEF Start
  <2>1. CASE LoopTop
    BY <2>1 DEF LoopTop
  <2>2. CASE ReapCheck
    BY <2>2 DEF ReapCheck
  <2>3. CASE ReapJoin
    BY <2>3 DEF ReapJoin
  <2>4. CASE Idle
    BY <2>4 DEF Idle
  <2>5. CASE Accepting
    BY <2>5 DEF Accepting, Accept
  <2>6. CASE Admit
    BY <2>6 DEF Admit
  <2>7. CASE Refuse
    BY <2>7 DEF Refuse
  <2>8. CASE CloseRefused
    BY <2>8 DEF CloseRefused
  <2>9. CASE MarkWelcomed
    BY <2>9 DEF MarkWelcomed
  <2>10. CASE Spawn
    BY <2>10 DEF Spawn
  <2>11. CASE ListVictims
    BY <2>11 DEF ListVictims
  <2>12. CASE JoinAll
    BY <2>12 DEF JoinAll
  <2>13. CASE \E f \in FD : Cut(f)
    BY <2>13 DEF Cut
  <2> QED BY <1>2, <2>0, <2>1, <2>2, <2>3, <2>4, <2>5, <2>6, <2>7, <2>8, <2>9,
             <2>10, <2>11, <2>12, <2>13 DEF MainMoves
<1>3. ASSUME NEW c \in Conn, HandlerMoves(c) PROVE PlainTypes'
  <2>1. CASE \E n \in Wanted : Nick(c, n)
    BY <2>1 DEF Nick, Line
  <2>2. CASE Quit(c)
    BY <2>2 DEF Quit
  <2>3. CASE Eof(c)
    BY <2>3 DEF Eof
  <2>4. CASE Leave(c)
    BY <2>4 DEF Leave
  <2>5. CASE Close(c)
    BY <2>5 DEF Close
  <2>6. CASE PeerCloses(c)
    BY <2>6 DEF PeerCloses
  <2> QED BY <1>3, <2>1, <2>2, <2>3, <2>4, <2>5, <2>6 DEF HandlerMoves
<1> QED BY <1>1, <1>2, <1>3, NextCases

\* The constructors of a sending step, on arguments of the right kind.
LEMMA Steps ==
  /\ \A k \in FrameKind, n \in Name \cup {NoName} : F(k, n) \in Frame
  /\ \A x \in Frame, f \in FD \cup {NoFd} : Bcast(x, f) \in Step
  /\ \A x \in Frame, f \in FD \cup {NoFd}, c \in Conn \cup {NoConn} : SendTo(f, c, x) \in Step
  /\ \A x \in Frame, f \in FD \cup {NoFd}, l, c \in Conn \cup {NoConn} : Put(f, l, c, x) \in Step
BY DEF F, Frame, Bcast, SendTo, Put, Step

\* What a thread has to send: the head of its queue and the rest.
LEMMA QueueFacts ==
  ASSUME MessageTypes, NEW t \in Thread, todo[t] # <<>>
  PROVE  /\ Head(todo[t]) \in Step
         /\ Tail(todo[t]) \in Seq(Step)
BY HeadTailProperties DEF MessageTypes

\* broadcast's snapshot queues one well-typed frame per target.
LEMMA SnapshotTypes ==
  ASSUME IInv, NEW t \in Thread, Snapshot(t)
  PROVE  MessageTypes'
<1> USE DEF MessageTypes
<1>1. MessageTypes /\ Registered \subseteq FD /\ PlainTypes
  BY TypeParts
<1>2. todo[t] # <<>> /\ Head(todo[t]) \in Step /\ Tail(todo[t]) \in Seq(Step)
  BY <1>1, QueueFacts DEF Snapshot, Doing
<1> DEFINE b == Head(todo[t])
           targets == {f \in Registered : f # b.fd /\ clients[f].welcomed}
           puts(o) == [i \in DOMAIN o |->
                         Put(o[i], clients[o[i]].lock, owner[o[i]], b.frame)]
<1>3. PICK o \in SetToSeqs(targets) : todo' = [todo EXCEPT ![t] = puts(o) \o Tail(@)]
  BY DEF Snapshot
<1>4. b.frame \in Frame
  BY <1>2 DEF Step
<1>5. o \in [1..Cardinality(targets) -> targets]
  BY DEF SetToSeqs
<1>6. ASSUME NEW i \in DOMAIN o
      PROVE  Put(o[i], clients[o[i]].lock, owner[o[i]], b.frame) \in Step
  <2>1. o[i] \in Registered
    BY <1>5, <1>6
  <2>2. clients[o[i]].lock \in Conn /\ owner[o[i]] \in Conn \cup {NoConn} /\ o[i] \in FD
    BY <1>1, <2>1 DEF IInv, TypeOK, ClientRecord, PlainTypes
  <2> QED BY <1>4, <2>2, Steps
<1>7. Cardinality(targets) \in Nat
  <2>1. IsFiniteSet(targets)
    BY <1>1, ServerConstants, FS_Subset
  <2> QED BY <2>1, FS_CardinalityType
<1> HIDE DEF b, targets
<1>8. puts(o) \in Seq(Step)
  <2>1. puts(o) \in [1..Cardinality(targets) -> Step]
    BY <1>5, <1>6
  <2> HIDE DEF puts
  <2> QED BY <1>7, <2>1, SeqDef
<1> HIDE DEF puts
<1>9. puts(o) \o Tail(todo[t]) \in Seq(Step)
  BY <1>2, <1>8, ConcatProperties
<1>10. UNCHANGED stream
  BY DEF Snapshot
<1> QED BY <1>1, <1>3, <1>9, <1>10

\* One piece of a frame, appended to the history of a connection or dropped.
LEMMA ExtendedType ==
  ASSUME IInv, NEW t \in Thread, todo[t] # <<>>, NEW part \in {"header", "body"},
         stream' = Extended(t, part)
  PROVE  stream' \in [Conn -> Seq([part : {"header", "body"}, by : Thread,
                                   to : Conn \cup {NoConn}, frame : Frame])]
<1> DEFINE P == [part : {"header", "body"}, by : Thread, to : Conn \cup {NoConn},
                 frame : Frame]
<1>1. Head(todo[t]) \in Step
  BY QueueFacts, TypeParts
<1>2. Piece(t, part) \in P
  BY <1>1 DEF Piece, Step
<1>3. stream \in [Conn -> Seq(P)]
  BY TypeParts DEF MessageTypes
<1> HIDE DEF P
<1>4. \A c \in Conn : Append(stream[c], Piece(t, part)) \in Seq(P)
  BY <1>2, <1>3, AppendProperties
<1>5. stream' \in [Conn -> Seq(P)]
  BY <1>3, <1>4 DEF Extended
<1> QED BY <1>5 DEF P

\* A sending step, of any thread, keeps the queues and streams well typed.
LEMMA SendingTypes ==
  ASSUME IInv, NEW t \in Thread, Sending(t)
  PROVE  MessageTypes'
<1>1. MessageTypes /\ PlainTypes /\ Registered \subseteq FD
  BY TypeParts
<1>2. todo[t] # <<>>
  BY DEF Sending, Snapshot, Lookup, PutHeader, PutBody, PutFails, Doing
<1>3. Head(todo[t]) \in Step /\ Tail(todo[t]) \in Seq(Step)
  BY <1>1, <1>2, QueueFacts
<1>4. CASE Snapshot(t)
  BY <1>4, SnapshotTypes
<1>5. CASE Lookup(t)
  <2> DEFINE h == Head(todo[t])
             p == Put(h.fd, clients[h.fd].lock, h.to, h.frame)
  <2>1. h.fd \in Registered => p \in Step
    <3> SUFFICES ASSUME h.fd \in Registered PROVE p \in Step
      OBVIOUS
    <3>1. clients[h.fd].lock \in Conn
      BY DEF IInv, TypeOK, ClientRecord
    <3>2. h.fd \in FD \cup {NoFd} /\ h.to \in Conn \cup {NoConn} /\ h.frame \in Frame
      BY <1>3 DEF Step
    <3> QED BY <3>1, <3>2, Steps
  <2>2. /\ todo' = [todo EXCEPT ![t] = IF h.fd \in Registered
                                         THEN <<p>> \o Tail(@) ELSE Tail(@)]
        /\ UNCHANGED stream
    BY <1>5 DEF Lookup
  <2> HIDE DEF p, h
  <2>3. h.fd \in Registered => <<p>> \o Tail(todo[t]) \in Seq(Step)
    <3> SUFFICES ASSUME p \in Step PROVE <<p>> \o Tail(todo[t]) \in Seq(Step)
      BY <2>1
    <3>1. <<p>> \in Seq(Step)
      OBVIOUS
    <3> QED BY <1>3, <3>1, ConcatProperties
  <2> QED BY <1>1, <1>3, <2>2, <2>3 DEF MessageTypes
<1>6. CASE PutHeader(t)
  <2>1. stream' = Extended(t, "header") /\ UNCHANGED todo
    BY <1>6 DEF PutHeader
  <2> QED BY <1>1, <1>2, <2>1, ExtendedType DEF MessageTypes
<1>7. CASE PutBody(t)
  <2>1. stream' = Extended(t, "body") /\ todo' = [todo EXCEPT ![t] = Tail(@)]
    BY <1>7 DEF PutBody
  <2> QED BY <1>1, <1>2, <1>3, <2>1, ExtendedType DEF MessageTypes
<1>8. CASE PutFails(t)
  BY <1>1, <1>3, <1>8 DEF PutFails, MessageTypes
<1> QED BY <1>4, <1>5, <1>6, <1>7, <1>8 DEF Sending

\* A step that leaves stream alone and gives one thread a short queue.
LEMMA QueueSet ==
  ASSUME MessageTypes, UNCHANGED stream, NEW t \in Thread, NEW q \in Seq(Step),
         todo' = [todo EXCEPT ![t] = q]
  PROVE  MessageTypes'
BY DEF MessageTypes

\* Queues of no, one and two well-typed steps are well typed.
LEMMA ShortQueues ==
  /\ <<>> \in Seq(Step)
  /\ \A a \in Step : <<a>> \in Seq(Step)
  /\ \A a, b \in Step : <<a, b>> \in Seq(Step)
OBVIOUS

\* A handler's descriptor, and what it replies.
LEMMA ReplyTypes ==
  ASSUME IInv, NEW c \in Conn
  PROVE  /\ fd[c] \in FD \cup {NoFd}
         /\ \A x \in Frame : Reply(c, x) \in Step
<1>1. fd[c] \in FD \cup {NoFd}
  BY TypeParts DEF PlainTypes
<1> QED BY <1>1, Steps DEF Reply

\* What a handler queues for a line received is well typed.
LEMMA LineTypes ==
  ASSUME IInv, NEW c \in Conn, LineStep(c)
  PROVE  MessageTypes'
<1>1. MessageTypes /\ c \in Thread /\ Registered \subseteq FD /\ PlainTypes
  BY TypeParts DEF Thread
<1>2. \A f \in Registered : clients[f].nick \in Name
  BY DEF IInv, TypeOK, ClientRecord
<1>3. Reply(c, F("ERR", NoName)) \in Step /\ fd[c] \in FD \cup {NoFd}
  BY ReplyTypes, Steps DEF FrameKind
<1>4. CASE Say(c)
  <2> DEFINE q == IF fd[c] \in Registered
                    THEN <<Bcast(F("MSG", clients[fd[c]].nick), fd[c])>> ELSE <<>>
  <2>1. todo' = [todo EXCEPT ![c] = q] /\ UNCHANGED stream
    BY <1>4 DEF Say, Line
  <2>2. fd[c] \in Registered => Bcast(F("MSG", clients[fd[c]].nick), fd[c]) \in Step
    BY <1>2, <1>3, Steps DEF FrameKind
  <2>3. q \in Seq(Step)
    BY <2>2, ShortQueues
  <2> QED BY <1>1, <2>1, <2>3, QueueSet
<1>5. CASE List(c)
  <2> DEFINE names == {clients[f].nick : f \in {g \in Registered : clients[g].welcomed}}
             x == [kind |-> "LIST", nick |-> NoName, arg |-> names]
  <2>1. todo' = [todo EXCEPT ![c] = <<Reply(c, x)>>] /\ UNCHANGED stream
    BY <1>5 DEF List, Line
  <2>2. x \in Frame
    BY <1>2 DEF Frame, FrameKind
  <2> HIDE DEF x
  <2>3. <<Reply(c, x)>> \in Seq(Step)
    BY <2>2, ReplyTypes, ShortQueues
  <2> QED BY <1>1, <2>1, <2>3, QueueSet
<1>6. CASE BadLine(c)
  <2>1. todo' = [todo EXCEPT ![c] = <<Reply(c, F("ERR", NoName))>>] /\ UNCHANGED stream
    BY <1>6 DEF BadLine, Line
  <2> QED BY <1>1, <1>3, <2>1, ShortQueues, QueueSet
<1>7. CASE Quit(c)
  <2>1. /\ UNCHANGED stream
        /\ \/ UNCHANGED todo
           \/ todo' = [todo EXCEPT ![c] = <<Reply(c, F("ERR", NoName))>>]
    BY <1>7 DEF Quit
  <2>2. CASE UNCHANGED todo
    BY <1>1, <2>1, <2>2 DEF MessageTypes
  <2> QED BY <1>1, <1>3, <2>1, <2>2, ShortQueues, QueueSet
<1>8. ASSUME NEW n \in Wanted, Nick(c, n) PROVE MessageTypes'
  <2> DEFINE x == [kind |-> "NICK", nick |-> clients[fd[c]].nick, arg |-> n]
  <2>1. fd[c] \in Registered /\ UNCHANGED stream
    BY <1>8 DEF Nick, Line
  <2>2. n \in Name
    BY ServerConstants
  <2>3. x \in Frame
    BY <1>2, <2>1, <2>2 DEF Frame, FrameKind
  <2>4. \/ todo' = [todo EXCEPT ![c] = <<Reply(c, F("ERR", NoName))>>]
        \/ todo' = [todo EXCEPT ![c] = <<Bcast(x, NoFd)>>]
    BY <1>8 DEF Nick
  <2> HIDE DEF x
  <2>5. Bcast(x, NoFd) \in Step
    BY <2>3, Steps
  <2> QED BY <1>1, <1>3, <2>1, <2>4, <2>5, ShortQueues, QueueSet
<1>9. ASSUME NEW n \in Wanted, Msg(c, n) PROVE MessageTypes'
  <2> DEFINE me == clients[fd[c]].nick
             found == {f \in Registered : clients[f].welcomed /\ clients[f].nick = n}
             g == CHOOSE f \in found : TRUE
             q == <<SendTo(g, owner[g], F("PRIV", me)), Reply(c, F("PRIV_SENT", n))>>
  <2>1. fd[c] \in Registered /\ UNCHANGED stream /\ me \in Name /\ n \in Name
    BY <1>2, <1>9, ServerConstants DEF Msg, Line
  <2>2. todo' = [todo EXCEPT ![c] = IF found \in {{}, {fd[c]}}
                                      THEN <<Reply(c, F("ERR", NoName))>> ELSE q]
    BY <1>9 DEF Msg
  <2>3. ASSUME found \notin {{}, {fd[c]}} PROVE q \in Seq(Step)
    <3>1. g \in found
      BY <2>3
    <3>2. g \in FD /\ owner[g] \in Conn \cup {NoConn}
      BY <1>1, <3>1 DEF PlainTypes
    <3> HIDE DEF g, me
    <3>3. SendTo(g, owner[g], F("PRIV", me)) \in Step
      BY <2>1, <3>2, Steps DEF FrameKind
    <3>4. Reply(c, F("PRIV_SENT", n)) \in Step
      BY <2>1, ReplyTypes, Steps DEF FrameKind
    <3> QED BY <3>3, <3>4, ShortQueues
  <2> HIDE DEF q, found
  <2>4. (IF found \in {{}, {fd[c]}} THEN <<Reply(c, F("ERR", NoName))>> ELSE q) \in Seq(Step)
    BY <1>3, <2>3, ShortQueues
  <2> QED BY <1>1, <2>1, <2>2, <2>4, QueueSet
<1> QED BY <1>4, <1>5, <1>6, <1>7, <1>8, <1>9 DEF LineStep

\* What the accept loop and shutdown_all queue is well typed.
LEMMA MainTypes ==
  ASSUME IInv, MainMoves
  PROVE  MessageTypes'
<1>1. MessageTypes /\ Main \in Thread /\ PlainTypes
  BY TypeParts DEF Thread
<1>2. UNCHANGED stream
  BY DEF MainMoves, Start, LoopTop, ReapCheck, ReapJoin, Idle, Accepting, Accept, Admit,
     Refuse, CloseRefused, MarkWelcomed, Spawn, ListVictims, Cut, JoinAll
<1>3. cur.nick \in Name \cup {NoName}
  BY <1>1 DEF PlainTypes
<1>4. CASE UNCHANGED todo
  BY <1>1, <1>2, <1>4 DEF MessageTypes
<1>5. CASE LoopTop
  <2>1. UNCHANGED todo \/ todo' = [todo EXCEPT ![Main] = <<Bcast(F("BYE", NoName), NoFd)>>]
    BY <1>5 DEF LoopTop
  <2>2. Bcast(F("BYE", NoName), NoFd) \in Step
    BY Steps DEF FrameKind
  <2> QED BY <1>1, <1>2, <1>4, <2>1, <2>2, ShortQueues, QueueSet
<1>6. CASE Admit
  <2>1. PICK n \in Name :
          todo' = [todo EXCEPT ![Main] = <<SendTo(fd[cur.conn], cur.conn, F("WELCOME", n))>>]
    BY <1>6 DEF Admit
  <2>2. cur.conn \in Conn /\ fd[cur.conn] \in FD
    BY <1>6, AdmitAdds
  <2>3. SendTo(fd[cur.conn], cur.conn, F("WELCOME", n)) \in Step
    BY <2>2, Steps DEF FrameKind
  <2> QED BY <1>1, <1>2, <2>1, <2>3, ShortQueues, QueueSet
<1>7. CASE Refuse
  <2>1. todo' = [todo EXCEPT ![Main] =
                   <<Put(fd[cur.conn], NoConn, cur.conn, F("FULL", NoName))>>]
    BY <1>7 DEF Refuse
  <2>2. cur.conn \in Conn /\ fd[cur.conn] \in FD
    BY <1>7 DEF Refuse, At, IInv, DescriptorsHeld
  <2>3. Put(fd[cur.conn], NoConn, cur.conn, F("FULL", NoName)) \in Step
    BY <2>2, Steps DEF FrameKind
  <2> QED BY <1>1, <1>2, <2>1, <2>3, ShortQueues, QueueSet
<1>8. CASE Spawn
  <2>1. todo' = [todo EXCEPT ![Main] = <<Bcast(F("JOINED", cur.nick), fd[cur.conn])>>]
    BY <1>8 DEF Spawn
  <2>2. fd[cur.conn] \in FD
    BY <1>8 DEF Spawn, At, IInv, DescriptorsHeld
  <2>3. Bcast(F("JOINED", cur.nick), fd[cur.conn]) \in Step
    BY <1>3, <2>2, Steps DEF FrameKind
  <2> QED BY <1>1, <1>2, <2>1, <2>3, ShortQueues, QueueSet
<1>9. MainMoves => UNCHANGED todo \/ LoopTop \/ Admit \/ Refuse \/ Spawn
  BY DEF MainMoves, Start, ReapCheck, ReapJoin, Idle, Accepting, Accept, CloseRefused,
     MarkWelcomed, ListVictims, Cut, JoinAll
<1> QED BY <1>4, <1>5, <1>6, <1>7, <1>8, <1>9

\* What a handler queues as its client leaves is well typed.
LEMMA LeaveTypes ==
  ASSUME IInv, NEW c \in Conn, Leave(c)
  PROVE  MessageTypes'
<1>1. MessageTypes /\ c \in Thread /\ fd[c] \in FD \cup {NoFd} /\ UNCHANGED stream
  BY TypeParts, ReplyTypes DEF Thread, Leave
<1> DEFINE q == IF fd[c] \in Registered
                  THEN <<Bcast(F("LEFT", clients[fd[c]].nick), fd[c])>> ELSE <<>>
<1>2. todo' = [todo EXCEPT ![c] = q]
  BY DEF Leave
<1>3. fd[c] \in Registered => Bcast(F("LEFT", clients[fd[c]].nick), fd[c]) \in Step
  <2>1. fd[c] \in Registered => clients[fd[c]].nick \in Name
    BY DEF IInv, TypeOK, ClientRecord
  <2> QED BY <1>1, <2>1, Steps DEF FrameKind
<1>4. q \in Seq(Step)
  BY <1>3, ShortQueues
<1> QED BY <1>1, <1>2, <1>4, QueueSet

\* A step keeps the queues and the streams well typed.
LEMMA MessageTypesStep ==
  ASSUME IInv, [Next]_vars
  PROVE  MessageTypes'
<1>1. CASE UNCHANGED <<todo, stream>>
  BY <1>1, TypeParts DEF MessageTypes
<1>2. CASE Quiet
  <2>1. CASE \E t \in Thread : Sending(t)
    BY <2>1, SendingTypes
  <2>2. CASE \E c \in Conn : Say(c) \/ List(c) \/ BadLine(c) \/ \E n \in Wanted : Msg(c, n)
    BY <2>2, LineTypes DEF LineStep
  <2>3. CASE RequestShutdown \/ UNCHANGED vars
    BY <2>3, <1>1 DEF RequestShutdown, vars
  <2> QED BY <1>2, <2>1, <2>2, <2>3 DEF Quiet
<1>3. CASE MainMoves
  BY <1>3, MainTypes
<1>4. ASSUME NEW c \in Conn, HandlerMoves(c) PROVE MessageTypes'
  <2>1. CASE LineStep(c)
    BY <2>1, LineTypes
  <2>2. CASE Leave(c)
    BY <2>2, LeaveTypes
  <2>3. CASE Eof(c) \/ Close(c) \/ PeerCloses(c)
    BY <2>3, <1>1 DEF Eof, Close, PeerCloses
  <2> QED BY <1>4, <2>1, <2>2, <2>3 DEF HandlerMoves, LineStep
<1> QED BY <1>2, <1>3, <1>4, NextCases

\* A step keeps clients_ a function from descriptors to records.
LEMMA ClientTypesStep ==
  ASSUME IInv, [Next]_vars
  PROVE  Registered' \subseteq FD /\ clients' \in [Registered' -> ClientRecord]
<1>1. Registered \subseteq FD /\ clients \in [Registered -> ClientRecord]
  BY DEF IInv, TypeOK
<1>2. CASE UNCHANGED clients
  BY <1>1, <1>2 DEF Registered
<1>3. CASE Admit
  BY <1>1, <1>3, AdmitAdds
<1>4. CASE MarkWelcomed \/ \E c \in Conn : Leave(c)
  BY <1>1, <1>4, OtherChanges
<1>5. ASSUME NEW c \in Conn, NEW n \in Wanted, Nick(c, n)
      PROVE  Registered' \subseteq FD /\ clients' \in [Registered' -> ClientRecord]
  BY <1>1, <1>5, NickRenames
<1> QED BY <1>2, <1>3, <1>4, <1>5, ClientsChange

\* A step keeps the type invariant.
LEMMA TypesStep ==
  ASSUME IInv, [Next]_vars
  PROVE  TypeOK'
BY ClientTypesStep, PlainTypesStep, MessageTypesStep, ThreadsStep, ScanStep
   DEF TypeOK, PlainTypes, MessageTypes, MainLabel, HandlerLabel

----------------------------------------------------------------------------
(* The theorems.                                                           *)

\* The invariant holds of the server that has just started to listen.
LEMMA InvInit == Init => IInv
<1> SUFFICES ASSUME Init PROVE IInv
  OBVIOUS
<1> USE ServerConstants DEF Init
<1>1. Registered = {} /\ clients \in [Registered -> ClientRecord]
  BY DEF Registered
<1>2. <<>> \in Seq([fd : FD, conn : Conn]) /\ <<>> \in Seq(Step) /\ DOMAIN threads = {}
      /\ <<>> \in Seq([part : {"header", "body"}, by : Thread,
                       to : Conn \cup {NoConn}, frame : Frame])
  OBVIOUS
<1>3. TypeOK
  BY <1>1, <1>2 DEF TypeOK
<1>4. Labels
  BY DEF Labels, MainLabel, HandlerLabel, Thread
<1>5. DescriptorsHeld /\ RegistryMatches
  BY <1>1 DEF DescriptorsHeld, RegistryMatches, Seated, Joining, Thread
<1>6. ThreadsMatch /\ JoinsOnlyLeavers /\ NoHandlerForgotten
  BY <1>2 DEF ThreadsMatch, JoinsOnlyLeavers, NoHandlerForgotten, Thread
<1>7. NickUnique
  BY <1>1 DEF NickUnique
<1>8. WithinCapacity
  BY <1>1, FS_EmptySet DEF WithinCapacity
<1> QED BY <1>3, <1>4, <1>5, <1>6, <1>7, <1>8 DEF IInv

\* The invariant is inductive: every step of any thread keeps it.
LEMMA InvStep == IInv /\ [Next]_vars => IInv'
<1> SUFFICES ASSUME IInv, [Next]_vars PROVE IInv'
  OBVIOUS
<1>1. ThreadsMatch'
  BY ThreadsStep, ScanStep DEF ThreadsMatch
<1> QED BY <1>1, TypesStep, LabelsStep, DescriptorsStep, RegistryStep, NicksStep,
           CapacityStep, JoinsStep, ForgottenStep DEF IInv

\* The registry, the descriptor table and the threads agree in every state:
\* the records of clients_ are those of the clients being served or admitted.
THEOREM Invariance == Spec => []IInv
BY InvInit, InvStep, PTL DEF Spec

\* Every variable keeps its type.
THEOREM TypeCorrect == Spec => []TypeOK
<1>1. IInv => TypeOK
  BY DEF IInv
<1> QED BY <1>1, Invariance, PTL

\* No two connected clients ever bear the same nickname, whatever the
\* interleaving of accept_one and handle_nick.
THEOREM NicknamesUnique == Spec => []NickUnique
<1>1. IInv => NickUnique
  BY DEF IInv
<1> QED BY <1>1, Invariance, PTL

\* The room never holds more than max_clients.
THEOREM CapacityKept == Spec => []WithinCapacity
<1>1. IInv => WithinCapacity
  BY DEF IInv
<1> QED BY <1>1, Invariance, PTL

\* Although threads are matched to clients by descriptor, and descriptors are
\* reused, the accept loop only ever joins a thread that is on its way out.
THEOREM ReapingIsSafe == Spec => []JoinsOnlyLeavers
<1>1. IInv => JoinsOnlyLeavers
  BY DEF IInv
<1> QED BY <1>1, Invariance, PTL

\* A record of clients_ is that of the client its descriptor refers to, and
\* every client being served has one: no record outlives its descriptor.
THEOREM NoStaleRecord == Spec => []RegistryMatches
<1>1. IInv => RegistryMatches
  BY DEF IInv
<1> QED BY <1>1, Invariance, PTL

\* A handler is in client_threads_ until it has returned.
THEOREM HandlersTracked == Spec => []NoHandlerForgotten
<1>1. IInv => NoHandlerForgotten
  BY DEF IInv
<1> QED BY <1>1, Invariance, PTL

=============================================================================
