------------------------- MODULE ThreadLinkRoom_proofs -------------------------
(***************************************************************************)
(* ThreadLinkServer implements ChatRoom, for every set of connections,     *)
(* descriptors and names and every capacity.                               *)
(***************************************************************************)
EXTENDS ThreadLinkServer_proofs

\* The room as the threads see it: every seated client, under the nickname
\* its descriptor is registered with.
SeatedNick == [c \in Seated |-> clients[fd[c]].nick]

\* The records of clients_ are those of the seated clients.
LEMMA MemberIsSeated == IInv => Member = SeatedNick
<1> SUFFICES ASSUME IInv PROVE Member = SeatedNick
  OBVIOUS
<1>1. /\ \A f \in Registered : clients[f].lock \in Seated /\ fd[clients[f].lock] = f
      /\ \A c \in Seated : fd[c] \in Registered /\ clients[fd[c]].lock = c
  BY DEF IInv, RegistryMatches
<1>2. {clients[f].lock : f \in Registered} = Seated
  BY <1>1
<1>3. ASSUME NEW c \in Seated
      PROVE  (CHOOSE f \in Registered : clients[f].lock = c) = fd[c]
  BY <1>1
<1> DEFINE seat(c) == CHOOSE f \in Registered : clients[f].lock = c
<1>4. Member = [c \in Seated |-> clients[seat(c)].nick]
  BY <1>2 DEF Member
<1>5. \A c \in Seated : seat(c) = fd[c]
  BY <1>3
<1> HIDE DEF seat
<1>6. [c \in Seated |-> clients[seat(c)].nick] = [c \in Seated |-> clients[fd[c]].nick]
  BY <1>5
<1> QED BY <1>4, <1>6 DEF SeatedNick

\* A step that seats and unseats nobody and renames nobody.
LEMMA RoomUnchanged ==
  ASSUME Seated' = Seated, Gone' = Gone,
         \A c \in Seated : fd'[c] = fd[c] /\ clients'[fd[c]].nick = clients[fd[c]].nick
  PROVE  SeatedNick' = SeatedNick /\ Gone' = Gone
BY DEF SeatedNick

\* Which steps change who is seated and who has left.
LEMMA SeatingSteps ==
  ASSUME IInv, [Next]_vars
  PROVE  \/ Seated' = Seated /\ Gone' = Gone
         \/ /\ Admit /\ Seated' = Seated \cup {cur.conn} /\ Gone' = Gone
            /\ cur.conn \notin Seated \cup Gone
         \/ \E c \in Conn : /\ Leave(c) /\ c \in Seated
                            /\ Seated' = Seated \ {c} /\ Gone' = Gone \cup {c}
<1> USE ServerConstants DEF Seated, Joining, Gone, IInv, Labels, MainLabel,
        HandlerLabel, DescriptorsHeld, TypeOK, Thread
<1>1. CASE Quiet
  BY <1>1, QuietKeepsRegistry DEF registry
<1>2. CASE MainMoves
  <2>1. CASE Start \/ LoopTop \/ ReapCheck
    <3>1. PICK l \in {"loop", "reap", "bye", "ready", "join"} : pc' = [pc EXCEPT ![Main] = l]
      BY <2>1, RoundMoves
    <3>2. pc[Main] \in {"setup", "loop", "reap"} /\ UNCHANGED cur
      BY <2>1, RoundMoves
    <3> QED BY <3>1, <3>2
  <2>2. CASE Admit
    <3>1. /\ pc[Main] = "admit" /\ pc' = [pc EXCEPT ![Main] = "welcome"]
          /\ cur'.conn = cur.conn /\ cur.conn \in Conn /\ pc[cur.conn] = "unborn"
      BY <2>2 DEF Admit, At
    <3>2. Seated' = Seated \cup {cur.conn} /\ Gone' = Gone
      BY <3>1
    <3>3. cur.conn \notin Seated \cup Gone
      BY <3>1
    <3> QED BY <2>2, <3>2, <3>3
  <2>3. CASE MarkWelcomed
    BY <2>3 DEF MarkWelcomed, At
  <2>4. CASE Spawn
    BY <2>4 DEF Spawn, At
  <2>5. CASE ReapJoin \/ Idle \/ Accepting \/ Refuse \/ CloseRefused \/ ListVictims \/ JoinAll
    <3>1. PICK l \in MainLabel \ {"welcome", "spawn"} : pc' = [pc EXCEPT ![Main] = l]
      BY <2>5 DEF ReapJoin, Idle, Accepting, Accept, Refuse, CloseRefused, ListVictims, JoinAll
    <3>2. pc[Main] \notin {"welcome", "spawn"}
      BY <2>5 DEF ReapJoin, Idle, Accepting, Accept, Refuse, CloseRefused, ListVictims,
         JoinAll, At
    <3> QED BY <3>1, <3>2
  <2>6. CASE \E f \in FD : Cut(f)
    BY <2>6 DEF Cut, At
  <2> QED BY <1>2, <2>1, <2>2, <2>3, <2>4, <2>5, <2>6 DEF MainMoves
<1>3. ASSUME NEW c \in Conn, HandlerMoves(c)
      PROVE  \/ Seated' = Seated /\ Gone' = Gone
             \/ /\ Leave(c) /\ c \in Seated
                /\ Seated' = Seated \ {c} /\ Gone' = Gone \cup {c}
  <2>1. CASE \E n \in Wanted : Nick(c, n)
    <3>1. PICK n \in Wanted : Nick(c, n)
      BY <2>1
    <3>2. UNCHANGED <<threads, owner, peer, pc, fd, cur, scan>>
      BY <3>1, NickMoves
    <3>3. Seated' = Seated /\ Gone' = Gone
      BY <3>2
    <3> QED BY <3>3
  <2>2. CASE Quit(c) \/ Eof(c)
    <3>1. pc[c] = "recv" /\ pc' = [pc EXCEPT ![c] = "leave"] /\ UNCHANGED cur
      BY <2>2 DEF Quit, Eof, At
    <3>2. pc'[Main] = pc[Main]
      BY <3>1
    <3> QED BY <3>1, <3>2
  <2>3. CASE Leave(c)
    BY <2>3 DEF Leave, At
  <2>4. CASE Close(c)
    BY <2>4 DEF Close, At
  <2>5. CASE PeerCloses(c)
    BY <2>5 DEF PeerCloses
  <2> QED BY <1>3, <2>1, <2>2, <2>3, <2>4, <2>5 DEF HandlerMoves
<1> QED BY <1>1, <1>2, <1>3, NextCases

\* A seated client keeps its descriptor.
LEMMA SeatedKeepDescriptor ==
  ASSUME IInv, [Next]_vars
  PROVE  \A c \in Seated : fd'[c] = fd[c]
<1>1. \A c \in Conn : pc[c] # "unborn" => fd'[c] = fd[c]
  BY HandlersStep DEF HandlersAdvance
<1>2. pc[Main] \in {"welcome", "spawn"} => UNCHANGED fd
  <2> SUFFICES ASSUME pc[Main] \in {"welcome", "spawn"} PROVE UNCHANGED fd
    OBVIOUS
  <2>1. Quiet => UNCHANGED fd
    BY QuietKeepsRegistry DEF registry
  <2>2. MainMoves => UNCHANGED fd
    BY DEF MainMoves, Start, LoopTop, ReapCheck, ReapJoin, Idle, Accepting, Accept, Admit,
       Refuse, CloseRefused, MarkWelcomed, Spawn, ListVictims, Cut, JoinAll, At
  <2>3. ASSUME NEW c \in Conn, HandlerMoves(c) PROVE UNCHANGED fd
    BY <2>3 DEF HandlerMoves, Nick, Line, Quit, Eof, Leave, Close, PeerCloses
  <2> QED BY <2>1, <2>2, <2>3, NextCases
<1> QED BY <1>1, <1>2 DEF Seated, Joining

\* The initial room is empty.
LEMMA RoomInit == Init => Room!Init
<1> SUFFICES ASSUME Init PROVE Room!Init
  OBVIOUS
<1>1. IInv
  BY InvInit
<1>2. Seated = {} /\ Gone = {}
  BY ServerConstants DEF Init, Seated, Joining, Gone, Thread
<1>3. Member = SeatedNick
  BY <1>1, MemberIsSeated
<1> QED BY <1>2, <1>3 DEF Room!Init, SeatedNick

\* accept_one admitting a client is Join.
LEMMA AdmitJoins ==
  ASSUME IInv, Admit, [Next]_vars, SeatedNick' = Member', Member = SeatedNick,
         Seated' = Seated \cup {cur.conn}, Gone' = Gone,
         cur.conn \notin Seated \cup Gone
  PROVE  \E p \in Conn, n \in Name : Room!Join(p, n)
<1> DEFINE p == cur.conn
           n == clients'[fd[p]].nick
<1>1. /\ p \in Conn /\ fd[p] \in FD /\ fd[p] \notin Registered
      /\ clients'[fd[p]] \in ClientRecord /\ n \notin NamesInUse
      /\ \A g \in Registered : clients'[g] = clients[g]
  BY AdmitAdds
<1>2. n \in Name
  BY <1>1 DEF ClientRecord
<1>3. Room!Present = Seated /\ \A c \in Seated : fd[c] \in Registered
  BY DEF Room!Present, SeatedNick, IInv, RegistryMatches
<1>4. Cardinality(Seated) < MaxClients
  <2> DEFINE lock == [f \in Registered |-> clients[f].lock]
  <2>1. lock \in Surjection(Registered, Seated)
    BY DEF Surjection, IInv, RegistryMatches
  <2>2. IsFiniteSet(Registered) /\ Cardinality(Registered) \in Nat
    BY ServerConstants, FS_Subset, FS_CardinalityType DEF IInv, TypeOK
  <2>3. Cardinality(Seated) <= Cardinality(Registered) /\ IsFiniteSet(Seated)
    BY <2>1, <2>2, FS_Surjection
  <2>4. Cardinality(Seated) \in Nat
    BY <2>3, FS_CardinalityType
  <2>5. ~(Cardinality(Registered) >= MaxClients) /\ MaxClients \in Nat
    BY ServerConstants DEF Admit, Full
  <2> QED BY <2>2, <2>3, <2>4, <2>5
<1>5. Room!Free(n)
  BY <1>1, <1>3 DEF Room!Free, SeatedNick, NamesInUse
<1>6. UNCHANGED fd
  BY DEF Admit
<1>7. Member' = [q \in Seated \cup {p} |-> IF q = p THEN n ELSE Member[q]]
  <2>1. \A q \in Seated : q # p /\ clients'[fd[q]].nick = Member[q]
    BY <1>1, <1>3 DEF SeatedNick
  <2> QED BY <1>6, <2>1 DEF SeatedNick
<1>8. p \notin Room!Present \cup Gone /\ Cardinality(Room!Present) < MaxClients
  BY <1>3, <1>4
<1>9. Member' = [q \in Room!Present \cup {p} |-> IF q = p THEN n ELSE Member[q]]
  BY <1>3, <1>7
<1> HIDE DEF p, n
<1>10. Room!Join(p, n)
  <2>1. Room!Cardinality(Room!Present) = Cardinality(Room!Present)
    BY DEF Room!Cardinality, Cardinality
  <2> QED BY <1>5, <1>8, <1>9, <2>1 DEF Room!Join
<1> QED BY <1>1, <1>2, <1>10

\* A handler erasing its record is Leave.
LEMMA LeaveLeaves ==
  ASSUME IInv, [Next]_vars, SeatedNick' = Member', Member = SeatedNick,
         NEW c \in Conn, Leave(c), c \in Seated,
         Seated' = Seated \ {c}, Gone' = Gone \cup {c}
  PROVE  Room!Leave(c)
<1>1. Room!Present = Seated
  BY DEF Room!Present, SeatedNick
<1>2. clients' = [f \in Registered \ {fd[c]} |-> clients[f]] /\ UNCHANGED fd
  BY DEF Leave
<1>3. \A q \in Seated \ {c} : fd[q] \in Registered \ {fd[c]}
  BY DEF IInv, RegistryMatches
<1>4. Member' = [q \in Seated \ {c} |-> Member[q]]
  BY <1>2, <1>3 DEF SeatedNick
<1> QED BY <1>1, <1>4 DEF Room!Leave

\* handle_nick is Rename when it takes the name, and nothing otherwise.
LEMMA NickRenamesOrNot ==
  ASSUME IInv, [Next]_vars, SeatedNick' = Member', Member = SeatedNick,
         NEW c \in Conn, NEW n \in Wanted, Nick(c, n),
         Seated' = Seated, Gone' = Gone
  PROVE  Room!Rename(c, n) \/ UNCHANGED <<Member, Gone>>
<1>1. pc[c] = "recv" /\ fd[c] \in Registered /\ UNCHANGED fd
  BY NickMoves
<1>2. /\ c \in Seated /\ Room!Present = Seated
      /\ \A q \in Seated : fd[q] \in Registered /\ clients[fd[q]].lock = q
  BY <1>1 DEF Seated, Room!Present, SeatedNick, IInv, RegistryMatches
<1>3. CASE UNCHANGED clients
  BY <1>1, <1>3 DEF SeatedNick
<1>4. CASE /\ \A f \in Registered : clients'[f].nick = IF f = fd[c] THEN n ELSE clients[f].nick
           /\ \A f \in Registered \ {fd[c]} : clients[f].nick # n
  <2>1. \A q \in Seated \ {c} : fd[q] \in Registered \ {fd[c]}
    BY <1>2
  <2>2. \A q \in Seated \ {c} : Member[q] # n
    BY <1>4, <2>1 DEF SeatedNick
  <2>3. \A q \in Seated : clients'[fd[q]].nick = IF q = c THEN n ELSE Member[q]
    BY <1>2, <1>4, <2>1 DEF SeatedNick
  <2>4. Member' = [q \in Seated |-> IF q = c THEN n ELSE Member[q]]
    BY <1>1, <2>3 DEF SeatedNick
  <2>5. Member' = [Member EXCEPT ![c] = n]
    BY <1>2, <2>4 DEF SeatedNick
  <2> QED BY <1>2, <2>2, <2>5 DEF Room!Rename
<1> QED BY <1>3, <1>4, NickRenames

\* Every step of the server is a step of the room, or none.
LEMMA RoomStep ==
  ASSUME IInv, [Next]_vars, Member = SeatedNick, Member' = SeatedNick'
  PROVE  [Room!Next]_(Room!room)
<1>1. CASE Admit /\ Seated' = Seated \cup {cur.conn} /\ Gone' = Gone
           /\ cur.conn \notin Seated \cup Gone
  BY <1>1, AdmitJoins DEF Room!Next
<1>2. CASE \E c \in Conn : /\ Leave(c) /\ c \in Seated
                           /\ Seated' = Seated \ {c} /\ Gone' = Gone \cup {c}
  BY <1>2, LeaveLeaves DEF Room!Next
<1>3. CASE Seated' = Seated /\ Gone' = Gone
  <2>1. ASSUME \A c \in Seated : clients'[fd[c]].nick = clients[fd[c]].nick
        PROVE  UNCHANGED <<Member, Gone>>
    BY <1>3, <2>1, RoomUnchanged, SeatedKeepDescriptor
  <2>2. \A c \in Seated : fd[c] \in Registered /\ fd'[c] = fd[c]
    BY SeatedKeepDescriptor DEF IInv, RegistryMatches
  <2>3. CASE UNCHANGED clients
    BY <2>1, <2>3 DEF Room!room
  <2>4. CASE Admit
    BY <2>1, <2>2, <2>4, AdmitAdds DEF Room!room
  <2>5. CASE MarkWelcomed \/ \E c \in Conn : Leave(c)
    <3>1. \A c \in Seated : fd[c] \in Registered'
      BY <1>3, <2>2, RegistryStep DEF RegistryMatches
    <3> QED BY <2>1, <2>5, <3>1, OtherChanges DEF Room!room
  <2>6. ASSUME NEW c \in Conn, NEW n \in Wanted, Nick(c, n)
        PROVE  [Room!Next]_(Room!room)
    <3>1. n \in Name
      BY ServerConstants
    <3> QED BY <1>3, <2>6, <3>1, NickRenamesOrNot DEF Room!Next, Room!room
  <2> QED BY <2>3, <2>4, <2>5, <2>6, ClientsChange
<1> QED BY <1>1, <1>2, <1>3, SeatingSteps

\* However its threads interleave, the server is ChatRoom: one indivisible
\* join, rename and leave per client, unique names, a bounded room.
THEOREM ImplementsChatRoom == Spec => IsChatRoom
<1>1. IInv' => (Member = SeatedNick)'
  BY MemberIsSeated, PTL
<1>2. IInv /\ [Next]_vars => [Room!Next]_(Room!room)
  BY <1>1, InvStep, MemberIsSeated, RoomStep
<1> QED BY <1>2, RoomInit, Invariance, PTL DEF Spec, IsChatRoom, Room!Spec

=============================================================================
