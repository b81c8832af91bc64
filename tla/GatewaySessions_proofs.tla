------------------------ MODULE GatewaySessions_proofs ------------------------
(***************************************************************************)
(* Accounts, sessions and the roster of the gateway, for any number of     *)
(* WebSockets, accounts, names and login attempts.                         *)
(***************************************************************************)
EXTENDS GatewaySessions, SequenceTheorems, TLAPS

----------------------------------------------------------------------------
(* The type invariant, a variable at a time, and what it needs to be kept. *)

WsType == ws \in [Session -> {"none", "open", "closing", "closed"}]
SessType == sess \in [Session -> SessionRecord]
RosterType == Online \subseteq Id /\ \A i \in Online : roster[i] \in Session
UsersType == DOMAIN users \subseteq Id /\ \A i \in DOMAIN users : users[i] \in Name
TryType == try \in [Try -> TryRecord]
LinkType == link \in [Try -> LinkState]
InboxType == inbox \in [Try -> Seq(EventRecord)]
OutboxType == outbox \in [Try -> Seq(Name)]
MemberType == Members \subseteq Try /\ \A t \in Members : member[t] \in Name
TellingType == telling \in [Try -> Telling]
ViewType == view \in [Session -> SUBSET Id]
AskedType == asked \in 0..Renames
CrashedType == crashed \in BOOLEAN
HistoryType == crossed \subseteq Try /\ failed \subseteq Id

\* A login attempt that has begun knows its username, and only one that has
\* begun makes a connection.
TriesNamed ==
  /\ \A t \in Try : try[t].at # "none" => try[t].name \in Name
  /\ \A t \in Try : link[t] # "none" => try[t].at # "none"
  /\ \A s \in Session : sess[s].backend # NoTry => try[sess[s].backend].at # "none"

\* What says whose a session is.
Owner(r) == <<r.id, r.authenticated, r.closed, r.backend>>

\* An authenticated session has its account, a backend connection is its own,
\* and only authenticated sessions have one or a place in the roster.
SessionsOwned ==
  /\ \A s \in Session :
       /\ sess[s].authenticated => sess[s].id \in Id
       /\ sess[s].backend # NoTry => sess[s].backend \in Try /\ sess[s].backend[1] = s
  /\ \A t \in Try : link[t] # "none" => sess[t[1]].authenticated
  /\ \A i \in Online : sess[roster[i]].authenticated

\* WELCOME and NICK carry the nickname that is now borne.
EventsNamed ==
  \A t \in Try : \A k \in 1 .. Len(inbox[t]) :
    inbox[t][k].type # "err" => inbox[t][k].new \in Name

\* A NICK is broadcast for a handler that has renamed its client.
TellsNamed ==
  \A t \in Try : ~telling[t].copied \/ telling[t].to # {} => telling[t].new \in Name

TypeInv ==
  /\ TypeOK
  /\ TriesNamed
  /\ SessionsOwned
  /\ EventsNamed
  /\ TellsNamed

----------------------------------------------------------------------------
(* What the handlers share.                                                *)

\* An attempt is made by one session.
LEMMA TrySession == ASSUME NEW t \in Try PROVE t[1] \in Session /\ t[2] \in 1..Attempts
BY DEF Try

\* announceReady: the session is ready and its queue empty.
LEMMA ReadyRecord ==
  ASSUME NEW r \in SessionRecord
  PROVE  LET q == [r EXCEPT !.ready = TRUE, !.pending = <<>>] IN
         q \in SessionRecord /\ Owner(q) = Owner(r)
<1> DEFINE p == [r EXCEPT !.ready = TRUE]
<1>1. p \in SessionRecord /\ Owner(p) = Owner(r)
  BY DEF SessionRecord, Owner
<1>2. [r EXCEPT !.ready = TRUE, !.pending = <<>>] = [p EXCEPT !.pending = <<>>]
  BY DEF SessionRecord
<1> HIDE DEF p
<1>3. <<>> \in Seq(Name)
  OBVIOUS
<1>4. [p EXCEPT !.pending = <<>>] \in SessionRecord
  BY <1>1, <1>3 DEF SessionRecord
<1>5. Owner([p EXCEPT !.pending = <<>>]) = Owner(p)
  BY <1>1 DEF SessionRecord, Owner
<1> QED BY <1>1, <1>2, <1>4, <1>5

\* WELCOME: the session is welcomed under a nickname.
LEMMA WelcomedRecord ==
  ASSUME NEW r \in SessionRecord, NEW n \in Name \cup {NoName}
  PROVE  LET q == [r EXCEPT !.welcomed = TRUE, !.nickname = n] IN
         q \in SessionRecord /\ Owner(q) = Owner(r) /\ q.desired = r.desired
<1> DEFINE p == [r EXCEPT !.welcomed = TRUE]
<1>1. p \in SessionRecord /\ Owner(p) = Owner(r) /\ p.desired = r.desired
  BY DEF SessionRecord, Owner
<1>2. [r EXCEPT !.welcomed = TRUE, !.nickname = n] = [p EXCEPT !.nickname = n]
  BY DEF SessionRecord
<1> HIDE DEF p
<1>3. [p EXCEPT !.nickname = n] \in SessionRecord
  BY <1>1 DEF SessionRecord
<1>4. /\ Owner([p EXCEPT !.nickname = n]) = Owner(p)
      /\ [p EXCEPT !.nickname = n].desired = p.desired
  BY <1>1 DEF SessionRecord, Owner
<1> QED BY <1>1, <1>2, <1>3, <1>4

\* NICK: the nickname follows, and a claim that succeeded is over.
LEMMA RenamedRecord ==
  ASSUME NEW r \in SessionRecord, NEW n \in Name \cup {NoName}
  PROVE  LET q == [r EXCEPT !.nickname = n, !.desired = IF @ = n THEN NoName ELSE @] IN
         q \in SessionRecord /\ Owner(q) = Owner(r)
BY DEF SessionRecord, Owner

\* The session record r, once account i with name n has logged in with attempt t.
InAccount(r, i, n, t) ==
  [r EXCEPT !.id = i, !.authenticated = TRUE, !.desired = n, !.backend = t]

\* handleAuth: the session becomes the account's.
LEMMA LoggedInRecord ==
  ASSUME NEW r \in SessionRecord, NEW i \in Id, NEW n \in Name, NEW t \in Try
  PROVE  LET q == InAccount(r, i, n, t) IN
         /\ q \in SessionRecord /\ q.authenticated /\ q.id = i /\ q.closed = r.closed
         /\ q.backend = t
<1> DEFINE p == [r EXCEPT !.authenticated = TRUE]
<1>1. p \in SessionRecord /\ p.authenticated /\ p.closed = r.closed
  BY DEF SessionRecord
<1>2. [r EXCEPT !.id = i, !.authenticated = TRUE, !.desired = n, !.backend = t] =
      [p EXCEPT !.id = i, !.desired = n, !.backend = t]
  BY DEF SessionRecord
<1> HIDE DEF p
<1>3. [p EXCEPT !.id = i, !.desired = n, !.backend = t] \in SessionRecord
  BY <1>1 DEF SessionRecord
<1>4. LET q == [p EXCEPT !.id = i, !.desired = n, !.backend = t] IN
      /\ q.authenticated = p.authenticated /\ q.id = i
      /\ q.closed = p.closed /\ q.backend = t
  BY <1>1 DEF SessionRecord
<1> QED BY <1>1, <1>2, <1>3, <1>4 DEF InAccount

\* onClientRaw: a message waits for WELCOME.
LEMMA QueuedRecord ==
  ASSUME NEW r \in SessionRecord, NEW n \in Name
  PROVE  LET q == [r EXCEPT !.pending = Append(@, n)] IN
         q \in SessionRecord /\ Owner(q) = Owner(r)
<1>1. Append(r.pending, n) \in Seq(Name)
  BY DEF SessionRecord
<1> QED BY <1>1 DEF SessionRecord, Owner

\* onClientClosed: the session is closed.
LEMMA ClosedRecord ==
  ASSUME NEW r \in SessionRecord
  PROVE  LET q == [r EXCEPT !.closed = TRUE] IN
         q \in SessionRecord /\ q.closed /\ q.id = r.id
         /\ q.authenticated = r.authenticated /\ q.backend = r.backend
BY DEF SessionRecord

\* One Session object changes.
LEMMA OneSession ==
  ASSUME SessType, NEW s \in Session, NEW r \in SessionRecord, sess' = [sess EXCEPT ![s] = r]
  PROVE  SessType' /\ \A u \in Session : sess'[u] = IF u = s THEN r ELSE sess[u]
BY DEF SessType

\* Who owns what stays as it is when the sessions keep their owners.
LEMMA OwnersKept ==
  ASSUME SessionsOwned, RosterType, UNCHANGED <<link, roster>>,
         \A u \in Session : Owner(sess'[u]) = Owner(sess[u])
  PROVE  SessionsOwned'
<1>1. /\ \A u \in Session : /\ sess'[u].authenticated = sess[u].authenticated
                            /\ sess'[u].id = sess[u].id /\ sess'[u].backend = sess[u].backend
      /\ \A t \in Try : t[1] \in Session
      /\ \A i \in Online : roster[i] \in Session
  BY TrySession DEF Owner, RosterType
<1> QED BY <1>1 DEF SessionsOwned, Online

\* So do the attempts they connected in.
LEMMA TriesKept ==
  ASSUME TriesNamed, UNCHANGED <<try, link>>,
         \A u \in Session : Owner(sess'[u]) = Owner(sess[u])
  PROVE  TriesNamed'
<1>1. \A u \in Session : sess'[u].backend = sess[u].backend
  BY DEF Owner
<1> QED BY <1>1 DEF TriesNamed

\* One login attempt changes.
LEMMA OneTry ==
  ASSUME TryType, NEW t \in Try, NEW r \in TryRecord, try' = [try EXCEPT ![t] = r]
  PROVE  TryType' /\ \A u \in Try : try'[u] = IF u = t THEN r ELSE try[u]
BY DEF TryType

\* One broadcast of NICK starts, goes on or ends.
LEMMA OneTelling ==
  ASSUME TellingType, TellsNamed, NEW t \in Try, NEW r \in Telling,
         ~r.copied \/ r.to # {} => r.new \in Name, telling' = [telling EXCEPT ![t] = r]
  PROVE  TellingType' /\ TellsNamed'
<1>1. \A u \in Try : telling'[u] = IF u = t THEN r ELSE telling[u]
  BY DEF TellingType
<1>2. TellingType'
  BY DEF TellingType
<1>3. TellsNamed'
  BY <1>1 DEF TellsNamed
<1> QED BY <1>2, <1>3

\* A queue loses its head.
LEMMA QueueTail ==
  ASSUME NEW S, NEW q \in Seq(S), q # <<>>
  PROVE  /\ Head(q) \in S /\ Head(q) = q[1] /\ Tail(q) \in Seq(S)
         /\ 1 \in 1 .. Len(q) /\ Len(Tail(q)) = Len(q) - 1 /\ Len(q) \in Nat
         /\ \A k \in 1 .. Len(Tail(q)) : k + 1 \in 1 .. Len(q) /\ Tail(q)[k] = q[k + 1]
OBVIOUS

\* A queue gets one more.
LEMMA QueueAppend ==
  ASSUME NEW S, NEW q \in Seq(S), NEW e \in S
  PROVE  /\ Append(q, e) \in Seq(S) /\ Len(q) \in Nat /\ Len(Append(q, e)) = Len(q) + 1
         /\ \A k \in 1 .. Len(q) : Append(q, e)[k] = q[k]
         /\ Append(q, e)[Len(q) + 1] = e
OBVIOUS

\* sendLine puts names in an outbox or ends the process.
LEMMA PostTypes ==
  ASSUME OutboxType, CrashedType, NEW b, NEW names \in Seq(Name), Post(b, names)
  PROVE  OutboxType' /\ CrashedType'
<1>1. CrashedType'
  BY Zenon DEF Post, CrashedType
<1>2. ASSUME NEW t \in Try, b = t
      PROVE  outbox[t] \o names \in Seq(Name)
  BY DEF OutboxType
<1>3. OutboxType'
  BY <1>2 DEF Post, OutboxType
<1> QED BY <1>1, <1>3

\* An event that a connection gets, or does not.
LEMMA DeliverTypes ==
  ASSUME InboxType, EventsNamed, NEW u \in Try, NEW e \in EventRecord,
         e.type # "err" => e.new \in Name, inbox' = Deliver(u, e)
  PROVE  InboxType' /\ EventsNamed'
<1>1. inbox[u] \in Seq(EventRecord)
  BY DEF InboxType
<1>2. /\ Append(inbox[u], e) \in Seq(EventRecord) /\ Len(inbox[u]) \in Nat
      /\ Len(Append(inbox[u], e)) = Len(inbox[u]) + 1
      /\ \A k \in 1 .. Len(inbox[u]) : Append(inbox[u], e)[k] = inbox[u][k]
      /\ Append(inbox[u], e)[Len(inbox[u]) + 1] = e
  BY <1>1, QueueAppend
<1>3. InboxType'
  BY <1>2 DEF InboxType, Deliver
<1>4. EventsNamed'
  <2> SUFFICES ASSUME NEW t \in Try, NEW k \in 1 .. Len(inbox'[t]), inbox'[t][k].type # "err"
               PROVE  inbox'[t][k].new \in Name
    BY DEF EventsNamed
  <2>1. CASE t = u /\ inbox' # inbox
    <3>1. inbox'[t] = Append(inbox[u], e)
      BY <2>1 DEF Deliver, InboxType
    <3> QED BY <1>2, <3>1, <2>1 DEF EventsNamed
  <2>2. CASE ~(t = u /\ inbox' # inbox)
    <3>1. inbox'[t] = inbox[t]
      BY <2>2 DEF Deliver, InboxType
    <3> QED BY <3>1 DEF EventsNamed
  <2> QED BY <2>1, <2>2
<1> QED BY <1>3, <1>4

\* The event at the head of an inbox is emitted.
LEMMA EmittedTypes ==
  ASSUME TypeInv, NEW t \in Try, NEW type, Emitted(t, type),
         inbox' = [inbox EXCEPT ![t] = Tail(@)]
  PROVE  /\ Head(inbox[t]) \in EventRecord
         /\ Head(inbox[t]).type # "err" => Head(inbox[t]).new \in Name
         /\ t[1] \in Session /\ sess[t[1]] \in SessionRecord
         /\ sess[t[1]].authenticated /\ sess[t[1]].id \in Id
         /\ InboxType' /\ EventsNamed'
<1>1. inbox[t] \in Seq(EventRecord) /\ inbox[t] # <<>>
  BY DEF TypeInv, TypeOK, Emitted
<1>2. /\ Head(inbox[t]) \in EventRecord /\ Head(inbox[t]) = inbox[t][1]
      /\ Tail(inbox[t]) \in Seq(EventRecord) /\ 1 \in 1 .. Len(inbox[t])
      /\ \A k \in 1 .. Len(Tail(inbox[t])) :
           k + 1 \in 1 .. Len(inbox[t]) /\ Tail(inbox[t])[k] = inbox[t][k + 1]
  BY <1>1, QueueTail
<1>3. Head(inbox[t]).type # "err" => Head(inbox[t]).new \in Name
  BY <1>2 DEF TypeInv, EventsNamed, Emitted
<1>4. t[1] \in Session /\ sess[t[1]] \in SessionRecord
  BY TrySession DEF TypeInv, TypeOK
<1>5. sess[t[1]].authenticated /\ sess[t[1]].id \in Id
  BY <1>4 DEF TypeInv, SessionsOwned, Emitted
<1>6. InboxType'
  BY <1>2 DEF InboxType, TypeInv, TypeOK
<1>7. EventsNamed'
  <2> SUFFICES ASSUME NEW u \in Try, NEW k \in 1 .. Len(inbox'[u]), inbox'[u][k].type # "err"
               PROVE  inbox'[u][k].new \in Name
    BY DEF EventsNamed
  <2>1. CASE u = t
    <3>1. inbox'[u] = Tail(inbox[t])
      BY <2>1 DEF TypeInv, TypeOK
    <3> QED BY <1>2, <2>1, <3>1 DEF TypeInv, EventsNamed
  <2>2. CASE u # t
    <3>1. inbox'[u] = inbox[u]
      BY <2>2 DEF TypeInv, TypeOK
    <3> QED BY <3>1 DEF TypeInv, EventsNamed
  <2> QED BY <2>1, <2>2
<1> QED BY <1>2, <1>3, <1>4, <1>5, <1>6, <1>7

\* What a browser shows after a broadcast of userUpdate.
LEMMA AppearsType ==
  ASSUME NEW v \in [Session -> SUBSET Id], NEW se, NEW i \in Id, NEW x
  PROVE  Appears(v, se, i, x) \in [Session -> SUBSET Id]
BY DEF Appears

\* What a browser shows after a broadcast of userOffline.
LEMMA VanishesType ==
  ASSUME ViewType, NEW r, NEW i
  PROVE  Vanishes(view, r, i) \in [Session -> SUBSET Id]
BY DEF Vanishes, ViewType

\* What a browser shows after `ready`.
LEMMA SnapshotType ==
  ASSUME ViewType, NEW se, \A i \in Online : se[roster[i]].id \in Id, NEW s \in Session
  PROVE  Snapshot(view, se, s) \in [Session -> SUBSET Id]
<1> DEFINE shown == {se[u].id : u \in {w \in {roster[i] : i \in Online} : se[w].welcomed}}
<1>1. shown \subseteq Id
  OBVIOUS
<1> HIDE DEF shown
<1>2. [view EXCEPT ![s] = shown] \in [Session -> SUBSET Id]
  BY <1>1 DEF ViewType
<1>3. Snapshot(view, se, s) = view \/ Snapshot(view, se, s) = [view EXCEPT ![s] = shown]
  BY DEF Snapshot, shown
<1> QED BY <1>2, <1>3 DEF ViewType

\* announceReady tells the browser and sends what was queued.
LEMMA AnnounceTypes ==
  ASSUME TypeInv, NEW s \in Session, NEW r \in SessionRecord, Owner(r) = Owner(sess[s]),
         sess[s].authenticated, AnnounceReady(s, r)
  PROVE  /\ SessType' /\ ViewType' /\ OutboxType' /\ CrashedType'
         /\ \A u \in Session : Owner(sess'[u]) = Owner(sess[u])
<1> DEFINE q == [r EXCEPT !.ready = TRUE, !.pending = <<>>]
           se == [sess EXCEPT ![s] = q]
<1>1. SessType /\ RosterType /\ ViewType /\ OutboxType /\ CrashedType
  BY Zenon DEF TypeInv, TypeOK, SessType, RosterType, ViewType, OutboxType, CrashedType
<1>2. q \in SessionRecord /\ Owner(q) = Owner(sess[s])
  BY ReadyRecord
<1>3. r.pending \in Seq(Name)
  BY DEF SessionRecord
<1>4. r.id \in Id
  BY DEF Owner, TypeInv, SessionsOwned
<1>5. sess' = se
  BY DEF AnnounceReady
<1>6. view' = Appears(Snapshot(view, se, s), se, r.id, r.id)
  BY DEF AnnounceReady
<1> HIDE DEF q
<1>7. SessType' /\ \A u \in Session : se[u] = IF u = s THEN q ELSE sess[u]
  BY <1>1, <1>2, <1>5, OneSession
<1>8. \A u \in Session : Owner(se[u]) = Owner(sess[u])
  BY <1>2, <1>7
<1>9. \A i \in Online : se[roster[i]].id \in Id
  BY <1>1, <1>8 DEF TypeInv, RosterType, SessionsOwned, Owner
<1> HIDE DEF se
<1>10. ViewType'
  BY <1>1, <1>4, <1>6, <1>9, SnapshotType, AppearsType DEF ViewType
<1>11. OutboxType' /\ CrashedType'
  BY <1>1, <1>3, PostTypes DEF AnnounceReady
<1> QED BY <1>5, <1>7, <1>8, <1>10, <1>11

\* The type invariant is the conjunction of its parts.
LEMMA Types ==
  TypeOK <=> /\ WsType /\ SessType /\ RosterType /\ UsersType /\ TryType /\ LinkType
             /\ InboxType /\ OutboxType /\ MemberType /\ TellingType /\ ViewType
             /\ AskedType /\ CrashedType /\ HistoryType
BY Zenon DEF TypeOK, WsType, SessType, RosterType, UsersType, TryType, LinkType, InboxType,
   OutboxType, MemberType, TellingType, ViewType, AskedType, CrashedType, HistoryType

\* The same, after a step.
LEMMA TypesNext ==
  WsType' /\ SessType' /\ RosterType' /\ UsersType' /\ TryType' /\ LinkType'
    /\ InboxType' /\ OutboxType' /\ MemberType' /\ TellingType' /\ ViewType'
    /\ AskedType' /\ CrashedType' /\ HistoryType' => TypeOK'
BY Zenon DEF TypeOK, WsType, SessType, RosterType, UsersType, TryType, LinkType, InboxType,
   OutboxType, MemberType, TellingType, ViewType, AskedType, CrashedType, HistoryType

----------------------------------------------------------------------------
(* The type invariant after each action.                                   *)

\* A browser connects.
LEMMA ConnectTypes ==
  ASSUME TypeInv, NEW s \in Session, Connect(s)
  PROVE  TypeInv'
<1> USE Types DEF TypeInv
<1>1. WsType'
  BY DEF Connect, WsType
<1>2. /\ SessType' /\ RosterType' /\ UsersType' /\ TryType' /\ LinkType'
      /\ InboxType' /\ OutboxType' /\ MemberType' /\ TellingType' /\ ViewType'
      /\ AskedType' /\ CrashedType' /\ TriesNamed' /\ SessionsOwned' /\ EventsNamed'
      /\ TellsNamed'
  BY Zenon DEF Connect, SessType, RosterType, UsersType, TryType, LinkType, InboxType,
     OutboxType, MemberType, TellingType, ViewType, AskedType, CrashedType, TriesNamed,
     SessionsOwned, EventsNamed, TellsNamed, Members, Online
<1>h. HistoryType'
  BY DEF Connect, HistoryType, history
<1>3. TypeOK'
  BY <1>1, <1>2, <1>h, TypesNext
<1> QED BY <1>1, <1>2, <1>3

\* handleAuth, up to the password hash.
LEMMA AuthTypes ==
  ASSUME TypeInv, NEW t \in Try, NEW kind \in {"register", "login"}, NEW n \in Name,
     Auth(t, kind, n)
  PROVE  /\ TypeInv'
         /\ \A u \in Try : u # t => try'[u] = try[u]
<1> USE Types DEF TypeInv
<1>a. PICK i \in Id \cup {NoId} :
        try' = [try EXCEPT ![t] = [at |-> "hashing", kind |-> kind, id |-> i, name |-> n]]
  BY DEF Auth, UsersType
<1>b. [at |-> "hashing", kind |-> kind, id |-> i, name |-> n] \in TryRecord
  BY DEF TryRecord
<1>c. TryType' /\ \A u \in Try : u # t => try'[u] = try[u]
  BY <1>a, <1>b, OneTry
<1>d. try'[t].at = "hashing" /\ try'[t].name = n
  BY <1>a DEF TryType
<1>1. TryType'
  BY <1>c
<1>2. TriesNamed'
  <2>1. UNCHANGED <<link, sess>>
    BY DEF Auth
  <2> QED BY <1>c, <1>d, <2>1 DEF TriesNamed, SessionsOwned
<1>3. /\ WsType' /\ SessType' /\ RosterType' /\ UsersType' /\ LinkType'
      /\ InboxType' /\ OutboxType' /\ MemberType' /\ TellingType' /\ ViewType'
      /\ AskedType' /\ CrashedType' /\ SessionsOwned' /\ EventsNamed' /\ TellsNamed'
  BY Zenon DEF Auth, WsType, SessType, RosterType, UsersType, LinkType, InboxType,
     OutboxType, MemberType, TellingType, ViewType, AskedType, CrashedType,
     SessionsOwned, EventsNamed, TellsNamed, Members, Online
<1>h. HistoryType'
  BY DEF Auth, HistoryType, history
<1>4. TypeOK'
  BY <1>1, <1>2, <1>3, <1>h, TypesNext
<1> QED BY <1>1, <1>2, <1>3, <1>4, <1>c

\* handleAuth, when the hash refuses.
LEMMA AuthFailsTypes ==
  ASSUME TypeInv, NEW t \in Try, AuthFails(t)
  PROVE  TypeInv'
<1> USE Types DEF TypeInv
<1>1. TryType'
  BY DEF AuthFails, TryType, TryRecord
<1>2. TriesNamed'
  BY DEF AuthFails, TriesNamed
<1>3. /\ WsType' /\ SessType' /\ RosterType' /\ UsersType' /\ LinkType'
      /\ InboxType' /\ OutboxType' /\ MemberType' /\ TellingType' /\ ViewType'
      /\ AskedType' /\ CrashedType' /\ SessionsOwned' /\ EventsNamed' /\ TellsNamed'
  BY Zenon DEF AuthFails, WsType, SessType, RosterType, UsersType, LinkType, InboxType,
     OutboxType, MemberType, TellingType, ViewType, AskedType, CrashedType,
     SessionsOwned, EventsNamed, TellsNamed, Members, Online
<1>h. HistoryType'
  BY DEF AuthFails, HistoryType, history
<1>4. TypeOK'
  BY <1>1, <1>2, <1>3, <1>h, TypesNext
<1> QED BY <1>1, <1>2, <1>3, <1>4

\* handleAuth, when the hash is right: at most one session becomes the account's.
LEMMA AuthSucceedsTypes ==
  ASSUME TypeInv, NEW t \in Try, NEW i \in Id, AuthSucceeds(t, i)
  PROVE  /\ TypeInv'
         /\ LoggedIn(i) => UNCHANGED <<sess, roster>>
         /\ ~LoggedIn(i) =>
              /\ \A u \in Session : u # t[1] => sess'[u] = sess[u]
              /\ sess'[t[1]].authenticated /\ sess'[t[1]].id = i
              /\ sess'[t[1]].closed = sess[t[1]].closed
         /\ try'[t].at # "hashing" /\ \A u \in Try : u # t => try'[u] = try[u]
<1>0. t[1] \in Session
  BY TrySession
<1> USE Types DEF TypeInv
<1>a. try[t] \in TryRecord /\ try[t].at = "hashing" /\ try[t].name \in Name
  BY DEF AuthSucceeds, TryType, TriesNamed
<1>b. LoggedIn(i) => UNCHANGED <<sess, roster, link>>
  BY DEF AuthSucceeds
<1>c. ASSUME ~LoggedIn(i)
      PROVE  /\ SessType' /\ \A u \in Session : u # t[1] => sess'[u] = sess[u]
             /\ sess'[t[1]].authenticated /\ sess'[t[1]].id = i /\ sess'[t[1]].backend = t
             /\ sess'[t[1]].closed = sess[t[1]].closed
  <2> DEFINE r == InAccount(sess[t[1]], i, try[t].name, t)
  <2>1. sess[t[1]] \in SessionRecord
    BY <1>0 DEF SessType
  <2>2. /\ r \in SessionRecord /\ r.authenticated /\ r.id = i /\ r.backend = t
        /\ r.closed = sess[t[1]].closed
    BY <1>a, <2>1, LoggedInRecord
  <2>3. sess' = [sess EXCEPT ![t[1]] = r]
    BY <1>c DEF AuthSucceeds, InAccount
  <2> HIDE DEF r
  <2>4. SessType' /\ \A u \in Session : sess'[u] = IF u = t[1] THEN r ELSE sess[u]
    BY <1>0, <2>2, <2>3, OneSession
  <2> QED BY <1>0, <2>2, <2>4
<1>d. /\ TryType' /\ \A u \in Try : u # t => try'[u] = try[u]
      /\ try'[t].at \notin {"none", "hashing"} /\ try'[t].name = try[t].name
  <2> DEFINE r == IF LoggedIn(i) THEN [try[t] EXCEPT !.at = "over"]
                                 ELSE [try[t] EXCEPT !.at = "connecting", !.id = i]
  <2>1. try' = [try EXCEPT ![t] = r]
    BY DEF AuthSucceeds
  <2>2. r \in TryRecord /\ r.at \notin {"none", "hashing"} /\ r.name = try[t].name
    BY <1>a DEF TryRecord
  <2> HIDE DEF r
  <2>3. TryType' /\ \A u \in Try : try'[u] = IF u = t THEN r ELSE try[u]
    BY <2>1, <2>2, OneTry
  <2> QED BY <2>2, <2>3
<1>1. SessType'
  BY <1>b, <1>c DEF SessType
<1>2. RosterType'
  BY <1>0 DEF AuthSucceeds, Online, RosterType
<1>3. UsersType'
  <2>1. \/ UNCHANGED users
        \/ users' = [j \in DOMAIN users \cup {i} |-> IF j = i THEN try[t].name ELSE users[j]]
    BY DEF AuthSucceeds, Row
  <2> QED BY <1>a, <2>1 DEF UsersType
<1>4. TryType'
  BY <1>d
<1>5. LinkType'
  BY DEF AuthSucceeds, LinkType, LinkState
<1>6. TriesNamed'
  <2>1. \A u \in Try : try[u].at # "none" => try'[u].at # "none"
    BY <1>d
  <2>2. \A u \in Try : try'[u].at # "none" => try'[u].name \in Name
    BY <1>a, <1>d DEF TriesNamed
  <2>3. \A u \in Try : link'[u] # "none" => try'[u].at # "none"
    <3>1. \A u \in Try : u # t => link'[u] = link[u]
      BY DEF AuthSucceeds, LinkType
    <3> QED BY <1>d, <3>1, <2>1 DEF TriesNamed
  <2>4. \A s \in Session : sess'[s].backend # NoTry => try'[sess'[s].backend].at # "none"
    BY <1>b, <1>c, <1>d, <2>1 DEF TriesNamed, SessionsOwned
  <2> QED BY <2>2, <2>3, <2>4 DEF TriesNamed
<1>7. SessionsOwned'
  <2>1. CASE LoggedIn(i)
    BY <1>b, <2>1 DEF SessionsOwned, Online
  <2>2. CASE ~LoggedIn(i)
    <3>1. \A s \in Session :
            /\ sess'[s].authenticated => sess'[s].id \in Id
            /\ sess'[s].backend # NoTry => sess'[s].backend \in Try /\ sess'[s].backend[1] = s
      BY <1>0, <1>c, <2>2 DEF SessionsOwned
    <3>2. \A s \in Session : sess[s].authenticated => sess'[s].authenticated
      BY <1>0, <1>c, <2>2
    <3>3. \A u \in Try : link'[u] # "none" => sess'[u[1]].authenticated
      <4>1. \A u \in Try : u # t => link'[u] = link[u]
        BY DEF AuthSucceeds, LinkType
      <4> QED BY <1>c, <2>2, <3>2, <4>1, TrySession DEF SessionsOwned
    <3>4. roster' = [j \in Online \cup {i} |-> IF j = i THEN t[1] ELSE roster[j]]
      BY <2>2 DEF AuthSucceeds
    <3>5. \A j \in Online' : sess'[roster'[j]].authenticated
      BY <1>c, <2>2, <3>2, <3>4 DEF SessionsOwned, Online, RosterType
    <3> QED BY <3>1, <3>3, <3>5 DEF SessionsOwned
  <2> QED BY <2>1, <2>2
<1>8. /\ WsType' /\ InboxType' /\ OutboxType' /\ MemberType' /\ TellingType'
      /\ ViewType' /\ AskedType' /\ CrashedType' /\ EventsNamed' /\ TellsNamed'
  BY Zenon DEF AuthSucceeds, WsType, InboxType, OutboxType, MemberType, TellingType,
     ViewType, AskedType, CrashedType, EventsNamed, TellsNamed, Members
<1>h. HistoryType'
  BY DEF AuthSucceeds, HistoryType, history
<1>9. TypeOK'
  BY <1>1, <1>2, <1>3, <1>4, <1>5, <1>6, <1>7, <1>8, <1>h, TypesNext
<1> QED BY <1>1, <1>2, <1>3, <1>4, <1>5, <1>6, <1>7, <1>8, <1>9, <1>b, <1>c, <1>d

\* The backend connection is made: its attempt is over.
LEMMA ConnectOkTypes ==
  ASSUME TypeInv, NEW t \in Try, ConnectOk(t)
  PROVE  /\ TypeInv'
         /\ try'[t].at = "over" /\ \A u \in Try : u # t => try'[u] = try[u]
<1> USE Types DEF TypeInv
<1>a. /\ \A u \in Try : u # t => try'[u] = try[u] /\ link'[u] = link[u]
      /\ try'[t].at = "over" /\ try'[t].name = try[t].name /\ link[t] # "none"
      /\ UNCHANGED sess
  BY DEF ConnectOk, TryType, TryRecord, LinkType
<1>1. TryType'
  BY DEF ConnectOk, TryType, TryRecord
<1>2. LinkType'
  BY DEF ConnectOk, LinkType, LinkState
<1>3. TriesNamed'
  <2>1. \A u \in Try : try[u].at # "none" => try'[u].at # "none"
    BY <1>a
  <2>2. \A u \in Try : try'[u].at # "none" => try'[u].name \in Name
    BY <1>a DEF TriesNamed
  <2>3. \A u \in Try : link'[u] # "none" => try'[u].at # "none"
    BY <1>a, <2>1 DEF TriesNamed
  <2>4. \A s \in Session : sess'[s].backend # NoTry => try'[sess'[s].backend].at # "none"
    BY <1>a, <2>1 DEF TriesNamed, SessionsOwned
  <2> QED BY <2>2, <2>3, <2>4 DEF TriesNamed
<1>4. SessionsOwned'
  BY DEF ConnectOk, SessionsOwned, Online
<1>5. /\ WsType' /\ SessType' /\ RosterType' /\ UsersType' /\ InboxType'
      /\ OutboxType' /\ MemberType' /\ TellingType' /\ ViewType' /\ AskedType'
      /\ CrashedType' /\ EventsNamed' /\ TellsNamed'
  BY Zenon DEF ConnectOk, WsType, SessType, RosterType, UsersType, InboxType,
     OutboxType, MemberType, TellingType, ViewType, AskedType, CrashedType, EventsNamed,
     TellsNamed, Members, Online
<1>h. HistoryType'
  BY DEF ConnectOk, HistoryType, history
<1>6. TypeOK'
  BY <1>1, <1>2, <1>3, <1>4, <1>5, <1>h, TypesNext
<1> QED BY <1>1, <1>2, <1>3, <1>4, <1>5, <1>6, <1>a

\* The backend connection is refused: a roster entry less.
LEMMA ConnectFailsTypes ==
  ASSUME TypeInv, NEW t \in Try, ConnectFails(t)
  PROVE  TypeInv'
<1> USE Types DEF TypeInv
<1>a. /\ \A u \in Try : u # t => try'[u] = try[u] /\ link'[u] = link[u]
      /\ try'[t].at = "over" /\ try'[t].name = try[t].name /\ link[t] # "none"
      /\ UNCHANGED sess
  BY DEF ConnectFails, TryType, TryRecord, LinkType
<1>1. WsType'
  BY DEF ConnectFails, WsType
<1>2. RosterType'
  BY DEF ConnectFails, RosterType, Online
<1>3. TryType'
  BY DEF ConnectFails, TryType, TryRecord
<1>4. LinkType'
  BY DEF ConnectFails, LinkType, LinkState
<1>5. TriesNamed'
  <2>1. \A u \in Try : try[u].at # "none" => try'[u].at # "none"
    BY <1>a
  <2>2. \A u \in Try : try'[u].at # "none" => try'[u].name \in Name
    BY <1>a DEF TriesNamed
  <2>3. \A u \in Try : link'[u] # "none" => try'[u].at # "none"
    BY <1>a, <2>1 DEF TriesNamed
  <2>4. \A s \in Session : sess'[s].backend # NoTry => try'[sess'[s].backend].at # "none"
    BY <1>a, <2>1 DEF TriesNamed, SessionsOwned
  <2> QED BY <2>2, <2>3, <2>4 DEF TriesNamed
<1>6. SessionsOwned'
  BY DEF ConnectFails, SessionsOwned, Online
<1>7. /\ SessType' /\ UsersType' /\ InboxType' /\ OutboxType' /\ MemberType'
      /\ TellingType' /\ ViewType' /\ AskedType' /\ CrashedType' /\ EventsNamed'
      /\ TellsNamed'
  BY Zenon DEF ConnectFails, SessType, UsersType, InboxType, OutboxType, MemberType,
     TellingType, ViewType, AskedType, CrashedType, EventsNamed, TellsNamed, Members
<1>h. HistoryType'
  <2>1. sess[t[1]].id \in Id
    BY TrySession DEF ConnectFails, SessionsOwned
  <2> QED BY <2>1 DEF ConnectFails, HistoryType
<1>8. TypeOK'
  BY <1>1, <1>2, <1>3, <1>4, <1>5, <1>6, <1>7, <1>h, TypesNext
<1> QED BY <1>1, <1>2, <1>3, <1>4, <1>5, <1>6, <1>7, <1>8

\* A snapshot lists accounts.
LEMMA RequestStateTypes ==
  ASSUME TypeInv, NEW s \in Session, RequestState(s)
  PROVE  TypeInv'
<1> USE Types DEF TypeInv
<1>1. ViewType'
  <2>1. \A i \in Online : sess[roster[i]].id \in Id
    BY DEF RosterType, SessionsOwned
  <2> QED BY <2>1, SnapshotType DEF RequestState, ViewType
<1>2. /\ WsType' /\ SessType' /\ RosterType' /\ UsersType' /\ TryType'
      /\ LinkType' /\ InboxType' /\ OutboxType' /\ MemberType' /\ TellingType'
      /\ AskedType' /\ CrashedType' /\ TriesNamed' /\ SessionsOwned' /\ EventsNamed'
      /\ TellsNamed'
  BY Zenon DEF RequestState, WsType, SessType, RosterType, UsersType, TryType, LinkType,
     InboxType, OutboxType, MemberType, TellingType, AskedType, CrashedType, TriesNamed,
     SessionsOwned, EventsNamed, TellsNamed, Members, Online
<1>h. HistoryType'
  BY DEF RequestState, HistoryType, history
<1>3. TypeOK'
  BY <1>1, <1>2, <1>h, TypesNext
<1> QED BY <1>1, <1>2, <1>3

\* A change of presence shows an account.
LEMMA SetPresenceTypes ==
  ASSUME TypeInv, NEW s \in Session, SetPresence(s)
  PROVE  TypeInv'
<1> USE Types DEF TypeInv
<1>1. ViewType'
  <2>1. sess[s].id \in Id
    BY DEF SetPresence, SessionsOwned
  <2> QED BY <2>1, AppearsType DEF SetPresence, ViewType
<1>2. /\ WsType' /\ SessType' /\ RosterType' /\ UsersType' /\ TryType'
      /\ LinkType' /\ InboxType' /\ OutboxType' /\ MemberType' /\ TellingType'
      /\ AskedType' /\ CrashedType' /\ TriesNamed' /\ SessionsOwned' /\ EventsNamed'
      /\ TellsNamed'
  BY Zenon DEF SetPresence, WsType, SessType, RosterType, UsersType, TryType, LinkType,
     InboxType, OutboxType, MemberType, TellingType, AskedType, CrashedType, TriesNamed,
     SessionsOwned, EventsNamed, TellsNamed, Members, Online
<1>h. HistoryType'
  BY DEF SetPresence, HistoryType, history
<1>3. TypeOK'
  BY <1>1, <1>2, <1>h, TypesNext
<1> QED BY <1>1, <1>2, <1>3

\* A nickname is queued or sent; nobody's session changes hands.
LEMMA SetNicknameTypes ==
  ASSUME TypeInv, NEW s \in Session, NEW n \in Typed, SetNickname(s, n)
  PROVE  /\ TypeInv'
         /\ \A u \in Session : Owner(sess'[u]) = Owner(sess[u])
<1> USE Types DEF TypeInv
<1>a. n \in Name
  BY GatewayConstants
<1>b. SessType' /\ \A u \in Session : Owner(sess'[u]) = Owner(sess[u])
  <2>1. CASE ~sess[s].authenticated \/ ~sess[s].welcomed
    <3> DEFINE r == [sess[s] EXCEPT !.pending = Append(@, n)]
    <3>1. sess[s] \in SessionRecord
      BY DEF SessType
    <3>2. r \in SessionRecord /\ Owner(r) = Owner(sess[s])
      BY <1>a, <3>1, QueuedRecord
    <3>3. sess' = [sess EXCEPT ![s] = r]
      BY <2>1 DEF SetNickname
    <3> HIDE DEF r
    <3>4. SessType' /\ \A u \in Session : sess'[u] = IF u = s THEN r ELSE sess[u]
      BY <3>2, <3>3, OneSession
    <3> QED BY <3>2, <3>4
  <2>2. CASE ~(~sess[s].authenticated \/ ~sess[s].welcomed)
    BY <2>2 DEF SetNickname, SessType
  <2> QED BY <2>1, <2>2
<1>c. OutboxType' /\ CrashedType'
  <2>1. CASE UNCHANGED <<outbox, crashed>>
    BY <2>1 DEF OutboxType, CrashedType
  <2>2. CASE Post(sess[s].backend, <<n>>)
    <3>1. <<n>> \in Seq(Name)
      BY <1>a
    <3> QED BY <2>2, <3>1, PostTypes
  <2> QED BY <2>1, <2>2 DEF SetNickname
<1>d. UNCHANGED <<try, link, roster>>
  BY DEF SetNickname
<1>1. SessType'
  BY <1>b
<1>2. OutboxType'
  BY <1>c
<1>3. AskedType'
  BY GatewayConstants DEF SetNickname, AskedType
<1>4. CrashedType'
  BY <1>c
<1>5. TriesNamed'
  BY <1>b, <1>d, TriesKept
<1>6. SessionsOwned'
  BY <1>b, <1>d, OwnersKept
<1>7. /\ WsType' /\ RosterType' /\ UsersType' /\ TryType' /\ LinkType'
      /\ InboxType' /\ MemberType' /\ TellingType' /\ ViewType' /\ EventsNamed'
      /\ TellsNamed'
  BY Zenon DEF SetNickname, Post, WsType, RosterType, UsersType, TryType, LinkType,
     InboxType, MemberType, TellingType, ViewType, EventsNamed, TellsNamed, Members,
     Online
<1>h. HistoryType'
  BY DEF SetNickname, HistoryType, history
<1>8. TypeOK'
  BY <1>1, <1>2, <1>3, <1>4, <1>5, <1>6, <1>7, <1>h, TypesNext
<1> QED BY <1>1, <1>2, <1>3, <1>4, <1>5, <1>6, <1>7, <1>8, <1>b

\* A WebSocket starts closing.
LEMMA LogoutTypes ==
  ASSUME TypeInv, NEW s \in Session, Logout(s)
  PROVE  TypeInv'
<1> USE Types DEF TypeInv
<1>1. WsType'
  BY DEF Logout, WsType
<1>2. /\ SessType' /\ RosterType' /\ UsersType' /\ TryType' /\ LinkType'
      /\ InboxType' /\ OutboxType' /\ MemberType' /\ TellingType' /\ ViewType'
      /\ AskedType' /\ CrashedType' /\ TriesNamed' /\ SessionsOwned' /\ EventsNamed'
      /\ TellsNamed'
  BY Zenon DEF Logout, SessType, RosterType, UsersType, TryType, LinkType, InboxType,
     OutboxType, MemberType, TellingType, ViewType, AskedType, CrashedType, TriesNamed,
     SessionsOwned, EventsNamed, TellsNamed, Members, Online
<1>h. HistoryType'
  BY DEF Logout, HistoryType, history
<1>3. TypeOK'
  BY <1>1, <1>2, <1>h, TypesNext
<1> QED BY <1>1, <1>2, <1>3

\* onClientClosed: the session is closed, and hangs up its own connection.
LEMMA WsClosedTypes ==
  ASSUME TypeInv, NEW s \in Session, WsClosed(s)
  PROVE  /\ TypeInv'
         /\ \A u \in Session :
              /\ sess'[u].authenticated = sess[u].authenticated
              /\ sess'[u].id = sess[u].id
              /\ (sess'[u].closed <=> u = s \/ sess[u].closed)
<1> USE Types DEF TypeInv
<1>b. /\ SessType'
      /\ \A u \in Session : /\ sess'[u].authenticated = sess[u].authenticated
                            /\ sess'[u].id = sess[u].id /\ sess'[u].backend = sess[u].backend
                            /\ (sess'[u].closed <=> u = s \/ sess[u].closed)
  <2> DEFINE r == [sess[s] EXCEPT !.closed = TRUE]
  <2>1. sess[s] \in SessionRecord
    BY DEF SessType
  <2>2. /\ r \in SessionRecord /\ r.id = sess[s].id
        /\ r.authenticated = sess[s].authenticated /\ r.backend = sess[s].backend
        /\ r.closed
    BY <2>1, ClosedRecord
  <2>3. sess' = [sess EXCEPT ![s] = r]
    BY DEF WsClosed
  <2> HIDE DEF r
  <2>4. SessType' /\ \A u \in Session : sess'[u] = IF u = s THEN r ELSE sess[u]
    BY <2>2, <2>3, OneSession
  <2> QED BY <2>2, <2>4
<1>c. /\ \/ link' = link
         \/ sess[s].backend # NoTry /\ link' = [link EXCEPT ![sess[s].backend] = "closed"]
      /\ inbox' = inbox \/ inbox' = [inbox EXCEPT ![sess[s].backend] = <<>>]
      /\ roster' = roster \/ roster' = [i \in Online \ {sess[s].id} |-> roster[i]]
      /\ view' = view \/ view' = Vanishes(view, roster', sess[s].id)
  <2>1. CASE ~sess[s].authenticated
    BY <2>1 DEF WsClosed
  <2>2. CASE sess[s].authenticated
    <3>1. Hangup(sess[s].backend)
      BY <2>2 DEF WsClosed
    <3>2. /\ roster' = [i \in Online \ {sess[s].id} |-> roster[i]]
          /\ view' = view \/ view' = Vanishes(view, roster', sess[s].id)
      BY <2>2 DEF WsClosed
    <3>3. \/ UNCHANGED <<link, inbox>>
          \/ /\ sess[s].backend # NoTry
             /\ link' = [link EXCEPT ![sess[s].backend] = "closed"]
             /\ inbox' = [inbox EXCEPT ![sess[s].backend] = <<>>]
      BY <3>1 DEF Hangup
    <3> QED BY <3>2, <3>3
  <2> QED BY <2>1, <2>2
<1>d. UNCHANGED try
  BY DEF WsClosed
<1>e. \A t \in Try : link'[t] # link[t] => t = sess[s].backend /\ t # NoTry
  <2>1. CASE link' = link
    BY <2>1
  <2>2. CASE sess[s].backend # NoTry /\ link' = [link EXCEPT ![sess[s].backend] = "closed"]
    BY <2>2 DEF LinkType
  <2> QED BY <1>c, <2>1, <2>2
<1>1. WsType'
  BY DEF WsClosed, WsType
<1>2. SessType'
  BY <1>b
<1>3. RosterType'
  BY <1>c DEF RosterType, Online
<1>4. LinkType'
  BY <1>c DEF LinkType, LinkState
<1>5. InboxType'
  <2>1. <<>> \in Seq(EventRecord)
    OBVIOUS
  <2> QED BY <1>c, <2>1 DEF InboxType
<1>6. ViewType'
  BY <1>c, VanishesType DEF ViewType
<1>7. TriesNamed'
  BY <1>b, <1>d, <1>e DEF TriesNamed
<1>8. SessionsOwned'
  <2>1. \A t \in Try : link'[t] # "none" => sess[t[1]].authenticated
    <3>1. CASE link' = link
      BY <3>1 DEF SessionsOwned
    <3>2. CASE link' # link
      <4>1. sess[s].authenticated
        BY <3>2 DEF WsClosed
      <4> QED BY <1>e, <4>1 DEF SessionsOwned
    <3> QED BY <3>1, <3>2
  <2>2. \A i \in Online' : i \in Online /\ roster'[i] = roster[i]
    BY <1>c DEF Online
  <2> QED BY <1>b, <2>1, <2>2, TrySession DEF SessionsOwned, RosterType
<1>9. EventsNamed'
  <2>1. \A t \in Try : inbox'[t] = inbox[t] \/ inbox'[t] = <<>>
    BY <1>c DEF InboxType
  <2> QED BY <2>1 DEF EventsNamed
<1>10. /\ UsersType' /\ TryType' /\ OutboxType' /\ MemberType' /\ TellingType'
      /\ AskedType' /\ CrashedType' /\ TellsNamed'
  BY Zenon DEF WsClosed, Hangup, UsersType, TryType, OutboxType, MemberType,
     TellingType, AskedType, CrashedType, TellsNamed, Members
<1>h. HistoryType'
  BY DEF WsClosed, HistoryType, history
<1>11. TypeOK'
  BY <1>1, <1>2, <1>3, <1>4, <1>5, <1>6, <1>7, <1>8, <1>9, <1>10, <1>h, TypesNext
<1> QED BY <1>1, <1>2, <1>3, <1>4, <1>5, <1>6, <1>7, <1>8, <1>9, <1>10, <1>11, <1>b

\* WELCOME names the session, which claims a name or is announced.
LEMMA OnWelcomeTypes ==
  ASSUME TypeInv, NEW t \in Try, OnWelcome(t)
  PROVE  /\ TypeInv'
         /\ \A u \in Session : Owner(sess'[u]) = Owner(sess[u])
<1>0. t[1] \in Session
  BY TrySession
<1> USE Types DEF TypeInv
<1>a. /\ Head(inbox[t]) \in EventRecord /\ Head(inbox[t]).new \in Name
      /\ sess[t[1]] \in SessionRecord /\ sess[t[1]].authenticated
      /\ InboxType' /\ EventsNamed'
  <2>1. Emitted(t, "welcome") /\ inbox' = [inbox EXCEPT ![t] = Tail(@)]
    BY DEF OnWelcome
  <2>2. Head(inbox[t]).type # "err"
    BY <2>1 DEF Emitted
  <2> QED BY <2>1, <2>2, EmittedTypes
<1>d. UNCHANGED <<try, link, roster>>
  BY DEF OnWelcome
<1>e. /\ SessType' /\ ViewType' /\ OutboxType' /\ CrashedType'
      /\ \A u \in Session : Owner(sess'[u]) = Owner(sess[u])
  <2> DEFINE r == [sess[t[1]] EXCEPT !.welcomed = TRUE, !.nickname = Head(inbox[t]).new]
  <2>1. r \in SessionRecord /\ Owner(r) = Owner(sess[t[1]])
    BY <1>a, WelcomedRecord
  <2>2. IF Claims(r)
          THEN sess' = [sess EXCEPT ![t[1]] = r] /\ Post(r.backend, <<r.desired>>) /\ UNCHANGED view
          ELSE AnnounceReady(t[1], r)
    BY DEF OnWelcome
  <2> HIDE DEF r
  <2>3. CASE Claims(r)
    <3>1. SessType' /\ \A u \in Session : sess'[u] = IF u = t[1] THEN r ELSE sess[u]
      BY <1>0, <2>1, <2>2, <2>3, OneSession
    <3>2. <<r.desired>> \in Seq(Name)
      BY <2>1, <2>3 DEF Claims, SessionRecord
    <3>3. OutboxType' /\ CrashedType'
      BY <2>2, <2>3, <3>2, PostTypes
    <3>4. ViewType'
      BY <2>2, <2>3 DEF ViewType
    <3> QED BY <2>1, <3>1, <3>3, <3>4
  <2>4. CASE ~Claims(r)
    BY <1>0, <1>a, <2>1, <2>2, <2>4, AnnounceTypes
  <2> QED BY <2>3, <2>4
<1>b. SessType' /\ \A u \in Session : Owner(sess'[u]) = Owner(sess[u])
  BY <1>e
<1>1. SessType'
  BY <1>e
<1>2. InboxType'
  BY <1>a
<1>3. OutboxType'
  BY <1>e
<1>4. ViewType'
  BY <1>e
<1>5. CrashedType'
  BY <1>e
<1>6. TriesNamed'
  BY <1>b, <1>d, TriesKept
<1>7. SessionsOwned'
  BY <1>b, <1>d, OwnersKept
<1>8. EventsNamed'
  BY <1>a
<1>9. /\ WsType' /\ RosterType' /\ UsersType' /\ TryType' /\ LinkType'
      /\ MemberType' /\ TellingType' /\ AskedType' /\ TellsNamed'
  BY Zenon DEF OnWelcome, AnnounceReady, Post, WsType, RosterType, UsersType, TryType,
     LinkType, MemberType, TellingType, AskedType, TellsNamed, Members, Online
<1>h. HistoryType'
  BY DEF OnWelcome, HistoryType, history
<1>10. TypeOK'
  BY <1>1, <1>2, <1>3, <1>4, <1>5, <1>6, <1>7, <1>8, <1>9, <1>h, TypesNext
<1> QED BY <1>1, <1>2, <1>3, <1>4, <1>5, <1>6, <1>7, <1>8, <1>9, <1>10, <1>b

\* NICK renames the session it is about.
LEMMA OnNickTypes ==
  ASSUME TypeInv, NEW t \in Try, OnNick(t)
  PROVE  /\ TypeInv'
         /\ \A u \in Session : Owner(sess'[u]) = Owner(sess[u])
<1>0. t[1] \in Session
  BY TrySession
<1> USE Types DEF TypeInv
<1>a. /\ Head(inbox[t]) \in EventRecord /\ Head(inbox[t]).new \in Name
      /\ sess[t[1]] \in SessionRecord /\ sess[t[1]].authenticated
      /\ InboxType' /\ EventsNamed'
  <2>1. Emitted(t, "nick") /\ inbox' = [inbox EXCEPT ![t] = Tail(@)]
    BY DEF OnNick
  <2>2. Head(inbox[t]).type # "err"
    BY <2>1 DEF Emitted
  <2> QED BY <2>1, <2>2, EmittedTypes
<1>d. UNCHANGED <<try, link, roster>>
  BY DEF OnNick
<1>e. /\ SessType' /\ ViewType' /\ OutboxType' /\ CrashedType' /\ UsersType'
      /\ \A u \in Session : Owner(sess'[u]) = Owner(sess[u])
  <2> DEFINE n == Head(inbox[t]).new
             r == [sess[t[1]] EXCEPT !.nickname = n, !.desired = IF @ = n THEN NoName ELSE @]
             se == [sess EXCEPT ![t[1]] = r]
  <2>1. r \in SessionRecord /\ Owner(r) = Owner(sess[t[1]])
    BY <1>a, RenamedRecord
  <2>2. \/ UNCHANGED <<sess, view, users, outbox, crashed>>
        \/ AnnounceReady(t[1], r) /\ UNCHANGED users
        \/ /\ sess' = se /\ view' = Appears(view, se, r.id, NoId)
           /\ users' = Persisted(r.id, n) /\ UNCHANGED <<outbox, crashed>>
    BY DEF OnNick
  <2>3. r.id \in Id /\ n \in Name
    BY <1>0, <1>a, <2>1 DEF Owner, SessionsOwned
  <2> HIDE DEF n, r, se
  <2>4. CASE UNCHANGED <<sess, view, users, outbox, crashed>>
    BY <2>4 DEF SessType, ViewType, OutboxType, CrashedType, UsersType
  <2>5. CASE AnnounceReady(t[1], r) /\ UNCHANGED users
    <3>1. /\ SessType' /\ ViewType' /\ OutboxType' /\ CrashedType'
          /\ \A u \in Session : Owner(sess'[u]) = Owner(sess[u])
      BY <1>0, <1>a, <2>1, <2>5, AnnounceTypes
    <3> QED BY <2>5, <3>1 DEF UsersType
  <2>6. CASE /\ sess' = se /\ view' = Appears(view, se, r.id, NoId)
             /\ users' = Persisted(r.id, n) /\ UNCHANGED <<outbox, crashed>>
    <3>1. SessType' /\ \A u \in Session : sess'[u] = IF u = t[1] THEN r ELSE sess[u]
      BY <1>0, <2>1, <2>6, OneSession DEF se
    <3>2. ViewType'
      BY <2>3, <2>6, AppearsType DEF ViewType
    <3>3. UsersType'
      BY <2>3, <2>6 DEF UsersType, Persisted
    <3> QED BY <2>1, <2>6, <3>1, <3>2, <3>3 DEF OutboxType, CrashedType
  <2> QED BY <2>2, <2>4, <2>5, <2>6
<1>b. SessType' /\ \A u \in Session : Owner(sess'[u]) = Owner(sess[u])
  BY <1>e
<1>1. SessType'
  BY <1>e
<1>2. UsersType'
  BY <1>e
<1>3. InboxType'
  BY <1>a
<1>4. OutboxType'
  BY <1>e
<1>5. ViewType'
  BY <1>e
<1>6. CrashedType'
  BY <1>e
<1>7. TriesNamed'
  BY <1>b, <1>d, TriesKept
<1>8. SessionsOwned'
  BY <1>b, <1>d, OwnersKept
<1>9. EventsNamed'
  BY <1>a
<1>10. /\ WsType' /\ RosterType' /\ TryType' /\ LinkType' /\ MemberType'
      /\ TellingType' /\ AskedType' /\ TellsNamed'
  BY Zenon DEF OnNick, AnnounceReady, Post, WsType, RosterType, TryType, LinkType,
     MemberType, TellingType, AskedType, TellsNamed, Members, Online
<1>h. HistoryType'
  BY DEF OnNick, HistoryType, history
<1>11. TypeOK'
  BY <1>1, <1>2, <1>3, <1>4, <1>5, <1>6, <1>7, <1>8, <1>9, <1>10, <1>h, TypesNext
<1> QED BY <1>1, <1>2, <1>3, <1>4, <1>5, <1>6, <1>7, <1>8, <1>9, <1>10, <1>11, <1>b

\* ERR closes a WebSocket at most.
LEMMA OnErrTypes ==
  ASSUME TypeInv, NEW t \in Try, OnErr(t)
  PROVE  TypeInv'
<1> USE Types DEF TypeInv
<1>a. InboxType' /\ EventsNamed'
  BY EmittedTypes DEF OnErr
<1>1. WsType'
  BY DEF OnErr, WsType
<1>2. InboxType'
  BY <1>a
<1>3. EventsNamed'
  BY <1>a
<1>4. /\ SessType' /\ RosterType' /\ UsersType' /\ TryType' /\ LinkType'
      /\ OutboxType' /\ MemberType' /\ TellingType' /\ ViewType' /\ AskedType'
      /\ CrashedType' /\ TriesNamed' /\ SessionsOwned' /\ TellsNamed'
  BY Zenon DEF OnErr, SessType, RosterType, UsersType, TryType, LinkType, OutboxType,
     MemberType, TellingType, ViewType, AskedType, CrashedType, TriesNamed,
     SessionsOwned, TellsNamed, Members, Online
<1>h. HistoryType'
  BY DEF OnErr, HistoryType, history
<1>5. TypeOK'
  BY <1>1, <1>2, <1>3, <1>4, <1>h, TypesNext
<1> QED BY <1>1, <1>2, <1>3, <1>4, <1>5

\* The connection was lost: its WebSocket starts closing.
LEMMA OnBackendClosedTypes ==
  ASSUME TypeInv, NEW t \in Try, OnBackendClosed(t)
  PROVE  TypeInv'
<1> USE Types DEF TypeInv
<1>1. WsType'
  BY DEF OnBackendClosed, WsType
<1>2. LinkType'
  BY DEF OnBackendClosed, LinkType, LinkState
<1>3. TriesNamed'
  BY DEF OnBackendClosed, LinkType, TriesNamed
<1>4. SessionsOwned'
  BY DEF OnBackendClosed, SessionsOwned, Online
<1>5. /\ SessType' /\ RosterType' /\ UsersType' /\ TryType' /\ InboxType'
      /\ OutboxType' /\ MemberType' /\ TellingType' /\ ViewType' /\ AskedType'
      /\ CrashedType' /\ EventsNamed' /\ TellsNamed'
  BY Zenon DEF OnBackendClosed, SessType, RosterType, UsersType, TryType, InboxType,
     OutboxType, MemberType, TellingType, ViewType, AskedType, CrashedType, EventsNamed,
     TellsNamed, Members, Online
<1>h. HistoryType'
  BY DEF OnBackendClosed, HistoryType, history
<1>6. TypeOK'
  BY <1>1, <1>2, <1>3, <1>4, <1>5, <1>h, TypesNext
<1> QED BY <1>1, <1>2, <1>3, <1>4, <1>5, <1>6

\* accept_one welcomes a connection by a default name.
LEMMA AdmitTypes ==
  ASSUME TypeInv, NEW t \in Try, Admit(t)
  PROVE  TypeInv'
<1> USE Types DEF TypeInv
<1>a. PICK k \in DOMAIN DefaultName :
        /\ member' = [u \in Members \cup {t} |-> IF u = t THEN DefaultName[k] ELSE member[u]]
        /\ inbox' = Deliver(t, Event("welcome", NoName, DefaultName[k]))
  BY DEF Admit
<1>b. DefaultName[k] \in Name
  BY GatewayConstants
<1>c. LET e == Event("welcome", NoName, DefaultName[k]) IN
      e \in EventRecord /\ (e.type # "err" => e.new \in Name)
  BY <1>b DEF Event, EventRecord
<1>d. InboxType' /\ EventsNamed'
  BY <1>a, <1>c, DeliverTypes
<1>1. InboxType'
  BY <1>d
<1>2. MemberType'
  BY <1>a, <1>b DEF MemberType, Members
<1>3. EventsNamed'
  BY <1>d
<1>4. /\ WsType' /\ SessType' /\ RosterType' /\ UsersType' /\ TryType'
      /\ LinkType' /\ OutboxType' /\ TellingType' /\ ViewType' /\ AskedType'
      /\ CrashedType' /\ TriesNamed' /\ SessionsOwned' /\ TellsNamed'
  BY Zenon DEF Admit, WsType, SessType, RosterType, UsersType, TryType, LinkType,
     OutboxType, TellingType, ViewType, AskedType, CrashedType, TriesNamed,
     SessionsOwned, TellsNamed, Online
<1>h. HistoryType'
  BY DEF Admit, HistoryType
<1>5. TypeOK'
  BY <1>1, <1>2, <1>3, <1>4, <1>h, TypesNext
<1> QED BY <1>1, <1>2, <1>3, <1>4, <1>5

\* handle_nick answers with an error, or has a new name to tell.
LEMMA RenameTypes ==
  ASSUME TypeInv, NEW t \in Try, Rename(t)
  PROVE  TypeInv'
<1> USE Types DEF TypeInv
<1>a. outbox[t] \in Seq(Name) /\ outbox[t] # <<>> /\ t \in Members /\ member[t] \in Name
  BY DEF Rename, OutboxType, MemberType
<1>b. Head(outbox[t]) \in Name /\ Tail(outbox[t]) \in Seq(Name)
  BY <1>a, QueueTail
<1> DEFINE n == Head(outbox[t])
           r == [old |-> member[t], new |-> n, copied |-> FALSE, to |-> {}]
<1>c. \/ inbox' = Deliver(t, Event("err", NoName, NoName)) /\ UNCHANGED <<member, telling>>
      \/ /\ member' = [member EXCEPT ![t] = n] /\ telling' = [telling EXCEPT ![t] = r]
         /\ UNCHANGED inbox
  BY DEF Rename
<1>d. InboxType' /\ EventsNamed'
  <2>1. LET e == Event("err", NoName, NoName) IN
        e \in EventRecord /\ (e.type # "err" => e.new \in Name)
    BY DEF Event, EventRecord
  <2>2. CASE inbox' = Deliver(t, Event("err", NoName, NoName))
    BY <2>1, <2>2, DeliverTypes
  <2>3. CASE UNCHANGED inbox
    BY <2>3 DEF InboxType, EventsNamed
  <2> QED BY <1>c, <2>2, <2>3
<1>e. TellingType' /\ TellsNamed'
  <2>1. r \in Telling /\ r.new = n
    BY <1>a, <1>b DEF Telling
  <2>2. CASE UNCHANGED telling
    BY <2>2 DEF TellingType, TellsNamed
  <2> HIDE DEF r
  <2>3. CASE telling' = [telling EXCEPT ![t] = r]
    BY <1>b, <2>1, <2>3, OneTelling
  <2> QED BY <1>c, <2>2, <2>3
<1>1. InboxType'
  BY <1>d
<1>2. OutboxType'
  BY <1>b DEF Rename, OutboxType
<1>3. MemberType'
  BY <1>a, <1>b, <1>c DEF MemberType, Members
<1>4. TellingType'
  BY <1>e
<1>5. EventsNamed'
  BY <1>d
<1>6. TellsNamed'
  BY <1>e
<1>7. /\ WsType' /\ SessType' /\ RosterType' /\ UsersType' /\ TryType'
      /\ LinkType' /\ ViewType' /\ AskedType' /\ CrashedType' /\ TriesNamed'
      /\ SessionsOwned'
  BY Zenon DEF Rename, WsType, SessType, RosterType, UsersType, TryType, LinkType,
     ViewType, AskedType, CrashedType, TriesNamed, SessionsOwned, Online
<1>h. HistoryType'
  BY DEF Rename, HistoryType
<1>8. TypeOK'
  BY <1>1, <1>2, <1>3, <1>4, <1>5, <1>6, <1>7, <1>h, TypesNext
<1> QED BY <1>1, <1>2, <1>3, <1>4, <1>5, <1>6, <1>7, <1>8

\* broadcast() copies its targets.
LEMMA CopyTargetsTypes ==
  ASSUME TypeInv, NEW t \in Try, CopyTargets(t)
  PROVE  TypeInv'
<1> USE Types DEF TypeInv
<1>e. TellingType' /\ TellsNamed'
  <2> DEFINE r == [telling[t] EXCEPT !.copied = TRUE, !.to = Members]
  <2>1. telling[t] \in Telling /\ telling[t].new \in Name
    BY DEF CopyTargets, TellingType, TellsNamed
  <2>2. r.new = telling[t].new
    BY <2>1 DEF Telling
  <2>3. r \in Telling /\ r.new \in Name
    BY <2>1, <2>2 DEF Telling, MemberType
  <2>4. telling' = [telling EXCEPT ![t] = r]
    BY DEF CopyTargets
  <2> HIDE DEF r
  <2> QED BY <2>3, <2>4, OneTelling
<1>1. TellingType'
  BY <1>e
<1>2. TellsNamed'
  BY <1>e
<1>3. /\ WsType' /\ SessType' /\ RosterType' /\ UsersType' /\ TryType'
      /\ LinkType' /\ InboxType' /\ OutboxType' /\ MemberType' /\ ViewType'
      /\ AskedType' /\ CrashedType' /\ TriesNamed' /\ SessionsOwned' /\ EventsNamed'
  BY Zenon DEF CopyTargets, WsType, SessType, RosterType, UsersType, TryType, LinkType,
     InboxType, OutboxType, MemberType, ViewType, AskedType, CrashedType, TriesNamed,
     SessionsOwned, EventsNamed, Members, Online
<1>h. HistoryType'
  BY DEF CopyTargets, HistoryType, history
<1>4. TypeOK'
  BY <1>1, <1>2, <1>3, <1>h, TypesNext
<1> QED BY <1>1, <1>2, <1>3, <1>4

\* broadcast() delivers the new name to one of them.
LEMMA TellTypes ==
  ASSUME TypeInv, NEW t \in Try, NEW u \in Try, Tell(t, u)
  PROVE  TypeInv'
<1> USE Types DEF TypeInv
<1>a. telling[t] \in Telling /\ telling[t].new \in Name
  BY DEF Tell, TellingType, TellsNamed
<1>b. LET e == Event("nick", telling[t].old, telling[t].new) IN
      e \in EventRecord /\ (e.type # "err" => e.new \in Name)
  BY <1>a DEF Event, EventRecord, Telling
<1>d. InboxType' /\ EventsNamed'
  BY <1>b, DeliverTypes DEF Tell
<1>1. InboxType'
  BY <1>d
<1>2. TellingType'
  <2> DEFINE left == telling[t].to \ {u}
             r == [telling[t] EXCEPT !.to = left]
  <2>1. r \in Telling /\ Silent \in Telling
    BY <1>a DEF Telling, Silent
  <2>2. telling' = [telling EXCEPT ![t] = Silent] \/ telling' = [telling EXCEPT ![t] = r]
    BY DEF Tell
  <2> HIDE DEF r
  <2> QED BY <2>1, <2>2 DEF TellingType
<1>3. EventsNamed'
  BY <1>d
<1>4. TellsNamed'
  BY DEF Tell, TellsNamed, TellingType, Telling, Silent
<1>5. /\ WsType' /\ SessType' /\ RosterType' /\ UsersType' /\ TryType'
      /\ LinkType' /\ OutboxType' /\ MemberType' /\ ViewType' /\ AskedType'
      /\ CrashedType' /\ TriesNamed' /\ SessionsOwned'
  BY Zenon DEF Tell, WsType, SessType, RosterType, UsersType, TryType, LinkType,
     OutboxType, MemberType, ViewType, AskedType, CrashedType, TriesNamed,
     SessionsOwned, Members, Online
<1>h. HistoryType'
  BY DEF Tell, HistoryType, history
<1>6. TypeOK'
  BY <1>1, <1>2, <1>3, <1>4, <1>5, <1>h, TypesNext
<1> QED BY <1>1, <1>2, <1>3, <1>4, <1>5, <1>6

\* A handler ends, and nobody is told through it any more.
LEMMA DropTypes ==
  ASSUME TypeInv, NEW t \in Try, Drop(t)
  PROVE  TypeInv'
<1> USE Types DEF TypeInv
<1>1. MemberType'
  BY DEF Drop, Without, MemberType, Members
<1>2. TellingType'
  BY DEF Drop, TellingType, Telling
<1>3. TellsNamed'
  BY DEF Drop, TellsNamed
<1>4. /\ WsType' /\ SessType' /\ RosterType' /\ UsersType' /\ TryType'
      /\ LinkType' /\ InboxType' /\ OutboxType' /\ ViewType' /\ AskedType'
      /\ CrashedType' /\ TriesNamed' /\ SessionsOwned' /\ EventsNamed'
  BY Zenon DEF Drop, WsType, SessType, RosterType, UsersType, TryType, LinkType,
     InboxType, OutboxType, ViewType, AskedType, CrashedType, TriesNamed, SessionsOwned,
     EventsNamed, Online
<1>h. HistoryType'
  BY DEF Drop, HistoryType, history
<1>5. TypeOK'
  BY <1>1, <1>2, <1>3, <1>4, <1>h, TypesNext
<1> QED BY <1>1, <1>2, <1>3, <1>4, <1>5

\* The same, when the server shuts the connection down.
LEMMA BackendLostTypes ==
  ASSUME TypeInv, NEW t \in Try, BackendLost(t)
  PROVE  TypeInv'
<1> USE Types DEF TypeInv
<1>1. LinkType'
  BY DEF BackendLost, LinkType, LinkState
<1>2. MemberType'
  BY DEF BackendLost, Without, MemberType, Members
<1>3. TellingType'
  BY DEF BackendLost, TellingType, Telling, Silent
<1>4. TriesNamed'
  BY DEF BackendLost, LinkType, TriesNamed
<1>5. SessionsOwned'
  BY DEF BackendLost, SessionsOwned, Online
<1>6. TellsNamed'
  BY DEF BackendLost, TellsNamed
<1>7. /\ WsType' /\ SessType' /\ RosterType' /\ UsersType' /\ TryType'
      /\ InboxType' /\ OutboxType' /\ ViewType' /\ AskedType' /\ CrashedType'
      /\ EventsNamed'
  BY Zenon DEF BackendLost, WsType, SessType, RosterType, UsersType, TryType, InboxType,
     OutboxType, ViewType, AskedType, CrashedType, EventsNamed, Online
<1>h. HistoryType'
  BY DEF BackendLost, HistoryType, history
<1>8. TypeOK'
  BY <1>1, <1>2, <1>3, <1>4, <1>5, <1>6, <1>7, <1>h, TypesNext
<1> QED BY <1>1, <1>2, <1>3, <1>4, <1>5, <1>6, <1>7, <1>8

----------------------------------------------------------------------------
(* The type invariant.                                                     *)

\* The gateway when it has started.
LEMMA TypesInit == Init => TypeInv
<1> SUFFICES ASSUME Init PROVE TypeInv
  OBVIOUS
<1> USE GatewayConstants DEF Init
<1>1. WsType /\ AskedType
  BY DEF WsType, AskedType
<1>8. CrashedType /\ HistoryType
  BY Zenon DEF CrashedType, HistoryType
<1>2. SessType
  <2>1. <<>> \in Seq(Name)
    OBVIOUS
  <2> QED BY <2>1 DEF SessType, SessionRecord, Fresh
<1>3. RosterType /\ UsersType /\ MemberType
  BY DEF RosterType, Online, UsersType, MemberType, Members
<1>4. TryType /\ LinkType
  BY DEF TryType, TryRecord, LinkType, LinkState
<1>5. InboxType /\ OutboxType /\ ViewType
  BY DEF InboxType, OutboxType, ViewType
<1>6. TellingType /\ TellsNamed
  BY DEF TellingType, TellsNamed, Telling, Silent
<1>7. TriesNamed /\ SessionsOwned /\ EventsNamed
  BY DEF TriesNamed, SessionsOwned, EventsNamed, Fresh, Online
<1> QED BY <1>1, <1>2, <1>3, <1>4, <1>5, <1>6, <1>7, <1>8, Types DEF TypeInv

\* No callback of the gateway and no step of the server breaks it.
LEMMA TypesStep == TypeInv /\ [Next]_vars => TypeInv'
<1> SUFFICES ASSUME TypeInv, [Next]_vars PROVE TypeInv'
  OBVIOUS
<1>1. ASSUME NEW s \in Session, FromBrowser(s)
      PROVE  TypeInv'
  <2>1. CASE Connect(s)
    BY <2>1, ConnectTypes
  <2>2. CASE \E k \in 1..Attempts, kind \in {"register", "login"}, n \in Name :
              Auth(<<s, k>>, kind, n)
    <3>1. PICK k \in 1..Attempts, kind \in {"register", "login"}, n \in Name :
            Auth(<<s, k>>, kind, n)
      BY <2>2
    <3>2. <<s, k>> \in Try
      BY DEF Try
    <3> QED BY <3>1, <3>2, AuthTypes
  <2>3. CASE \E n \in Typed : SetNickname(s, n)
    BY <2>3, SetNicknameTypes
  <2>4. CASE RequestState(s)
    BY <2>4, RequestStateTypes
  <2>5. CASE SetPresence(s)
    BY <2>5, SetPresenceTypes
  <2>6. CASE Logout(s)
    BY <2>6, LogoutTypes
  <2>7. CASE WsClosed(s)
    BY <2>7, WsClosedTypes
  <2> QED BY <1>1, <2>1, <2>2, <2>3, <2>4, <2>5, <2>6, <2>7 DEF FromBrowser
<1>2. ASSUME NEW t \in Try,
             Hashed(t) \/ Connected(t) \/ FromBackend(t) \/ ServerStep(t) \/ BackendLost(t)
      PROVE  TypeInv'
  <2>1. CASE AuthFails(t)
    BY <2>1, AuthFailsTypes
  <2>2. CASE \E i \in Id : AuthSucceeds(t, i)
    BY <2>2, AuthSucceedsTypes
  <2>3. CASE ConnectOk(t)
    BY <2>3, ConnectOkTypes
  <2>4. CASE ConnectFails(t)
    BY <2>4, ConnectFailsTypes
  <2>5. CASE OnWelcome(t)
    BY <2>5, OnWelcomeTypes
  <2>6. CASE OnNick(t)
    BY <2>6, OnNickTypes
  <2>7. CASE OnErr(t)
    BY <2>7, OnErrTypes
  <2>8. CASE OnBackendClosed(t)
    BY <2>8, OnBackendClosedTypes
  <2>9. CASE Admit(t)
    BY <2>9, AdmitTypes
  <2>10. CASE Rename(t)
    BY <2>10, RenameTypes
  <2>11. CASE CopyTargets(t)
    BY <2>11, CopyTargetsTypes
  <2>12. CASE \E u \in Try : Tell(t, u)
    BY <2>12, TellTypes
  <2>13. CASE Drop(t)
    BY <2>13, DropTypes
  <2>14. CASE BackendLost(t)
    BY <2>14, BackendLostTypes
  <2> QED BY <1>2, <2>1, <2>2, <2>3, <2>4, <2>5, <2>6, <2>7, <2>8, <2>9, <2>10, <2>11,
     <2>12, <2>13, <2>14 DEF Hashed, Connected, FromBackend, ServerStep
<1>3. CASE UNCHANGED vars
  BY <1>3, Zenon DEF vars, TypeInv, TypeOK, Online, Members, TriesNamed, SessionsOwned,
     EventsNamed, TellsNamed
<1> QED BY <1>1, <1>2, <1>3 DEF Next

\* Every variable of the gateway stays in its set: in particular the roster
\* holds accounts and sessions, and whoever has a backend connection or a place
\* in the roster is authenticated (gatewayServer.ts, session.ts, users.ts).
THEOREM TypeInvariant == Spec => []TypeInv
BY TypesInit, TypesStep, PTL DEF Spec

\* The type invariant of the module, for every instance and whatever goes wrong.
THEOREM GatewayTypes == Spec => []TypeOK
<1>1. TypeInv => TypeOK
  BY DEF TypeInv
<1> QED BY <1>1, TypeInvariant, PTL

----------------------------------------------------------------------------
(* Usernames.                                                              *)

\* users.register's INSERT fails for a name that is taken.
LEMMA RowUnique ==
  ASSUME AccountsUnique, NEW t, NEW i, Row(t, i)
  PROVE  AccountsUnique'
<1>1. CASE UNCHANGED users
  BY <1>1 DEF AccountsUnique
<1>2. CASE /\ try[t].name \notin NamesTaken
           /\ users' = [j \in DOMAIN users \cup {i} |-> IF j = i THEN try[t].name ELSE users[j]]
  <2>1. \A j \in DOMAIN users : users[j] # try[t].name
    BY <1>2 DEF NamesTaken
  <2> QED BY <1>2, <2>1 DEF AccountsUnique
<1> QED BY <1>1, <1>2 DEF Row

\* users.rename leaves the table alone when the name is another account's.
LEMMA RenameUnique ==
  ASSUME AccountsUnique, NEW i, NEW n, users' = Persisted(i, n)
  PROVE  AccountsUnique'
BY DEF AccountsUnique, Persisted

\* Nobody else writes the users table.
LEMMA AccountsStep == AccountsUnique /\ [Next]_vars => AccountsUnique'
<1> SUFFICES ASSUME AccountsUnique, [Next]_vars PROVE AccountsUnique'
  OBVIOUS
<1>1. ASSUME NEW s \in Session, FromBrowser(s)
      PROVE  UNCHANGED users
  BY <1>1 DEF FromBrowser, Connect, Auth, SetNickname, RequestState, SetPresence, Logout,
     WsClosed
<1>2. ASSUME NEW t \in Try, Hashed(t)
      PROVE  AccountsUnique'
  <2>1. CASE AuthFails(t)
    BY <2>1 DEF AuthFails, AccountsUnique
  <2>2. CASE \E i \in Id : AuthSucceeds(t, i)
    BY <2>2, RowUnique DEF AuthSucceeds
  <2> QED BY <1>2, <2>1, <2>2 DEF Hashed
<1>3. ASSUME NEW t \in Try, OnNick(t)
      PROVE  AccountsUnique'
  <2>1. UNCHANGED users \/ \E i, n : users' = Persisted(i, n)
    BY <1>3 DEF OnNick
  <2> QED BY <2>1, RenameUnique DEF AccountsUnique
<1>4. ASSUME NEW t \in Try,
             \/ Connected(t) \/ OnWelcome(t) \/ OnErr(t) \/ OnBackendClosed(t)
             \/ ServerStep(t) \/ BackendLost(t)
      PROVE  UNCHANGED users
  BY <1>4 DEF Connected, ConnectOk, ConnectFails, OnWelcome, OnErr, OnBackendClosed,
     ServerStep, Admit, Rename, CopyTargets, Tell, Drop, BackendLost
<1>5. CASE UNCHANGED users
  BY <1>5 DEF AccountsUnique
<1> QED BY <1>1, <1>2, <1>3, <1>4, <1>5 DEF Next, FromBackend, vars

\* No two accounts ever share a username, whatever is registered and renamed
\* while passwords are hashed, and whatever else goes wrong (users.ts:52-63, 84-92).
THEOREM UsernamesUnique == Spec => []AccountsUnique
<1>1. Init => AccountsUnique
  BY GatewayConstants DEF Init, AccountsUnique
<1> QED BY <1>1, AccountsStep, PTL DEF Spec

----------------------------------------------------------------------------
(* The roster, while nobody leaves or logs in twice during a login, and no *)
(* connection to the backend fails.                                        *)

\* A Session object is closed when its WebSocket is; while a password is hashed
\* its session is neither closed nor logged in, and no other is hashed for it.
Shut == \A s \in Session : sess[s].closed <=> ws[s] = "closed"

HashingOpen ==
  \A t \in Try : try[t].at = "hashing" => ~sess[t[1]].authenticated /\ ~sess[t[1]].closed

OneHashing ==
  \A t, u \in Try : try[t].at = "hashing" /\ try[u].at = "hashing" /\ t[1] = u[1] => t = u

\* The roster holds exactly the sessions that are logged in and not closed, each
\* under its own account.
RosterExact ==
  /\ \A i \in Online :
       LET s == roster[i] IN sess[s].authenticated /\ sess[s].id = i /\ ~sess[s].closed
  /\ \A s \in Session :
       sess[s].authenticated /\ ~sess[s].closed
         => sess[s].id \in Online /\ roster[sess[s].id] = s

RosterInv ==
  /\ TypeInv
  /\ RosterExact
  /\ Shut
  /\ HashingOpen
  /\ OneHashing

\* A step that closes no WebSocket, changes no owner and no attempt.
LEMMA OwnersRoster ==
  ASSUME RosterInv, TypeInv', UNCHANGED <<try, roster>>,
         \A s \in Session : Owner(sess'[s]) = Owner(sess[s]),
         \A s \in Session : ws'[s] = "closed" <=> ws[s] = "closed"
  PROVE  RosterInv'
<1>1. /\ \A s \in Session : /\ sess'[s].authenticated = sess[s].authenticated
                            /\ sess'[s].id = sess[s].id /\ sess'[s].closed = sess[s].closed
      /\ \A t \in Try : t[1] \in Session
      /\ \A i \in Online : roster[i] \in Session
  BY TrySession DEF Owner, RosterInv, TypeInv, TypeOK
<1>2. RosterExact'
  BY <1>1 DEF RosterInv, RosterExact, Online
<1>3. Shut'
  BY <1>1 DEF RosterInv, Shut
<1>4. HashingOpen' /\ OneHashing'
  BY <1>1 DEF RosterInv, HashingOpen, OneHashing
<1> QED BY <1>2, <1>3, <1>4 DEF RosterInv

\* An attempt that stops hashing, or was not.
LEMMA TryRoster ==
  ASSUME RosterInv, TypeInv', UNCHANGED <<ws, sess, roster>>,
         \A t \in Try : try'[t].at = "hashing" => try[t].at = "hashing"
  PROVE  RosterInv'
BY DEF RosterInv, RosterExact, Online, Shut, HashingOpen, OneHashing

\* handleAuth looks at the session before the password is hashed.
LEMMA AuthRoster ==
  ASSUME RosterInv, "doubleLogin" \notin Faults, NEW t \in Try,
         NEW kind \in {"register", "login"}, NEW n \in Name, Auth(t, kind, n)
  PROVE  RosterInv'
<1>1. TypeInv' /\ \A u \in Try : u # t => try'[u] = try[u]
  BY AuthTypes DEF RosterInv
<1>2. /\ UNCHANGED <<ws, sess, roster>>
      /\ t[1] \in Session /\ ws[t[1]] # "closed" /\ ~sess[t[1]].authenticated
      /\ ~Authenticating(t[1])
  BY TrySession DEF Auth
<1>3. ~sess[t[1]].closed
  BY <1>2 DEF RosterInv, Shut
<1>4. HashingOpen' /\ OneHashing'
  BY <1>1, <1>2, <1>3 DEF RosterInv, HashingOpen, OneHashing, Authenticating
<1>5. RosterExact' /\ Shut'
  BY <1>2 DEF RosterInv, RosterExact, Shut, Online
<1> QED BY <1>1, <1>4, <1>5 DEF RosterInv

\* handleAuth looks at the roster after the password is hashed.
LEMMA AuthSucceedsRoster ==
  ASSUME RosterInv, NEW t \in Try, NEW i \in Id, AuthSucceeds(t, i)
  PROVE  RosterInv'
<1> DEFINE s == t[1]
<1>1. /\ TypeInv' /\ UNCHANGED ws /\ s \in Session
      /\ try[t].at = "hashing" /\ try'[t].at # "hashing"
      /\ \A u \in Try : u # t => try'[u] = try[u]
  BY AuthSucceedsTypes, TrySession DEF RosterInv, AuthSucceeds
<1>2. ~sess[s].authenticated /\ ~sess[s].closed
  BY <1>1 DEF RosterInv, HashingOpen
<1>3. OneHashing'
  BY <1>1 DEF RosterInv, OneHashing
<1>4. CASE LoggedIn(i)
  <2>1. UNCHANGED <<sess, roster>>
    BY <1>4, AuthSucceedsTypes DEF RosterInv
  <2>2. RosterExact' /\ Shut' /\ HashingOpen'
    BY <1>1, <2>1 DEF RosterInv, RosterExact, Shut, HashingOpen, Online
  <2> QED BY <1>1, <1>3, <2>2 DEF RosterInv
<1>5. CASE ~LoggedIn(i)
  <2>1. /\ \A u \in Session : u # s => sess'[u] = sess[u]
        /\ sess'[s].authenticated /\ sess'[s].id = i /\ sess'[s].closed = sess[s].closed
    BY <1>5, AuthSucceedsTypes DEF RosterInv
  <2>2. roster' = [j \in Online \cup {i} |-> IF j = i THEN s ELSE roster[j]]
    BY <1>5 DEF AuthSucceeds
  <2>3. Online' = Online \cup {i} /\ roster'[i] = s
        /\ \A j \in Online : j # i => roster'[j] = roster[j]
    BY <2>2 DEF Online
  <2>4. Shut'
    BY <1>1, <2>1 DEF RosterInv, Shut
  <2>5. HashingOpen'
    <3>1. \A u \in Try : try'[u].at = "hashing" => u[1] # s
      BY <1>1 DEF RosterInv, OneHashing
    <3> QED BY <1>1, <2>1, <3>1, TrySession DEF RosterInv, HashingOpen
  <2>6. \A j \in Online' : LET u == roster'[j] IN
          sess'[u].authenticated /\ sess'[u].id = j /\ ~sess'[u].closed
    <3>1. \A j \in Online : j # i => roster[j] # s /\ roster[j] \in Session
      BY <1>2 DEF RosterInv, RosterExact, TypeInv, TypeOK
    <3> QED BY <1>2, <2>1, <2>3, <3>1 DEF RosterInv, RosterExact
  <2>7. \A u \in Session : sess'[u].authenticated /\ ~sess'[u].closed
          => sess'[u].id \in Online' /\ roster'[sess'[u].id] = u
    <3>1. \A u \in Session : u # s /\ sess[u].authenticated /\ ~sess[u].closed
            => sess[u].id \in Online /\ roster[sess[u].id] = u /\ sess[u].id # i
      BY <1>5 DEF RosterInv, RosterExact, LoggedIn
    <3> QED BY <2>1, <2>3, <3>1
  <2>8. RosterExact'
    BY <2>6, <2>7 DEF RosterExact
  <2> QED BY <1>1, <1>3, <2>4, <2>5, <2>8 DEF RosterInv
<1> QED BY <1>4, <1>5

\* onClientClosed takes the session, and nobody else, out of the roster.
LEMMA WsClosedRoster ==
  ASSUME RosterInv, "closeInAuth" \notin Faults, NEW s \in Session, WsClosed(s)
  PROVE  RosterInv'
<1>1. /\ TypeInv' /\ UNCHANGED try /\ ws[s] # "closed" /\ ~Authenticating(s)
      /\ \A u \in Session : ws'[u] = IF u = s THEN "closed" ELSE ws[u]
  BY WsClosedTypes DEF RosterInv, WsClosed, TypeInv, TypeOK
<1>2. \A u \in Session :
        /\ sess'[u].authenticated = sess[u].authenticated
        /\ sess'[u].id = sess[u].id
        /\ (sess'[u].closed <=> u = s \/ sess[u].closed)
  BY WsClosedTypes DEF RosterInv
<1>3. ~sess[s].closed
  BY <1>1 DEF RosterInv, Shut
<1>4. Shut'
  BY <1>1, <1>2 DEF RosterInv, Shut
<1>5. HashingOpen' /\ OneHashing'
  <2>1. \A t \in Try : try[t].at = "hashing" => t[1] # s
    BY <1>1 DEF Authenticating
  <2>2. OneHashing'
    BY <1>1 DEF RosterInv, OneHashing
  <2> QED BY <1>1, <1>2, <2>1, <2>2, TrySession DEF RosterInv, HashingOpen
<1>6. RosterExact'
  <2>1. CASE ~sess[s].authenticated
    <3>1. UNCHANGED roster
      BY <2>1 DEF WsClosed
    <3>2. \A i \in Online : roster[i] \in Session /\ roster[i] # s
      BY <2>1 DEF RosterInv, RosterExact, TypeInv, TypeOK
    <3> QED BY <1>2, <2>1, <3>1, <3>2 DEF RosterInv, RosterExact, Online
  <2>2. CASE sess[s].authenticated
    <3>1. roster' = [i \in Online \ {sess[s].id} |-> roster[i]]
      BY <2>2 DEF WsClosed
    <3>2. /\ Online' = Online \ {sess[s].id}
          /\ \A i \in Online' : roster'[i] = roster[i]
      BY <3>1 DEF Online
    <3>3. sess[s].id \in Online /\ roster[sess[s].id] = s
      BY <1>3, <2>2 DEF RosterInv, RosterExact
    <3>4. \A i \in Online' : roster[i] \in Session /\ roster[i] # s
      BY <3>2 DEF RosterInv, RosterExact, TypeInv, TypeOK
    <3>5. \A i \in Online' : LET u == roster'[i] IN
            sess'[u].authenticated /\ sess'[u].id = i /\ ~sess'[u].closed
      BY <1>2, <3>2, <3>4 DEF RosterInv, RosterExact
    <3>6. \A u \in Session : sess'[u].authenticated /\ ~sess'[u].closed
            => sess'[u].id \in Online' /\ roster'[sess'[u].id] = u
      BY <1>2, <3>2, <3>3 DEF RosterInv, RosterExact
    <3> QED BY <3>5, <3>6 DEF RosterExact
  <2> QED BY <2>1, <2>2
<1> QED BY <1>1, <1>4, <1>5, <1>6 DEF RosterInv

\* The handlers keep the roster in step with the sessions, unless a browser
\* leaves or logs in twice while its password is hashed, or the backend refuses
\* a connection: MCGateway_ghost shows what the first of these leads to.
LEMMA RosterStep ==
  ASSUME Faults \cap {"closeInAuth", "doubleLogin", "connectFails"} = {}
  PROVE  RosterInv /\ [Next]_vars => RosterInv'
<1> SUFFICES ASSUME RosterInv, [Next]_vars PROVE RosterInv'
  OBVIOUS
<1>0. /\ "closeInAuth" \notin Faults /\ "doubleLogin" \notin Faults
      /\ "connectFails" \notin Faults
  OBVIOUS
<1> USE <1>0
<1>1. ASSUME NEW s \in Session, FromBrowser(s)
      PROVE  RosterInv'
  <2>1. CASE Connect(s)
    <3>1. /\ UNCHANGED <<sess, try, roster>>
          /\ \A u \in Session : ws'[u] = "closed" <=> ws[u] = "closed"
      BY <2>1 DEF Connect, RosterInv, TypeInv, TypeOK
    <3> QED BY <2>1, <3>1, ConnectTypes, OwnersRoster DEF RosterInv
  <2>2. CASE \E k \in 1..Attempts, kind \in {"register", "login"}, n \in Name :
              Auth(<<s, k>>, kind, n)
    <3>1. PICK k \in 1..Attempts, kind \in {"register", "login"}, n \in Name :
            Auth(<<s, k>>, kind, n)
      BY <2>2
    <3>2. <<s, k>> \in Try
      BY DEF Try
    <3> QED BY <3>1, <3>2, AuthRoster
  <2>3. CASE \E n \in Typed : SetNickname(s, n)
    <3>1. TypeInv' /\ \A u \in Session : Owner(sess'[u]) = Owner(sess[u])
      BY <2>3, SetNicknameTypes DEF RosterInv
    <3> QED BY <2>3, <3>1, OwnersRoster DEF SetNickname
  <2>4. CASE RequestState(s)
    BY <2>4, RequestStateTypes, OwnersRoster DEF RequestState, RosterInv
  <2>5. CASE SetPresence(s)
    BY <2>5, SetPresenceTypes, OwnersRoster DEF SetPresence, RosterInv
  <2>6. CASE Logout(s)
    <3>1. /\ UNCHANGED <<sess, try, roster>>
          /\ \A u \in Session : ws'[u] = "closed" <=> ws[u] = "closed"
      BY <2>6 DEF Logout, RosterInv, TypeInv, TypeOK
    <3> QED BY <2>6, <3>1, LogoutTypes, OwnersRoster DEF RosterInv
  <2>7. CASE WsClosed(s)
    BY <2>7, WsClosedRoster
  <2> QED BY <1>1, <2>1, <2>2, <2>3, <2>4, <2>5, <2>6, <2>7 DEF FromBrowser
<1>2. ASSUME NEW t \in Try,
             Hashed(t) \/ Connected(t) \/ FromBackend(t) \/ ServerStep(t) \/ BackendLost(t)
      PROVE  RosterInv'
  <2>1. CASE AuthFails(t)
    <3>1. \A u \in Try : try'[u].at = "hashing" => try[u].at = "hashing"
      BY <2>1 DEF AuthFails, RosterInv, TypeInv, TypeOK, TryRecord
    <3> QED BY <2>1, <3>1, AuthFailsTypes, TryRoster DEF AuthFails, RosterInv
  <2>2. CASE \E i \in Id : AuthSucceeds(t, i)
    BY <2>2, AuthSucceedsRoster
  <2>3. CASE ConnectOk(t)
    <3>1. \A u \in Try : try'[u].at = "hashing" => try[u].at = "hashing"
      BY <2>3, ConnectOkTypes DEF RosterInv
    <3> QED BY <2>3, <3>1, ConnectOkTypes, TryRoster DEF ConnectOk, RosterInv
  <2>4. CASE ConnectFails(t)
    BY <2>4 DEF ConnectFails
  <2>5. CASE OnWelcome(t)
    <3>1. TypeInv' /\ \A u \in Session : Owner(sess'[u]) = Owner(sess[u])
      BY <2>5, OnWelcomeTypes DEF RosterInv
    <3> QED BY <2>5, <3>1, OwnersRoster DEF OnWelcome
  <2>6. CASE OnNick(t)
    <3>1. TypeInv' /\ \A u \in Session : Owner(sess'[u]) = Owner(sess[u])
      BY <2>6, OnNickTypes DEF RosterInv
    <3> QED BY <2>6, <3>1, OwnersRoster DEF OnNick
  <2>7. CASE OnErr(t)
    <3>1. /\ UNCHANGED <<sess, try, roster>>
          /\ \A u \in Session : ws'[u] = "closed" <=> ws[u] = "closed"
      BY <2>7 DEF OnErr, RosterInv, TypeInv, TypeOK
    <3> QED BY <2>7, <3>1, OnErrTypes, OwnersRoster DEF RosterInv
  <2>8. CASE OnBackendClosed(t)
    <3>1. /\ UNCHANGED <<sess, try, roster>>
          /\ \A u \in Session : ws'[u] = "closed" <=> ws[u] = "closed"
      BY <2>8 DEF OnBackendClosed, RosterInv, TypeInv, TypeOK
    <3> QED BY <2>8, <3>1, OnBackendClosedTypes, OwnersRoster DEF RosterInv
  <2>9. CASE Admit(t)
    BY <2>9, AdmitTypes, OwnersRoster DEF Admit, RosterInv
  <2>10. CASE Rename(t)
    BY <2>10, RenameTypes, OwnersRoster DEF Rename, RosterInv
  <2>11. CASE CopyTargets(t)
    BY <2>11, CopyTargetsTypes, OwnersRoster DEF CopyTargets, RosterInv
  <2>12. CASE \E u \in Try : Tell(t, u)
    BY <2>12, TellTypes, OwnersRoster DEF Tell, RosterInv
  <2>13. CASE Drop(t)
    BY <2>13, DropTypes, OwnersRoster DEF Drop, RosterInv
  <2>14. CASE BackendLost(t)
    BY <2>14, BackendLostTypes, OwnersRoster DEF BackendLost, RosterInv
  <2> QED BY <1>2, <2>1, <2>2, <2>3, <2>4, <2>5, <2>6, <2>7, <2>8, <2>9, <2>10, <2>11,
     <2>12, <2>13, <2>14 DEF Hashed, Connected, FromBackend, ServerStep
<1>3. CASE UNCHANGED vars
  <2>1. TypeInv'
    BY <1>3, TypesStep DEF RosterInv
  <2> QED BY <1>3, <2>1, OwnersRoster DEF vars
<1> QED BY <1>1, <1>2, <1>3 DEF Next

----------------------------------------------------------------------------
(* Whose connection it is: how sessions, links and queues move.            *)

\* The steps one by one.
LEMMA Steps ==
  ASSUME [Next]_vars
  PROVE  \/ UNCHANGED vars
         \/ \E s \in Session :
              \/ Connect(s) \/ RequestState(s) \/ SetPresence(s) \/ Logout(s) \/ WsClosed(s)
              \/ \E n \in Typed : SetNickname(s, n)
         \/ \E t \in Try :
              \/ \E kind \in {"register", "login"}, n \in Name : Auth(t, kind, n)
              \/ AuthFails(t) \/ (\E i \in Id : AuthSucceeds(t, i))
              \/ ConnectOk(t) \/ ConnectFails(t)
              \/ OnWelcome(t) \/ OnNick(t) \/ OnErr(t) \/ OnBackendClosed(t)
              \/ Admit(t) \/ Rename(t) \/ CopyTargets(t) \/ (\E u \in Try : Tell(t, u))
              \/ Drop(t) \/ BackendLost(t)
<1>1. CASE UNCHANGED vars
  BY <1>1
<1>2. ASSUME NEW s \in Session, FromBrowser(s)
      PROVE  \/ Connect(s) \/ RequestState(s) \/ SetPresence(s) \/ Logout(s) \/ WsClosed(s)
             \/ \E n \in Typed : SetNickname(s, n)
             \/ \E t \in Try, kind \in {"register", "login"}, n \in Name : Auth(t, kind, n)
  <2>1. CASE \E k \in 1..Attempts, kind \in {"register", "login"}, n \in Name :
               Auth(<<s, k>>, kind, n)
    <3>1. \A k \in 1..Attempts : <<s, k>> \in Try
      BY DEF Try
    <3> QED BY <2>1, <3>1
  <2> QED BY <1>2, <2>1 DEF FromBrowser
<1>3. ASSUME NEW t \in Try,
             Hashed(t) \/ Connected(t) \/ FromBackend(t) \/ ServerStep(t) \/ BackendLost(t)
      PROVE  \/ AuthFails(t) \/ (\E i \in Id : AuthSucceeds(t, i))
             \/ ConnectOk(t) \/ ConnectFails(t)
             \/ OnWelcome(t) \/ OnNick(t) \/ OnErr(t) \/ OnBackendClosed(t)
             \/ Admit(t) \/ Rename(t) \/ CopyTargets(t) \/ (\E u \in Try : Tell(t, u))
             \/ Drop(t) \/ BackendLost(t)
  BY <1>3 DEF Hashed, Connected, FromBackend, ServerStep
<1> QED BY <1>1, <1>2, <1>3 DEF Next

\* A session as it was, but for what it has queued.
SameSession(r, q) ==
  /\ q.id = r.id /\ q.authenticated = r.authenticated /\ q.backend = r.backend
  /\ q.nickname = r.nickname /\ q.desired = r.desired
  /\ q.ready = r.ready /\ q.welcomed = r.welcomed /\ q.closed = r.closed

\* A session that attempt t logs into account i.
LogsIn(t, i, r, q) ==
  /\ q.id = i /\ q.authenticated /\ q.backend = t
  /\ q.nickname = r.nickname /\ q.desired = try[t].name
  /\ q.ready = r.ready /\ q.welcomed = r.welcomed /\ q.closed = r.closed

\* A session whose WebSocket closes.
Shuts(r, q) ==
  /\ q.id = r.id /\ q.authenticated = r.authenticated /\ q.backend = r.backend
  /\ q.nickname = r.nickname /\ q.desired = r.desired
  /\ q.ready = r.ready /\ q.welcomed = r.welcomed /\ q.closed

\* A session whose connection is welcomed under the name n.
Welcomes(n, r, q) ==
  /\ q.id = r.id /\ q.authenticated = r.authenticated /\ q.backend = r.backend
  /\ q.nickname = n /\ q.desired = r.desired
  /\ (q.ready <=> r.ready \/ r.desired \in {NoName, n}) /\ q.welcomed /\ q.closed = r.closed

\* A session whose nickname becomes n.
Follows(n, r, q) ==
  /\ q.id = r.id /\ q.authenticated = r.authenticated /\ q.backend = r.backend
  /\ q.nickname = n /\ q.desired = (IF r.desired = n THEN NoName ELSE r.desired)
  /\ q.ready /\ q.welcomed = r.welcomed /\ q.closed = r.closed

\* SetNickname: the record changes in nothing but its queue.
LEMMA SetNicknameMoves ==
  ASSUME TypeInv, NEW s \in Session, NEW n \in Typed, SetNickname(s, n), NEW u \in Session
  PROVE  SameSession(sess[u], sess'[u])
<1>1. UNCHANGED sess \/ sess' = [sess EXCEPT ![s].pending = Append(@, n)]
  BY DEF SetNickname
<1>2. sess \in [Session -> SessionRecord] /\ sess[u] \in SessionRecord
  BY DEF TypeInv, TypeOK
<1>3. PICK q : q = [sess[u] EXCEPT !.pending = Append(@, n)]
  OBVIOUS
<1>4. SameSession(sess[u], q)
  BY <1>2, <1>3 DEF SessionRecord, SameSession
<1>5. sess'[u] = sess[u] \/ sess'[u] = q
  <2>1. CASE u = s
    BY <1>1, <1>2, <1>3, <2>1
  <2>2. CASE u # s
    BY <1>1, <1>2, <2>2
  <2> QED BY <2>1, <2>2
<1>6. SameSession(sess[u], sess[u])
  BY DEF SameSession
<1> QED BY <1>4, <1>5, <1>6

\* handleAuth gives the session of the attempt its account, and no other.
LEMMA AuthSucceedsMoves ==
  ASSUME TypeInv, NEW t \in Try, NEW i \in Id, AuthSucceeds(t, i), NEW u \in Session
  PROVE  \/ sess'[u] = sess[u]
         \/ t[1] = u /\ ~LoggedIn(i) /\ LogsIn(t, i, sess[u], sess'[u])
<1>1. CASE LoggedIn(i)
  BY <1>1 DEF AuthSucceeds
<1>2. CASE ~LoggedIn(i)
  <2>1. sess' = [sess EXCEPT ![t[1]] = InAccount(sess[t[1]], i, try[t].name, t)]
    BY <1>2 DEF AuthSucceeds, InAccount
  <2>2. sess \in [Session -> SessionRecord] /\ sess[u] \in SessionRecord
    BY DEF TypeInv, TypeOK
  <2>3. CASE u = t[1]
    <3>1. sess'[u] = InAccount(sess[u], i, try[t].name, t)
      BY <2>1, <2>2, <2>3
    <3>2. PICK n : n = try[t].name
      OBVIOUS
    <3>3. LogsIn(t, i, sess[u], InAccount(sess[u], i, n, t))
      BY <2>2, <3>2 DEF SessionRecord, InAccount, LogsIn
    <3> QED BY <1>2, <2>3, <3>1, <3>2, <3>3
  <2>4. CASE u # t[1]
    BY <2>1, <2>4
  <2> QED BY <2>3, <2>4
<1> QED BY <1>1, <1>2

\* onClientClosed marks the session of the WebSocket, and no other.
LEMMA WsClosedMoves ==
  ASSUME TypeInv, NEW s \in Session, WsClosed(s), NEW u \in Session
  PROVE  \/ sess'[u] = sess[u]
         \/ u = s /\ Shuts(sess[u], sess'[u])
<1>1. sess' = [sess EXCEPT ![s].closed = TRUE]
  BY DEF WsClosed
<1>2. sess \in [Session -> SessionRecord] /\ sess[u] \in SessionRecord
  BY DEF TypeInv, TypeOK
<1>3. CASE u = s
  <2>1. sess'[u] = [sess[u] EXCEPT !.closed = TRUE]
    BY <1>1, <1>2, <1>3
  <2> QED BY <1>2, <1>3, <2>1 DEF SessionRecord, Shuts
<1>4. CASE u # s
  BY <1>1, <1>2, <1>4
<1> QED BY <1>3, <1>4

\* onBackendEvent, WELCOME: the session of the connection is welcomed.
LEMMA OnWelcomeMoves ==
  ASSUME TypeInv, NEW t \in Try, OnWelcome(t), NEW u \in Session
  PROVE  \/ t[1] # u /\ sess'[u] = sess[u]
         \/ t[1] = u /\ Welcomes(Head(inbox[t]).new, sess[u], sess'[u])
<1>1. sess \in [Session -> SessionRecord] /\ sess[u] \in SessionRecord /\ t[1] \in Session
  BY TrySession DEF TypeInv, TypeOK
<1>2. PICK n : n = Head(inbox[t]).new
  OBVIOUS
<1>3. PICK r : r = [sess[t[1]] EXCEPT !.welcomed = TRUE, !.nickname = n]
  OBVIOUS
<1>4. PICK q : q = [r EXCEPT !.ready = TRUE, !.pending = <<>>]
  OBVIOUS
<1>5. \/ Claims(r) /\ sess' = [sess EXCEPT ![t[1]] = r]
      \/ ~Claims(r) /\ sess' = [sess EXCEPT ![t[1]] = q]
  BY <1>2, <1>3, <1>4 DEF OnWelcome, AnnounceReady
<1>6. CASE u # t[1]
  BY <1>1, <1>5, <1>6
<1>7. CASE u = t[1]
  <2>1. /\ r.desired = sess[u].desired /\ r.nickname = n
        /\ Claims(r) <=> sess[u].desired \notin {NoName, n}
    BY <1>1, <1>3, <1>7 DEF SessionRecord, Claims
  <2>2. CASE Claims(r)
    <3>1. sess'[u] = r
      BY <1>1, <1>5, <1>7, <2>2
    <3>2. Welcomes(n, sess[u], r)
      BY <1>1, <1>3, <1>7, <2>1, <2>2 DEF SessionRecord, Welcomes
    <3> QED BY <1>2, <1>7, <3>1, <3>2
  <2>3. CASE ~Claims(r)
    <3>1. sess'[u] = q
      BY <1>1, <1>5, <1>7, <2>3
    <3>2. Welcomes(n, sess[u], q)
      BY <1>1, <1>3, <1>4, <1>7, <2>1, <2>3 DEF SessionRecord, Welcomes
    <3> QED BY <1>2, <1>7, <3>1, <3>2
  <2> QED BY <2>2, <2>3
<1> QED BY <1>6, <1>7

\* onBackendEvent, NICK: the session whose nickname was renamed follows.
LEMMA OnNickMoves ==
  ASSUME TypeInv, NEW t \in Try, OnNick(t), NEW u \in Session
  PROVE  \/ sess'[u] = sess[u] /\ (t[1] = u => ~Renamed(u, Head(inbox[t])))
         \/ /\ t[1] = u /\ Renamed(u, Head(inbox[t]))
            /\ Follows(Head(inbox[t]).new, sess[u], sess'[u])
<1>1. sess \in [Session -> SessionRecord] /\ sess[u] \in SessionRecord /\ t[1] \in Session
  BY TrySession DEF TypeInv, TypeOK
<1>2. PICK n : n = Head(inbox[t]).new
  OBVIOUS
<1>3. PICK r : r = [sess[t[1]] EXCEPT !.nickname = n, !.desired = IF @ = n THEN NoName ELSE @]
  OBVIOUS
<1>4. PICK q : q = [r EXCEPT !.ready = TRUE, !.pending = <<>>]
  OBVIOUS
<1>5. \/ ~Renamed(t[1], Head(inbox[t])) /\ UNCHANGED sess
      \/ Renamed(t[1], Head(inbox[t])) /\ ~r.ready /\ sess' = [sess EXCEPT ![t[1]] = q]
      \/ Renamed(t[1], Head(inbox[t])) /\ r.ready /\ sess' = [sess EXCEPT ![t[1]] = r]
  BY <1>2, <1>3, <1>4 DEF OnNick, AnnounceReady
<1>6. CASE u # t[1]
  BY <1>1, <1>5, <1>6
<1>7. CASE u = t[1]
  <2>1. CASE ~Renamed(t[1], Head(inbox[t]))
    BY <1>5, <1>7, <2>1
  <2>2. CASE Renamed(t[1], Head(inbox[t])) /\ ~r.ready
    <3>1. sess'[u] = q
      BY <1>1, <1>5, <1>7, <2>2
    <3>2. Follows(n, sess[u], q)
      BY <1>1, <1>3, <1>4, <1>7 DEF SessionRecord, Follows
    <3> QED BY <1>2, <1>7, <2>2, <3>1, <3>2
  <2>3. CASE Renamed(t[1], Head(inbox[t])) /\ r.ready
    <3>1. sess'[u] = r
      BY <1>1, <1>5, <1>7, <2>3
    <3>2. Follows(n, sess[u], r)
      BY <1>1, <1>3, <1>7, <2>3 DEF SessionRecord, Follows
    <3> QED BY <1>2, <1>7, <2>3, <3>1, <3>2
  <2> QED BY <2>1, <2>2, <2>3
<1> QED BY <1>6, <1>7

\* The ways a Session object changes.
LEMMA SessionMoves ==
  ASSUME TypeInv, [Next]_vars, NEW u \in Session
  PROVE  \/ SameSession(sess[u], sess'[u])
         \/ \E t \in Try, i \in Id : /\ t[1] = u /\ AuthSucceeds(t, i) /\ ~LoggedIn(i)
                                     /\ LogsIn(t, i, sess[u], sess'[u])
         \/ WsClosed(u) /\ Shuts(sess[u], sess'[u])
         \/ \E t \in Try : /\ t[1] = u /\ OnWelcome(t)
                           /\ Welcomes(Head(inbox[t]).new, sess[u], sess'[u])
         \/ \E t \in Try : /\ t[1] = u /\ OnNick(t) /\ Renamed(u, Head(inbox[t]))
                           /\ Follows(Head(inbox[t]).new, sess[u], sess'[u])
<1>1. CASE sess'[u] = sess[u]
  BY <1>1 DEF SameSession
<1>2. CASE \E s \in Session, n \in Typed : SetNickname(s, n)
  BY <1>2, SetNicknameMoves
<1>3. CASE \E s \in Session : WsClosed(s)
  BY <1>1, <1>3, WsClosedMoves
<1>4. CASE \E t \in Try, i \in Id : AuthSucceeds(t, i)
  BY <1>1, <1>4, AuthSucceedsMoves
<1>5. CASE \E t \in Try : OnWelcome(t)
  BY <1>1, <1>5, OnWelcomeMoves
<1>6. CASE \E t \in Try : OnNick(t)
  BY <1>1, <1>6, OnNickMoves
<1>7. ASSUME NEW s \in Session, Connect(s) \/ RequestState(s) \/ SetPresence(s) \/ Logout(s)
      PROVE  UNCHANGED sess
  BY <1>7 DEF Connect, RequestState, SetPresence, Logout
<1>8. ASSUME NEW t \in Try, NEW kind \in {"register", "login"}, NEW n \in Name, Auth(t, kind, n)
      PROVE  UNCHANGED sess
  BY <1>8 DEF Auth
<1>9. ASSUME NEW t \in Try,
             \/ AuthFails(t) \/ ConnectOk(t) \/ ConnectFails(t) \/ OnErr(t) \/ OnBackendClosed(t)
             \/ Admit(t) \/ Rename(t) \/ CopyTargets(t) \/ (\E v \in Try : Tell(t, v))
             \/ Drop(t) \/ BackendLost(t)
      PROVE  UNCHANGED sess
  BY <1>9 DEF AuthFails, ConnectOk, ConnectFails, OnErr, OnBackendClosed, Admit, Rename,
     CopyTargets, Tell, Drop, BackendLost
<1>10. CASE UNCHANGED vars
  BY <1>1, <1>10 DEF vars
<1> QED BY <1>1, <1>2, <1>3, <1>4, <1>5, <1>6, <1>7, <1>8, <1>9, <1>10, Steps

\* A connection attempted, made, lost or closed.
LEMMA LinkMoves ==
  ASSUME TypeInv, [Next]_vars, NEW t \in Try
  PROVE  \/ link'[t] = link[t]
         \/ \E i \in Id : AuthSucceeds(t, i) /\ ~LoggedIn(i) /\ link'[t] = "connecting"
         \/ ConnectOk(t) /\ link[t] = "connecting" /\ link'[t] = "up"
         \/ BackendLost(t) /\ link[t] = "up" /\ link'[t] = "lost"
         \/ ConnectFails(t) /\ link[t] = "connecting" /\ link'[t] = "closed"
         \/ OnBackendClosed(t) /\ inbox[t] = <<>> /\ UNCHANGED inbox /\ link'[t] = "closed"
         \/ \E s \in Session : /\ WsClosed(s) /\ sess[s].authenticated /\ sess[s].backend = t
                               /\ inbox'[t] = <<>> /\ link'[t] = "closed"
<1>0. link \in [Try -> LinkState] /\ inbox \in [Try -> Seq(EventRecord)]
  BY DEF TypeInv, TypeOK
<1>1. ASSUME NEW s \in Session, WsClosed(s)
      PROVE  \/ link'[t] = link[t]
             \/ /\ sess[s].authenticated /\ sess[s].backend = t
                /\ inbox'[t] = <<>> /\ link'[t] = "closed"
  BY <1>0, <1>1 DEF WsClosed, Hangup
<1>2. ASSUME NEW s \in Session,
             \/ Connect(s) \/ RequestState(s) \/ SetPresence(s) \/ Logout(s)
             \/ \E n \in Typed : SetNickname(s, n)
      PROVE  UNCHANGED link
  BY <1>2 DEF Connect, RequestState, SetPresence, Logout, SetNickname
<1>3. ASSUME NEW u \in Try, NEW i \in Id, AuthSucceeds(u, i)
      PROVE  link'[t] = link[t] \/ (u = t /\ ~LoggedIn(i) /\ link'[t] = "connecting")
  <2>1. UNCHANGED link \/ (~LoggedIn(i) /\ link' = [link EXCEPT ![u] = "connecting"])
    BY <1>3 DEF AuthSucceeds
  <2> QED BY <1>0, <2>1
<1>4. ASSUME NEW u \in Try, ConnectOk(u) \/ ConnectFails(u)
      PROVE  \/ link'[t] = link[t]
             \/ ConnectOk(t) /\ link[t] = "connecting" /\ link'[t] = "up"
             \/ ConnectFails(t) /\ link[t] = "connecting" /\ link'[t] = "closed"
  <2>1. CASE ConnectOk(u)
    BY <1>0, <2>1 DEF ConnectOk
  <2>2. CASE ConnectFails(u)
    BY <1>0, <2>2 DEF ConnectFails
  <2> QED BY <1>4, <2>1, <2>2
<1>5. ASSUME NEW u \in Try, OnBackendClosed(u)
      PROVE  \/ link'[t] = link[t]
             \/ u = t /\ inbox[t] = <<>> /\ UNCHANGED inbox /\ link'[t] = "closed"
  BY <1>0, <1>5 DEF OnBackendClosed
<1>6. ASSUME NEW u \in Try, BackendLost(u)
      PROVE  link'[t] = link[t] \/ (u = t /\ link[t] = "up" /\ link'[t] = "lost")
  <2>1. link[u] = "up" /\ link' = [link EXCEPT ![u] = "lost"]
    BY <1>6 DEF BackendLost
  <2> QED BY <1>0, <2>1
<1>7. ASSUME NEW u \in Try,
             \/ \E kind \in {"register", "login"}, n \in Name : Auth(u, kind, n)
             \/ AuthFails(u) \/ OnWelcome(u) \/ OnNick(u) \/ OnErr(u)
             \/ Admit(u) \/ Rename(u) \/ CopyTargets(u) \/ (\E v \in Try : Tell(u, v)) \/ Drop(u)
      PROVE  UNCHANGED link
  BY <1>7 DEF Auth, AuthFails, OnWelcome, OnNick, OnErr, Admit, Rename, CopyTargets, Tell, Drop
<1>8. CASE UNCHANGED vars
  BY <1>8 DEF vars
<1> QED BY <1>1, <1>2, <1>3, <1>4, <1>5, <1>6, <1>7, <1>8, Steps

\* What is put in the inbox of t: the WELCOME of its connection, the answer to
\* a name that is taken, or a rename.
Sent(t, e) ==
  \/ /\ Admit(t) /\ t \notin Members /\ t \in Members' /\ e = Event("welcome", NoName, member'[t])
     /\ UNCHANGED telling /\ \A u \in Members : u \in Members' /\ member'[u] = member[u]
     /\ \A u \in Members : member[u] # member'[t]
  \/ /\ Rename(t) /\ e = Event("err", NoName, NoName) /\ UNCHANGED <<member, telling>>
     /\ \E u \in Members \ {t} : member[u] = Head(outbox[t])
  \/ \E u \in Try : Tell(u, t) /\ e = Event("nick", telling[u].old, telling[u].new)

\* A session takes the events of its connection in order; the server adds to them.
LEMMA InboxMoves ==
  ASSUME TypeInv, [Next]_vars, NEW t \in Try
  PROVE  \/ inbox'[t] = inbox[t]
         \/ inbox'[t] = <<>> /\ link'[t] = "closed"
         \/ inbox[t] # <<>> /\ inbox'[t] = Tail(inbox[t]) /\ (OnWelcome(t) \/ OnNick(t) \/ OnErr(t))
         \/ link[t] = "up" /\ \E e \in EventRecord : inbox'[t] = Append(inbox[t], e) /\ Sent(t, e)
<1>0. /\ link \in [Try -> LinkState] /\ inbox \in [Try -> Seq(EventRecord)]
      /\ inbox'[t] \in Seq(EventRecord) /\ telling \in [Try -> Telling]
  BY TypesStep DEF TypeInv, TypeOK
<1>1. ASSUME NEW s \in Session, WsClosed(s)
      PROVE  inbox'[t] = inbox[t] \/ (inbox'[t] = <<>> /\ link'[t] = "closed")
  <2>1. \/ UNCHANGED inbox
        \/ /\ inbox' = [inbox EXCEPT ![sess[s].backend] = <<>>]
           /\ link' = [link EXCEPT ![sess[s].backend] = "closed"]
    BY <1>1 DEF WsClosed, Hangup
  <2>2. CASE t = sess[s].backend
    BY <1>0, <2>1, <2>2
  <2>3. CASE t # sess[s].backend
    BY <1>0, <2>1, <2>3
  <2> QED BY <2>2, <2>3
<1>2. ASSUME NEW s \in Session,
             \/ Connect(s) \/ RequestState(s) \/ SetPresence(s) \/ Logout(s)
             \/ \E n \in Typed : SetNickname(s, n)
      PROVE  UNCHANGED inbox
  BY <1>2 DEF Connect, RequestState, SetPresence, Logout, SetNickname
<1>3. ASSUME NEW u \in Try, OnWelcome(u) \/ OnNick(u) \/ OnErr(u)
      PROVE  \/ inbox'[t] = inbox[t]
             \/ inbox[t] # <<>> /\ inbox'[t] = Tail(inbox[t]) /\ u = t
  <2>1. inbox[u] # <<>> /\ inbox' = [inbox EXCEPT ![u] = Tail(@)]
    BY <1>3 DEF OnWelcome, OnNick, OnErr, Emitted
  <2> QED BY <1>0, <2>1
<1>4. ASSUME NEW u \in Try, NEW e, inbox' = Deliver(u, e)
      PROVE  \/ inbox'[t] = inbox[t]
             \/ u = t /\ link[t] = "up" /\ inbox'[t] = Append(inbox[t], e)
  BY <1>0, <1>4 DEF Deliver
<1>5. ASSUME NEW u \in Try, Admit(u)
      PROVE  \/ inbox'[t] = inbox[t]
             \/ u = t /\ link[t] = "up" /\ \E e \in EventRecord : inbox'[t] = Append(inbox[t], e) /\ Sent(t, e)
  <2>1. PICK k \in DOMAIN DefaultName :
          /\ DefaultName[k] \notin Borne
          /\ member' = [v \in Members \cup {u} |-> IF v = u THEN DefaultName[k] ELSE member[v]]
          /\ inbox' = Deliver(u, Event("welcome", NoName, DefaultName[k]))
    BY <1>5 DEF Admit
  <2>2. /\ u \notin Members /\ u \in Members' /\ member'[u] = DefaultName[k] /\ UNCHANGED telling
        /\ \A v \in Members : v \in Members' /\ member'[v] = member[v]
        /\ \A v \in Members : member[v] # member'[u]
    BY <1>5, <2>1 DEF Admit, Members, Borne
  <2>3. DefaultName[k] \in Name
    BY GatewayConstants
  <2>4. Event("welcome", NoName, member'[u]) \in EventRecord
    BY <2>2, <2>3 DEF Event, EventRecord
  <2>5. u = t => Sent(t, Event("welcome", NoName, member'[t]))
    BY <1>5, <2>2 DEF Sent
  <2> QED BY <1>4, <2>1, <2>2, <2>4, <2>5
<1>6. ASSUME NEW u \in Try, Rename(u)
      PROVE  \/ inbox'[t] = inbox[t]
             \/ u = t /\ link[t] = "up" /\ \E e \in EventRecord : inbox'[t] = Append(inbox[t], e) /\ Sent(t, e)
  <2>1. CASE \E v \in Members \ {u} : member[v] = Head(outbox[u])
    <3>1. inbox' = Deliver(u, Event("err", NoName, NoName)) /\ UNCHANGED <<member, telling>>
      BY <1>6, <2>1 DEF Rename
    <3>2. Event("err", NoName, NoName) \in EventRecord
      BY DEF Event, EventRecord
    <3>3. u = t => Sent(t, Event("err", NoName, NoName))
      BY <1>6, <2>1, <3>1 DEF Sent
    <3> QED BY <1>4, <3>1, <3>2, <3>3
  <2>2. CASE ~\E v \in Members \ {u} : member[v] = Head(outbox[u])
    BY <1>6, <2>2 DEF Rename
  <2> QED BY <2>1, <2>2
<1>7. ASSUME NEW v \in Try, NEW u \in Try, Tell(v, u)
      PROVE  \/ inbox'[t] = inbox[t]
             \/ u = t /\ link[t] = "up" /\ \E e \in EventRecord : inbox'[t] = Append(inbox[t], e) /\ Sent(t, e)
  <2>1. inbox' = Deliver(u, Event("nick", telling[v].old, telling[v].new))
    BY <1>7 DEF Tell
  <2>2. Event("nick", telling[v].old, telling[v].new) \in EventRecord
    BY <1>0 DEF Event, EventRecord, Telling
  <2>3. u = t => Sent(t, Event("nick", telling[v].old, telling[v].new))
    BY <1>7 DEF Sent
  <2> QED BY <1>4, <2>1, <2>2, <2>3
<1>8. ASSUME NEW u \in Try,
             \/ \E kind \in {"register", "login"}, n \in Name : Auth(u, kind, n)
             \/ AuthFails(u) \/ (\E i \in Id : AuthSucceeds(u, i)) \/ ConnectOk(u) \/ ConnectFails(u)
             \/ OnBackendClosed(u) \/ CopyTargets(u) \/ Drop(u) \/ BackendLost(u)
      PROVE  UNCHANGED inbox
  BY <1>8 DEF Auth, AuthFails, AuthSucceeds, ConnectOk, ConnectFails, OnBackendClosed,
     CopyTargets, Drop, BackendLost
<1>9. CASE UNCHANGED vars
  BY <1>9 DEF vars
<1> QED BY <1>1, <1>2, <1>3, <1>5, <1>6, <1>7, <1>8, <1>9, Steps

\* u is told, or gone: nobody tells it any more.
ToldOf(u, r, q) == q = IF r.to = {u} THEN Silent ELSE [r EXCEPT !.to = @ \ {u}]

\* A broadcast of NICK begins, has its targets, and reaches or loses them.
LEMMA TellingMoves ==
  ASSUME TypeInv, [Next]_vars, NEW t \in Try
  PROVE  \/ telling'[t] = telling[t]
         \/ /\ Rename(t) /\ t \in Members /\ telling[t] = Silent
            /\ telling'[t] = [old |-> member[t], new |-> Head(outbox[t]), copied |-> FALSE, to |-> {}]
         \/ CopyTargets(t) /\ telling'[t] = [telling[t] EXCEPT !.copied = TRUE, !.to = Members]
         \/ \E u \in Try : (Tell(t, u) \/ Drop(u) \/ BackendLost(u)) /\ ToldOf(u, telling[t], telling'[t])
<1>0. telling \in [Try -> Telling]
  BY DEF TypeInv, TypeOK
<1>1. ASSUME NEW s \in Session,
             \/ Connect(s) \/ RequestState(s) \/ SetPresence(s) \/ Logout(s) \/ WsClosed(s)
             \/ \E n \in Typed : SetNickname(s, n)
      PROVE  UNCHANGED telling
  BY <1>1 DEF Connect, RequestState, SetPresence, Logout, WsClosed, SetNickname
<1>2. ASSUME NEW u \in Try, Rename(u)
      PROVE  \/ telling'[t] = telling[t]
             \/ /\ u = t /\ t \in Members /\ telling[t] = Silent
                /\ telling'[t] = [old |-> member[t], new |-> Head(outbox[t]), copied |-> FALSE, to |-> {}]
  BY <1>0, <1>2 DEF Rename
<1>3. ASSUME NEW u \in Try, CopyTargets(u)
      PROVE  \/ telling'[t] = telling[t]
             \/ u = t /\ telling'[t] = [telling[t] EXCEPT !.copied = TRUE, !.to = Members]
  <2>1. telling' = [telling EXCEPT ![u] = [@ EXCEPT !.copied = TRUE, !.to = Members]]
    BY <1>3 DEF CopyTargets
  <2> QED BY <1>0, <2>1
<1>4. ASSUME NEW v \in Try, NEW u \in Try, Tell(v, u)
      PROVE  telling'[t] = telling[t] \/ (v = t /\ ToldOf(u, telling[t], telling'[t]))
  <2>1. /\ u \in telling[v].to
        /\ telling' = [telling EXCEPT ![v] = IF telling[v].to \ {u} = {} THEN Silent
                                            ELSE [@ EXCEPT !.to = telling[v].to \ {u}]]
    BY <1>4 DEF Tell
  <2>2. telling[v].to \ {u} = {} <=> telling[v].to = {u}
    BY <2>1
  <2>3. v = t => telling'[t] = IF telling[t].to = {u} THEN Silent
                               ELSE [telling[t] EXCEPT !.to = @ \ {u}]
    BY <1>0, <2>1, <2>2
  <2>4. v # t => telling'[t] = telling[t]
    BY <1>0, <2>1
  <2>5. CASE v = t
    BY <2>3, <2>5, Zenon DEF ToldOf
  <2> QED BY <2>4, <2>5
<1>5. ASSUME NEW u \in Try, Drop(u) \/ BackendLost(u)
      PROVE  ToldOf(u, telling[t], telling'[t])
  <2>1. telling' = [v \in Try |-> IF telling[v].to = {u} THEN Silent
                                  ELSE [telling[v] EXCEPT !.to = @ \ {u}]]
    BY <1>5 DEF Drop, BackendLost
  <2>2. telling'[t] = IF telling[t].to = {u} THEN Silent ELSE [telling[t] EXCEPT !.to = @ \ {u}]
    BY <2>1
  <2> QED BY <2>2, Zenon DEF ToldOf
<1>6. ASSUME NEW u \in Try,
             \/ \E kind \in {"register", "login"}, n \in Name : Auth(u, kind, n)
             \/ AuthFails(u) \/ (\E i \in Id : AuthSucceeds(u, i)) \/ ConnectOk(u) \/ ConnectFails(u)
             \/ OnWelcome(u) \/ OnNick(u) \/ OnErr(u) \/ OnBackendClosed(u) \/ Admit(u)
      PROVE  UNCHANGED telling
  BY <1>6 DEF Auth, AuthFails, AuthSucceeds, ConnectOk, ConnectFails, OnWelcome, OnNick, OnErr,
     OnBackendClosed, Admit
<1>7. CASE UNCHANGED vars
  BY <1>7 DEF vars
<1> QED BY <1>1, <1>2, <1>3, <1>4, <1>5, <1>6, <1>7, Steps

----------------------------------------------------------------------------
(* Whose connection it is.                                                 *)

\* A password is hashed for a session that is not logged in.
HashingNew == \A t \in Try : try[t].at = "hashing" => ~sess[t[1]].authenticated

\* A connection that is being made, is up or is lost is its session's.
LinksOwned ==
  \A t \in Try : link[t] \in {"connecting", "up", "lost"} => sess[t[1]].backend = t

\* A NICK carries the name it replaces, and only WELCOME gives the first one.
NamesHeard ==
  /\ \A t \in Try : \A k \in 1 .. Len(inbox[t]) :
       inbox[t][k].type = "nick" => inbox[t][k].old \in Name
  /\ \A t \in Try : ~telling[t].copied \/ telling[t].to # {} => telling[t].old \in Name
  /\ \A s \in Session : ~sess[s].welcomed => sess[s].nickname = NoName

\* A session is logged in, then welcomed, then ready.
ReadyLast ==
  \A s \in Session : /\ sess[s].ready => sess[s].welcomed
                     /\ sess[s].welcomed => sess[s].authenticated

\* What the links, the handlers and the names rest on.
OwnInv ==
  /\ TypeInv
  /\ OneHashing
  /\ HashingNew
  /\ LinksOwned
  /\ NamesHeard
  /\ ReadyLast

\* One password at a time is hashed for a session, and it is not logged in.
LEMMA HashingStep ==
  ASSUME OwnInv, TypeInv', "doubleLogin" \notin Faults, [Next]_vars
  PROVE  OneHashing' /\ HashingNew'
<1>0. /\ try \in [Try -> TryRecord] /\ \A t \in Try : t[1] \in Session
      /\ \A t \in Try : try[t].at = "hashing" => ~sess[t[1]].authenticated
  BY TrySession DEF OwnInv, TypeInv, TypeOK, HashingNew
<1>1. ASSUME NEW t \in Try, NEW kind \in {"register", "login"}, NEW n \in Name, Auth(t, kind, n)
      PROVE  OneHashing' /\ HashingNew'
  <2>1. /\ \A u \in Try : u # t => try'[u] = try[u]
        /\ UNCHANGED sess /\ ~sess[t[1]].authenticated /\ ~Authenticating(t[1])
    BY <1>1, AuthTypes DEF Auth, OwnInv
  <2> QED BY <1>0, <2>1 DEF OwnInv, OneHashing, HashingNew, Authenticating
<1>2. ASSUME NEW t \in Try, NEW i \in Id, AuthSucceeds(t, i)
      PROVE  OneHashing' /\ HashingNew'
  <2>1. /\ try'[t].at # "hashing" /\ \A u \in Try : u # t => try'[u] = try[u]
        /\ \A u \in Session : u # t[1] => sess'[u] = sess[u]
    BY <1>2, AuthSucceedsTypes DEF OwnInv
  <2>2. try[t].at = "hashing"
    BY <1>2 DEF AuthSucceeds
  <2>3. \A u \in Try : try'[u].at = "hashing" => u[1] # t[1]
    BY <2>1, <2>2 DEF OwnInv, OneHashing
  <2>4. OneHashing'
    BY <2>1 DEF OwnInv, OneHashing
  <2>5. HashingNew'
    BY <1>0, <2>1, <2>3 DEF HashingNew
  <2> QED BY <2>4, <2>5
<1>3. ASSUME \A t \in Try : try'[t].at = "hashing" => try[t].at = "hashing",
             \A s \in Session : sess'[s].authenticated = sess[s].authenticated
      PROVE  OneHashing' /\ HashingNew'
  BY <1>0, <1>3 DEF OwnInv, OneHashing, HashingNew
<1>4. CASE \A t \in Try, i \in Id : ~AuthSucceeds(t, i)
  <2>1. \A s \in Session : sess'[s].authenticated = sess[s].authenticated
    BY <1>4, SessionMoves DEF OwnInv, SameSession, Shuts, Welcomes, Follows
  <2>2. ASSUME NEW t \in Try, AuthFails(t) \/ ConnectOk(t) \/ ConnectFails(t)
        PROVE  \A u \in Try : try'[u].at = "hashing" => try[u].at = "hashing"
    BY <1>0, <2>2 DEF AuthFails, ConnectOk, ConnectFails, TryRecord
  <2>3. ASSUME NEW s \in Session,
               \/ Connect(s) \/ RequestState(s) \/ SetPresence(s) \/ Logout(s) \/ WsClosed(s)
               \/ \E n \in Typed : SetNickname(s, n)
        PROVE  UNCHANGED try
    BY <2>3 DEF Connect, RequestState, SetPresence, Logout, WsClosed, SetNickname
  <2>4. ASSUME NEW t \in Try,
               \/ OnWelcome(t) \/ OnNick(t) \/ OnErr(t) \/ OnBackendClosed(t)
               \/ Admit(t) \/ Rename(t) \/ CopyTargets(t) \/ (\E u \in Try : Tell(t, u))
               \/ Drop(t) \/ BackendLost(t)
        PROVE  UNCHANGED try
    BY <2>4 DEF OnWelcome, OnNick, OnErr, OnBackendClosed, Admit, Rename, CopyTargets, Tell, Drop,
       BackendLost
  <2>5. CASE UNCHANGED vars
    BY <1>3, <2>5 DEF vars
  <2> QED BY <1>1, <1>3, <1>4, <2>1, <2>2, <2>3, <2>4, <2>5, Steps
<1> QED BY <1>2, <1>4

\* A session keeps its connection until the next login, which comes only when
\* it has none.
LEMMA LinksOwnedStep ==
  ASSUME OwnInv, [Next]_vars
  PROVE  LinksOwned'
<1> SUFFICES ASSUME NEW t \in Try, link'[t] \in {"connecting", "up", "lost"}
             PROVE  sess'[t[1]].backend = t
  BY DEF LinksOwned
<1>1. t[1] \in Session
  BY TrySession
<1>2. CASE link[t] \in {"connecting", "up", "lost"}
  <2>1. sess[t[1]].backend = t /\ sess[t[1]].authenticated
    BY <1>2 DEF OwnInv, LinksOwned, TypeInv, SessionsOwned
  <2>2. ASSUME NEW u \in Try, NEW i \in Id, AuthSucceeds(u, i)
        PROVE  u[1] # t[1]
    BY <2>1, <2>2 DEF OwnInv, HashingNew, AuthSucceeds
  <2> QED BY <1>1, <2>1, <2>2, SessionMoves DEF OwnInv, SameSession, Shuts, Welcomes, Follows
<1>3. ASSUME NEW i \in Id, AuthSucceeds(t, i), ~LoggedIn(i)
      PROVE  sess'[t[1]].backend = t
  <2>1. sess' = [sess EXCEPT ![t[1]] = InAccount(sess[t[1]], i, try[t].name, t)]
    BY <1>3 DEF AuthSucceeds, InAccount
  <2>2. sess'[t[1]] = InAccount(sess[t[1]], i, try[t].name, t)
    BY <1>1, <2>1 DEF OwnInv, TypeInv, TypeOK
  <2>3. try[t].name \in Name
    BY <1>3 DEF OwnInv, TypeInv, TriesNamed, AuthSucceeds
  <2>4. sess[t[1]] \in SessionRecord
    BY <1>1 DEF OwnInv, TypeInv, TypeOK
  <2> QED BY <2>2, <2>3, <2>4, LoggedInRecord
<1> QED BY <1>2, <1>3, LinkMoves DEF OwnInv

\* Names are told as the server sends them.
LEMMA NamesHeardStep ==
  ASSUME OwnInv, TypeInv', [Next]_vars
  PROVE  NamesHeard'
<1>0. TypeInv
  BY DEF OwnInv
<1>1. ASSUME NEW t \in Try, NEW k \in 1 .. Len(inbox'[t]), inbox'[t][k].type = "nick"
      PROVE  inbox'[t][k].old \in Name
  <2>0. inbox[t] \in Seq(EventRecord) /\ \A j \in 1 .. Len(inbox[t]) :
          inbox[t][j].type = "nick" => inbox[t][j].old \in Name
    BY DEF OwnInv, TypeInv, TypeOK, NamesHeard
  <2>1. CASE inbox'[t] = inbox[t]
    BY <1>1, <2>0, <2>1
  <2>2. CASE inbox'[t] = <<>>
    BY <2>2
  <2>3. CASE inbox[t] # <<>> /\ inbox'[t] = Tail(inbox[t])
    BY <1>1, <2>0, <2>3, QueueTail
  <2>4. ASSUME NEW e \in EventRecord, inbox'[t] = Append(inbox[t], e), Sent(t, e)
        PROVE  inbox'[t][k].old \in Name
    <3>1. \/ k \in 1 .. Len(inbox[t]) /\ inbox'[t][k] = inbox[t][k]
          \/ inbox'[t][k] = e
      BY <2>0, <2>4, QueueAppend
    <3>2. CASE inbox'[t][k] = e
      <4>1. \/ e.type = "welcome" \/ e.type = "err"
            \/ \E u \in Try : Tell(u, t) /\ e.old = telling[u].old
        BY <2>4 DEF Sent, Event
      <4>2. PICK u \in Try : Tell(u, t) /\ e.old = telling[u].old
        BY <1>1, <3>2, <4>1
      <4>3. telling[u].to # {}
        BY <4>2 DEF Tell
      <4> QED BY <3>2, <4>2, <4>3 DEF OwnInv, NamesHeard
    <3> QED BY <1>1, <2>0, <3>1, <3>2
  <2> QED BY <1>0, <2>1, <2>2, <2>3, <2>4, InboxMoves
<1>2. ASSUME NEW t \in Try, ~telling'[t].copied \/ telling'[t].to # {}
      PROVE  telling'[t].old \in Name
  <2>0. /\ telling[t] \in Telling
        /\ ~telling[t].copied \/ telling[t].to # {} => telling[t].old \in Name
    BY DEF OwnInv, TypeInv, TypeOK, NamesHeard
  <2>1. CASE telling'[t] = telling[t]
    BY <1>2, <2>0, <2>1
  <2>2. CASE /\ t \in Members
             /\ telling'[t] = [old |-> member[t], new |-> Head(outbox[t]), copied |-> FALSE, to |-> {}]
    BY <2>2 DEF OwnInv, TypeInv, TypeOK, Members
  <2>3. CASE CopyTargets(t) /\ telling'[t] = [telling[t] EXCEPT !.copied = TRUE, !.to = Members]
    <3>1. ~telling[t].copied
      BY <2>3 DEF CopyTargets
    <3> QED BY <2>0, <2>3, <3>1 DEF Telling
  <2>4. ASSUME NEW u \in Try, ToldOf(u, telling[t], telling'[t])
        PROVE  telling'[t].old \in Name
    <3>1. telling[t].to # {u}
      BY <1>2, <2>4 DEF ToldOf, Silent
    <3>2. telling'[t] = [telling[t] EXCEPT !.to = @ \ {u}]
      BY <2>4, <3>1 DEF ToldOf
    <3>3. telling'[t].old = telling[t].old /\ telling'[t].copied = telling[t].copied
          /\ telling'[t].to = telling[t].to \ {u}
      BY <2>0, <3>2 DEF Telling
    <3> QED BY <1>2, <2>0, <3>3
  <2> QED BY <1>0, <2>1, <2>2, <2>3, <2>4, TellingMoves
<1>3. ASSUME NEW s \in Session, ~sess'[s].welcomed
      PROVE  sess'[s].nickname = NoName
  <2>0. ~sess[s].welcomed => sess[s].nickname = NoName
    BY DEF OwnInv, NamesHeard
  <2>1. ASSUME NEW t \in Try, OnNick(t), Renamed(s, Head(inbox[t]))
        PROVE  sess[s].welcomed
    <3>1. inbox[t] # <<>> /\ Head(inbox[t]).type = "nick"
      BY <2>1 DEF OnNick, Emitted
    <3>2. inbox[t] \in Seq(EventRecord)
      BY DEF OwnInv, TypeInv, TypeOK
    <3>3. Head(inbox[t]) = inbox[t][1] /\ 1 \in 1 .. Len(inbox[t])
      BY <3>1, <3>2, QueueTail
    <3>4. Head(inbox[t]).old \in Name
      BY <3>1, <3>3 DEF OwnInv, NamesHeard
    <3> QED BY <2>0, <2>1, <3>4, GatewayConstants DEF Renamed
  <2> QED BY <1>0, <1>3, <2>0, <2>1, SessionMoves DEF SameSession, LogsIn, Shuts, Welcomes, Follows
<1> QED BY <1>1, <1>2, <1>3 DEF NamesHeard

\* Logged in, welcomed, ready: in this order.
LEMMA ReadyLastStep ==
  ASSUME OwnInv, TypeInv', [Next]_vars
  PROVE  ReadyLast'
<1> SUFFICES ASSUME NEW s \in Session
             PROVE  /\ sess'[s].ready => sess'[s].welcomed
                    /\ sess'[s].welcomed => sess'[s].authenticated
  BY DEF ReadyLast
<1>0. /\ sess[s].ready => sess[s].welcomed
      /\ sess[s].welcomed => sess[s].authenticated
  BY DEF OwnInv, ReadyLast
<1>1. ASSUME NEW t \in Try, t[1] = s, OnWelcome(t) \/ OnNick(t)
      PROVE  sess[s].authenticated
  BY <1>1 DEF OwnInv, TypeInv, SessionsOwned, OnWelcome, OnNick, Emitted
<1>2. ASSUME NEW t \in Try, OnNick(t), Renamed(s, Head(inbox[t]))
      PROVE  sess[s].welcomed
  <2>1. inbox[t] # <<>> /\ Head(inbox[t]).type = "nick"
    BY <1>2 DEF OnNick, Emitted
  <2>2. inbox[t] \in Seq(EventRecord)
    BY DEF OwnInv, TypeInv, TypeOK
  <2>3. Head(inbox[t]) = inbox[t][1] /\ 1 \in 1 .. Len(inbox[t])
    BY <2>1, <2>2, QueueTail
  <2>4. Head(inbox[t]).old \in Name
    BY <2>1, <2>3 DEF OwnInv, NamesHeard
  <2> QED BY <1>2, <2>4, GatewayConstants DEF OwnInv, NamesHeard, Renamed
<1> QED BY <1>0, <1>1, <1>2, SessionMoves DEF OwnInv, SameSession, LogsIn, Shuts, Welcomes, Follows

\* Each connection serves the session that made it, and tells it its names.
LEMMA OwnInit == Init => OwnInv
<1> SUFFICES ASSUME Init PROVE OwnInv
  OBVIOUS
<1>1. TypeInv
  BY TypesInit
<1>2. OneHashing /\ HashingNew /\ LinksOwned
  BY DEF Init, OneHashing, HashingNew, LinksOwned
<1>3. NamesHeard /\ ReadyLast
  BY DEF Init, Fresh, Silent, NamesHeard, ReadyLast
<1> QED BY <1>1, <1>2, <1>3 DEF OwnInv

\* As long as no session logs in twice at once.
LEMMA OwnStep ==
  ASSUME OwnInv, "doubleLogin" \notin Faults, [Next]_vars
  PROVE  OwnInv'
<1>1. TypeInv'
  BY TypesStep DEF OwnInv
<1> QED BY <1>1, HashingStep, LinksOwnedStep, NamesHeardStep, ReadyLastStep DEF OwnInv

----------------------------------------------------------------------------
(* The list of users a browser shows.                                      *)

\* A session whose connection is alive has not closed.
LinksOpen ==
  \A t \in Try : link[t] \in {"connecting", "up", "lost"} => ~sess[t[1]].closed

\* A WebSocket that has not connected has asked for nothing.
NotYet ==
  \A s \in Session : ws[s] = "none" =>
    /\ ~sess[s].authenticated
    /\ \A t \in Try : t[1] = s => try[t].at = "none"

\* What the picture in every browser rests on.
ViewInv ==
  /\ RosterInv
  /\ OwnInv
  /\ LinksOpen
  /\ NotYet
  /\ ViewMatchesRoster

\* An open session that is logged in is in the roster.
LEMMA InRoster ==
  ASSUME RosterInv, NEW s \in Session, sess[s].authenticated, ~sess[s].closed \/ ws[s] # "closed"
  PROVE  sess[s].id \in Online /\ roster[sess[s].id] = s
BY DEF RosterInv, RosterExact, Shut

\* sendReady lists the users who are welcomed.
LEMMA SnapshotIs ==
  ASSUME ViewType, NEW se, \A i \in Online : se[roster[i]].id = i, NEW s \in Session, Hears(s)
  PROVE  /\ Snapshot(view, se, s)[s] = {i \in Online : se[roster[i]].welcomed}
         /\ \A u \in Session : u # s => Snapshot(view, se, s)[u] = view[u]
<1>1. PICK S : S = {se[u].id : u \in {w \in {roster[i] : i \in Online} : se[w].welcomed}}
  OBVIOUS
<1>2. Snapshot(view, se, s) = [view EXCEPT ![s] = S]
  BY <1>1 DEF Snapshot
<1>3. S = {i \in Online : se[roster[i]].welcomed}
  <2>1. ASSUME NEW i \in S PROVE i \in Online /\ se[roster[i]].welcomed
    <3>1. PICK j \in Online : se[roster[j]].welcomed /\ i = se[roster[j]].id
      BY <1>1
    <3> QED BY <3>1
  <2>2. ASSUME NEW i \in Online, se[roster[i]].welcomed PROVE i \in S
    <3>1. roster[i] \in {w \in {roster[j] : j \in Online} : se[w].welcomed}
      BY <2>2
    <3> QED BY <1>1, <3>1
  <2> QED BY <2>1, <2>2
<1> QED BY <1>2, <1>3 DEF ViewType

\* userUpdate reaches the listeners, the skipped session apart.
LEMMA AppearsTo ==
  ASSUME NEW v, NEW se, NEW i, NEW x, NEW u \in Session, u \in Listeners(se, roster), se[u].id # x
  PROVE  Appears(v, se, i, x)[u] = v[u] \cup {i}
BY DEF Appears

\* Nobody else's list changes.
LEMMA AppearsElse ==
  ASSUME NEW v, NEW se, NEW i, NEW x, NEW u \in Session,
         u \notin Listeners(se, roster) \/ se[u].id = x
  PROVE  Appears(v, se, i, x)[u] = v[u]
BY DEF Appears

\* A step in which lists, the roster and readiness stay, and no one begins to
\* hear who was ready.
LEMMA ViewKept ==
  ASSUME ViewMatchesRoster, UNCHANGED <<roster, view>>,
         \A i \in Online : roster[i] \in Session,
         \A s \in Session : /\ sess'[s].ready = sess[s].ready
                            /\ sess[s].welcomed => sess'[s].welcomed
                            /\ Hears(s)' /\ sess[s].ready => Hears(s)
  PROVE  ViewMatchesRoster'
<1>1. ReadyUsers' = ReadyUsers /\ WelcomedUsers \subseteq WelcomedUsers' /\ Online' = Online
  BY DEF ReadyUsers, WelcomedUsers, Online
<1> QED BY <1>1 DEF ViewMatchesRoster

\* Somebody who is in the roster and welcomed is announced to everyone.
LEMMA ViewGains ==
  ASSUME ViewInv, NEW i, i \in WelcomedUsers, UNCHANGED <<roster, ws>>, NEW x, x \notin Id,
         \A s \in Session : /\ sess'[s].id = sess[s].id /\ sess'[s].ready = sess[s].ready
                            /\ sess'[s].welcomed = sess[s].welcomed,
         view' = Appears(view, sess', i, x)
  PROVE  ViewMatchesRoster'
<1>1. \A s \in Session : /\ sess'[s].ready = sess[s].ready /\ sess'[s].welcomed = sess[s].welcomed
                         /\ sess'[s].id = sess[s].id
  OBVIOUS
<1>2. \A j \in Online : roster[j] \in Session /\ sess[roster[j]].id = j
  BY DEF ViewInv, RosterInv, RosterExact, TypeInv, TypeOK
<1>3. ReadyUsers' = ReadyUsers /\ WelcomedUsers' = WelcomedUsers
  BY <1>1, <1>2 DEF ReadyUsers, WelcomedUsers, Online
<1>4. ASSUME NEW s \in Session, Hears(s), sess[s].ready
      PROVE  view'[s] = view[s] \cup {i}
  <2>1. sess[s].welcomed /\ sess[s].authenticated
    BY <1>4 DEF ViewInv, OwnInv, ReadyLast
  <2>2. sess[s].id \in Online /\ roster[sess[s].id] = s
    BY <1>4, <2>1, InRoster DEF Hears, ViewInv
  <2>3. s \in Listeners(sess', roster)
    BY <1>1, <1>4, <2>1, <2>2 DEF Listeners, Online
  <2>4. sess'[s].id # x
    BY <1>1, <2>2 DEF ViewInv, RosterInv, TypeInv, TypeOK
  <2>5. PICK se : se = sess'
    OBVIOUS
  <2>8. PICK v : v = view
    OBVIOUS
  <2>6. view'[s] = Appears(v, se, i, x)[s] /\ s \in Listeners(se, roster) /\ se[s].id # x
    BY <2>3, <2>4, <2>5, <2>8
  <2>7. Appears(v, se, i, x)[s] = v[s] \cup {i}
    BY <2>6, AppearsTo
  <2> QED BY <2>6, <2>7, <2>8
<1> QED BY <1>1, <1>3, <1>4 DEF ViewInv, ViewMatchesRoster, Hears

\* announceReady: the session is told who is there, the others that it is.
LEMMA ViewAnnounced ==
  ASSUME ViewInv, TypeInv', ReadyLast', NEW s \in Session, NEW r \in SessionRecord,
         r.id = sess[s].id, AnnounceReady(s, r), sess[s].authenticated, ~sess[s].closed,
         r.welcomed, UNCHANGED <<roster, ws>>
  PROVE  ViewMatchesRoster'
<1>0. /\ \A j \in Online : roster[j] \in Session /\ sess[roster[j]].id = j
      /\ sess \in [Session -> SessionRecord] /\ ViewType /\ sess[s].id \in Id
  BY DEF ViewInv, RosterInv, RosterExact, TypeInv, TypeOK, ViewType, SessionsOwned
<1>1. PICK q : q = [r EXCEPT !.ready = TRUE, !.pending = <<>>]
  OBVIOUS
<1>2. q.ready /\ q.welcomed /\ q.id = sess[s].id
  BY <1>1 DEF SessionRecord
<1>3. sess' = [sess EXCEPT ![s] = q]
  BY <1>1 DEF AnnounceReady
<1>4. sess'[s] = q /\ \A u \in Session : u # s => sess'[u] = sess[u]
  BY <1>0, <1>3
<1>12. PICK se : se = sess'
  OBVIOUS
<1>13. PICK i : i = sess[s].id
  OBVIOUS
<1>5. view' = Appears(Snapshot(view, se, s), se, i, i)
  BY <1>1, <1>3, <1>12, <1>13 DEF AnnounceReady
<1>6. sess[s].id \in Online /\ roster[sess[s].id] = s
  BY InRoster DEF ViewInv
<1>7. \A j \in Online : sess'[roster[j]].id = j
  BY <1>0, <1>2, <1>4
<1>8. Online' = Online /\ ReadyUsers' \subseteq WelcomedUsers'
  BY <1>0 DEF Online, ReadyLast, ReadyUsers, WelcomedUsers
<1>9. ReadyUsers' = ReadyUsers \cup {sess[s].id} /\ WelcomedUsers \cup {sess[s].id} \subseteq WelcomedUsers'
  <2>1. \A j \in Online : j # sess[s].id => roster[j] # s
    BY <1>0
  <2> QED BY <1>0, <1>2, <1>4, <1>6, <1>8, <2>1 DEF ReadyUsers, WelcomedUsers
<1>10. CASE Hears(s)
  <2>0. PICK v : v = Snapshot(view, se, s)
    OBVIOUS
  <2>1. /\ v[s] = {j \in Online : se[roster[j]].welcomed}
        /\ \A u \in Session : u # s => v[u] = view[u]
    BY <1>0, <1>12, <1>7, <1>10, <2>0, SnapshotIs
  <2>2. view'[s] = v[s]
    <3>1. view'[s] = Appears(v, se, i, i)[s] /\ se[s].id = i
      BY <1>2, <1>4, <1>5, <1>12, <1>13, <2>0
    <3> QED BY <3>1, AppearsElse
  <2>3. v[s] = WelcomedUsers'
    BY <1>12, <1>8, <2>1 DEF WelcomedUsers
  <2>4. ASSUME NEW u \in Session, u # s, Hears(u), sess[u].ready
        PROVE  view'[u] = view[u] \cup {sess[s].id}
    <3>1. sess[u].welcomed /\ sess[u].authenticated
      BY <2>4 DEF ViewInv, OwnInv, ReadyLast
    <3>2. sess[u].id \in Online /\ roster[sess[u].id] = u
      BY <2>4, <3>1, InRoster DEF Hears, ViewInv
    <3>3. u \in Listeners(se, roster)
      BY <1>12, <1>4, <2>4, <3>1, <3>2 DEF Listeners, Online
    <3>4. se[u].id # sess[s].id
      BY <1>12, <1>4, <1>6, <2>4, <3>2
    <3>5. view'[u] = Appears(v, se, i, i)[u] /\ se[u].id # i
      BY <1>5, <1>13, <2>0, <3>4
    <3>6. Appears(v, se, i, i)[u] = v[u] \cup {i}
      BY <3>3, <3>5, AppearsTo
    <3> QED BY <1>13, <2>1, <2>4, <3>5, <3>6
  <2> QED BY <1>12, <1>4, <1>8, <1>9, <2>2, <2>3, <2>4 DEF ViewInv, ViewMatchesRoster, Hears
<1>11. CASE ~Hears(s)
  <2>1. Snapshot(view, se, s) = view
    BY <1>11 DEF Snapshot
  <2>2. PICK v : v = view
    OBVIOUS
  <2>4. ASSUME NEW u \in Session, u # s, Hears(u), sess[u].ready
        PROVE  view'[u] = view[u] \cup {sess[s].id}
    <3>1. sess[u].welcomed /\ sess[u].authenticated
      BY <2>4 DEF ViewInv, OwnInv, ReadyLast
    <3>2. sess[u].id \in Online /\ roster[sess[u].id] = u
      BY <2>4, <3>1, InRoster DEF Hears, ViewInv
    <3>3. u \in Listeners(se, roster)
      BY <1>12, <1>4, <2>4, <3>1, <3>2 DEF Listeners, Online
    <3>4. se[u].id # sess[s].id
      BY <1>12, <1>4, <1>6, <2>4, <3>2
    <3>5. view'[u] = Appears(v, se, i, i)[u] /\ se[u].id # i
      BY <1>5, <1>13, <2>1, <2>2, <3>4
    <3>6. Appears(v, se, i, i)[u] = v[u] \cup {i}
      BY <3>3, <3>5, AppearsTo
    <3> QED BY <1>13, <2>2, <3>5, <3>6
  <2> QED BY <1>12, <1>4, <1>8, <1>9, <1>11, <2>4 DEF ViewInv, ViewMatchesRoster, Hears
<1> QED BY <1>10, <1>11

\* A WebSocket that closes takes its connection with it.
LEMMA LinksOpenStep ==
  ASSUME ViewInv, [Next]_vars
  PROVE  LinksOpen'
<1> SUFFICES ASSUME NEW t \in Try, link'[t] \in {"connecting", "up", "lost"}
             PROVE  ~sess'[t[1]].closed
  BY DEF LinksOpen
<1>0. t[1] \in Session /\ TypeInv
  BY TrySession DEF ViewInv, RosterInv
<1>1. ~sess[t[1]].closed
  <2>1. CASE link[t] \in {"connecting", "up", "lost"}
    BY <2>1 DEF ViewInv, LinksOpen
  <2>2. CASE \E i \in Id : AuthSucceeds(t, i)
    BY <2>2 DEF ViewInv, RosterInv, HashingOpen, AuthSucceeds
  <2> QED BY <1>0, <2>1, <2>2, LinkMoves
<1>2. ~WsClosed(t[1])
  <2> SUFFICES ASSUME WsClosed(t[1]) PROVE FALSE
    OBVIOUS
  <2>1. link[t] \in {"connecting", "up", "lost"}
    <3>1. \A i \in Id : ~AuthSucceeds(t, i)
      BY <1>0, <1>1, WsClosedTypes, AuthSucceedsTypes
    <3> QED BY <1>0, <3>1, LinkMoves
  <2>2. sess[t[1]].backend = t /\ sess[t[1]].authenticated
    BY <2>1 DEF ViewInv, OwnInv, LinksOwned, TypeInv, SessionsOwned
  <2>3. t # NoTry
    BY GatewayConstants DEF Try
  <2>4. link' = [link EXCEPT ![t] = "closed"]
    BY <2>2, <2>3 DEF WsClosed, Hangup
  <2> QED BY <1>0, <2>4 DEF TypeInv, TypeOK
<1> QED BY <1>0, <1>1, <1>2, SessionMoves DEF SameSession, LogsIn, Shuts, Welcomes, Follows

\* How WebSockets move.
LEMMA WsMoves ==
  ASSUME TypeInv, [Next]_vars, NEW s \in Session
  PROVE  \/ ws'[s] = ws[s]
         \/ Connect(s) /\ ws[s] = "none" /\ ws'[s] = "open"
         \/ ws[s] = "open" /\ ws'[s] = "closing"
         \/ WsClosed(s) /\ ws[s] # "none" /\ ws'[s] = "closed"
<1>0. ws \in [Session -> {"none", "open", "closing", "closed"}]
  BY DEF TypeInv, TypeOK
<1>1. ASSUME NEW u \in Session, Connect(u) \/ Logout(u) \/ WsClosed(u)
      PROVE  \/ ws'[s] = ws[s]
             \/ Connect(s) /\ ws[s] = "none" /\ ws'[s] = "open"
             \/ ws[s] = "open" /\ ws'[s] = "closing"
             \/ WsClosed(s) /\ ws[s] # "none" /\ ws'[s] = "closed"
  <2>1. CASE Connect(u)
    BY <1>0, <2>1 DEF Connect
  <2>2. CASE Logout(u)
    BY <1>0, <2>2 DEF Logout
  <2>3. CASE WsClosed(u)
    <3>1. ws[u] # "none" /\ ws' = [ws EXCEPT ![u] = "closed"]
      BY <2>3 DEF WsClosed
    <3> QED BY <1>0, <2>3, <3>1
  <2> QED BY <1>1, <2>1, <2>2, <2>3
<1>2. ASSUME NEW t \in Try, OnErr(t) \/ OnBackendClosed(t) \/ ConnectFails(t)
      PROVE  ws'[s] = ws[s] \/ (ws[s] = "open" /\ ws'[s] = "closing")
  <2>1. CASE OnErr(t)
    BY <1>0, <2>1 DEF OnErr
  <2>2. CASE OnBackendClosed(t)
    BY <1>0, <2>2 DEF OnBackendClosed
  <2>3. CASE ConnectFails(t)
    BY <1>0, <2>3 DEF ConnectFails
  <2> QED BY <1>2, <2>1, <2>2, <2>3
<1>3. ASSUME NEW u \in Session,
             RequestState(u) \/ SetPresence(u) \/ (\E n \in Typed : SetNickname(u, n))
      PROVE  UNCHANGED ws
  BY <1>3 DEF RequestState, SetPresence, SetNickname
<1>4. ASSUME NEW t \in Try,
             \/ \E kind \in {"register", "login"}, n \in Name : Auth(t, kind, n)
             \/ AuthFails(t) \/ (\E i \in Id : AuthSucceeds(t, i)) \/ ConnectOk(t)
             \/ OnWelcome(t) \/ OnNick(t) \/ Admit(t) \/ Rename(t) \/ CopyTargets(t)
             \/ (\E u \in Try : Tell(t, u)) \/ Drop(t) \/ BackendLost(t)
      PROVE  UNCHANGED ws
  BY <1>4 DEF Auth, AuthFails, AuthSucceeds, ConnectOk, OnWelcome, OnNick, Admit, Rename,
     CopyTargets, Tell, Drop, BackendLost
<1>5. CASE UNCHANGED vars
  BY <1>5 DEF vars
<1> QED BY <1>1, <1>2, <1>3, <1>4, <1>5, Steps

\* Nothing comes of a WebSocket before it connects.
LEMMA NotYetStep ==
  ASSUME TypeInv, NotYet, [Next]_vars
  PROVE  NotYet'
<1> SUFFICES ASSUME NEW s \in Session, ws'[s] = "none"
             PROVE  /\ ~sess'[s].authenticated
                    /\ \A t \in Try : t[1] = s => try'[t].at = "none"
  BY DEF NotYet
<1>1. ws[s] = "none"
  BY WsMoves
<1>2. ~sess[s].authenticated /\ \A t \in Try : t[1] = s => try[t].at = "none"
  BY <1>1 DEF NotYet
<1>3. ~sess'[s].authenticated
  <2>1. \A t \in Try, i \in Id : t[1] = s => ~AuthSucceeds(t, i)
    BY <1>2 DEF AuthSucceeds
  <2> QED BY <1>2, <2>1, SessionMoves DEF SameSession, Shuts, Welcomes, Follows
<1>4. ASSUME NEW t \in Try, t[1] = s PROVE try'[t].at = "none"
  <2>0. try[t].at = "none" /\ link[t] = "none" /\ try \in [Try -> TryRecord]
    BY <1>2, <1>4 DEF TypeInv, TypeOK, TriesNamed
  <2>1. ASSUME NEW u \in Try, \E kind \in {"register", "login"}, n \in Name : Auth(u, kind, n)
        PROVE  try'[t] = try[t]
    <3>1. u # t
      BY <1>1, <1>4, <2>1 DEF Auth
    <3> QED BY <2>1, <3>1, AuthTypes
  <2>2. ASSUME NEW u \in Try, AuthFails(u) \/ ConnectOk(u) \/ ConnectFails(u)
        PROVE  try'[t] = try[t]
    BY <2>0, <2>2 DEF AuthFails, ConnectOk, ConnectFails
  <2>3. ASSUME NEW u \in Try, NEW i \in Id, AuthSucceeds(u, i)
        PROVE  try'[t] = try[t]
    <3>1. u # t
      BY <2>0, <2>3 DEF AuthSucceeds
    <3> QED BY <2>3, <3>1, AuthSucceedsTypes
  <2>4. ASSUME NEW u \in Session,
               \/ Connect(u) \/ RequestState(u) \/ SetPresence(u) \/ Logout(u) \/ WsClosed(u)
               \/ \E n \in Typed : SetNickname(u, n)
        PROVE  UNCHANGED try
    BY <2>4 DEF Connect, RequestState, SetPresence, Logout, WsClosed, SetNickname
  <2>5. ASSUME NEW u \in Try,
               \/ OnWelcome(u) \/ OnNick(u) \/ OnErr(u) \/ OnBackendClosed(u)
               \/ Admit(u) \/ Rename(u) \/ CopyTargets(u) \/ (\E v \in Try : Tell(u, v))
               \/ Drop(u) \/ BackendLost(u)
        PROVE  UNCHANGED try
    BY <2>5 DEF OnWelcome, OnNick, OnErr, OnBackendClosed, Admit, Rename, CopyTargets, Tell, Drop,
       BackendLost
  <2>6. CASE UNCHANGED vars
    BY <2>0, <2>6 DEF vars
  <2> QED BY <2>0, <2>1, <2>2, <2>3, <2>4, <2>5, <2>6, Steps
<1> QED BY <1>3, <1>4

\* No session hears that did not, and was ready.
LEMMA HearsBefore ==
  ASSUME ViewInv, [Next]_vars, NEW s \in Session, Hears(s)', sess[s].ready
  PROVE  Hears(s)
<1>1. ws[s] # "none"
  BY DEF ViewInv, NotYet, OwnInv, ReadyLast
<1> QED BY <1>1, WsMoves DEF Hears, ViewInv, RosterInv

\* handleAuth puts somebody in the roster who is not welcomed yet.
LEMMA AuthSucceedsView ==
  ASSUME ViewInv, NEW t \in Try, NEW i \in Id, AuthSucceeds(t, i)
  PROVE  ViewMatchesRoster'
<1> DEFINE s == t[1]
<1>1. TypeInv /\ s \in Session /\ UNCHANGED <<view, ws>> /\ ~sess[s].authenticated
  BY TrySession DEF ViewInv, RosterInv, AuthSucceeds, OwnInv, HashingNew
<1>2. ~sess[s].ready /\ ~sess[s].welcomed
  BY <1>1 DEF ViewInv, OwnInv, ReadyLast
<1>3. \A j \in Online : roster[j] \in Session /\ roster[j] # s
  BY <1>1 DEF ViewInv, RosterInv, RosterExact, TypeOK, TypeInv
<1>4. CASE LoggedIn(i)
  <2>1. UNCHANGED <<sess, roster>>
    BY <1>4 DEF AuthSucceeds
  <2> QED BY <1>1, <1>3, <2>1, ViewKept DEF ViewInv, Hears
<1>5. CASE ~LoggedIn(i)
  <2>1. /\ \A u \in Session : u # s => sess'[u] = sess[u]
        /\ sess'[s].ready = sess[s].ready /\ sess'[s].welcomed = sess[s].welcomed
    <3>1. \A u \in Session : sess'[u] = sess[u] \/ (t[1] = u /\ LogsIn(t, i, sess[u], sess'[u]))
      BY <1>1, AuthSucceedsMoves
    <3> QED BY <1>1, <3>1 DEF LogsIn
  <2>2. roster' = [j \in Online \cup {i} |-> IF j = i THEN s ELSE roster[j]]
    BY <1>5 DEF AuthSucceeds
  <2>3. i \notin Online
    BY <1>5 DEF LoggedIn, ViewInv, RosterInv, RosterExact
  <2>4. Online' = Online \cup {i} /\ roster'[i] = s /\ \A j \in Online : roster'[j] = roster[j]
    BY <2>2, <2>3 DEF Online
  <2>5. ReadyUsers' = ReadyUsers /\ WelcomedUsers' = WelcomedUsers
    BY <1>2, <1>3, <2>1, <2>3, <2>4 DEF ReadyUsers, WelcomedUsers
  <2> QED BY <1>1, <1>2, <2>1, <2>5 DEF ViewInv, ViewMatchesRoster, Hears
<1> QED BY <1>4, <1>5

\* onClientClosed: who was shown is taken off every list.
LEMMA WsClosedView ==
  ASSUME ViewInv, NEW s \in Session, WsClosed(s)
  PROVE  ViewMatchesRoster'
<1>1. /\ TypeInv /\ ViewType /\ ws[s] # "closed" /\ ws'[s] # "open"
      /\ \A u \in Session : u # s => ws'[u] = ws[u]
      /\ \A i \in Online : roster[i] \in Session /\ sess[roster[i]].id = i
  BY DEF ViewInv, RosterInv, RosterExact, TypeInv, TypeOK, ViewType, WsClosed
<1>2. \A u \in Session : /\ sess'[u].ready = sess[u].ready /\ sess'[u].welcomed = sess[u].welcomed
                         /\ sess'[u].id = sess[u].id
  BY <1>1, WsClosedMoves DEF Shuts
<1>3. CASE ~sess[s].authenticated
  <2>1. UNCHANGED <<roster, view>>
    BY <1>3 DEF WsClosed
  <2> QED BY <1>1, <1>2, <2>1, ViewKept DEF ViewInv, Hears
<1>4. CASE sess[s].authenticated
  <2>0. PICK r : r = [i \in Online \ {sess[s].id} |-> roster[i]]
    OBVIOUS
  <2>1. roster' = r /\ view' = IF sess[s].welcomed THEN Vanishes(view, r, sess[s].id) ELSE view
    BY <1>4, <2>0 DEF WsClosed
  <2>2. sess[s].id \in Online /\ roster[sess[s].id] = s
    BY <1>1, <1>4, InRoster DEF ViewInv
  <2>3. Online' = Online \ {sess[s].id} /\ DOMAIN r = Online' /\ \A i \in Online' : r[i] = roster[i]
    BY <2>0, <2>1 DEF Online
  <2>4. ReadyUsers' = ReadyUsers \ {sess[s].id} /\ WelcomedUsers' = WelcomedUsers \ {sess[s].id}
    BY <1>1, <1>2, <2>1, <2>3 DEF ReadyUsers, WelcomedUsers
  <2>5. ASSUME NEW u \in Session, u # s, Hears(u), sess[u].ready
        PROVE  ReadyUsers' \subseteq view'[u] /\ view'[u] \subseteq WelcomedUsers'
    <3>0. ReadyUsers \subseteq view[u] /\ view[u] \subseteq WelcomedUsers
      BY <2>5 DEF ViewInv, ViewMatchesRoster
    <3>1. CASE sess[s].welcomed
      <4>1. sess[u].welcomed /\ sess[u].authenticated
        BY <2>5 DEF ViewInv, OwnInv, ReadyLast
      <4>2. sess[u].id \in Online /\ roster[sess[u].id] = u
        BY <2>5, <4>1, InRoster DEF Hears, ViewInv
      <4>3. sess[u].id \in DOMAIN r /\ r[sess[u].id] = u
        BY <2>2, <2>3, <2>5, <4>2
      <4>4. u \in Listeners(sess, r)
        BY <2>5, <4>1, <4>3 DEF Listeners
      <4>5. view'[u] = view[u] \ {sess[s].id}
        BY <2>1, <3>1, <4>4 DEF Vanishes
      <4> QED BY <2>4, <3>0, <4>5
    <3>2. CASE ~sess[s].welcomed
      <4>1. sess[s].id \notin WelcomedUsers
        BY <2>2, <3>2 DEF WelcomedUsers
      <4> QED BY <2>1, <2>4, <3>0, <3>2, <4>1
    <3> QED BY <3>1, <3>2
  <2> QED BY <1>1, <1>2, <2>5 DEF ViewMatchesRoster, Hears
<1> QED BY <1>3, <1>4

\* Every handler keeps the lists of the browsers in step with the roster.
LEMMA ViewStep ==
  ASSUME ViewInv, ReadyLast', [Next]_vars,
         "closeInAuth" \notin Faults, "doubleLogin" \notin Faults, "connectFails" \notin Faults
  PROVE  ViewMatchesRoster'
<1>0. /\ TypeInv /\ TypeInv' /\ sess \in [Session -> SessionRecord]
      /\ \A i \in Online : roster[i] \in Session /\ sess[roster[i]].id = i
  BY TypesStep DEF ViewInv, RosterInv, RosterExact, TypeInv, TypeOK
<1>1. ASSUME UNCHANGED <<sess, roster, view>>
      PROVE  ViewMatchesRoster'
  BY <1>0, <1>1, HearsBefore, ViewKept DEF ViewInv
<1>2. ASSUME NEW s \in Session, NEW n \in Typed, SetNickname(s, n)
      PROVE  ViewMatchesRoster'
  <2>1. \A u \in Session : /\ sess'[u].ready = sess[u].ready
                           /\ sess'[u].welcomed = sess[u].welcomed
    BY <1>0, <1>2, SetNicknameMoves DEF SameSession
  <2>2. UNCHANGED <<roster, view>>
    BY <1>2 DEF SetNickname
  <2> QED BY <1>0, <2>1, <2>2, HearsBefore, ViewKept DEF ViewInv
<1>3. ASSUME NEW s \in Session, RequestState(s)
      PROVE  ViewMatchesRoster'
  <2>1. UNCHANGED <<ws, sess, roster>> /\ view' = Snapshot(view, sess, s)
    BY <1>3 DEF RequestState
  <2>2. ReadyUsers \subseteq WelcomedUsers
    BY <1>0 DEF ReadyUsers, WelcomedUsers, ViewInv, OwnInv, ReadyLast
  <2>3. PICK se : se = sess
    OBVIOUS
  <2>4. CASE Hears(s)
    <3>0. ViewType /\ \A i \in Online : se[roster[i]].id = i
      BY <1>0, <2>3 DEF TypeInv, TypeOK, ViewType
    <3>1. /\ Snapshot(view, se, s)[s] = {i \in Online : se[roster[i]].welcomed}
          /\ \A u \in Session : u # s => Snapshot(view, se, s)[u] = view[u]
      BY <2>4, <3>0, SnapshotIs
    <3>2. view'[s] = WelcomedUsers /\ \A u \in Session : u # s => view'[u] = view[u]
      BY <2>1, <2>3, <3>1 DEF WelcomedUsers
    <3> QED BY <2>1, <2>2, <3>2 DEF ViewInv, ViewMatchesRoster, Hears, ReadyUsers, WelcomedUsers, Online
  <2>5. CASE ~Hears(s)
    BY <1>1, <2>1, <2>5 DEF Snapshot
  <2> QED BY <2>4, <2>5
<1>4. ASSUME NEW s \in Session, SetPresence(s)
      PROVE  ViewMatchesRoster'
  <2>1. /\ UNCHANGED <<ws, sess, roster>> /\ view' = Appears(view, sess', sess[s].id, NoId)
        /\ ws[s] # "closed" /\ sess[s].authenticated /\ sess[s].welcomed
    BY <1>4 DEF SetPresence
  <2>2. PICK i : i = sess[s].id
    OBVIOUS
  <2>3. i \in WelcomedUsers
    BY <2>1, <2>2, InRoster DEF ViewInv, WelcomedUsers
  <2>4. PICK x : x = NoId
    OBVIOUS
  <2> QED BY <2>1, <2>2, <2>3, GatewayConstants, ViewGains
<1>5. ASSUME NEW t \in Try, OnWelcome(t)
      PROVE  ViewMatchesRoster'
  <2>1. /\ t[1] \in Session /\ sess[t[1]].authenticated /\ ~sess[t[1]].closed
        /\ UNCHANGED <<roster, ws>>
    BY <1>5, TrySession DEF OnWelcome, Emitted, ViewInv, LinksOpen, TypeInv, RosterInv, SessionsOwned
  <2>2. PICK n : n = Head(inbox[t]).new
    OBVIOUS
  <2>3. PICK r : r = [sess[t[1]] EXCEPT !.welcomed = TRUE, !.nickname = n]
    OBVIOUS
  <2>4. n \in Name \cup {NoName}
    <3>1. Head(inbox[t]) \in EventRecord
      BY <1>0, <1>5, EmittedTypes DEF OnWelcome
    <3> QED BY <2>2, <3>1 DEF EventRecord
  <2>5. r \in SessionRecord /\ r.welcomed /\ r.id = sess[t[1]].id
    <3>1. PICK q \in SessionRecord : q = sess[t[1]]
      BY <1>0, <2>1
    <3>2. r \in SessionRecord
      BY <2>3, <2>4, <3>1, WelcomedRecord
    <3> QED BY <2>3, <3>1, <3>2 DEF SessionRecord
  <2>6. CASE Claims(r)
    <3>1. sess' = [sess EXCEPT ![t[1]] = r] /\ UNCHANGED view
      BY <1>5, <2>2, <2>3, <2>6 DEF OnWelcome
    <3>2. r.ready = sess[t[1]].ready
      BY <1>0, <2>1, <2>3 DEF SessionRecord
    <3>3. \A u \in Session : /\ sess'[u].ready = sess[u].ready
                             /\ sess[u].welcomed => sess'[u].welcomed
      BY <1>0, <2>1, <2>5, <3>1, <3>2
    <3> QED BY <1>0, <2>1, <3>1, <3>3, HearsBefore, ViewKept DEF ViewInv
  <2>7. CASE ~Claims(r)
    <3>1. AnnounceReady(t[1], r)
      BY <1>5, <2>2, <2>3, <2>7 DEF OnWelcome
    <3>2. PICK s \in Session : s = t[1]
      BY <2>1
    <3> QED BY <1>0, <2>1, <2>5, <3>1, <3>2, ViewAnnounced
  <2> QED BY <2>6, <2>7
<1>6. ASSUME NEW t \in Try, OnNick(t)
      PROVE  ViewMatchesRoster'
  <2>1. /\ t[1] \in Session /\ sess[t[1]].authenticated /\ ~sess[t[1]].closed
        /\ UNCHANGED <<roster, ws>>
    BY <1>6, TrySession DEF OnNick, Emitted, ViewInv, LinksOpen, TypeInv, RosterInv, SessionsOwned
  <2>2. PICK n : n = Head(inbox[t]).new
    OBVIOUS
  <2>3. PICK r : r = [sess[t[1]] EXCEPT !.nickname = n, !.desired = IF @ = n THEN NoName ELSE @]
    OBVIOUS
  <2>4. n \in Name \cup {NoName}
    <3>1. Head(inbox[t]) \in EventRecord
      BY <1>0, <1>6, EmittedTypes DEF OnNick
    <3> QED BY <2>2, <3>1 DEF EventRecord
  <2>5. r \in SessionRecord /\ r.welcomed = sess[t[1]].welcomed /\ r.id = sess[t[1]].id
        /\ r.ready = sess[t[1]].ready
    <3>1. PICK q \in SessionRecord : q = sess[t[1]]
      BY <1>0, <2>1
    <3>2. r \in SessionRecord
      BY <2>3, <2>4, <3>1, RenamedRecord
    <3> QED BY <2>3, <3>1, <3>2 DEF SessionRecord
  <2>6. CASE ~Renamed(t[1], Head(inbox[t]))
    BY <1>1, <1>6, <2>1, <2>6 DEF OnNick
  <2>7. CASE Renamed(t[1], Head(inbox[t]))
    <3>1. sess[t[1]].welcomed
      <4>1. inbox[t] # <<>> /\ Head(inbox[t]).type = "nick" /\ inbox[t] \in Seq(EventRecord)
        BY <1>0, <1>6 DEF OnNick, Emitted, TypeInv, TypeOK
      <4>2. Head(inbox[t]) = inbox[t][1] /\ 1 \in 1 .. Len(inbox[t])
        BY <4>1, QueueTail
      <4>3. Head(inbox[t]).old \in Name
        BY <4>1, <4>2 DEF ViewInv, OwnInv, NamesHeard
      <4> QED BY <2>1, <2>7, <4>3, GatewayConstants DEF ViewInv, OwnInv, NamesHeard, Renamed
    <3>2. CASE ~r.ready
      <4>1. AnnounceReady(t[1], r)
        BY <1>6, <2>2, <2>3, <2>7, <3>2 DEF OnNick
      <4>2. PICK s \in Session : s = t[1]
        BY <2>1
      <4> QED BY <1>0, <2>1, <2>5, <3>1, <4>1, <4>2, ViewAnnounced
    <3>3. CASE r.ready
      <4>1. sess' = [sess EXCEPT ![t[1]] = r] /\ view' = Appears(view, sess', r.id, NoId)
        BY <1>6, <2>2, <2>3, <2>7, <3>3 DEF OnNick
      <4>2. PICK i : i = r.id
        OBVIOUS
      <4>3. i \in WelcomedUsers
        BY <2>1, <2>5, <3>1, <4>2, InRoster DEF ViewInv, WelcomedUsers
      <4>4. \A u \in Session : /\ sess'[u].id = sess[u].id /\ sess'[u].ready = sess[u].ready
                               /\ sess'[u].welcomed = sess[u].welcomed
        BY <1>0, <2>1, <2>5, <4>1
      <4>5. PICK x : x = NoId
        OBVIOUS
      <4> QED BY <2>1, <4>1, <4>2, <4>3, <4>4, <4>5, GatewayConstants, ViewGains
    <3> QED BY <3>2, <3>3
  <2> QED BY <2>6, <2>7
<1>7. ASSUME NEW s \in Session, Connect(s) \/ Logout(s)
      PROVE  ViewMatchesRoster'
  BY <1>1, <1>7 DEF Connect, Logout
<1>8. ASSUME NEW t \in Try,
             \/ \E kind \in {"register", "login"}, n \in Name : Auth(t, kind, n)
             \/ AuthFails(t) \/ ConnectOk(t) \/ OnErr(t) \/ OnBackendClosed(t) \/ Admit(t)
             \/ Rename(t) \/ CopyTargets(t) \/ (\E u \in Try : Tell(t, u)) \/ Drop(t) \/ BackendLost(t)
      PROVE  ViewMatchesRoster'
  BY <1>1, <1>8 DEF Auth, AuthFails, ConnectOk, OnErr, OnBackendClosed, Admit, Rename, CopyTargets,
     Tell, Drop, BackendLost
<1>9. \A t \in Try : ~ConnectFails(t)
  BY DEF ConnectFails
<1>10. CASE UNCHANGED vars
  BY <1>1, <1>10 DEF vars
<1> QED BY <1>2, <1>3, <1>4, <1>5, <1>6, <1>7, <1>8, <1>9, <1>10, Steps, AuthSucceedsView, WsClosedView

\* Once a browser is ready it shows everybody who is ready and nobody who has
\* left, for any number of browsers and accounts and whatever order sessions
\* come, rename and go in (gatewayServer.ts:88-90, 475-482, 506-512).
THEOREM ViewsMatch ==
  ASSUME Faults \cap {"closeInAuth", "doubleLogin", "connectFails"} = {}
  PROVE  Spec => []ViewMatchesRoster
<1>0. /\ "closeInAuth" \notin Faults /\ "doubleLogin" \notin Faults
      /\ "connectFails" \notin Faults
  OBVIOUS
<1>1. Init => ViewInv
  <2>1. Init => RosterInv
    <3>1. Init => RosterExact /\ Shut /\ HashingOpen /\ OneHashing
      BY TrySession DEF Init, Fresh, RosterExact, Online, Shut, HashingOpen, OneHashing
    <3> QED BY <3>1, TypesInit DEF RosterInv
  <2>2. Init => LinksOpen /\ NotYet /\ ViewMatchesRoster
    BY DEF Init, Fresh, LinksOpen, NotYet, ViewMatchesRoster, Hears
  <2> QED BY <2>1, <2>2, OwnInit DEF ViewInv
<1>2. ViewInv /\ [Next]_vars => ViewInv'
  <2> SUFFICES ASSUME ViewInv, [Next]_vars PROVE ViewInv'
    OBVIOUS
  <2>1. RosterInv'
    BY RosterStep DEF ViewInv
  <2>2. OwnInv'
    BY <1>0, OwnStep DEF ViewInv
  <2>3. ViewMatchesRoster'
    BY <1>0, <2>2, ViewStep DEF OwnInv
  <2>4. LinksOpen' /\ NotYet'
    BY LinksOpenStep, NotYetStep DEF ViewInv, RosterInv
  <2> QED BY <2>1, <2>2, <2>3, <2>4 DEF ViewInv
<1>3. ViewInv => ViewMatchesRoster
  BY DEF ViewInv
<1> QED BY <1>1, <1>2, <1>3, PTL DEF Spec

----------------------------------------------------------------------------
(* The roster, whatever goes wrong.                                        *)

\* An attempt has no connection before its password is hashed, and a session has
\* the connection of an attempt that made one.
Unlinked ==
  /\ \A t \in Try : try[t].at = "hashing" => link[t] = "none"
  /\ \A s \in Session : sess[s].backend # NoTry => link[sess[s].backend] # "none"

ListInv ==
  /\ TypeInv
  /\ Shut
  /\ Unlinked
  /\ RosterAccurate

\* The roster is written when a login succeeds, when its WebSocket closes and
\* when its connection to the backend fails.
LEMMA RosterMoves ==
  ASSUME [Next]_vars
  PROVE  \/ UNCHANGED <<roster, failed>>
         \/ \E t \in Try, i \in Id :
              /\ AuthSucceeds(t, i) /\ ~LoggedIn(i) /\ UNCHANGED failed
              /\ Online' = Online \cup {i} /\ roster'[i] = t[1]
              /\ \A j \in Online : j # i => roster'[j] = roster[j]
         \/ \E s \in Session :
              /\ WsClosed(s) /\ sess[s].authenticated /\ UNCHANGED failed
              /\ Online' = Online \ {sess[s].id} /\ \A j \in Online' : roster'[j] = roster[j]
         \/ \E t \in Try :
              /\ ConnectFails(t) /\ failed' = failed \cup {sess[t[1]].id}
              /\ Online' = Online \ {sess[t[1]].id} /\ \A j \in Online' : roster'[j] = roster[j]
<1>1. ASSUME NEW t \in Try, NEW i \in Id, AuthSucceeds(t, i)
      PROVE  \/ UNCHANGED <<roster, failed>>
             \/ /\ ~LoggedIn(i) /\ UNCHANGED failed
                /\ Online' = Online \cup {i} /\ roster'[i] = t[1]
                /\ \A j \in Online : j # i => roster'[j] = roster[j]
  BY <1>1 DEF AuthSucceeds, Online, history
<1>2. ASSUME NEW s \in Session, WsClosed(s)
      PROVE  \/ UNCHANGED <<roster, failed>>
             \/ /\ sess[s].authenticated /\ UNCHANGED failed
                /\ Online' = Online \ {sess[s].id} /\ \A j \in Online' : roster'[j] = roster[j]
  BY <1>2 DEF WsClosed, Online, history
<1>3. ASSUME NEW t \in Try, ConnectFails(t)
      PROVE  /\ failed' = failed \cup {sess[t[1]].id}
             /\ Online' = Online \ {sess[t[1]].id} /\ \A j \in Online' : roster'[j] = roster[j]
  BY <1>3 DEF ConnectFails, Online
<1>4. ASSUME NEW s \in Session,
             \/ Connect(s) \/ RequestState(s) \/ SetPresence(s) \/ Logout(s)
             \/ \E n \in Typed : SetNickname(s, n)
      PROVE  UNCHANGED <<roster, failed>>
  BY <1>4 DEF Connect, RequestState, SetPresence, Logout, SetNickname, history
<1>5. ASSUME NEW t \in Try,
             \/ \E kind \in {"register", "login"}, n \in Name : Auth(t, kind, n)
             \/ AuthFails(t) \/ ConnectOk(t) \/ OnWelcome(t) \/ OnNick(t) \/ OnErr(t)
             \/ OnBackendClosed(t) \/ Admit(t) \/ Rename(t) \/ CopyTargets(t)
             \/ (\E u \in Try : Tell(t, u)) \/ Drop(t) \/ BackendLost(t)
      PROVE  UNCHANGED <<roster, failed>>
  BY <1>5 DEF Auth, AuthFails, ConnectOk, OnWelcome, OnNick, OnErr, OnBackendClosed, Admit,
     Rename, CopyTargets, Tell, Drop, BackendLost, history
<1>6. CASE UNCHANGED vars
  BY <1>6 DEF vars
<1> QED BY <1>1, <1>2, <1>3, <1>4, <1>5, <1>6, Steps

\* How an attempt goes on: only one that begins is new to hashing, and only one
\* that hashes is given an account.
LEMMA TryMoves ==
  ASSUME TypeInv, [Next]_vars, NEW t \in Try
  PROVE  \/ try'[t] = try[t]
         \/ try[t].at = "none"
         \/ try'[t].at # "hashing" /\ try'[t].id = try[t].id
         \/ try'[t].at # "hashing" /\ try[t].at = "hashing"
<1>0. try \in [Try -> TryRecord] /\ try[t] \in TryRecord
  BY DEF TypeInv, TypeOK
<1>1. ASSUME NEW u \in Try, \E kind \in {"register", "login"}, n \in Name : Auth(u, kind, n)
      PROVE  try'[t] = try[t] \/ try[t].at = "none"
  <2>1. try[u].at = "none" /\ \E r : try' = [try EXCEPT ![u] = r]
    BY <1>1 DEF Auth
  <2> QED BY <1>0, <2>1
<1>2. ASSUME NEW u \in Try, AuthFails(u) \/ ConnectOk(u) \/ ConnectFails(u)
      PROVE  try'[t] = try[t] \/ (try'[t].at # "hashing" /\ try'[t].id = try[t].id)
  <2>1. try' = [try EXCEPT ![u].at = "over"]
    BY <1>2 DEF AuthFails, ConnectOk, ConnectFails
  <2>2. try'[t] = try[t] \/ try'[t] = [try[t] EXCEPT !.at = "over"]
    BY <1>0, <2>1
  <2> QED BY <1>0, <2>2 DEF TryRecord
<1>3. ASSUME NEW u \in Try, NEW i \in Id, AuthSucceeds(u, i)
      PROVE  try'[t] = try[t] \/ (try'[t].at # "hashing" /\ try[t].at = "hashing")
  <2>1. try[u].at = "hashing"
    BY <1>3 DEF AuthSucceeds
  <2> QED BY <1>3, <2>1, AuthSucceedsTypes
<1>4. ASSUME NEW s \in Session,
             \/ Connect(s) \/ RequestState(s) \/ SetPresence(s) \/ Logout(s) \/ WsClosed(s)
             \/ \E n \in Typed : SetNickname(s, n)
      PROVE  UNCHANGED try
  BY <1>4 DEF Connect, RequestState, SetPresence, Logout, WsClosed, SetNickname
<1>5. ASSUME NEW u \in Try,
             \/ OnWelcome(u) \/ OnNick(u) \/ OnErr(u) \/ OnBackendClosed(u)
             \/ Admit(u) \/ Rename(u) \/ CopyTargets(u) \/ (\E v \in Try : Tell(u, v))
             \/ Drop(u) \/ BackendLost(u)
      PROVE  UNCHANGED try
  BY <1>5 DEF OnWelcome, OnNick, OnErr, OnBackendClosed, Admit, Rename, CopyTargets, Tell, Drop,
     BackendLost
<1>6. CASE UNCHANGED vars
  BY <1>6 DEF vars
<1> QED BY <1>1, <1>2, <1>3, <1>4, <1>5, <1>6, Steps

\* A connection that was made stays a connection, of one account.
LEMMA LinkedStays ==
  ASSUME TypeInv, Unlinked, [Next]_vars, NEW t \in Try, link[t] # "none"
  PROVE  link'[t] # "none" /\ try'[t].id = try[t].id
<1>1. link'[t] # "none"
  BY LinkMoves
<1>2. try[t].at \notin {"none", "hashing"}
  BY DEF TypeInv, TriesNamed, Unlinked
<1> QED BY <1>1, <1>2, TryMoves

\* A connection is made after the hash.
LEMMA UnlinkedStep ==
  ASSUME TypeInv, Unlinked, [Next]_vars
  PROVE  Unlinked'
<1>1. ASSUME NEW t \in Try, try'[t].at = "hashing"
      PROVE  link'[t] = "none"
  <2>1. link[t] = "none" /\ try[t].at \in {"none", "hashing"}
    BY <1>1, TryMoves DEF TypeInv, TriesNamed, Unlinked
  <2>2. \A i \in Id : ~AuthSucceeds(t, i)
    BY <1>1, AuthSucceedsTypes
  <2>3. ~OnBackendClosed(t)
    BY <2>1 DEF OnBackendClosed
  <2>4. \A s \in Session : sess[s].backend # t
    BY <2>1, GatewayConstants DEF Unlinked, Try
  <2> QED BY <2>1, <2>2, <2>3, <2>4, LinkMoves
<1>2. ASSUME NEW s \in Session, sess'[s].backend # NoTry
      PROVE  link'[sess'[s].backend] # "none"
  <2>1. ASSUME NEW t \in Try, NEW i \in Id, AuthSucceeds(t, i), ~LoggedIn(i), sess'[s].backend = t
        PROVE  link'[sess'[s].backend] # "none"
    <3>1. link' = [link EXCEPT ![t] = "connecting"]
      BY <2>1 DEF AuthSucceeds
    <3>2. link'[t] = "connecting"
      BY <3>1 DEF TypeInv, TypeOK
    <3> QED BY <2>1, <3>2
  <2>2. ASSUME sess'[s].backend = sess[s].backend
        PROVE  link'[sess'[s].backend] # "none"
    <3>1. PICK t : t = sess[s].backend
      OBVIOUS
    <3>2. t \in Try /\ link[t] # "none"
      BY <1>2, <2>2, <3>1 DEF TypeInv, SessionsOwned, Unlinked
    <3> QED BY <2>2, <3>1, <3>2, LinkedStays
  <2> QED BY <2>1, <2>2, SessionMoves DEF SameSession, LogsIn, Shuts, Welcomes, Follows
<1> QED BY <1>1, <1>2 DEF Unlinked

\* onClientClosed marks the session.
LEMMA ShutStep ==
  ASSUME TypeInv, Shut, [Next]_vars
  PROVE  Shut'
<1> SUFFICES ASSUME NEW s \in Session
             PROVE  sess'[s].closed <=> ws'[s] = "closed"
  BY DEF Shut
<1>0. sess[s].closed <=> ws[s] = "closed"
  BY DEF Shut
<1>1. CASE WsClosed(s)
  <2>1. sess'[s].closed
    BY <1>1, WsClosedTypes
  <2>2. ws'[s] = "closed"
    BY <1>1 DEF WsClosed, TypeInv, TypeOK
  <2> QED BY <2>1, <2>2
<1>2. CASE ~WsClosed(s)
  <2>1. sess'[s].closed = sess[s].closed
    BY <1>2, SessionMoves DEF SameSession, LogsIn, Welcomes, Follows
  <2>2. ws'[s] = "closed" <=> ws[s] = "closed"
    BY <1>2, WsMoves
  <2> QED BY <1>0, <2>1, <2>2
<1> QED BY <1>1, <1>2

\* An entry of the roster is a session that logged in to the account.
LEMMA EntriesStep ==
  ASSUME ListInv, [Next]_vars, NEW i \in Online'
  PROVE  \E t \in Try : t[1] = roster'[i] /\ try'[t].id = i /\ link'[t] # "none"
<1>1. TypeInv /\ Unlinked
  BY DEF ListInv
<1>2. ASSUME i \in Online, roster'[i] = roster[i]
      PROVE  \E t \in Try : t[1] = roster'[i] /\ try'[t].id = i /\ link'[t] # "none"
  <2>1. PICK t \in Try : t[1] = roster[i] /\ try[t].id = i /\ link[t] # "none"
    BY <1>2 DEF ListInv, RosterAccurate
  <2> QED BY <1>1, <1>2, <2>1, LinkedStays
<1>3. ASSUME NEW t \in Try, AuthSucceeds(t, i), ~LoggedIn(i), i \in Id, roster'[i] = t[1]
      PROVE  \E u \in Try : u[1] = roster'[i] /\ try'[u].id = i /\ link'[u] # "none"
  <2>1. /\ link' = [link EXCEPT ![t] = "connecting"]
        /\ try' = [try EXCEPT ![t] = [@ EXCEPT !.at = "connecting", !.id = i]]
    BY <1>3 DEF AuthSucceeds
  <2>2. try \in [Try -> TryRecord] /\ link \in [Try -> LinkState] /\ try[t] \in TryRecord
    BY <1>1 DEF TypeInv, TypeOK
  <2>3. link'[t] = "connecting"
    BY <2>1, <2>2
  <2>4. try'[t] = [try[t] EXCEPT !.at = "connecting", !.id = i]
    BY <2>1, <2>2
  <2>5. try'[t].id = i
    BY <2>2, <2>4 DEF TryRecord
  <2> QED BY <1>3, <2>3, <2>5
<1>4. CASE UNCHANGED <<roster, failed>>
  BY <1>2, <1>4 DEF Online
<1>5. CASE \E t \in Try, j \in Id :
             /\ AuthSucceeds(t, j) /\ ~LoggedIn(j)
             /\ Online' = Online \cup {j} /\ roster'[j] = t[1]
             /\ \A k \in Online : k # j => roster'[k] = roster[k]
  BY <1>2, <1>3, <1>5
<1>6. CASE \E j : Online' = Online \ {j} /\ \A k \in Online' : roster'[k] = roster[k]
  BY <1>2, <1>6
<1> QED BY <1>4, <1>5, <1>6, RosterMoves

\* A session that is logged in and not closed is the entry of its account.
LEMMA LiveStep ==
  ASSUME ListInv, [Next]_vars, NEW s \in Session,
         sess'[s].authenticated, ~sess'[s].closed, sess'[s].id \notin failed'
  PROVE  sess'[s].id \in Online' /\ roster'[sess'[s].id] = s
<1>1. TypeInv /\ Shut
  BY DEF ListInv
<1>2. \A u \in Session : sess[u].authenticated /\ ~sess[u].closed /\ sess[u].id \notin failed
                           => sess[u].id \in Online /\ roster[sess[u].id] = u
  BY DEF ListInv, RosterAccurate
<1>3. ~WsClosed(s)
  BY <1>1, WsClosedTypes
<1>4. failed \subseteq failed'
  BY RosterMoves
<1>5. CASE \E t \in Try, i \in Id : t[1] = s /\ AuthSucceeds(t, i) /\ ~LoggedIn(i)
  <2>1. PICK t \in Try, i \in Id : t[1] = s /\ AuthSucceeds(t, i) /\ ~LoggedIn(i)
    BY <1>5
  <2>2. sess'[s].id = i
    BY <1>1, <2>1, AuthSucceedsTypes
  <2>3. roster' = [j \in Online \cup {i} |-> IF j = i THEN s ELSE roster[j]]
    BY <2>1 DEF AuthSucceeds
  <2> QED BY <2>2, <2>3 DEF Online
<1>6. CASE ~\E t \in Try, i \in Id : t[1] = s /\ AuthSucceeds(t, i) /\ ~LoggedIn(i)
  <2>1. /\ sess'[s].id = sess[s].id /\ sess'[s].closed = sess[s].closed
        /\ sess'[s].authenticated = sess[s].authenticated
    BY <1>1, <1>3, <1>6, SessionMoves DEF SameSession, Welcomes, Follows
  <2>2. PICK a : a = sess[s].id
    OBVIOUS
  <2>3. a \in Online /\ roster[a] = s /\ a \notin failed'
    BY <1>2, <1>4, <2>1, <2>2
  <2>4. CASE UNCHANGED <<roster, failed>>
    BY <2>1, <2>2, <2>3, <2>4 DEF Online
  <2>5. ASSUME NEW t \in Try, NEW i \in Id, ~LoggedIn(i), Online' = Online \cup {i},
               \A j \in Online : j # i => roster'[j] = roster[j]
        PROVE  a \in Online' /\ roster'[a] = s
    <3>1. a # i
      BY <2>1, <2>3, <2>5 DEF LoggedIn
    <3> QED BY <2>3, <2>5, <3>1
  <2>6. ASSUME NEW u \in Session, WsClosed(u), sess[u].authenticated, UNCHANGED failed,
               Online' = Online \ {sess[u].id}, \A j \in Online' : roster'[j] = roster[j]
        PROVE  a \in Online' /\ roster'[a] = s
    <3>1. u # s /\ ~sess[u].closed
      BY <1>1, <1>3, <2>6 DEF WsClosed, Shut
    <3>2. sess[u].id # a
      BY <1>2, <2>3, <2>6, <3>1
    <3> QED BY <2>3, <2>6, <3>2
  <2>7. ASSUME NEW t \in Try, failed' = failed \cup {sess[t[1]].id},
               Online' = Online \ {sess[t[1]].id}, \A j \in Online' : roster'[j] = roster[j]
        PROVE  a \in Online' /\ roster'[a] = s
    BY <2>3, <2>7
  <2>8. a \in Online' /\ roster'[a] = s
    BY <2>1, <2>2, <2>4, <2>5, <2>6, <2>7, RosterMoves
  <2> QED BY <2>1, <2>2, <2>8
<1> QED BY <1>5, <1>6

\* An entry of the roster is a session that logged in to that account, and a
\* session that is logged in and not closed is the entry of its account, but for
\* accounts whose connection to the backend has failed: for any number of
\* browsers, accounts and attempts, though browsers leave or log in twice while a
\* password is hashed and connections fail or are lost
\* (gatewayServer.ts:76-91, 180-213).
THEOREM RosterIsAccurate == Spec => []RosterAccurate
<1>1. Init => ListInv
  <2> SUFFICES ASSUME Init PROVE ListInv
    OBVIOUS
  <2>1. TypeInv
    BY TypesInit
  <2>2. Shut /\ Unlinked /\ RosterAccurate
    BY DEF Init, Fresh, Shut, Unlinked, RosterAccurate, Online
  <2> QED BY <2>1, <2>2 DEF ListInv
<1>2. ListInv /\ [Next]_vars => ListInv'
  <2> SUFFICES ASSUME ListInv, [Next]_vars PROVE ListInv'
    OBVIOUS
  <2>1. TypeInv'
    BY TypesStep DEF ListInv
  <2>2. Shut' /\ Unlinked'
    BY ShutStep, UnlinkedStep DEF ListInv
  <2>3. RosterAccurate'
    BY EntriesStep, LiveStep DEF RosterAccurate
  <2> QED BY <2>1, <2>2, <2>3 DEF ListInv
<1>3. ListInv => RosterAccurate
  BY DEF ListInv
<1> QED BY <1>1, <1>2, <1>3, PTL DEF Spec

----------------------------------------------------------------------------
(* Nicknames follow the server.                                            *)

\* What a session that bears the name n bears after event e.
Heard(n, e) ==
  IF e.type = "welcome" \/ (e.type = "nick" /\ e.old = n) THEN e.new ELSE n

\* The nickname of a session, welcomed or not.
AnyName == Name \cup {NoName}

\* The events q, one after the other, turn the name n into m.
Leads(q, n, m) ==
  \E nm \in [1 .. (Len(q) + 1) -> AnyName] :
    /\ nm[1] = n /\ nm[Len(q) + 1] = m
    /\ \A k \in 1 .. Len(q) : nm[k + 1] = Heard(nm[k], q[k])

\* The name connection t has been told it bears.
Known(t) == IF Untold(t, t) THEN telling[t].old ELSE member[t]

\* A handler broadcasts the rename of its own client, to clients that are all
\* still there.
TellingsFit ==
  \A u \in Try : telling[u] # Silent =>
    /\ u \in Members /\ telling[u].new = member[u]
    /\ telling[u].copied <=> telling[u].to # {}
    /\ telling[u].to \subseteq Members

\* What another's broadcast has still to tell connection t is neither about the
\* name it was last told it bears nor about the one it bears.
Apart(t) ==
  \A u \in Try : u # t /\ Untold(t, u) => telling[u].old \notin {Known(t), member[t]}

NamesApart == \A t \in Members : t \notin crossed => Apart(t)

\* Two clients never have one name.
MembersUnique == \A t, u \in Members : t # u => member[t] # member[u]

\* Only a connection that was admitted has events to emit.
InboxesOpen ==
  \A t \in Try : inbox[t] # <<>> => link[t] = "lost" \/ (link[t] = "up" /\ t \in Members)

\* A connection the server has admitted is up, or its handler has yet to notice
\* that the gateway has closed it.
MembersLinked == \A t \in Members : link[t] \in {"up", "closed"}

\* Unless it is crossed, what is in the inbox leads from the nickname the session
\* has to the name its connection has been told.
NicknamesFollow ==
  \A t \in Members : t \notin crossed /\ link[t] = "up" =>
    Leads(inbox[t], sess[t[1]].nickname, Known(t))

\* What the nickname of every session rests on.
MirrorInv ==
  /\ OwnInv
  /\ TellingsFit
  /\ MembersUnique
  /\ InboxesOpen
  /\ MembersLinked
  /\ NamesApart
  /\ NicknamesFollow

\* No events lead from a name to itself.
LEMMA LeadsNow ==
  ASSUME NEW n, NEW m, Leads(<<>>, n, m)
  PROVE  n = m
BY DEF Leads

\* The session of a connection that is just welcomed bears the name it was given.
LEMMA LeadsFirst ==
  ASSUME NEW n \in AnyName, NEW e \in EventRecord, e.type = "welcome"
  PROVE  Leads(Append(<<>>, e), n, e.new)
<1>1. e.new \in AnyName
  BY DEF EventRecord, AnyName
<1>2. Len(Append(<<>>, e)) = 1 /\ Append(<<>>, e)[1] = e
  OBVIOUS
<1>3. PICK nm : nm = [k \in 1 .. 2 |-> IF k = 1 THEN n ELSE e.new]
  OBVIOUS
<1>4. nm \in [1 .. 2 -> AnyName] /\ nm[1] = n /\ nm[2] = e.new
  BY <1>1, <1>3
<1>5. \A k \in 1 .. 1 : nm[k + 1] = Heard(nm[k], Append(<<>>, e)[k])
  BY <1>2, <1>4 DEF Heard
<1> QED BY <1>2, <1>4, <1>5 DEF Leads

\* The session takes the next event.
LEMMA LeadsTail ==
  ASSUME NEW q \in Seq(EventRecord), q # <<>>, NEW n \in AnyName, NEW m, Leads(q, n, m)
  PROVE  Leads(Tail(q), Heard(n, Head(q)), m)
<1>1. PICK nm \in [1 .. (Len(q) + 1) -> AnyName] :
        /\ nm[1] = n /\ nm[Len(q) + 1] = m
        /\ \A k \in 1 .. Len(q) : nm[k + 1] = Heard(nm[k], q[k])
  BY DEF Leads
<1>2. /\ Len(q) \in Nat /\ Len(q) >= 1 /\ Len(Tail(q)) = Len(q) - 1 /\ Head(q) = q[1]
      /\ \A k \in 1 .. Len(Tail(q)) : Tail(q)[k] = q[k + 1]
  BY QueueTail
<1>3. PICK p : p = Len(Tail(q))
  OBVIOUS
<1>4. p \in Nat /\ Len(q) = p + 1
  BY <1>2, <1>3
<1>5. PICK om : om = [k \in 1 .. (p + 1) |-> nm[k + 1]]
  OBVIOUS
<1>6. om \in [1 .. (p + 1) -> AnyName] /\ om[1] = nm[2] /\ om[p + 1] = nm[p + 2]
  BY <1>1, <1>4, <1>5
<1>7. om[1] = Heard(n, Head(q)) /\ om[p + 1] = m
  BY <1>1, <1>2, <1>4, <1>6
<1>8. ASSUME NEW k \in 1 .. p PROVE om[k + 1] = Heard(om[k], Tail(q)[k])
  <2>1. om[k + 1] = nm[k + 2] /\ om[k] = nm[k + 1] /\ k + 1 \in 1 .. Len(q)
    BY <1>4, <1>5
  <2>2. nm[(k + 1) + 1] = Heard(nm[k + 1], q[k + 1])
    BY <1>1, <2>1
  <2>3. Tail(q)[k] = q[k + 1]
    BY <1>2, <1>3
  <2> QED BY <2>1, <2>2, <2>3
<1> QED BY <1>3, <1>6, <1>7, <1>8 DEF Leads

\* The server sends another event.
LEMMA LeadsAppend ==
  ASSUME NEW q \in Seq(EventRecord), NEW e \in EventRecord, NEW n, NEW m, Leads(q, n, m)
  PROVE  Leads(Append(q, e), n, Heard(m, e))
<1>1. PICK nm \in [1 .. (Len(q) + 1) -> AnyName] :
        /\ nm[1] = n /\ nm[Len(q) + 1] = m
        /\ \A k \in 1 .. Len(q) : nm[k + 1] = Heard(nm[k], q[k])
  BY DEF Leads
<1>2. PICK p : p = Len(q)
  OBVIOUS
<1>3. /\ p \in Nat /\ Len(Append(q, e)) = p + 1 /\ Append(q, e)[p + 1] = e
      /\ \A k \in 1 .. p : Append(q, e)[k] = q[k]
  BY <1>2, QueueAppend
<1>4. Heard(m, e) \in AnyName
  BY <1>1, <1>2, <1>3 DEF Heard, EventRecord, AnyName
<1>5. PICK om : om = [k \in 1 .. (p + 2) |-> IF k = p + 2 THEN Heard(m, e) ELSE nm[k]]
  OBVIOUS
<1>6. om \in [1 .. (p + 2) -> AnyName] /\ om[1] = n /\ om[p + 2] = Heard(m, e)
  BY <1>1, <1>2, <1>3, <1>4, <1>5
<1>7. ASSUME NEW k \in 1 .. (p + 1) PROVE om[k + 1] = Heard(om[k], Append(q, e)[k])
  <2>1. CASE k = p + 1
    <3>1. om[k] = m /\ om[k + 1] = Heard(m, e) /\ Append(q, e)[k] = e
      BY <1>1, <1>2, <1>3, <1>5, <2>1
    <3> QED BY <3>1
  <2>2. CASE k # p + 1
    <3>1. k \in 1 .. p /\ om[k] = nm[k] /\ om[k + 1] = nm[k + 1]
      BY <1>3, <1>5, <2>2
    <3> QED BY <1>1, <1>2, <1>3, <3>1
  <2> QED BY <2>1, <2>2
<1>8. PICK r : r = Append(q, e)
  OBVIOUS
<1>9. /\ om \in [1 .. (Len(r) + 1) -> AnyName] /\ om[1] = n /\ om[Len(r) + 1] = Heard(m, e)
      /\ \A k \in 1 .. Len(r) : om[k + 1] = Heard(om[k], r[k])
  <2>1. Len(r) = p + 1 /\ Len(r) + 1 = p + 2
    BY <1>3, <1>8
  <2> QED BY <1>6, <1>7, <1>8, <2>1
<1> QED BY <1>8, <1>9 DEF Leads

\* Events that rename somebody else, and errors, lead nowhere.
LEMMA LeadsOther ==
  ASSUME NEW q \in Seq(EventRecord), NEW e \in EventRecord, NEW n, NEW m, Leads(q, n, m),
         e.type = "err" \/ (e.type = "nick" /\ e.old # m)
  PROVE  Leads(Append(q, e), n, m)
<1>1. Heard(m, e) = m
  BY DEF Heard
<1> QED BY <1>1, LeadsAppend

\* Who is in the server's registry, and under which name.
LEMMA MembersChange ==
  ASSUME TypeInv, [Next]_vars
  PROVE  \/ UNCHANGED member
         \/ \E u \in Try :
              /\ Admit(u) /\ u \notin Members /\ Members' = Members \cup {u}
              /\ \A v \in Members : member'[v] = member[v] /\ member[v] # member'[u]
         \/ \E u \in Members :
              /\ Rename(u) /\ Members' = Members
              /\ \A v \in Members : v # u => member'[v] = member[v] /\ member[v] # member'[u]
         \/ \E u \in Try :
              /\ Drop(u) \/ BackendLost(u)
              /\ Members' = Members \ {u} /\ \A v \in Members' : member'[v] = member[v]
<1>1. ASSUME NEW u \in Try, Admit(u)
      PROVE  /\ u \notin Members /\ Members' = Members \cup {u}
             /\ \A v \in Members : member'[v] = member[v] /\ member[v] # member'[u]
  <2>1. PICK k \in DOMAIN DefaultName :
          /\ DefaultName[k] \notin Borne
          /\ member' = [v \in Members \cup {u} |-> IF v = u THEN DefaultName[k] ELSE member[v]]
    BY <1>1 DEF Admit
  <2>2. u \notin Members
    BY <1>1 DEF Admit
  <2> QED BY <2>1, <2>2 DEF Members, Borne
<1>2. ASSUME NEW u \in Try, Rename(u)
      PROVE  \/ UNCHANGED member
             \/ /\ u \in Members /\ Members' = Members
                /\ \A v \in Members : v # u => member'[v] = member[v] /\ member[v] # member'[u]
  <2>1. u \in Members
    BY <1>2 DEF Rename
  <2>2. CASE \E v \in Members \ {u} : member[v] = Head(outbox[u])
    BY <1>2, <2>2 DEF Rename
  <2>3. CASE ~\E v \in Members \ {u} : member[v] = Head(outbox[u])
    <3>1. member' = [member EXCEPT ![u] = Head(outbox[u])]
      BY <1>2, <2>3 DEF Rename
    <3> QED BY <2>1, <2>3, <3>1 DEF Members
  <2> QED BY <2>2, <2>3
<1>3. ASSUME NEW u \in Try, Drop(u) \/ BackendLost(u)
      PROVE  Members' = Members \ {u} /\ \A v \in Members' : member'[v] = member[v]
  BY <1>3 DEF Drop, BackendLost, Without, Members
<1>4. ASSUME NEW s \in Session,
             \/ Connect(s) \/ RequestState(s) \/ SetPresence(s) \/ Logout(s) \/ WsClosed(s)
             \/ \E n \in Typed : SetNickname(s, n)
      PROVE  UNCHANGED member
  BY <1>4 DEF Connect, RequestState, SetPresence, Logout, WsClosed, SetNickname
<1>5. ASSUME NEW t \in Try,
             \/ \E kind \in {"register", "login"}, n \in Name : Auth(t, kind, n)
             \/ AuthFails(t) \/ (\E i \in Id : AuthSucceeds(t, i)) \/ ConnectOk(t) \/ ConnectFails(t)
             \/ OnWelcome(t) \/ OnNick(t) \/ OnErr(t) \/ OnBackendClosed(t) \/ CopyTargets(t)
             \/ \E u \in Try : Tell(t, u)
      PROVE  UNCHANGED member
  BY <1>5 DEF Auth, AuthFails, AuthSucceeds, ConnectOk, ConnectFails, OnWelcome, OnNick, OnErr,
     OnBackendClosed, CopyTargets, Tell
<1>6. CASE UNCHANGED vars
  BY <1>6 DEF vars
<1> QED BY <1>1, <1>2, <1>3, <1>4, <1>5, <1>6, Steps

\* A nickname that is free is given to one member only.
LEMMA MembersUniqueStep ==
  ASSUME MirrorInv, [Next]_vars
  PROVE  MembersUnique'
<1>0. TypeInv /\ \A t, u \in Members : t # u => member[t] # member[u]
  BY DEF MirrorInv, OwnInv, MembersUnique
<1>1. CASE UNCHANGED member
  BY <1>0, <1>1 DEF MembersUnique, Members
<1>2. ASSUME NEW u \in Try, u \notin Members, Members' = Members \cup {u},
             \A v \in Members : member'[v] = member[v] /\ member[v] # member'[u]
      PROVE  MembersUnique'
  BY <1>0, <1>2 DEF MembersUnique
<1>3. ASSUME NEW u \in Members, Members' = Members,
             \A v \in Members : v # u => member'[v] = member[v] /\ member[v] # member'[u]
      PROVE  MembersUnique'
  BY <1>0, <1>3 DEF MembersUnique
<1>4. ASSUME NEW u \in Try, Members' = Members \ {u}, \A v \in Members' : member'[v] = member[v]
      PROVE  MembersUnique'
  BY <1>0, <1>4 DEF MembersUnique
<1> QED BY <1>0, <1>1, <1>2, <1>3, <1>4, MembersChange

\* A broadcast a step of which has u told, or gone, still fits.
LEMMA ToldFits ==
  ASSUME TellingType, TellingsFit, NEW t \in Try, NEW u \in Try,
         telling'[t] # Silent, ToldOf(u, telling[t], telling'[t])
  PROVE  /\ telling[t] # Silent /\ telling'[t].old = telling[t].old
         /\ telling'[t].new = telling[t].new /\ telling'[t].copied = telling[t].copied
         /\ telling'[t].to = telling[t].to \ {u} /\ telling[t].to # {u}
<1>1. telling[t].to # {u} /\ telling'[t] = [telling[t] EXCEPT !.to = @ \ {u}]
  BY DEF ToldOf
<1>2. telling[t] \in Telling
  BY DEF TellingType
<1>3. /\ telling'[t].old = telling[t].old /\ telling'[t].new = telling[t].new
      /\ telling'[t].copied = telling[t].copied /\ telling'[t].to = telling[t].to \ {u}
  BY <1>1, <1>2 DEF Telling
<1>4. telling[t] # Silent
  <2> SUFFICES ASSUME telling[t] = Silent PROVE FALSE
    OBVIOUS
  <2>1. telling[t].to \ {u} = telling[t].to
    BY DEF Silent
  <2>2. telling'[t] = [telling[t] EXCEPT !.to = telling[t].to]
    BY <1>1, <2>1
  <2>3. telling'[t] = telling[t]
    BY <1>2, <2>2 DEF Telling
  <2> QED BY <2>3
<1> QED BY <1>1, <1>3, <1>4

\* A broadcast goes to who is there, and its own client stays while it lasts.
LEMMA TellingsFitStep ==
  ASSUME MirrorInv, [Next]_vars
  PROVE  TellingsFit'
<1> SUFFICES ASSUME NEW t \in Try, telling'[t] # Silent
             PROVE  /\ t \in Members' /\ telling'[t].new = member'[t]
                    /\ telling'[t].copied <=> telling'[t].to # {}
                    /\ telling'[t].to \subseteq Members'
  BY DEF TellingsFit
<1>0. /\ TypeInv /\ TellingType /\ telling \in [Try -> Telling] /\ telling[t] \in Telling
      /\ TellingsFit
  BY DEF MirrorInv, OwnInv, TypeInv, TypeOK, TellingType
<1>1. telling[t] # Silent =>
        /\ t \in Members /\ telling[t].new = member[t]
        /\ telling[t].copied <=> telling[t].to # {}
        /\ telling[t].to \subseteq Members
  BY <1>0 DEF TellingsFit
<1>2. CASE Rename(t)
  <2>1. CASE \E v \in Members \ {t} : member[v] = Head(outbox[t])
    <3>1. telling[t] = Silent /\ UNCHANGED telling
      BY <1>2, <2>1 DEF Rename
    <3> QED BY <3>1
  <2>2. CASE ~\E v \in Members \ {t} : member[v] = Head(outbox[t])
    <3>1. /\ t \in Members /\ member' = [member EXCEPT ![t] = Head(outbox[t])]
          /\ telling' = [telling EXCEPT ![t] = [old |-> member[t], new |-> Head(outbox[t]),
                                                copied |-> FALSE, to |-> {}]]
      BY <1>2, <2>2 DEF Rename
    <3>2. telling'[t] = [old |-> member[t], new |-> Head(outbox[t]), copied |-> FALSE, to |-> {}]
      BY <1>0, <3>1
    <3>3. t \in Members' /\ member'[t] = Head(outbox[t])
      BY <3>1 DEF Members
    <3> QED BY <3>2, <3>3
  <2> QED BY <2>1, <2>2
<1>3. CASE CopyTargets(t)
  <2>1. /\ ~telling[t].copied /\ UNCHANGED member
        /\ telling' = [telling EXCEPT ![t] = [@ EXCEPT !.copied = TRUE, !.to = Members]]
    BY <1>3 DEF CopyTargets
  <2>2. telling[t] # Silent
    BY <2>1 DEF Silent
  <2>3. /\ telling'[t].new = telling[t].new /\ telling'[t].copied /\ telling'[t].to = Members
    BY <1>0, <2>1 DEF Telling
  <2> QED BY <1>1, <2>1, <2>2, <2>3 DEF Members
<1>4. ASSUME NEW u \in Try, Tell(t, u) \/ Drop(u) \/ BackendLost(u),
             ToldOf(u, telling[t], telling'[t])
      PROVE  /\ t \in Members' /\ telling'[t].new = member'[t]
             /\ telling'[t].copied <=> telling'[t].to # {}
             /\ telling'[t].to \subseteq Members'
  <2>1. /\ telling[t] # Silent /\ telling'[t].new = telling[t].new
        /\ telling'[t].copied = telling[t].copied
        /\ telling'[t].to = telling[t].to \ {u} /\ telling[t].to # {u}
    BY <1>0, <1>4, ToldFits
  <2>2. CASE Tell(t, u)
    <3>1. UNCHANGED member
      BY <2>2 DEF Tell
    <3> QED BY <1>1, <2>1, <3>1 DEF Members
  <2>3. CASE Drop(u) \/ BackendLost(u)
    <3>1. telling[u] = Silent
      BY <2>3 DEF Drop, BackendLost
    <3>2. Members' = Members \ {u} /\ \A v \in Members' : member'[v] = member[v]
      BY <2>3 DEF Drop, BackendLost, Without, Members
    <3>3. t # u
      BY <2>1, <3>1
    <3> QED BY <1>1, <2>1, <3>2, <3>3
  <2> QED BY <1>4, <2>2, <2>3
<1>5. ASSUME telling'[t] = telling[t], ~Rename(t), \A u \in Try : ~Drop(u) /\ ~BackendLost(u)
      PROVE  /\ t \in Members' /\ telling'[t].new = member'[t]
             /\ telling'[t].copied <=> telling'[t].to # {}
             /\ telling'[t].to \subseteq Members'
  <2>1. t \in Members /\ telling[t] # Silent
    BY <1>1, <1>5
  <2>2. Members \subseteq Members' /\ member'[t] = member[t]
    <3>1. CASE UNCHANGED member
      BY <3>1 DEF Members
    <3>2. ASSUME NEW u \in Try, Admit(u), Members' = Members \cup {u},
                 \A v \in Members : member'[v] = member[v]
          PROVE  Members \subseteq Members' /\ member'[t] = member[t]
      BY <2>1, <3>2
    <3>3. ASSUME NEW u \in Members, Rename(u), Members' = Members,
                 \A v \in Members : v # u => member'[v] = member[v]
          PROVE  Members \subseteq Members' /\ member'[t] = member[t]
      BY <1>5, <2>1, <3>3
    <3> QED BY <1>0, <1>5, <3>1, <3>2, <3>3, MembersChange
  <2> QED BY <1>1, <1>5, <2>1, <2>2
<1>6. ASSUME NEW u \in Try, Drop(u) \/ BackendLost(u)
      PROVE  ToldOf(u, telling[t], telling'[t])
  <2>1. telling' = [v \in Try |-> IF telling[v].to = {u} THEN Silent
                                  ELSE [telling[v] EXCEPT !.to = @ \ {u}]]
    BY <1>6 DEF Drop, BackendLost
  <2> QED BY <2>1, Zenon DEF ToldOf
<1>7. CASE \E u \in Try : Drop(u) \/ BackendLost(u)
  BY <1>4, <1>6, <1>7
<1>8. CASE ~\E u \in Try : Drop(u) \/ BackendLost(u)
  BY <1>0, <1>2, <1>3, <1>4, <1>5, <1>8, TellingMoves
<1> QED BY <1>7, <1>8

\* The connections that are crossed are those of a name given or given up.
LEMMA CrossedMoves ==
  ASSUME TypeInv, [Next]_vars
  PROVE  \/ UNCHANGED crossed
         \/ \E u \in Try : (Admit(u) \/ Rename(u)) /\ crossed \subseteq crossed'
<1>1. ASSUME NEW u \in Try, Admit(u) \/ Rename(u)
      PROVE  crossed \subseteq crossed'
  BY <1>1 DEF Admit, Rename
<1>2. ASSUME NEW u \in Try, Drop(u) \/ BackendLost(u)
      PROVE  UNCHANGED crossed
  BY <1>2 DEF Drop, BackendLost, history
<1>3. ASSUME NEW s \in Session,
             \/ Connect(s) \/ RequestState(s) \/ SetPresence(s) \/ Logout(s) \/ WsClosed(s)
             \/ \E n \in Typed : SetNickname(s, n)
      PROVE  UNCHANGED crossed
  BY <1>3 DEF Connect, RequestState, SetPresence, Logout, WsClosed, SetNickname, history
<1>4. ASSUME NEW t \in Try,
             \/ \E kind \in {"register", "login"}, n \in Name : Auth(t, kind, n)
             \/ AuthFails(t) \/ (\E i \in Id : AuthSucceeds(t, i)) \/ ConnectOk(t) \/ ConnectFails(t)
             \/ OnWelcome(t) \/ OnNick(t) \/ OnErr(t) \/ OnBackendClosed(t) \/ CopyTargets(t)
             \/ \E u \in Try : Tell(t, u)
      PROVE  UNCHANGED crossed
  BY <1>4 DEF Auth, AuthFails, AuthSucceeds, ConnectOk, ConnectFails, OnWelcome, OnNick, OnErr,
     OnBackendClosed, CopyTargets, Tell, history
<1>5. CASE UNCHANGED vars
  BY <1>5 DEF vars
<1> QED BY <1>1, <1>2, <1>3, <1>4, <1>5, Steps

\* A connection that is crossed stays so.
LEMMA CrossedStays ==
  ASSUME TypeInv, [Next]_vars
  PROVE  crossed \subseteq crossed'
BY CrossedMoves

\* A member whose name nobody touches, and that has no more to be told than
\* before, is as far from the others' broadcasts as it was.
LEMMA ApartStays ==
  ASSUME NEW t \in Try, Apart(t), member'[t] = member[t],
         \A u \in Try : Untold(t, u)' => Untold(t, u) /\ telling'[u].old = telling[u].old
  PROVE  Apart(t)'
<1>1. Known(t)' \in {Known(t), member[t]}
  BY DEF Known
<1> QED BY <1>1 DEF Apart

\* What a broadcast has not told yet, it had not told before.
LEMMA UntoldBefore ==
  ASSUME MirrorInv, [Next]_vars, NEW t \in Members, NEW u \in Try, ~Rename(u), Untold(t, u)'
  PROVE  Untold(t, u) /\ telling'[u].old = telling[u].old
<1>0. TypeInv /\ TellingType /\ telling[u] \in Telling /\ TellingsFit
  BY DEF MirrorInv, OwnInv, TypeInv, TypeOK, TellingType
<1>1. CASE telling'[u] = telling[u]
  BY <1>1 DEF Untold
<1>2. CASE CopyTargets(u) /\ telling'[u] = [telling[u] EXCEPT !.copied = TRUE, !.to = Members]
  <2>1. ~telling[u].copied
    BY <1>2 DEF CopyTargets
  <2>2. telling'[u].old = telling[u].old
    BY <1>0, <1>2 DEF Telling
  <2> QED BY <2>1, <2>2 DEF Untold
<1>3. ASSUME NEW w \in Try, ToldOf(w, telling[u], telling'[u])
      PROVE  Untold(t, u) /\ telling'[u].old = telling[u].old
  <2>1. telling'[u] # Silent
    BY DEF Untold, Silent
  <2>2. /\ telling'[u].old = telling[u].old /\ telling'[u].copied = telling[u].copied
        /\ telling'[u].to = telling[u].to \ {w}
    BY <1>0, <1>3, <2>1, ToldFits
  <2> QED BY <2>2 DEF Untold
<1> QED BY <1>0, <1>1, <1>2, <1>3, TellingMoves

\* A name is given, or given up, under the nose of a broadcast that is still on
\* its way only to a connection that is crossed by it.
LEMMA NamesApartStep ==
  ASSUME MirrorInv, [Next]_vars
  PROVE  NamesApart'
<1> SUFFICES ASSUME NEW t \in Members', t \notin crossed' PROVE Apart(t)'
  BY DEF NamesApart
<1>0. /\ TypeInv /\ TypeInv' /\ t \in Try /\ t \notin crossed /\ telling \in [Try -> Telling]
      /\ TellingsFit /\ MembersUnique
  BY TypesStep, CrossedStays DEF MirrorInv, OwnInv, TypeInv, TypeOK
<1>1. CASE Admit(t)
  <2>1. PICK k \in DOMAIN DefaultName :
          /\ member' = [v \in Members \cup {t} |-> IF v = t THEN DefaultName[k] ELSE member[v]]
          /\ crossed' = crossed \cup {v \in {t} : Overtakes(v, DefaultName[k])}
    BY <1>1 DEF Admit
  <2>2. member'[t] = DefaultName[k] /\ ~Overtakes(t, DefaultName[k])
    BY <2>1
  <2>3. t \notin Members /\ UNCHANGED telling
    BY <1>1 DEF Admit
  <2>4. telling[t] = Silent
    BY <1>0, <2>3 DEF TellingsFit
  <2>5. Known(t)' = DefaultName[k]
    BY <2>2, <2>3, <2>4 DEF Known, Untold, Silent
  <2>6. \A u \in Try : Untold(t, u)' => telling'[u].old # DefaultName[k]
    BY <2>2, <2>3 DEF Overtakes, Untold
  <2> QED BY <2>2, <2>5, <2>6 DEF Apart
<1>2. CASE ~Admit(t)
  <2>1. t \in Members
    <3>1. ASSUME NEW u \in Try, Admit(u), Members' = Members \cup {u} PROVE t \in Members
      BY <1>2, <3>1
    <3>2. CASE UNCHANGED member
      BY <3>2 DEF Members
    <3> QED BY <1>0, <3>1, <3>2, MembersChange
  <2>2. Apart(t)
    BY <1>0, <2>1 DEF MirrorInv, NamesApart
  <2>3. ASSUME NEW w \in Try, Rename(w), \E v \in Members \ {w} : member[v] = Head(outbox[w])
        PROVE  Apart(t)'
    <3>1. UNCHANGED <<member, telling>>
      BY <2>3 DEF Rename
    <3> QED BY <2>2, <3>1 DEF Apart, Known, Untold
  <2>4. ASSUME NEW w \in Try, Rename(w), ~\E v \in Members \ {w} : member[v] = Head(outbox[w])
        PROVE  Apart(t)'
    <3>1. /\ w \in Members /\ telling[w] = Silent
          /\ member' = [member EXCEPT ![w] = Head(outbox[w])]
          /\ telling' = [telling EXCEPT ![w] = [old |-> member[w], new |-> Head(outbox[w]),
                                                copied |-> FALSE, to |-> {}]]
          /\ crossed' = crossed \cup {u \in {w} : Overtakes(u, Head(outbox[w]))}
                                \cup {u \in Try : Untold(u, u) /\ telling[u].old = member[w]}
      BY <2>4 DEF Rename
    <3>2. /\ telling'[w] = [old |-> member[w], new |-> Head(outbox[w]), copied |-> FALSE, to |-> {}]
          /\ \A u \in Try : u # w => telling'[u] = telling[u]
      BY <1>0, <3>1
    <3>3. \A u \in Try : u # w => (Untold(t, u)' <=> Untold(t, u))
      BY <3>2 DEF Untold
    <3>4. CASE w = t
      <4>1. member'[t] = Head(outbox[t]) /\ Known(t)' = member[t] /\ Known(t) = member[t]
        BY <2>1, <3>1, <3>2, <3>4 DEF Known, Untold, Silent, Members
      <4>2. \A u \in Try : Untold(t, u) => telling[u].old # Head(outbox[t])
        BY <3>1, <3>4 DEF Overtakes
      <4> QED BY <2>2, <3>2, <3>3, <3>4, <4>1, <4>2 DEF Apart
    <3>5. CASE w # t
      <4>1. member'[t] = member[t] /\ Known(t)' = Known(t)
        BY <1>0, <2>1, <3>1, <3>2, <3>5 DEF Known, Untold, Members
      <4>2. telling'[w].old = member[w] /\ member[w] # member[t]
        BY <1>0, <2>1, <3>1, <3>2, <3>5 DEF MembersUnique
      <4>3. member[w] # Known(t)
        BY <1>0, <3>1, <4>2 DEF Known
      <4> QED BY <2>2, <3>2, <3>3, <4>1, <4>2, <4>3 DEF Apart
    <3> QED BY <3>4, <3>5
  <2>5. CASE \A w \in Try : ~Rename(w)
    <3>1. member'[t] = member[t]
      <4>1. CASE UNCHANGED member
        BY <4>1
      <4>2. ASSUME NEW u \in Try, u \notin Members, \A v \in Members : member'[v] = member[v]
            PROVE  member'[t] = member[t]
        BY <2>1, <4>2
      <4>3. ASSUME NEW u \in Try, \A v \in Members' : member'[v] = member[v]
            PROVE  member'[t] = member[t]
        BY <4>3
      <4>4. \A u \in Members : ~Rename(u)
        BY <1>0, <2>5 DEF TypeInv, TypeOK
      <4> QED BY <1>0, <4>1, <4>2, <4>3, <4>4, MembersChange
    <3>2. \A u \in Try : Untold(t, u)' => Untold(t, u) /\ telling'[u].old = telling[u].old
      BY <2>1, <2>5, UntoldBefore
    <3> QED BY <1>0, <2>2, <3>1, <3>2, ApartStays
  <2> QED BY <2>3, <2>4, <2>5
<1> QED BY <1>1, <1>2

\* A login needs a session that has no connection.
LEMMA FreshLink ==
  ASSUME OwnInv, NEW t \in Try, NEW i \in Id, AuthSucceeds(t, i)
  PROVE  link[t] = "none"
BY DEF OwnInv, HashingNew, TypeInv, SessionsOwned, AuthSucceeds

\* A member leaves when its connection is closed or lost.
LEMMA StaysMember ==
  ASSUME MirrorInv, [Next]_vars, NEW t \in Members, link'[t] = "up"
  PROVE  t \in Members' /\ link[t] = "up"
<1>0. TypeInv /\ OwnInv /\ t \in Try /\ link \in [Try -> LinkState] /\ link[t] \in {"up", "closed"}
  BY DEF MirrorInv, OwnInv, TypeInv, TypeOK, MembersLinked
<1>1. link[t] = "up"
  BY <1>0, LinkMoves
<1>2. ~Drop(t) /\ ~BackendLost(t)
  <2>1. ~Drop(t)
    BY <1>1 DEF Drop
  <2>2. ASSUME BackendLost(t) PROVE FALSE
    <3>1. link' = [link EXCEPT ![t] = "lost"]
      BY <2>2 DEF BackendLost
    <3> QED BY <1>0, <3>1
  <2> QED BY <2>1, <2>2
<1>3. t \in Members'
  <2>1. CASE UNCHANGED member
    BY <2>1 DEF Members
  <2>2. CASE \E u \in Try : Admit(u) /\ u \notin Members /\ Members' = Members \cup {u}
    BY <2>2
  <2>3. CASE Members' = Members
    BY <2>3
  <2>4. CASE \E u \in Try : (Drop(u) \/ BackendLost(u)) /\ Members' = Members \ {u}
    BY <1>2, <2>4
  <2> QED BY <1>0, <2>1, <2>2, <2>3, <2>4, MembersChange
<1> QED BY <1>1, <1>3

\* Only what the server has admitted and the gateway has not hung up is served.
LEMMA InboxesOpenStep ==
  ASSUME MirrorInv, [Next]_vars
  PROVE  InboxesOpen'
<1> SUFFICES ASSUME NEW t \in Try, inbox'[t] # <<>>
             PROVE  link'[t] = "lost" \/ (link'[t] = "up" /\ t \in Members')
  BY DEF InboxesOpen
<1>0. TypeInv /\ OwnInv
  BY DEF MirrorInv, OwnInv
<1>1. CASE inbox[t] # <<>>
  <2>1. link[t] = "lost" \/ (link[t] = "up" /\ t \in Members)
    BY <1>1 DEF MirrorInv, InboxesOpen
  <2>2. link'[t] = "lost" \/ (link'[t] = "up" /\ link[t] = "up")
    BY <1>0, <1>1, <2>1, FreshLink, LinkMoves
  <2> QED BY <2>1, <2>2, StaysMember
<1>2. CASE inbox[t] = <<>>
  <2>1. PICK e : link[t] = "up" /\ Sent(t, e)
    BY <1>0, <1>2, InboxMoves
  <2>2. CASE Admit(t) /\ t \in Members'
    BY <2>1, <2>2 DEF Admit
  <2>3. CASE Rename(t) /\ UNCHANGED member
    BY <2>1, <2>3 DEF Rename, Members
  <2>4. CASE \E u \in Try : Tell(u, t)
    <3>1. PICK u \in Try : t \in telling[u].to /\ UNCHANGED <<link, member>>
      BY <2>4 DEF Tell
    <3>2. telling[u] # Silent
      BY <3>1 DEF Silent
    <3>3. t \in Members
      BY <3>1, <3>2 DEF MirrorInv, TellingsFit
    <3> QED BY <2>1, <3>1, <3>3 DEF Members
  <2> QED BY <2>1, <2>2, <2>3, <2>4 DEF Sent
<1> QED BY <1>1, <1>2

\* The server admits connections that are up, and drops those it loses.
LEMMA MembersLinkedStep ==
  ASSUME MirrorInv, [Next]_vars
  PROVE  MembersLinked'
<1> SUFFICES ASSUME NEW t \in Members' PROVE link'[t] \in {"up", "closed"}
  BY DEF MembersLinked
<1>0. TypeInv /\ OwnInv /\ TypeInv' /\ link \in [Try -> LinkState]
  BY TypesStep DEF MirrorInv, OwnInv, TypeInv, TypeOK
<1>1. t \in Try
  BY <1>0 DEF TypeInv, TypeOK, Members
<1>2. CASE t \in Members
  <2>1. link[t] \in {"up", "closed"}
    BY <1>2 DEF MirrorInv, MembersLinked
  <2>2. ~BackendLost(t)
    <3>1. BackendLost(t) => t \notin Members'
      BY DEF BackendLost, Without, Members
    <3> QED BY <3>1
  <2> QED BY <1>0, <1>1, <2>1, <2>2, FreshLink, LinkMoves
<1>3. CASE t \notin Members
  <2>1. Admit(t)
    <3>1. PICK u \in Try : Admit(u) /\ Members' = Members \cup {u}
      BY <1>0, <1>3, MembersChange DEF Members
    <3> QED BY <1>3, <3>1
  <2> QED BY <2>1 DEF Admit
<1> QED BY <1>2, <1>3

\* A session's nickname changes when its connection emits WELCOME or NICK.
LEMMA NicknameKept ==
  ASSUME OwnInv, [Next]_vars, NEW t \in Try, link[t] = "up", ~OnWelcome(t),
         ~(OnNick(t) /\ Renamed(t[1], Head(inbox[t])))
  PROVE  sess'[t[1]].nickname = sess[t[1]].nickname
<1>0. TypeInv /\ t[1] \in Session /\ sess[t[1]].backend = t
  BY TrySession DEF OwnInv, LinksOwned
<1>1. ASSUME NEW u \in Try, u[1] = t[1], OnWelcome(u) \/ OnNick(u)
      PROVE  u = t
  BY <1>0, <1>1 DEF OnWelcome, OnNick, Emitted, OwnInv, LinksOwned
<1> QED BY <1>0, <1>1, SessionMoves DEF SameSession, LogsIn, Shuts

\* What a session has been told of, and is being told, adds up to its name.
LEMMA FollowsTaken ==
  ASSUME MirrorInv, [Next]_vars, NEW t \in Members, t \notin crossed, link[t] = "up",
         OnWelcome(t) \/ OnNick(t) \/ OnErr(t)
  PROVE  Leads(inbox'[t], sess'[t[1]].nickname, Known(t)')
<1>0. /\ OwnInv /\ TypeInv /\ t \in Try /\ t[1] \in Session /\ inbox \in [Try -> Seq(EventRecord)]
      /\ sess[t[1]] \in SessionRecord
  BY TrySession DEF MirrorInv, OwnInv, TypeInv, TypeOK
<1>1. inbox[t] # <<>> /\ inbox' = [inbox EXCEPT ![t] = Tail(@)] /\ UNCHANGED <<member, telling>>
  BY DEF OnWelcome, OnNick, OnErr, Emitted
<1>2. PICK q \in Seq(EventRecord) : q = inbox[t]
  BY <1>0
<1>3. PICK n \in AnyName : n = sess[t[1]].nickname
  BY <1>0 DEF SessionRecord, AnyName
<1>4. PICK m : m = Known(t)
  OBVIOUS
<1>5. q # <<>> /\ inbox'[t] = Tail(q) /\ Known(t)' = m /\ Leads(q, n, m)
  BY <1>0, <1>1, <1>2, <1>3, <1>4 DEF Known, Untold, MirrorInv, NicknamesFollow
<1>6. Leads(Tail(q), Heard(n, Head(q)), m)
  BY <1>5, LeadsTail
<1>7. sess'[t[1]].nickname = Heard(n, Head(q))
  <2>1. CASE OnWelcome(t)
    <3>1. Head(q).type = "welcome"
      BY <1>2, <2>1 DEF OnWelcome, Emitted
    <3>2. sess'[t[1]].nickname = Head(q).new
      BY <1>0, <1>2, <2>1, OnWelcomeMoves DEF Welcomes
    <3> QED BY <3>1, <3>2 DEF Heard
  <2>2. CASE OnNick(t)
    <3>1. Head(q).type = "nick"
      BY <1>2, <2>2 DEF OnNick, Emitted
    <3>2. \/ sess'[t[1]] = sess[t[1]] /\ ~Renamed(t[1], Head(inbox[t]))
          \/ Renamed(t[1], Head(inbox[t])) /\ Follows(Head(inbox[t]).new, sess[t[1]], sess'[t[1]])
      BY <1>0, <2>2, OnNickMoves
    <3> QED BY <1>2, <1>3, <3>1, <3>2 DEF Heard, Renamed, Follows
  <2>3. CASE OnErr(t)
    <3>1. Head(q).type = "err" /\ UNCHANGED sess
      BY <1>2, <2>3 DEF OnErr, Emitted
    <3> QED BY <1>3, <3>1 DEF Heard
  <2> QED BY <2>1, <2>2, <2>3
<1> QED BY <1>5, <1>6, <1>7

\* A broadcast that has reached u, or that u misses, tells t as before.
LEMMA KnownTold ==
  ASSUME MirrorInv, NEW t \in Members, NEW u \in Try, u # t, member'[t] = member[t],
         ToldOf(u, telling[t], telling'[t])
  PROVE  Known(t)' = Known(t)
<1>0. t \in Try /\ TellingType /\ telling[t] \in Telling
  BY DEF MirrorInv, OwnInv, TypeInv, TypeOK, TellingType
<1>1. CASE telling'[t] # Silent
  <2>1. /\ telling[t] # Silent /\ telling'[t].old = telling[t].old
        /\ telling'[t].copied = telling[t].copied /\ telling'[t].to = telling[t].to \ {u}
    BY <1>0, <1>1, ToldFits DEF MirrorInv
  <2> QED BY <1>1, <2>1 DEF Known, Untold
<1>2. CASE telling'[t] = Silent
  <2>1. ~Untold(t, t)'
    BY <1>2 DEF Untold, Silent
  <2>2. ~Untold(t, t)
    <3>1. CASE telling[t].to = {u}
      <4>1. telling[t].copied
        BY <1>0, <3>1 DEF MirrorInv, TellingsFit, Silent
      <4> QED BY <3>1, <4>1 DEF Untold
    <3>2. CASE telling[t].to # {u}
      <4>1. telling'[t] = [telling[t] EXCEPT !.to = @ \ {u}]
        BY <3>2 DEF ToldOf
      <4>2. telling'[t].copied = telling[t].copied /\ telling'[t].to = telling[t].to \ {u}
        BY <1>0, <4>1 DEF Telling
      <4>3. telling'[t].copied = TRUE /\ telling'[t].to = {}
        BY <1>2 DEF Silent
      <4>4. telling[t].copied = TRUE
        BY <4>2, <4>3
      <4>5. t \notin telling[t].to
        BY <4>2, <4>3
      <4> QED BY <4>4, <4>5 DEF Untold
    <3> QED BY <3>1, <3>2
  <2> QED BY <2>1, <2>2 DEF Known
<1> QED BY <1>1, <1>2

\* broadcast() of NICK: t hears of its own rename, or of another's.
LEMMA FollowsTold ==
  ASSUME MirrorInv, NEW w \in Try, NEW u \in Try, Tell(w, u), NEW t \in Members,
         t \notin crossed, link[t] = "up"
  PROVE  Leads(inbox'[t], sess[t[1]].nickname, Known(t)')
<1>0. /\ t \in Try /\ inbox \in [Try -> Seq(EventRecord)] /\ telling \in [Try -> Telling]
  BY DEF MirrorInv, OwnInv, TypeInv, TypeOK
<1>1. /\ u \in telling[w].to /\ UNCHANGED member
      /\ inbox' = Deliver(u, Event("nick", telling[w].old, telling[w].new))
      /\ telling' = [telling EXCEPT ![w] = IF telling[w].to \ {u} = {} THEN Silent
                                           ELSE [@ EXCEPT !.to = telling[w].to \ {u}]]
  BY DEF Tell
<1>2. telling[w] # Silent
  BY <1>1 DEF Silent
<1>3. w \in Members /\ telling[w].new = member[w] /\ telling[w].copied
  BY <1>1, <1>2 DEF MirrorInv, TellingsFit
<1>4. PICK q \in Seq(EventRecord) : q = inbox[t]
  BY <1>0
<1>5. PICK n : n = sess[t[1]].nickname
  OBVIOUS
<1>6. PICK m : m = Known(t)
  OBVIOUS
<1>7. Leads(q, n, m)
  BY <1>4, <1>5, <1>6 DEF MirrorInv, NicknamesFollow
<1>8. PICK e \in EventRecord : e = Event("nick", telling[w].old, telling[w].new)
  BY <1>0 DEF Event, EventRecord, Telling
<1>9. e.type = "nick" /\ e.old = telling[w].old /\ e.new = telling[w].new
  BY <1>8 DEF Event
<1>10. CASE w = t
  <2>1. m = (IF t \in telling[t].to THEN telling[t].old ELSE member[t])
    BY <1>2, <1>3, <1>6, <1>10 DEF Known, Untold
  <2>2. /\ telling[t].to \ {u} = {} => telling'[t] = Silent
        /\ telling[t].to \ {u} # {} =>
             telling'[t] = [telling[t] EXCEPT !.to = telling[t].to \ {u}]
    BY <1>0, <1>1, <1>10
  <2>3. Known(t)' = IF t \in telling[t].to \ {u} THEN telling[t].old ELSE member[t]
    <3>1. CASE telling[t].to \ {u} = {}
      <4>1. t \notin telling[t].to \ {u} /\ telling'[t] = Silent
        BY <2>2, <3>1
      <4> QED BY <1>1, <4>1 DEF Known, Untold, Silent
    <3>2. CASE telling[t].to \ {u} # {}
      <4>1. /\ telling'[t].old = telling[t].old /\ telling'[t].copied = telling[t].copied
            /\ telling'[t].to = telling[t].to \ {u}
        BY <1>0, <2>2, <3>2 DEF Telling
      <4>2. telling'[t] # Silent
        BY <3>2, <4>1 DEF Silent
      <4> QED BY <1>1, <1>3, <1>10, <4>1, <4>2 DEF Known, Untold
    <3> QED BY <3>1, <3>2
  <2>4. CASE u = t
    <3>1. inbox'[t] = Append(q, e)
      BY <1>0, <1>1, <1>4, <1>8, <2>4 DEF Deliver
    <3>2. m = e.old /\ Known(t)' = e.new
      BY <1>1, <1>3, <1>9, <1>10, <2>1, <2>3, <2>4
    <3>3. Heard(m, e) = e.new
      BY <1>9, <3>2 DEF Heard
    <3>4. Leads(Append(q, e), n, Heard(m, e))
      BY <1>7, LeadsAppend
    <3> QED BY <1>5, <3>1, <3>2, <3>3, <3>4
  <2>5. CASE u # t
    <3>1. inbox'[t] = q /\ Known(t)' = m
      BY <1>0, <1>1, <1>4, <2>1, <2>3, <2>5 DEF Deliver
    <3> QED BY <1>5, <1>7, <3>1
  <2> QED BY <2>4, <2>5
<1>11. CASE w # t
  <2>1. telling'[t] = telling[t] /\ member'[t] = member[t]
    BY <1>0, <1>1, <1>11
  <2>2. Known(t)' = m
    BY <1>6, <2>1 DEF Known, Untold
  <2>3. CASE u = t
    <3>1. e.old # m
      BY <1>0, <1>1, <1>6, <1>9, <1>11, <2>3 DEF MirrorInv, NamesApart, Apart, Untold
    <3>2. Leads(Append(q, e), n, m)
      BY <1>7, <1>9, <3>1, LeadsOther
    <3>3. inbox'[t] = q \/ inbox'[t] = Append(q, e)
      BY <1>0, <1>1, <1>4, <1>8 DEF Deliver
    <3> QED BY <1>5, <1>7, <2>2, <3>2, <3>3
  <2>4. CASE u # t
    <3>1. inbox'[t] = q
      BY <1>0, <1>1, <1>4, <2>4 DEF Deliver
    <3> QED BY <1>5, <1>7, <2>2, <3>1
  <2> QED BY <2>3, <2>4
<1> QED BY <1>10, <1>11

\* handle_nick: a name that is taken changes nothing, one that is free is
\* still to be told.
LEMMA FollowsRenamed ==
  ASSUME MirrorInv, NEW w \in Try, Rename(w), NEW t \in Members, t \notin crossed, link[t] = "up"
  PROVE  Leads(inbox'[t], sess[t[1]].nickname, Known(t)')
<1>0. /\ t \in Try /\ inbox \in [Try -> Seq(EventRecord)] /\ telling \in [Try -> Telling]
      /\ telling[w] = Silent
  BY DEF MirrorInv, OwnInv, TypeInv, TypeOK, Rename
<1>1. PICK q \in Seq(EventRecord) : q = inbox[t]
  BY <1>0
<1>2. PICK n : n = sess[t[1]].nickname
  OBVIOUS
<1>3. PICK m : m = Known(t)
  OBVIOUS
<1>4. Leads(q, n, m)
  BY <1>0, <1>1, <1>2, <1>3 DEF MirrorInv, NicknamesFollow
<1>5. CASE \E v \in Members \ {w} : member[v] = Head(outbox[w])
  <2>1. UNCHANGED <<member, telling>> /\ inbox' = Deliver(w, Event("err", NoName, NoName))
    BY <1>5 DEF Rename
  <2>2. PICK e \in EventRecord : e = Event("err", NoName, NoName)
    BY DEF Event, EventRecord
  <2>3. Leads(Append(q, e), n, m)
    <3>1. e.type = "err"
      BY <2>2 DEF Event
    <3> QED BY <1>4, <3>1, LeadsOther
  <2>4. inbox'[t] = q \/ inbox'[t] = Append(q, e)
    BY <1>0, <1>1, <2>1, <2>2 DEF Deliver
  <2>5. Known(t)' = m
    BY <1>0, <1>3, <2>1 DEF Known, Untold
  <2> QED BY <1>2, <1>4, <2>3, <2>4, <2>5
<1>6. CASE ~\E v \in Members \ {w} : member[v] = Head(outbox[w])
  <2>1. /\ w \in Members /\ member' = [member EXCEPT ![w] = Head(outbox[w])] /\ UNCHANGED inbox
        /\ telling' = [telling EXCEPT ![w] = [old |-> member[w], new |-> Head(outbox[w]),
                                              copied |-> FALSE, to |-> {}]]
    BY <1>6 DEF Rename
  <2>2. CASE w = t
    <3>1. telling'[t] = [old |-> member[t], new |-> Head(outbox[t]), copied |-> FALSE, to |-> {}]
      BY <1>0, <2>1, <2>2
    <3>2. Known(t)' = m
      BY <1>0, <1>3, <2>2, <3>1 DEF Known, Untold, Silent
    <3> QED BY <1>1, <1>2, <1>4, <2>1, <3>2
  <2>3. CASE w # t
    <3>1. telling'[t] = telling[t] /\ member'[t] = member[t]
      BY <1>0, <2>1, <2>3 DEF Members
    <3>2. Known(t)' = m
      BY <1>3, <3>1 DEF Known, Untold
    <3> QED BY <1>1, <1>2, <1>4, <2>1, <3>2
  <2> QED BY <2>2, <2>3
<1> QED BY <1>5, <1>6

\* accept_one: the first thing a connection hears is the name it is given.
LEMMA FollowsAdmitted ==
  ASSUME MirrorInv, NEW w \in Try, Admit(w), NEW t \in Members', t \notin crossed, link[t] = "up"
  PROVE  Leads(inbox'[t], sess[t[1]].nickname, Known(t)')
<1>0. /\ inbox \in [Try -> Seq(EventRecord)] /\ telling \in [Try -> Telling]
      /\ sess \in [Session -> SessionRecord] /\ Members \subseteq Try /\ TellingsFit
  BY DEF MirrorInv, OwnInv, TypeInv, TypeOK
<1>1. PICK k \in DOMAIN DefaultName :
        /\ member' = [v \in Members \cup {w} |-> IF v = w THEN DefaultName[k] ELSE member[v]]
        /\ inbox' = Deliver(w, Event("welcome", NoName, DefaultName[k]))
  BY DEF Admit
<1>2. link[w] = "up" /\ w \notin Members /\ UNCHANGED telling
  BY DEF Admit
<1>3. t \in Try /\ (t = w \/ t \in Members)
  BY <1>0, <1>1 DEF Members
<1>4. CASE t = w
  <2>1. inbox[t] = <<>>
    BY <1>2, <1>3, <1>4 DEF MirrorInv, InboxesOpen
  <2>2. PICK e \in EventRecord : e = Event("welcome", NoName, DefaultName[k])
    <3>1. DefaultName[k] \in Name
      BY GatewayConstants
    <3> QED BY <3>1 DEF Event, EventRecord
  <2>3. e.type = "welcome" /\ e.new = DefaultName[k]
    BY <2>2 DEF Event
  <2>4. inbox'[t] = Append(<<>>, e)
    BY <1>0, <1>1, <1>2, <1>3, <1>4, <2>1, <2>2 DEF Deliver
  <2>5. Known(t)' = e.new
    <3>1. telling'[t] = Silent /\ member'[t] = e.new
      BY <1>0, <1>1, <1>2, <1>3, <1>4, <2>3 DEF TellingsFit
    <3> QED BY <3>1 DEF Known, Untold, Silent
  <2>6. PICK n \in AnyName : n = sess[t[1]].nickname
    BY <1>0, <1>3, TrySession DEF AnyName, SessionRecord
  <2>7. Leads(Append(<<>>, e), n, e.new)
    BY <2>3, LeadsFirst
  <2> QED BY <2>4, <2>5, <2>6, <2>7
<1>5. CASE t # w
  <2>1. inbox'[t] = inbox[t] /\ member'[t] = member[t] /\ t \in Members
    BY <1>0, <1>1, <1>3, <1>5 DEF Deliver
  <2>2. Known(t)' = Known(t)
    BY <1>2, <2>1 DEF Known, Untold
  <2>3. Leads(inbox[t], sess[t[1]].nickname, Known(t))
    BY <2>1 DEF MirrorInv, NicknamesFollow
  <2> QED BY <2>1, <2>2, <2>3
<1> QED BY <1>4, <1>5

\* Whatever happens, a session ends up with the name its connection was given.
LEMMA NicknamesFollowStep ==
  ASSUME MirrorInv, [Next]_vars
  PROVE  NicknamesFollow'
<1> SUFFICES ASSUME NEW t \in Members', t \notin crossed', link'[t] = "up"
             PROVE  Leads(inbox'[t], sess'[t[1]].nickname, Known(t)')
  BY DEF NicknamesFollow
<1>0. /\ OwnInv /\ TypeInv /\ TypeInv' /\ t \in Try /\ t \notin crossed
      /\ link \in [Try -> LinkState] /\ inbox \in [Try -> Seq(EventRecord)]
  BY TypesStep, CrossedStays DEF MirrorInv, OwnInv, TypeInv, TypeOK
<1>1. CASE \E w \in Try : Admit(w)
  <2>1. UNCHANGED <<sess, link>>
    BY <1>1 DEF Admit
  <2> QED BY <1>0, <1>1, <2>1, FollowsAdmitted
<1>2. CASE ~\E w \in Try : Admit(w)
  <2>1. t \in Members
    BY <1>0, <1>2, MembersChange DEF Members
  <2>2. link[t] = "up"
    BY <2>1, StaysMember
  <2>3. CASE OnWelcome(t) \/ OnNick(t) \/ OnErr(t)
    BY <1>0, <2>1, <2>2, <2>3, FollowsTaken
  <2>4. CASE ~OnWelcome(t) /\ ~OnNick(t) /\ ~OnErr(t)
    <3>1. sess'[t[1]].nickname = sess[t[1]].nickname
      BY <1>0, <2>2, <2>4, NicknameKept
    <3>2. CASE \E w \in Try : Rename(w)
      BY <1>0, <2>1, <2>2, <3>1, <3>2, FollowsRenamed
    <3>3. CASE \E w \in Try, u \in Try : Tell(w, u)
      BY <1>0, <2>1, <2>2, <3>1, <3>3, FollowsTold
    <3>4. ASSUME inbox'[t] = inbox[t], Known(t)' = Known(t)
          PROVE  Leads(inbox'[t], sess'[t[1]].nickname, Known(t)')
      BY <1>0, <2>1, <2>2, <3>1, <3>4 DEF MirrorInv, NicknamesFollow
    <3>5. ASSUME NEW w \in Try, CopyTargets(w)
          PROVE  inbox'[t] = inbox[t] /\ Known(t)' = Known(t)
      <4>1. /\ ~telling[w].copied /\ UNCHANGED <<member, inbox>>
            /\ telling' = [telling EXCEPT ![w] = [@ EXCEPT !.copied = TRUE, !.to = Members]]
        BY <3>5 DEF CopyTargets
      <4>2. telling \in [Try -> Telling] /\ telling[w] # Silent
        BY <1>0, <4>1 DEF TypeInv, TypeOK, Silent
      <4>3. CASE w = t
        <5>1. telling'[t].old = telling[t].old /\ telling'[t].copied /\ telling'[t].to = Members
          BY <1>0, <4>1, <4>2, <4>3 DEF Telling
        <5>2. telling'[t] # Silent
          BY <2>1, <5>1 DEF Silent
        <5> QED BY <2>1, <4>1, <4>2, <4>3, <5>1, <5>2 DEF Known, Untold
      <4>4. CASE w # t
        <5>1. telling'[t] = telling[t]
          BY <1>0, <4>1, <4>2, <4>4
        <5>2. Untold(t, t)' = Untold(t, t)
          BY <5>1 DEF Untold
        <5>3. Known(t)' = Known(t)
          BY <4>1, <5>1, <5>2 DEF Known
        <5> QED BY <4>1, <5>3
      <4> QED BY <4>3, <4>4
    <3>6. ASSUME NEW w \in Try, Drop(w) \/ BackendLost(w)
          PROVE  inbox'[t] = inbox[t] /\ Known(t)' = Known(t)
      <4>1. /\ UNCHANGED inbox /\ member' = Without(w)
            /\ telling' = [u \in Try |-> IF telling[u].to = {w} THEN Silent
                                         ELSE [telling[u] EXCEPT !.to = @ \ {w}]]
        BY <3>6 DEF Drop, BackendLost
      <4>2. t # w /\ member'[t] = member[t]
        BY <2>1, <4>1 DEF Without, Members
      <4>3. ToldOf(w, telling[t], telling'[t])
        BY <1>0, <4>1, Zenon DEF ToldOf
      <4> QED BY <2>1, <4>1, <4>2, <4>3, KnownTold
    <3>7. ASSUME UNCHANGED <<member, telling>>
          PROVE  Known(t)' = Known(t)
      BY <3>7 DEF Known, Untold
    <3>8. ASSUME NEW s \in Session,
                 \/ Connect(s) \/ RequestState(s) \/ SetPresence(s) \/ Logout(s) \/ WsClosed(s)
                 \/ \E n \in Typed : SetNickname(s, n)
          PROVE  UNCHANGED <<member, telling>>
      BY <3>8 DEF Connect, RequestState, SetPresence, Logout, WsClosed, SetNickname
    <3>9. ASSUME NEW u \in Try,
                 \/ \E kind \in {"register", "login"}, n \in Name : Auth(u, kind, n)
                 \/ AuthFails(u) \/ (\E i \in Id : AuthSucceeds(u, i)) \/ ConnectOk(u)
                 \/ ConnectFails(u) \/ OnWelcome(u) \/ OnNick(u) \/ OnErr(u) \/ OnBackendClosed(u)
          PROVE  UNCHANGED <<member, telling>>
      BY <3>9 DEF Auth, AuthFails, AuthSucceeds, ConnectOk, ConnectFails, OnWelcome, OnNick, OnErr,
         OnBackendClosed
    <3>10. CASE \A w, u \in Try : ~Rename(w) /\ ~Tell(w, u)
      <4>1. inbox'[t] = inbox[t]
        <5>1. ~(inbox'[t] = <<>> /\ link'[t] = "closed")
          OBVIOUS
        <5>2. ~\E e : Sent(t, e)
          BY <1>0, <1>2, <3>10 DEF Sent
        <5> QED BY <1>0, <2>4, <5>1, <5>2, InboxMoves
      <4>2. CASE UNCHANGED vars
        BY <3>4, <3>7, <4>1, <4>2 DEF vars
      <4> QED BY <1>2, <3>4, <3>5, <3>6, <3>7, <3>8, <3>9, <3>10, <4>1, <4>2, Steps
    <3> QED BY <3>2, <3>3, <3>10
  <2> QED BY <2>3, <2>4
<1> QED BY <1>1, <1>2

\* A session that nobody has opened follows nobody.
LEMMA MirrorInit == Init => MirrorInv
<1> SUFFICES ASSUME Init PROVE MirrorInv
  OBVIOUS
<1>1. OwnInv
  BY OwnInit
<1>2. Members = {}
  BY DEF Init, Members
<1>3. \A t \in Try : telling[t] = Silent /\ inbox[t] = <<>>
  BY DEF Init
<1>4. TellingsFit
  BY <1>3 DEF TellingsFit
<1>5. MembersUnique /\ MembersLinked /\ NamesApart /\ NicknamesFollow
  BY <1>2 DEF MembersUnique, MembersLinked, NamesApart, NicknamesFollow
<1>6. InboxesOpen
  BY <1>3 DEF InboxesOpen
<1> QED BY <1>1, <1>4, <1>5, <1>6 DEF MirrorInv

\* Nothing that happens loses a session's nickname.
LEMMA MirrorStep ==
  ASSUME MirrorInv, "doubleLogin" \notin Faults, [Next]_vars
  PROVE  MirrorInv'
<1>1. OwnInv'
  BY OwnStep DEF MirrorInv
<1>2. TellingsFit' /\ MembersUnique'
  BY TellingsFitStep, MembersUniqueStep
<1>3. InboxesOpen' /\ MembersLinked'
  BY InboxesOpenStep, MembersLinkedStep
<1>4. NamesApart' /\ NicknamesFollow'
  BY NamesApartStep, NicknamesFollowStep
<1> QED BY <1>1, <1>2, <1>3, <1>4 DEF MirrorInv

\* Nothing is under way for a settled connection, so what its session bears is
\* what the server calls it.
LEMMA MirrorSettled == MirrorInv => NicknameMirrored
<1> SUFFICES ASSUME MirrorInv, NEW s \in Session, sess[s].backend # NoTry,
                    sess[s].backend \notin crossed, Settled(sess[s].backend)
             PROVE  sess[s].nickname = member[sess[s].backend]
  BY DEF NicknameMirrored
<1>1. PICK t : t = sess[s].backend
  OBVIOUS
<1>2. t \in Members /\ t \notin crossed /\ link[t] = "up" /\ inbox[t] = <<>> /\ ~Untold(t, t)
  <2>1. t \in Members /\ link[t] = "up" /\ inbox[t] = <<>> /\ \A u \in Try : ~Untold(t, u)
    BY <1>1 DEF Settled
  <2>2. t \in Try
    BY <2>1 DEF MirrorInv, OwnInv, TypeInv, TypeOK
  <2> QED BY <1>1, <2>1, <2>2
<1>3. t[1] = s
  BY <1>1 DEF MirrorInv, OwnInv, TypeInv, SessionsOwned
<1>4. Leads(inbox[t], sess[t[1]].nickname, Known(t))
  BY <1>2 DEF MirrorInv, NicknamesFollow
<1>5. Known(t) = member[t]
  BY <1>2 DEF Known
<1>6. PICK n : n = sess[s].nickname
  OBVIOUS
<1>7. PICK m : m = member[t]
  OBVIOUS
<1>8. Leads(<<>>, n, m)
  BY <1>2, <1>3, <1>4, <1>5, <1>6, <1>7
<1> QED BY <1>1, <1>6, <1>7, <1>8, LeadsNow

\* Once all that was sent has come in, a session's nickname is the one its own
\* connection has, for any number of browsers and of renames under way at once,
\* unless its connection has borne a name that another's NICK, not there yet,
\* gives up.  Sessions do not log in twice at once (gatewayServer.ts:373-398,
\* Server.cpp:300-320).
THEOREM NicknamesMirrored ==
  ASSUME "doubleLogin" \notin Faults
  PROVE  Spec => []NicknameMirrored
<1>1. Init => MirrorInv
  BY MirrorInit
<1>2. MirrorInv /\ [Next]_vars => MirrorInv'
  BY MirrorStep
<1>3. MirrorInv => NicknameMirrored
  BY MirrorSettled
<1> QED BY <1>1, <1>2, <1>3, PTL DEF Spec

----------------------------------------------------------------------------
(* The name a browser is told at its login.                                *)

\* Event e decides the login of a session that bears n: it is renamed, or refused.
Turns(n, e) == e.type = "err" \/ (e.type = "nick" /\ e.old = n)

\* No event in q decides it.
Quiet(q, n) == \A k \in 1 .. Len(q) : ~Turns(n, q[k])

\* The first one in q that does gives the name d, or refuses.
Answered(q, n, d) ==
  \E k \in 1 .. Len(q) : /\ Turns(n, q[k])
                         /\ q[k].type = "err" \/ q[k].new = d
                         /\ \A j \in 1 .. (k - 1) : ~Turns(n, q[j])

\* The server still calls connection t n, and its next line claims d; or it has
\* claimed d, and is still to be told.
Asking(t, n, d) ==
  \/ telling[t] = Silent /\ member[t] = n /\ outbox[t] # <<>> /\ Head(outbox[t]) = d
  \/ Untold(t, t) /\ telling[t].old = n /\ telling[t].new = d

\* What decides the login over connection t gives the name d, or refuses.
Claimed(t, n, d) ==
  \/ Answered(inbox[t], n, d)
  \/ Quiet(inbox[t], n) /\ (t \in Members => Asking(t, n, d))

\* Connection t emits events.
Wired(t) == link[t] \in {"up", "lost"}

\* Nothing is sent before WELCOME, and none comes before the connection is made.
SilentBefore ==
  /\ \A t \in Try : ~sess[t[1]].welcomed => outbox[t] = <<>>
  /\ \A t \in Try : link[t] = "connecting" => ~sess[t[1]].welcomed

\* WELCOME is the first event, of whoever the server has admitted, and none
\* after it is about the name it gives, unless the connection is crossed.
Greeting(t) ==
  /\ telling[t] = Silent
  /\ t \in Members => inbox[t] # <<>> /\ member[t] = Head(inbox[t]).new
  /\ inbox[t] # <<>> =>
       /\ Head(inbox[t]).type = "welcome"
       /\ \A k \in 2 .. Len(inbox[t]) :
            /\ inbox[t][k].type # "welcome"
            /\ t \notin crossed => ~Turns(Head(inbox[t]).new, inbox[t][k])

WelcomeAhead == \A t \in Try : Wired(t) /\ ~sess[t[1]].welcomed => Greeting(t)

\* It comes once.
WelcomeOnce ==
  \A t \in Try : Wired(t) /\ sess[t[1]].welcomed =>
    /\ link[t] = "up" => t \in Members
    /\ \A k \in 1 .. Len(inbox[t]) : inbox[t][k].type # "welcome"

\* A session that is not ready wants the name it logged in with.
WantsItsName ==
  \A s \in Session : sess[s].authenticated /\ ~sess[s].ready =>
    sess[s].backend \in Try /\ sess[s].desired = try[sess[s].backend].name

\* And what is under way on a connection that is not crossed gives it that name,
\* or ends the login.
NameUnderWay ==
  \A t \in Try :
    t \notin crossed /\ ~crashed /\ Wired(t) /\ Hears(t[1]) /\ sess[t[1]].welcomed /\ ~sess[t[1]].ready
      => Claimed(t, sess[t[1]].nickname, sess[t[1]].desired)

ClaimInv ==
  /\ MirrorInv
  /\ NotYet
  /\ SilentBefore
  /\ WelcomeAhead
  /\ WelcomeOnce
  /\ WantsItsName
  /\ NameUnderWay

\* The event at the head does not decide: the others do.
LEMMA QuietTail ==
  ASSUME NEW q \in Seq(EventRecord), q # <<>>, NEW n, Quiet(q, n)
  PROVE  Quiet(Tail(q), n) /\ ~Turns(n, Head(q))
BY QueueTail DEF Quiet

LEMMA AnsweredTail ==
  ASSUME NEW q \in Seq(EventRecord), q # <<>>, NEW n, NEW d, Answered(q, n, d)
  PROVE  \/ Turns(n, Head(q)) /\ (Head(q).type = "err" \/ Head(q).new = d)
         \/ ~Turns(n, Head(q)) /\ Answered(Tail(q), n, d)
<1>1. PICK k \in 1 .. Len(q) : /\ Turns(n, q[k])
                               /\ q[k].type = "err" \/ q[k].new = d
                               /\ \A j \in 1 .. (k - 1) : ~Turns(n, q[j])
  BY DEF Answered
<1>2. /\ Len(q) \in Nat /\ Len(Tail(q)) = Len(q) - 1 /\ Head(q) = q[1]
      /\ \A j \in 1 .. Len(Tail(q)) : Tail(q)[j] = q[j + 1]
  BY QueueTail
<1>3. CASE k = 1
  BY <1>1, <1>2, <1>3
<1>4. CASE k # 1
  <2>1. k - 1 \in 1 .. Len(Tail(q)) /\ Tail(q)[k - 1] = q[k]
    BY <1>2, <1>4
  <2>2. ~Turns(n, Head(q))
    BY <1>1, <1>2, <1>4
  <2>3. ASSUME NEW j \in 1 .. ((k - 1) - 1) PROVE ~Turns(n, Tail(q)[j])
    <3>1. j \in 1 .. Len(Tail(q)) /\ j + 1 \in 1 .. (k - 1)
      BY <2>1
    <3>2. Tail(q)[j] = q[j + 1]
      BY <1>2, <3>1
    <3> QED BY <1>1, <3>1, <3>2
  <2> QED BY <1>1, <2>1, <2>2, <2>3 DEF Answered
<1> QED BY <1>3, <1>4

\* What comes later does not change what was decided.
LEMMA AnsweredStays ==
  ASSUME NEW q \in Seq(EventRecord), NEW e \in EventRecord, NEW n, NEW d, Answered(q, n, d)
  PROVE  Answered(Append(q, e), n, d)
<1>1. PICK k \in 1 .. Len(q) : /\ Turns(n, q[k])
                               /\ q[k].type = "err" \/ q[k].new = d
                               /\ \A j \in 1 .. (k - 1) : ~Turns(n, q[j])
  BY DEF Answered
<1>2. /\ Len(q) \in Nat /\ Len(Append(q, e)) = Len(q) + 1
      /\ \A j \in 1 .. Len(q) : Append(q, e)[j] = q[j]
  BY QueueAppend
<1>3. k \in 1 .. Len(Append(q, e)) /\ Append(q, e)[k] = q[k]
  BY <1>2
<1>4. \A j \in 1 .. (k - 1) : Append(q, e)[j] = q[j]
  BY <1>2
<1> QED BY <1>1, <1>3, <1>4 DEF Answered

\* An event that does not decide leaves it open, one that does decides it.
LEMMA QuietAppend ==
  ASSUME NEW q \in Seq(EventRecord), NEW e \in EventRecord, NEW n, NEW d, Quiet(q, n)
  PROVE  /\ ~Turns(n, e) => Quiet(Append(q, e), n)
         /\ Turns(n, e) /\ (e.type = "err" \/ e.new = d) => Answered(Append(q, e), n, d)
<1>1. /\ Len(q) \in Nat /\ Len(Append(q, e)) = Len(q) + 1
      /\ \A j \in 1 .. Len(q) : Append(q, e)[j] = q[j]
      /\ Append(q, e)[Len(q) + 1] = e
  BY QueueAppend
<1>2. ~Turns(n, e) => Quiet(Append(q, e), n)
  BY <1>1 DEF Quiet
<1>3. \A j \in 1 .. ((Len(q) + 1) - 1) : ~Turns(n, Append(q, e)[j])
  BY <1>1 DEF Quiet
<1>4. Len(q) + 1 \in 1 .. Len(Append(q, e))
  BY <1>1
<1> QED BY <1>1, <1>2, <1>3, <1>4 DEF Answered

\* Nothing happens after the process has ended.
LEMMA AliveBefore ==
  ASSUME [Next]_vars, ~crashed'
  PROVE  ~crashed
<1>1. ASSUME NEW s \in Session,
             \/ Connect(s) \/ RequestState(s) \/ SetPresence(s) \/ Logout(s) \/ WsClosed(s)
             \/ \E n \in Typed : SetNickname(s, n)
      PROVE  ~crashed
  BY <1>1 DEF Connect, RequestState, SetPresence, Logout, WsClosed, SetNickname
<1>2. ASSUME NEW t \in Try,
             \/ \E kind \in {"register", "login"}, n \in Name : Auth(t, kind, n)
             \/ AuthFails(t) \/ (\E i \in Id : AuthSucceeds(t, i))
             \/ ConnectOk(t) \/ ConnectFails(t)
      PROVE  ~crashed
  BY <1>2 DEF Auth, AuthFails, AuthSucceeds, ConnectOk, ConnectFails
<1>3. ASSUME NEW t \in Try, OnWelcome(t) \/ OnNick(t) \/ OnErr(t) \/ OnBackendClosed(t)
      PROVE  ~crashed
  BY <1>3 DEF OnWelcome, OnNick, OnErr, OnBackendClosed
<1>4. ASSUME NEW t \in Try,
             \/ Admit(t) \/ Rename(t) \/ CopyTargets(t) \/ (\E u \in Try : Tell(t, u))
             \/ Drop(t) \/ BackendLost(t)
      PROVE  ~crashed
  BY <1>4 DEF Admit, Rename, CopyTargets, Tell, Drop, BackendLost
<1>5. CASE UNCHANGED vars
  BY <1>5 DEF vars
<1> QED BY <1>1, <1>2, <1>3, <1>4, <1>5, Steps

\* A session has one connection that emits events, its own.
LEMMA OneWired ==
  ASSUME OwnInv, NEW t \in Try, NEW u \in Try, t[1] = u[1],
         link[t] \in {"connecting", "up", "lost"}, link[u] \in {"connecting", "up", "lost"}
  PROVE  t = u
BY DEF OwnInv, LinksOwned

\* A session is welcomed by the WELCOME of its connection, and stays so.
LEMMA WelcomedBy ==
  ASSUME TypeInv, [Next]_vars, NEW s \in Session
  PROVE  /\ sess[s].welcomed => sess'[s].welcomed
         /\ sess'[s].welcomed => \/ sess[s].welcomed
                                 \/ \E t \in Try : t[1] = s /\ OnWelcome(t)
BY SessionMoves DEF SameSession, LogsIn, Shuts, Welcomes, Follows

\* A name is claimed or asked for once the session is welcomed; the server reads
\* lines in order.
LEMMA OutboxMoves ==
  ASSUME OwnInv, OwnInv', [Next]_vars, NEW t \in Try
  PROVE  \/ outbox'[t] = outbox[t]
         \/ Rename(t) /\ outbox[t] # <<>> /\ outbox'[t] = Tail(outbox[t])
         \/ sess'[t[1]].welcomed /\ \E names \in Seq(Name) : outbox'[t] = outbox[t] \o names
<1>0. /\ TypeInv /\ TypeInv' /\ t[1] \in Session /\ outbox \in [Try -> Seq(Name)]
      /\ sess \in [Session -> SessionRecord] /\ NoTry \notin Try
  BY TrySession, GatewayConstants DEF OwnInv, TypeInv, TypeOK, Try
<1>1. ASSUME NEW b, NEW names, Post(b, names)
      PROVE  outbox'[t] = outbox[t] \/ (b = t /\ outbox'[t] = outbox[t] \o names)
  BY <1>0, <1>1 DEF Post
<1>2. ASSUME NEW s \in Session, NEW n \in Typed, SetNickname(s, n)
      PROVE  \/ outbox'[t] = outbox[t]
             \/ sess'[t[1]].welcomed /\ \E names \in Seq(Name) : outbox'[t] = outbox[t] \o names
  <2>1. \/ UNCHANGED outbox
        \/ sess[s].welcomed /\ Post(sess[s].backend, <<n>>)
    BY <1>2 DEF SetNickname
  <2>2. <<n>> \in Seq(Name)
    BY GatewayConstants
  <2>3. ASSUME sess[s].welcomed, sess[s].backend = t
        PROVE  sess'[t[1]].welcomed
    <3>1. t[1] = s
      BY <1>0, <2>3 DEF TypeInv, SessionsOwned
    <3> QED BY <1>0, <2>3, <3>1, WelcomedBy
  <2> QED BY <1>1, <2>1, <2>2, <2>3
<1>3. ASSUME NEW u \in Try, OnWelcome(u)
      PROVE  \/ outbox'[t] = outbox[t]
             \/ sess'[t[1]].welcomed /\ \E names \in Seq(Name) : outbox'[t] = outbox[t] \o names
  <2>1. PICK r : r = [sess[u[1]] EXCEPT !.welcomed = TRUE, !.nickname = Head(inbox[u]).new]
    OBVIOUS
  <2>2. /\ u[1] \in Session /\ sess[u[1]] \in SessionRecord /\ sess[u[1]].backend = u
    BY <1>0, <1>3, TrySession DEF OnWelcome, Emitted, OwnInv, LinksOwned
  <2>3. r.backend = u /\ r.pending \in Seq(Name) /\ r.desired \in Name \cup {NoName}
    BY <2>1, <2>2 DEF SessionRecord
  <2>4. \/ Claims(r) /\ Post(r.backend, <<r.desired>>)
        \/ Post(r.backend, r.pending)
    BY <1>3, <2>1 DEF OnWelcome, AnnounceReady
  <2>5. Claims(r) => <<r.desired>> \in Seq(Name)
    BY <2>3 DEF Claims
  <2>6. sess'[u[1]].welcomed
    BY <1>0, <1>3, <2>2, OnWelcomeMoves DEF Welcomes
  <2> QED BY <1>1, <2>3, <2>4, <2>5, <2>6
<1>4. ASSUME NEW u \in Try, OnNick(u)
      PROVE  \/ outbox'[t] = outbox[t]
             \/ sess'[t[1]].welcomed /\ \E names \in Seq(Name) : outbox'[t] = outbox[t] \o names
  <2>1. PICK r : r = [sess[u[1]] EXCEPT !.nickname = Head(inbox[u]).new,
                        !.desired = IF @ = Head(inbox[u]).new THEN NoName ELSE @]
    OBVIOUS
  <2>2. /\ u[1] \in Session /\ sess[u[1]] \in SessionRecord /\ sess[u[1]].backend = u
    BY <1>0, <1>4, TrySession DEF OnNick, Emitted, OwnInv, LinksOwned
  <2>3. r.backend = u /\ r.pending \in Seq(Name)
    BY <2>1, <2>2 DEF SessionRecord
  <2>4. \/ UNCHANGED outbox
        \/ Renamed(u[1], Head(inbox[u])) /\ Post(r.backend, r.pending)
    BY <1>4, <2>1 DEF OnNick, AnnounceReady
  <2>5. Renamed(u[1], Head(inbox[u])) => sess'[u[1]].ready
    BY <1>0, <1>4, <2>2, OnNickMoves DEF Follows
  <2>6. sess'[u[1]].ready => sess'[u[1]].welcomed
    BY <2>2 DEF OwnInv, ReadyLast
  <2> QED BY <1>1, <2>3, <2>4, <2>5, <2>6
<1>5. ASSUME NEW u \in Try, Rename(u)
      PROVE  \/ outbox'[t] = outbox[t]
             \/ u = t /\ outbox[t] # <<>> /\ outbox'[t] = Tail(outbox[t])
  <2>1. outbox[u] # <<>> /\ outbox' = [outbox EXCEPT ![u] = Tail(@)]
    BY <1>5 DEF Rename
  <2> QED BY <1>0, <2>1
<1>6. ASSUME NEW s \in Session,
             Connect(s) \/ RequestState(s) \/ SetPresence(s) \/ Logout(s) \/ WsClosed(s)
      PROVE  UNCHANGED outbox
  BY <1>6 DEF Connect, RequestState, SetPresence, Logout, WsClosed
<1>7. ASSUME NEW u \in Try,
             \/ \E kind \in {"register", "login"}, n \in Name : Auth(u, kind, n)
             \/ AuthFails(u) \/ (\E i \in Id : AuthSucceeds(u, i))
             \/ ConnectOk(u) \/ ConnectFails(u) \/ OnErr(u) \/ OnBackendClosed(u)
             \/ Admit(u) \/ CopyTargets(u) \/ (\E v \in Try : Tell(u, v))
             \/ Drop(u) \/ BackendLost(u)
      PROVE  UNCHANGED outbox
  BY <1>7 DEF Auth, AuthFails, AuthSucceeds, ConnectOk, ConnectFails, OnErr, OnBackendClosed,
     Admit, CopyTargets, Tell, Drop, BackendLost
<1>8. CASE UNCHANGED vars
  BY <1>8 DEF vars
<1> QED BY <1>2, <1>3, <1>4, <1>5, <1>6, <1>7, <1>8, Steps

\* Nothing is asked for before WELCOME.
LEMMA SilentStep ==
  ASSUME OwnInv, OwnInv', SilentBefore, [Next]_vars
  PROVE  SilentBefore'
<1>0. TypeInv /\ \A t \in Try : t[1] \in Session
  BY TrySession DEF OwnInv
<1>1. ASSUME NEW t \in Try, ~sess'[t[1]].welcomed
      PROVE  outbox'[t] = <<>>
  <2>1. ~sess[t[1]].welcomed
    BY <1>0, <1>1, WelcomedBy
  <2>2. outbox[t] = <<>>
    BY <2>1 DEF SilentBefore
  <2> QED BY <1>1, <2>2, OutboxMoves
<1>2. ASSUME NEW t \in Try, link'[t] = "connecting"
      PROVE  ~sess'[t[1]].welcomed
  <2>1. ~sess[t[1]].welcomed /\ \A u \in Try : u[1] = t[1] => ~OnWelcome(u)
    <3>1. CASE link[t] = "connecting"
      <4>1. ASSUME NEW u \in Try, u[1] = t[1], OnWelcome(u)
            PROVE  FALSE
        <5>1. link[u] \in {"up", "lost"}
          BY <4>1 DEF OnWelcome, Emitted
        <5> QED BY <3>1, <4>1, <5>1, OneWired
      <4> QED BY <3>1, <4>1 DEF SilentBefore
    <3>2. ASSUME NEW i \in Id, AuthSucceeds(t, i)
          PROVE  ~sess[t[1]].welcomed /\ \A u \in Try : u[1] = t[1] => ~OnWelcome(u)
      <4>1. ~sess[t[1]].authenticated
        BY <3>2 DEF AuthSucceeds, OwnInv, HashingNew
      <4>2. ~sess[t[1]].welcomed
        BY <1>0, <4>1 DEF OwnInv, ReadyLast
      <4>3. ASSUME NEW u \in Try, u[1] = t[1], OnWelcome(u)
            PROVE  FALSE
        BY <4>1, <4>3 DEF OnWelcome, Emitted, OwnInv, TypeInv, SessionsOwned
      <4> QED BY <4>2, <4>3
    <3> QED BY <1>0, <1>2, <3>1, <3>2, LinkMoves
  <2> QED BY <1>0, <2>1, WelcomedBy
<1> QED BY <1>1, <1>2 DEF SilentBefore

\* A client keeps its name unless it is renamed.
LEMMA NameStays ==
  ASSUME TypeInv, [Next]_vars, NEW t \in Try, t \in Members', ~Admit(t), ~Rename(t)
  PROVE  t \in Members /\ member'[t] = member[t]
<1>1. CASE UNCHANGED member
  BY <1>1 DEF Members
<1>2. ASSUME NEW u \in Try, Admit(u), Members' = Members \cup {u},
             \A v \in Members : member'[v] = member[v]
      PROVE  t \in Members /\ member'[t] = member[t]
  BY <1>2
<1>3. ASSUME NEW u \in Members, Rename(u), Members' = Members,
             \A v \in Members : v # u => member'[v] = member[v]
      PROVE  t \in Members /\ member'[t] = member[t]
  BY <1>3
<1>4. ASSUME NEW u \in Try, Members' = Members \ {u}, \A v \in Members' : member'[v] = member[v]
      PROVE  t \in Members /\ member'[t] = member[t]
  BY <1>4
<1> QED BY <1>1, <1>2, <1>3, <1>4, MembersChange

\* Nobody hears of a client that asks for nothing.
LEMMA SilentStays ==
  ASSUME TypeInv, [Next]_vars, NEW t \in Try, telling[t] = Silent, ~Rename(t)
  PROVE  telling'[t] = Silent
<1>1. ~CopyTargets(t)
  BY DEF CopyTargets, Silent
<1>2. ASSUME NEW u \in Try, ToldOf(u, telling[t], telling'[t])
      PROVE  telling'[t] = Silent
  <2>1. Silent.to = {}
    BY DEF Silent
  <2>2. telling'[t] = [Silent EXCEPT !.to = Silent.to \ {u}]
    BY <1>2, <2>1 DEF ToldOf
  <2>3. Silent.to \ {u} = Silent.to
    BY <2>1
  <2>4. Silent \in Telling
    BY DEF Silent, Telling
  <2>5. [Silent EXCEPT !.to = Silent.to] = Silent
    BY <2>4 DEF Telling
  <2> QED BY <2>2, <2>3, <2>5
<1> QED BY <1>1, <1>2, TellingMoves

\* A broadcast that reaches a client that is not crossed is another's, and about
\* a name the client neither bears nor was last told it bears, or its own.
LEMMA ToldBy ==
  ASSUME MirrorInv, NEW w \in Try, NEW t \in Try, Tell(w, t)
  PROVE  /\ t \in Members /\ telling[w] # Silent /\ telling[w].new = member[w]
         /\ w # t /\ t \notin crossed => telling[w].old \notin {Known(t), member[t]}
<1>1. t \in telling[w].to
  BY DEF Tell
<1>2. telling[w] # Silent
  BY <1>1 DEF Silent
<1>3. t \in Members /\ telling[w].new = member[w]
  BY <1>1, <1>2 DEF MirrorInv, TellingsFit
<1> QED BY <1>1, <1>2, <1>3 DEF MirrorInv, NamesApart, Apart, Untold

\* accept_one sends WELCOME before anything else.
LEMMA WelcomeAheadStep ==
  ASSUME MirrorInv, MirrorInv', SilentBefore, WelcomeAhead, [Next]_vars
  PROVE  WelcomeAhead'
<1> SUFFICES ASSUME NEW t \in Try, Wired(t)', ~sess'[t[1]].welcomed
             PROVE  Greeting(t)'
  BY DEF WelcomeAhead
<1>0. /\ OwnInv /\ TypeInv /\ t[1] \in Session /\ ~sess[t[1]].welcomed
      /\ inbox \in [Try -> Seq(EventRecord)] /\ inbox'[t] \in Seq(EventRecord)
      /\ telling \in [Try -> Telling] /\ crossed \subseteq crossed'
  BY TrySession, WelcomedBy, CrossedStays DEF MirrorInv, OwnInv, TypeInv, TypeOK
<1>1. outbox[t] = <<>> /\ ~Rename(t)
  BY <1>0 DEF SilentBefore, Rename
<1>2. CASE ~Wired(t)
  <2>1. ConnectOk(t) /\ link[t] = "connecting"
    BY <1>0, <1>2, LinkMoves DEF Wired
  <2>2. inbox[t] = <<>> /\ t \notin Members /\ UNCHANGED <<inbox, member, telling>>
    BY <2>1 DEF MirrorInv, InboxesOpen, MembersLinked, ConnectOk
  <2>3. telling[t] = Silent
    BY <2>2 DEF MirrorInv, TellingsFit
  <2> QED BY <2>2, <2>3 DEF Greeting, Members
<1>3. CASE Wired(t)
  <2>0. Greeting(t)
    BY <1>0, <1>3 DEF WelcomeAhead
  <2>1. telling'[t] = Silent
    BY <1>0, <1>1, <2>0, SilentStays DEF Greeting
  <2>2. CASE Admit(t)
    <3>1. link[t] = "up" /\ t \notin Members
      BY <2>2 DEF Admit
    <3>2. inbox[t] = <<>>
      BY <3>1 DEF MirrorInv, InboxesOpen
    <3>3. PICK k \in DOMAIN DefaultName :
            /\ member' = [u \in Members \cup {t} |-> IF u = t THEN DefaultName[k] ELSE member[u]]
            /\ inbox' = Deliver(t, Event("welcome", NoName, DefaultName[k]))
      BY <2>2 DEF Admit
    <3>4. PICK e : e = Event("welcome", NoName, DefaultName[k])
      OBVIOUS
    <3>5. inbox'[t] = <<e>>
      BY <1>0, <3>1, <3>2, <3>3, <3>4 DEF Deliver
    <3>6. e.type = "welcome" /\ e.new = DefaultName[k] /\ member'[t] = DefaultName[k]
      BY <3>3, <3>4 DEF Event
    <3>7. Head(<<e>>) = e /\ Len(<<e>>) = 1
      OBVIOUS
    <3> QED BY <2>1, <3>5, <3>6, <3>7 DEF Greeting
  <2>3. CASE ~Admit(t)
    <3>1. t \in Members' => t \in Members /\ member'[t] = member[t]
      BY <1>0, <1>1, <2>3, NameStays
    <3>2. CASE inbox'[t] = inbox[t]
      BY <1>0, <2>0, <2>1, <3>1, <3>2 DEF Greeting
    <3>3. CASE inbox[t] # <<>> /\ (OnWelcome(t) \/ OnNick(t) \/ OnErr(t))
      <4>1. Head(inbox[t]).type = "welcome"
        BY <2>0, <3>3 DEF Greeting
      <4>2. OnWelcome(t)
        BY <3>3, <4>1 DEF OnNick, OnErr, Emitted
      <4>3. sess'[t[1]].welcomed
        BY <1>0, <4>2, OnWelcomeMoves DEF Welcomes
      <4> QED BY <4>3
    <3>4. ASSUME NEW e \in EventRecord, inbox'[t] = Append(inbox[t], e), Sent(t, e)
          PROVE  Greeting(t)'
      <4>1. PICK w \in Try : Tell(w, t) /\ e = Event("nick", telling[w].old, telling[w].new)
        BY <1>1, <2>3, <3>4 DEF Sent
      <4>2. w # t /\ t \in Members /\ (t \notin crossed => member[t] # telling[w].old)
        BY <2>0, <4>1, ToldBy DEF Greeting
      <4>3. e.type = "nick" /\ e.old = telling[w].old
        BY <4>1 DEF Event
      <4>4. PICK q \in Seq(EventRecord) : q = inbox[t]
        BY <1>0
      <4>5. /\ q # <<>> /\ member[t] = Head(q).new /\ Head(q).type = "welcome"
            /\ \A k \in 2 .. Len(q) : /\ q[k].type # "welcome"
                                      /\ t \notin crossed => ~Turns(Head(q).new, q[k])
        BY <2>0, <4>2, <4>4 DEF Greeting
      <4>6. PICK h : h = Head(q)
        OBVIOUS
      <4>7. PICK p : p = Append(q, e)
        OBVIOUS
      <4>8. /\ Len(q) \in Nat /\ Len(p) = Len(q) + 1 /\ p[Len(q) + 1] = e
            /\ \A k \in 1 .. Len(q) : p[k] = q[k]
            /\ p # <<>> /\ Head(p) = h
        BY <4>5, <4>6, <4>7, QueueAppend
      <4>9. e.type # "welcome" /\ (t \notin crossed => ~Turns(h.new, e))
        BY <4>2, <4>3, <4>5, <4>6 DEF Turns
      <4>10. \A k \in 2 .. Len(p) : /\ p[k].type # "welcome"
                                    /\ t \notin crossed => ~Turns(h.new, p[k])
        <5> SUFFICES ASSUME NEW k \in 2 .. Len(p)
                     PROVE  /\ p[k].type # "welcome"
                            /\ t \notin crossed => ~Turns(h.new, p[k])
          OBVIOUS
        <5>1. CASE k = Len(q) + 1
          BY <4>8, <4>9, <5>1
        <5>2. CASE k # Len(q) + 1
          <6>1. k \in 2 .. Len(q) /\ p[k] = q[k]
            BY <4>8, <5>2
          <6> QED BY <4>5, <4>6, <6>1
        <5> QED BY <5>1, <5>2
      <4>11. inbox'[t] = p
        BY <3>4, <4>4, <4>7
      <4> QED BY <1>0, <2>1, <3>1, <4>5, <4>6, <4>8, <4>10, <4>11 DEF Greeting
    <3>5. ~(inbox'[t] = <<>> /\ link'[t] = "closed")
      BY DEF Wired
    <3> QED BY <1>0, <3>2, <3>3, <3>4, <3>5, InboxMoves
  <2> QED BY <2>2, <2>3
<1> QED BY <1>2, <1>3

\* A connection is made before anybody is welcomed on it.
LEMMA WiredBefore ==
  ASSUME OwnInv, SilentBefore, [Next]_vars, NEW t \in Try, Wired(t)', sess'[t[1]].welcomed
  PROVE  Wired(t)
<1>0. TypeInv /\ t[1] \in Session
  BY TrySession DEF OwnInv
<1>1. link[t] # "connecting"
  <2> SUFFICES ASSUME link[t] = "connecting" PROVE FALSE
    OBVIOUS
  <2>1. ~sess[t[1]].welcomed
    BY DEF SilentBefore
  <2>2. PICK u \in Try : u[1] = t[1] /\ OnWelcome(u)
    BY <1>0, <2>1, WelcomedBy
  <2>3. UNCHANGED link
    BY <2>2 DEF OnWelcome
  <2> QED BY <2>3 DEF Wired
<1> QED BY <1>0, <1>1, LinkMoves DEF Wired

\* WELCOME is sent once.
LEMMA WelcomeOnceStep ==
  ASSUME MirrorInv, SilentBefore, WelcomeAhead, WelcomeOnce, [Next]_vars
  PROVE  WelcomeOnce'
<1> SUFFICES ASSUME NEW t \in Try, Wired(t)', sess'[t[1]].welcomed
             PROVE  /\ link'[t] = "up" => t \in Members'
                    /\ \A k \in 1 .. Len(inbox'[t]) : inbox'[t][k].type # "welcome"
  BY DEF WelcomeOnce
<1>0. /\ OwnInv /\ TypeInv /\ t[1] \in Session /\ inbox \in [Try -> Seq(EventRecord)]
  BY TrySession DEF MirrorInv, OwnInv, TypeInv, TypeOK
<1>1. Wired(t)
  BY <1>0, WiredBefore
<1>2. CASE ~sess[t[1]].welcomed
  <2>1. PICK u \in Try : u[1] = t[1] /\ OnWelcome(u)
    BY <1>0, <1>2, WelcomedBy
  <2>2. u = t
    <3>1. link[u] \in {"up", "lost"}
      BY <2>1 DEF OnWelcome, Emitted
    <3> QED BY <1>0, <1>1, <2>1, <3>1, OneWired DEF Wired
  <2>3. inbox[t] # <<>> /\ UNCHANGED <<link, member>> /\ inbox' = [inbox EXCEPT ![t] = Tail(@)]
    BY <2>1, <2>2 DEF OnWelcome, Emitted
  <2>4. \A k \in 2 .. Len(inbox[t]) : inbox[t][k].type # "welcome"
    BY <1>1, <1>2, <2>3 DEF WelcomeAhead, Greeting
  <2>5. PICK q \in Seq(EventRecord) : q = inbox[t]
    BY <1>0
  <2>6. inbox'[t] = Tail(q)
    BY <1>0, <2>3, <2>5
  <2>7. \A k \in 1 .. Len(Tail(q)) : Tail(q)[k].type # "welcome"
    <3> SUFFICES ASSUME NEW k \in 1 .. Len(Tail(q)) PROVE Tail(q)[k].type # "welcome"
      OBVIOUS
    <3>1. k + 1 \in 1 .. Len(q) /\ Tail(q)[k] = q[k + 1] /\ Len(q) \in Nat
      BY <2>3, <2>5, QueueTail
    <3>2. k + 1 \in 2 .. Len(q)
      BY <3>1
    <3> QED BY <2>4, <2>5, <3>1, <3>2
  <2>8. link[t] = "up" => t \in Members
    BY <2>3 DEF MirrorInv, InboxesOpen
  <2> QED BY <2>3, <2>6, <2>7, <2>8 DEF Members
<1>3. CASE sess[t[1]].welcomed
  <2>1. /\ link[t] = "up" => t \in Members
        /\ \A k \in 1 .. Len(inbox[t]) : inbox[t][k].type # "welcome"
    BY <1>1, <1>3 DEF WelcomeOnce
  <2>2. ASSUME link'[t] = "up" PROVE t \in Members'
    <3>1. link[t] = "up"
      BY <1>0, <1>1, <2>2, LinkMoves DEF Wired
    <3> QED BY <2>1, <2>2, <3>1, StaysMember
  <2>3. CASE inbox'[t] = inbox[t]
    BY <2>1, <2>2, <2>3
  <2>4. CASE inbox[t] # <<>> /\ inbox'[t] = Tail(inbox[t])
    BY <1>0, <2>1, <2>2, <2>4, QueueTail
  <2>5. ASSUME NEW e \in EventRecord, link[t] = "up", inbox'[t] = Append(inbox[t], e), Sent(t, e)
        PROVE  \A k \in 1 .. Len(inbox'[t]) : inbox'[t][k].type # "welcome"
    <3>1. e.type # "welcome"
      BY <2>1, <2>5 DEF Sent, Event
    <3> QED BY <1>0, <2>1, <2>5, <3>1, QueueAppend
  <2>6. ~(inbox'[t] = <<>> /\ link'[t] = "closed")
    BY DEF Wired
  <2> QED BY <1>0, <2>2, <2>3, <2>4, <2>5, <2>6, InboxMoves
<1> QED BY <1>2, <1>3

\* An attempt that has begun keeps its name.
LEMMA TryNamed ==
  ASSUME TypeInv, [Next]_vars, NEW t \in Try, try[t].at # "none"
  PROVE  try'[t].name = try[t].name
<1>0. try \in [Try -> TryRecord] /\ try[t] \in TryRecord
  BY DEF TypeInv, TypeOK
<1>1. ASSUME NEW u \in Try, \E kind \in {"register", "login"}, n \in Name : Auth(u, kind, n)
      PROVE  try'[t] = try[t]
  <2>1. try[u].at = "none" /\ \E r : try' = [try EXCEPT ![u] = r]
    BY <1>1 DEF Auth
  <2> QED BY <1>0, <2>1
<1>2. ASSUME NEW u \in Try, AuthFails(u) \/ ConnectOk(u) \/ ConnectFails(u)
      PROVE  try'[t].name = try[t].name
  <2>1. try' = [try EXCEPT ![u].at = "over"]
    BY <1>2 DEF AuthFails, ConnectOk, ConnectFails
  <2>2. try'[t] = try[t] \/ try'[t] = [try[t] EXCEPT !.at = "over"]
    BY <1>0, <2>1
  <2> QED BY <1>0, <2>2 DEF TryRecord
<1>3. ASSUME NEW u \in Try, NEW i \in Id, AuthSucceeds(u, i)
      PROVE  try'[t].name = try[t].name
  <2>1. \/ try' = [try EXCEPT ![u].at = "over"]
        \/ try' = [try EXCEPT ![u] = [@ EXCEPT !.at = "connecting", !.id = i]]
    BY <1>3 DEF AuthSucceeds
  <2>2. \/ try'[t] = try[t] \/ try'[t] = [try[t] EXCEPT !.at = "over"]
        \/ try'[t] = [try[t] EXCEPT !.at = "connecting", !.id = i]
    BY <1>0, <2>1
  <2> QED BY <1>0, <2>2 DEF TryRecord
<1>4. ASSUME NEW s \in Session,
             \/ Connect(s) \/ RequestState(s) \/ SetPresence(s) \/ Logout(s) \/ WsClosed(s)
             \/ \E n \in Typed : SetNickname(s, n)
      PROVE  UNCHANGED try
  BY <1>4 DEF Connect, RequestState, SetPresence, Logout, WsClosed, SetNickname
<1>5. ASSUME NEW u \in Try,
             \/ OnWelcome(u) \/ OnNick(u) \/ OnErr(u) \/ OnBackendClosed(u)
             \/ Admit(u) \/ Rename(u) \/ CopyTargets(u) \/ (\E v \in Try : Tell(u, v))
             \/ Drop(u) \/ BackendLost(u)
      PROVE  UNCHANGED try
  BY <1>5 DEF OnWelcome, OnNick, OnErr, OnBackendClosed, Admit, Rename, CopyTargets, Tell, Drop,
     BackendLost
<1>6. CASE UNCHANGED vars
  BY <1>6 DEF vars
<1> QED BY <1>1, <1>2, <1>3, <1>4, <1>5, <1>6, Steps

\* A login wants its name until it is ready.
LEMMA WantsStep ==
  ASSUME OwnInv, WantsItsName, [Next]_vars
  PROVE  WantsItsName'
<1> SUFFICES ASSUME NEW s \in Session, sess'[s].authenticated, ~sess'[s].ready
             PROVE  sess'[s].backend \in Try /\ sess'[s].desired = try'[sess'[s].backend].name
  BY DEF WantsItsName
<1>0. TypeInv
  BY DEF OwnInv
<1>1. ASSUME NEW t \in Try, NEW i \in Id, AuthSucceeds(t, i), LogsIn(t, i, sess[s], sess'[s])
      PROVE  sess'[s].backend \in Try /\ sess'[s].desired = try'[sess'[s].backend].name
  <2>1. try[t].at # "none"
    BY <1>1 DEF AuthSucceeds
  <2> QED BY <1>0, <1>1, <2>1, TryNamed DEF LogsIn
<1>2. ASSUME sess[s].authenticated, ~sess[s].ready, sess'[s].backend = sess[s].backend,
             sess'[s].desired = sess[s].desired
      PROVE  sess'[s].backend \in Try /\ sess'[s].desired = try'[sess'[s].backend].name
  <2>1. PICK t : t = sess[s].backend
    OBVIOUS
  <2>2. t \in Try /\ sess[s].desired = try[t].name
    BY <1>2, <2>1 DEF WantsItsName
  <2>3. t # NoTry
    BY <2>2, GatewayConstants DEF Try
  <2>4. try[t].at # "none"
    BY <1>0, <2>1, <2>3 DEF TypeInv, TriesNamed
  <2>5. try'[t].name = try[t].name
    BY <1>0, <2>2, <2>4, TryNamed
  <2> QED BY <1>2, <2>1, <2>2, <2>5
<1> QED BY <1>0, <1>1, <1>2, SessionMoves DEF SameSession, Shuts, Welcomes, Follows

\* The lines of a client are read in order, and a claim that is granted is told.
LEMMA AskingStays ==
  ASSUME MirrorInv, OwnInv', [Next]_vars, NEW t \in Try, t \in Members, t \in Members',
         NEW n, NEW d, Asking(t, n, d), ~Tell(t, t),
         Rename(t) => ~\E u \in Members \ {t} : member[u] = Head(outbox[t])
  PROVE  Asking(t, n, d)'
<1>0. /\ OwnInv /\ TypeInv /\ telling \in [Try -> Telling] /\ outbox \in [Try -> Seq(Name)]
      /\ telling[t] \in Telling /\ outbox[t] \in Seq(Name)
  BY DEF MirrorInv, OwnInv, TypeInv, TypeOK
<1>1. CASE Rename(t)
  <2>1. telling[t] = Silent
    BY <1>1 DEF Rename
  <2>2. member[t] = n /\ Head(outbox[t]) = d
    BY <2>1 DEF Asking, Untold, Silent
  <2>3. telling'[t] = [old |-> n, new |-> d, copied |-> FALSE, to |-> {}]
    BY <1>0, <1>1, <2>2 DEF Rename
  <2> QED BY <2>3 DEF Asking, Untold, Silent
<1>2. CASE ~Rename(t)
  <2>1. member'[t] = member[t]
    <3>1. ~Admit(t)
      BY DEF Admit
    <3> QED BY <1>0, <1>2, <3>1, NameStays
  <2>2. CASE telling[t] = Silent /\ member[t] = n /\ outbox[t] # <<>> /\ Head(outbox[t]) = d
    <3>1. telling'[t] = Silent
      BY <1>0, <1>2, <2>2, SilentStays
    <3>2. outbox'[t] = outbox[t] \/ \E names \in Seq(Name) : outbox'[t] = outbox[t] \o names
      BY <1>0, <1>2, OutboxMoves
    <3>3. ASSUME NEW names \in Seq(Name)
          PROVE  outbox[t] \o names # <<>> /\ Head(outbox[t] \o names) = Head(outbox[t])
      BY <1>0, <2>2
    <3>4. outbox'[t] # <<>> /\ Head(outbox'[t]) = d
      BY <2>2, <3>2, <3>3
    <3> QED BY <2>1, <2>2, <3>1, <3>4 DEF Asking
  <2>3. CASE Untold(t, t) /\ telling[t].old = n /\ telling[t].new = d
    <3>1. CASE telling'[t] = telling[t]
      BY <2>3, <3>1 DEF Asking, Untold
    <3>2. CASE telling'[t] = [telling[t] EXCEPT !.copied = TRUE, !.to = Members]
      <4>1. /\ telling'[t].old = n /\ telling'[t].new = d /\ telling'[t].to = Members
        BY <1>0, <2>3, <3>2 DEF Telling
      <4>2. telling'[t] # Silent
        BY <4>1 DEF Silent
      <4> QED BY <4>1, <4>2 DEF Asking, Untold
    <3>3. ASSUME NEW u \in Try, Tell(t, u) \/ Drop(u) \/ BackendLost(u),
                 ToldOf(u, telling[t], telling'[t])
          PROVE  Asking(t, n, d)'
      <4>1. u # t
        BY <3>3 DEF Drop, BackendLost, Without, Members
      <4>2. telling[t].to # {u} /\ (telling[t].copied <=> telling[t].to # {})
        <5>1. telling[t] # Silent
          BY <2>3 DEF Untold, Silent
        <5>2. telling[t].copied <=> telling[t].to # {}
          BY <5>1 DEF MirrorInv, TellingsFit
        <5> QED BY <2>3, <4>1, <5>2 DEF Untold
      <4>3. telling'[t] = [telling[t] EXCEPT !.to = @ \ {u}]
        BY <3>3, <4>2 DEF ToldOf
      <4>4. /\ telling'[t].old = n /\ telling'[t].new = d /\ telling'[t].copied = telling[t].copied
            /\ telling'[t].to = telling[t].to \ {u}
        BY <1>0, <2>3, <4>3 DEF Telling
      <4>5. ~telling[t].copied \/ t \in telling[t].to
        BY <2>3 DEF Untold
      <4>6. ~telling'[t].copied \/ t \in telling'[t].to
        BY <4>1, <4>4, <4>5
      <4>7. telling'[t] # Silent
        BY <4>6 DEF Silent
      <4> QED BY <4>4, <4>6, <4>7 DEF Asking, Untold
    <3> QED BY <1>0, <1>2, <3>1, <3>2, <3>3, TellingMoves
  <2> QED BY <2>2, <2>3 DEF Asking
<1> QED BY <1>1, <1>2

\* The session of a login that is not over stays as it is until its connection
\* emits an event that decides it.
LEMMA LoginWaits ==
  ASSUME OwnInv, NotYet, [Next]_vars, NEW t \in Try, Wired(t), Wired(t)', Hears(t[1])',
         ~OnWelcome(t), ~sess'[t[1]].ready, sess'[t[1]].welcomed
  PROVE  /\ Hears(t[1]) /\ sess[t[1]].welcomed /\ ~sess[t[1]].ready /\ ~OnErr(t)
         /\ OnNick(t) => ~Renamed(t[1], Head(inbox[t]))
         /\ sess'[t[1]].nickname = sess[t[1]].nickname
         /\ sess'[t[1]].desired = sess[t[1]].desired
<1>0. /\ TypeInv /\ t[1] \in Session /\ sess[t[1]].authenticated
      /\ ws \in [Session -> {"none", "open", "closing", "closed"}]
  BY TrySession DEF OwnInv, TypeInv, TypeOK, SessionsOwned, Wired
<1>1. ws[t[1]] # "none" /\ ~WsClosed(t[1])
  BY <1>0 DEF NotYet, WsClosed, Hears
<1>2. Hears(t[1])
  BY <1>0, <1>1, WsMoves DEF Hears
<1>3. ASSUME NEW u \in Try, u[1] = t[1], OnWelcome(u) \/ OnNick(u)
      PROVE  u = t
  <2>1. link[u] \in {"up", "lost"}
    BY <1>3 DEF OnWelcome, OnNick, Emitted
  <2> QED BY <1>3, <2>1, OneWired DEF Wired
<1>4. \A u \in Try, i \in Id : u[1] = t[1] => ~AuthSucceeds(u, i)
  BY <1>0 DEF AuthSucceeds, OwnInv, HashingNew
<1>5. SameSession(sess[t[1]], sess'[t[1]])
  BY <1>0, <1>1, <1>3, <1>4, SessionMoves DEF Follows
<1>6. OnNick(t) => ~Renamed(t[1], Head(inbox[t]))
  BY <1>0, OnNickMoves DEF Follows
<1>7. ~OnErr(t)
  <2> SUFFICES ASSUME OnErr(t) PROVE FALSE
    OBVIOUS
  <2>1. ws' = [ws EXCEPT ![t[1]] = IF @ = "open" /\ ~sess[t[1]].ready THEN "closing" ELSE @]
    BY DEF OnErr
  <2>2. ~sess[t[1]].ready /\ ws[t[1]] = "open"
    BY <1>2, <1>5 DEF SameSession, Hears
  <2>3. ws'[t[1]] = "closing"
    BY <1>0, <2>1, <2>2
  <2> QED BY <2>3 DEF Hears
<1> QED BY <1>2, <1>5, <1>6, <1>7 DEF SameSession

\* What is under way goes on to give the session bearing n the name d, or refuses it.
LEMMA ClaimedStays ==
  ASSUME MirrorInv, OwnInv', WelcomeOnce, [Next]_vars, NEW t \in Try, Wired(t), Wired(t)',
         sess[t[1]].welcomed, ~OnWelcome(t), ~OnErr(t), NEW n, n = sess[t[1]].nickname,
         OnNick(t) => ~Renamed(t[1], Head(inbox[t])), t \notin crossed, NEW d, Claimed(t, n, d)
  PROVE  Claimed(t, n, d)'
<1>0. /\ OwnInv /\ TypeInv /\ inbox \in [Try -> Seq(EventRecord)]
      /\ telling \in [Try -> Telling] /\ inbox[t] \in Seq(EventRecord)
      /\ link[t] = "up" => t \in Members
  BY DEF MirrorInv, OwnInv, TypeInv, TypeOK, WelcomeOnce
<1>1. CASE Answered(inbox[t], n, d)
  <2>1. ASSUME inbox[t] # <<>>, inbox'[t] = Tail(inbox[t]), OnNick(t)
        PROVE  Answered(inbox'[t], n, d)
    <3>1. Head(inbox[t]).type = "nick" /\ Head(inbox[t]).old # n
      BY <2>1 DEF OnNick, Emitted, Renamed
    <3>2. ~Turns(n, Head(inbox[t]))
      BY <3>1 DEF Turns
    <3>3. Answered(Tail(inbox[t]), n, d)
      BY <1>0, <1>1, <2>1, <3>2, AnsweredTail
    <3> QED BY <2>1, <3>3
  <2>2. \A e \in EventRecord : Answered(Append(inbox[t], e), n, d)
    BY <1>0, <1>1, AnsweredStays
  <2>3. link'[t] # "closed"
    BY DEF Wired
  <2>4. Answered(inbox'[t], n, d)
    BY <1>0, <1>1, <2>1, <2>2, <2>3, InboxMoves
  <2> QED BY <2>4 DEF Claimed
<1>2. CASE Quiet(inbox[t], n) /\ (t \in Members => Asking(t, n, d))
  <2>0. t \in Members => link[t] = "up"
    BY DEF MirrorInv, MembersLinked, Wired
  <2>1. CASE Rename(t) /\ \E u \in Members \ {t} : member[u] = Head(outbox[t])
    <3>1. link[t] = "up" /\ inbox' = Deliver(t, Event("err", NoName, NoName))
      BY <2>0, <2>1 DEF Rename
    <3>2. PICK e \in EventRecord : e = Event("err", NoName, NoName)
      BY DEF Event, EventRecord
    <3>3. e.type = "err" /\ inbox'[t] = Append(inbox[t], e)
      BY <1>0, <3>1, <3>2 DEF Deliver, Event
    <3>4. Answered(Append(inbox[t], e), n, d)
      BY <1>0, <1>2, <3>3, QuietAppend DEF Turns
    <3> QED BY <3>3, <3>4 DEF Claimed
  <2>2. CASE Tell(t, t)
    <3>1. t \in Members /\ telling[t] # Silent
      BY <2>2, ToldBy
    <3>2. telling[t].old = n /\ telling[t].new = d
      BY <1>2, <3>1 DEF Asking
    <3>3. PICK e \in EventRecord : e = Event("nick", n, d)
      BY <1>0, <3>2 DEF Event, EventRecord, Telling
    <3>4. inbox' = Deliver(t, e)
      BY <2>2, <3>2, <3>3 DEF Tell
    <3>5. inbox'[t] = Append(inbox[t], e)
      BY <1>0, <2>0, <3>1, <3>4 DEF Deliver
    <3>6. e.type = "nick" /\ e.old = n /\ e.new = d
      BY <3>3 DEF Event
    <3>7. Answered(Append(inbox[t], e), n, d)
      BY <1>0, <1>2, <3>6, QuietAppend DEF Turns
    <3> QED BY <3>5, <3>7 DEF Claimed
  <2>3. CASE /\ ~Tell(t, t)
             /\ Rename(t) => ~\E u \in Members \ {t} : member[u] = Head(outbox[t])
    <3>1. t \in Members' => Asking(t, n, d)'
      <4> SUFFICES ASSUME t \in Members' PROVE Asking(t, n, d)'
        OBVIOUS
      <4>1. t \in Members
        <5>1. ~Admit(t) \/ t \in Members
          BY <1>0 DEF Admit
        <5>2. ~Rename(t) \/ t \in Members
          BY DEF Rename
        <5> QED BY <1>0, <5>1, <5>2, NameStays
      <4> QED BY <1>2, <2>3, <4>1, AskingStays
    <3>2. ASSUME NEW e \in EventRecord, link[t] = "up", Sent(t, e)
          PROVE  Quiet(Append(inbox[t], e), n)
      <4>1. t \in Members /\ Asking(t, n, d)
        BY <1>0, <1>2, <3>2
      <4>2. PICK w \in Try : Tell(w, t) /\ e = Event("nick", telling[w].old, telling[w].new)
        BY <2>3, <3>2, <4>1 DEF Sent
      <4>3. w # t
        BY <2>3, <4>2
      <4>4. telling[w].old \notin {Known(t), member[t]}
        BY <4>2, <4>3, ToldBy
      <4>5. n \in {Known(t), member[t]}
        BY <4>1 DEF Asking, Known
      <4>6. ~Turns(n, e)
        BY <4>2, <4>4, <4>5 DEF Turns, Event
      <4> QED BY <1>0, <1>2, <4>6, QuietAppend
    <3>3. inbox[t] # <<>> => Quiet(Tail(inbox[t]), n)
      BY <1>0, <1>2, QuietTail
    <3>4. link'[t] # "closed"
      BY DEF Wired
    <3>5. Quiet(inbox'[t], n)
      BY <1>0, <1>2, <3>2, <3>3, <3>4, InboxMoves
    <3> QED BY <3>1, <3>5 DEF Claimed
  <2> QED BY <2>1, <2>2, <2>3
<1> QED BY <1>1, <1>2 DEF Claimed

\* WELCOME: the account's name is claimed.
LEMMA ClaimMade ==
  ASSUME OwnInv, SilentBefore, WelcomeAhead, WelcomeOnce, WantsItsName, NEW t \in Try,
         OnWelcome(t), t \notin crossed, ~crashed', ~sess'[t[1]].ready
  PROVE  Claimed(t, sess[t[1]].nickname, sess[t[1]].desired)'
<1>0. /\ TypeInv /\ t[1] \in Session /\ inbox \in [Try -> Seq(EventRecord)]
      /\ sess \in [Session -> SessionRecord] /\ outbox \in [Try -> Seq(Name)]
      /\ sess[t[1]] \in SessionRecord
  BY TrySession DEF OwnInv, TypeInv, TypeOK
<1>1. /\ Wired(t) /\ inbox[t] # <<>> /\ Head(inbox[t]).type = "welcome"
      /\ inbox' = [inbox EXCEPT ![t] = Tail(@)] /\ UNCHANGED <<member, telling>>
  BY DEF OnWelcome, Emitted, Wired
<1>2. PICK q \in Seq(EventRecord) : q = inbox[t]
  BY <1>0
<1>3. Head(q) = q[1] /\ 1 \in 1 .. Len(q) /\ inbox'[t] = Tail(q)
  BY <1>0, <1>1, <1>2, QueueTail
<1>4. ~sess[t[1]].welcomed /\ Greeting(t) /\ outbox[t] = <<>>
  BY <1>1, <1>2, <1>3 DEF WelcomeOnce, WelcomeAhead, SilentBefore
<1>5. sess[t[1]].backend = t
  BY <1>1 DEF OwnInv, LinksOwned, Wired
<1>6. PICK n : n = Head(q).new
  OBVIOUS
<1>7. PICK r : r = [sess[t[1]] EXCEPT !.welcomed = TRUE, !.nickname = n]
  OBVIOUS
<1>8. r.backend = t /\ r.desired = sess[t[1]].desired
  BY <1>0, <1>5, <1>7 DEF SessionRecord
<1>9. Welcomes(n, sess[t[1]], sess'[t[1]])
  BY <1>0, <1>2, <1>6, OnWelcomeMoves
<1>10. sess'[t[1]].nickname = n /\ sess'[t[1]].desired = r.desired /\ r.desired \notin {NoName, n}
  BY <1>8, <1>9 DEF Welcomes
<1>11. outbox'[t] = <<r.desired>>
  <2>1. Claims(r)
    BY <1>0, <1>7, <1>10 DEF Claims, SessionRecord
  <2>2. Post(r.backend, <<r.desired>>)
    BY <1>2, <1>6, <1>7, <2>1 DEF OnWelcome
  <2>3. <<r.desired>> # <<>>
    OBVIOUS
  <2>4. outbox' = [outbox EXCEPT ![t] = @ \o <<r.desired>>]
    BY <1>8, <2>2, <2>3 DEF Post
  <2>5. outbox'[t] = <<>> \o <<r.desired>>
    BY <1>0, <1>4, <2>4
  <2> QED BY <2>5
<1>12. Quiet(Tail(q), n)
  <2> SUFFICES ASSUME NEW k \in 1 .. Len(Tail(q)) PROVE ~Turns(n, Tail(q)[k])
    BY DEF Quiet
  <2>1. k + 1 \in 1 .. Len(q) /\ Tail(q)[k] = q[k + 1] /\ Len(q) \in Nat
    BY <1>1, <1>2, QueueTail
  <2>2. k + 1 \in 2 .. Len(q)
    BY <2>1
  <2> QED BY <1>1, <1>2, <1>4, <1>6, <2>1, <2>2 DEF Greeting
<1>13. t \in Members' => telling'[t] = Silent /\ member'[t] = n
  BY <1>1, <1>2, <1>4, <1>6 DEF Greeting, Members
<1>14. Head(<<r.desired>>) = r.desired /\ <<r.desired>> # <<>>
  OBVIOUS
<1>15. t \in Members' => Asking(t, n, r.desired)'
  BY <1>11, <1>13, <1>14 DEF Asking
<1>16. Claimed(t, n, r.desired)'
  BY <1>3, <1>12, <1>15 DEF Claimed
<1> QED BY <1>10, <1>16

\* A login that goes on has its name under way.
LEMMA NameUnderWayStep ==
  ASSUME ClaimInv, OwnInv', [Next]_vars
  PROVE  NameUnderWay'
<1> SUFFICES ASSUME NEW t \in Try, t \notin crossed', ~crashed', Wired(t)', Hears(t[1])',
                    sess'[t[1]].welcomed, ~sess'[t[1]].ready
             PROVE  Claimed(t, sess[t[1]].nickname, sess[t[1]].desired)'
  BY DEF NameUnderWay
<1>0. MirrorInv /\ OwnInv /\ NotYet /\ SilentBefore /\ WelcomeAhead /\ WelcomeOnce /\ WantsItsName
  BY DEF ClaimInv, MirrorInv
<1>1. Wired(t) /\ ~crashed /\ t \notin crossed
  BY <1>0, WiredBefore, AliveBefore, CrossedStays DEF OwnInv
<1>2. CASE OnWelcome(t)
  BY <1>0, <1>1, <1>2, ClaimMade
<1>3. CASE ~OnWelcome(t)
  <2>1. /\ Hears(t[1]) /\ sess[t[1]].welcomed /\ ~sess[t[1]].ready /\ ~OnErr(t)
        /\ OnNick(t) => ~Renamed(t[1], Head(inbox[t]))
        /\ sess'[t[1]].nickname = sess[t[1]].nickname
        /\ sess'[t[1]].desired = sess[t[1]].desired
    BY <1>0, <1>1, <1>3, LoginWaits
  <2>2. PICK n, d : n = sess[t[1]].nickname /\ d = sess[t[1]].desired
    OBVIOUS
  <2>3. Claimed(t, n, d)
    BY <1>1, <2>1, <2>2 DEF ClaimInv, NameUnderWay
  <2>4. Claimed(t, n, d)'
    BY <1>0, <1>1, <1>3, <2>1, <2>2, <2>3, ClaimedStays
  <2> QED BY <2>1, <2>2, <2>4
<1> QED BY <1>2, <1>3

\* Nobody has logged in at the start.
LEMMA ClaimInit == Init => ClaimInv
<1> SUFFICES ASSUME Init PROVE ClaimInv
  OBVIOUS
<1>1. MirrorInv
  BY MirrorInit
<1>2. \A s \in Session : ~sess[s].authenticated /\ ~sess[s].welcomed
  BY DEF Init, Fresh
<1>3. \A t \in Try : t[1] \in Session /\ link[t] = "none" /\ outbox[t] = <<>>
  BY TrySession DEF Init
<1>4. NotYet
  BY <1>2 DEF NotYet, Init
<1>5. SilentBefore /\ WelcomeAhead /\ WelcomeOnce /\ WantsItsName /\ NameUnderWay
  BY <1>2, <1>3 DEF SilentBefore, WelcomeAhead, WelcomeOnce, WantsItsName, NameUnderWay, Wired
<1> QED BY <1>1, <1>4, <1>5 DEF ClaimInv

\* No callback and no step of the server leads away from the name.
LEMMA ClaimStep ==
  ASSUME ClaimInv, "doubleLogin" \notin Faults, [Next]_vars
  PROVE  ClaimInv'
<1>1. MirrorInv /\ OwnInv /\ TypeInv
  BY DEF ClaimInv, MirrorInv, OwnInv
<1>2. MirrorInv' /\ OwnInv'
  BY <1>1, MirrorStep DEF MirrorInv
<1>3. NotYet'
  BY <1>1, NotYetStep DEF ClaimInv
<1>4. SilentBefore' /\ WantsItsName'
  BY <1>1, <1>2, SilentStep, WantsStep DEF ClaimInv
<1>5. WelcomeAhead' /\ WelcomeOnce'
  BY <1>1, <1>2, WelcomeAheadStep, WelcomeOnceStep DEF ClaimInv
<1>6. NameUnderWay'
  BY <1>2, NameUnderWayStep
<1> QED BY <1>2, <1>3, <1>4, <1>5, <1>6 DEF ClaimInv

\* A browser that becomes ready is told the name it logged in with, unless its
\* connection is crossed.
ToldItsName ==
  \A s \in Session :
    Hears(s) /\ sess'[s].ready /\ ~sess[s].ready /\ sess[s].backend \notin crossed
      => sess'[s].nickname = try[sess[s].backend].name

\* Readiness comes with WELCOME, under a name that need not be claimed, or with
\* the NICK that answers the claim.
LEMMA ReadyByName ==
  ASSUME ClaimInv, [Next]_vars
  PROVE  ToldItsName
<1> SUFFICES ASSUME NEW s \in Session, Hears(s), sess'[s].ready, ~sess[s].ready,
                    sess[s].backend \notin crossed
             PROVE  sess'[s].nickname = try[sess[s].backend].name
  BY DEF ToldItsName
<1>0. /\ OwnInv /\ TypeInv /\ MirrorInv /\ inbox \in [Try -> Seq(EventRecord)]
  BY DEF ClaimInv, MirrorInv, OwnInv, TypeInv, TypeOK
<1>1. ASSUME NEW t \in Try, t[1] = s, OnWelcome(t) \/ OnNick(t)
      PROVE  /\ ~crashed /\ Wired(t) /\ inbox[t] # <<>> /\ sess[s].backend = t
             /\ sess[s].desired = try[t].name /\ try[t].name \in Name
  <2>1. ~crashed /\ Wired(t) /\ inbox[t] # <<>>
    BY <1>1 DEF OnWelcome, OnNick, Emitted, Wired
  <2>2. sess[s].backend = t /\ sess[s].authenticated
    BY <1>0, <1>1, <2>1 DEF OwnInv, LinksOwned, TypeInv, SessionsOwned, Wired
  <2>3. try[t].name \in Name
    BY <1>0, <2>1 DEF TypeInv, TriesNamed, Wired
  <2> QED BY <2>1, <2>2, <2>3 DEF ClaimInv, WantsItsName
<1>2. ASSUME NEW t \in Try, t[1] = s, OnWelcome(t), Welcomes(Head(inbox[t]).new, sess[s], sess'[s])
      PROVE  sess'[s].nickname = try[sess[s].backend].name
  BY <1>1, <1>2, GatewayConstants DEF Welcomes
<1>3. ASSUME NEW t \in Try, t[1] = s, OnNick(t), Renamed(s, Head(inbox[t])),
             Follows(Head(inbox[t]).new, sess[s], sess'[s])
      PROVE  sess'[s].nickname = try[sess[s].backend].name
  <2>1. PICK q \in Seq(EventRecord) : q = inbox[t]
    BY <1>0
  <2>2. PICK n : n = sess[s].nickname
    OBVIOUS
  <2>3. q # <<>> /\ Head(q).type = "nick" /\ Head(q).old = n
    BY <1>3, <2>1, <2>2 DEF OnNick, Emitted, Renamed
  <2>4. n \in Name
    <3>1. Head(q) = q[1] /\ 1 \in 1 .. Len(q)
      BY <2>1, <2>3, QueueTail
    <3> QED BY <1>0, <2>1, <2>3, <3>1 DEF OwnInv, NamesHeard
  <2>5. sess[s].welcomed
    BY <1>0, <2>2, <2>4, GatewayConstants DEF OwnInv, NamesHeard
  <2>6. PICK d : d = sess[s].desired
    OBVIOUS
  <2>7. Claimed(t, n, d)
    BY <1>1, <1>3, <2>2, <2>5, <2>6 DEF ClaimInv, NameUnderWay
  <2>8. Turns(n, Head(q))
    BY <2>3 DEF Turns
  <2>9. ~Quiet(q, n)
    BY <2>1, <2>3, <2>8, QuietTail
  <2>10. Answered(q, n, d)
    BY <2>1, <2>7, <2>9 DEF Claimed
  <2>11. Head(q).new = d
    BY <2>1, <2>3, <2>8, <2>10, AnsweredTail
  <2> QED BY <1>1, <1>3, <2>1, <2>6, <2>11 DEF Follows
<1> QED BY <1>0, <1>2, <1>3, SessionMoves DEF SameSession, LogsIn, Shuts

\* Whoever is told of a login is told the name it was made with, not the default
\* name the server gave first, for any number of browsers, attempts and renames
\* under way at once, and whatever is lost or closed meanwhile, unless the
\* connection was given a name that another's NICK, not there yet, gives up.
\* Sessions do not log in twice at once (gatewayServer.ts:359-384).
THEOREM AnnouncedByTheirName ==
  ASSUME "doubleLogin" \notin Faults
  PROVE  Spec => AnnouncedByName
<1>1. Init => ClaimInv
  BY ClaimInit
<1>2. ClaimInv /\ [Next]_vars => ClaimInv'
  BY ClaimStep
<1>3. ClaimInv /\ [Next]_vars => [ToldItsName]_vars
  BY ReadyByName
<1>4. Spec => [][ToldItsName]_vars
  BY <1>1, <1>2, <1>3, PTL DEF Spec
<1> QED BY <1>4 DEF AnnouncedByName, ToldItsName

===============================================================================
