-------------------------- MODULE GatewayRouting_proofs --------------------------
(* Proofs about GatewayRouting: the types of everything, and what a page      *)
(* shows in the end of what was stored and sent.  Steps are first described   *)
(* one variable at a time (HandleFacts, PageMoves, SessMoves, ...): each of    *)
(* the invariants is then kept for a few reasons that many actions share.     *)
EXTENDS GatewayRouting, SequenceTheorems, FiniteSetTheorems, WellFoundedInduction, TLAPS

----------------------------------------------------------------------------
(* Sequences, and the elements of one at some of its places.               *)

\* An empty sequence is left by nothing.
LEMMA QueueTail ==
  ASSUME NEW T, NEW q \in Seq(T), q # <<>>
  PROVE  /\ Len(q) \in Nat /\ Len(q) >= 1 /\ Tail(q) \in Seq(T) /\ Len(Tail(q)) = Len(q) - 1
         /\ Head(q) = q[1] /\ q[1] \in T
         /\ \A k \in 1 .. Len(Tail(q)) : Tail(q)[k] = q[k + 1] /\ k + 1 \in 1 .. Len(q)
  BY HeadTailProperties

\* What is sent is behind what was.
LEMMA QueueAppend ==
  ASSUME NEW T, NEW q \in Seq(T), NEW e \in T
  PROVE  /\ Len(q) \in Nat /\ Append(q, e) \in Seq(T) /\ Len(Append(q, e)) = Len(q) + 1
         /\ Append(q, e)[Len(q) + 1] = e
         /\ \A k \in 1 .. Len(q) : Append(q, e)[k] = q[k]
         /\ \A k \in 1 .. Len(Append(q, e)) : k \in 1 .. Len(q) \/ k = Len(q) + 1
  BY AppendProperties

\* A set of places is finite.
LEMMA PlacesFinite ==
  ASSUME NEW n \in Nat, NEW I \in SUBSET (1 .. n)
  PROVE  IsFiniteSet(I)
<1>1. IsFiniteSet(1 .. n)
  BY FS_Interval
<1> QED BY <1>1, FS_Subset

\* A set of numbers that is bounded has a largest one.
LEMMA Last ==
  ASSUME NEW n \in Nat, NEW S \in SUBSET (1 .. n), S # {}
  PROVE  \E i \in S : \A j \in S : j <= i
<1> DEFINE above(i) == {j \in S : j > i}
           T == {above(i) : i \in S}
           R == StrictSubsetOrdering(S)
<1>1. IsFiniteSet(S)
  BY PlacesFinite
<1>2. IsWellFoundedOn(R, SUBSET S)
  BY <1>1, FS_StrictSubsetOrderingWellFounded, FS_FiniteSubsetsOfFinite
<1>3. T \subseteq SUBSET S /\ T # {}
  OBVIOUS
<1>4. PICK x \in T : \A y \in T : ~ (<<y, x>> \in R)
  <2> HIDE DEF T, R
  <2> QED BY <1>2, <1>3, WFMin
<1>5. PICK i \in S : x = above(i)
  BY <1>4
<1>6. ASSUME NEW j \in S, j > i PROVE FALSE
  <2>1. j \in Int /\ i \in Int /\ S \subseteq Int
    OBVIOUS
  <2>2. above(j) \subseteq above(i) /\ j \in above(i) /\ j \notin above(j)
    <3>1. \A k \in S : k > j => k > i
      BY <1>6, <2>1
    <3>2. ~(j > j)
      BY <2>1
    <3> QED BY <1>6, <3>1, <3>2
  <2>3. <<above(j), x>> \in R
    BY <1>5, <2>2 DEF StrictSubsetOrdering
  <2> QED BY <1>4, <1>6, <2>3
<1> QED BY <1>6

\* The numbers of I can be put in order.
Ordered(I) ==
  \E f \in [1..Cardinality(I) -> I] :
    /\ \A i \in I : \E k \in 1..Cardinality(I) : f[k] = i
    /\ \A j, k \in 1..Cardinality(I) : j < k => f[j] < f[k]

\* One more than all of them comes last.
LEMMA OrderedOneMore ==
  ASSUME NEW n \in Nat, NEW I \in SUBSET (1 .. n), NEW i \in 1 .. n,
         \A j \in I : j < i, Ordered(I)
  PROVE  Ordered(I \cup {i})
<1>1. PICK f \in [1..Cardinality(I) -> I] :
        /\ \A j \in I : \E k \in 1..Cardinality(I) : f[k] = j
        /\ \A j, k \in 1..Cardinality(I) : j < k => f[j] < f[k]
  BY DEF Ordered
<1>2. IsFiniteSet(I) /\ i \notin I
  <2>1. IsFiniteSet(I)
    BY PlacesFinite
  <2>2. ~(i < i)
    OBVIOUS
  <2> QED BY <2>1, <2>2
<1>3. PICK p \in Nat : p = Cardinality(I)
  BY <1>2, FS_CardinalityType
<1>4. PICK J : J = I \cup {i}
  OBVIOUS
<1>5. Cardinality(J) = p + 1
  BY <1>2, <1>3, <1>4, FS_AddElement
<1>6. PICK g : g = [k \in 1 .. (p + 1) |-> IF k = p + 1 THEN i ELSE f[k]]
  OBVIOUS
<1>7. \A k \in 1 .. p : g[k] = f[k] /\ f[k] \in I
  BY <1>1, <1>3, <1>6
<1>8. g[p + 1] = i
  BY <1>6
<1>9. g \in [1 .. (p + 1) -> J]
  <2>1. \A k \in 1 .. (p + 1) : g[k] \in J
    <3>1. ASSUME NEW k \in 1 .. (p + 1), k # p + 1 PROVE k \in 1 .. p
      BY <3>1
    <3> QED BY <1>4, <1>7, <1>8, <3>1
  <2> QED BY <1>6, <2>1
<1>10. \A j \in J : \E k \in 1 .. (p + 1) : g[k] = j
  BY <1>1, <1>3, <1>4, <1>7, <1>8
<1>11. ASSUME NEW j \in 1 .. (p + 1), NEW k \in 1 .. (p + 1), j < k
       PROVE  g[j] < g[k]
  <2>1. j \in 1 .. p
    BY <1>11
  <2>2. CASE k = p + 1
    BY <1>7, <1>8, <2>1, <2>2
  <2>3. CASE k # p + 1
    <3>1. k \in 1 .. p
      BY <2>3
    <3> QED BY <3>1, <1>1, <1>3, <1>7, <1>11, <2>1, <2>3
  <2> QED BY <2>2, <2>3
<1>12. \E h \in [1..Cardinality(J) -> J] :
         /\ \A j \in J : \E k \in 1..Cardinality(J) : h[k] = j
         /\ \A j, k \in 1..Cardinality(J) : j < k => h[j] < h[k]
  BY <1>5, <1>9, <1>10, <1>11
<1> QED BY <1>4, <1>12, Zenon DEF Ordered

\* Every set of places is in order, one way.
LEMMA AllOrdered ==
  ASSUME NEW n \in Nat, NEW I \in SUBSET (1 .. n)
  PROVE  Ordered(I)
<1> DEFINE B == {J \in SUBSET (1 .. n) : ~Ordered(J)}
           R == StrictSubsetOrdering(1 .. n)
<1> SUFFICES ASSUME B # {} PROVE FALSE
  OBVIOUS
<1>1. IsFiniteSet(1 .. n)
  BY FS_Interval
<1>2. IsWellFoundedOn(R, SUBSET (1 .. n))
  BY <1>1, FS_StrictSubsetOrderingWellFounded, FS_FiniteSubsetsOfFinite
<1>3. PICK J \in B : \A K \in B : ~ (<<K, J>> \in R)
  <2>1. B \subseteq SUBSET (1 .. n)
    OBVIOUS
  <2> HIDE DEF B, R
  <2> QED BY <1>2, <2>1, WFMin
<1>4. J \in SUBSET (1 .. n) /\ ~Ordered(J)
  BY <1>3
<1>5. CASE J = {}
  <2>1. Cardinality(J) = 0
    BY <1>5, FS_EmptySet
  <2>2. PICK f : f = [k \in 1 .. 0 |-> k]
    OBVIOUS
  <2>3. f \in [1 .. 0 -> {}]
    BY <2>2
  <2> QED BY <1>4, <1>5, <2>1, <2>3 DEF Ordered
<1>6. CASE J # {}
  <2>1. PICK i \in J : \A j \in J : j <= i
    BY <1>4, <1>6, Last
  <2>2. PICK K : K = J \ {i}
    OBVIOUS
  <2>3. K \in SUBSET (1 .. n) /\ i \in 1 .. n /\ K \cup {i} = J
    BY <1>4, <2>1, <2>2
  <2>4. \A j \in K : j < i
    BY <1>4, <2>1, <2>2
  <2>5. <<K, J>> \in R
    BY <1>4, <2>1, <2>2, <2>3 DEF StrictSubsetOrdering
  <2>6. Ordered(K)
    BY <1>3, <2>3, <2>5
  <2>7. Ordered(K \cup {i})
    BY <2>3, <2>4, <2>6, OrderedOneMore
  <2> QED BY <1>4, <2>3, <2>7
<1> QED BY <1>5, <1>6

\* Among(q, I) has the elements of q at the places of I and no others, in order.
LEMMA AmongFacts ==
  ASSUME NEW n \in Nat, NEW I \in SUBSET (1 .. n), NEW q
  PROVE  /\ Cardinality(I) \in Nat
         /\ Among(q, I) = [k \in 1 .. Cardinality(I) |-> q[Ascending(I)[k]]]
         /\ \A k \in 1 .. Cardinality(I) : Ascending(I)[k] \in I
         /\ \A i \in I : \E k \in 1 .. Cardinality(I) : Ascending(I)[k] = i
         /\ \A j, k \in 1 .. Cardinality(I) : j < k => Ascending(I)[j] < Ascending(I)[k]
<1>1. IsFiniteSet(I)
  BY PlacesFinite
<1>2. Cardinality(I) \in Nat
  BY <1>1, FS_CardinalityType
<1>3. Ordered(I)
  BY AllOrdered
<1>4. /\ Ascending(I) \in [1..Cardinality(I) -> I]
      /\ \A i \in I : \E k \in 1..Cardinality(I) : Ascending(I)[k] = i
      /\ \A j, k \in 1..Cardinality(I) : j < k => Ascending(I)[j] < Ascending(I)[k]
  BY <1>3, Zenon DEF Ordered, Ascending
<1> QED BY <1>2, <1>4 DEF Among

\* It is a sequence of what q is a sequence of.
LEMMA AmongSeq ==
  ASSUME NEW T, NEW q \in Seq(T), NEW I \in SUBSET (1 .. Len(q))
  PROVE  /\ Among(q, I) \in Seq(T) /\ Len(Among(q, I)) = Cardinality(I)
         /\ Cardinality(I) \in Nat
         /\ \A k \in 1 .. Len(Among(q, I)) : \E i \in I : Among(q, I)[k] = q[i]
         /\ \A i \in I : \E k \in 1 .. Len(Among(q, I)) : Among(q, I)[k] = q[i]
<1>1. PICK p : p = Cardinality(I)
  OBVIOUS
<1>2. PICK f : f = Ascending(I)
  OBVIOUS
<1>3. PICK r : r = Among(q, I)
  OBVIOUS
<1>4. /\ p \in Nat /\ r = [k \in 1 .. p |-> q[f[k]]]
      /\ \A k \in 1 .. p : f[k] \in I
      /\ \A i \in I : \E k \in 1 .. p : f[k] = i
  <2>1. PICK n \in Nat : n = Len(q)
    OBVIOUS
  <2>2. I \in SUBSET (1 .. n)
    BY <2>1
  <2>3. /\ Cardinality(I) \in Nat
        /\ Among(q, I) = [k \in 1 .. Cardinality(I) |-> q[Ascending(I)[k]]]
        /\ \A k \in 1 .. Cardinality(I) : Ascending(I)[k] \in I
        /\ \A i \in I : \E k \in 1 .. Cardinality(I) : Ascending(I)[k] = i
    BY <2>2, AmongFacts
  <2> QED BY <1>1, <1>2, <1>3, <2>3
<1>5. \A k \in 1 .. p : q[f[k]] \in T
  <2>1. \A i \in I : q[i] \in T
    OBVIOUS
  <2> QED BY <1>4, <2>1
<1>6. r \in Seq(T) /\ Len(r) = p
  BY <1>4, <1>5
<1>7. \A k \in 1 .. p : \E i \in I : r[k] = q[i]
  BY <1>4
<1>8. \A i \in I : \E k \in 1 .. p : r[k] = q[i]
  BY <1>4
<1> QED BY <1>1, <1>3, <1>4, <1>6, <1>7, <1>8

----------------------------------------------------------------------------
(* Pages, and what each case of the reducer makes of one.                  *)

\* Functions of a part of S, and the shape of a conversation and of a page.
Maps(S, T) == UNION {[D -> T] : D \in SUBSET S}

ConvRecord == [peer : Account \cup Name \cup {NoUser}, messages : Seq(PageMessage), unread : Nat]

PageRecord == [user : Account \cup {NoUser}, users : Maps(Account, Name),
               convs : Maps(ConvId, ConvRecord), active : ConvId, pending : BOOLEAN,
               listed : SUBSET Account]

\* A page has its public conversation and the one it has open, of which nothing
\* is unread.
PageFits(p) ==
  /\ p \in PageRecord
  /\ Public \in DOMAIN p.convs /\ p.active \in DOMAIN p.convs
  /\ p.convs[p.active].unread = 0
  /\ \A c \in DOMAIN p.convs : p.convs[c].unread <= Len(p.convs[c].messages)

\* Page q says what page p does: conversations may be new, or opened.
Calm(p, q) ==
  /\ PageFits(q) /\ q.user = p.user
  /\ DOMAIN p.convs \subseteq DOMAIN q.convs
  /\ \A c \in DOMAIN p.convs :
       /\ q.convs[c].messages = p.convs[c].messages
       /\ q.convs[c].unread = IF c = q.active THEN 0 ELSE p.convs[c].unread
  /\ \A c \in DOMAIN q.convs \ DOMAIN p.convs : q.convs[c].messages = <<>>

\* A map has values of its range at the keys it has.
LEMMA MapFacts ==
  ASSUME NEW S, NEW T, NEW f \in Maps(S, T)
  PROVE  DOMAIN f \subseteq S /\ f = [x \in DOMAIN f |-> f[x]] /\ \A x \in DOMAIN f : f[x] \in T
<1>1. PICK D \in SUBSET S : f \in [D -> T]
  BY DEF Maps
<1> QED BY <1>1

\* And the other way round.
LEMMA MapOf ==
  ASSUME NEW S, NEW T, NEW D \in SUBSET S, NEW f \in [D -> T]
  PROVE  f \in Maps(S, T)
  BY DEF Maps

\* Setting an entry changes that entry.
LEMMA WithFacts ==
  ASSUME NEW f, NEW x, NEW y
  PROVE  /\ DOMAIN With(f, x, y) = DOMAIN f \cup {x}
         /\ With(f, x, y)[x] = y
         /\ \A z \in DOMAIN f : z # x => With(f, x, y)[z] = f[z]
  BY DEF With

\* A map with an entry set is a map.
LEMMA WithMap ==
  ASSUME NEW S, NEW T, NEW f \in Maps(S, T), NEW x \in S, NEW y \in T
  PROVE  With(f, x, y) \in Maps(S, T)
<1>1. DOMAIN f \subseteq S /\ \A z \in DOMAIN f : f[z] \in T
  BY MapFacts
<1>2. PICK D \in SUBSET S : D = DOMAIN f \cup {x}
  BY <1>1
<1>3. PICK g : g = With(f, x, y)
  OBVIOUS
<1>4. g = [z \in D |-> IF z = x THEN y ELSE f[z]]
  BY <1>2, <1>3 DEF With
<1>5. \A z \in D : g[z] \in T
  BY <1>1, <1>2, <1>4
<1>6. g \in [D -> T]
  BY <1>4, <1>5
<1> QED BY <1>3, <1>6, MapOf

\* The fields of a page.
LEMMA PageFields ==
  ASSUME NEW p, PageFits(p)
  PROVE  /\ p.user \in Account \cup {NoUser} /\ p.users \in Maps(Account, Name)
         /\ p.convs \in Maps(ConvId, ConvRecord) /\ p.active \in ConvId
         /\ p.pending \in BOOLEAN /\ p.listed \subseteq Account
         /\ DOMAIN p.convs \subseteq ConvId
         /\ Public \in DOMAIN p.convs /\ p.active \in DOMAIN p.convs
         /\ p.convs[p.active].unread = 0
         /\ \A c \in DOMAIN p.convs :
              /\ p.convs[c] \in ConvRecord
              /\ p.convs[c].peer \in Account \cup Name \cup {NoUser}
              /\ p.convs[c].messages \in Seq(PageMessage)
              /\ p.convs[c].unread \in Nat
              /\ p.convs[c].unread <= Len(p.convs[c].messages)
<1>1. p.convs \in Maps(ConvId, ConvRecord)
  BY DEF PageFits, PageRecord
<1>2. DOMAIN p.convs \subseteq ConvId /\ \A c \in DOMAIN p.convs : p.convs[c] \in ConvRecord
  BY <1>1, MapFacts
<1>3. \A c \in DOMAIN p.convs :
        /\ p.convs[c].peer \in Account \cup Name \cup {NoUser}
        /\ p.convs[c].messages \in Seq(PageMessage)
        /\ p.convs[c].unread \in Nat
  BY <1>2 DEF ConvRecord
<1> QED BY <1>1, <1>2, <1>3 DEF PageFits, PageRecord

\* A page that nobody is logged in on.
LEMMA InitialFits == PageFits(InitialPage) /\ InitialPage.user = NoUser
<1>1. PICK g : g = [c \in {Public} |-> Conversation(NoUser)]
  OBVIOUS
<1>2. /\ Conversation(NoUser) \in ConvRecord
      /\ Conversation(NoUser).unread = 0 /\ Conversation(NoUser).messages = <<>>
  BY DEF Conversation, ConvRecord
<1>3. Public \in ConvId
  BY DEF ConvId
<1>4. g \in Maps(ConvId, ConvRecord)
  BY <1>1, <1>2, <1>3, MapOf
<1>5. PICK h : h = [x \in {} |-> x]
  OBVIOUS
<1>6. h \in Maps(Account, Name)
  <2>1. h \in [{} -> Name]
    BY <1>5
  <2> QED BY <2>1, MapOf
<1>7. InitialPage = [user |-> NoUser, users |-> h, convs |-> g, active |-> Public,
                     pending |-> FALSE, listed |-> {}]
  BY <1>1, <1>5 DEF InitialPage
<1>8. InitialPage \in PageRecord
  BY <1>3, <1>4, <1>6, <1>7 DEF PageRecord
<1>9. /\ InitialPage.convs = g /\ InitialPage.active = Public /\ InitialPage.user = NoUser
  BY <1>7
<1> QED BY <1>1, <1>2, <1>8, <1>9 DEF PageFits

\* LOGGED_OUT is the same but for a group that is still to come.
LEMMA LoggedOutFits ==
  ASSUME NEW p, PageFits(p)
  PROVE  PageFits(loggedOut(p)) /\ loggedOut(p).user = NoUser
<1>1. PICK q : q = InitialPage
  OBVIOUS
<1>2. PICK r : r = loggedOut(p)
  OBVIOUS
<1>3. PageFits(q) /\ q.user = NoUser
  BY <1>1, InitialFits
<1>4. r = [q EXCEPT !.pending = p.pending]
  BY <1>1, <1>2 DEF loggedOut
<1>5. q \in PageRecord /\ p.pending \in BOOLEAN
  BY <1>3, PageFields DEF PageFits
<1>6. r \in PageRecord /\ r.user = q.user /\ r.convs = q.convs /\ r.active = q.active
  BY <1>4, <1>5 DEF PageRecord
<1> QED BY <1>2, <1>3, <1>6 DEF PageFits

\* A page with other users, or another list in its dialog, says the same.
LEMMA CalmUsers ==
  ASSUME NEW p, PageFits(p), NEW q \in PageRecord,
         q.user = p.user, q.convs = p.convs, q.active = p.active
  PROVE  Calm(p, q)
  BY DEF PageFits, Calm

\* USER_UPDATE
LEMMA UserUpdateFacts ==
  ASSUME NEW p, PageFits(p), NEW u \in Account, NEW n \in Name, NEW q, q = userUpdate(p, u, n)
  PROVE  Calm(p, q) /\ q.users = With(p.users, u, n) /\ q.convs = p.convs /\ q.active = p.active
<1>1. p \in PageRecord /\ p.users \in Maps(Account, Name) /\ p.pending \in BOOLEAN
      /\ p.listed \in SUBSET Account
  BY PageFields DEF PageFits
<1>2. PICK us : us = With(p.users, u, n)
  OBVIOUS
<1>3. us \in Maps(Account, Name)
  BY <1>1, <1>2, WithMap
<1>4. PICK l \in SUBSET Account : l = p.listed \cup {u}
  BY <1>1
<1>5. q = [p EXCEPT !.users = us, !.listed = l]
  BY <1>2, <1>4 DEF userUpdate
<1>6. /\ q \in PageRecord /\ q.user = p.user /\ q.convs = p.convs /\ q.active = p.active
      /\ q.users = us
  BY <1>1, <1>3, <1>5 DEF PageRecord
<1> QED BY <1>2, <1>6, CalmUsers

\* USER_OFFLINE
LEMMA UserOfflineFacts ==
  ASSUME NEW p, PageFits(p), NEW u \in Account, NEW q, q = userOffline(p, u)
  PROVE  /\ Calm(p, q) /\ DOMAIN q.users = DOMAIN p.users \ {u}
         /\ \A x \in DOMAIN p.users \ {u} : q.users[x] = p.users[x]
         /\ q.convs = p.convs /\ q.active = p.active
<1>1. p \in PageRecord /\ p.users \in Maps(Account, Name) /\ p.pending \in BOOLEAN
      /\ p.listed \in SUBSET Account
  BY PageFields DEF PageFits
<1>2. PICK us : us = [x \in DOMAIN p.users \ {u} |-> p.users[x]]
  OBVIOUS
<1>3. PICK D : D = DOMAIN p.users \ {u}
  OBVIOUS
<1>4. D \in SUBSET Account /\ \A x \in D : p.users[x] \in Name
  BY <1>1, <1>3, MapFacts
<1>5. us \in [D -> Name]
  BY <1>2, <1>3, <1>4
<1>6. us \in Maps(Account, Name)
  BY <1>4, <1>5, MapOf
<1>7. q = [p EXCEPT !.users = us]
  BY <1>2 DEF userOffline
<1>8. /\ q \in PageRecord /\ q.user = p.user /\ q.convs = p.convs /\ q.active = p.active
      /\ q.users = us
  BY <1>1, <1>6, <1>7 DEF PageRecord
<1> QED BY <1>2, <1>8, CalmUsers

\* MARK_PENDING_GROUP_CREATION
LEMMA MarkPendingFacts ==
  ASSUME NEW p, PageFits(p), NEW q, q = markPending(p)
  PROVE  Calm(p, q) /\ q.users = p.users /\ q.convs = p.convs /\ q.active = p.active
<1>1. /\ q \in PageRecord /\ q.user = p.user /\ q.convs = p.convs /\ q.active = p.active
      /\ q.users = p.users
  BY DEF PageFits, PageRecord, markPending
<1> QED BY <1>1, CalmUsers

\* What page p shows in conversation c, if it has it.
Said(p, c) == IF c \in DOMAIN p.convs THEN p.convs[c].messages ELSE <<>>

\* Page q is page p with line e added in conversation c.
Adds(p, q, c, e) ==
  /\ PageFits(q) /\ q.user = p.user /\ q.users = p.users /\ q.active = p.active
  /\ DOMAIN q.convs = DOMAIN p.convs \cup {c}
  /\ \A d \in DOMAIN p.convs : d # c => q.convs[d] = p.convs[d]
  /\ q.convs[c].messages = Append(Said(p, c), e)
  /\ c \in DOMAIN p.convs =>
       q.convs[c].unread = IF c = p.active THEN 0
                           ELSE IF e = ErrorLine THEN p.convs[c].unread
                           ELSE p.convs[c].unread + 1

\* A page that is left alone says the same.
LEMMA CalmSame ==
  ASSUME NEW p, PageFits(p)
  PROVE  Calm(p, p)
  BY DEF Calm, PageFits

\* So does one after two calm steps, one of which leaves the open conversation.
LEMMA CalmThen ==
  ASSUME NEW p, NEW q, NEW r, PageFits(p), Calm(p, q), Calm(q, r),
         q.active = p.active \/ q.active = r.active
  PROVE  Calm(p, r)
<1>1. p.convs[p.active].unread = 0
  BY DEF PageFits
<1>2. ASSUME NEW c \in DOMAIN p.convs
      PROVE  /\ c \in DOMAIN r.convs /\ r.convs[c].messages = p.convs[c].messages
             /\ r.convs[c].unread = IF c = r.active THEN 0 ELSE p.convs[c].unread
  <2>1. c \in DOMAIN q.convs /\ q.convs[c].messages = p.convs[c].messages
        /\ q.convs[c].unread = IF c = q.active THEN 0 ELSE p.convs[c].unread
    BY DEF Calm
  <2>2. c \in DOMAIN r.convs /\ r.convs[c].messages = q.convs[c].messages
        /\ r.convs[c].unread = IF c = r.active THEN 0 ELSE q.convs[c].unread
    BY <2>1 DEF Calm
  <2> QED BY <1>1, <2>1, <2>2
<1>3. ASSUME NEW c \in DOMAIN r.convs \ DOMAIN p.convs
      PROVE  r.convs[c].messages = <<>>
  <2>1. CASE c \in DOMAIN q.convs
    BY <2>1 DEF Calm
  <2>2. CASE c \notin DOMAIN q.convs
    BY <2>2 DEF Calm
  <2> QED BY <2>1, <2>2
<1>4. PageFits(r) /\ r.user = p.user
  BY DEF Calm
<1> QED BY <1>2, <1>3, <1>4 DEF Calm

\* The conversation a summary describes.
LEMMA SummaryFits ==
  ASSUME NEW c, NEW members \in SUBSET (Account \cup Name), NEW self
  PROVE  /\ FromSummary(c, members, self) \in ConvRecord
         /\ FromSummary(c, members, self).messages = <<>>
         /\ FromSummary(c, members, self).unread = 0
<1>1. PICK u : u = IF c.kind = "direct" /\ members \ {self} # {}
                   THEN CHOOSE x \in members : x # self ELSE NoUser
  OBVIOUS
<1>2. u \in Account \cup Name \cup {NoUser}
  BY <1>1
<1>3. FromSummary(c, members, self) = [peer |-> u, messages |-> <<>>, unread |-> 0]
  BY <1>1, Zenon DEF FromSummary, Conversation
<1> QED BY <1>2, <1>3 DEF ConvRecord

\* A page with a conversation set.
LEMMA ConvSet ==
  ASSUME NEW p, PageFits(p), NEW c \in ConvId, NEW v \in ConvRecord
  PROVE  With(p.convs, c, v) \in Maps(ConvId, ConvRecord)
<1>1. PICK g \in Maps(ConvId, ConvRecord) : g = p.convs
  BY PageFields
<1>2. With(g, c, v) \in Maps(ConvId, ConvRecord)
  BY WithMap
<1> QED BY <1>1, <1>2

\* CONVERSATION_CREATED
LEMMA CreatedFacts ==
  ASSUME NEW p, PageFits(p), NEW c \in ConvId, NEW members \in SUBSET (Account \cup Name),
         NEW q, q = conversationCreated(p, c, members)
  PROVE  /\ Calm(p, q) /\ q.users = p.users
         /\ p.user # NoUser => DOMAIN q.convs = DOMAIN p.convs \cup {c}
         /\ p.user = NoUser => q = p
         /\ c.kind = "direct" => q.active = p.active
<1>1. CASE p.user = NoUser
  <2>1. q = p
    BY <1>1, Zenon DEF conversationCreated
  <2> QED BY <1>1, <2>1, CalmSame
<1>2. CASE p.user # NoUser
  <2>1. PICK old \in BOOLEAN : old <=> c \in DOMAIN p.convs
    OBVIOUS
  <2>2. PICK mine \in BOOLEAN : mine <=> p.pending /\ c.kind = "group" /\ p.user \in members /\ ~old
    OBVIOUS
  <2>3. PICK incoming : incoming = FromSummary(c, members, p.user)
    OBVIOUS
  <2>4. incoming \in ConvRecord /\ incoming.messages = <<>> /\ incoming.unread = 0
    BY <2>3, SummaryFits
  <2>5. PICK v : v = IF old THEN [p.convs[c] EXCEPT !.peer = incoming.peer] ELSE incoming
    OBVIOUS
  <2>6. /\ v \in ConvRecord
        /\ old => v.messages = p.convs[c].messages /\ v.unread = p.convs[c].unread
        /\ ~old => v.messages = <<>> /\ v.unread = 0
    <3>1. CASE old
      <4>1. p.convs[c] \in ConvRecord
        BY <2>1, <3>1, PageFields
      <4>2. incoming.peer \in Account \cup Name \cup {NoUser}
        BY <2>4 DEF ConvRecord
      <4>3. v = [p.convs[c] EXCEPT !.peer = incoming.peer]
        BY <2>5, <3>1
      <4> QED BY <3>1, <4>1, <4>2, <4>3 DEF ConvRecord
    <3>2. CASE ~old
      BY <2>4, <2>5, <3>2
    <3> QED BY <3>1, <3>2
  <2>7. PICK f : f = With(p.convs, c, v)
    OBVIOUS
  <2>8. /\ f \in Maps(ConvId, ConvRecord) /\ DOMAIN f = DOMAIN p.convs \cup {c}
        /\ f[c] = v /\ \A d \in DOMAIN p.convs : d # c => f[d] = p.convs[d]
    <3>1. v \in ConvRecord
      BY <2>6
    <3>2. f \in Maps(ConvId, ConvRecord)
      BY <2>7, <3>1, ConvSet
    <3> QED BY <2>7, <3>2 DEF With
  <2>9. PICK act : act = IF mine THEN c ELSE p.active
    OBVIOUS
  <2>10. PICK l : l = IF mine THEN DOMAIN p.users ELSE p.listed
    OBVIOUS
  <2>11. p \in PageRecord /\ p.users \in Maps(Account, Name) /\ p.listed \in SUBSET Account
         /\ p.active \in ConvId /\ p.pending \in BOOLEAN /\ p.active \in DOMAIN p.convs
         /\ p.convs[p.active].unread = 0
    BY PageFields DEF PageFits
  <2>12. act \in ConvId /\ act \in DOMAIN f /\ f[act].unread = 0
    BY <2>1, <2>2, <2>6, <2>8, <2>9, <2>11
  <2>13. l \in SUBSET Account
    BY <2>10, <2>11, MapFacts
  <2>14. q = [p EXCEPT !.convs = f, !.active = act, !.pending = p.pending /\ ~mine, !.listed = l]
    <3>1. q = [p EXCEPT !.convs = With(p.convs, c, v), !.active = IF mine THEN c ELSE p.active,
                        !.pending = p.pending /\ ~mine,
                        !.listed = IF mine THEN DOMAIN p.users ELSE p.listed]
      BY <1>2, <2>1, <2>2, <2>3, <2>5 DEF conversationCreated
    <3> QED BY <2>7, <2>9, <2>10, <3>1
  <2>15. /\ q \in PageRecord /\ q.user = p.user /\ q.users = p.users /\ q.convs = f /\ q.active = act
    BY <2>8, <2>11, <2>12, <2>13, <2>14 DEF PageRecord
  <2>16. \A d \in DOMAIN p.convs :
           /\ f[d].messages = p.convs[d].messages
           /\ f[d].unread = p.convs[d].unread
    BY <2>1, <2>6, <2>8
  <2>17. \A d \in DOMAIN f \ DOMAIN p.convs : f[d].messages = <<>> /\ f[d].unread = 0
    BY <2>1, <2>6, <2>8
  <2>18. \A d \in DOMAIN p.convs : p.convs[d].unread <= Len(p.convs[d].messages)
    BY PageFields
  <2>19. PageFits(q)
    <3>1. \A d \in DOMAIN f : f[d].unread <= Len(f[d].messages)
      BY <2>16, <2>17, <2>18
    <3>2. Public \in DOMAIN f
      BY <2>8 DEF PageFits
    <3> QED BY <2>12, <2>15, <3>1, <3>2 DEF PageFits
  <2>20. \A d \in DOMAIN p.convs : f[d].unread = IF d = act THEN 0 ELSE p.convs[d].unread
    BY <2>12, <2>16
  <2>21. Calm(p, q)
    BY <2>8, <2>15, <2>16, <2>17, <2>19, <2>20 DEF Calm
  <2>22. c.kind = "direct" => act = p.active
    BY <2>2, <2>9
  <2> QED BY <1>2, <2>8, <2>15, <2>21, <2>22
<1> QED BY <1>1, <1>2

\* The ids of conversations.
LEMMA DirectId ==
  ASSUME NEW a \in Account, NEW x \in Account \cup Name
  PROVE  /\ Direct(a, x) \in ConvId /\ Direct(a, x).kind = "direct" /\ Direct(a, x).ids = {a, x}
         /\ Direct(a, x) # Public
<1>1. Direct(a, x) \in ConvId
  BY DEF ConvId
<1>2. Direct(a, x).kind = "direct" /\ Direct(a, x).ids = {a, x}
  BY DEF Direct
<1> QED BY <1>1, <1>2 DEF Public

\* Groups are told apart by their number.
LEMMA GroupId ==
  ASSUME NEW i, NEW j
  PROVE  /\ Group(i).kind = "group" /\ Group(i) # Public /\ Group(i).n = i
         /\ Group(i) = Group(j) => i = j
         /\ i \in 1 .. MaxGroups => Group(i) \in ConvId
<1>1. Group(i).kind = "group" /\ Group(i).n = i /\ Group(j).n = j
  BY DEF Group
<1>2. i \in 1 .. MaxGroups => Group(i) \in ConvId
  BY DEF ConvId
<1>3. Group(i) = Group(j) => i = j
  BY <1>1
<1> QED BY <1>1, <1>2, <1>3 DEF Public

\* SET_ACTIVE_CONVERSATION
LEMMA SetActiveFacts ==
  ASSUME NEW p, PageFits(p), NEW c, NEW q, q = setActive(p, c)
  PROVE  /\ Calm(p, q) /\ q.users = p.users /\ DOMAIN q.convs = DOMAIN p.convs
         /\ c \in DOMAIN p.convs => q.active = c
<1>1. CASE c \notin DOMAIN p.convs
  <2>1. q = p
    BY <1>1 DEF setActive
  <2> QED BY <1>1, <2>1, CalmSame
<1>2. CASE c \in DOMAIN p.convs
  <2>1. PICK v : v = [p.convs[c] EXCEPT !.unread = 0]
    OBVIOUS
  <2>2. p.convs[c] \in ConvRecord /\ c \in ConvId
    BY <1>2, PageFields
  <2>3. v \in ConvRecord /\ v.messages = p.convs[c].messages /\ v.unread = 0
    BY <2>1, <2>2 DEF ConvRecord
  <2>4. PICK f : f = With(p.convs, c, v)
    OBVIOUS
  <2>5. f \in Maps(ConvId, ConvRecord)
    BY <2>2, <2>3, <2>4, ConvSet
  <2>6. /\ DOMAIN f = DOMAIN p.convs /\ f[c] = v
        /\ \A d \in DOMAIN p.convs : d # c => f[d] = p.convs[d]
    BY <1>2, <2>4 DEF With
  <2>7. [p.convs EXCEPT ![c].unread = 0] = f
    <3>1. p.convs \in Maps(ConvId, ConvRecord)
      BY PageFields
    <3>2. [p.convs EXCEPT ![c].unread = 0] = [d \in DOMAIN p.convs |-> IF d = c THEN v ELSE p.convs[d]]
      BY <2>1
    <3>3. f = [d \in DOMAIN p.convs |-> IF d = c THEN v ELSE p.convs[d]]
      <4>1. DOMAIN p.convs \cup {c} = DOMAIN p.convs
        BY <1>2
      <4> QED BY <2>4, <4>1 DEF With
    <3> QED BY <3>2, <3>3
  <2>8. q = [p EXCEPT !.active = c, !.convs = f]
    <3>1. q = [p EXCEPT !.active = c, !.convs = [p.convs EXCEPT ![c].unread = 0]]
      BY <1>2 DEF setActive
    <3> QED BY <2>7, <3>1
  <2>9. /\ q \in PageRecord /\ q.user = p.user /\ q.users = p.users /\ q.convs = f /\ q.active = c
    BY <2>2, <2>5, <2>8 DEF PageFits, PageRecord
  <2>10. \A d \in DOMAIN p.convs :
           /\ f[d].messages = p.convs[d].messages
           /\ f[d].unread = IF d = c THEN 0 ELSE p.convs[d].unread
    BY <2>3, <2>6
  <2>11. \A d \in DOMAIN p.convs : /\ p.convs[d].unread <= Len(p.convs[d].messages)
                                   /\ p.convs[d].messages \in Seq(PageMessage)
    BY PageFields
  <2>12. PageFits(q)
    <3>1. \A d \in DOMAIN f : f[d].unread <= Len(f[d].messages)
      BY <2>6, <2>10, <2>11
    <3> QED BY <1>2, <2>3, <2>6, <2>9, <3>1 DEF PageFits
  <2> QED BY <2>6, <2>9, <2>10, <2>12 DEF Calm
<1> QED BY <1>1, <1>2

\* startDirectConversation
LEMMA StartDirectFacts ==
  ASSUME NEW p, PageFits(p), NEW b \in Account, p.user \in Account,
         NEW q, q = startDirect(p, b)
  PROVE  /\ Calm(p, q) /\ q.users = p.users
         /\ DOMAIN q.convs = DOMAIN p.convs \cup {Direct(p.user, b)}
         /\ q.active = Direct(p.user, b)
<1>0. p.user # NoUser
  BY RoutingConstants
<1>1. PICK c : c = Direct(p.user, b)
  OBVIOUS
<1>2. c \in ConvId /\ c.kind = "direct"
  BY <1>1, DirectId
<1>3. PICK r : r = IF c \in DOMAIN p.convs THEN p ELSE conversationCreated(p, c, {p.user, b})
  OBVIOUS
<1>4. /\ Calm(p, r) /\ r.users = p.users /\ r.active = p.active
      /\ DOMAIN r.convs = DOMAIN p.convs \cup {c}
  <2>1. CASE c \in DOMAIN p.convs
    <3>1. r = p
      BY <1>3, <2>1
    <3> QED BY <2>1, <3>1, CalmSame
  <2>2. CASE c \notin DOMAIN p.convs
    <3>1. PICK ms \in SUBSET (Account \cup Name) : ms = {p.user, b}
      OBVIOUS
    <3>2. r = conversationCreated(p, c, ms)
      BY <1>3, <2>2, <3>1
    <3> QED BY <1>0, <1>2, <3>2, CreatedFacts
  <2> QED BY <2>1, <2>2
<1>5. q = setActive(r, c)
  BY <1>1, <1>3 DEF startDirect
<1>6. PageFits(r) /\ c \in DOMAIN r.convs
  BY <1>4 DEF Calm
<1>7. Calm(r, q) /\ q.users = r.users /\ DOMAIN q.convs = DOMAIN r.convs /\ q.active = c
  BY <1>5, <1>6, SetActiveFacts
<1>8. Calm(p, q)
  BY <1>4, <1>6, <1>7, CalmThen
<1> QED BY <1>1, <1>4, <1>7, <1>8

\* The two ways in which a line is added.
LEMMA AddsFits ==
  ASSUME NEW p, PageFits(p), NEW c \in ConvId, NEW e \in PageMessage,
         NEW v \in ConvRecord, v.messages = Append(Said(p, c), e),
         v.unread <= Len(v.messages),
         c = p.active => v.unread = 0,
         c \in DOMAIN p.convs =>
           v.unread = IF c = p.active THEN 0
                      ELSE IF e = ErrorLine THEN p.convs[c].unread ELSE p.convs[c].unread + 1,
         NEW q \in PageRecord, q.user = p.user, q.users = p.users, q.active = p.active,
         q.convs = With(p.convs, c, v)
  PROVE  Adds(p, q, c, e)
<1>1. PICK f : f = With(p.convs, c, v)
  OBVIOUS
<1>2. /\ DOMAIN f = DOMAIN p.convs \cup {c} /\ f[c] = v
      /\ \A d \in DOMAIN p.convs : d # c => f[d] = p.convs[d]
  BY <1>1 DEF With
<1>3. /\ \A d \in DOMAIN p.convs : p.convs[d].unread <= Len(p.convs[d].messages)
      /\ Public \in DOMAIN p.convs /\ p.active \in DOMAIN p.convs /\ p.convs[p.active].unread = 0
  BY DEF PageFits
<1>4. \A d \in DOMAIN f : f[d].unread <= Len(f[d].messages)
  BY <1>2, <1>3
<1>5. f[p.active].unread = 0
  BY <1>2, <1>3
<1>6. PageFits(q)
  BY <1>1, <1>2, <1>3, <1>4, <1>5 DEF PageFits
<1> QED BY <1>1, <1>2, <1>6 DEF Adds

\* ERROR_MESSAGE
LEMMA ErrorFacts ==
  ASSUME NEW p, PageFits(p), NEW c, NEW q, q = errorIn(p, c)
  PROVE  \/ q = p
         \/ Adds(p, q, c, ErrorLine) /\ c \in DOMAIN p.convs
<1> SUFFICES ASSUME p.user # NoUser, c \in DOMAIN p.convs
             PROVE  Adds(p, q, c, ErrorLine)
  BY Zenon DEF errorIn
<1>1. PICK ms \in Seq(PageMessage) : ms = p.convs[c].messages
  BY PageFields
<1>2. PICK v : v = [p.convs[c] EXCEPT !.messages = Append(ms, ErrorLine)]
  OBVIOUS
<1>3. p.convs[c] \in ConvRecord /\ c \in ConvId /\ p.convs[c].unread <= Len(ms)
      /\ p.convs[c].unread \in Nat
  BY <1>1, PageFields
<1>4. PICK e \in PageMessage : e = ErrorLine
  BY DEF PageMessage
<1>5. Append(ms, e) \in Seq(PageMessage) /\ Len(Append(ms, e)) = Len(ms) + 1 /\ Len(ms) \in Nat
  BY QueueAppend
<1>6. v \in ConvRecord /\ v.messages = Append(ms, e) /\ v.unread = p.convs[c].unread
  BY <1>2, <1>3, <1>4, <1>5 DEF ConvRecord
<1>7. With(p.convs, c, v) \in Maps(ConvId, ConvRecord)
  BY <1>3, <1>6, ConvSet
<1>8. PICK f : f = With(p.convs, c, v)
  OBVIOUS
<1>9. [p.convs EXCEPT ![c].messages = Append(@, ErrorLine)] = f
  <2>1. [p.convs EXCEPT ![c].messages = Append(@, ErrorLine)]
          = [d \in DOMAIN p.convs |-> IF d = c THEN v ELSE p.convs[d]]
    BY <1>1, <1>2
  <2>2. DOMAIN p.convs \cup {c} = DOMAIN p.convs
    OBVIOUS
  <2> QED BY <1>8, <2>1, <2>2 DEF With
<1>10. q = [p EXCEPT !.convs = f]
  <2>1. q = [p EXCEPT !.convs = [p.convs EXCEPT ![c].messages = Append(@, ErrorLine)]]
    BY DEF errorIn
  <2> QED BY <1>9, <2>1
<1>11. /\ q \in PageRecord /\ q.user = p.user /\ q.users = p.users /\ q.active = p.active
       /\ q.convs = With(p.convs, c, v)
  BY <1>7, <1>8, <1>10 DEF PageFits, PageRecord
<1>12. v.messages = Append(Said(p, c), e) /\ v.unread <= Len(v.messages)
  BY <1>1, <1>3, <1>5, <1>6 DEF Said
<1>13. c = p.active => v.unread = 0
  BY <1>6 DEF PageFits
<1>14. v.unread = IF c = p.active THEN 0
                  ELSE IF e = ErrorLine THEN p.convs[c].unread ELSE p.convs[c].unread + 1
  BY <1>4, <1>6, <1>13
<1>15. Adds(p, q, c, e)
  BY <1>3, <1>6, <1>11, <1>12, <1>13, <1>14, AddsFits
<1> QED BY <1>4, <1>15

\* MESSAGE_RECEIVED
LEMMA ReceivedFacts ==
  ASSUME NEW p, PageFits(p), NEW c \in ConvId, NEW m \in 1 .. MaxMessages,
         NEW from \in Account \cup {NoUser}, NEW q, q = messageReceived(p, c, m, from)
  PROVE  Adds(p, q, c, [m |-> m, from |-> from]) /\ [m |-> m, from |-> from] \in PageMessage
<1>1. PICK e : e = [m |-> m, from |-> from]
  OBVIOUS
<1>2. e \in PageMessage /\ e.m = m
  BY <1>1 DEF PageMessage
<1>3. e # ErrorLine
  BY <1>2 DEF ErrorLine
<1>4. PICK w : w = IF c \in DOMAIN p.convs THEN p.convs[c] ELSE Conversation(NoUser)
  OBVIOUS
<1>5. /\ w \in ConvRecord /\ w.messages = Said(p, c)
      /\ w.unread \in Nat /\ w.unread <= Len(w.messages) /\ w.messages \in Seq(PageMessage)
      /\ c \in DOMAIN p.convs => w.unread = p.convs[c].unread
  <2>1. CASE c \in DOMAIN p.convs
    <3>1. w = p.convs[c]
      BY <1>4, <2>1
    <3> QED BY <2>1, <3>1, PageFields DEF Said
  <2>2. CASE c \notin DOMAIN p.convs
    <3>1. w = [peer |-> NoUser, messages |-> <<>>, unread |-> 0]
      BY <1>4, <2>2 DEF Conversation
    <3>2. Len(<<>>) = 0 /\ <<>> \in Seq(PageMessage)
      OBVIOUS
    <3> QED BY <2>2, <3>1, <3>2 DEF Said, ConvRecord
  <2> QED BY <2>1, <2>2
<1>6. PICK ms \in Seq(PageMessage) : ms = w.messages
  BY <1>5
<1>7. PICK n \in Nat : n = IF p.active = c THEN 0 ELSE w.unread + 1
  BY <1>5
<1>8. Append(ms, e) \in Seq(PageMessage) /\ Len(Append(ms, e)) = Len(ms) + 1 /\ Len(ms) \in Nat
  BY <1>2, QueueAppend
<1>9. PICK v : v = [w EXCEPT !.messages = Append(ms, e), !.unread = n]
  OBVIOUS
<1>10. v \in ConvRecord /\ v.messages = Append(ms, e) /\ v.unread = n
  BY <1>5, <1>8, <1>9 DEF ConvRecord
<1>11. q = [p EXCEPT !.convs = With(p.convs, c, v)]
  <2>1. q = [p EXCEPT !.convs =
               With(p.convs, c, [w EXCEPT !.messages = Append(w.messages, e),
                                          !.unread = IF p.active = c THEN 0 ELSE w.unread + 1])]
    BY <1>1, <1>4, <1>5 DEF messageReceived, ConvRecord
  <2> QED BY <1>6, <1>7, <1>9, <2>1
<1>12. With(p.convs, c, v) \in Maps(ConvId, ConvRecord)
  BY <1>10, ConvSet
<1>13. /\ q \in PageRecord /\ q.user = p.user /\ q.users = p.users /\ q.active = p.active
       /\ q.convs = With(p.convs, c, v)
  BY <1>11, <1>12 DEF PageFits, PageRecord
<1>14. v.messages = Append(Said(p, c), e) /\ v.unread <= Len(v.messages)
  BY <1>5, <1>6, <1>7, <1>8, <1>10
<1>15. c = p.active => v.unread = 0
  BY <1>7, <1>10
<1>16. c \in DOMAIN p.convs =>
         v.unread = IF c = p.active THEN 0
                    ELSE IF e = ErrorLine THEN p.convs[c].unread ELSE p.convs[c].unread + 1
  BY <1>3, <1>5, <1>7, <1>10
<1>17. Adds(p, q, c, e)
  BY <1>2, <1>10, <1>13, <1>14, <1>15, <1>16, AddsFits
<1> QED BY <1>1, <1>2, <1>17

\* READY, row by row.
HistoryRow == [m : 1 .. MaxMessages, conv : ConvId, from : Account]
RowLines(h) == [i \in 1 .. Len(h) |-> [m |-> h[i].m, from |-> h[i].from]]
RowsOf(h, c) == {i \in 1 .. Len(h) : h[i].conv = c}

\* What a page shows after it.
Readied(q, self, us, sums, h) ==
  /\ PageFits(q) /\ q.user = self /\ q.users = us /\ q.active = Public
  /\ DOMAIN q.convs = {Public} \cup DOMAIN sums
  /\ \A c \in DOMAIN q.convs : /\ q.convs[c].unread = 0
                               /\ q.convs[c].messages = Among(RowLines(h), RowsOf(h, c))

\* A page that is ready has what is in the snapshot.
LEMMA ReadyFacts ==
  ASSUME NEW p, PageFits(p), NEW self \in Account, NEW us \in Maps(Account, Name),
         NEW sums \in Maps(ConvId, SUBSET (Account \cup Name)), NEW h \in Seq(HistoryRow),
         NEW q, q = ready(p, self, us, sums, h)
  PROVE  Readied(q, self, us, sums, h)
<1>1. PICK g : g = [i \in DOMAIN h |-> [m |-> h[i].m, from |-> h[i].from]]
  OBVIOUS
<1>2. DOMAIN h = 1 .. Len(h) /\ Len(h) \in Nat /\ \A i \in 1 .. Len(h) : h[i] \in HistoryRow
  OBVIOUS
<1>3. g = RowLines(h)
  BY <1>1, <1>2 DEF RowLines
<1>4. g \in Seq(PageMessage) /\ Len(g) = Len(h)
  <2>1. \A i \in 1 .. Len(h) : [m |-> h[i].m, from |-> h[i].from] \in PageMessage
    BY <1>2 DEF HistoryRow, PageMessage
  <2> QED BY <1>1, <1>2, <2>1
<1>5. PICK msgs : msgs = [c \in {Public} \cup DOMAIN sums |->
                           Among(g, {i \in DOMAIN h : h[i].conv = c})]
  OBVIOUS
<1>6. ASSUME NEW c \in {Public} \cup DOMAIN sums
      PROVE  msgs[c] = Among(RowLines(h), RowsOf(h, c)) /\ msgs[c] \in Seq(PageMessage)
  <2>1. PICK I : I = RowsOf(h, c)
    OBVIOUS
  <2>2. I \in SUBSET (1 .. Len(g)) /\ I = {i \in DOMAIN h : h[i].conv = c}
    BY <1>2, <1>4, <2>1 DEF RowsOf
  <2>3. Among(g, I) \in Seq(PageMessage)
    BY <1>4, <2>2, AmongSeq
  <2>4. msgs[c] = Among(g, I)
    BY <1>5, <2>2
  <2> QED BY <1>3, <2>1, <2>3, <2>4
<1>7. PICK conv : conv = [c \in {Public} \cup DOMAIN sums |->
                           IF c = Public THEN Conversation(NoUser)
                           ELSE FromSummary(c, sums[c], self)]
  OBVIOUS
<1>8. ASSUME NEW c \in {Public} \cup DOMAIN sums
      PROVE  conv[c] \in ConvRecord /\ conv[c].unread = 0
  <2>1. CASE c = Public
    <3>1. conv[c] = [peer |-> NoUser, messages |-> <<>>, unread |-> 0]
      BY <1>7, <2>1 DEF Conversation
    <3> QED BY <3>1 DEF ConvRecord
  <2>2. CASE c # Public
    <3>1. PICK ms \in SUBSET (Account \cup Name) : ms = sums[c]
      BY <2>2, MapFacts
    <3>2. conv[c] = FromSummary(c, ms, self)
      BY <1>7, <2>2, <3>1
    <3> QED BY <3>2, SummaryFits
  <2> QED BY <2>1, <2>2
<1>9. PICK f : f = [c \in {Public} \cup DOMAIN sums |-> [conv[c] EXCEPT !.messages = msgs[c]]]
  OBVIOUS
<1>10. ASSUME NEW c \in {Public} \cup DOMAIN sums
       PROVE  f[c] \in ConvRecord /\ f[c].unread = 0 /\ f[c].messages = msgs[c]
  <2>1. conv[c] \in ConvRecord /\ conv[c].unread = 0 /\ msgs[c] \in Seq(PageMessage)
    BY <1>6, <1>8
  <2>2. f[c] = [conv[c] EXCEPT !.messages = msgs[c]]
    BY <1>9
  <2> QED BY <2>1, <2>2 DEF ConvRecord
<1>11. PICK D \in SUBSET ConvId : D = {Public} \cup DOMAIN sums
  <2>1. DOMAIN sums \subseteq ConvId
    BY MapFacts
  <2>2. Public \in ConvId
    BY DEF ConvId
  <2> QED BY <2>1, <2>2
<1>12. f \in Maps(ConvId, ConvRecord)
  <2>1. f \in [D -> ConvRecord]
    BY <1>9, <1>10, <1>11
  <2> QED BY <2>1, MapOf
<1>13. PICK l \in SUBSET Account : l = p.listed \cup DOMAIN us
  <2>1. DOMAIN us \in SUBSET Account
    BY MapFacts
  <2> QED BY <2>1, PageFields
<1>14. q = [p EXCEPT !.user = self, !.users = us, !.active = Public, !.listed = l, !.convs = f]
  <2>1. q = [p EXCEPT !.user = self, !.users = us, !.active = Public,
                      !.listed = p.listed \cup DOMAIN us,
                      !.convs = [c \in {Public} \cup DOMAIN sums |->
                                   [(IF c = Public THEN Conversation(NoUser)
                                     ELSE FromSummary(c, sums[c], self))
                                      EXCEPT !.messages = Among(g, {i \in DOMAIN h : h[i].conv = c})]]]
    BY <1>1 DEF ready
  <2>2. f = [c \in {Public} \cup DOMAIN sums |->
               [(IF c = Public THEN Conversation(NoUser) ELSE FromSummary(c, sums[c], self))
                  EXCEPT !.messages = Among(g, {i \in DOMAIN h : h[i].conv = c})]]
    BY <1>5, <1>7, <1>9
  <2> QED BY <1>13, <2>1, <2>2
<1>15. /\ q \in PageRecord /\ q.user = self /\ q.users = us /\ q.active = Public /\ q.convs = f
  <2>1. Public \in ConvId
    BY DEF ConvId
  <2> QED BY <1>12, <1>13, <1>14, <2>1 DEF PageFits, PageRecord
<1>16. DOMAIN f = {Public} \cup DOMAIN sums
  BY <1>9
<1>17. \A c \in DOMAIN f : f[c].unread <= Len(f[c].messages)
  BY <1>6, <1>10, <1>16
<1>18. PageFits(q)
  BY <1>10, <1>15, <1>16, <1>17 DEF PageFits
<1> QED BY <1>6, <1>10, <1>15, <1>16, <1>18 DEF Readied

----------------------------------------------------------------------------
(* The types of everything.                                                *)

\* The shapes of a line to the backend, an event, a job, a stored message, a session.
LineRecord == [cmd : {"nick", "say", "msg"}, name : Name \cup {NoName}, m : Nat]
EventRecord == [type : EventTypes, who : Name \cup {NoName}, new : Name \cup {NoName}, m : Nat]
Job == [op : {"bcast", "send"}, ev : EventRecord, to : SUBSET Account]
Row == [conv : ConvId, from : Account]
Sessions == {"off", "joining", "welcomed", "ready", "closing"}

\* A line carries a name or the number of a message, of those stored.
LineFits(l, stored) ==
  /\ l.cmd \in {"nick", "msg"} => l.name \in Name
  /\ l.cmd \in {"say", "msg"} => l.m \in stored
  /\ l.cmd = "nick" => l.m = 0

\* So does an event; a private message is about somebody.
EventFits(e, stored) ==
  /\ e.type \in {"welcome", "nick", "msg", "priv", "privSent"} => e.who \in Name
  /\ e.type = "nick" => e.new \in Name
  /\ e.type \in {"msg", "priv", "privSent"} => e.m \in stored
  /\ e.type \in {"welcome", "nick"} => e.m = 0

\* And a job; one that is a list of recipients still has one.
JobFits(j, stored) == EventFits(j.ev, stored) /\ (j.op = "send" => j.to # {})

\* The plain types.
Shapes ==
  /\ sess \in [Account -> Sessions]
  /\ nick \in [Account -> Name \cup {NoName}]
  /\ users \in [Account -> Name]
  /\ convs \in Maps(ConvId \ {Public}, SUBSET (Account \cup Name))
  /\ history \in Seq(Row) /\ Len(history) <= MaxMessages
  /\ conn \in [Account -> Name \cup {NoName}]
  /\ DOMAIN page = Account /\ DOMAIN inbox = Account /\ DOMAIN outbox = Account
  /\ DOMAIN relay = Account
  /\ \A a \in Account : /\ inbox[a] \in Seq(EventRecord)
                         /\ outbox[a] \in Seq(LineRecord)
                         /\ relay[a] \in Seq(Job)
  /\ asked \in 0..Requests /\ logins \in 0..Logins
  /\ upto \in [Account -> 0..MaxMessages]

\* What is on its way is about something.
QueuesFit ==
  \A a \in Account :
    /\ \A k \in 1 .. Len(inbox[a]) : EventFits(inbox[a][k], DOMAIN history)
    /\ \A k \in 1 .. Len(outbox[a]) : LineFits(outbox[a][k], DOMAIN history)
    /\ \A k \in 1 .. Len(relay[a]) : JobFits(relay[a][k], DOMAIN history)

\* A page is its account's while the session is ready, and nobody's else.
PagesFit ==
  \A a \in Account : /\ PageFits(page[a])
                     /\ page[a].user = IF sess[a] = "ready" THEN a ELSE NoUser

\* A welcomed session has the nickname of its welcome.
WelcomedNamed == \A a \in Account : Welcomed(a) => nick[a] \in Name

\* Only what was stored can be lost.
LostStored == lost \subseteq DOMAIN history

\* The type invariant, with what it needs to be inductive.
TypesInv == Shapes /\ QueuesFit /\ PagesFit /\ WelcomedNamed /\ LostStored

\* It says more than the type invariant.
LEMMA TypesImply == TypesInv => TypeOK
<1> SUFFICES ASSUME TypesInv PROVE TypeOK
  OBVIOUS
<1>1. /\ DOMAIN convs \subseteq ConvId \ {Public}
      /\ \A c \in DOMAIN convs : convs[c] \subseteq Account \cup Name
  BY MapFacts DEF TypesInv, Shapes
<1>2. ASSUME NEW a \in Account PROVE PageTypeOK(page[a])
  <2>1. PICK p : p = page[a]
    OBVIOUS
  <2>2. PageFits(p)
    BY <2>1 DEF TypesInv, PagesFit
  <2>3. PageFits(p) => PageTypeOK(p)
    <3>1. p.users \in Maps(Account, Name) /\ p.user \in Account \cup {NoUser}
          /\ p.pending \in BOOLEAN /\ p.listed \subseteq Account
          /\ Public \in DOMAIN p.convs /\ DOMAIN p.convs \subseteq ConvId
          /\ p.active \in DOMAIN p.convs
      BY <2>2, PageFields
    <3>2. DOMAIN p.users \subseteq Account /\ \A u \in DOMAIN p.users : p.users[u] \in Name
      BY <3>1, MapFacts
    <3>3. ASSUME NEW c \in DOMAIN p.convs
          PROVE  /\ p.convs[c].peer \in Account \cup Name \cup {NoUser}
                 /\ p.convs[c].messages \in Seq(PageMessage)
                 /\ p.convs[c].unread \in 0..Len(p.convs[c].messages)
      BY <2>2, <3>3, PageFields
    <3> QED BY <3>1, <3>2, <3>3 DEF PageTypeOK
  <2> QED BY <2>1, <2>2, <2>3
<1>3. ASSUME NEW a \in Account
      PROVE  /\ \A i \in DOMAIN inbox[a] : inbox[a][i].type \in EventTypes
             /\ \A i \in DOMAIN outbox[a] : outbox[a][i].cmd \in {"nick", "say", "msg"}
             /\ \A i \in DOMAIN relay[a] : relay[a][i].op = "send" => relay[a][i].to # {}
  <2>1. /\ inbox[a] \in Seq(EventRecord) /\ outbox[a] \in Seq(LineRecord)
        /\ relay[a] \in Seq(Job)
    BY DEF TypesInv, Shapes
  <2>2. \A i \in DOMAIN inbox[a] : inbox[a][i] \in EventRecord
    BY <2>1
  <2>3. \A i \in DOMAIN outbox[a] : outbox[a][i] \in LineRecord
    BY <2>1
  <2>4. ASSUME NEW i \in DOMAIN relay[a], relay[a][i].op = "send"
        PROVE  relay[a][i].to # {}
    <3>1. i \in 1 .. Len(relay[a])
      BY <2>1
    <3>2. JobFits(relay[a][i], DOMAIN history)
      BY <3>1 DEF TypesInv, QueuesFit
    <3> QED BY <2>4, <3>2 DEF JobFits
  <2> QED BY <2>2, <2>3, <2>4 DEF EventRecord, LineRecord
<1> QED BY <1>1, <1>2, <1>3 DEF TypesInv, Shapes, Sessions, Row, LostStored, TypeOK

\* The steps, one by one.
LEMMA Steps ==
  ASSUME [Next]_vars
  PROVE  \/ UNCHANGED vars
         \/ \E a \in Account :
              \/ Login(a) \/ WsClosed(a) \/ SendPublic(a) \/ Open(a) \/ RequestState(a) \/ Logout(a)
              \/ OnWelcome(a) \/ OnNick(a) \/ OnMsg(a) \/ OnPriv(a) \/ OnPrivSent(a) \/ OnErr(a)
              \/ Handle(a) \/ CopyTargets(a) \/ Drop(a)
              \/ \E b \in Account : SendDirect(a, b) \/ Relay(a, b) \/ CrashInDirect(a, b)
              \/ \E c \in Groups : SendGroup(a, c)
              \/ \E others \in SUBSET Account : CreateGroup(a, others) \/ CrashInGroup(a, others)
              \/ \E n \in Typed : SetNickname(a, n)
         \/ Crash
  BY DEF Next, UserStep, GatewayStep, ServerStep, CrashStep

----------------------------------------------------------------------------
(* How each variable moves.                                                *)

\* Groups are numbered from 1.
GroupsNumbered ==
  \E k \in Nat : /\ Groups = {Group(i) : i \in 1 .. k}
                 /\ IsFiniteSet(Groups) /\ Cardinality(Groups) = k

\* With it, the numbers of the groups.
Base == TypesInv /\ GroupsNumbered

\* Table messages has one more row, of a in c.
Stores(a, c) == history' = Append(history, [conv |-> c, from |-> a])

\* A message is stored by its sender.
LEMMA HistoryMoves ==
  ASSUME TypesInv, [Next]_vars
  PROVE  \/ UNCHANGED history
         \/ /\ Len(history) < MaxMessages
            /\ \E a \in Account :
                 \/ SendPublic(a) /\ Stores(a, Public)
                 \/ \E b \in Account : /\ SendDirect(a, b) /\ Welcomed(b)
                                       /\ Stores(a, Direct(a, b))
                 \/ \E c \in Groups : SendGroup(a, c) /\ Stores(a, c)
<1>1. ASSUME NEW a \in Account, SendPublic(a)
      PROVE  Len(history) < MaxMessages /\ Stores(a, Public)
  BY <1>1 DEF SendPublic, Store, Stores
<1>2. ASSUME NEW a \in Account, NEW b \in Account, SendDirect(a, b)
      PROVE  \/ UNCHANGED history
             \/ Len(history) < MaxMessages /\ Welcomed(b) /\ Stores(a, Direct(a, b))
  BY <1>2 DEF SendDirect, Store, Stores
<1>3. ASSUME NEW a \in Account, NEW c \in Groups, SendGroup(a, c)
      PROVE  Len(history) < MaxMessages /\ Stores(a, c)
  BY <1>3 DEF SendGroup, Store, Stores
<1>4. ASSUME NEW a \in Account,
             \/ Login(a) \/ WsClosed(a) \/ Open(a) \/ RequestState(a) \/ Logout(a)
             \/ OnWelcome(a) \/ OnNick(a) \/ OnMsg(a) \/ OnPriv(a) \/ OnPrivSent(a) \/ OnErr(a)
             \/ Handle(a) \/ CopyTargets(a) \/ Drop(a)
             \/ (\E b \in Account : Relay(a, b))
             \/ \E n \in Typed : SetNickname(a, n)
      PROVE  UNCHANGED history
  BY <1>4 DEF Login, WsClosed, Open, RequestState, Logout, OnWelcome, OnNick, OnMsg, OnPriv,
     OnPrivSent, OnErr, Handle, CopyTargets, Drop, Relay, SetNickname, Database
<1>5. ASSUME \/ Crash
             \/ \E a, b \in Account : CrashInDirect(a, b)
             \/ \E a \in Account, others \in SUBSET Account : CrashInGroup(a, others)
      PROVE  UNCHANGED history
  BY <1>5 DEF Crash, CrashInDirect, CrashInGroup, Restart
<1>6. ASSUME NEW a \in Account, NEW others \in SUBSET Account, CreateGroup(a, others)
      PROVE  UNCHANGED history
  BY <1>6 DEF CreateGroup
<1>7. CASE UNCHANGED vars
  BY <1>7 DEF vars
<1> QED BY <1>1, <1>2, <1>3, <1>4, <1>5, <1>6, <1>7, Steps

\* The number of a message stays its number.
LEMMA HistoryGrows ==
  ASSUME TypesInv, [Next]_vars
  PROVE  /\ DOMAIN history \subseteq DOMAIN history'
         /\ \A m \in DOMAIN history : history'[m] = history[m]
         /\ history' \in Seq(Row) /\ Len(history') <= MaxMessages
         /\ Len(history) <= Len(history')
         /\ \A m \in DOMAIN history' : m \in DOMAIN history \/ m = Len(history) + 1
<1>0. history \in Seq(Row) /\ Len(history) <= MaxMessages
  BY DEF TypesInv, Shapes
<1>1. CASE UNCHANGED history
  BY <1>0, <1>1
<1>2. ASSUME NEW a \in Account, NEW c \in ConvId, Stores(a, c), Len(history) < MaxMessages
      PROVE  /\ DOMAIN history \subseteq DOMAIN history'
             /\ \A m \in DOMAIN history : history'[m] = history[m]
             /\ history' \in Seq(Row) /\ Len(history') <= MaxMessages
             /\ Len(history) <= Len(history')
             /\ \A m \in DOMAIN history' : m \in DOMAIN history \/ m = Len(history) + 1
  <2>1. PICK r \in Row : r = [conv |-> c, from |-> a]
    BY DEF Row
  <2>2. PICK h \in Seq(Row) : h = history
    BY <1>0
  <2>3. history' = Append(h, r)
    BY <1>2, <2>1, <2>2 DEF Stores
  <2>4. MaxMessages \in Nat
    BY RoutingConstants
  <2>5. /\ Len(h) \in Nat /\ Append(h, r) \in Seq(Row) /\ Len(Append(h, r)) = Len(h) + 1
        /\ \A k \in 1 .. Len(h) : Append(h, r)[k] = h[k]
    BY QueueAppend
  <2> QED BY <1>2, <2>2, <2>3, <2>4, <2>5
<1>3. Public \in ConvId /\ \A a, b \in Account : Direct(a, b) \in ConvId
  BY DirectId DEF ConvId
<1>4. Groups \subseteq ConvId
  BY MapFacts DEF TypesInv, Shapes, Groups
<1> QED BY <1>1, <1>2, <1>3, <1>4, HistoryMoves

\* The rows of conversations: one that is new, by whom.
Opens(c, ms) ==
  \/ \E a, b \in Account : /\ a # b /\ SendDirect(a, b) /\ Welcomed(b)
                           /\ c = Direct(a, b) /\ ms = {a, b}
  \/ \E a \in Account, others \in SUBSET Account :
       /\ CreateGroup(a, others) /\ \A b \in {a} \cup others : Welcomed(b)
       /\ c = Group(Cardinality(Groups) + 1) /\ ms = {a} \cup others
  \/ \E a \in Account : \E x \in FoundByNickname(Head(inbox[a]).who, Head(inbox[a]).who) :
       /\ OnPriv(a) \/ OnPrivSent(a)
       /\ c = Direct(a, x) /\ ms = {a, x}
  \/ /\ Restart
     /\ \E a, b \in Account : c = Direct(a, b) /\ ms \subseteq {a, b}
  \/ /\ Restart
     /\ c = Group(Cardinality(Groups) + 1) /\ ms \subseteq Account

\* Somebody who was found is an account or the name itself.
LEMMA Found ==
  ASSUME NEW n, NEW z, NEW x \in FoundByNickname(n, z)
  PROVE  (x \in Account /\ Welcomed(x) /\ nick[x] = n) \/ x = z
<1>1. PICK bearers : bearers = {a \in Account : Welcomed(a) /\ nick[a] = n}
  OBVIOUS
<1>2. x \in IF bearers = {} THEN {z} ELSE bearers
  BY <1>1 DEF FoundByNickname
<1> QED BY <1>1, <1>2

\* A direct message has something to be about.
LEMMA PrivNamed ==
  ASSUME TypesInv, NEW a \in Account, OnPriv(a) \/ OnPrivSent(a) \/ OnMsg(a)
  PROVE  /\ inbox[a] # <<>> /\ Head(inbox[a]).who \in Name /\ Head(inbox[a]).m \in DOMAIN history
         /\ Head(inbox[a]) = inbox[a][1] /\ Head(inbox[a]).m \in 1 .. MaxMessages
         /\ \A x \in FoundByNickname(Head(inbox[a]).who, Head(inbox[a]).who) : x \in Account \cup Name
<1>1. inbox[a] # <<>> /\ Head(inbox[a]).type \in {"priv", "privSent", "msg"}
  BY DEF OnPriv, OnPrivSent, OnMsg, Emitted
<1>2. PICK q \in Seq(EventRecord) : q = inbox[a]
  BY DEF TypesInv, Shapes
<1>3. Head(q) = q[1] /\ 1 \in 1 .. Len(q)
  BY <1>1, <1>2, QueueTail
<1>4. EventFits(q[1], DOMAIN history)
  BY <1>2, <1>3 DEF TypesInv, QueuesFit
<1>5. Head(inbox[a]).who \in Name /\ Head(inbox[a]).m \in DOMAIN history
  BY <1>1, <1>2, <1>3, <1>4 DEF EventFits
<1>6. \A x \in FoundByNickname(Head(inbox[a]).who, Head(inbox[a]).who) : x \in Account \cup Name
  BY <1>5, Found
<1>7. Head(inbox[a]).m \in 1 .. MaxMessages
  <2>1. history \in Seq(Row) /\ Len(history) <= MaxMessages /\ MaxMessages \in Nat
    BY RoutingConstants DEF TypesInv, Shapes
  <2> QED BY <1>5, <2>1
<1> QED BY <1>1, <1>2, <1>3, <1>5, <1>6, <1>7

\* The next group has an id of its own.
LEMMA NextGroup ==
  ASSUME GroupsNumbered, Cardinality(Groups) < MaxGroups
  PROVE  /\ Group(Cardinality(Groups) + 1) \in ConvId \ {Public}
         /\ Group(Cardinality(Groups) + 1) \notin DOMAIN convs
<1>1. PICK k \in Nat : Groups = {Group(i) : i \in 1 .. k} /\ Cardinality(Groups) = k
  BY DEF GroupsNumbered
<1>2. k + 1 \in 1 .. MaxGroups
  BY <1>1, RoutingConstants
<1>3. Group(k + 1) \in ConvId /\ Group(k + 1) # Public /\ Group(k + 1).kind = "group"
  BY <1>2, GroupId
<1>4. Group(k + 1) \notin Groups
  <2> SUFFICES ASSUME NEW i \in 1 .. k, Group(k + 1) = Group(i) PROVE FALSE
    BY <1>1
  <2>1. k + 1 = i
    BY GroupId
  <2> QED BY <2>1
<1>5. Group(k + 1) \notin DOMAIN convs
  BY <1>3, <1>4 DEF Groups
<1> QED BY <1>1, <1>3, <1>5

\* A conversation is new, and stays as it was made.
LEMMA ConvsMoves ==
  ASSUME Base, [Next]_vars
  PROVE  \/ UNCHANGED convs
         \/ \E c \in ConvId \ {Public}, ms \in SUBSET (Account \cup Name) :
              /\ convs' = With(convs, c, ms) /\ Opens(c, ms)
              /\ c \notin DOMAIN convs
<1> DEFINE Goal == \E c \in ConvId \ {Public}, ms \in SUBSET (Account \cup Name) :
                     /\ convs' = With(convs, c, ms) /\ Opens(c, ms)
                     /\ c \notin DOMAIN convs
<1>1. ASSUME NEW a \in Account, NEW b \in Account, SendDirect(a, b)
      PROVE  UNCHANGED convs \/ Goal
  <2>1. a # b /\ (UNCHANGED convs \/ (Welcomed(b) /\ convs' = EnsureDirect(a, b)))
    BY <1>1 DEF SendDirect
  <2>2. CASE convs' # convs
    <3>1. Welcomed(b) /\ Direct(a, b) \notin DOMAIN convs /\ convs' = With(convs, Direct(a, b), {a, b})
      BY <2>1, <2>2 DEF EnsureDirect
    <3>2. Direct(a, b) \in ConvId \ {Public} /\ {a, b} \in SUBSET (Account \cup Name)
      BY DirectId
    <3>3. Opens(Direct(a, b), {a, b})
      BY <1>1, <2>1, <3>1 DEF Opens
    <3> QED BY <3>1, <3>2, <3>3
  <2> QED BY <2>2
<1>2. ASSUME NEW a \in Account, NEW others \in SUBSET Account, CreateGroup(a, others)
      PROVE  UNCHANGED convs \/ Goal
  <2>1. PICK c : c = Group(Cardinality(Groups) + 1)
    OBVIOUS
  <2>2. PICK ms \in SUBSET (Account \cup Name) : ms = {a} \cup others
    OBVIOUS
  <2>3. CASE convs' # convs
    <3>1. /\ \A b \in ms : Welcomed(b)
          /\ convs' = With(convs, c, ms) /\ Cardinality(Groups) < MaxGroups
      BY <1>2, <2>1, <2>2, <2>3 DEF CreateGroup
    <3>2. Opens(c, ms)
      BY <1>2, <2>1, <2>2, <3>1 DEF Opens
    <3>3. c \in ConvId \ {Public} /\ c \notin DOMAIN convs
      BY <2>1, <3>1, NextGroup DEF Base
    <3> QED BY <3>1, <3>2, <3>3
  <2> QED BY <2>3
<1>3. ASSUME NEW a \in Account, OnPriv(a) \/ OnPrivSent(a)
      PROVE  UNCHANGED convs \/ Goal
  <2>1. PICK x \in FoundByNickname(Head(inbox[a]).who, Head(inbox[a]).who) :
          convs' = EnsureDirect(a, x)
    BY <1>3 DEF OnPriv, OnPrivSent
  <2>2. x \in Account \cup Name
    BY <1>3, PrivNamed DEF Base
  <2>3. CASE convs' # convs
    <3>1. Direct(a, x) \notin DOMAIN convs /\ convs' = With(convs, Direct(a, x), {a, x})
      BY <2>1, <2>3 DEF EnsureDirect
    <3>2. Direct(a, x) \in ConvId \ {Public} /\ {a, x} \in SUBSET (Account \cup Name)
      BY <2>2, DirectId
    <3>3. Opens(Direct(a, x), {a, x})
      BY <1>3, <2>1 DEF Opens
    <3> QED BY <3>1, <3>2, <3>3
  <2> QED BY <2>3
<1>4. ASSUME NEW a \in Account, NEW b \in Account, CrashInDirect(a, b)
      PROVE  Goal
  <2>1. PICK rows \in {{}, {a}, {a, b}} : convs' = With(convs, Direct(a, b), rows)
    BY <1>4 DEF CrashInDirect
  <2>2. Direct(a, b) \notin DOMAIN convs /\ Restart
    BY <1>4 DEF CrashInDirect
  <2>3. Direct(a, b) \in ConvId \ {Public} /\ rows \in SUBSET (Account \cup Name)
        /\ rows \subseteq {a, b}
    BY DirectId
  <2>4. Opens(Direct(a, b), rows)
    BY <2>2, <2>3 DEF Opens
  <2> QED BY <2>1, <2>2, <2>3, <2>4
<1>5. ASSUME NEW a \in Account, NEW others \in SUBSET Account, CrashInGroup(a, others)
      PROVE  Goal
  <2>1. PICK c : c = Group(Cardinality(Groups) + 1)
    OBVIOUS
  <2>2. PICK rows \in {{}} \cup {{a} \cup some : some \in SUBSET others \ {others}} :
          convs' = With(convs, c, rows)
    BY <1>5, <2>1 DEF CrashInGroup
  <2>3. Cardinality(Groups) < MaxGroups /\ Restart
    BY <1>5 DEF CrashInGroup
  <2>4. rows \in SUBSET (Account \cup Name) /\ rows \subseteq Account
    OBVIOUS
  <2>5. Opens(c, rows)
    BY <2>1, <2>3, <2>4 DEF Opens
  <2>6. c \in ConvId \ {Public} /\ c \notin DOMAIN convs
    BY <2>1, <2>3, NextGroup DEF Base
  <2> QED BY <2>2, <2>4, <2>5, <2>6
<1>6. ASSUME NEW a \in Account,
             \/ Login(a) \/ WsClosed(a) \/ SendPublic(a) \/ Open(a) \/ RequestState(a) \/ Logout(a)
             \/ OnWelcome(a) \/ OnNick(a) \/ OnMsg(a) \/ OnErr(a)
             \/ Handle(a) \/ CopyTargets(a) \/ Drop(a)
             \/ (\E b \in Account : Relay(a, b))
             \/ (\E c \in Groups : SendGroup(a, c))
             \/ \E n \in Typed : SetNickname(a, n)
      PROVE  UNCHANGED convs
  BY <1>6 DEF Login, WsClosed, SendPublic, Open, RequestState, Logout, OnWelcome, OnNick, OnMsg,
     OnErr, Handle, CopyTargets, Drop, Relay, SendGroup, SetNickname, Database
<1>7. ASSUME Crash PROVE UNCHANGED convs
  BY <1>7 DEF Crash
<1>8. ASSUME UNCHANGED vars PROVE UNCHANGED convs
  BY <1>8 DEF vars
<1> HIDE DEF Goal
<1>9. ASSUME NEW a \in Account,
             \/ \E b \in Account : SendDirect(a, b) \/ Relay(a, b) \/ CrashInDirect(a, b)
             \/ \E others \in SUBSET Account : CreateGroup(a, others) \/ CrashInGroup(a, others)
      PROVE  UNCHANGED convs \/ Goal
  BY <1>1, <1>2, <1>4, <1>5, <1>6, <1>9
<1>10. UNCHANGED convs \/ Goal
  BY <1>3, <1>6, <1>7, <1>8, <1>9, Steps
<1> QED BY <1>10 DEF Goal

\* What a line says when it is posted.
Posts(a, l) ==
  \/ SendPublic(a) /\ l = Line("say", NoName, NewMessage)
  \/ \E b \in Account : SendDirect(a, b) /\ Welcomed(b) /\ l = Line("msg", nick[b], NewMessage)
  \/ \E n \in Typed : SetNickname(a, n) /\ l = Line("nick", n, 0)
  \/ OnWelcome(a) /\ l = Line("nick", users[a], 0)

\* The number of the message that is stored next.
LEMMA NewNumber ==
  ASSUME TypesInv
  PROVE  NewMessage \in Nat /\ NewMessage = Len(history) + 1 /\ NewMessage \notin DOMAIN history
  BY DEF TypesInv, Shapes, NewMessage

\* A line that is posted is a line.
LEMMA PostsLine ==
  ASSUME TypesInv, NEW a \in Account, NEW l, Posts(a, l)
  PROVE  l \in LineRecord
<1>1. NewMessage \in Nat /\ nick \in [Account -> Name \cup {NoName}] /\ users \in [Account -> Name]
  BY NewNumber DEF TypesInv, Shapes
<1>2. Typed \subseteq Name
  BY RoutingConstants
<1> QED BY <1>1, <1>2 DEF Posts, Line, LineRecord

\* The gateway adds lines and the server's handler takes them.
LEMMA OutboxMoves ==
  ASSUME TypesInv, [Next]_vars, NEW a \in Account
  PROVE  \/ outbox'[a] = outbox[a]
         \/ \E l \in LineRecord : outbox'[a] = Append(outbox[a], l) /\ Posts(a, l)
         \/ Handle(a) /\ outbox[a] # <<>> /\ outbox'[a] = Tail(outbox[a])
         \/ Drop(a) /\ outbox'[a] = <<>>
<1>0. DOMAIN outbox = Account
  BY DEF TypesInv, Shapes
<1> DEFINE Goal == \/ outbox'[a] = outbox[a]
                   \/ \E l \in LineRecord : outbox'[a] = Append(outbox[a], l) /\ Posts(a, l)
                   \/ Handle(a) /\ outbox[a] # <<>> /\ outbox'[a] = Tail(outbox[a])
                   \/ Drop(a) /\ outbox'[a] = <<>>
<1>1. ASSUME NEW u \in Account, NEW l, Post(u, l), u = a => Posts(a, l)
      PROVE  Goal
  <2>1. CASE u = a
    <3>1. outbox'[a] = Append(outbox[a], l)
      BY <1>0, <1>1, <2>1 DEF Post
    <3>2. l \in LineRecord
      BY <1>1, <2>1, PostsLine
    <3> QED BY <1>1, <2>1, <3>1, <3>2
  <2>2. CASE u # a
    BY <1>0, <1>1, <2>2 DEF Post
  <2> QED BY <2>1, <2>2
<1>2. ASSUME NEW u \in Account, SendPublic(u) PROVE Goal
  <2>1. Post(u, Line("say", NoName, NewMessage))
    BY <1>2 DEF SendPublic
  <2>2. u = a => Posts(a, Line("say", NoName, NewMessage))
    BY <1>2 DEF Posts
  <2> HIDE DEF Goal
  <2> QED BY <1>1, <2>1, <2>2
<1>3. ASSUME NEW u \in Account, NEW b \in Account, SendDirect(u, b) PROVE Goal
  <2>1. \/ UNCHANGED outbox
        \/ Welcomed(b) /\ Post(u, Line("msg", nick[b], NewMessage))
    BY <1>3 DEF SendDirect
  <2>2. CASE UNCHANGED outbox
    BY <2>2
  <2>3. CASE Welcomed(b) /\ Post(u, Line("msg", nick[b], NewMessage))
    <3>1. u = a => Posts(a, Line("msg", nick[b], NewMessage))
      BY <1>3, <2>3 DEF Posts
    <3> HIDE DEF Goal
    <3> QED BY <1>1, <2>3, <3>1
  <2> QED BY <2>1, <2>2, <2>3
<1>4. ASSUME NEW u \in Account, NEW n \in Typed, SetNickname(u, n) PROVE Goal
  <2>1. Post(u, Line("nick", n, 0))
    BY <1>4 DEF SetNickname
  <2>2. u = a => Posts(a, Line("nick", n, 0))
    BY <1>4 DEF Posts
  <2> HIDE DEF Goal
  <2> QED BY <1>1, <2>1, <2>2
<1>5. ASSUME NEW u \in Account, OnWelcome(u) PROVE Goal
  <2>1. Post(u, Line("nick", users[u], 0))
    BY <1>5 DEF OnWelcome
  <2>2. u = a => Posts(a, Line("nick", users[u], 0))
    BY <1>5 DEF Posts
  <2> HIDE DEF Goal
  <2> QED BY <1>1, <2>1, <2>2
<1>6. ASSUME NEW u \in Account, Handle(u) \/ Drop(u) PROVE Goal
  <2>1. \/ Handle(u) /\ outbox[u] # <<>> /\ outbox' = [outbox EXCEPT ![u] = Tail(@)]
        \/ Drop(u) /\ outbox' = [outbox EXCEPT ![u] = <<>>]
    BY <1>6 DEF Handle, Drop
  <2>2. CASE u = a
    <3>1. \/ Handle(a) /\ outbox[a] # <<>> /\ outbox'[a] = Tail(outbox[a])
          \/ Drop(a) /\ outbox'[a] = <<>>
      BY <1>0, <2>1, <2>2
    <3> QED BY <3>1
  <2>3. CASE u # a
    <3>1. outbox'[a] = outbox[a]
      BY <1>0, <2>1, <2>3
    <3> QED BY <3>1
  <2> QED BY <2>2, <2>3
<1>7. ASSUME NEW u \in Account,
             \/ Login(u) \/ WsClosed(u) \/ Open(u) \/ RequestState(u) \/ Logout(u)
             \/ OnNick(u) \/ OnMsg(u) \/ OnPriv(u) \/ OnPrivSent(u) \/ OnErr(u) \/ CopyTargets(u)
             \/ (\E b \in Account : Relay(u, b))
             \/ (\E c \in Groups : SendGroup(u, c))
      PROVE  UNCHANGED outbox
  BY <1>7 DEF Login, WsClosed, Open, RequestState, Logout, OnNick, OnMsg, OnPriv, OnPrivSent,
     OnErr, CopyTargets, Relay, SendGroup, Server
<1>8. ASSUME \/ Crash
             \/ \E u, b \in Account : CrashInDirect(u, b)
             \/ \E u \in Account, others \in SUBSET Account : CrashInGroup(u, others)
      PROVE  UNCHANGED outbox
  BY <1>8 DEF Crash, CrashInDirect, CrashInGroup, Restart
<1>9. ASSUME NEW u \in Account, NEW others \in SUBSET Account, CreateGroup(u, others)
      PROVE  UNCHANGED outbox
  BY <1>9 DEF CreateGroup, Server
<1>10. ASSUME UNCHANGED vars PROVE UNCHANGED outbox
  BY <1>10 DEF vars
<1>11. UNCHANGED outbox => Goal
  OBVIOUS
<1> HIDE DEF Goal
<1>12. ASSUME NEW u \in Account,
              \/ \E b \in Account : SendDirect(u, b) \/ Relay(u, b) \/ CrashInDirect(u, b)
              \/ \E others \in SUBSET Account : CreateGroup(u, others) \/ CrashInGroup(u, others)
              \/ \E n \in Typed : SetNickname(u, n)
              \/ \E c \in Groups : SendGroup(u, c)
       PROVE  Goal
  BY <1>3, <1>4, <1>7, <1>8, <1>9, <1>11, <1>12
<1>13. Goal
  BY <1>2, <1>5, <1>6, <1>7, <1>8, <1>10, <1>11, <1>12, Steps
<1> QED BY <1>13 DEF Goal

\* A line stays a line, about a message that stays.
LEMMA OutboxTyped ==
  ASSUME TypesInv, [Next]_vars
  PROVE  /\ DOMAIN outbox' = Account
         /\ \A a \in Account :
              /\ outbox'[a] \in Seq(LineRecord)
              /\ \A k \in 1 .. Len(outbox'[a]) : LineFits(outbox'[a][k], DOMAIN history')
<1>0. /\ DOMAIN outbox = Account
      /\ \A a \in Account :
           /\ outbox[a] \in Seq(LineRecord)
           /\ \A k \in 1 .. Len(outbox[a]) : LineFits(outbox[a][k], DOMAIN history)
  BY DEF TypesInv, Shapes, QueuesFit
<1>1. \A l : LineFits(l, DOMAIN history) => LineFits(l, DOMAIN history')
  BY HistoryGrows DEF LineFits
<1>2. ASSUME NEW a \in Account
      PROVE  /\ outbox'[a] \in Seq(LineRecord)
             /\ \A k \in 1 .. Len(outbox'[a]) : LineFits(outbox'[a][k], DOMAIN history')
  <2>1. PICK q \in Seq(LineRecord) : q = outbox[a]
    BY <1>0
  <2>2. \A k \in 1 .. Len(q) : LineFits(q[k], DOMAIN history')
    <3>1. \A k \in 1 .. Len(q) : LineFits(q[k], DOMAIN history)
      BY <1>0, <2>1
    <3> QED BY <1>1, <3>1
  <2>3. CASE outbox'[a] = outbox[a]
    BY <2>1, <2>2, <2>3
  <2>4. CASE outbox[a] # <<>> /\ outbox'[a] = Tail(outbox[a])
    BY <2>1, <2>2, <2>4, QueueTail
  <2>5. CASE outbox'[a] = <<>>
    BY <2>5
  <2>6. ASSUME NEW l \in LineRecord, outbox'[a] = Append(outbox[a], l), Posts(a, l)
        PROVE  /\ outbox'[a] \in Seq(LineRecord)
               /\ \A k \in 1 .. Len(outbox'[a]) : LineFits(outbox'[a][k], DOMAIN history')
    <3>1. LineFits(l, DOMAIN history')
      <4>1. CASE SendPublic(a) /\ l = Line("say", NoName, NewMessage)
        <5>1. history' = Append(history, [conv |-> Public, from |-> a])
          BY <4>1 DEF SendPublic, Store
        <5>2. NewMessage \in DOMAIN history'
          BY <5>1 DEF NewMessage, TypesInv, Shapes
        <5> QED BY <4>1, <5>2 DEF Line, LineFits
      <4>2. ASSUME NEW b \in Account, SendDirect(a, b), Welcomed(b),
                   l = Line("msg", nick[b], NewMessage)
            PROVE  LineFits(l, DOMAIN history')
        <5>1. history' = Append(history, [conv |-> Direct(a, b), from |-> a])
          BY <4>2 DEF SendDirect, Store
        <5>2. NewMessage \in DOMAIN history'
          BY <5>1 DEF NewMessage, TypesInv, Shapes
        <5>3. nick[b] \in Name
          BY <4>2 DEF TypesInv, WelcomedNamed
        <5> QED BY <4>2, <5>2, <5>3 DEF Line, LineFits
      <4>3. ASSUME NEW n \in Name, l = Line("nick", n, 0)
            PROVE  LineFits(l, DOMAIN history')
        BY <4>3 DEF Line, LineFits
      <4>4. Typed \subseteq Name /\ users[a] \in Name
        BY RoutingConstants DEF TypesInv, Shapes
      <4> QED BY <2>6, <4>1, <4>2, <4>3, <4>4 DEF Posts
    <3>2. /\ Append(q, l) \in Seq(LineRecord)
          /\ \A k \in 1 .. Len(Append(q, l)) :
               Append(q, l)[k] = l \/ (k \in 1 .. Len(q) /\ Append(q, l)[k] = q[k])
      <4>1. /\ Append(q, l) \in Seq(LineRecord)
            /\ Append(q, l)[Len(q) + 1] = l
            /\ \A k \in 1 .. Len(q) : Append(q, l)[k] = q[k]
            /\ \A k \in 1 .. Len(Append(q, l)) : k \in 1 .. Len(q) \/ k = Len(q) + 1
        BY QueueAppend
      <4> QED BY <4>1
    <3> QED BY <2>1, <2>2, <2>6, <3>1, <3>2
  <2> QED BY <2>3, <2>4, <2>5, <2>6, OutboxMoves
<1>3. DOMAIN outbox' = Account
  <2>1. ASSUME NEW a \in Account, NEW l, Post(a, l) PROVE DOMAIN outbox' = Account
    BY <1>0, <2>1 DEF Post
  <2>2. ASSUME NEW a \in Account,
               \/ Login(a) \/ WsClosed(a) \/ SendPublic(a) \/ Open(a) \/ RequestState(a) \/ Logout(a)
               \/ OnWelcome(a) \/ OnNick(a) \/ OnMsg(a) \/ OnPriv(a) \/ OnPrivSent(a) \/ OnErr(a)
               \/ Handle(a) \/ CopyTargets(a) \/ Drop(a)
        PROVE  DOMAIN outbox' = Account
    BY <1>0, <2>1, <2>2 DEF Login, WsClosed, SendPublic, Open, RequestState, Logout, OnWelcome,
       OnNick, OnMsg, OnPriv, OnPrivSent, OnErr, Handle, CopyTargets, Drop, Server
  <2>3. ASSUME NEW a \in Account, NEW b \in Account,
               SendDirect(a, b) \/ Relay(a, b) \/ CrashInDirect(a, b)
        PROVE  DOMAIN outbox' = Account
    BY <1>0, <2>1, <2>3 DEF SendDirect, Relay, CrashInDirect, Restart
  <2>4. ASSUME NEW a \in Account, NEW c \in Groups, SendGroup(a, c)
        PROVE  DOMAIN outbox' = Account
    BY <1>0, <2>4 DEF SendGroup, Server
  <2>5. ASSUME NEW a \in Account, NEW others \in SUBSET Account,
               CreateGroup(a, others) \/ CrashInGroup(a, others)
        PROVE  DOMAIN outbox' = Account
    BY <1>0, <2>5 DEF CreateGroup, CrashInGroup, Restart, Server
  <2>6. ASSUME NEW a \in Account, NEW n \in Typed, SetNickname(a, n)
        PROVE  DOMAIN outbox' = Account
    BY <2>1, <2>6 DEF SetNickname
  <2>7. CASE Crash \/ UNCHANGED vars
    BY <1>0, <2>7 DEF Crash, Restart, vars
  <2>8. ASSUME NEW a \in Account,
               \/ \E b \in Account : SendDirect(a, b) \/ Relay(a, b) \/ CrashInDirect(a, b)
               \/ \E others \in SUBSET Account : CreateGroup(a, others) \/ CrashInGroup(a, others)
               \/ \E n \in Typed : SetNickname(a, n)
               \/ \E c \in Groups : SendGroup(a, c)
        PROVE  DOMAIN outbox' = Account
    BY <2>3, <2>4, <2>5, <2>6, <2>8
  <2> QED BY <2>2, <2>7, <2>8, Steps
<1> QED BY <1>2, <1>3

\* Clients with the name n, other than a.
Bearers(a, n) == {b \in Account : conn[b] = n} \ {a}

\* What handle_line makes of each line.
Handles(a, l) ==
  \/ /\ l.cmd = "say" /\ UNCHANGED <<conn, lost>>
     /\ relay'[a] = <<Bcast(Event("msg", conn[a], NoName, l.m), {a})>>
  \/ /\ l.cmd = "nick" /\ UNCHANGED <<conn, lost>>
     /\ \E b \in Account \ {a} : conn[b] = l.name
     /\ relay'[a] = <<Send(Event("err", NoName, l.name, 0), {a})>>
  \/ /\ l.cmd = "nick" /\ UNCHANGED lost
     /\ \A b \in Account \ {a} : conn[b] # l.name
     /\ conn' = [conn EXCEPT ![a] = l.name]
     /\ relay'[a] = <<Bcast(Event("nick", conn[a], l.name, 0), {})>>
  \/ /\ l.cmd = "msg" /\ UNCHANGED conn /\ Bearers(a, l.name) = {}
     /\ lost' = IF Bearers(a, l.name) = history[l.m].conv.ids \ {a} THEN lost ELSE lost \cup {l.m}
     /\ relay'[a] = <<Send(Event("err", NoName, NoName, l.m), {a})>>
  \/ /\ l.cmd = "msg" /\ UNCHANGED conn /\ Bearers(a, l.name) # {}
     /\ lost' = IF Bearers(a, l.name) = history[l.m].conv.ids \ {a} THEN lost ELSE lost \cup {l.m}
     /\ relay'[a] = <<Send(Event("priv", conn[a], NoName, l.m), Bearers(a, l.name)),
                      Send(Event("privSent", l.name, NoName, l.m), {a})>>

\* A handler takes the next line, and answers it.
LEMMA HandleFacts ==
  ASSUME TypesInv, NEW a \in Account, Handle(a)
  PROVE  /\ relay[a] = <<>> /\ conn[a] \in Name /\ outbox[a] # <<>>
         /\ \A u \in Account : u # a => relay'[u] = relay[u]
         /\ \E l \in LineRecord : /\ l = Head(outbox[a]) /\ l = outbox[a][1]
                                  /\ LineFits(l, DOMAIN history) /\ Handles(a, l)
<1>0. /\ relay[a] = <<>> /\ conn[a] # NoName /\ outbox[a] # <<>> /\ conn[a] \in Name \cup {NoName}
      /\ outbox[a] \in Seq(LineRecord) /\ DOMAIN relay = Account
  BY DEF Handle, TypesInv, Shapes
<1>1. PICK q \in Seq(LineRecord) : q = outbox[a]
  BY <1>0
<1>2. PICK l \in LineRecord : l = Head(q) /\ l = q[1] /\ 1 \in 1 .. Len(q)
  BY <1>0, <1>1, QueueTail
<1>3. LineFits(l, DOMAIN history)
  BY <1>1, <1>2 DEF TypesInv, QueuesFit
<1>4. CASE HandleSay(a)
  <2>1. /\ l.cmd = "say" /\ UNCHANGED <<conn, lost>>
        /\ relay' = [relay EXCEPT ![a] = <<Bcast(Event("msg", conn[a], NoName, l.m), {a})>>]
    BY <1>1, <1>2, <1>4 DEF HandleSay, Except
  <2>2. relay'[a] = <<Bcast(Event("msg", conn[a], NoName, l.m), {a})>>
    BY <1>0, <2>1
  <2>3. Handles(a, l)
    BY <2>1, <2>2 DEF Handles
  <2> QED BY <1>0, <1>1, <1>2, <1>3, <2>1, <2>3
<1>5. CASE HandleNick(a)
  <2>1. l.cmd = "nick" /\ UNCHANGED lost
    BY <1>1, <1>2, <1>5 DEF HandleNick
  <2>2. CASE \E b \in Account \ {a} : conn[b] = l.name
    <3>1. /\ UNCHANGED conn
          /\ relay' = [relay EXCEPT ![a] = <<Send(Event("err", NoName, l.name, 0), {a})>>]
      BY <1>1, <1>2, <1>5, <2>2 DEF HandleNick
    <3>2. relay'[a] = <<Send(Event("err", NoName, l.name, 0), {a})>>
      BY <1>0, <3>1
    <3>3. Handles(a, l)
      BY <2>1, <2>2, <3>1, <3>2 DEF Handles
    <3> QED BY <1>0, <1>1, <1>2, <1>3, <3>1, <3>3
  <2>3. CASE ~\E b \in Account \ {a} : conn[b] = l.name
    <3>1. /\ conn' = [conn EXCEPT ![a] = l.name]
          /\ relay' = [relay EXCEPT ![a] = <<Bcast(Event("nick", conn[a], l.name, 0), {})>>]
      BY <1>1, <1>2, <1>5, <2>3 DEF HandleNick
    <3>2. relay'[a] = <<Bcast(Event("nick", conn[a], l.name, 0), {})>>
      BY <1>0, <3>1
    <3>3. Handles(a, l)
      BY <2>1, <2>3, <3>1, <3>2 DEF Handles
    <3> QED BY <1>0, <1>1, <1>2, <1>3, <3>1, <3>3
  <2> QED BY <2>2, <2>3
<1>6. CASE HandleMsg(a)
  <2>1. PICK ts : ts = Bearers(a, l.name)
    OBVIOUS
  <2>2. /\ l.cmd = "msg" /\ UNCHANGED conn
        /\ lost' = IF ts = history[l.m].conv.ids \ {a} THEN lost ELSE lost \cup {l.m}
        /\ relay' = [relay EXCEPT ![a] =
                       IF ts = {} THEN <<Send(Event("err", NoName, NoName, l.m), {a})>>
                       ELSE <<Send(Event("priv", conn[a], NoName, l.m), ts),
                              Send(Event("privSent", l.name, NoName, l.m), {a})>>]
    BY <1>1, <1>2, <1>6, <2>1 DEF HandleMsg, Bearers
  <2>3. relay'[a] = IF ts = {} THEN <<Send(Event("err", NoName, NoName, l.m), {a})>>
                    ELSE <<Send(Event("priv", conn[a], NoName, l.m), ts),
                           Send(Event("privSent", l.name, NoName, l.m), {a})>>
    BY <1>0, <2>2
  <2>4. Handles(a, l)
    <3>1. CASE ts = {}
      BY <2>1, <2>2, <2>3, <3>1 DEF Handles
    <3>2. CASE ts # {}
      BY <2>1, <2>2, <2>3, <3>2 DEF Handles
    <3> QED BY <3>1, <3>2
  <2> QED BY <1>0, <1>1, <1>2, <1>3, <2>2, <2>4
<1> QED BY <1>4, <1>5, <1>6 DEF Handle

\* An event is one, with the fields it is given.
LEMMA EventTyped ==
  ASSUME NEW t \in EventTypes, NEW w \in Name \cup {NoName}, NEW n \in Name \cup {NoName},
         NEW m \in Nat
  PROVE  /\ Event(t, w, n, m) \in EventRecord
         /\ Event(t, w, n, m).type = t /\ Event(t, w, n, m).who = w
         /\ Event(t, w, n, m).new = n /\ Event(t, w, n, m).m = m
  BY DEF Event, EventRecord

\* So is what a handler has to send.
LEMMA JobTyped ==
  ASSUME NEW e \in EventRecord, NEW to \in SUBSET Account
  PROVE  /\ Bcast(e, to) \in Job /\ Bcast(e, to).op = "bcast" /\ Bcast(e, to).ev = e
         /\ Bcast(e, to).to = to
         /\ Send(e, to) \in Job /\ Send(e, to).op = "send" /\ Send(e, to).ev = e
         /\ Send(e, to).to = to
  BY DEF Bcast, Send, Job

\* The frames a handled line makes are frames.
LEMMA HandlesTyped ==
  ASSUME TypesInv, NEW a \in Account, conn[a] \in Name, NEW l \in LineRecord,
         LineFits(l, DOMAIN history), Handles(a, l)
  PROVE  /\ relay'[a] \in Seq(Job)
         /\ \A k \in 1 .. Len(relay'[a]) : JobFits(relay'[a][k], DOMAIN history)
<1>0. PICK s \in Name : s = conn[a]
  OBVIOUS
<1>01. PICK w \in Name \cup {NoName} : w = l.name
  BY DEF LineRecord
<1>02. PICK m \in Nat : m = l.m
  BY DEF LineRecord
<1>03. PICK none \in Name \cup {NoName} : none = NoName
  OBVIOUS
<1>04. PICK zero \in Nat : zero = 0
  OBVIOUS
<1>1. /\ l.name \in Name \cup {NoName} /\ l.m \in Nat /\ s \in Name \cup {NoName}
      /\ none \in Name \cup {NoName} /\ zero \in Nat
  BY DEF LineRecord
<1>2. ASSUME NEW j \in Job, relay'[a] = <<j>>, JobFits(j, DOMAIN history)
      PROVE  /\ relay'[a] \in Seq(Job)
             /\ \A k \in 1 .. Len(relay'[a]) : JobFits(relay'[a][k], DOMAIN history)
  BY <1>2
<1>3. CASE l.cmd = "say" /\ relay'[a] = <<Bcast(Event("msg", conn[a], NoName, l.m), {a})>>
  <2>1. PICK e \in EventRecord : /\ e = Event("msg", s, none, m)
                                 /\ e.type = "msg" /\ e.who = s /\ e.m = m
    <3>1. PICK t \in EventTypes : t = "msg"
      BY DEF EventTypes
    <3>2. PICK x : x = Event(t, s, none, m)
      OBVIOUS
    <3>3. x \in EventRecord /\ x.type = t /\ x.who = s /\ x.new = none /\ x.m = m
      BY <1>1, <3>1, <3>2 DEF Event, EventRecord
    <3> QED BY <1>04, <3>1, <3>2, <3>3
  <2>2. PICK j \in Job : j = Bcast(e, {a}) /\ j.op = "bcast" /\ j.ev = e
    BY JobTyped
  <2>3. JobFits(j, DOMAIN history)
    BY <1>0, <1>01, <1>02, <1>03, <1>04, <1>1, <1>3, <2>1, <2>2 DEF JobFits, EventFits, LineFits
  <2> QED BY <1>0, <1>01, <1>02, <1>03, <1>04, <1>2, <1>3, <2>1, <2>2, <2>3
<1>4. CASE l.cmd = "nick" /\ relay'[a] = <<Send(Event("err", NoName, l.name, 0), {a})>>
  <2>1. PICK e \in EventRecord : e = Event("err", none, w, zero) /\ e.type = "err"
    <3>1. PICK t \in EventTypes : t = "err"
      BY DEF EventTypes
    <3>2. PICK x : x = Event(t, none, w, zero)
      OBVIOUS
    <3>3. x \in EventRecord /\ x.type = t /\ x.who = none /\ x.new = w /\ x.m = zero
      BY <1>1, <3>1, <3>2 DEF Event, EventRecord
    <3> QED BY <1>04, <3>1, <3>2, <3>3
  <2>2. PICK j \in Job : j = Send(e, {a}) /\ j.to = {a} /\ j.ev = e
    BY JobTyped
  <2>3. JobFits(j, DOMAIN history)
    BY <2>1, <2>2 DEF JobFits, EventFits
  <2> QED BY <1>0, <1>01, <1>02, <1>03, <1>04, <1>2, <1>4, <2>1, <2>2, <2>3
<1>5. CASE l.cmd = "nick" /\ relay'[a] = <<Bcast(Event("nick", conn[a], l.name, 0), {})>>
  <2>1. PICK e \in EventRecord : /\ e = Event("nick", s, w, zero) /\ e.type = "nick"
                                 /\ e.who = s /\ e.new = w /\ e.m = zero
    <3>1. PICK t \in EventTypes : t = "nick"
      BY DEF EventTypes
    <3>2. PICK x : x = Event(t, s, w, zero)
      OBVIOUS
    <3>3. x \in EventRecord /\ x.type = t /\ x.who = s /\ x.new = w /\ x.m = zero
      BY <1>1, <3>1, <3>2 DEF Event, EventRecord
    <3> QED BY <1>04, <3>1, <3>2, <3>3
  <2>2. PICK j \in Job : j = Bcast(e, {}) /\ j.op = "bcast" /\ j.ev = e
    BY JobTyped
  <2>3. l.name \in Name
    BY <1>5 DEF LineFits
  <2>4. JobFits(j, DOMAIN history)
    BY <1>0, <1>01, <1>02, <1>03, <1>04, <1>1, <2>1, <2>2, <2>3 DEF JobFits, EventFits
  <2> QED BY <1>0, <1>01, <1>02, <1>03, <1>04, <1>2, <1>5, <2>1, <2>2, <2>4
<1>6. CASE relay'[a] = <<Send(Event("err", NoName, NoName, l.m), {a})>>
  <2>1. PICK e \in EventRecord : e = Event("err", none, none, m) /\ e.type = "err"
    <3>1. PICK t \in EventTypes : t = "err"
      BY DEF EventTypes
    <3>2. PICK x : x = Event(t, none, none, m)
      OBVIOUS
    <3>3. x \in EventRecord /\ x.type = t /\ x.who = none /\ x.new = none /\ x.m = m
      BY <1>1, <3>1, <3>2 DEF Event, EventRecord
    <3> QED BY <1>04, <3>1, <3>2, <3>3
  <2>2. PICK j \in Job : j = Send(e, {a}) /\ j.to = {a} /\ j.ev = e
    BY JobTyped
  <2>3. JobFits(j, DOMAIN history)
    BY <2>1, <2>2 DEF JobFits, EventFits
  <2> QED BY <1>0, <1>01, <1>02, <1>03, <1>04, <1>2, <1>6, <2>1, <2>2, <2>3
<1>7. CASE /\ l.cmd = "msg" /\ Bearers(a, l.name) # {}
           /\ relay'[a] = <<Send(Event("priv", conn[a], NoName, l.m), Bearers(a, l.name)),
                            Send(Event("privSent", l.name, NoName, l.m), {a})>>
  <2>0. l.name \in Name /\ l.m \in DOMAIN history
    BY <1>7 DEF LineFits
  <2>1. PICK e \in EventRecord : /\ e = Event("priv", s, none, m)
                                 /\ e.type = "priv" /\ e.who = s /\ e.m = m
    <3>1. PICK t \in EventTypes : t = "priv"
      BY DEF EventTypes
    <3>2. PICK x : x = Event(t, s, none, m)
      OBVIOUS
    <3>3. x \in EventRecord /\ x.type = t /\ x.who = s /\ x.new = none /\ x.m = m
      BY <1>1, <3>1, <3>2 DEF Event, EventRecord
    <3> QED BY <1>04, <3>1, <3>2, <3>3
  <2>2. PICK f \in EventRecord : /\ f = Event("privSent", w, none, m)
                                 /\ f.type = "privSent" /\ f.who = w /\ f.m = m
    <3>1. PICK t \in EventTypes : t = "privSent"
      BY DEF EventTypes
    <3>2. PICK x : x = Event(t, w, none, m)
      OBVIOUS
    <3>3. x \in EventRecord /\ x.type = t /\ x.who = w /\ x.new = none /\ x.m = m
      BY <1>1, <3>1, <3>2 DEF Event, EventRecord
    <3> QED BY <1>04, <3>1, <3>2, <3>3
  <2>3. PICK ts \in SUBSET Account : ts = Bearers(a, l.name)
    BY DEF Bearers
  <2>4. PICK j \in Job : j = Send(e, ts) /\ j.to = ts /\ j.ev = e
    BY JobTyped
  <2>5. PICK i \in Job : i = Send(f, {a}) /\ i.to = {a} /\ i.ev = f
    BY JobTyped
  <2>6. JobFits(j, DOMAIN history) /\ JobFits(i, DOMAIN history)
    <3>1. s \in Name /\ w \in Name /\ m \in DOMAIN history /\ ts # {}
      BY <1>0, <1>01, <1>02, <1>03, <1>04, <1>1, <1>7, <2>0, <2>3
    <3>2. EventFits(e, DOMAIN history) /\ EventFits(f, DOMAIN history)
      BY <2>1, <2>2, <3>1 DEF EventFits
    <3> QED BY <2>4, <2>5, <3>1, <3>2 DEF JobFits
  <2>7. relay'[a] = <<j, i>>
    BY <1>0, <1>01, <1>02, <1>03, <1>04, <1>7, <2>1, <2>2, <2>3, <2>4, <2>5
  <2>8. /\ Len(<<j, i>>) = 2 /\ <<j, i>>[1] = j /\ <<j, i>>[2] = i /\ <<j, i>> \in Seq(Job)
    OBVIOUS
  <2>9. \A k \in 1 .. 2 : k = 1 \/ k = 2
    OBVIOUS
  <2> QED BY <2>6, <2>7, <2>8, <2>9
<1> QED BY <1>3, <1>4, <1>5, <1>6, <1>7 DEF Handles

----------------------------------------------------------------------------
(* The handlers' broadcasts and replies.                                   *)

\* A frame in the place of the first.
LEMMA QueueReplace ==
  ASSUME NEW T, NEW q \in Seq(T), q # <<>>, NEW e \in T
  PROVE  /\ Len(q) \in Nat /\ Len(q) >= 1
         /\ (<<e>> \o Tail(q)) \in Seq(T) /\ Len(<<e>> \o Tail(q)) = Len(q)
         /\ (<<e>> \o Tail(q))[1] = e
         /\ \A k \in 1 .. Len(q) : k # 1 => (<<e>> \o Tail(q))[k] = q[k]
<1>1. /\ Len(q) \in Nat /\ Len(q) >= 1 /\ Tail(q) \in Seq(T) /\ Len(Tail(q)) = Len(q) - 1
      /\ \A k \in 1 .. Len(Tail(q)) : Tail(q)[k] = q[k + 1]
  BY QueueTail
<1>2. PICK r \in Seq(T) : r = Tail(q)
  BY <1>1
<1>3. PICK s : s = <<e>>
  OBVIOUS
<1>4. Len(s) = 1 /\ s[1] = e /\ s \in Seq(T)
  BY <1>3
<1>5. /\ (s \o r) \in Seq(T) /\ Len(s \o r) = Len(s) + Len(r)
      /\ \A k \in 1 .. (Len(s) + Len(r)) : (s \o r)[k] = IF k <= Len(s) THEN s[k] ELSE r[k - Len(s)]
  BY <1>4, ConcatProperties
<1>6. \A k \in 1 .. Len(q) : k # 1 => (s \o r)[k] = q[k]
  <2> TAKE k \in 1 .. Len(q)
  <2> HAVE k # 1
  <2>1. k - 1 \in 1 .. Len(r) /\ ~(k <= 1) /\ k \in 1 .. (1 + Len(r)) /\ (k - 1) + 1 = k
    BY <1>1, <1>2
  <2>2. (s \o r)[k] = r[k - 1]
    BY <1>4, <1>5, <2>1
  <2>3. r[k - 1] = q[(k - 1) + 1]
    BY <1>1, <1>2, <2>1
  <2> QED BY <2>1, <2>2, <2>3
<1>7. (s \o r)[1] = e
  BY <1>1, <1>2, <1>4, <1>5
<1> QED BY <1>1, <1>2, <1>3, <1>4, <1>5, <1>6, <1>7

\* An account a job still has a frame for.
Reaches(j, b) == IF j.op = "bcast" THEN b \notin j.to ELSE b \in j.to

\* Job i is what is left of job j: the same, its copied targets, or fewer of them.
Stems(j, i) ==
  /\ i.ev = j.ev
  /\ i.op = "send" => i.to # {}
  /\ \/ i.op = j.op /\ i.to = j.to
     \/ j.op = "send" /\ i.op = "send" /\ i.to \subseteq j.to
     \/ j.op = "bcast" /\ i.op = "send" /\ i.to = Registered \ j.to

\* Queue r has what is left of queue q, each job of it of another one, which f says.
Left(q, r) ==
  /\ r \in Seq(Job)
  /\ \E f : /\ \A k \in 1 .. Len(r) : f[k] \in 1 .. Len(q) /\ Stems(q[f[k]], r[k])
            /\ \A j, k \in 1 .. Len(r) : f[j] = f[k] => j = k

\* The same places, and the next ones.
LEMMA LeftInPlace ==
  ASSUME NEW q, NEW r \in Seq(Job), Len(r) <= Len(q), Len(q) \in Nat,
         NEW d \in {0, 1}, Len(r) + d <= Len(q),
         \A k \in 1 .. Len(r) : Stems(q[k + d], r[k])
  PROVE  Left(q, r)
<1>1. PICK f : f = [k \in 1 .. Len(r) |-> k + d]
  OBVIOUS
<1>2. \A k \in 1 .. Len(r) : f[k] = k + d /\ k + d \in 1 .. Len(q)
  BY <1>1
<1>3. /\ \A k \in 1 .. Len(r) : f[k] \in 1 .. Len(q) /\ Stems(q[f[k]], r[k])
      /\ \A j, k \in 1 .. Len(r) : f[j] = f[k] => j = k
  BY <1>2
<1> QED BY <1>3 DEF Left

\* The job without account b.
Cut(j, b) == IF j.op = "send" THEN [j EXCEPT !.to = @ \ {b}] ELSE j

\* Jobs are served from the first.
LEMMA RelayMoves ==
  ASSUME TypesInv, [Next]_vars
  PROVE  /\ DOMAIN relay' = Account
         /\ \A a \in Account :
              \/ relay'[a] = relay[a]
              \/ Handle(a)
              \/ CopyTargets(a)
              \/ \E b \in Account : Relay(a, b)
              \/ \E b \in Account :
                   /\ Drop(b)
                   /\ relay'[a] = Among([i \in DOMAIN relay[a] |-> Cut(relay[a][i], b)],
                                        {i \in DOMAIN relay[a] : relay[a][i].op = "bcast"
                                                                 \/ relay[a][i].to # {b}})
<1> DEFINE Goal == 
         /\ DOMAIN relay' = Account
         /\ \A a \in Account :
              \/ relay'[a] = relay[a]
              \/ Handle(a)
              \/ CopyTargets(a)
              \/ \E b \in Account : Relay(a, b)
              \/ \E b \in Account :
                   /\ Drop(b)
                   /\ relay'[a] = Among([i \in DOMAIN relay[a] |-> Cut(relay[a][i], b)],
                                        {i \in DOMAIN relay[a] : relay[a][i].op = "bcast"
                                                                 \/ relay[a][i].to # {b}})
<1>0. DOMAIN relay = Account
  BY DEF TypesInv, Shapes
<1>1. ASSUME UNCHANGED relay PROVE Goal
  BY <1>0, <1>1
<1>2. ASSUME NEW u \in Account, Handle(u) PROVE Goal
  <2>1. DOMAIN relay' = Account
    BY <1>0, <1>2 DEF Handle, HandleSay, HandleNick, HandleMsg
  <2>2. \A a \in Account : a # u => relay'[a] = relay[a]
    BY <1>2, HandleFacts
  <2> QED BY <1>2, <2>1, <2>2
<1>3. ASSUME NEW u \in Account, CopyTargets(u) PROVE Goal
  <2>1. DOMAIN relay' = Account /\ \A a \in Account : a # u => relay'[a] = relay[a]
    BY <1>0, <1>3 DEF CopyTargets
  <2> QED BY <1>3, <2>1
<1>4. ASSUME NEW u \in Account, NEW b \in Account, Relay(u, b) PROVE Goal
  <2>1. DOMAIN relay' = Account /\ \A a \in Account : a # u => relay'[a] = relay[a]
    BY <1>0, <1>4 DEF Relay
  <2> QED BY <1>4, <2>1
<1>5. ASSUME NEW b \in Account, Drop(b) PROVE Goal
  <2>1. DOMAIN relay' = Account /\ \A a \in Account : 
          relay'[a] = Among([i \in DOMAIN relay[a] |-> Cut(relay[a][i], b)],
                            {i \in DOMAIN relay[a] : relay[a][i].op = "bcast"
                                                     \/ relay[a][i].to # {b}})
    BY <1>5 DEF Drop, Cut
  <2> QED BY <1>5, <2>1
<1>6. ASSUME NEW a \in Account,
               \/ Login(a) \/ WsClosed(a) \/ SendPublic(a) \/ Open(a) \/ RequestState(a) \/ Logout(a)
               \/ OnWelcome(a) \/ OnNick(a) \/ OnMsg(a) \/ OnPriv(a) \/ OnPrivSent(a) \/ OnErr(a)
      PROVE  UNCHANGED relay
  BY <1>6 DEF Login, WsClosed, SendPublic, Open, RequestState, Logout, OnWelcome,
       OnNick, OnMsg, OnPriv, OnPrivSent, OnErr, Server
<1>7. ASSUME NEW a \in Account, NEW b \in Account, SendDirect(a, b) \/ CrashInDirect(a, b)
      PROVE  UNCHANGED relay
  BY <1>7 DEF SendDirect, CrashInDirect, Restart
<1>8. ASSUME NEW a \in Account, NEW c \in Groups, SendGroup(a, c)
      PROVE  UNCHANGED relay
  BY <1>8 DEF SendGroup, Server
<1>9. ASSUME NEW a \in Account, NEW others \in SUBSET Account,
             CreateGroup(a, others) \/ CrashInGroup(a, others)
      PROVE  UNCHANGED relay
  BY <1>9 DEF CreateGroup, CrashInGroup, Restart, Server
<1>10. ASSUME NEW a \in Account, NEW n \in Typed, SetNickname(a, n)
       PROVE  UNCHANGED relay
  BY <1>10 DEF SetNickname
<1>11. ASSUME Crash \/ UNCHANGED vars PROVE UNCHANGED relay
  BY <1>11 DEF Crash, Restart, vars
<1> HIDE DEF Goal
<1>12. ASSUME NEW a \in Account,
              \/ \E b \in Account : SendDirect(a, b) \/ Relay(a, b) \/ CrashInDirect(a, b)
              \/ \E others \in SUBSET Account : CreateGroup(a, others) \/ CrashInGroup(a, others)
              \/ \E n \in Typed : SetNickname(a, n)
              \/ \E c \in Groups : SendGroup(a, c)
       PROVE  Goal
  BY <1>1, <1>4, <1>7, <1>8, <1>9, <1>10, <1>12
<1>13. Goal
  BY <1>1, <1>2, <1>3, <1>5, <1>6, <1>11, <1>12, Steps
<1> QED BY <1>13 DEF Goal

\* A handler copies the targets of its broadcast.
LEMMA CopyFacts ==
  ASSUME TypesInv, NEW a \in Account, CopyTargets(a)
  PROVE  /\ relay[a] # <<>> /\ relay[a][1].op = "bcast"
         /\ \/ Registered \subseteq relay[a][1].to /\ relay'[a] = Tail(relay[a])
            \/ /\ ~(Registered \subseteq relay[a][1].to)
               /\ relay'[a] = <<Send(relay[a][1].ev, Registered \ relay[a][1].to)>> \o Tail(relay[a])
<1>0. DOMAIN relay = Account /\ relay[a] # <<>>
  BY DEF TypesInv, Shapes, CopyTargets
<1>1. PICK q \in Seq(Job) : q = relay[a]
  BY DEF TypesInv, Shapes
<1>2. Head(q) = q[1]
  BY <1>0, <1>1, QueueTail
<1>3. PICK to : to = Registered \ q[1].to
  OBVIOUS
<1>4. /\ q[1].op = "bcast"
      /\ relay' = [relay EXCEPT ![a] = IF to = {} THEN Tail(q) ELSE <<Send(q[1].ev, to)>> \o Tail(q)]
  BY <1>1, <1>2, <1>3 DEF CopyTargets
<1>5. relay'[a] = IF to = {} THEN Tail(q) ELSE <<Send(q[1].ev, to)>> \o Tail(q)
  BY <1>0, <1>4
<1>6. to = {} <=> Registered \subseteq q[1].to
  BY <1>3
<1> QED BY <1>0, <1>1, <1>3, <1>4, <1>5, <1>6

\* A handler sends a frame to one of the targets.
LEMMA SendFacts ==
  ASSUME TypesInv, NEW a \in Account, NEW b \in Account, Relay(a, b)
  PROVE  /\ relay[a] # <<>> /\ relay[a][1].op = "send" /\ b \in relay[a][1].to
         /\ relay[a][1] \in Job /\ EventFits(relay[a][1].ev, DOMAIN history)
         /\ \/ relay[a][1].to = {b} /\ relay'[a] = Tail(relay[a])
            \/ /\ relay[a][1].to # {b}
               /\ relay'[a] = <<Send(relay[a][1].ev, relay[a][1].to \ {b})>> \o Tail(relay[a])
         /\ DOMAIN inbox' = Account
         /\ \A u \in Account : u # b => inbox'[u] = inbox[u]
         /\ inbox'[b] = IF sess[b] = "off" THEN inbox[b] ELSE Append(inbox[b], relay[a][1].ev)
<1>0. DOMAIN relay = Account /\ relay[a] # <<>> /\ DOMAIN inbox = Account
  BY DEF TypesInv, Shapes, Relay
<1>1. PICK q \in Seq(Job) : q = relay[a]
  BY DEF TypesInv, Shapes
<1>2. Head(q) = q[1] /\ q[1] \in Job /\ 1 \in 1 .. Len(q)
  BY <1>0, <1>1, QueueTail
<1>3. PICK rest : rest = IF q[1].to = {b} THEN Tail(q) ELSE <<Send(q[1].ev, q[1].to \ {b})>> \o Tail(q)
  OBVIOUS
<1>4. /\ q[1].op = "send" /\ b \in q[1].to
      /\ relay' = [relay EXCEPT ![a] = rest]
      /\ inbox' = IF sess[b] = "off" THEN inbox ELSE [inbox EXCEPT ![b] = Append(@, q[1].ev)]
  BY <1>1, <1>2, <1>3 DEF Relay
<1>5. relay'[a] = rest
  BY <1>0, <1>4
<1>6. EventFits(q[1].ev, DOMAIN history)
  BY <1>1, <1>2 DEF TypesInv, QueuesFit, JobFits
<1> QED BY <1>0, <1>1, <1>2, <1>3, <1>4, <1>5, <1>6

\* What is left of a handler's jobs after a step.
LEMMA RelayBack ==
  ASSUME TypesInv, [Next]_vars, NEW a \in Account
  PROVE  Handle(a) \/ Left(relay[a], relay'[a])
<1>0. PICK q \in Seq(Job) : q = relay[a]
  BY DEF TypesInv, Shapes
<1>1. Len(q) \in Nat /\ DOMAIN q = 1 .. Len(q) /\ \A i \in 1 .. Len(q) : q[i] \in Job
  OBVIOUS
<1>2. \A i \in 1 .. Len(q) : q[i].op = "send" => q[i].to # {}
  BY <1>0 DEF TypesInv, QueuesFit, JobFits
<1>3. \A i \in 1 .. Len(q) : Stems(q[i], q[i])
  BY <1>2 DEF Stems
<1>4. CASE relay'[a] = relay[a]
  <2>1. Left(q, q)
    <3>1. \A i \in 1 .. Len(q) : i + 0 = i
      OBVIOUS
    <3> QED BY <1>1, <1>3, <3>1, LeftInPlace
  <2> QED BY <1>0, <1>4, <2>1
<1>5. ASSUME q # <<>>, relay'[a] = Tail(q) PROVE Left(q, relay'[a])
  <2>1. Tail(q) \in Seq(Job) /\ \A k \in 1 .. Len(Tail(q)) : Tail(q)[k] = q[k + 1] /\ k + 1 \in 1 .. Len(q)
    BY <1>5, QueueTail
  <2>2. PICK t \in Seq(Job) : t = Tail(q)
    BY <2>1
  <2>3. Len(t) = Len(q) - 1
    BY <1>5, <2>2, QueueTail
  <2>4. \A k \in 1 .. Len(t) : Stems(q[k + 1], t[k])
    BY <1>3, <2>1, <2>2
  <2>5. Left(q, t)
    BY <1>1, <2>3, <2>4, LeftInPlace
  <2> QED BY <1>5, <2>2, <2>5
<1>6. CASE CopyTargets(a)
  <2>1. q # <<>> /\ q[1].op = "bcast"
    BY <1>0, <1>6, CopyFacts
  <2>2. PICK to \in SUBSET Account : to = Registered \ q[1].to
    BY DEF Registered
  <2>3. relay'[a] = Tail(q) \/ (to # {} /\ relay'[a] = <<Send(q[1].ev, to)>> \o Tail(q))
    <3>1. to # {} <=> ~(Registered \subseteq q[1].to)
      BY <2>2
    <3> QED BY <1>0, <1>6, <2>2, <3>1, CopyFacts
  <2>4. CASE to # {} /\ relay'[a] = <<Send(q[1].ev, to)>> \o Tail(q)
    <3>1. 1 \in 1 .. Len(q) /\ q[1].ev \in EventRecord
      <4>1. 1 \in 1 .. Len(q)
        BY <2>1, QueueTail
      <4> QED BY <1>1, <4>1 DEF Job
    <3>2. PICK j \in Job : j = Send(q[1].ev, to) /\ j.ev = q[1].ev /\ j.op = "send" /\ j.to = to
      <4>1. PICK e \in EventRecord : e = q[1].ev
        BY <3>1
      <4> QED BY <4>1, JobTyped
    <3>3. PICK r : r = <<j>> \o Tail(q)
      OBVIOUS
    <3>4. r \in Seq(Job) /\ Len(r) = Len(q) /\ r[1] = j /\ \A k \in 1 .. Len(q) : k # 1 => r[k] = q[k]
      BY <2>1, <3>3, QueueReplace
    <3>5. Stems(q[1], j)
      BY <2>1, <2>2, <2>4, <3>2 DEF Stems
    <3>6. \A k \in 1 .. Len(r) : Stems(q[k + 0], r[k])
      <4>1. \A k \in 1 .. Len(r) : k + 0 = k
        OBVIOUS
      <4> QED BY <1>3, <3>1, <3>4, <3>5, <4>1
    <3>7. Left(q, r)
      BY <1>1, <3>4, <3>6, LeftInPlace
    <3> QED BY <1>0, <2>4, <3>2, <3>3, <3>7
  <2> QED BY <1>0, <1>5, <2>1, <2>3, <2>4
<1>7. ASSUME NEW b \in Account, Relay(a, b) PROVE Left(q, relay'[a])
  <2>1. q # <<>> /\ q[1].op = "send"
    BY <1>0, <1>7, SendFacts
  <2>2. relay'[a] = Tail(q) \/ (q[1].to # {b} /\ relay'[a] = <<Send(q[1].ev, q[1].to \ {b})>> \o Tail(q))
    BY <1>0, <1>7, SendFacts
  <2>3. CASE q[1].to # {b} /\ relay'[a] = <<Send(q[1].ev, q[1].to \ {b})>> \o Tail(q)
    <3>1. 1 \in 1 .. Len(q) /\ q[1] \in Job
      <4>1. 1 \in 1 .. Len(q)
        BY <2>1, QueueTail
      <4> QED BY <1>1, <4>1
    <3>2. PICK to \in SUBSET Account : to = q[1].to \ {b}
      BY <3>1 DEF Job
    <3>3. PICK j \in Job : j = Send(q[1].ev, to) /\ j.ev = q[1].ev /\ j.op = "send" /\ j.to = to
      <4>1. PICK e \in EventRecord : e = q[1].ev
        BY <3>1 DEF Job
      <4> QED BY <4>1, JobTyped
    <3>4. PICK r : r = <<j>> \o Tail(q)
      OBVIOUS
    <3>5. relay'[a] = r
      BY <2>3, <3>2, <3>3, <3>4
    <3>6. r \in Seq(Job) /\ Len(r) = Len(q) /\ r[1] = j /\ \A k \in 1 .. Len(q) : k # 1 => r[k] = q[k]
      BY <2>1, <3>4, QueueReplace
    <3>7. Stems(q[1], j)
      <4>1. q[1].to # {}
        BY <1>2, <2>1, <3>1
      <4> QED BY <2>1, <2>3, <3>2, <3>3, <4>1 DEF Stems
    <3>8. \A k \in 1 .. Len(r) : Stems(q[k + 0], r[k])
      <4>1. \A k \in 1 .. Len(r) : k + 0 = k
        OBVIOUS
      <4> QED BY <1>3, <3>1, <3>6, <3>7, <4>1
    <3>9. Left(q, r)
      BY <1>1, <3>6, <3>8, LeftInPlace
    <3> QED BY <3>5, <3>9
  <2> QED BY <1>5, <2>1, <2>2, <2>3
<1>8. ASSUME NEW b \in Account,
             relay'[a] = Among([i \in DOMAIN q |-> Cut(q[i], b)],
                               {i \in DOMAIN q : q[i].op = "bcast" \/ q[i].to # {b}})
      PROVE  Left(q, relay'[a])
  <2>1. PICK f : f = [i \in DOMAIN q |-> Cut(q[i], b)]
    OBVIOUS
  <2>2. PICK I : I = {i \in DOMAIN q : q[i].op = "bcast" \/ q[i].to # {b}}
    OBVIOUS
  <2>3. ASSUME NEW i \in 1 .. Len(q)
        PROVE  /\ f[i] \in Job /\ (q[i].op = "bcast" => f[i] = q[i])
               /\ (q[i].op = "send" => f[i].op = "send" /\ f[i].ev = q[i].ev /\ f[i].to = q[i].to \ {b})
    <3>1. f[i] = IF q[i].op = "send" THEN [q[i] EXCEPT !.to = @ \ {b}] ELSE q[i]
      BY <1>1, <2>1 DEF Cut
    <3>2. q[i] \in Job
      BY <1>1
    <3> QED BY <3>1, <3>2 DEF Job
  <2>4. f \in Seq(Job) /\ Len(f) = Len(q)
    BY <1>1, <2>1, <2>3
  <2>5. I \in SUBSET (1 .. Len(f))
    BY <1>1, <2>2, <2>4
  <2>6. PICK r : r = Among(f, I)
    OBVIOUS
  <2>7. r \in Seq(Job) /\ Len(r) = Cardinality(I)
    BY <2>4, <2>5, <2>6, AmongSeq
  <2>p. PICK g : g = Ascending(I)
    OBVIOUS
  <2>g. /\ \A k \in 1 .. Len(r) : g[k] \in I /\ r[k] = f[g[k]]
        /\ \A j, k \in 1 .. Len(r) : j < k => g[j] < g[k]
    <3>1. PICK len \in Nat : len = Len(f)
      BY <2>4
    <3>2. I \in SUBSET (1 .. len)
      BY <2>5, <3>1
    <3>3. /\ Cardinality(I) \in Nat
          /\ Among(f, I) = [k \in 1 .. Cardinality(I) |-> f[Ascending(I)[k]]]
          /\ \A k \in 1 .. Cardinality(I) : Ascending(I)[k] \in I
          /\ \A i \in I : \E k \in 1 .. Cardinality(I) : Ascending(I)[k] = i
          /\ \A j, k \in 1 .. Cardinality(I) : j < k => Ascending(I)[j] < Ascending(I)[k]
      BY <3>2, AmongFacts
    <3> QED BY <2>6, <2>7, <2>p, <3>3
  <2>8. ASSUME NEW i \in I PROVE i \in 1 .. Len(q) /\ Stems(q[i], f[i])
    <3>1. i \in 1 .. Len(q) /\ (q[i].op = "bcast" \/ q[i].to # {b})
      BY <1>1, <2>2
    <3>2. q[i].op = "bcast" \/ q[i].op = "send"
      BY <1>1, <3>1 DEF Job
    <3>3. CASE q[i].op = "bcast"
      BY <1>3, <2>3, <3>1, <3>3
    <3>4. CASE q[i].op = "send"
      <4>1. q[i].to # {} /\ q[i].to # {b}
        BY <1>2, <3>1, <3>4
      <4>2. q[i].to \ {b} # {}
        BY <4>1
      <4> QED BY <2>3, <3>1, <3>4, <4>2 DEF Stems
    <3> QED BY <3>1, <3>2, <3>3, <3>4
  <2>9. relay'[a] = r
    BY <1>8, <2>1, <2>2, <2>6
  <2>10. \A k \in 1 .. Len(r) : g[k] \in 1 .. Len(q) /\ Stems(q[g[k]], r[k])
    BY <2>8, <2>g
  <2>11. \A j, k \in 1 .. Len(r) : g[j] = g[k] => j = k
    <3> SUFFICES ASSUME NEW j \in 1 .. Len(r), NEW k \in 1 .. Len(r), g[j] = g[k] PROVE j = k
      OBVIOUS
    <3>1. g[j] \in Nat /\ j \in Nat /\ k \in Nat
      BY <2>7, <2>10
    <3> QED BY <2>g, <3>1
  <2> QED BY <2>7, <2>9, <2>10, <2>11 DEF Left
<1> QED BY <1>0, <1>4, <1>6, <1>7, <1>8, RelayMoves

\* A job stays a job, about a message that stays.
LEMMA RelayTyped ==
  ASSUME TypesInv, [Next]_vars
  PROVE  /\ DOMAIN relay' = Account
         /\ \A a \in Account :
              /\ relay'[a] \in Seq(Job)
              /\ \A k \in 1 .. Len(relay'[a]) : JobFits(relay'[a][k], DOMAIN history')
<1>1. \A e : EventFits(e, DOMAIN history) => EventFits(e, DOMAIN history')
  BY HistoryGrows DEF EventFits
<1>2. ASSUME NEW a \in Account
      PROVE  /\ relay'[a] \in Seq(Job)
             /\ \A k \in 1 .. Len(relay'[a]) : JobFits(relay'[a][k], DOMAIN history')
  <2>1. CASE Handle(a)
    <3>1. conn[a] \in Name
      BY <2>1, HandleFacts
    <3>2. PICK l \in LineRecord : LineFits(l, DOMAIN history) /\ Handles(a, l)
      BY <2>1, HandleFacts
    <3>3. /\ relay'[a] \in Seq(Job)
          /\ \A k \in 1 .. Len(relay'[a]) : JobFits(relay'[a][k], DOMAIN history)
      BY <3>1, <3>2, HandlesTyped
    <3> QED BY <1>1, <3>3 DEF JobFits
  <2>2. CASE Left(relay[a], relay'[a])
    <3>1. \A i \in 1 .. Len(relay[a]) : JobFits(relay[a][i], DOMAIN history)
      BY DEF TypesInv, QueuesFit
    <3>2. ASSUME NEW k \in 1 .. Len(relay'[a]) PROVE JobFits(relay'[a][k], DOMAIN history')
      <4>1. PICK i \in 1 .. Len(relay[a]) : Stems(relay[a][i], relay'[a][k])
        BY <2>2 DEF Left
      <4>2. JobFits(relay[a][i], DOMAIN history)
        BY <3>1
      <4> QED BY <1>1, <4>1, <4>2 DEF Stems, JobFits
    <3> QED BY <2>2, <3>2 DEF Left
  <2> QED BY <2>1, <2>2, RelayBack
<1> QED BY <1>2, RelayMoves

----------------------------------------------------------------------------
(* The events on their way to the gateway, and the plain variables.        *)

\* The event an inbox has first.
LEMMA HeadEvent ==
  ASSUME TypesInv, NEW a \in Account, inbox[a] # <<>>
  PROVE  /\ Head(inbox[a]) = inbox[a][1] /\ inbox[a][1] \in EventRecord
         /\ EventFits(inbox[a][1], DOMAIN history) /\ 1 \in 1 .. Len(inbox[a])
<1>1. PICK q \in Seq(EventRecord) : q = inbox[a]
  BY DEF TypesInv, Shapes
<1>2. Head(q) = q[1] /\ 1 \in 1 .. Len(q) /\ q[1] \in EventRecord
  BY <1>1, QueueTail
<1>3. EventFits(q[1], DOMAIN history)
  BY <1>1, <1>2 DEF TypesInv, QueuesFit
<1> QED BY <1>1, <1>2, <1>3

\* The gateway's handler of some event.
OnEvent(a) == OnWelcome(a) \/ OnNick(a) \/ OnMsg(a) \/ OnPriv(a) \/ OnPrivSent(a) \/ OnErr(a)

\* Events are emitted from the first, and come behind the last.
LEMMA InboxMoves ==
  ASSUME TypesInv, [Next]_vars
  PROVE  /\ DOMAIN inbox' = Account
         /\ \A a \in Account :
              \/ inbox'[a] = inbox[a]
              \/ OnEvent(a) /\ inbox[a] # <<>> /\ inbox'[a] = Tail(inbox[a])
              \/ (WsClosed(a) \/ Restart) /\ inbox'[a] = <<>>
              \/ Login(a) /\ inbox'[a] = <<Event("welcome", Guest[a], NoName, 0)>>
              \/ \E u \in Account : /\ Relay(u, a) /\ sess[a] # "off"
                                    /\ inbox'[a] = Append(inbox[a], relay[u][1].ev)
<1> DEFINE Goal ==
         /\ DOMAIN inbox' = Account
         /\ \A a \in Account :
              \/ inbox'[a] = inbox[a]
              \/ OnEvent(a) /\ inbox[a] # <<>> /\ inbox'[a] = Tail(inbox[a])
              \/ (WsClosed(a) \/ Restart) /\ inbox'[a] = <<>>
              \/ Login(a) /\ inbox'[a] = <<Event("welcome", Guest[a], NoName, 0)>>
              \/ \E u \in Account : /\ Relay(u, a) /\ sess[a] # "off"
                                    /\ inbox'[a] = Append(inbox[a], relay[u][1].ev)
<1>0. DOMAIN inbox = Account
  BY DEF TypesInv, Shapes
<1>1. ASSUME UNCHANGED inbox PROVE Goal
  BY <1>0, <1>1
<1>2. ASSUME NEW u \in Account, OnEvent(u) PROVE Goal
  <2>1. inbox[u] # <<>> /\ inbox' = [inbox EXCEPT ![u] = Tail(@)]
    BY <1>2 DEF OnEvent, OnWelcome, OnNick, OnMsg, OnPriv, OnPrivSent, OnErr, Emitted
  <2>2. /\ DOMAIN inbox' = Account /\ inbox'[u] = Tail(inbox[u])
        /\ \A a \in Account : a # u => inbox'[a] = inbox[a]
    BY <1>0, <2>1
  <2> QED BY <1>2, <2>1, <2>2
<1>3. ASSUME NEW u \in Account, WsClosed(u) PROVE Goal
  <2>1. inbox' = [inbox EXCEPT ![u] = <<>>]
    BY <1>3 DEF WsClosed
  <2> QED BY <1>0, <1>3, <2>1
<1>4. ASSUME NEW u \in Account, Login(u) PROVE Goal
  <2>1. PICK q : q = <<Event("welcome", Guest[u], NoName, 0)>>
    OBVIOUS
  <2>2. inbox' = [inbox EXCEPT ![u] = q]
    BY <1>4, <2>1 DEF Login
  <2>3. /\ DOMAIN inbox' = Account /\ inbox'[u] = q
        /\ \A a \in Account : a # u => inbox'[a] = inbox[a]
    BY <1>0, <2>2
  <2> QED BY <1>4, <2>1, <2>3
<1>5. ASSUME Restart PROVE Goal
  BY <1>5 DEF Restart
<1>6. ASSUME NEW u \in Account, NEW b \in Account, Relay(u, b) PROVE Goal
  <2>1. /\ DOMAIN inbox' = Account /\ \A a \in Account : a # b => inbox'[a] = inbox[a]
        /\ inbox'[b] = IF sess[b] = "off" THEN inbox[b] ELSE Append(inbox[b], relay[u][1].ev)
    BY <1>6, SendFacts
  <2> QED BY <1>6, <2>1
<1>7. ASSUME NEW a \in Account,
             \/ SendPublic(a) \/ Open(a) \/ RequestState(a) \/ Logout(a)
             \/ Handle(a) \/ CopyTargets(a) \/ Drop(a)
             \/ (\E b \in Account : SendDirect(a, b))
             \/ (\E c \in Groups : SendGroup(a, c))
             \/ (\E n \in Typed : SetNickname(a, n))
             \/ \E others \in SUBSET Account : CreateGroup(a, others)
      PROVE  UNCHANGED inbox
  BY <1>7 DEF SendPublic, Open, RequestState, Logout, Handle, CopyTargets, Drop, SendDirect,
     SendGroup, SetNickname, CreateGroup, Server
<1>8. ASSUME \/ Crash
             \/ \E u, b \in Account : CrashInDirect(u, b)
             \/ \E u \in Account, others \in SUBSET Account : CrashInGroup(u, others)
      PROVE  Restart
  BY <1>8 DEF Crash, CrashInDirect, CrashInGroup
<1>9. ASSUME UNCHANGED vars PROVE UNCHANGED inbox
  BY <1>9 DEF vars
<1> HIDE DEF Goal
<1>10. ASSUME NEW a \in Account,
              \/ \E b \in Account : SendDirect(a, b) \/ Relay(a, b) \/ CrashInDirect(a, b)
              \/ \E others \in SUBSET Account : CreateGroup(a, others) \/ CrashInGroup(a, others)
              \/ \E n \in Typed : SetNickname(a, n)
              \/ \E c \in Groups : SendGroup(a, c)
       PROVE  Goal
  BY <1>1, <1>5, <1>6, <1>7, <1>8, <1>10
<1>11. ASSUME NEW a \in Account,
              OnWelcome(a) \/ OnNick(a) \/ OnMsg(a) \/ OnPriv(a) \/ OnPrivSent(a) \/ OnErr(a)
       PROVE  Goal
  BY <1>2, <1>11 DEF OnEvent
<1>12. Goal
  BY <1>1, <1>3, <1>4, <1>5, <1>7, <1>8, <1>9, <1>10, <1>11, Steps
<1> QED BY <1>12 DEF Goal

\* An event stays an event, about a message that stays.
LEMMA InboxTyped ==
  ASSUME TypesInv, [Next]_vars
  PROVE  /\ DOMAIN inbox' = Account
         /\ \A a \in Account :
              /\ inbox'[a] \in Seq(EventRecord)
              /\ \A k \in 1 .. Len(inbox'[a]) : EventFits(inbox'[a][k], DOMAIN history')
<1>1. \A e : EventFits(e, DOMAIN history) => EventFits(e, DOMAIN history')
  BY HistoryGrows DEF EventFits
<1>2. ASSUME NEW a \in Account
      PROVE  /\ inbox'[a] \in Seq(EventRecord)
             /\ \A k \in 1 .. Len(inbox'[a]) : EventFits(inbox'[a][k], DOMAIN history')
  <2>1. PICK q \in Seq(EventRecord) : q = inbox[a]
    BY DEF TypesInv, Shapes
  <2>2. \A k \in 1 .. Len(q) : EventFits(q[k], DOMAIN history')
    BY <1>1, <2>1 DEF TypesInv, QueuesFit
  <2>3. CASE inbox'[a] = inbox[a]
    BY <2>1, <2>2, <2>3
  <2>4. CASE inbox[a] # <<>> /\ inbox'[a] = Tail(inbox[a])
    BY <2>1, <2>2, <2>4, QueueTail
  <2>5. CASE inbox'[a] = <<>>
    BY <2>5
  <2>6. CASE inbox'[a] = <<Event("welcome", Guest[a], NoName, 0)>>
    <3>1. PICK g \in Name : g = Guest[a]
      BY RoutingConstants
    <3>2. PICK e : e = Event("welcome", g, NoName, 0)
      OBVIOUS
    <3>3. e \in EventRecord /\ e.type = "welcome" /\ e.who = g /\ e.m = 0
      BY <3>2 DEF Event, EventRecord, EventTypes
    <3>4. EventFits(e, DOMAIN history')
      BY <3>3 DEF EventFits
    <3>5. PICK r : r = <<e>>
      OBVIOUS
    <3>6. r \in Seq(EventRecord) /\ \A k \in 1 .. Len(r) : r[k] = e
      BY <3>3, <3>5
    <3> QED BY <2>6, <3>1, <3>2, <3>4, <3>5, <3>6
  <2>7. ASSUME NEW u \in Account, Relay(u, a), inbox'[a] = Append(inbox[a], relay[u][1].ev)
        PROVE  /\ inbox'[a] \in Seq(EventRecord)
               /\ \A k \in 1 .. Len(inbox'[a]) : EventFits(inbox'[a][k], DOMAIN history')
    <3>1. relay[u][1] \in Job /\ EventFits(relay[u][1].ev, DOMAIN history)
      BY <2>7, SendFacts
    <3>2. PICK e \in EventRecord : e = relay[u][1].ev
      BY <3>1 DEF Job
    <3>3. EventFits(e, DOMAIN history')
      BY <1>1, <3>1, <3>2
    <3>4. /\ Append(q, e) \in Seq(EventRecord)
          /\ Append(q, e)[Len(q) + 1] = e
          /\ \A k \in 1 .. Len(q) : Append(q, e)[k] = q[k]
          /\ \A k \in 1 .. Len(Append(q, e)) : k \in 1 .. Len(q) \/ k = Len(q) + 1
      BY QueueAppend
    <3> QED BY <2>1, <2>2, <2>7, <3>2, <3>3, <3>4
  <2> QED BY <2>3, <2>4, <2>5, <2>6, <2>7, InboxMoves
<1> QED BY <1>2, InboxMoves

\* The variables that are functions of accounts, and the bounds.
Plain ==
  /\ sess \in [Account -> Sessions]
  /\ nick \in [Account -> Name \cup {NoName}]
  /\ users \in [Account -> Name]
  /\ conn \in [Account -> Name \cup {NoName}]
  /\ upto \in [Account -> 0..MaxMessages]
  /\ asked \in 0..Requests /\ logins \in 0..Logins
  /\ WelcomedNamed

\* They keep their types.
LEMMA PlainTyped ==
  ASSUME TypesInv, [Next]_vars
  PROVE  Plain'
<1>0. Plain
  BY DEF TypesInv, Shapes, Plain
<1>1. /\ Len(history) \in 0 .. MaxMessages /\ 0 \in 0 .. MaxMessages
      /\ {Requests, Logins} \subseteq Nat /\ Typed \subseteq Name
      /\ Guest \in [Account -> Name]
  BY RoutingConstants DEF TypesInv, Shapes
<1>2. {"off", "joining", "welcomed", "ready", "closing"} \subseteq Sessions
  BY DEF Sessions
<1>3. ASSUME UNCHANGED <<sess, nick, users, conn, upto>>, asked' \in 0..Requests, logins' \in 0..Logins
      PROVE  Plain'
  BY <1>0, <1>3 DEF Plain, WelcomedNamed, Welcomed
<1>4. ASSUME NEW a \in Account,
             \/ SendPublic(a)
             \/ OnMsg(a) \/ OnPriv(a) \/ OnPrivSent(a) \/ CopyTargets(a)
             \/ (\E b \in Account : SendDirect(a, b) \/ Relay(a, b))
             \/ (\E c \in Groups : SendGroup(a, c))
             \/ \E others \in SUBSET Account : CreateGroup(a, others)
      PROVE  Plain'
  <2>1. UNCHANGED <<sess, nick, users, conn, upto, asked, logins>>
    BY <1>4 DEF SendPublic, OnMsg, OnPriv, OnPrivSent, CopyTargets, SendDirect, Relay, SendGroup,
       CreateGroup, Database, Server, Bounds
  <2> QED BY <1>0, <1>3, <2>1 DEF Plain
<1>5. ASSUME NEW a \in Account, Open(a) \/ \E n \in Typed : SetNickname(a, n)
      PROVE  Plain'
  <2>1. /\ UNCHANGED <<sess, nick, users, conn, upto, logins>>
        /\ asked < Requests /\ asked' = asked + 1
    BY <1>5 DEF Open, SetNickname, Database, Server
  <2> QED BY <1>0, <1>1, <1>3, <2>1 DEF Plain
<1>6. ASSUME NEW a \in Account, RequestState(a)
      PROVE  Plain'
  <2>1. /\ UNCHANGED <<sess, nick, users, conn, logins>>
        /\ asked < Requests /\ asked' = asked + 1
        /\ upto' = [upto EXCEPT ![a] = Len(history)]
    BY <1>6 DEF RequestState, Database, Server
  <2>2. upto' \in [Account -> 0..MaxMessages] /\ asked' \in 0..Requests
    BY <1>0, <1>1, <2>1 DEF Plain
  <2> QED BY <1>0, <2>1, <2>2 DEF Plain, WelcomedNamed, Welcomed
<1>7. ASSUME NEW a \in Account, Logout(a) \/ OnErr(a)
      PROVE  Plain'
  <2>1. /\ UNCHANGED <<nick, users, conn, upto, asked, logins>>
        /\ \/ UNCHANGED sess
           \/ Welcomed(a) /\ sess' = [sess EXCEPT ![a] = "closing"]
    BY <1>7 DEF Logout, OnErr, Database, Server, Bounds, Welcomed
  <2>2. CASE UNCHANGED sess
    BY <1>0, <1>3, <2>1, <2>2 DEF Plain
  <2>3. CASE Welcomed(a) /\ sess' = [sess EXCEPT ![a] = "closing"]
    <3>1. /\ sess' \in [Account -> Sessions]
          /\ \A u \in Account : Welcomed(u)' => Welcomed(u)
      BY <1>0, <1>2, <2>3 DEF Plain, Welcomed
    <3> QED BY <1>0, <2>1, <3>1 DEF Plain, WelcomedNamed
  <2> QED BY <2>1, <2>2, <2>3
<1>8. ASSUME NEW a \in Account, Login(a)
      PROVE  Plain'
  <2>1. /\ UNCHANGED <<nick, users, upto, asked>> /\ logins < Logins /\ logins' = logins + 1
        /\ sess' = [sess EXCEPT ![a] = "joining"] /\ conn' = [conn EXCEPT ![a] = Guest[a]]
    BY <1>8 DEF Login, Database
  <2>2. /\ sess' \in [Account -> Sessions] /\ conn' \in [Account -> Name \cup {NoName}]
        /\ logins' \in 0 .. Logins
        /\ \A u \in Account : Welcomed(u)' => Welcomed(u)
    BY <1>0, <1>1, <1>2, <2>1 DEF Plain, Welcomed
  <2> QED BY <1>0, <2>1, <2>2 DEF Plain, WelcomedNamed
<1>9. ASSUME NEW a \in Account, WsClosed(a)
      PROVE  Plain'
  <2>1. /\ UNCHANGED <<users, conn, asked, logins>>
        /\ sess' = [sess EXCEPT ![a] = "off"] /\ nick' = [nick EXCEPT ![a] = NoName]
        /\ upto' = [upto EXCEPT ![a] = 0]
    BY <1>9 DEF WsClosed, Database, Bounds
  <2>2. /\ sess' \in [Account -> Sessions] /\ nick' \in [Account -> Name \cup {NoName}]
        /\ upto' \in [Account -> 0 .. MaxMessages]
        /\ \A u \in Account : Welcomed(u)' => Welcomed(u) /\ nick'[u] = nick[u]
    BY <1>0, <1>1, <1>2, <2>1 DEF Plain, Welcomed
  <2> QED BY <1>0, <2>1, <2>2 DEF Plain, WelcomedNamed
<1>10. ASSUME NEW a \in Account, OnWelcome(a)
       PROVE  Plain'
  <2>1. /\ UNCHANGED <<users, conn, upto, asked, logins>>
        /\ inbox[a] # <<>> /\ Head(inbox[a]).type = "welcome"
        /\ sess' = [sess EXCEPT ![a] = "welcomed"] /\ nick' = [nick EXCEPT ![a] = Head(inbox[a]).who]
    BY <1>10 DEF OnWelcome, Emitted, Database, Bounds
  <2>2. PICK n \in Name : n = Head(inbox[a]).who
    BY <2>1, HeadEvent DEF EventFits
  <2>3. /\ sess' \in [Account -> Sessions] /\ nick' \in [Account -> Name \cup {NoName}]
        /\ \A u \in Account : u # a => (Welcomed(u)' => Welcomed(u)) /\ nick'[u] = nick[u]
        /\ nick'[a] \in Name
    BY <1>0, <1>2, <2>1, <2>2 DEF Plain, Welcomed
  <2> QED BY <1>0, <2>1, <2>3 DEF Plain, WelcomedNamed
<1>11. ASSUME NEW a \in Account, OnNick(a)
       PROVE  Plain'
  <2>1. /\ UNCHANGED <<conn, asked, logins>>
        /\ inbox[a] # <<>> /\ Head(inbox[a]).type = "nick"
    BY <1>11 DEF OnNick, Emitted, Bounds
  <2>2. PICK n \in Name : n = Head(inbox[a]).new
    BY <2>1, HeadEvent DEF EventFits
  <2>3. CASE UNCHANGED <<sess, nick, users, upto>>
    BY <1>0, <1>3, <2>1, <2>3 DEF Plain
  <2>4. CASE ~UNCHANGED <<sess, nick, users, upto>>
    <3>1. /\ nick' = [nick EXCEPT ![a] = n]
          /\ \/ /\ sess' = [sess EXCEPT ![a] = "ready"] /\ upto' = [upto EXCEPT ![a] = Len(history)]
                /\ UNCHANGED users
             \/ /\ UNCHANGED <<sess, upto>>
                /\ UNCHANGED users \/ users' = [users EXCEPT ![a] = n]
      BY <1>11, <2>2, <2>4 DEF OnNick
    <3>2. /\ nick' \in [Account -> Name \cup {NoName}] /\ users' \in [Account -> Name]
          /\ sess' \in [Account -> Sessions] /\ upto' \in [Account -> 0 .. MaxMessages]
      BY <1>0, <1>1, <1>2, <3>1 DEF Plain
    <3>3. /\ nick'[a] \in Name
          /\ \A u \in Account : u # a => (Welcomed(u)' => Welcomed(u)) /\ nick'[u] = nick[u]
      BY <1>0, <3>1 DEF Plain, Welcomed
    <3> QED BY <1>0, <2>1, <3>2, <3>3 DEF Plain, WelcomedNamed
  <2> QED BY <2>3, <2>4
<1>12. ASSUME NEW a \in Account, Handle(a)
       PROVE  Plain'
  <2>1. UNCHANGED <<sess, nick, users, upto, asked, logins>>
    BY <1>12 DEF Handle, Database, Bounds
  <2>2. PICK l \in LineRecord : LineFits(l, DOMAIN history) /\ Handles(a, l)
    BY <1>12, HandleFacts
  <2>3. UNCHANGED conn \/ (conn' = [conn EXCEPT ![a] = l.name] /\ l.name \in Name)
    BY <2>2 DEF Handles, LineFits
  <2>4. conn' \in [Account -> Name \cup {NoName}]
    BY <1>0, <2>3 DEF Plain
  <2> QED BY <1>0, <2>1, <2>4 DEF Plain, WelcomedNamed, Welcomed
<1>13. ASSUME NEW a \in Account, Drop(a)
       PROVE  Plain'
  <2>1. UNCHANGED <<sess, nick, users, upto, asked, logins>> /\ conn' = [conn EXCEPT ![a] = NoName]
    BY <1>13 DEF Drop, Database, Bounds
  <2>2. conn' \in [Account -> Name \cup {NoName}]
    BY <1>0, <2>1 DEF Plain
  <2> QED BY <1>0, <2>1, <2>2 DEF Plain, WelcomedNamed, Welcomed
<1>14. ASSUME Restart PROVE Plain'
  <2>1. /\ UNCHANGED <<users, conn, asked, logins>>
        /\ sess' = [a \in Account |-> "off"] /\ nick' = [a \in Account |-> NoName]
        /\ upto' = [a \in Account |-> 0]
    BY <1>14 DEF Restart, Bounds
  <2>2. /\ sess' \in [Account -> Sessions] /\ nick' \in [Account -> Name \cup {NoName}]
        /\ upto' \in [Account -> 0 .. MaxMessages]
        /\ \A u \in Account : ~Welcomed(u)'
    BY <1>1, <1>2, <2>1 DEF Welcomed
  <2> QED BY <1>0, <2>1, <2>2 DEF Plain, WelcomedNamed
<1>15. ASSUME \/ Crash
              \/ \E u, b \in Account : CrashInDirect(u, b)
              \/ \E u \in Account, others \in SUBSET Account : CrashInGroup(u, others)
       PROVE  Restart
  BY <1>15 DEF Crash, CrashInDirect, CrashInGroup
<1>16. ASSUME UNCHANGED vars PROVE Plain'
  BY <1>0, <1>3, <1>16 DEF vars, Plain
<1>17. ASSUME NEW a \in Account,
              \/ \E b \in Account : SendDirect(a, b) \/ Relay(a, b) \/ CrashInDirect(a, b)
              \/ \E others \in SUBSET Account : CreateGroup(a, others) \/ CrashInGroup(a, others)
              \/ \E n \in Typed : SetNickname(a, n)
              \/ \E c \in Groups : SendGroup(a, c)
       PROVE  Plain'
  BY <1>4, <1>5, <1>14, <1>15, <1>17
<1> QED BY <1>4, <1>5, <1>6, <1>7, <1>8, <1>9, <1>10, <1>11, <1>12, <1>13, <1>14, <1>15, <1>16,
        <1>17, Steps

\* Whatever is lost was stored, and stays lost.
LEMMA LostTyped ==
  ASSUME TypesInv, [Next]_vars
  PROVE  LostStored' /\ lost \subseteq lost'
<1>0. lost \subseteq DOMAIN history /\ DOMAIN history \subseteq DOMAIN history'
  BY HistoryGrows DEF TypesInv, LostStored
<1>1. ASSUME UNCHANGED lost PROVE LostStored' /\ lost \subseteq lost'
  BY <1>0, <1>1 DEF LostStored
<1>2. ASSUME NEW a \in Account, Handle(a) PROVE LostStored' /\ lost \subseteq lost'
  <2>1. PICK l \in LineRecord : LineFits(l, DOMAIN history) /\ Handles(a, l)
    BY <1>2, HandleFacts
  <2>2. lost' = lost \/ (l.cmd = "msg" /\ lost' = lost \cup {l.m})
    BY <2>1 DEF Handles
  <2>3. l.cmd = "msg" => l.m \in DOMAIN history
    BY <2>1 DEF LineFits
  <2> QED BY <1>0, <2>2, <2>3 DEF LostStored
<1>3. ASSUME NEW a \in Account, Drop(a) PROVE LostStored' /\ lost \subseteq lost'
  <2>1. lost' = lost \cup ({outbox[a][i].m : i \in DOMAIN outbox[a]} \ {0})
    BY <1>3 DEF Drop
  <2>2. PICK q \in Seq(LineRecord) : q = outbox[a]
    BY DEF TypesInv, Shapes
  <2>3. \A i \in 1 .. Len(q) : q[i] \in LineRecord /\ LineFits(q[i], DOMAIN history)
    BY <2>2 DEF TypesInv, QueuesFit
  <2>4. \A i \in 1 .. Len(q) : q[i].m = 0 \/ q[i].m \in DOMAIN history
    BY <2>3 DEF LineFits, LineRecord
  <2>5. DOMAIN q = 1 .. Len(q)
    OBVIOUS
  <2> QED BY <1>0, <2>1, <2>2, <2>4, <2>5 DEF LostStored
<1>4. ASSUME NEW a \in Account,
             \/ Login(a) \/ WsClosed(a) \/ SendPublic(a) \/ Open(a) \/ RequestState(a) \/ Logout(a)
             \/ OnWelcome(a) \/ OnNick(a) \/ OnMsg(a) \/ OnPriv(a) \/ OnPrivSent(a) \/ OnErr(a)
             \/ CopyTargets(a)
      PROVE  UNCHANGED lost
  BY <1>4 DEF Login, WsClosed, SendPublic, Open, RequestState, Logout, OnWelcome, OnNick, OnMsg,
     OnPriv, OnPrivSent, OnErr, CopyTargets, Server
<1>5. ASSUME NEW a \in Account,
             \/ \E b \in Account : SendDirect(a, b) \/ Relay(a, b) \/ CrashInDirect(a, b)
             \/ \E others \in SUBSET Account : CreateGroup(a, others) \/ CrashInGroup(a, others)
             \/ \E n \in Typed : SetNickname(a, n)
             \/ \E c \in Groups : SendGroup(a, c)
      PROVE  UNCHANGED lost
  BY <1>5 DEF SendDirect, Relay, CrashInDirect, CreateGroup, CrashInGroup, SetNickname, SendGroup,
     Restart, Server
<1>6. ASSUME Crash \/ UNCHANGED vars PROVE UNCHANGED lost
  BY <1>6 DEF Crash, Restart, vars
<1> QED BY <1>1, <1>2, <1>3, <1>4, <1>5, <1>6, Steps

----------------------------------------------------------------------------
(* The conversations' rows.                                                *)

\* They keep their type, and groups their numbers.
LEMMA ConvsTyped ==
  ASSUME Base, [Next]_vars
  PROVE  convs' \in Maps(ConvId \ {Public}, SUBSET (Account \cup Name)) /\ GroupsNumbered'
<1>0. PICK f \in Maps(ConvId \ {Public}, SUBSET (Account \cup Name)) : f = convs
  BY DEF Base, TypesInv, Shapes
<1>1. PICK k \in Nat : /\ Groups = {Group(i) : i \in 1 .. k}
                       /\ IsFiniteSet(Groups) /\ Cardinality(Groups) = k
  BY DEF Base, GroupsNumbered
<1>2. CASE UNCHANGED convs
  <2>1. Groups' = Groups
    BY <1>2 DEF Groups
  <2> QED BY <1>0, <1>1, <1>2, <2>1 DEF GroupsNumbered
<1>3. ASSUME NEW c \in ConvId \ {Public}, NEW ms \in SUBSET (Account \cup Name),
             convs' = With(convs, c, ms), Opens(c, ms), c \notin DOMAIN convs
      PROVE  convs' \in Maps(ConvId \ {Public}, SUBSET (Account \cup Name)) /\ GroupsNumbered'
  <2>1. With(f, c, ms) \in Maps(ConvId \ {Public}, SUBSET (Account \cup Name))
    BY WithMap
  <2>2. DOMAIN convs' = DOMAIN convs \cup {c}
    BY <1>3 DEF With
  <2>3. CASE c.kind = "direct"
    <3>1. Groups' = Groups
      BY <2>2, <2>3 DEF Groups
    <3> QED BY <1>0, <1>1, <1>3, <2>1, <3>1 DEF GroupsNumbered
  <2>4. CASE c = Group(Cardinality(Groups) + 1)
    <3>1. PICK g : g = Group(k + 1)
      OBVIOUS
    <3>2. c = g /\ g.kind = "group"
      BY <1>1, <2>4, <3>1, GroupId
    <3>3. Groups' = Groups \cup {g} /\ g \notin Groups
      BY <1>3, <2>2, <3>2 DEF Groups
    <3>4. IsFiniteSet(Groups') /\ Cardinality(Groups') = k + 1
      <4>1. PICK G : G = Groups
        OBVIOUS
      <4>2. IsFiniteSet(G) /\ g \notin G /\ Cardinality(G) = k
        BY <1>1, <3>3, <4>1
      <4>3. IsFiniteSet(G \cup {g}) /\ Cardinality(G \cup {g}) = Cardinality(G) + 1
        BY <4>2, FS_AddElement
      <4> QED BY <3>3, <4>1, <4>2, <4>3
    <3>5. Groups' = {Group(i) : i \in 1 .. (k + 1)}
      <4>1. {Group(i) : i \in 1 .. (k + 1)} = {Group(i) : i \in 1 .. k} \cup {Group(k + 1)}
        <5>1. \A i : i \in 1 .. (k + 1) <=> i \in 1 .. k \/ i = k + 1
          OBVIOUS
        <5> QED BY <5>1
      <4> QED BY <1>1, <3>1, <3>3, <4>1
    <3> QED BY <1>0, <1>3, <2>1, <3>4, <3>5 DEF GroupsNumbered
  <2>5. c.kind = "direct" \/ c = Group(Cardinality(Groups) + 1)
    <3>1. ASSUME NEW a \in Account, NEW x \in Account \cup Name, c = Direct(a, x)
          PROVE  c.kind = "direct"
      BY <3>1, DirectId
    <3>2. ASSUME NEW a \in Account, OnPriv(a) \/ OnPrivSent(a),
                 NEW x \in FoundByNickname(Head(inbox[a]).who, Head(inbox[a]).who), c = Direct(a, x)
          PROVE  c.kind = "direct"
      <4>1. x \in Account \cup Name
        BY <3>2, PrivNamed DEF Base
      <4> QED BY <3>1, <3>2, <4>1
    <3> QED BY <1>3, <3>1, <3>2 DEF Opens
  <2> QED BY <2>3, <2>4, <2>5
<1> QED BY <1>2, <1>3, ConvsMoves

----------------------------------------------------------------------------
(* The pages, action by action.                                            *)

\* A page that is logged in is its account's.
LEMMA PageOf ==
  ASSUME TypesInv, NEW a \in Account
  PROVE  /\ PageFits(page[a]) /\ DOMAIN page = Account
         /\ page[a].user = IF sess[a] = "ready" THEN a ELSE NoUser
         /\ page[a].user = a <=> sess[a] = "ready"
         /\ page[a].user = NoUser <=> sess[a] # "ready"
         /\ a # NoUser
  BY RoutingConstants DEF TypesInv, PagesFit, Shapes

\* There is room for one more message.
LEMMA NewPlace ==
  ASSUME TypesInv, Len(history) < MaxMessages
  PROVE  NewMessage \in 1 .. MaxMessages
<1>1. Len(history) \in Nat /\ NewMessage = Len(history) + 1
  BY NewNumber DEF TypesInv, Shapes
<1>2. MaxMessages \in Nat
  BY RoutingConstants
<1> QED BY <1>1, <1>2

\* What a page gains: line e in conversation c, by way of page p.
Gains(b, p, c, e) ==
  /\ Calm(page[b], p) /\ p.users = page[b].users
  /\ DOMAIN p.convs = DOMAIN page[b].convs
  /\ Adds(p, page'[b], c, e)

\* A public message, on its sender's page.
LEMMA SendPublicPage ==
  ASSUME TypesInv, NEW a \in Account, SendPublic(a)
  PROVE  /\ \A b \in Account : b # a => page'[b] = page[b]
         /\ DOMAIN page' = Account
         /\ \E p : Gains(a, p, Public, [m |-> NewMessage, from |-> a])
<1>1. PageFits(page[a]) /\ DOMAIN page = Account
  BY PageOf
<1>2. /\ Len(history) < MaxMessages
      /\ page' = [page EXCEPT ![a] = messageReceived(setActive(@, Public), Public, NewMessage, a)]
  BY DEF SendPublic
<1>3. PICK p0 : p0 = page[a]
  OBVIOUS
<1>4. PICK p : p = setActive(p0, Public)
  OBVIOUS
<1>5. PICK m \in 1 .. MaxMessages : m = NewMessage
  BY <1>2, NewPlace
<1>6. PICK q : q = messageReceived(p, Public, m, a)
  OBVIOUS
<1>7. page' = [page EXCEPT ![a] = q]
  BY <1>2, <1>3, <1>4, <1>5, <1>6
<1>8. Calm(p0, p) /\ p.users = p0.users /\ DOMAIN p.convs = DOMAIN p0.convs
  BY <1>1, <1>3, <1>4, SetActiveFacts
<1>9. PageFits(p) /\ Public \in ConvId
  BY <1>8 DEF Calm, ConvId
<1>10. Adds(p, q, Public, [m |-> m, from |-> a])
  BY <1>6, <1>9, ReceivedFacts
<1>11. page'[a] = q
  BY <1>1, <1>7
<1>12. Gains(a, p, Public, [m |-> m, from |-> a])
  BY <1>3, <1>8, <1>10, <1>11 DEF Gains
<1> QED BY <1>1, <1>5, <1>7, <1>12

\* A page is told of a conversation.
LEMMA ToldPage ==
  ASSUME TypesInv, NEW b \in Account, NEW p, PageFits(p), p.user = page[b].user,
         NEW c \in ConvId, NEW ms \in SUBSET (Account \cup Name), NEW q,
         q = conversationCreated(p, c, ms)
  PROVE  /\ Calm(p, q) /\ q.users = p.users
         /\ DOMAIN q.convs = IF sess[b] = "ready" THEN DOMAIN p.convs \cup {c} ELSE DOMAIN p.convs
         /\ c.kind = "direct" => q.active = p.active
<1>0. page[b].user = NoUser <=> sess[b] # "ready"
  BY PageOf
<1>1. p.user = NoUser <=> sess[b] # "ready"
  BY <1>0
<1>2. /\ Calm(p, q) /\ q.users = p.users
      /\ p.user # NoUser => DOMAIN q.convs = DOMAIN p.convs \cup {c}
      /\ p.user = NoUser => q = p
      /\ c.kind = "direct" => q.active = p.active
  BY CreatedFacts
<1> QED BY <1>1, <1>2

\* A direct message, on the pages of both sides.
LEMMA SendDirectPage ==
  ASSUME TypesInv, NEW a \in Account, NEW b \in Account, SendDirect(a, b)
  PROVE  /\ DOMAIN page' = Account
         /\ \A u \in Account : u # a /\ (u # b \/ ~Welcomed(b)) => page'[u] = page[u]
         /\ Welcomed(b) =>
              /\ Calm(page[a], page'[a]) /\ page'[a].users = page[a].users
              /\ DOMAIN page'[a].convs = DOMAIN page[a].convs \cup {Direct(a, b)}
              /\ Calm(page[b], page'[b]) /\ page'[b].users = page[b].users
              /\ DOMAIN page[b].convs \subseteq DOMAIN page'[b].convs
              /\ DOMAIN page'[b].convs \subseteq DOMAIN page[b].convs \cup {Direct(a, b)}
              /\ (Direct(a, b) \notin DOMAIN convs /\ sess[b] = "ready"
                   => Direct(a, b) \in DOMAIN page'[b].convs)
         /\ ~Welcomed(b) =>
              \E p : /\ Calm(page[a], p) /\ p.users = page[a].users
                    /\ DOMAIN p.convs = DOMAIN page[a].convs \cup {Direct(a, b)}
                    /\ (page'[a] = p \/ Adds(p, page'[a], Direct(a, b), ErrorLine))
<1>1. /\ PageFits(page[a]) /\ DOMAIN page = Account /\ sess[a] = "ready" /\ page[a].user = a /\ a # b
      /\ PageFits(page[b])
  BY PageOf DEF SendDirect
<1>2. PICK p0 : p0 = page[a]
  OBVIOUS
<1>3. PICK c \in ConvId : c = Direct(a, b) /\ c.kind = "direct"
  BY DirectId
<1>4. PICK p : p = startDirect(p0, b)
  OBVIOUS
<1>5. /\ Calm(p0, p) /\ p.users = p0.users /\ DOMAIN p.convs = DOMAIN p0.convs \cup {c}
      /\ p.active = c
  BY <1>1, <1>2, <1>3, <1>4, StartDirectFacts
<1>6. PageFits(p) /\ p.user = a
  BY <1>1, <1>2, <1>5 DEF Calm
<1>7. CASE ~Welcomed(b)
  <2>1. PICK q : q = errorIn(p, c)
    OBVIOUS
  <2>2. page' = [page EXCEPT ![a] = q]
    BY <1>2, <1>3, <1>4, <1>7, <2>1 DEF SendDirect
  <2>3. q = p \/ Adds(p, q, c, ErrorLine)
    BY <1>6, <2>1, ErrorFacts
  <2>4. page'[a] = q /\ DOMAIN page' = Account /\ \A u \in Account : u # a => page'[u] = page[u]
    BY <1>1, <2>2
  <2> QED BY <1>2, <1>3, <1>5, <1>7, <2>3, <2>4
<1>8. CASE Welcomed(b)
  <2>1. PICK isNew \in BOOLEAN : isNew <=> c \notin DOMAIN convs
    OBVIOUS
  <2>2. PICK ms \in SUBSET (Account \cup Name) : ms = {a, b}
    OBVIOUS
  <2>3. PICK q : q = IF isNew THEN conversationCreated(p, c, ms) ELSE p
    OBVIOUS
  <2>4. PICK r : r = IF isNew /\ Hears(b) THEN conversationCreated(page[b], c, ms) ELSE page[b]
    OBVIOUS
  <2>5. page' = [page EXCEPT ![a] = q, ![b] = r]
    BY <1>1, <1>2, <1>3, <1>4, <1>8, <2>1, <2>2, <2>3, <2>4 DEF SendDirect
  <2>6. /\ page'[a] = q /\ page'[b] = r /\ DOMAIN page' = Account
        /\ \A u \in Account : u # a /\ u # b => page'[u] = page[u]
    BY <1>1, <2>5
  <2>7. Calm(p, q) /\ q.users = p.users /\ DOMAIN q.convs = DOMAIN p.convs /\ q.active = p.active
    <3>1. CASE isNew
      <4>1. q = conversationCreated(p, c, ms)
        BY <2>3, <3>1
      <4>2. p.user = page[a].user
        BY <1>1, <1>6
      <4>3. /\ Calm(p, q) /\ q.users = p.users
            /\ DOMAIN q.convs = IF sess[a] = "ready" THEN DOMAIN p.convs \cup {c} ELSE DOMAIN p.convs
            /\ c.kind = "direct" => q.active = p.active
        BY <1>6, <4>1, <4>2, ToldPage
      <4> QED BY <1>1, <1>3, <1>5, <4>3
    <3>2. CASE ~isNew
      BY <1>6, <2>3, <3>2, CalmSame
    <3> QED BY <3>1, <3>2
  <2>8. Calm(p0, q)
    BY <1>1, <1>2, <1>5, <2>7, CalmThen
  <2>9. /\ Calm(page[b], r) /\ r.users = page[b].users
        /\ DOMAIN page[b].convs \subseteq DOMAIN r.convs
        /\ DOMAIN r.convs \subseteq DOMAIN page[b].convs \cup {c}
        /\ isNew /\ sess[b] = "ready" => c \in DOMAIN r.convs
    <3>0. PICK s : s = page[b]
      OBVIOUS
    <3>1. CASE isNew /\ Hears(b)
      <4>1. r = conversationCreated(s, c, ms)
        BY <2>4, <3>0, <3>1
      <4>2. PageFits(s) /\ s.user = page[b].user
        BY <1>1, <3>0
      <4>3. /\ Calm(s, r) /\ r.users = s.users
            /\ DOMAIN r.convs = IF sess[b] = "ready" THEN DOMAIN s.convs \cup {c} ELSE DOMAIN s.convs
            /\ c.kind = "direct" => r.active = s.active
        BY <4>1, <4>2, ToldPage
      <4> QED BY <3>0, <4>3
    <3>2. CASE ~(isNew /\ Hears(b))
      <4>1. r = s
        BY <2>4, <3>0, <3>2
      <4>2. Calm(s, s)
        BY <1>1, <3>0, CalmSame
      <4>3. isNew => sess[b] # "ready"
        BY <3>2 DEF Hears
      <4> QED BY <3>0, <4>1, <4>2, <4>3
    <3> QED BY <3>1, <3>2
  <2> QED BY <1>2, <1>3, <1>5, <1>8, <2>1, <2>6, <2>7, <2>8, <2>9
<1> QED BY <1>7, <1>8

\* A group's message, on the pages of its members.
LEMMA SendGroupPage ==
  ASSUME TypesInv, NEW a \in Account, NEW g \in Groups, SendGroup(a, g)
  PROVE  /\ DOMAIN page' = Account /\ sess[a] = "ready" /\ a \in convs[g]
         /\ \A b \in Account :
              IF b \in GroupTargets(g)
                THEN \E p : /\ Gains(b, p, g, [m |-> NewMessage, from |-> a])
                            /\ b # a => p = page[b]
              ELSE page'[b] = page[b]
<1>1. /\ Len(history) < MaxMessages /\ sess[a] = "ready" /\ a \in convs[g]
      /\ page' = [b \in Account |->
           LET p == IF b = a THEN setActive(page[a], g) ELSE page[b]
           IN  IF b \in GroupTargets(g) THEN messageReceived(p, g, NewMessage, a) ELSE p]
  BY DEF SendGroup
<1>2. PICK m \in 1 .. MaxMessages : m = NewMessage
  BY <1>1, NewPlace
<1>3. PICK c \in ConvId : c = g
  BY MapFacts DEF TypesInv, Shapes, Groups
<1>4. ASSUME NEW b \in Account
      PROVE  IF b \in GroupTargets(g)
               THEN \E p : /\ Gains(b, p, g, [m |-> NewMessage, from |-> a])
                           /\ b # a => p = page[b]
             ELSE page'[b] = page[b]
  <2>1. PICK p0 : p0 = page[b]
    OBVIOUS
  <2>2. PICK p : p = IF b = a THEN setActive(p0, c) ELSE p0
    OBVIOUS
  <2>3. PageFits(p0)
    BY <2>1, PageOf
  <2>4. Calm(p0, p) /\ p.users = p0.users /\ DOMAIN p.convs = DOMAIN p0.convs
    <3>1. CASE b = a
      <4>1. p = setActive(p0, c)
        BY <2>2, <3>1
      <4> QED BY <2>3, <4>1, SetActiveFacts
    <3>2. CASE b # a
      <4>1. p = p0
        BY <2>2, <3>2
      <4> QED BY <2>3, <4>1, CalmSame
    <3> QED BY <3>1, <3>2
  <2>5. PICK q : q = messageReceived(p, c, m, a)
    OBVIOUS
  <2>6. Adds(p, q, c, [m |-> m, from |-> a])
    BY <2>4, <2>5, ReceivedFacts DEF Calm
  <2>7. page'[b] = IF b \in GroupTargets(g) THEN q ELSE p
    BY <1>1, <1>2, <1>3, <2>1, <2>2, <2>5
  <2>8. CASE b \in GroupTargets(g)
    <3>1. Gains(b, p, c, [m |-> m, from |-> a])
      BY <2>1, <2>4, <2>6, <2>7, <2>8 DEF Gains
    <3>2. b # a => p = page[b]
      BY <2>1, <2>2
    <3> QED BY <1>2, <1>3, <2>8, <3>1, <3>2
  <2>9. CASE b \notin GroupTargets(g)
    <3>1. b # a
      BY <1>1, <2>9 DEF GroupTargets, Hears
    <3> QED BY <2>1, <2>2, <2>7, <2>9, <3>1
  <2> QED BY <2>8, <2>9
<1> QED BY <1>1, <1>4

\* A new group, on the pages of its members; or an error on its creator's.
LEMMA CreateGroupPage ==
  ASSUME Base, NEW a \in Account, NEW others \in SUBSET Account, CreateGroup(a, others)
  PROVE  /\ DOMAIN page' = Account
         /\ (\A b \in {a} \cup others : Welcomed(b)) =>
              /\ convs' = With(convs, Group(Cardinality(Groups) + 1), {a} \cup others)
              /\ \A b \in Account :
                   /\ Calm(page[b], page'[b]) /\ page'[b].users = page[b].users
                   /\ DOMAIN page'[b].convs =
                        IF b \in {a} \cup others /\ sess[b] = "ready"
                          THEN DOMAIN page[b].convs \cup {Group(Cardinality(Groups) + 1)}
                        ELSE DOMAIN page[b].convs
         /\ ~(\A b \in {a} \cup others : Welcomed(b)) =>
              /\ UNCHANGED convs
              /\ \A b \in Account : b # a => page'[b] = page[b]
              /\ \E p : /\ Calm(page[a], p) /\ p.users = page[a].users
                        /\ DOMAIN p.convs = DOMAIN page[a].convs
                        /\ (page'[a] = p \/ Adds(p, page'[a], p.active, ErrorLine))
<1>0. TypesInv
  BY DEF Base
<1>1. PICK p0 : p0 = page[a]
  OBVIOUS
<1>2. PageFits(p0) /\ DOMAIN page = Account
  BY <1>0, <1>1, PageOf
<1>3. PICK p : p = markPending(p0)
  OBVIOUS
<1>4. Calm(p0, p) /\ p.users = p0.users /\ p.convs = p0.convs /\ p.active = p0.active
  BY <1>2, <1>3, MarkPendingFacts
<1>5. CASE \A b \in {a} \cup others : Welcomed(b)
  <2>1. PICK ms \in SUBSET (Account \cup Name) : ms = {a} \cup others
    OBVIOUS
  <2>2. PICK c \in ConvId : c = Group(Cardinality(Groups) + 1)
    BY NextGroup DEF Base, CreateGroup
  <2>3. /\ convs' = With(convs, c, ms)
        /\ page' = [b \in Account |->
             LET r == IF b = a THEN markPending(page[a]) ELSE page[b]
             IN  IF b \in ms /\ Hears(b) THEN conversationCreated(r, c, ms) ELSE r]
    BY <1>5, <2>1, <2>2 DEF CreateGroup
  <2>4. ASSUME NEW b \in Account
        PROVE  /\ Calm(page[b], page'[b]) /\ page'[b].users = page[b].users
               /\ DOMAIN page'[b].convs =
                    IF b \in ms /\ sess[b] = "ready" THEN DOMAIN page[b].convs \cup {c}
                    ELSE DOMAIN page[b].convs
    <3>1. PICK s : s = page[b]
      OBVIOUS
    <3>2. PageFits(s)
      BY <1>0, <3>1, PageOf
    <3>3. PICK r : r = IF b = a THEN p ELSE s
      OBVIOUS
    <3>4. Calm(s, r) /\ r.users = s.users /\ r.convs = s.convs /\ r.active = s.active
      <4>1. CASE b = a
        BY <1>1, <1>4, <3>1, <3>3, <4>1
      <4>2. CASE b # a
        BY <3>2, <3>3, <4>2, CalmSame
      <4> QED BY <4>1, <4>2
    <3>5. PageFits(r) /\ r.user = page[b].user
      BY <3>1, <3>4 DEF Calm
    <3>6. page'[b] = IF b \in ms /\ Hears(b) THEN conversationCreated(r, c, ms) ELSE r
      BY <1>1, <1>3, <2>3, <3>1, <3>3
    <3>7. CASE b \in ms /\ Hears(b)
      <4>1. PICK q : q = conversationCreated(r, c, ms)
        OBVIOUS
      <4>2. /\ Calm(r, q) /\ q.users = r.users
            /\ DOMAIN q.convs = IF sess[b] = "ready" THEN DOMAIN r.convs \cup {c} ELSE DOMAIN r.convs
            /\ c.kind = "direct" => q.active = r.active
        BY <1>0, <3>5, <4>1, ToldPage
      <4>3. Calm(s, q)
        BY <3>2, <3>4, <4>2, CalmThen
      <4> QED BY <3>1, <3>4, <3>6, <3>7, <4>1, <4>2, <4>3
    <3>8. CASE ~(b \in ms /\ Hears(b))
      <4>1. ~(b \in ms /\ sess[b] = "ready")
        BY <3>8 DEF Hears
      <4> QED BY <3>1, <3>4, <3>6, <3>8, <4>1
    <3> QED BY <3>7, <3>8
  <2>5. DOMAIN page' = Account
    BY <2>3
  <2> QED BY <1>5, <2>1, <2>2, <2>3, <2>4, <2>5
<1>6. CASE ~(\A b \in {a} \cup others : Welcomed(b))
  <2>1. PICK q : q = errorHere(p)
    OBVIOUS
  <2>2. page' = [page EXCEPT ![a] = q] /\ UNCHANGED convs
    BY <1>1, <1>3, <1>6, <2>1 DEF CreateGroup
  <2>3. q = errorIn(p, p.active) /\ PageFits(p)
    BY <1>4, <2>1 DEF errorHere, Calm
  <2>4. q = p \/ Adds(p, q, p.active, ErrorLine)
    <3>1. PICK c : c = p.active
      OBVIOUS
    <3>2. q = errorIn(p, c)
      BY <2>3, <3>1
    <3> QED BY <2>3, <3>1, <3>2, ErrorFacts
  <2>5. page'[a] = q /\ DOMAIN page' = Account /\ \A u \in Account : u # a => page'[u] = page[u]
    BY <1>2, <2>2
  <2> QED BY <1>1, <1>4, <1>6, <2>2, <2>4, <2>5
<1> QED BY <1>5, <1>6

\* A conversation is opened.
LEMMA OpenPage ==
  ASSUME TypesInv, NEW a \in Account, Open(a)
  PROVE  /\ DOMAIN page' = Account /\ sess[a] = "ready"
         /\ \A b \in Account : b # a => page'[b] = page[b]
         /\ Calm(page[a], page'[a]) /\ page'[a].users = page[a].users
         /\ DOMAIN page[a].convs \subseteq DOMAIN page'[a].convs
         /\ \A c \in DOMAIN page'[a].convs \ DOMAIN page[a].convs : c.kind = "direct"
<1>1. PICK p : p = page[a]
  OBVIOUS
<1>2. PageFits(p) /\ DOMAIN page = Account /\ (sess[a] # "ready" => p.user = NoUser)
      /\ (sess[a] = "ready" => p.user = a)
  BY <1>1, PageOf
<1>3. p.user # NoUser
  BY <1>1 DEF Open
<1>4. ASSUME NEW q, page' = [page EXCEPT ![a] = q], Calm(p, q), q.users = p.users,
             \A c \in DOMAIN q.convs \ DOMAIN p.convs : c.kind = "direct"
      PROVE  /\ DOMAIN page' = Account
             /\ \A b \in Account : b # a => page'[b] = page[b]
             /\ Calm(page[a], page'[a]) /\ page'[a].users = page[a].users
             /\ DOMAIN page[a].convs \subseteq DOMAIN page'[a].convs
             /\ \A c \in DOMAIN page'[a].convs \ DOMAIN page[a].convs : c.kind = "direct"
  <2>1. page'[a] = q
    BY <1>2, <1>4
  <2>2. DOMAIN p.convs \subseteq DOMAIN q.convs
    BY <1>4 DEF Calm
  <2> QED BY <1>1, <1>2, <1>4, <2>1, <2>2
<1>5. CASE \E c \in DOMAIN page[a].convs \ {page[a].active} : page' = [page EXCEPT ![a] = setActive(@, c)]
  <2>1. PICK c : page' = [page EXCEPT ![a] = setActive(@, c)]
    BY <1>5
  <2>2. PICK q : q = setActive(p, c)
    OBVIOUS
  <2>3. page' = [page EXCEPT ![a] = q]
    BY <1>1, <2>1, <2>2
  <2>4. Calm(p, q) /\ q.users = p.users /\ DOMAIN q.convs = DOMAIN p.convs
    BY <1>2, <2>2, SetActiveFacts
  <2> QED BY <1>2, <1>3, <1>4, <2>3, <2>4
<1>6. CASE \E b \in DOMAIN page[a].users \ {a} : page' = [page EXCEPT ![a] = startDirect(@, b)]
  <2>1. PICK b \in DOMAIN p.users : page' = [page EXCEPT ![a] = startDirect(@, b)]
    BY <1>1, <1>6
  <2>2. PICK q : q = startDirect(p, b)
    OBVIOUS
  <2>3. page' = [page EXCEPT ![a] = q]
    BY <1>1, <2>1, <2>2
  <2>4. b \in Account /\ p.user \in Account
    <3>1. DOMAIN p.users \subseteq Account
      BY <1>2, PageFields, MapFacts
    <3> QED BY <1>2, <1>3, <3>1
  <2>5. PICK d : d = Direct(p.user, b)
    OBVIOUS
  <2>6. Calm(p, q) /\ q.users = p.users /\ DOMAIN q.convs = DOMAIN p.convs \cup {d}
    BY <1>2, <2>2, <2>4, <2>5, StartDirectFacts
  <2>7. d.kind = "direct"
    BY <2>5 DEF Direct
  <2> QED BY <1>2, <1>3, <1>4, <2>3, <2>6, <2>7
<1> QED BY <1>5, <1>6 DEF Open

----------------------------------------------------------------------------
(* The snapshot.                                                           *)

\* A conversation's lines are what is stored in it, once and in order.
Exact(q, c) ==
  /\ \A m \in DOMAIN history :
       history[m].conv = c => \E i \in 1 .. Len(q) : q[i] = [m |-> m, from |-> history[m].from]
  /\ \A i \in 1 .. Len(q) : /\ q[i].m \in DOMAIN history /\ history[q[i].m].conv = c
                            /\ q[i] = [m |-> q[i].m, from |-> history[q[i].m].from]
  /\ \A i, j \in 1 .. Len(q) : i < j => q[i].m < q[j].m

\* What account a may read of the conversations it has.
Theirs(a, c) == c = Public \/ (c \in DOMAIN convs /\ a \in convs[c])

\* The rows of a snapshot, in the order of the table.
LEMMA HistoryForFacts ==
  ASSUME TypesInv, NEW a \in Account, NEW h, h = HistoryFor(a)
  PROVE  /\ h \in Seq(HistoryRow)
         /\ \A i \in 1 .. Len(h) :
              /\ h[i].m \in DOMAIN history /\ Theirs(a, h[i].conv)
              /\ h[i].conv = history[h[i].m].conv /\ h[i].from = history[h[i].m].from
         /\ \A i, j \in 1 .. Len(h) : i < j => h[i].m < h[j].m
         /\ \A m \in DOMAIN history :
              Theirs(a, history[m].conv) => \E i \in 1 .. Len(h) : h[i].m = m
<1>1. PICK n \in Nat : n = Len(history) /\ DOMAIN history = 1 .. n /\ n <= MaxMessages
  BY DEF TypesInv, Shapes
<1>2. PICK all : all = [m \in DOMAIN history |->
                          [m |-> m, conv |-> history[m].conv, from |-> history[m].from]]
  OBVIOUS
<1>3. PICK I : I = {m \in DOMAIN history : Theirs(a, history[m].conv)}
  OBVIOUS
<1>4. h = Among(all, I)
  BY <1>2, <1>3 DEF HistoryFor, Theirs
<1>5. ASSUME NEW m \in 1 .. n
      PROVE  /\ all[m] \in HistoryRow /\ all[m].m = m /\ all[m].conv = history[m].conv
             /\ all[m].from = history[m].from
  <2>1. all[m] = [m |-> m, conv |-> history[m].conv, from |-> history[m].from]
    BY <1>1, <1>2
  <2>2. history[m] \in Row
    BY <1>1 DEF TypesInv, Shapes
  <2>3. m \in 1 .. MaxMessages
    BY <1>1, RoutingConstants
  <2> QED BY <2>1, <2>2, <2>3 DEF Row, HistoryRow
<1>6. I \in SUBSET (1 .. n)
  BY <1>1, <1>3
<1>7. PICK p : p = Cardinality(I)
  OBVIOUS
<1>8. PICK f : f = Ascending(I)
  OBVIOUS
<1>9. /\ p \in Nat /\ h = [k \in 1 .. p |-> all[f[k]]]
      /\ \A k \in 1 .. p : f[k] \in I
      /\ \A i \in I : \E k \in 1 .. p : f[k] = i
      /\ \A j, k \in 1 .. p : j < k => f[j] < f[k]
  <2>1. /\ Cardinality(I) \in Nat
        /\ Among(all, I) = [k \in 1 .. Cardinality(I) |-> all[Ascending(I)[k]]]
        /\ \A k \in 1 .. Cardinality(I) : Ascending(I)[k] \in I
        /\ \A i \in I : \E k \in 1 .. Cardinality(I) : Ascending(I)[k] = i
        /\ \A j, k \in 1 .. Cardinality(I) : j < k => Ascending(I)[j] < Ascending(I)[k]
    BY <1>6, AmongFacts
  <2> QED BY <1>4, <1>6, <1>7, <1>8, <2>1
<1>10. \A k \in 1 .. p : h[k] = all[f[k]] /\ f[k] \in 1 .. n /\ Theirs(a, history[f[k]].conv)
  BY <1>3, <1>6, <1>9
<1>11. h \in Seq(HistoryRow) /\ Len(h) = p
  BY <1>5, <1>9, <1>10
<1>12. \A k \in 1 .. p : /\ h[k].m = f[k] /\ h[k].conv = history[f[k]].conv
                         /\ h[k].from = history[f[k]].from
  BY <1>5, <1>10
<1>13. \A m \in DOMAIN history : Theirs(a, history[m].conv) => \E i \in 1 .. p : h[i].m = m
  BY <1>3, <1>9, <1>12
<1>14. \A i, j \in 1 .. p : i < j => h[i].m < h[j].m
  BY <1>9, <1>12
<1> QED BY <1>1, <1>10, <1>11, <1>12, <1>13, <1>14

\* The lines of one conversation of it.
LEMMA RowsExact ==
  ASSUME TypesInv, NEW a \in Account, NEW h, h = HistoryFor(a), NEW c, Theirs(a, c)
  PROVE  Exact(Among(RowLines(h), RowsOf(h, c)), c)
<1>1. /\ h \in Seq(HistoryRow)
      /\ \A i \in 1 .. Len(h) :
           /\ h[i].m \in DOMAIN history /\ Theirs(a, h[i].conv)
           /\ h[i].conv = history[h[i].m].conv /\ h[i].from = history[h[i].m].from
      /\ \A i, j \in 1 .. Len(h) : i < j => h[i].m < h[j].m
      /\ \A m \in DOMAIN history :
           Theirs(a, history[m].conv) => \E i \in 1 .. Len(h) : h[i].m = m
  BY HistoryForFacts
<1>2. PICK n \in Nat : n = Len(h)
  BY <1>1
<1>3. PICK J : J = RowsOf(h, c)
  OBVIOUS
<1>4. J \in SUBSET (1 .. n) /\ \A i \in 1 .. n : i \in J <=> h[i].conv = c
  BY <1>2, <1>3 DEF RowsOf
<1>5. PICK g : g = RowLines(h)
  OBVIOUS
<1>6. \A i \in 1 .. n : g[i] = [m |-> h[i].m, from |-> h[i].from]
  BY <1>2, <1>5 DEF RowLines
<1>7. PICK q : q = Among(g, J)
  OBVIOUS
<1>8. PICK p : p = Cardinality(J)
  OBVIOUS
<1>9. PICK f : f = Ascending(J)
  OBVIOUS
<1>10. /\ p \in Nat /\ q = [k \in 1 .. p |-> g[f[k]]]
       /\ \A k \in 1 .. p : f[k] \in J
       /\ \A i \in J : \E k \in 1 .. p : f[k] = i
       /\ \A j, k \in 1 .. p : j < k => f[j] < f[k]
  <2>1. /\ Cardinality(J) \in Nat
        /\ Among(g, J) = [k \in 1 .. Cardinality(J) |-> g[Ascending(J)[k]]]
        /\ \A k \in 1 .. Cardinality(J) : Ascending(J)[k] \in J
        /\ \A i \in J : \E k \in 1 .. Cardinality(J) : Ascending(J)[k] = i
        /\ \A j, k \in 1 .. Cardinality(J) : j < k => Ascending(J)[j] < Ascending(J)[k]
    BY <1>4, AmongFacts
  <2> QED BY <1>4, <1>7, <1>8, <1>9, <2>1
<1>11. Len(q) = p
  BY <1>10
<1>12. \A k \in 1 .. p : /\ f[k] \in 1 .. n /\ h[f[k]].conv = c
                         /\ q[k] = [m |-> h[f[k]].m, from |-> h[f[k]].from]
                         /\ q[k].m = h[f[k]].m
  <2> TAKE k \in 1 .. p
  <2>1. f[k] \in J /\ f[k] \in 1 .. n
    BY <1>4, <1>10
  <2>2. q[k] = [m |-> h[f[k]].m, from |-> h[f[k]].from]
    BY <1>6, <1>10, <2>1
  <2> QED BY <1>4, <2>1, <2>2
<1>13. ASSUME NEW m \in DOMAIN history, history[m].conv = c
       PROVE  \E k \in 1 .. p : q[k] = [m |-> m, from |-> history[m].from]
  <2>1. PICK i \in 1 .. n : h[i].m = m
    BY <1>1, <1>2, <1>13
  <2>2. h[i].conv = c /\ h[i].from = history[m].from
    BY <1>1, <1>2, <1>13, <2>1
  <2>3. PICK k \in 1 .. p : f[k] = i
    BY <1>4, <1>10, <2>2
  <2> QED BY <1>12, <2>1, <2>2, <2>3
<1>14. ASSUME NEW k \in 1 .. p
       PROVE  /\ q[k].m \in DOMAIN history /\ history[q[k].m].conv = c
              /\ q[k] = [m |-> q[k].m, from |-> history[q[k].m].from]
  <2>1. PICK i \in 1 .. n : i = f[k]
    BY <1>12
  <2>2. q[k] = [m |-> h[i].m, from |-> h[i].from] /\ h[i].conv = c
    BY <1>12, <2>1
  <2>3. q[k].m = h[i].m
    BY <2>2
  <2>4. h[i].m \in DOMAIN history /\ h[i].conv = history[h[i].m].conv /\ h[i].from = history[h[i].m].from
    BY <1>1, <1>2
  <2> QED BY <2>2, <2>3, <2>4
<1>15. ASSUME NEW j \in 1 .. p, NEW k \in 1 .. p, j < k
       PROVE  q[j].m < q[k].m
  <2>1. f[j] < f[k] /\ f[j] \in 1 .. n /\ f[k] \in 1 .. n
    BY <1>10, <1>12, <1>15
  <2>2. h[f[j]].m < h[f[k]].m
    BY <1>1, <1>2, <2>1
  <2>3. q[j].m = h[f[j]].m /\ q[k].m = h[f[k]].m
    BY <1>12
  <2> QED BY <2>2, <2>3
<1>16. Exact(q, c)
  BY <1>11, <1>13, <1>14, <1>15 DEF Exact
<1> QED BY <1>3, <1>5, <1>7, <1>16

\* A page that got a snapshot, when nicknames are n.
Fresh(q, n, a) ==
  /\ PageFits(q) /\ q.user = a /\ q.active = Public
  /\ DOMAIN q.users = {u \in Account : Welcomed(u)} /\ \A u \in DOMAIN q.users : q.users[u] = n[u]
  /\ DOMAIN q.convs = {Public} \cup {c \in DOMAIN convs : a \in convs[c]}
  /\ \A c \in DOMAIN q.convs : q.convs[c].unread = 0 /\ Exact(q.convs[c].messages, c)

\* A snapshot's page says exactly what is stored and who is welcomed.
LEMMA SnapshotFacts ==
  ASSUME TypesInv, NEW a \in Account, NEW n, \A u \in Account : Welcomed(u) => n[u] \in Name,
         NEW p, PageFits(p), NEW q, q = Snapshot(p, n, a)
  PROVE  Fresh(q, n, a)
<1>1. PICK us : us = WelcomedUsers(n)
  OBVIOUS
<1>2. us \in Maps(Account, Name)
  <2>1. PICK D \in SUBSET Account : D = {b \in Account : Welcomed(b)}
    OBVIOUS
  <2>2. us = [u \in D |-> n[u]] /\ \A u \in D : n[u] \in Name
    BY <1>1, <2>1 DEF WelcomedUsers
  <2>3. us \in [D -> Name]
    BY <2>2
  <2> QED BY <2>3, MapOf
<1>3. PICK sums : sums = ConversationsFor(convs, a)
  OBVIOUS
<1>4. sums \in Maps(ConvId, SUBSET (Account \cup Name)) /\ DOMAIN sums = {c \in DOMAIN convs : a \in convs[c]}
  <2>0. /\ DOMAIN convs \subseteq ConvId \ {Public}
        /\ \A c \in DOMAIN convs : convs[c] \in SUBSET (Account \cup Name)
    BY MapFacts DEF TypesInv, Shapes
  <2>1. PICK D \in SUBSET ConvId : D = {c \in DOMAIN convs : a \in convs[c]}
    BY <2>0
  <2>2. sums = [c \in D |-> convs[c]]
    BY <1>3, <2>1 DEF ConversationsFor
  <2>3. \A c \in D : convs[c] \in SUBSET (Account \cup Name)
    BY <2>0, <2>1
  <2>4. sums \in [D -> SUBSET (Account \cup Name)]
    BY <2>2, <2>3
  <2> QED BY <2>1, <2>2, <2>4, MapOf
<1>5. PICK h : h = HistoryFor(a)
  OBVIOUS
<1>6. h \in Seq(HistoryRow)
  BY <1>5, HistoryForFacts
<1>7. q = ready(p, a, us, sums, h)
  BY <1>1, <1>3, <1>5 DEF Snapshot
<1>71. Readied(q, a, us, sums, h)
  BY <1>2, <1>4, <1>6, <1>7, ReadyFacts
<1>8. /\ PageFits(q) /\ q.user = a /\ q.users = us /\ q.active = Public
      /\ DOMAIN q.convs = {Public} \cup DOMAIN sums
      /\ \A c \in DOMAIN q.convs : /\ q.convs[c].unread = 0
                                   /\ q.convs[c].messages = Among(RowLines(h), RowsOf(h, c))
  BY <1>71 DEF Readied
<1>9. ASSUME NEW c \in DOMAIN q.convs PROVE Exact(q.convs[c].messages, c)
  <2>1. Theirs(a, c)
    BY <1>4, <1>8 DEF Theirs
  <2>2. Exact(Among(RowLines(h), RowsOf(h, c)), c)
    BY <1>5, <2>1, RowsExact
  <2> QED BY <1>8, <2>2
<1>10. DOMAIN us = {u \in Account : Welcomed(u)} /\ \A u \in DOMAIN us : us[u] = n[u]
  BY <1>1 DEF WelcomedUsers
<1> QED BY <1>4, <1>8, <1>9, <1>10 DEF Fresh

\* Page q is page p with users us.
Users(p, q, us) == Calm(p, q) /\ q.users = us /\ q.convs = p.convs /\ q.active = p.active

\* The snapshot that is asked for.
LEMMA RequestPage ==
  ASSUME TypesInv, NEW a \in Account, RequestState(a)
  PROVE  /\ DOMAIN page' = Account /\ sess[a] = "ready" /\ UNCHANGED <<sess, nick, convs, history>>
         /\ upto' = [upto EXCEPT ![a] = Len(history)]
         /\ \A b \in Account : b # a => page'[b] = page[b]
         /\ Fresh(page'[a], nick, a)
<1>1. /\ sess[a] = "ready" /\ UNCHANGED <<sess, nick, convs, history>>
      /\ page' = [page EXCEPT ![a] = Snapshot(@, nick, a)]
      /\ upto' = [upto EXCEPT ![a] = Len(history)]
  BY DEF RequestState, Database
<1>2. PICK p : p = page[a]
  OBVIOUS
<1>3. PICK q : q = Snapshot(p, nick, a)
  OBVIOUS
<1>4. PageFits(p) /\ DOMAIN page = Account
  BY <1>2, PageOf
<1>5. PICK n : n = nick
  OBVIOUS
<1>6. \A u \in Account : Welcomed(u) => n[u] \in Name
  BY <1>5 DEF TypesInv, WelcomedNamed
<1>7. Fresh(q, n, a)
  BY <1>3, <1>4, <1>5, <1>6, SnapshotFacts
<1>8. page' = [page EXCEPT ![a] = q]
  BY <1>1, <1>2, <1>3
<1> QED BY <1>1, <1>4, <1>5, <1>7, <1>8

\* A rename is shown on the pages that hear of it; the first is also what makes
\* a session ready.
LEMMA NickPage ==
  ASSUME TypesInv, NEW a \in Account, OnNick(a)
  PROVE  \/ UNCHANGED <<sess, nick, users, page, upto>>
         \/ \E n \in Name :
              /\ nick' = [nick EXCEPT ![a] = n] /\ DOMAIN page' = Account
              /\ \A b \in Account : b # a =>
                   IF Welcomed(b) /\ Hears(b)
                     THEN Users(page[b], page'[b], With(page[b].users, a, n))
                   ELSE page'[b] = page[b]
              /\ \/ /\ sess[a] = "welcomed" /\ sess' = [sess EXCEPT ![a] = "ready"]
                    /\ upto' = [upto EXCEPT ![a] = Len(history)]
                    /\ Fresh(page'[a], [nick EXCEPT ![a] = n], a)
                 \/ /\ sess[a] # "welcomed" /\ UNCHANGED <<sess, upto>>
                    /\ IF Hears(a) THEN Users(page[a], page'[a], With(page[a].users, a, n))
                       ELSE page'[a] = page[a]
<1>1. inbox[a] # <<>> /\ Head(inbox[a]).type = "nick"
  BY DEF OnNick, Emitted
<1>2. PICK n \in Name : n = Head(inbox[a]).new
  BY <1>1, HeadEvent DEF EventFits
<1>3. CASE ~Mine(a, Head(inbox[a]))
  BY <1>3 DEF OnNick
<1>4. CASE Mine(a, Head(inbox[a]))
  <2>1. PICK renamed : renamed = [nick EXCEPT ![a] = n]
    OBVIOUS
  <2>2. DOMAIN page = Account /\ \A b \in Account : PageFits(page[b])
    BY PageOf
  <2>3. ASSUME NEW b \in Account
        PROVE  Users(page[b], userUpdate(page[b], a, n), With(page[b].users, a, n))
    <3>1. PICK p : p = page[b]
      OBVIOUS
    <3>2. PICK q : q = userUpdate(p, a, n)
      OBVIOUS
    <3>3. PageFits(p)
      BY <2>2, <3>1
    <3>4. Calm(p, q) /\ q.users = With(p.users, a, n) /\ q.convs = p.convs /\ q.active = p.active
      BY <3>2, <3>3, UserUpdateFacts
    <3> QED BY <3>1, <3>2, <3>4 DEF Users
  <2>4. CASE sess[a] = "welcomed"
    <3>1. PICK q : q = Snapshot(page[a], renamed, a)
      OBVIOUS
    <3>2. /\ nick' = renamed /\ sess' = [sess EXCEPT ![a] = "ready"]
          /\ page' = [b \in Account |->
                        IF b = a THEN q
                        ELSE IF b # a /\ Welcomed(b) /\ Hears(b) THEN userUpdate(page[b], a, n)
                             ELSE page[b]]
          /\ upto' = [upto EXCEPT ![a] = Len(history)]
      BY <1>2, <1>4, <2>1, <2>4, <3>1 DEF OnNick
    <3>3. \A u \in Account : Welcomed(u) => renamed[u] \in Name
      BY <2>1 DEF TypesInv, WelcomedNamed, Shapes
    <3>4. PICK p : p = page[a]
      OBVIOUS
    <3>5. PageFits(p) /\ q = Snapshot(p, renamed, a)
      BY <2>2, <3>1, <3>4
    <3>6. Fresh(q, renamed, a)
      BY <3>3, <3>5, SnapshotFacts
    <3>7. page'[a] = q /\ DOMAIN page' = Account
      BY <3>2
    <3>8. \A b \in Account : b # a =>
            IF Welcomed(b) /\ Hears(b)
              THEN Users(page[b], page'[b], With(page[b].users, a, n))
            ELSE page'[b] = page[b]
      BY <2>3, <3>2
    <3> QED BY <2>1, <2>4, <3>2, <3>6, <3>7, <3>8
  <2>5. CASE sess[a] # "welcomed"
    <3>1. /\ nick' = renamed /\ UNCHANGED <<sess, upto>>
          /\ page' = [b \in Account |->
                        IF b = a /\ Hears(a) THEN userUpdate(page[a], a, n)
                        ELSE IF b # a /\ Welcomed(b) /\ Hears(b) THEN userUpdate(page[b], a, n)
                             ELSE page[b]]
      BY <1>2, <1>4, <2>1, <2>5 DEF OnNick
    <3>2. \A b \in Account : b # a =>
            IF Welcomed(b) /\ Hears(b)
              THEN Users(page[b], page'[b], With(page[b].users, a, n))
            ELSE page'[b] = page[b]
      BY <2>3, <3>1
    <3>3. IF Hears(a) THEN Users(page[a], page'[a], With(page[a].users, a, n)) ELSE page'[a] = page[a]
      BY <2>3, <3>1
    <3> QED BY <2>1, <2>5, <3>1, <3>2, <3>3
  <2> QED BY <2>4, <2>5
<1> QED BY <1>3, <1>4

\* A session that leaves the roster leaves the pages of the others.
LEMMA WsClosedPage ==
  ASSUME TypesInv, NEW a \in Account, WsClosed(a)
  PROVE  /\ DOMAIN page' = Account /\ sess' = [sess EXCEPT ![a] = "off"] /\ UNCHANGED <<convs, history>>
         /\ nick' = [nick EXCEPT ![a] = NoName] /\ upto' = [upto EXCEPT ![a] = 0]
         /\ PageFits(page'[a]) /\ page'[a].user = NoUser
         /\ \A b \in Account : b # a =>
              \/ page'[b] = page[b]
              \/ /\ Calm(page[b], page'[b]) /\ page'[b].convs = page[b].convs
                 /\ page'[b].active = page[b].active
                 /\ DOMAIN page'[b].users = DOMAIN page[b].users \ {a}
                 /\ \A u \in DOMAIN page'[b].users : page'[b].users[u] = page[b].users[u]
<1>1. /\ sess' = [sess EXCEPT ![a] = "off"] /\ UNCHANGED <<convs, history>>
      /\ nick' = [nick EXCEPT ![a] = NoName] /\ upto' = [upto EXCEPT ![a] = 0]
      /\ page' = [b \in Account |->
                    IF b = a THEN IF sess[a] = "closing" THEN page[a] ELSE InitialPage
                    ELSE IF Welcomed(a) /\ Welcomed(b) /\ Hears(b) THEN userOffline(page[b], a)
                    ELSE page[b]]
  BY DEF WsClosed, Database
<1>2. /\ DOMAIN page' = Account
      /\ page'[a] = IF sess[a] = "closing" THEN page[a] ELSE InitialPage
      /\ \A b \in Account : b # a =>
           page'[b] = IF Welcomed(a) /\ Welcomed(b) /\ Hears(b) THEN userOffline(page[b], a) ELSE page[b]
  BY <1>1
<1>3. PageFits(page'[a]) /\ page'[a].user = NoUser
  BY <1>2, PageOf, InitialFits
<1>4. ASSUME NEW b \in Account, b # a, page'[b] = userOffline(page[b], a)
      PROVE  /\ Calm(page[b], page'[b]) /\ page'[b].convs = page[b].convs
             /\ page'[b].active = page[b].active
             /\ DOMAIN page'[b].users = DOMAIN page[b].users \ {a}
             /\ \A u \in DOMAIN page'[b].users : page'[b].users[u] = page[b].users[u]
  <2>1. PICK p : p = page[b]
    OBVIOUS
  <2>2. PICK q : q = userOffline(p, a)
    OBVIOUS
  <2>3. PageFits(p)
    BY <2>1, PageOf
  <2>4. /\ Calm(p, q) /\ DOMAIN q.users = DOMAIN p.users \ {a}
        /\ \A x \in DOMAIN p.users \ {a} : q.users[x] = p.users[x]
        /\ q.convs = p.convs /\ q.active = p.active
    BY <2>2, <2>3, UserOfflineFacts
  <2> QED BY <1>4, <2>1, <2>2, <2>4
<1> QED BY <1>1, <1>2, <1>3, <1>4

\* A page that is logged out.
LEMMA LogoutPage ==
  ASSUME TypesInv, NEW a \in Account, Logout(a)
  PROVE  /\ DOMAIN page' = Account /\ sess' = [sess EXCEPT ![a] = "closing"]
         /\ PageFits(page'[a]) /\ page'[a].user = NoUser
         /\ \A b \in Account : b # a => page'[b] = page[b]
<1>1. sess' = [sess EXCEPT ![a] = "closing"] /\ page' = [page EXCEPT ![a] = loggedOut(@)]
  BY DEF Logout
<1>2. PICK p : p = page[a]
  OBVIOUS
<1>3. PageFits(p) /\ DOMAIN page = Account
  BY <1>2, PageOf
<1>4. page'[a] = loggedOut(p) /\ DOMAIN page' = Account /\ \A b \in Account : b # a => page'[b] = page[b]
  BY <1>1, <1>2, <1>3
<1> QED BY <1>1, <1>3, <1>4, LoggedOutFits

\* The pages of a gateway that has ended.
LEMMA RestartPage ==
  ASSUME Restart
  PROVE  /\ DOMAIN page' = Account /\ \A a \in Account : sess'[a] = "off"
         /\ \A a \in Account : PageFits(page'[a]) /\ page'[a].user = NoUser
  BY InitialFits DEF Restart

\* What OnMsg, OnPriv and OnPrivSent do to the page: a message in a conversation.
LEMMA ShownPage ==
  ASSUME TypesInv, NEW a \in Account, NEW c \in ConvId, NEW m \in 1 .. MaxMessages,
         NEW from \in Account \cup {NoUser}, Shown(a, c, m, from)
  PROVE  /\ DOMAIN page' = Account /\ \A b \in Account : b # a => page'[b] = page[b]
         /\ IF Hears(a) THEN Adds(page[a], page'[a], c, [m |-> m, from |-> from])
            ELSE page'[a] = page[a]
<1>1. PICK p : p = page[a]
  OBVIOUS
<1>2. PageFits(p) /\ DOMAIN page = Account
  BY <1>1, PageOf
<1>3. PICK q : q = messageReceived(p, c, m, from)
  OBVIOUS
<1>4. Adds(p, q, c, [m |-> m, from |-> from])
  BY <1>2, <1>3, ReceivedFacts
<1>5. page' = IF Hears(a) THEN [page EXCEPT ![a] = q] ELSE page
  BY <1>1, <1>3 DEF Shown
<1> QED BY <1>1, <1>2, <1>4, <1>5

\* What a message is shown as.
LEMMA MessagePage ==
  ASSUME TypesInv, NEW a \in Account, OnMsg(a) \/ OnPriv(a) \/ OnPrivSent(a)
  PROVE  /\ DOMAIN page' = Account /\ UNCHANGED <<sess, nick, history>>
         /\ \A b \in Account : b # a => page'[b] = page[b]
         /\ \E c \in ConvId, from \in Account \cup {NoUser} :
              /\ IF Hears(a) THEN Adds(page[a], page'[a], c, [m |-> Head(inbox[a]).m, from |-> from])
                 ELSE page'[a] = page[a]
              /\ OnMsg(a) => c = Public
              /\ OnPriv(a) \/ OnPrivSent(a) => c.kind = "direct"
<1>1. UNCHANGED <<sess, nick, history>>
  BY DEF OnMsg, OnPriv, OnPrivSent, Database
<1>2. PICK m \in 1 .. MaxMessages : m = Head(inbox[a]).m
  BY PrivNamed
<1>3. PICK n \in Name : n = Head(inbox[a]).who
  BY PrivNamed
<1>4. ASSUME NEW c \in ConvId, NEW from \in Account \cup {NoUser}, Shown(a, c, m, from)
      PROVE  /\ DOMAIN page' = Account
             /\ \A b \in Account : b # a => page'[b] = page[b]
             /\ IF Hears(a) THEN Adds(page[a], page'[a], c, [m |-> m, from |-> from])
                ELSE page'[a] = page[a]
  BY <1>4, ShownPage
<1>5. CASE OnMsg(a)
  <2>1. PICK from \in FoundByNickname(n, NoUser) : Shown(a, Public, m, from)
    BY <1>2, <1>3, <1>5 DEF OnMsg
  <2>2. from \in Account \cup {NoUser}
    BY <2>1, Found
  <2>3. Public \in ConvId
    BY DEF ConvId
  <2>4. Head(inbox[a]).type = "msg" /\ ~OnPriv(a) /\ ~OnPrivSent(a)
    BY <1>5 DEF OnMsg, OnPriv, OnPrivSent, Emitted
  <2> QED BY <1>1, <1>2, <1>4, <2>1, <2>2, <2>3, <2>4
<1>6. CASE OnPriv(a)
  <2>1. PICK x \in FoundByNickname(n, n) : Shown(a, Direct(a, x), m, IF x \in Account THEN x ELSE NoUser)
    BY <1>2, <1>3, <1>6 DEF OnPriv
  <2>2. x \in Account \cup Name
    BY <1>3, <2>1, Found
  <2>3. PICK c \in ConvId : c = Direct(a, x) /\ c.kind = "direct"
    BY <2>2, DirectId
  <2>4. PICK from \in Account \cup {NoUser} : from = IF x \in Account THEN x ELSE NoUser
    OBVIOUS
  <2>5. ~OnMsg(a)
    BY <1>6 DEF OnMsg, OnPriv, Emitted
  <2> QED BY <1>1, <1>2, <1>4, <2>1, <2>3, <2>4, <2>5
<1>7. CASE OnPrivSent(a)
  <2>1. PICK x \in FoundByNickname(n, n) : Shown(a, Direct(a, x), m, a)
    BY <1>2, <1>3, <1>7 DEF OnPrivSent
  <2>2. x \in Account \cup Name
    BY <1>3, <2>1, Found
  <2>3. PICK c \in ConvId : c = Direct(a, x) /\ c.kind = "direct"
    BY <2>2, DirectId
  <2>4. PICK from \in Account \cup {NoUser} : from = a
    OBVIOUS
  <2>5. ~OnMsg(a)
    BY <1>7 DEF OnMsg, OnPrivSent, Emitted
  <2> QED BY <1>1, <1>2, <1>4, <2>1, <2>3, <2>4, <2>5
<1> QED BY <1>5, <1>6, <1>7

\* An error, on the page of whom it is for; or the end of a login.
LEMMA ErrPage ==
  ASSUME TypesInv, NEW a \in Account, OnErr(a)
  PROVE  /\ DOMAIN page' = Account /\ UNCHANGED <<nick, convs, history, upto>>
         /\ \A b \in Account : b # a => page'[b] = page[b]
         /\ \/ page'[a] = page[a] /\ sess[a] # "ready" /\ sess' = [sess EXCEPT ![a] = "closing"]
            \/ UNCHANGED sess /\ page'[a] = page[a]
            \/ UNCHANGED sess /\ Adds(page[a], page'[a], page[a].active, ErrorLine)
<1>1. PICK p : p = page[a]
  OBVIOUS
<1>2. PageFits(p) /\ DOMAIN page = Account
  BY <1>1, PageOf
<1>3. PICK q : q = errorHere(p)
  OBVIOUS
<1>4. PICK c : c = p.active
  OBVIOUS
<1>5. q = errorIn(p, c)
  BY <1>3, <1>4 DEF errorHere
<1>6. q = p \/ Adds(p, q, c, ErrorLine)
  BY <1>2, <1>5, ErrorFacts
<1>7. /\ UNCHANGED <<nick, convs, history, upto>>
      /\ \/ sess[a] = "welcomed" /\ sess' = [sess EXCEPT ![a] = "closing"] /\ UNCHANGED page
         \/ UNCHANGED sess /\ page' = [page EXCEPT ![a] = q]
         \/ UNCHANGED <<sess, page>>
  BY <1>1, <1>3 DEF OnErr, Database
<1>8. CASE UNCHANGED sess /\ page' = [page EXCEPT ![a] = q]
  <2>1. page'[a] = q /\ DOMAIN page' = Account /\ \A b \in Account : b # a => page'[b] = page[b]
    BY <1>2, <1>8
  <2> QED BY <1>1, <1>4, <1>6, <1>7, <1>8, <2>1
<1> QED BY <1>2, <1>7, <1>8

\* How a session moves.
SessMove(a) ==
  \/ sess'[a] = sess[a]
  \/ Login(a) /\ sess[a] = "off" /\ sess'[a] = "joining"
  \/ (WsClosed(a) \/ Restart) /\ sess'[a] = "off"
  \/ Logout(a) /\ sess[a] = "ready" /\ sess'[a] = "closing"
  \/ OnWelcome(a) /\ sess'[a] = "welcomed"
  \/ OnNick(a) /\ sess[a] = "welcomed" /\ sess'[a] = "ready"
  \/ OnErr(a) /\ sess[a] = "welcomed" /\ sess'[a] = "closing"

\* A session moves along, and only by its own steps or with all.
LEMMA SessMoves ==
  ASSUME TypesInv, [Next]_vars, NEW a \in Account
  PROVE  SessMove(a)
<1>0. DOMAIN sess = Account
  BY DEF TypesInv, Shapes
<1>1. ASSUME UNCHANGED sess PROVE SessMove(a)
  BY <1>1 DEF SessMove
<1>2. ASSUME NEW u \in Account, NEW s, sess' = [sess EXCEPT ![u] = s]
      PROVE  sess'[u] = s /\ (u # a => sess'[a] = sess[a])
  BY <1>0, <1>2
<1>3. ASSUME NEW u \in Account, Login(u) PROVE SessMove(a)
  <2>1. sess[u] = "off" /\ sess' = [sess EXCEPT ![u] = "joining"]
    BY <1>3 DEF Login
  <2> QED BY <1>2, <1>3, <2>1 DEF SessMove
<1>4. ASSUME NEW u \in Account, WsClosed(u) PROVE SessMove(a)
  <2>1. sess' = [sess EXCEPT ![u] = "off"]
    BY <1>4 DEF WsClosed
  <2> QED BY <1>2, <1>4, <2>1 DEF SessMove
<1>5. ASSUME NEW u \in Account, Logout(u) PROVE SessMove(a)
  <2>1. sess[u] = "ready" /\ sess' = [sess EXCEPT ![u] = "closing"]
    BY <1>5 DEF Logout
  <2> QED BY <1>2, <1>5, <2>1 DEF SessMove
<1>6. ASSUME NEW u \in Account, OnWelcome(u) PROVE SessMove(a)
  <2>1. sess' = [sess EXCEPT ![u] = "welcomed"]
    BY <1>6 DEF OnWelcome
  <2> QED BY <1>2, <1>6, <2>1 DEF SessMove
<1>7. ASSUME NEW u \in Account, OnNick(u) PROVE SessMove(a)
  <2>1. UNCHANGED sess \/ (sess[u] = "welcomed" /\ sess' = [sess EXCEPT ![u] = "ready"])
    BY <1>7 DEF OnNick
  <2> QED BY <1>1, <1>2, <1>7, <2>1 DEF SessMove
<1>8. ASSUME NEW u \in Account, OnErr(u) PROVE SessMove(a)
  <2>1. UNCHANGED sess \/ (sess[u] = "welcomed" /\ sess' = [sess EXCEPT ![u] = "closing"])
    BY <1>8 DEF OnErr
  <2> QED BY <1>1, <1>2, <1>8, <2>1 DEF SessMove
<1>9. ASSUME Restart PROVE SessMove(a)
  BY <1>9 DEF SessMove, Restart
<1>10. ASSUME NEW u \in Account,
              \/ SendPublic(u) \/ Open(u) \/ RequestState(u)
              \/ OnMsg(u) \/ OnPriv(u) \/ OnPrivSent(u)
              \/ Handle(u) \/ CopyTargets(u) \/ Drop(u)
       PROVE  UNCHANGED sess
  BY <1>10 DEF SendPublic, Open, RequestState, OnMsg, OnPriv, OnPrivSent, Handle, CopyTargets, Drop
<1>11. ASSUME NEW u \in Account,
              \/ \E b \in Account : SendDirect(u, b) \/ Relay(u, b) \/ CrashInDirect(u, b)
              \/ \E others \in SUBSET Account : CreateGroup(u, others) \/ CrashInGroup(u, others)
              \/ \E n \in Typed : SetNickname(u, n)
              \/ \E c \in Groups : SendGroup(u, c)
       PROVE  UNCHANGED sess \/ Restart
  BY <1>11 DEF SendDirect, Relay, CrashInDirect, CreateGroup, CrashInGroup, SetNickname, SendGroup
<1>12. ASSUME Crash \/ UNCHANGED vars PROVE UNCHANGED sess \/ Restart
  BY <1>12 DEF Crash, vars
<1> QED BY <1>1, <1>3, <1>4, <1>5, <1>6, <1>7, <1>8, <1>9, <1>10, <1>11, <1>12, Steps

\* The greeting is for a session that waits for it, and comes first.
Greetings ==
  \A a \in Account :
    /\ \A k \in 1 .. Len(relay[a]) : relay[a][k].ev.type # "welcome"
    /\ \A k \in 1 .. Len(inbox[a]) : inbox[a][k].type = "welcome" => k = 1 /\ sess[a] = "joining"

\* An event that is emitted leaves its inbox.
LEMMA Emits ==
  ASSUME TypesInv, NEW a \in Account, OnEvent(a)
  PROVE  /\ inbox[a] # <<>> /\ inbox'[a] = Tail(inbox[a])
         /\ \A u \in Account : u # a => inbox'[u] = inbox[u]
         /\ sess[a] # "off"
<1>0. DOMAIN inbox = Account
  BY DEF TypesInv, Shapes
<1>1. sess[a] # "off" /\ inbox[a] # <<>> /\ inbox' = [inbox EXCEPT ![a] = Tail(@)]
  BY DEF OnEvent, OnWelcome, OnNick, OnMsg, OnPriv, OnPrivSent, OnErr, Emitted
<1> QED BY <1>0, <1>1

\* A welcome comes once, first, and only to a session that joins.
LEMMA Greeted ==
  ASSUME TypesInv, Greetings, [Next]_vars
  PROVE  Greetings'
<1>1. ASSUME NEW a \in Account, NEW k \in 1 .. Len(relay'[a])
      PROVE  relay'[a][k].ev.type # "welcome"
  <2>1. CASE Handle(a)
    <3>1. PICK l \in LineRecord : Handles(a, l)
      BY <2>1, HandleFacts
    <3>2. ASSUME NEW j, relay'[a] = <<j>>, j.ev.type # "welcome"
          PROVE  relay'[a][k].ev.type # "welcome"
      BY <1>1, <3>2
    <3>3. ASSUME NEW i, NEW j, relay'[a] = <<i, j>>, i.ev.type # "welcome", j.ev.type # "welcome"
          PROVE  relay'[a][k].ev.type # "welcome"
      BY <1>1, <3>3
    <3>4. \A t, w, n, m, to : /\ Bcast(Event(t, w, n, m), to).ev.type = t
                              /\ Send(Event(t, w, n, m), to).ev.type = t
      BY DEF Bcast, Send, Event
    <3> QED BY <3>1, <3>2, <3>3, <3>4 DEF Handles
  <2>2. CASE Left(relay[a], relay'[a])
    <3>1. PICK i \in 1 .. Len(relay[a]) : Stems(relay[a][i], relay'[a][k])
      BY <1>1, <2>2 DEF Left
    <3>2. relay'[a][k].ev = relay[a][i].ev
      BY <3>1 DEF Stems
    <3> QED BY <3>1, <3>2 DEF Greetings
  <2> QED BY <2>1, <2>2, RelayBack
<1>2. ASSUME NEW a \in Account, NEW k \in 1 .. Len(inbox'[a]), inbox'[a][k].type = "welcome"
      PROVE  k = 1 /\ sess'[a] = "joining"
  <2>1. PICK q \in Seq(EventRecord) : q = inbox[a]
    BY DEF TypesInv, Shapes
  <2>2. \A i \in 1 .. Len(q) : q[i].type = "welcome" => i = 1 /\ sess[a] = "joining"
    BY <2>1 DEF Greetings
  <2>3. ASSUME q # <<>>, inbox'[a] = Tail(q) PROVE FALSE
    <3>1. Len(Tail(q)) = Len(q) - 1 /\ \A i \in 1 .. Len(Tail(q)) : Tail(q)[i] = q[i + 1] /\ i + 1 \in 1 .. Len(q)
      BY <2>3, QueueTail
    <3>2. q[k + 1].type = "welcome" /\ k + 1 \in 1 .. Len(q)
      BY <1>2, <2>3, <3>1
    <3> QED BY <2>2, <3>2
  <2>4. ASSUME OnEvent(a) PROVE FALSE
    BY <2>1, <2>3, <2>4, Emits
  <2>5. CASE Login(a)
    <3>1. PICK e : e = Event("welcome", Guest[a], NoName, 0)
      OBVIOUS
    <3>2. inbox' = [inbox EXCEPT ![a] = <<e>>] /\ sess' = [sess EXCEPT ![a] = "joining"]
      BY <2>5, <3>1 DEF Login
    <3>3. inbox'[a] = <<e>> /\ sess'[a] = "joining"
      BY <3>2 DEF TypesInv, Shapes
    <3> QED BY <1>2, <3>3
  <2>6. ASSUME WsClosed(a) \/ Restart PROVE FALSE
    <3>1. inbox'[a] = <<>>
      BY <2>6 DEF WsClosed, Restart, TypesInv, Shapes
    <3> QED BY <1>2, <3>1
  <2>7. CASE Logout(a)
    <3>1. inbox' = inbox /\ sess[a] = "ready"
      BY <2>7 DEF Logout, Server
    <3> QED BY <1>2, <2>1, <2>2, <3>1
  <2>8. CASE sess'[a] = sess[a] /\ inbox'[a] = inbox[a]
    BY <1>2, <2>1, <2>2, <2>8
  <2>9. ASSUME NEW u \in Account, Relay(u, a), inbox'[a] = Append(inbox[a], relay[u][1].ev),
               sess'[a] = sess[a]
        PROVE  k = 1 /\ sess'[a] = "joining"
    <3>1. relay[u][1] \in Job /\ 1 \in 1 .. Len(relay[u])
      <4>1. PICK r \in Seq(Job) : r = relay[u]
        BY DEF TypesInv, Shapes
      <4>2. r # <<>>
        BY <2>9, <4>1 DEF Relay
      <4> QED BY <4>1, <4>2
    <3>2. PICK e \in EventRecord : e = relay[u][1].ev
      BY <3>1 DEF Job
    <3>3. e.type # "welcome"
      BY <3>1, <3>2 DEF Greetings
    <3>4. /\ Append(q, e)[Len(q) + 1] = e
          /\ \A i \in 1 .. Len(q) : Append(q, e)[i] = q[i]
          /\ \A i \in 1 .. Len(Append(q, e)) : i \in 1 .. Len(q) \/ i = Len(q) + 1
      BY QueueAppend
    <3>5. k \in 1 .. Len(q) /\ q[k].type = "welcome"
      BY <1>2, <2>1, <2>9, <3>2, <3>3, <3>4
    <3> QED BY <2>2, <2>9, <3>5
  <2>10. ASSUME OnWelcome(a) \/ OnNick(a) \/ OnErr(a) PROVE FALSE
    BY <2>4, <2>10 DEF OnEvent
  <2>11. CASE sess'[a] = sess[a]
    BY <2>4, <2>5, <2>6, <2>8, <2>9, <2>11, InboxMoves
  <2> QED BY <2>5, <2>6, <2>7, <2>10, <2>11, SessMoves DEF SessMove
<1> QED BY <1>1, <1>2 DEF Greetings

\* Where line e of conversation c comes from: an error, a message that is stored
\* in this step, or the event at hand.
Brought(b, c, e) ==
  \/ e = ErrorLine
  \/ /\ e.m = NewMessage /\ Stores(e.from, c)
     /\ \/ SendPublic(b) /\ e.from = b /\ c = Public
        \/ SendGroup(e.from, c) /\ c \in Groups
  \/ (OnMsg(b) \/ OnPriv(b) \/ OnPrivSent(b)) /\ e.m = Head(inbox[b]).m

\* The session stays in, or out, and its last snapshot is the last.
Keeps(b) == /\ sess'[b] = "ready" <=> sess[b] = "ready"
            /\ sess'[b] = "ready" => upto'[b] = upto[b]

\* The page takes a snapshot of what is stored.
Snapped(b) ==
  /\ RequestState(b) \/ (OnNick(b) /\ sess[b] = "welcomed")
  /\ sess'[b] = "ready" /\ upto'[b] = Len(history) /\ UNCHANGED <<convs, history>>
  /\ \E n : Fresh(page'[b], n, b)

\* What a step does to a page: it says the same, or a line more; or it is the
\* page of nobody, or one that has a snapshot.
Turns(b) ==
  \/ Keeps(b) /\ Calm(page[b], page'[b])
  \/ Keeps(b) /\ \E p, c, e : Calm(page[b], p) /\ Adds(p, page'[b], c, e) /\ Brought(b, c, e)
  \/ sess'[b] # "ready" /\ PageFits(page'[b]) /\ page'[b].user = NoUser
  \/ Snapped(b)

\* What every later proof starts from.
Core == Base /\ Greetings

\* A welcome is for a session that joins, and touches nothing else.
LEMMA WelcomeOnce ==
  ASSUME Core, NEW a \in Account, OnWelcome(a)
  PROVE  /\ sess[a] = "joining" /\ sess' = [sess EXCEPT ![a] = "welcomed"] /\ page' = page
         /\ UNCHANGED <<convs, history, upto>> /\ nick' = [nick EXCEPT ![a] = Head(inbox[a]).who]
<1>1. /\ inbox[a] # <<>> /\ Head(inbox[a]).type = "welcome"
      /\ sess' = [sess EXCEPT ![a] = "welcomed"] /\ page' = page
      /\ UNCHANGED <<convs, history, upto>> /\ nick' = [nick EXCEPT ![a] = Head(inbox[a]).who]
  BY DEF OnWelcome, Emitted, Database
<1>2. inbox[a][1].type = "welcome" /\ 1 \in 1 .. Len(inbox[a])
  BY <1>1, HeadEvent DEF Core, Base
<1> QED BY <1>1, <1>2 DEF Core, Greetings

\* Every page moves that way at every step.
LEMMA PageMoves ==
  ASSUME Core, [Next]_vars
  PROVE  DOMAIN page' = Account /\ \A b \in Account : Turns(b)
<1> DEFINE Goal == DOMAIN page' = Account /\ \A b \in Account : Turns(b)
<1>0. TypesInv /\ DOMAIN page = Account /\ DOMAIN sess = Account /\ DOMAIN upto = Account
  BY PageOf DEF Core, Base, TypesInv, Shapes
<1>a. ASSUME NEW b \in Account, page'[b] = page[b], Keeps(b) PROVE Turns(b)
  <2>1. PICK p : p = page[b]
    OBVIOUS
  <2>2. PageFits(p)
    BY <1>0, <2>1, PageOf
  <2>3. Calm(p, p)
    BY <2>2, CalmSame
  <2> QED BY <1>a, <2>1, <2>3 DEF Turns
<1>b. ASSUME UNCHANGED <<sess, upto>> PROVE \A b \in Account : Keeps(b)
  BY <1>b DEF Keeps
<1>c. ASSUME NEW a \in Account, NEW s, sess' = [sess EXCEPT ![a] = s],
             \A b \in Account : b # a => upto'[b] = upto[b]
      PROVE  sess'[a] = s /\ \A b \in Account : b # a => sess'[b] = sess[b] /\ Keeps(b)
  BY <1>0, <1>c DEF Keeps
<1>d. ASSUME NEW b \in Account, Keeps(b), NEW p, NEW c, NEW e, Gains(b, p, c, e), Brought(b, c, e)
      PROVE  Turns(b)
  BY <1>d DEF Turns, Gains
<1>e. ASSUME NEW b \in Account, Keeps(b), NEW c, NEW e, Adds(page[b], page'[b], c, e),
             Brought(b, c, e)
      PROVE  Turns(b)
  <2>1. PICK p : p = page[b]
    OBVIOUS
  <2>2. PageFits(p)
    BY <1>0, <2>1, PageOf
  <2>3. Calm(p, p)
    BY <2>2, CalmSame
  <2> QED BY <1>e, <2>1, <2>3 DEF Turns
<1>1. ASSUME UNCHANGED <<sess, page, upto>> PROVE Goal
  BY <1>0, <1>1, <1>a, <1>b
<1>2. ASSUME NEW a \in Account, Login(a) PROVE Goal
  <2>1. page' = page /\ sess[a] = "off" /\ sess' = [sess EXCEPT ![a] = "joining"] /\ upto' = upto
    BY <1>2 DEF Login
  <2>2. \A b \in Account : Keeps(b)
    BY <1>c, <2>1 DEF Keeps
  <2> QED BY <1>0, <1>a, <2>1, <2>2
<1>3. ASSUME NEW a \in Account, WsClosed(a) PROVE Goal
  <2>1. /\ DOMAIN page' = Account /\ sess' = [sess EXCEPT ![a] = "off"]
        /\ PageFits(page'[a]) /\ page'[a].user = NoUser
        /\ \A b \in Account : b # a => page'[b] = page[b] \/ Calm(page[b], page'[b])
        /\ \A b \in Account : b # a => upto'[b] = upto[b]
    <3>1. upto' = [upto EXCEPT ![a] = 0]
      BY <1>3 DEF WsClosed
    <3>2. \A b \in Account : b # a => upto'[b] = upto[b]
      BY <1>0, <3>1
    <3> QED BY <1>0, <1>3, <3>2, WsClosedPage
  <2>2. Turns(a)
    <3>1. sess'[a] = "off"
      BY <1>c, <2>1
    <3>2. sess'[a] # "ready"
      BY <3>1
    <3> QED BY <2>1, <3>2 DEF Turns
  <2>3. \A b \in Account : b # a => Turns(b)
    BY <1>a, <1>c, <2>1 DEF Turns
  <2> QED BY <2>1, <2>2, <2>3
<1>4. ASSUME NEW a \in Account, SendPublic(a) PROVE Goal
  <2>1. PICK p : Gains(a, p, Public, [m |-> NewMessage, from |-> a])
    BY <1>0, <1>4, SendPublicPage
  <2>2. DOMAIN page' = Account /\ \A b \in Account : b # a => page'[b] = page[b]
    BY <1>0, <1>4, SendPublicPage
  <2>3. UNCHANGED <<sess, upto>> /\ Stores(a, Public)
    BY <1>4 DEF SendPublic, Store, Stores
  <2>4. PICK e : e = [m |-> NewMessage, from |-> a]
    OBVIOUS
  <2>4e. e.m = NewMessage /\ e.from = a
    BY <2>4
  <2>5. Brought(a, Public, e)
    BY <1>4, <2>3, <2>4e DEF Brought
  <2>6. Turns(a)
    BY <1>b, <1>d, <2>1, <2>3, <2>4, <2>5
  <2> QED BY <1>a, <1>b, <2>2, <2>3, <2>6
<1>5. ASSUME NEW a \in Account, Open(a) PROVE Goal
  <2>1. UNCHANGED <<sess, upto>>
    BY <1>5 DEF Open
  <2>2. /\ DOMAIN page' = Account /\ \A b \in Account : b # a => page'[b] = page[b]
        /\ Calm(page[a], page'[a])
    BY <1>0, <1>5, OpenPage
  <2> QED BY <1>a, <1>b, <2>1, <2>2 DEF Turns
<1>6. ASSUME NEW a \in Account, RequestState(a) PROVE Goal
  <2>1. /\ DOMAIN page' = Account /\ sess[a] = "ready" /\ UNCHANGED sess
        /\ \A b \in Account : b # a => page'[b] = page[b]
        /\ Fresh(page'[a], nick, a)
    BY <1>0, <1>6, RequestPage
  <2>2. upto' = [upto EXCEPT ![a] = Len(history)] /\ UNCHANGED <<convs, history>>
    BY <1>6 DEF RequestState, Database
  <2>3. upto'[a] = Len(history) /\ \A b \in Account : b # a => upto'[b] = upto[b]
    BY <1>0, <2>2
  <2>4. Snapped(a)
    BY <1>6, <2>1, <2>2, <2>3 DEF Snapped
  <2>5. \A b \in Account : b # a => Keeps(b)
    BY <2>1, <2>3 DEF Keeps
  <2> QED BY <1>a, <2>1, <2>4, <2>5 DEF Turns
<1>7. ASSUME NEW a \in Account, Logout(a) PROVE Goal
  <2>1. /\ DOMAIN page' = Account /\ sess' = [sess EXCEPT ![a] = "closing"]
        /\ PageFits(page'[a]) /\ page'[a].user = NoUser
        /\ \A b \in Account : b # a => page'[b] = page[b]
        /\ upto' = upto
    <3>1. upto' = upto
      BY <1>7 DEF Logout
    <3> QED BY <1>0, <1>7, <3>1, LogoutPage
  <2>2. Turns(a)
    <3>1. sess'[a] = "closing"
      BY <1>c, <2>1
    <3>2. sess'[a] # "ready"
      BY <3>1
    <3> QED BY <2>1, <3>2 DEF Turns
  <2>3. \A b \in Account : b # a => Turns(b)
    BY <1>a, <1>c, <2>1
  <2> QED BY <2>1, <2>2, <2>3
<1>8. ASSUME NEW a \in Account, OnWelcome(a) PROVE Goal
  <2>1. sess[a] = "joining" /\ sess' = [sess EXCEPT ![a] = "welcomed"] /\ page' = page /\ upto' = upto
    BY <1>8, WelcomeOnce
  <2>2. \A b \in Account : Keeps(b)
    BY <1>c, <2>1 DEF Keeps
  <2> QED BY <1>0, <1>a, <2>1, <2>2
<1>9. ASSUME NEW a \in Account, OnNick(a) PROVE Goal
  <2>1. CASE UNCHANGED <<sess, nick, users, page, upto>>
    BY <1>1, <2>1
  <2>2. CASE ~UNCHANGED <<sess, nick, users, page, upto>>
    <3>1. PICK n \in Name :
            /\ nick' = [nick EXCEPT ![a] = n] /\ DOMAIN page' = Account
            /\ \A b \in Account : b # a =>
                 IF Welcomed(b) /\ Hears(b)
                   THEN Users(page[b], page'[b], With(page[b].users, a, n))
                 ELSE page'[b] = page[b]
            /\ \/ /\ sess[a] = "welcomed" /\ sess' = [sess EXCEPT ![a] = "ready"]
                  /\ upto' = [upto EXCEPT ![a] = Len(history)]
                  /\ Fresh(page'[a], [nick EXCEPT ![a] = n], a)
               \/ /\ sess[a] # "welcomed" /\ UNCHANGED <<sess, upto>>
                  /\ IF Hears(a) THEN Users(page[a], page'[a], With(page[a].users, a, n))
                     ELSE page'[a] = page[a]
      BY <1>0, <1>9, <2>2, NickPage
    <3>2. \A b \in Account : b # a => Calm(page[b], page'[b]) \/ page'[b] = page[b]
      BY <3>1 DEF Users
    <3>3. CASE /\ sess[a] = "welcomed" /\ sess' = [sess EXCEPT ![a] = "ready"]
               /\ upto' = [upto EXCEPT ![a] = Len(history)]
               /\ Fresh(page'[a], [nick EXCEPT ![a] = n], a)
      <4>0. upto'[a] = Len(history) /\ \A b \in Account : b # a => upto'[b] = upto[b]
        BY <1>0, <3>3
      <4>c. sess'[a] = "ready" /\ \A b \in Account : b # a => sess'[b] = sess[b]
        BY <1>0, <3>3
      <4>d. UNCHANGED <<convs, history>>
        BY <1>9 DEF OnNick
      <4>1. Turns(a)
        BY <1>9, <3>3, <4>0, <4>c, <4>d DEF Turns, Snapped
      <4>2. \A b \in Account : b # a => Keeps(b)
        BY <4>0, <4>c DEF Keeps
      <4>3. \A b \in Account : b # a => Turns(b)
        BY <1>a, <3>2, <4>2 DEF Turns
      <4> QED BY <3>1, <4>1, <4>3
    <3>4. CASE UNCHANGED <<sess, upto>> /\ (Calm(page[a], page'[a]) \/ page'[a] = page[a])
      <4>1. \A b \in Account : Turns(b)
        BY <1>a, <1>b, <3>2, <3>4 DEF Turns
      <4> QED BY <3>1, <4>1
    <3> QED BY <3>1, <3>3, <3>4 DEF Users
  <2> QED BY <2>1, <2>2
<1>10. ASSUME NEW a \in Account, OnMsg(a) \/ OnPriv(a) \/ OnPrivSent(a) PROVE Goal
  <2>1. /\ DOMAIN page' = Account /\ UNCHANGED sess
        /\ \A b \in Account : b # a => page'[b] = page[b]
        /\ \E c \in ConvId, from \in Account \cup {NoUser} :
             IF Hears(a) THEN Adds(page[a], page'[a], c, [m |-> Head(inbox[a]).m, from |-> from])
             ELSE page'[a] = page[a]
    BY <1>0, <1>10, MessagePage
  <2>2. UNCHANGED <<sess, upto>>
    BY <1>10 DEF OnMsg, OnPriv, OnPrivSent
  <2>3. ASSUME NEW c, NEW from, Adds(page[a], page'[a], c, [m |-> Head(inbox[a]).m, from |-> from])
        PROVE  Turns(a)
    <3>1. PICK e : e = [m |-> Head(inbox[a]).m, from |-> from]
      OBVIOUS
    <3>1e. e.m = Head(inbox[a]).m
      BY <3>1
    <3>2. Brought(a, c, e)
      BY <1>10, <3>1e DEF Brought
    <3> QED BY <1>b, <1>e, <2>2, <2>3, <3>1, <3>2
  <2>4. Turns(a)
    BY <1>a, <1>b, <2>1, <2>2, <2>3
  <2> QED BY <1>a, <1>b, <2>1, <2>2, <2>4
<1>11. ASSUME NEW a \in Account, OnErr(a) PROVE Goal
  <2>1. /\ DOMAIN page' = Account
        /\ \A b \in Account : b # a => page'[b] = page[b]
        /\ \/ page'[a] = page[a] /\ sess[a] # "ready" /\ sess' = [sess EXCEPT ![a] = "closing"]
           \/ UNCHANGED sess /\ page'[a] = page[a]
           \/ UNCHANGED sess /\ Adds(page[a], page'[a], page[a].active, ErrorLine)
        /\ UNCHANGED upto
    BY <1>0, <1>11, ErrPage
  <2>a. \A c : Brought(a, c, ErrorLine)
    BY DEF Brought
  <2>2. CASE page'[a] = page[a] /\ sess[a] # "ready" /\ sess' = [sess EXCEPT ![a] = "closing"]
    <3>1. \A b \in Account : Keeps(b)
      BY <1>c, <2>1, <2>2 DEF Keeps
    <3> QED BY <1>a, <2>1, <2>2, <3>1
  <2>3. CASE UNCHANGED sess
    BY <1>a, <1>b, <1>e, <2>1, <2>2, <2>3, <2>a
  <2> QED BY <2>1, <2>2, <2>3
<1>12. ASSUME NEW a \in Account, NEW b \in Account, SendDirect(a, b) PROVE Goal
  <2>1. UNCHANGED <<sess, upto>>
    BY <1>12 DEF SendDirect
  <2>a. \A u \in Account : \A c : Brought(u, c, ErrorLine)
    BY DEF Brought
  <2>2. /\ DOMAIN page' = Account
        /\ \A u \in Account : u # a /\ (u # b \/ ~Welcomed(b)) => page'[u] = page[u]
        /\ Welcomed(b) => Calm(page[a], page'[a]) /\ Calm(page[b], page'[b])
        /\ ~Welcomed(b) =>
             \E p : Calm(page[a], p) /\ (page'[a] = p \/ Adds(p, page'[a], Direct(a, b), ErrorLine))
    BY <1>0, <1>12, SendDirectPage
  <2>3. Turns(a)
    BY <1>b, <2>1, <2>2, <2>a DEF Turns
  <2>4. \A u \in Account : u # a => Turns(u)
    BY <1>a, <1>b, <2>1, <2>2 DEF Turns
  <2> QED BY <2>2, <2>3, <2>4
<1>13. ASSUME NEW a \in Account, NEW c \in Groups, SendGroup(a, c) PROVE Goal
  <2>1. UNCHANGED <<sess, upto>> /\ Stores(a, c)
    BY <1>13 DEF SendGroup, Store, Stores
  <2>2. /\ DOMAIN page' = Account
        /\ \A b \in Account :
             (\E p : Gains(b, p, c, [m |-> NewMessage, from |-> a])) \/ page'[b] = page[b]
    BY <1>0, <1>13, SendGroupPage
  <2>3. PICK e : e = [m |-> NewMessage, from |-> a]
    OBVIOUS
  <2>3e. e.m = NewMessage /\ e.from = a
    BY <2>3
  <2>4. \A b \in Account : Brought(b, c, e)
    BY <1>13, <2>1, <2>3e DEF Brought
  <2> QED BY <1>a, <1>b, <1>d, <2>1, <2>2, <2>3, <2>4
<1>14. ASSUME NEW a \in Account, NEW others \in SUBSET Account, CreateGroup(a, others) PROVE Goal
  <2>1. UNCHANGED <<sess, upto>>
    BY <1>14 DEF CreateGroup
  <2>a. \A u \in Account : \A c : Brought(u, c, ErrorLine)
    BY DEF Brought
  <2>2. /\ DOMAIN page' = Account
        /\ \A b \in Account :
             \/ Calm(page[b], page'[b]) \/ page'[b] = page[b]
             \/ \E p, d : Calm(page[b], p) /\ Adds(p, page'[b], d, ErrorLine)
    <3>1. /\ DOMAIN page' = Account
          /\ (\A b \in {a} \cup others : Welcomed(b)) => \A b \in Account : Calm(page[b], page'[b])
          /\ ~(\A b \in {a} \cup others : Welcomed(b)) =>
               /\ \A b \in Account : b # a => page'[b] = page[b]
               /\ \E p : /\ Calm(page[a], p)
                         /\ (page'[a] = p \/ Adds(p, page'[a], p.active, ErrorLine))
      BY <1>14, CreateGroupPage DEF Core
    <3> QED BY <3>1
  <2> QED BY <1>a, <1>b, <2>1, <2>2, <2>a DEF Turns
<1>15. ASSUME Restart PROVE Goal
  BY <1>15, RestartPage DEF Turns
<1>16. ASSUME NEW a \in Account, Handle(a) \/ CopyTargets(a) \/ Drop(a) PROVE UNCHANGED <<sess, page, upto>>
  BY <1>16 DEF Handle, CopyTargets, Drop
<1>17. ASSUME NEW a \in Account,
              \/ \E b \in Account : Relay(a, b) \/ CrashInDirect(a, b)
              \/ \E others \in SUBSET Account : CrashInGroup(a, others)
              \/ \E n \in Typed : SetNickname(a, n)
       PROVE  UNCHANGED <<sess, page, upto>> \/ Restart
  BY <1>17 DEF Relay, CrashInDirect, CrashInGroup, SetNickname
<1>18. ASSUME Crash \/ UNCHANGED vars PROVE UNCHANGED <<sess, page, upto>> \/ Restart
  BY <1>18 DEF Crash, vars
<1> HIDE DEF Goal
<1>19. ASSUME NEW a \in Account,
              \/ \E b \in Account : SendDirect(a, b) \/ Relay(a, b) \/ CrashInDirect(a, b)
              \/ \E others \in SUBSET Account : CreateGroup(a, others) \/ CrashInGroup(a, others)
              \/ \E n \in Typed : SetNickname(a, n)
              \/ \E c \in Groups : SendGroup(a, c)
       PROVE  Goal
  BY <1>1, <1>12, <1>13, <1>14, <1>15, <1>17, <1>19
<1>20. Goal
  BY <1>1, <1>2, <1>3, <1>4, <1>5, <1>6, <1>7, <1>8, <1>9, <1>10, <1>11, <1>15, <1>16, <1>18, <1>19, Steps
<1> QED BY <1>20 DEF Goal

\* Pages stay their accounts'.
LEMMA PagesTyped ==
  ASSUME Core, [Next]_vars
  PROVE  PagesFit'
<1>1. ASSUME NEW b \in Account
      PROVE  PageFits(page'[b]) /\ page'[b].user = IF sess'[b] = "ready" THEN b ELSE NoUser
  <2>1. page[b].user = IF sess[b] = "ready" THEN b ELSE NoUser
    BY PageOf DEF Core, Base
  <2>2. CASE Keeps(b) /\ Calm(page[b], page'[b])
    <3>1. PageFits(page'[b]) /\ page'[b].user = page[b].user
      BY <2>2 DEF Calm
    <3> QED BY <2>1, <2>2, <3>1 DEF Keeps
  <2>3. CASE Keeps(b) /\ \E p, c, e : Calm(page[b], p) /\ Adds(p, page'[b], c, e)
    <3>1. PICK p, c, e : Calm(page[b], p) /\ Adds(p, page'[b], c, e)
      BY <2>3
    <3>2. PageFits(page'[b]) /\ page'[b].user = p.user /\ p.user = page[b].user
      BY <3>1 DEF Calm, Adds
    <3> QED BY <2>1, <2>3, <3>2 DEF Keeps
  <2>4. Turns(b)
    BY PageMoves
  <2>5. CASE Snapped(b)
    BY <2>5 DEF Snapped, Fresh
  <2>6. CASE sess'[b] # "ready" /\ PageFits(page'[b]) /\ page'[b].user = NoUser
    BY <2>6
  <2>7. (\E p, c, e : Calm(page[b], p) /\ Adds(p, page'[b], c, e) /\ Brought(b, c, e))
          => \E p, c, e : Calm(page[b], p) /\ Adds(p, page'[b], c, e)
    OBVIOUS
  <2> QED BY <2>2, <2>3, <2>4, <2>5, <2>6, <2>7 DEF Turns
<1>2. DOMAIN page' = Account
  BY PageMoves
<1> QED BY <1>1 DEF PagesFit

\* What is true at start.
LEMMA CoreAtStart == Init => Core
<1> SUFFICES ASSUME Init PROVE Core
  OBVIOUS
<1>0. /\ Home \in [Account -> Name] /\ Online \subseteq Account /\ Guest \in [Account -> Name]
      /\ {MaxMessages, Requests, Logins} \subseteq Nat /\ NoUser \notin Account
  BY RoutingConstants
<1>1. /\ sess = [a \in Account |-> IF a \in Online THEN "ready" ELSE "off"]
      /\ nick = [a \in Account |-> IF a \in Online THEN Home[a] ELSE NoName]
      /\ users = Home /\ convs = [c \in {} |-> {}] /\ history = <<>> /\ conn = nick
      /\ page = [a \in Account |->
                   IF a \in Online
                     THEN ready(InitialPage, a, [b \in Online |-> Home[b]], [c \in {} |-> {}], <<>>)
                   ELSE InitialPage]
      /\ inbox = [a \in Account |-> <<>>] /\ outbox = [a \in Account |-> <<>>]
      /\ relay = [a \in Account |-> <<>>] /\ asked = 0 /\ logins = 0 /\ lost = {}
      /\ upto = [a \in Account |-> 0]
  BY DEF Init
<1>2. PICK none : none = [c \in {} |-> {}]
  OBVIOUS
<1>3. /\ none \in Maps(ConvId \ {Public}, SUBSET (Account \cup Name))
      /\ none \in Maps(ConvId, SUBSET (Account \cup Name)) /\ DOMAIN none = {}
  <2>1. PICK D \in SUBSET (ConvId \ {Public}) : D = {}
    OBVIOUS
  <2>2. PICK E \in SUBSET ConvId : E = {}
    OBVIOUS
  <2>3. none \in [D -> SUBSET (Account \cup Name)] /\ none \in [E -> SUBSET (Account \cup Name)]
    BY <1>2, <2>1, <2>2
  <2> QED BY <1>2, <2>3, MapOf
<1>4. Shapes
  <2>1. \A a \in Account : <<>> \in Seq(EventRecord) /\ <<>> \in Seq(LineRecord) /\ <<>> \in Seq(Job)
    OBVIOUS
  <2>2. history \in Seq(Row) /\ Len(history) = 0 /\ Len(history) <= MaxMessages
    BY <1>0, <1>1
  <2>3. /\ sess \in [Account -> Sessions] /\ nick \in [Account -> Name \cup {NoName}]
        /\ conn \in [Account -> Name \cup {NoName}] /\ users \in [Account -> Name]
        /\ upto \in [Account -> 0..MaxMessages] /\ asked \in 0..Requests /\ logins \in 0..Logins
    BY <1>0, <1>1 DEF Sessions
  <2>4. /\ DOMAIN page = Account /\ DOMAIN inbox = Account /\ DOMAIN outbox = Account
        /\ DOMAIN relay = Account
        /\ \A a \in Account : inbox[a] = <<>> /\ outbox[a] = <<>> /\ relay[a] = <<>>
    BY <1>1
  <2>5. convs \in Maps(ConvId \ {Public}, SUBSET (Account \cup Name))
    BY <1>1, <1>2, <1>3
  <2> QED BY <2>1, <2>2, <2>3, <2>4, <2>5 DEF Shapes
<1>5. QueuesFit /\ Greetings
  <2>1. \A a \in Account : Len(inbox[a]) = 0 /\ Len(outbox[a]) = 0 /\ Len(relay[a]) = 0
    BY <1>1
  <2>2. \A k \in 1 .. 0 : FALSE
    OBVIOUS
  <2> QED BY <2>1, <2>2 DEF QueuesFit, Greetings
<1>6. PICK us : us = [b \in Online |-> Home[b]]
  OBVIOUS
<1>7. us \in Maps(Account, Name)
  <2>1. us \in [Online -> Name] /\ Online \in SUBSET Account
    BY <1>0, <1>6
  <2> QED BY <2>1, MapOf
<1>8. PICK h : h = <<>>
  OBVIOUS
<1>9. PagesFit
  <2>1. ASSUME NEW a \in Account, a \in Online
        PROVE  PageFits(page[a]) /\ page[a].user = a
    <3>1. PICK p : p = InitialPage
      OBVIOUS
    <3>2. PICK q : q = ready(p, a, us, none, h)
      OBVIOUS
    <3>3. PageFits(p)
      BY <3>1, InitialFits
    <3>4. Readied(q, a, us, none, h)
      <4>1. h \in Seq(HistoryRow)
        BY <1>8
      <4> QED BY <1>3, <1>7, <3>2, <3>3, <4>1, ReadyFacts
    <3>5. page[a] = q
      BY <1>1, <1>2, <1>6, <1>8, <2>1, <3>1, <3>2
    <3> QED BY <3>4, <3>5 DEF Readied
  <2>2. ASSUME NEW a \in Account, a \notin Online
        PROVE  PageFits(page[a]) /\ page[a].user = NoUser
    BY <1>1, <2>2, InitialFits
  <2>3. \A a \in Account : sess[a] = "ready" <=> a \in Online
    BY <1>1
  <2> QED BY <2>1, <2>2, <2>3 DEF PagesFit
<1>10. WelcomedNamed /\ LostStored
  BY <1>0, <1>1 DEF WelcomedNamed, Welcomed, LostStored
<1>11. GroupsNumbered
  <2>1. Groups = {}
    BY <1>1 DEF Groups
  <2>2. IsFiniteSet(Groups) /\ Cardinality(Groups) = 0
    BY <2>1, FS_EmptySet
  <2>3. {Group(i) : i \in 1 .. 0} = {}
    OBVIOUS
  <2> QED BY <2>1, <2>2, <2>3 DEF GroupsNumbered
<1> QED BY <1>4, <1>5, <1>9, <1>10, <1>11 DEF Core, Base, TypesInv

\* Every step keeps it.
LEMMA CoreStep ==
  ASSUME Core, [Next]_vars
  PROVE  Core'
<1>1. TypesInv /\ Base
  BY DEF Core, Base
<1>2. convs' \in Maps(ConvId \ {Public}, SUBSET (Account \cup Name)) /\ GroupsNumbered'
  BY <1>1, ConvsTyped
<1>3. Plain'
  BY <1>1, PlainTyped
<1>4. history' \in Seq(Row) /\ Len(history') <= MaxMessages
  BY <1>1, HistoryGrows
<1>5. /\ DOMAIN inbox' = Account
      /\ \A a \in Account :
           /\ inbox'[a] \in Seq(EventRecord)
           /\ \A k \in 1 .. Len(inbox'[a]) : EventFits(inbox'[a][k], DOMAIN history')
  BY <1>1, InboxTyped
<1>6. /\ DOMAIN outbox' = Account
      /\ \A a \in Account :
           /\ outbox'[a] \in Seq(LineRecord)
           /\ \A k \in 1 .. Len(outbox'[a]) : LineFits(outbox'[a][k], DOMAIN history')
  BY <1>1, OutboxTyped
<1>7. /\ DOMAIN relay' = Account
      /\ \A a \in Account :
           /\ relay'[a] \in Seq(Job)
           /\ \A k \in 1 .. Len(relay'[a]) : JobFits(relay'[a][k], DOMAIN history')
  BY <1>1, RelayTyped
<1>8. DOMAIN page' = Account
  BY PageMoves
<1>9. Shapes'
  BY <1>2, <1>3, <1>4, <1>5, <1>6, <1>7, <1>8 DEF Shapes, Plain
<1>10. QueuesFit'
  BY <1>5, <1>6, <1>7 DEF QueuesFit
<1>11. PagesFit' /\ WelcomedNamed' /\ LostStored' /\ Greetings'
  BY <1>1, <1>3, PagesTyped, LostTyped, Greeted DEF Plain, Core
<1> QED BY <1>2, <1>9, <1>10, <1>11 DEF Core, Base, TypesInv

\* What the theorems below stand on holds throughout.
LEMMA CoreAlways == Spec => []Core
<1>1. Core /\ [Next]_vars => Core'
  BY CoreStep
<1> QED BY <1>1, CoreAtStart, PTL DEF Spec

\* Every variable keeps its type (routing of gatewayServer.ts:192-460).
THEOREM RoutingTypes == Spec => []TypeOK
<1>1. Core => TypeOK
  BY TypesImply DEF Core, Base
<1> QED BY <1>1, CoreAlways, PTL

----------------------------------------------------------------------------
(* Pages know each other by name.                                          *)

\* A step keeps the pages right about names.
LEMMA NamesStep ==
  ASSUME Core, NamesShown, [Next]_vars
  PROVE  NamesShown'
<1> DEFINE Goal == NamesShown'
<1>0. TypesInv /\ DOMAIN sess = Account /\ DOMAIN nick = Account
  BY DEF Core, Base, TypesInv, Shapes
<1>a. ASSUME \A a \in Account :
               sess'[a] = "ready" => /\ sess[a] = "ready" /\ nick'[a] = nick[a]
                                     /\ page'[a].users = page[a].users
      PROVE  Goal
  BY <1>a DEF NamesShown
<1>b. ASSUME UNCHANGED <<sess, nick>>,
             \A a \in Account : page'[a].users = page[a].users
      PROVE  Goal
  BY <1>a, <1>b
<1>c. ASSUME NEW p, NEW q, NEW r, NEW c, NEW e, Calm(p, q), q.users = p.users, Adds(q, r, c, e)
      PROVE  r.users = p.users
  BY <1>c DEF Adds
<1>1. ASSUME UNCHANGED <<sess, nick, page>> PROVE Goal
  BY <1>1, <1>b
<1>2. ASSUME NEW a \in Account, Login(a) PROVE Goal
  <2>1. page' = page /\ nick' = nick /\ sess' = [sess EXCEPT ![a] = "joining"]
    BY <1>2 DEF Login
  <2>2. \A b \in Account : sess'[b] = "ready" => sess[b] = "ready"
    BY <1>0, <2>1
  <2> QED BY <1>a, <2>1, <2>2
<1>3. ASSUME NEW a \in Account, WsClosed(a) PROVE Goal
  <2>1. /\ sess' = [sess EXCEPT ![a] = "off"] /\ nick' = [nick EXCEPT ![a] = NoName]
        /\ \A b \in Account : b # a =>
             \/ page'[b] = page[b]
             \/ /\ DOMAIN page'[b].users = DOMAIN page[b].users \ {a}
                /\ \A u \in DOMAIN page'[b].users : page'[b].users[u] = page[b].users[u]
    BY <1>0, <1>3, WsClosedPage
  <2>2. sess'[a] = "off" /\ \A b \in Account : b # a => sess'[b] = sess[b] /\ nick'[b] = nick[b]
    BY <1>0, <2>1
  <2>3. ASSUME NEW b \in Account, NEW u \in Account, sess'[b] = "ready", sess'[u] = "ready"
        PROVE  u \in DOMAIN page'[b].users /\ page'[b].users[u] = nick'[u]
    <3>1. b # a /\ u # a /\ sess[b] = "ready" /\ sess[u] = "ready" /\ nick'[u] = nick[u]
      BY <2>2, <2>3
    <3>2. u \in DOMAIN page[b].users /\ page[b].users[u] = nick[u]
      BY <3>1 DEF NamesShown
    <3> QED BY <2>1, <3>1, <3>2
  <2> QED BY <2>3 DEF NamesShown
<1>4. ASSUME NEW a \in Account, SendPublic(a) PROVE Goal
  <2>1. PICK p : Gains(a, p, Public, [m |-> NewMessage, from |-> a])
    BY <1>0, <1>4, SendPublicPage
  <2>2. \A b \in Account : b # a => page'[b] = page[b]
    BY <1>0, <1>4, SendPublicPage
  <2>3. UNCHANGED <<sess, nick>>
    BY <1>4 DEF SendPublic
  <2>4. page'[a].users = page[a].users
    BY <2>1 DEF Gains, Adds
  <2> QED BY <1>b, <2>2, <2>3, <2>4
<1>5. ASSUME NEW a \in Account, Open(a) PROVE Goal
  <2>1. UNCHANGED <<sess, nick>>
    BY <1>5 DEF Open
  <2>2. /\ \A b \in Account : b # a => page'[b] = page[b]
        /\ page'[a].users = page[a].users
    BY <1>0, <1>5, OpenPage
  <2> QED BY <1>b, <2>1, <2>2
<1>6. ASSUME NEW a \in Account, RequestState(a) PROVE Goal
  <2>1. /\ UNCHANGED <<sess, nick>>
        /\ \A b \in Account : b # a => page'[b] = page[b]
        /\ Fresh(page'[a], nick, a)
    BY <1>0, <1>6, RequestPage
  <2>2. ASSUME NEW b \in Account, sess[b] = "ready"
        PROVE  b \in DOMAIN page'[a].users /\ page'[a].users[b] = nick[b]
    BY <2>1, <2>2 DEF Fresh, Welcomed
  <2> QED BY <2>1, <2>2 DEF NamesShown
<1>7. ASSUME NEW a \in Account, Logout(a) PROVE Goal
  <2>1. /\ sess' = [sess EXCEPT ![a] = "closing"]
        /\ \A b \in Account : b # a => page'[b] = page[b]
    BY <1>0, <1>7, LogoutPage
  <2>2. nick' = nick
    BY <1>7 DEF Logout
  <2>3. \A b \in Account : sess'[b] = "ready" => b # a /\ sess[b] = "ready"
    BY <1>0, <2>1
  <2> QED BY <1>a, <2>1, <2>2, <2>3
<1>8. ASSUME NEW a \in Account, OnWelcome(a) PROVE Goal
  <2>1. /\ sess' = [sess EXCEPT ![a] = "welcomed"] /\ page' = page
        /\ nick' = [nick EXCEPT ![a] = Head(inbox[a]).who]
    BY <1>8, WelcomeOnce
  <2>2. \A b \in Account : sess'[b] = "ready" => b # a /\ sess[b] = "ready" /\ nick'[b] = nick[b]
    BY <1>0, <2>1
  <2> QED BY <1>a, <2>1, <2>2
<1>9. ASSUME NEW a \in Account, OnNick(a) PROVE Goal
  <2>1. CASE UNCHANGED <<sess, nick, users, page, upto>>
    BY <1>1, <2>1
  <2>2. CASE ~UNCHANGED <<sess, nick, users, page, upto>>
    <3>1. PICK n \in Name :
            /\ nick' = [nick EXCEPT ![a] = n]
            /\ \A b \in Account : b # a =>
                 IF Welcomed(b) /\ Hears(b)
                   THEN Users(page[b], page'[b], With(page[b].users, a, n))
                 ELSE page'[b] = page[b]
            /\ \/ /\ sess[a] = "welcomed" /\ sess' = [sess EXCEPT ![a] = "ready"]
                  /\ Fresh(page'[a], [nick EXCEPT ![a] = n], a)
               \/ /\ sess[a] # "welcomed" /\ UNCHANGED sess
                  /\ IF Hears(a) THEN Users(page[a], page'[a], With(page[a].users, a, n))
                     ELSE page'[a] = page[a]
      BY <1>0, <1>9, <2>2, NickPage
    <3>2. nick'[a] = n /\ \A b \in Account : b # a => nick'[b] = nick[b] /\ sess'[b] = sess[b]
      BY <1>0, <3>1
    <3>3. ASSUME NEW b \in Account, sess[b] = "ready", Users(page[b], page'[b], With(page[b].users, a, n)),
                 NEW u \in Account, sess'[u] = "ready"
          PROVE  u \in DOMAIN page'[b].users /\ page'[b].users[u] = nick'[u]
      <4>1. PICK g : g = page[b].users
        OBVIOUS
      <4>2. /\ DOMAIN page'[b].users = DOMAIN g \cup {a} /\ page'[b].users[a] = n
            /\ \A z \in DOMAIN g : z # a => page'[b].users[z] = g[z]
        <5>1. PICK h : h = With(g, a, n)
          OBVIOUS
        <5>2. page'[b].users = h
          BY <3>3, <4>1, <5>1 DEF Users
        <5>3. h = [z \in DOMAIN g \cup {a} |-> IF z = a THEN n ELSE g[z]]
          BY <5>1 DEF With
        <5> QED BY <5>2, <5>3
      <4>3. u # a => u \in DOMAIN g /\ g[u] = nick[u]
        BY <3>2, <3>3, <4>1 DEF NamesShown
      <4> QED BY <3>2, <4>2, <4>3
    <3>4. ASSUME NEW b \in Account, b # a, sess'[b] = "ready", NEW u \in Account, sess'[u] = "ready"
          PROVE  u \in DOMAIN page'[b].users /\ page'[b].users[u] = nick'[u]
      <4>1. sess[b] = "ready" /\ Welcomed(b) /\ Hears(b)
        BY <3>2, <3>4 DEF Welcomed, Hears
      <4> QED BY <3>1, <3>3, <3>4, <4>1
    <3>5. ASSUME sess'[a] = "ready", NEW u \in Account, sess'[u] = "ready"
          PROVE  u \in DOMAIN page'[a].users /\ page'[a].users[u] = nick'[u]
      <4>1. CASE sess[a] = "welcomed" /\ Fresh(page'[a], [nick EXCEPT ![a] = n], a)
        <5>1. PICK k : k = [nick EXCEPT ![a] = n]
          OBVIOUS
        <5>2. Fresh(page'[a], k, a) /\ nick' = k
          BY <3>1, <4>1, <5>1
        <5>3. Welcomed(u)
          BY <3>2, <3>5, <4>1 DEF Welcomed
        <5> QED BY <5>2, <5>3 DEF Fresh
      <4>2. CASE UNCHANGED sess /\ IF Hears(a) THEN Users(page[a], page'[a], With(page[a].users, a, n))
                                   ELSE page'[a] = page[a]
        <5>1. sess[a] = "ready" /\ Hears(a)
          BY <3>5, <4>2 DEF Hears
        <5> QED BY <3>3, <3>5, <4>2, <5>1
      <4> QED BY <3>1, <4>1, <4>2
    <3> QED BY <3>4, <3>5 DEF NamesShown
  <2> QED BY <2>1, <2>2
<1>10. ASSUME NEW a \in Account, OnMsg(a) \/ OnPriv(a) \/ OnPrivSent(a) PROVE Goal
  <2>1. /\ UNCHANGED <<sess, nick>>
        /\ \A b \in Account : b # a => page'[b] = page[b]
        /\ \E c \in ConvId, from \in Account \cup {NoUser} :
             IF Hears(a) THEN Adds(page[a], page'[a], c, [m |-> Head(inbox[a]).m, from |-> from])
             ELSE page'[a] = page[a]
    BY <1>0, <1>10, MessagePage
  <2>2. page'[a].users = page[a].users
    BY <2>1 DEF Adds
  <2> QED BY <1>b, <2>1, <2>2
<1>11. ASSUME NEW a \in Account, OnErr(a) PROVE Goal
  <2>1. /\ UNCHANGED nick
        /\ \A b \in Account : b # a => page'[b] = page[b]
        /\ \/ page'[a] = page[a] /\ sess[a] # "ready" /\ sess' = [sess EXCEPT ![a] = "closing"]
           \/ UNCHANGED sess /\ page'[a] = page[a]
           \/ UNCHANGED sess /\ Adds(page[a], page'[a], page[a].active, ErrorLine)
    BY <1>0, <1>11, ErrPage
  <2>2. \A b \in Account : page'[b].users = page[b].users
    BY <2>1 DEF Adds
  <2>3. \A b \in Account : sess'[b] = "ready" => sess[b] = "ready"
    BY <1>0, <2>1
  <2> QED BY <1>a, <2>1, <2>2, <2>3
<1>12. ASSUME NEW a \in Account, NEW b \in Account, SendDirect(a, b) PROVE Goal
  <2>1. UNCHANGED <<sess, nick>>
    BY <1>12 DEF SendDirect
  <2>2. /\ \A u \in Account : u # a /\ (u # b \/ ~Welcomed(b)) => page'[u] = page[u]
        /\ Welcomed(b) => page'[a].users = page[a].users /\ page'[b].users = page[b].users
        /\ ~Welcomed(b) =>
             \E p : /\ p.users = page[a].users
                    /\ (page'[a] = p \/ Adds(p, page'[a], Direct(a, b), ErrorLine))
    BY <1>0, <1>12, SendDirectPage
  <2>3. page'[a].users = page[a].users
    BY <2>2 DEF Adds
  <2> QED BY <1>b, <2>1, <2>2, <2>3
<1>13. ASSUME NEW a \in Account, NEW c \in Groups, SendGroup(a, c) PROVE Goal
  <2>1. UNCHANGED <<sess, nick>>
    BY <1>13 DEF SendGroup
  <2>2. \A b \in Account :
             (\E p : Gains(b, p, c, [m |-> NewMessage, from |-> a])) \/ page'[b] = page[b]
    BY <1>0, <1>13, SendGroupPage
  <2>3. \A b \in Account : page'[b].users = page[b].users
    BY <2>2 DEF Gains, Adds
  <2> QED BY <1>b, <2>1, <2>3
<1>14. ASSUME NEW a \in Account, NEW others \in SUBSET Account, CreateGroup(a, others) PROVE Goal
  <2>1. UNCHANGED <<sess, nick>>
    BY <1>14 DEF CreateGroup
  <2>2. /\ (\A b \in {a} \cup others : Welcomed(b)) => \A b \in Account : page'[b].users = page[b].users
        /\ ~(\A b \in {a} \cup others : Welcomed(b)) =>
             /\ \A b \in Account : b # a => page'[b] = page[b]
             /\ \E p : /\ p.users = page[a].users
                       /\ (page'[a] = p \/ Adds(p, page'[a], p.active, ErrorLine))
    BY <1>14, CreateGroupPage DEF Core
  <2>3. \A b \in Account : page'[b].users = page[b].users
    BY <2>2 DEF Adds
  <2> QED BY <1>b, <2>1, <2>3
<1>15. ASSUME Restart PROVE Goal
  <2>1. \A b \in Account : sess'[b] # "ready"
    BY <1>15, RestartPage
  <2> QED BY <1>a, <2>1
<1>16. ASSUME NEW a \in Account, Handle(a) \/ CopyTargets(a) \/ Drop(a) PROVE UNCHANGED <<sess, nick, page>>
  BY <1>16 DEF Handle, CopyTargets, Drop
<1>17. ASSUME NEW a \in Account,
              \/ \E b \in Account : Relay(a, b) \/ CrashInDirect(a, b)
              \/ \E others \in SUBSET Account : CrashInGroup(a, others)
              \/ \E n \in Typed : SetNickname(a, n)
       PROVE  UNCHANGED <<sess, nick, page>> \/ Restart
  BY <1>17 DEF Relay, CrashInDirect, CrashInGroup, SetNickname
<1>18. ASSUME Crash \/ UNCHANGED vars PROVE UNCHANGED <<sess, nick, page>> \/ Restart
  BY <1>18 DEF Crash, vars
<1> HIDE DEF Goal
<1>19. ASSUME NEW a \in Account,
              \/ \E b \in Account : SendDirect(a, b) \/ Relay(a, b) \/ CrashInDirect(a, b)
              \/ \E others \in SUBSET Account : CreateGroup(a, others) \/ CrashInGroup(a, others)
              \/ \E n \in Typed : SetNickname(a, n)
              \/ \E c \in Groups : SendGroup(a, c)
       PROVE  Goal
  BY <1>1, <1>12, <1>13, <1>14, <1>15, <1>17, <1>19
<1>20. Goal
  BY <1>1, <1>2, <1>3, <1>4, <1>5, <1>6, <1>7, <1>8, <1>9, <1>10, <1>11, <1>15, <1>16, <1>18, <1>19, Steps
<1> QED BY <1>20 DEF Goal

\* The pages of those who are online at start show each other.
LEMMA NamesAtStart == Init => NamesShown
<1> SUFFICES ASSUME Init, NEW a \in Account, NEW b \in Account, sess[a] = "ready", sess[b] = "ready"
             PROVE  b \in DOMAIN page[a].users /\ page[a].users[b] = nick[b]
  BY DEF NamesShown
<1>1. a \in Online /\ b \in Online
  BY DEF Init
<1>2. page[a] = ready(InitialPage, a, [u \in Online |-> Home[u]], [c \in {} |-> {}], <<>>)
  BY <1>1 DEF Init
<1>3. page[a].users = [u \in Online |-> Home[u]]
  BY <1>2 DEF ready, InitialPage
<1>4. nick[b] = Home[b]
  BY <1>1 DEF Init
<1> QED BY <1>1, <1>3, <1>4

\* Every ready page lists every ready session under the nickname the gateway has
\* for it: welcomes, renames, departures and snapshots tell every page
\* (gatewayServer.ts:335-400, 484-499).
THEOREM NamesAreShown == Spec => []NamesShown
<1>1. Core /\ NamesShown /\ [Next]_vars => NamesShown'
  BY NamesStep
<1> QED BY <1>1, NamesAtStart, CoreAlways, PTL DEF Spec

----------------------------------------------------------------------------
(* What is unread is counted.                                              *)

\* The rule of the unread count, for a page and the next.
Counts(p, q) ==
  \A c \in DOMAIN p.convs :
    /\ c \in DOMAIN q.convs
    /\ q.convs[c].unread = IF c = q.active THEN 0
                           ELSE p.convs[c].unread
                                  + Cardinality(MessagesAt(q, c)) - Cardinality(MessagesAt(p, c))

\* The places of messages are counted.
LEMMA PlacesCounted ==
  ASSUME NEW p, PageFits(p), NEW c \in DOMAIN p.convs
  PROVE  /\ MessagesAt(p, c) \in SUBSET (1 .. Len(p.convs[c].messages))
         /\ IsFiniteSet(MessagesAt(p, c)) /\ Cardinality(MessagesAt(p, c)) \in Nat
         /\ Len(p.convs[c].messages) \in Nat /\ p.convs[c].unread \in Nat
         /\ p.convs[c].messages \in Seq(PageMessage)
<1>1. p.convs[c].messages \in Seq(PageMessage) /\ p.convs[c].unread \in Nat
  BY PageFields
<1>2. PICK n \in Nat : n = Len(p.convs[c].messages) /\ DOMAIN p.convs[c].messages = 1 .. n
  BY <1>1
<1>3. PICK I \in SUBSET (1 .. n) : I = MessagesAt(p, c)
  BY <1>2 DEF MessagesAt
<1>4. IsFiniteSet(I)
  BY PlacesFinite
<1>5. Cardinality(I) \in Nat
  BY <1>4, FS_CardinalityType
<1> QED BY <1>1, <1>2, <1>3, <1>4, <1>5

\* A page that says the same counts the same.
LEMMA CalmCounts ==
  ASSUME NEW p, PageFits(p), NEW q, Calm(p, q)
  PROVE  Counts(p, q)
<1>1. ASSUME NEW c \in DOMAIN p.convs
      PROVE  /\ c \in DOMAIN q.convs
             /\ q.convs[c].unread = IF c = q.active THEN 0
                                    ELSE p.convs[c].unread
                                           + Cardinality(MessagesAt(q, c)) - Cardinality(MessagesAt(p, c))
  <2>1. /\ c \in DOMAIN q.convs /\ q.convs[c].messages = p.convs[c].messages
        /\ q.convs[c].unread = IF c = q.active THEN 0 ELSE p.convs[c].unread
    BY DEF Calm
  <2>2. MessagesAt(q, c) = MessagesAt(p, c)
    BY <2>1 DEF MessagesAt
  <2>3. PICK k \in Nat : k = Cardinality(MessagesAt(p, c))
    BY PlacesCounted
  <2>4. p.convs[c].unread \in Nat
    BY PlacesCounted
  <2> QED BY <2>1, <2>2, <2>3, <2>4
<1> QED BY <1>1 DEF Counts

\* One that says a line more counts it, unless it is an error.
LEMMA AddsCounts ==
  ASSUME NEW p, PageFits(p), NEW q, Calm(p, q), NEW r, NEW d, NEW e, Adds(q, r, d, e)
  PROVE  Counts(p, r)
<1>0. PageFits(q) /\ Counts(p, q) /\ r.active = q.active
  BY CalmCounts DEF Calm, Adds
<1>1. ASSUME NEW c \in DOMAIN p.convs
      PROVE  /\ c \in DOMAIN r.convs
             /\ r.convs[c].unread = IF c = r.active THEN 0
                                    ELSE p.convs[c].unread
                                           + Cardinality(MessagesAt(r, c)) - Cardinality(MessagesAt(p, c))
  <2>1. /\ c \in DOMAIN q.convs
        /\ q.convs[c].unread = IF c = q.active THEN 0
                               ELSE p.convs[c].unread
                                      + Cardinality(MessagesAt(q, c)) - Cardinality(MessagesAt(p, c))
    BY <1>0 DEF Counts
  <2>2. c \in DOMAIN r.convs
    BY <2>1 DEF Adds
  <2>3. CASE c # d
    <3>1. r.convs[c] = q.convs[c]
      BY <2>1, <2>3 DEF Adds
    <3>2. MessagesAt(r, c) = MessagesAt(q, c)
      BY <3>1 DEF MessagesAt
    <3> QED BY <1>0, <2>1, <2>2, <3>1, <3>2
  <2>4. CASE c = d
    <3>1. /\ r.convs[c].messages = Append(q.convs[c].messages, e)
          /\ r.convs[c].unread = IF c = q.active THEN 0
                                 ELSE IF e = ErrorLine THEN q.convs[c].unread
                                 ELSE q.convs[c].unread + 1
      BY <2>1, <2>4 DEF Adds, Said
    <3>0. /\ MessagesAt(q, c) \in SUBSET (1 .. Len(q.convs[c].messages))
          /\ IsFiniteSet(MessagesAt(q, c)) /\ Cardinality(MessagesAt(q, c)) \in Nat
          /\ Len(q.convs[c].messages) \in Nat /\ q.convs[c].unread \in Nat
          /\ q.convs[c].messages \in Seq(PageMessage)
      <4>1. PageFits(q) /\ c \in DOMAIN q.convs
        BY <1>0, <2>1
      <4> QED BY <4>1, PlacesCounted
    <3>2. PICK M : M = q.convs[c].messages
      OBVIOUS
    <3>3. PICK n \in Nat : n = Len(M)
      BY <3>0, <3>2
    <3>4. M \in Seq(PageMessage)
      BY <3>0, <3>2
    <3>5. PICK I \in SUBSET (1 .. n) : I = MessagesAt(q, c)
      BY <3>0, <3>2, <3>3
    <3>6. IsFiniteSet(I) /\ Cardinality(I) \in Nat
      BY <3>0, <3>5
    <3>7. PICK N : N = r.convs[c].messages
      OBVIOUS
    <3>8. /\ DOMAIN N = 1 .. n + 1 /\ N[n + 1] = e /\ \A k \in 1 .. n : N[k] = M[k]
          /\ DOMAIN M = 1 .. n
      BY <3>1, <3>2, <3>3, <3>4, <3>7
    <3>9. PICK J : J = MessagesAt(r, c)
      OBVIOUS
    <3>10. /\ J = {i \in 1 .. n + 1 : N[i] # ErrorLine}
           /\ I = {i \in 1 .. n : M[i] # ErrorLine}
      BY <3>2, <3>5, <3>7, <3>8, <3>9 DEF MessagesAt
    <3>11. e = ErrorLine => J = I
      BY <3>8, <3>10
    <3>12. e # ErrorLine => J = I \cup {n + 1} /\ n + 1 \notin I
      BY <3>8, <3>10
    <3>13. e # ErrorLine => Cardinality(J) = Cardinality(I) + 1
      BY <3>6, <3>12, FS_AddElement
    <3>14. PICK k \in Nat : k = Cardinality(MessagesAt(p, c))
      BY PlacesCounted
    <3>15. PICK i \in Nat : i = Cardinality(I)
      BY <3>6
    <3>16. PICK u \in Nat : u = p.convs[c].unread
      BY PlacesCounted
    <3>17. CASE c = q.active
      BY <1>0, <2>2, <3>1, <3>17
    <3>18. CASE c # q.active
      <4>1. q.convs[c].unread = u + i - k
        BY <2>1, <3>5, <3>14, <3>15, <3>16, <3>18
      <4>2. r.convs[c].unread = IF e = ErrorLine THEN u + i - k ELSE u + i - k + 1
        BY <3>1, <3>18, <4>1
      <4>3. Cardinality(J) = IF e = ErrorLine THEN i ELSE i + 1
        BY <3>11, <3>13, <3>15
      <4>4. r.convs[c].unread = u + Cardinality(J) - k
        BY <4>2, <4>3
      <4> QED BY <1>0, <2>2, <3>9, <3>14, <3>16, <3>18, <4>4
    <3> QED BY <3>17, <3>18
  <2> QED BY <2>3, <2>4
<1> QED BY <1>1 DEF Counts

\* The action the property is about.
Counted ==
  \A a \in Account : page[a].user = a /\ page'[a].user = a /\ ~RequestState(a) =>
    \A c \in DOMAIN page[a].convs :
      /\ c \in DOMAIN page'[a].convs
      /\ page'[a].convs[c].unread =
           IF c = page'[a].active THEN 0
           ELSE page[a].convs[c].unread
                  + Cardinality(MessagesAt(page'[a], c)) - Cardinality(MessagesAt(page[a], c))

\* A step counts what is unread.
LEMMA CountedStep ==
  ASSUME Core, [Next]_vars
  PROVE  Counted
<1>1. ASSUME NEW a \in Account, page[a].user = a, page'[a].user = a, ~RequestState(a)
      PROVE  Counts(page[a], page'[a])
  <2>0. PageFits(page[a]) /\ sess[a] = "ready" /\ a # NoUser
    BY <1>1, PageOf DEF Core, Base
  <2>1. PICK p : p = page[a]
    OBVIOUS
  <2>2. PICK r : r = page'[a]
    OBVIOUS
  <2>3. Turns(a)
    BY PageMoves
  <2>4. CASE Calm(p, r)
    BY <2>0, <2>1, <2>2, <2>4, CalmCounts
  <2>5. CASE \E q, d, e : Calm(p, q) /\ Adds(q, r, d, e)
    <3>1. PICK q, d, e : Calm(p, q) /\ Adds(q, r, d, e)
      BY <2>5
    <3>2. PageFits(p)
      BY <2>0, <2>1
    <3>3. Counts(p, r)
      BY <3>1, <3>2, AddsCounts
    <3> QED BY <2>1, <2>2, <3>3
  <2>6. ~Snapped(a)
    BY <1>1, <2>0 DEF Snapped
  <2>7. (\E q, d, e : Calm(p, q) /\ Adds(q, r, d, e) /\ Brought(a, d, e))
          => \E q, d, e : Calm(p, q) /\ Adds(q, r, d, e)
    OBVIOUS
  <2> QED BY <1>1, <2>0, <2>1, <2>2, <2>3, <2>4, <2>5, <2>6, <2>7 DEF Turns
<1> QED BY <1>1 DEF Counted, Counts

\* The unread count of a conversation goes up by what comes in while another is
\* open and goes down only by opening it or by a new snapshot: names, presence,
\* announcements and error lines leave it alone (chatState.ts:222-230, 258-265).
THEOREM UnreadIsCounted == Spec => UnreadCounted
<1>1. Core /\ [Next]_vars => [Counted]_vars
  BY CountedStep
<1>2. Spec => [][Counted]_vars
  BY <1>1, CoreAlways, PTL DEF Spec
<1> QED BY <1>2 DEF UnreadCounted, Counted

----------------------------------------------------------------------------
(* Groups.                                                                 *)

\* Lines q show what is stored in conversation c of table h, once and in order.
Holds(q, c, h) ==
  /\ \A m \in DOMAIN h : h[m].conv = c => \E i \in DOMAIN q : q[i] = [m |-> m, from |-> h[m].from]
  /\ \A i \in DOMAIN q : q[i] # ErrorLine => q[i].m \in DOMAIN h /\ h[q[i].m].conv = c
  /\ \A i, j \in DOMAIN q : q[i] # ErrorLine /\ q[j] # ErrorLine /\ i < j => q[i].m < q[j].m

\* Page p of account b has the groups of b among conversations cs, and their messages.
HasGroups(b, p, cs, h) ==
  /\ \A c : c.kind = "group" => (c \in DOMAIN p.convs <=> c \in DOMAIN cs /\ b \in cs[c])
  /\ \A c \in DOMAIN p.convs : c.kind = "group" => Holds(p.convs[c].messages, c, h)

\* The groups of every ready page, and no message of a group that is not there.
GroupsInv ==
  /\ \A m \in DOMAIN history : history[m].conv.kind = "group" => history[m].conv \in DOMAIN convs
  /\ \A b \in Account : sess[b] = "ready" => HasGroups(b, page[b], convs, history)

\* It says more than GroupsExact.
LEMMA GroupsMean ==
  ASSUME TypesInv, GroupsInv
  PROVE  GroupsExact
<1> SUFFICES ASSUME NEW a \in Account, sess[a] = "ready"
             PROVE  LET groups == {c \in DOMAIN page[a].convs : c.kind = "group"} IN
                    /\ groups = {c \in Groups : a \in convs[c]}
                    /\ \A c \in groups :
                         LET q == Lines(a, c)
                             at == MessagesAt(page[a], c)
                         IN
                         /\ \A m \in DOMAIN history : history[m].conv = c
                              => \E i \in at : q[i] = [m |-> m, from |-> history[m].from]
                         /\ \A i \in at : q[i].m \in DOMAIN history /\ history[q[i].m].conv = c
                         /\ \A i, j \in at : i < j => q[i].m < q[j].m
  BY DEF GroupsExact
<1>1. HasGroups(a, page[a], convs, history)
  BY DEF GroupsInv
<1>2. {c \in DOMAIN page[a].convs : c.kind = "group"} = {c \in Groups : a \in convs[c]}
  BY <1>1 DEF HasGroups, Groups
<1>3. ASSUME NEW c \in DOMAIN page[a].convs, c.kind = "group"
      PROVE  /\ \A m \in DOMAIN history : history[m].conv = c
                  => \E i \in MessagesAt(page[a], c) : Lines(a, c)[i] = [m |-> m, from |-> history[m].from]
             /\ \A i \in MessagesAt(page[a], c) :
                  Lines(a, c)[i].m \in DOMAIN history /\ history[Lines(a, c)[i].m].conv = c
             /\ \A i, j \in MessagesAt(page[a], c) : i < j => Lines(a, c)[i].m < Lines(a, c)[j].m
  <2>1. PICK q : q = page[a].convs[c].messages
    OBVIOUS
  <2>2. Holds(q, c, history)
    BY <1>1, <1>3, <2>1 DEF HasGroups
  <2>3. Lines(a, c) = q /\ MessagesAt(page[a], c) = {i \in DOMAIN q : q[i] # ErrorLine}
    BY <2>1 DEF Lines, MessagesAt
  <2>4. ASSUME NEW m \in DOMAIN history, history[m].conv = c
        PROVE  \E i \in MessagesAt(page[a], c) : q[i] = [m |-> m, from |-> history[m].from]
    <3>1. PICK i \in DOMAIN q : q[i] = [m |-> m, from |-> history[m].from]
      BY <2>2, <2>4 DEF Holds
    <3>2. m # 0
      BY DEF TypesInv, Shapes
    <3>3. q[i].m = m /\ ErrorLine.m = 0
      BY <3>1 DEF ErrorLine
    <3>4. q[i] # ErrorLine
      BY <3>2, <3>3
    <3> QED BY <2>3, <3>1, <3>4
  <2> QED BY <2>2, <2>3, <2>4 DEF Holds
<1> QED BY <1>2, <1>3

\* An error line is not a message.
LEMMA HoldsError ==
  ASSUME NEW q \in Seq(PageMessage), NEW c, NEW h, Holds(q, c, h)
  PROVE  Holds(Append(q, ErrorLine), c, h)
<1>1. PICK n \in Nat : n = Len(q) /\ DOMAIN q = 1 .. n
  OBVIOUS
<1>2. PICK r : r = Append(q, ErrorLine)
  OBVIOUS
<1>3. DOMAIN r = 1 .. n + 1 /\ r[n + 1] = ErrorLine /\ \A i \in 1 .. n : r[i] = q[i]
  BY <1>1, <1>2
<1>4. \A i \in DOMAIN r : r[i] # ErrorLine => i \in DOMAIN q
  BY <1>1, <1>3
<1>5. \A i \in DOMAIN q : i \in DOMAIN r /\ r[i] = q[i]
  BY <1>1, <1>3
<1> QED BY <1>2, <1>4, <1>5 DEF Holds

\* A message stored elsewhere changes nothing.
LEMMA HoldsOther ==
  ASSUME NEW q, NEW c, NEW h \in Seq(Row), NEW k, NEW d, NEW a, k = Append(h, [conv |-> d, from |-> a]),
         c # d, Holds(q, c, h)
  PROVE  Holds(q, c, k)
<1>1. PICK n \in Nat : n = Len(h) /\ DOMAIN h = 1 .. n
  OBVIOUS
<1>2. DOMAIN k = 1 .. n + 1 /\ k[n + 1] = [conv |-> d, from |-> a] /\ \A i \in 1 .. n : k[i] = h[i]
  BY <1>1
<1>3. k[n + 1].conv = d
  BY <1>2
<1>4. \A m \in DOMAIN k : k[m].conv = c => m \in DOMAIN h
  BY <1>1, <1>2, <1>3
<1>5. \A m \in DOMAIN h : m \in DOMAIN k /\ k[m] = h[m]
  BY <1>1, <1>2
<1> QED BY <1>4, <1>5 DEF Holds

\* One stored there is shown.
LEMMA HoldsMore ==
  ASSUME NEW q \in Seq(PageMessage), NEW c, NEW h \in Seq(Row), NEW a,
         NEW k, k = Append(h, [conv |-> c, from |-> a]), Holds(q, c, h),
         NEW r, r = Append(q, [m |-> Len(h) + 1, from |-> a])
  PROVE  Holds(r, c, k)
<1>1. PICK n \in Nat : n = Len(h) /\ DOMAIN h = 1 .. n
  OBVIOUS
<1>2. DOMAIN k = 1 .. n + 1 /\ k[n + 1] = [conv |-> c, from |-> a] /\ \A i \in 1 .. n : k[i] = h[i]
  BY <1>1
<1>3. PICK l \in Nat : l = Len(q) /\ DOMAIN q = 1 .. l
  OBVIOUS
<1>4. PICK e : e = [m |-> n + 1, from |-> a]
  OBVIOUS
<1>5. DOMAIN r = 1 .. l + 1 /\ r[l + 1] = e /\ \A i \in 1 .. l : r[i] = q[i]
  BY <1>1, <1>3, <1>4
<1>6. e.m = n + 1 /\ k[n + 1].conv = c /\ k[n + 1].from = a
  BY <1>2, <1>4
<1>7. ASSUME NEW m \in DOMAIN k, k[m].conv = c
      PROVE  \E i \in DOMAIN r : r[i] = [m |-> m, from |-> k[m].from]
  <2>1. CASE m = n + 1
    BY <1>4, <1>5, <1>6, <2>1
  <2>2. CASE m # n + 1
    <3>1. m \in DOMAIN h /\ k[m] = h[m]
      BY <1>1, <1>2, <2>2
    <3>2. PICK i \in DOMAIN q : q[i] = [m |-> m, from |-> h[m].from]
      BY <1>7, <3>1 DEF Holds
    <3> QED BY <1>3, <1>5, <3>1, <3>2
  <2> QED BY <2>1, <2>2
<1>8. ASSUME NEW i \in DOMAIN r, r[i] # ErrorLine
      PROVE  r[i].m \in DOMAIN k /\ k[r[i].m].conv = c /\ (i # l + 1 => r[i].m \in 1 .. n)
  <2>1. CASE i = l + 1
    BY <1>2, <1>5, <1>6, <2>1
  <2>2. CASE i # l + 1
    <3>1. i \in DOMAIN q /\ r[i] = q[i]
      BY <1>3, <1>5, <2>2
    <3>2. q[i].m \in DOMAIN h /\ h[q[i].m].conv = c
      BY <1>8, <3>1 DEF Holds
    <3> QED BY <1>1, <1>2, <2>2, <3>1, <3>2
  <2> QED BY <2>1, <2>2
<1>9. ASSUME NEW i \in DOMAIN r, NEW j \in DOMAIN r, r[i] # ErrorLine, r[j] # ErrorLine, i < j
      PROVE  r[i].m < r[j].m
  <2>1. i \in DOMAIN q /\ r[i] = q[i] /\ i # l + 1
    BY <1>3, <1>5, <1>9
  <2>2. CASE j = l + 1
    <3>1. r[i].m \in 1 .. n
      BY <1>8, <1>9, <2>1
    <3> QED BY <1>1, <1>5, <1>6, <2>2, <3>1
  <2>3. CASE j # l + 1
    <3>1. j \in DOMAIN q /\ r[j] = q[j]
      BY <1>3, <1>5, <2>3
    <3> QED BY <1>9, <2>1, <3>1 DEF Holds
  <2> QED BY <2>2, <2>3
<1> QED BY <1>7, <1>8, <1>9 DEF Holds

\* A snapshot shows it all.
LEMMA HoldsExact ==
  ASSUME TypesInv, NEW q, NEW c, Exact(q, c), DOMAIN q = 1 .. Len(q)
  PROVE  Holds(q, c, history)
  BY DEF Exact, Holds

\* Page q has the groups of page p, and no other message in them.
Quiet(p, q) ==
  /\ \A c : c.kind = "group" => (c \in DOMAIN p.convs <=> c \in DOMAIN q.convs)
  /\ \A c \in DOMAIN p.convs : c.kind = "group" =>
       \/ q.convs[c].messages = p.convs[c].messages
       \/ q.convs[c].messages = Append(p.convs[c].messages, ErrorLine)

\* A page that says the same is quiet about groups.
LEMMA QuietCalm ==
  ASSUME NEW p, NEW q, Calm(p, q), \A c \in DOMAIN q.convs \ DOMAIN p.convs : c.kind # "group"
  PROVE  Quiet(p, q)
  BY DEF Calm, Quiet

\* So is one with a line more, in no group or of an error.
LEMMA QuietAdds ==
  ASSUME NEW p, NEW q, Calm(p, q), \A c \in DOMAIN q.convs \ DOMAIN p.convs : c.kind # "group",
         NEW r, NEW d, NEW e, Adds(q, r, d, e), d.kind # "group" \/ (e = ErrorLine /\ d \in DOMAIN q.convs)
  PROVE  Quiet(p, r)
<1>1. Quiet(p, q) /\ \A c \in DOMAIN p.convs : c \in DOMAIN q.convs /\ q.convs[c].messages = p.convs[c].messages
  BY QuietCalm DEF Calm
<1>2. /\ DOMAIN r.convs = DOMAIN q.convs \cup {d}
      /\ \A c \in DOMAIN q.convs : c # d => r.convs[c] = q.convs[c]
      /\ d \in DOMAIN q.convs => r.convs[d].messages = Append(q.convs[d].messages, e)
  BY DEF Adds, Said
<1>3. ASSUME NEW c, c.kind = "group"
      PROVE  c \in DOMAIN p.convs <=> c \in DOMAIN r.convs
  BY <1>1, <1>2, <1>3 DEF Quiet
<1>4. ASSUME NEW c \in DOMAIN p.convs, c.kind = "group"
      PROVE  \/ r.convs[c].messages = p.convs[c].messages
             \/ r.convs[c].messages = Append(p.convs[c].messages, ErrorLine)
  <2>1. CASE c = d
    BY <1>1, <1>2, <1>4, <2>1
  <2>2. CASE c # d
    BY <1>1, <1>2, <2>2
  <2> QED BY <2>1, <2>2
<1> QED BY <1>3, <1>4 DEF Quiet

\* No group is new, and nothing is stored in one.
NoGroup(cs, ds, h, k) ==
  /\ \A c : c.kind = "group" => /\ c \in DOMAIN ds <=> c \in DOMAIN cs
                                /\ c \in DOMAIN cs => ds[c] = cs[c]
  /\ \/ k = h
     \/ \E d, a : d.kind # "group" /\ k = Append(h, [conv |-> d, from |-> a])

\* A quiet page keeps its groups while the tables keep theirs.
LEMMA QuietHas ==
  ASSUME NEW b, NEW p, NEW q, PageFits(p), Quiet(p, q), NEW cs, NEW ds, NEW h \in Seq(Row), NEW k,
         HasGroups(b, p, cs, h), NoGroup(cs, ds, h, k)
  PROVE  HasGroups(b, q, ds, k)
<1>1. \A c : c.kind = "group" => (c \in DOMAIN q.convs <=> c \in DOMAIN ds /\ b \in ds[c])
  BY DEF HasGroups, Quiet, NoGroup
<1>2. ASSUME NEW c \in DOMAIN q.convs, c.kind = "group"
      PROVE  Holds(q.convs[c].messages, c, k)
  <2>1. c \in DOMAIN p.convs
    BY <1>2 DEF Quiet
  <2>2. PICK l \in Seq(PageMessage) : l = p.convs[c].messages
    BY <2>1, PageFields
  <2>3. Holds(l, c, h)
    BY <1>2, <2>1, <2>2 DEF HasGroups
  <2>4. PICK r : r = q.convs[c].messages
    OBVIOUS
  <2>5. r = l \/ r = Append(l, ErrorLine)
    BY <1>2, <2>1, <2>2, <2>4 DEF Quiet
  <2>6. Holds(r, c, h)
    BY <2>3, <2>5, HoldsError
  <2>7. CASE k = h
    BY <2>4, <2>6, <2>7
  <2>8. CASE \E d, a : d.kind # "group" /\ k = Append(h, [conv |-> d, from |-> a])
    <3>1. PICK d, a : d.kind # "group" /\ k = Append(h, [conv |-> d, from |-> a])
      BY <2>8
    <3>2. c # d
      BY <1>2, <3>1
    <3>3. Holds(r, c, k)
      BY <2>6, <3>1, <3>2, HoldsOther
    <3> QED BY <2>4, <3>3
  <2> QED BY <2>7, <2>8 DEF NoGroup
<1> QED BY <1>1, <1>2 DEF HasGroups

\* A snapshot has the groups of its account.
LEMMA FreshHas ==
  ASSUME TypesInv, NEW b \in Account, NEW q, NEW n, Fresh(q, n, b)
  PROVE  HasGroups(b, q, convs, history)
<1>1. \A c : c.kind = "group" => (c \in DOMAIN q.convs <=> c \in DOMAIN convs /\ b \in convs[c])
  BY DEF Fresh, Public
<1>2. ASSUME NEW c \in DOMAIN q.convs, c.kind = "group"
      PROVE  Holds(q.convs[c].messages, c, history)
  <2>1. PICK l \in Seq(PageMessage) : l = q.convs[c].messages
    BY <1>2, PageFields DEF Fresh
  <2>2. Exact(l, c) /\ DOMAIN l = 1 .. Len(l)
    BY <1>2, <2>1 DEF Fresh
  <2> QED BY <2>1, <2>2, HoldsExact
<1> QED BY <1>1, <1>2 DEF HasGroups

\* A direct conversation is no group.
LEMMA DirectNoGroup ==
  ASSUME NEW x, NEW y, convs' = EnsureDirect(x, y), NEW h
  PROVE  NoGroup(convs, convs', h, h)
<1>1. Direct(x, y).kind = "direct"
  BY DEF Direct
<1>2. convs' = convs \/ convs' = With(convs, Direct(x, y), {x, y})
  BY DEF EnsureDirect
<1> QED BY <1>1, <1>2 DEF NoGroup, With

\* A message stored in a conversation that is no group.
LEMMA StoreNoGroup ==
  ASSUME NEW cs, NEW ds, NoGroup(cs, ds, history, history), NEW c, c.kind # "group", NEW a, Store(c, a)
  PROVE  NoGroup(cs, ds, history, history')
  BY DEF NoGroup, Store

\* A step keeps every page right about groups.
LEMMA GroupsStep ==
  ASSUME Core, GroupsInv, [Next]_vars
  PROVE  GroupsInv'
<1> DEFINE Goal == GroupsInv'
<1>0. TypesInv /\ DOMAIN sess = Account /\ history \in Seq(Row) /\ Base
  BY DEF Core, Base, TypesInv, Shapes
<1>p. ASSUME NEW b \in Account PROVE PageFits(page[b]) /\ page[b].active \in DOMAIN page[b].convs
  <2>1. PageFits(page[b])
    BY <1>0, PageOf
  <2> QED BY <2>1, PageFields
<1>q. ASSUME NoGroup(convs, convs', history, history'),
             \A b \in Account : sess'[b] = "ready" =>
               \/ sess[b] = "ready" /\ (Quiet(page[b], page'[b]) \/ page'[b] = page[b])
               \/ UNCHANGED <<convs, history>> /\ \E n : Fresh(page'[b], n, b)
      PROVE  Goal
  <2>1. ASSUME NEW b \in Account, sess'[b] = "ready"
        PROVE  HasGroups(b, page'[b], convs', history')
    <3>1. CASE sess[b] = "ready" /\ (Quiet(page[b], page'[b]) \/ page'[b] = page[b])
      <4>1. PICK p : p = page[b]
        OBVIOUS
      <4>2. PICK q : q = page'[b]
        OBVIOUS
      <4>3. PageFits(p) /\ HasGroups(b, p, convs, history)
        BY <1>p, <3>1, <4>1 DEF GroupsInv
      <4>4. Quiet(p, p)
        BY DEF Quiet
      <4>5. Quiet(p, q)
        BY <3>1, <4>1, <4>2, <4>4
      <4>6. HasGroups(b, q, convs', history')
        BY <1>0, <1>q, <4>3, <4>5, QuietHas
      <4> QED BY <4>2, <4>6
    <3>2. CASE UNCHANGED <<convs, history>> /\ \E n : Fresh(page'[b], n, b)
      <4>1. PICK n : Fresh(page'[b], n, b)
        BY <3>2
      <4>2. HasGroups(b, page'[b], convs, history)
        BY <1>0, <4>1, FreshHas
      <4> QED BY <3>2, <4>2
    <3> QED BY <1>q, <2>1, <3>1, <3>2
  <2>2. ASSUME NEW m \in DOMAIN history', history'[m].conv.kind = "group"
        PROVE  history'[m].conv \in DOMAIN convs'
    <3>1. CASE history' = history
      BY <1>q, <2>2, <3>1 DEF GroupsInv, NoGroup
    <3>2. CASE \E d, a : d.kind # "group" /\ history' = Append(history, [conv |-> d, from |-> a])
      <4>1. PICK d, a : d.kind # "group" /\ history' = Append(history, [conv |-> d, from |-> a])
        BY <3>2
      <4>2. PICK n \in Nat : n = Len(history) /\ DOMAIN history = 1 .. n
        BY <1>0
      <4>3. DOMAIN history' = 1 .. n + 1 /\ history'[n + 1].conv = d /\ \A i \in 1 .. n : history'[i] = history[i]
        BY <1>0, <4>1, <4>2
      <4>4. m \in DOMAIN history /\ history'[m] = history[m]
        BY <2>2, <4>1, <4>2, <4>3
      <4> QED BY <1>q, <2>2, <4>4 DEF GroupsInv, NoGroup
    <3> QED BY <1>q, <3>1, <3>2 DEF NoGroup
  <2> QED BY <2>1, <2>2 DEF GroupsInv
<1>u. ASSUME UNCHANGED <<convs, history>> PROVE NoGroup(convs, convs', history, history')
  BY <1>u DEF NoGroup
<1>r. ASSUME UNCHANGED <<convs, history>>,
             \A b \in Account : sess'[b] = "ready" =>
               \/ sess[b] = "ready" /\ (Quiet(page[b], page'[b]) \/ page'[b] = page[b])
               \/ \E n : Fresh(page'[b], n, b)
      PROVE  Goal
  BY <1>q, <1>r, <1>u
<1>1. ASSUME UNCHANGED <<sess, convs, history, page>> PROVE Goal
  BY <1>1, <1>r
<1>2. ASSUME NEW a \in Account, Login(a) PROVE Goal
  <2>1. page' = page /\ UNCHANGED <<convs, history>> /\ sess' = [sess EXCEPT ![a] = "joining"]
    BY <1>2 DEF Login, Database
  <2>2. \A b \in Account : sess'[b] = "ready" => sess[b] = "ready"
    BY <1>0, <2>1
  <2> QED BY <1>r, <2>1, <2>2
<1>3. ASSUME NEW a \in Account, WsClosed(a) PROVE Goal
  <2>1. /\ sess' = [sess EXCEPT ![a] = "off"] /\ UNCHANGED <<convs, history>>
        /\ \A b \in Account : b # a =>
             page'[b] = page[b] \/ (Calm(page[b], page'[b]) /\ page'[b].convs = page[b].convs)
    BY <1>0, <1>3, WsClosedPage
  <2>2. \A b \in Account : sess'[b] = "ready" => b # a /\ sess[b] = "ready"
    BY <1>0, <2>1
  <2>3. \A b \in Account : b # a => Quiet(page[b], page'[b]) \/ page'[b] = page[b]
    BY <2>1, QuietCalm
  <2> QED BY <1>r, <2>1, <2>2, <2>3
<1>4. ASSUME NEW a \in Account, SendPublic(a) PROVE Goal
  <2>1. PICK p : Gains(a, p, Public, [m |-> NewMessage, from |-> a])
    BY <1>0, <1>4, SendPublicPage
  <2>2. \A b \in Account : b # a => page'[b] = page[b]
    BY <1>0, <1>4, SendPublicPage
  <2>3. UNCHANGED <<sess, convs>> /\ Store(Public, a)
    BY <1>4 DEF SendPublic
  <2>4. Public.kind # "group"
    BY DEF Public
  <2>5. Quiet(page[a], page'[a])
    <3>1. /\ Calm(page[a], p) /\ DOMAIN p.convs = DOMAIN page[a].convs
          /\ Adds(p, page'[a], Public, [m |-> NewMessage, from |-> a])
      BY <2>1 DEF Gains
    <3> QED BY <2>4, <3>1, QuietAdds
  <2>6. NoGroup(convs, convs', history, history)
    BY <2>3 DEF NoGroup
  <2>7. NoGroup(convs, convs', history, history')
    BY <2>3, <2>4, <2>6, StoreNoGroup
  <2> QED BY <1>q, <2>2, <2>3, <2>5, <2>7
<1>5. ASSUME NEW a \in Account, Open(a) PROVE Goal
  <2>1. UNCHANGED <<sess, convs, history>>
    BY <1>5 DEF Open, Database
  <2>2. /\ \A b \in Account : b # a => page'[b] = page[b]
        /\ Calm(page[a], page'[a])
        /\ \A c \in DOMAIN page'[a].convs \ DOMAIN page[a].convs : c.kind = "direct"
    BY <1>0, <1>5, OpenPage
  <2>3. Quiet(page[a], page'[a])
    BY <2>2, QuietCalm
  <2> QED BY <1>r, <2>1, <2>2, <2>3
<1>6. ASSUME NEW a \in Account, RequestState(a) PROVE Goal
  <2>1. /\ UNCHANGED <<sess, convs, history>>
        /\ \A b \in Account : b # a => page'[b] = page[b]
        /\ Fresh(page'[a], nick, a)
    BY <1>0, <1>6, RequestPage
  <2> QED BY <1>r, <2>1
<1>7. ASSUME NEW a \in Account, Logout(a) PROVE Goal
  <2>1. /\ sess' = [sess EXCEPT ![a] = "closing"]
        /\ \A b \in Account : b # a => page'[b] = page[b]
    BY <1>0, <1>7, LogoutPage
  <2>2. UNCHANGED <<convs, history>>
    BY <1>7 DEF Logout, Database
  <2>3. \A b \in Account : sess'[b] = "ready" => b # a /\ sess[b] = "ready"
    BY <1>0, <2>1
  <2> QED BY <1>r, <2>1, <2>2, <2>3
<1>8. ASSUME NEW a \in Account, OnWelcome(a) PROVE Goal
  <2>1. /\ sess' = [sess EXCEPT ![a] = "welcomed"] /\ page' = page /\ UNCHANGED <<convs, history>>
    BY <1>8, WelcomeOnce
  <2>2. \A b \in Account : sess'[b] = "ready" => sess[b] = "ready"
    BY <1>0, <2>1
  <2> QED BY <1>r, <2>1, <2>2
<1>9. ASSUME NEW a \in Account, OnNick(a) PROVE Goal
  <2>1. UNCHANGED <<convs, history>>
    BY <1>9 DEF OnNick
  <2>2. CASE UNCHANGED <<sess, nick, users, page, upto>>
    BY <1>1, <2>1, <2>2
  <2>3. CASE ~UNCHANGED <<sess, nick, users, page, upto>>
    <3>1. PICK n \in Name :
            /\ \A b \in Account : b # a =>
                 IF Welcomed(b) /\ Hears(b)
                   THEN Users(page[b], page'[b], With(page[b].users, a, n))
                 ELSE page'[b] = page[b]
            /\ \/ /\ sess' = [sess EXCEPT ![a] = "ready"]
                  /\ Fresh(page'[a], [nick EXCEPT ![a] = n], a)
               \/ /\ UNCHANGED sess
                  /\ IF Hears(a) THEN Users(page[a], page'[a], With(page[a].users, a, n))
                     ELSE page'[a] = page[a]
      BY <1>0, <1>9, <2>3, NickPage
    <3>2. \A b \in Account : \A us : Users(page[b], page'[b], us) => Quiet(page[b], page'[b])
      BY QuietCalm DEF Users
    <3>3. \A b \in Account : b # a => sess'[b] = sess[b] /\ (Quiet(page[b], page'[b]) \/ page'[b] = page[b])
      BY <1>0, <3>1, <3>2
    <3>4. \/ \E k : Fresh(page'[a], k, a)
          \/ sess'[a] = sess[a] /\ (Quiet(page[a], page'[a]) \/ page'[a] = page[a])
      BY <3>1, <3>2
    <3> QED BY <1>r, <2>1, <3>3, <3>4
  <2> QED BY <2>2, <2>3
<1>10. ASSUME NEW a \in Account, OnMsg(a) \/ OnPriv(a) \/ OnPrivSent(a) PROVE Goal
  <2>1. /\ UNCHANGED <<sess, history>>
        /\ \A b \in Account : b # a => page'[b] = page[b]
        /\ \E c \in ConvId, from \in Account \cup {NoUser} :
             /\ IF Hears(a) THEN Adds(page[a], page'[a], c, [m |-> Head(inbox[a]).m, from |-> from])
                ELSE page'[a] = page[a]
             /\ OnMsg(a) => c = Public
             /\ OnPriv(a) \/ OnPrivSent(a) => c.kind = "direct"
    BY <1>0, <1>10, MessagePage
  <2>2. PICK c, e : /\ Adds(page[a], page'[a], c, e) \/ page'[a] = page[a]
                    /\ c.kind # "group"
    BY <1>10, <2>1 DEF Public
  <2>3. Quiet(page[a], page'[a]) \/ page'[a] = page[a]
    <3>1. PageFits(page[a])
      BY <1>p
    <3>2. Calm(page[a], page[a])
      BY <3>1, CalmSame
    <3> QED BY <2>2, <3>2, QuietAdds
  <2>4. NoGroup(convs, convs', history, history)
    <3>1. CASE OnMsg(a)
      <4>1. convs' = convs
        BY <3>1 DEF OnMsg, Database
      <4> QED BY <4>1 DEF NoGroup
    <3>2. CASE OnPriv(a) \/ OnPrivSent(a)
      <4>1. PICK x : convs' = EnsureDirect(a, x)
        BY <3>2 DEF OnPriv, OnPrivSent
      <4> QED BY <4>1, DirectNoGroup
    <3> QED BY <1>10, <3>1, <3>2
  <2> QED BY <1>q, <2>1, <2>3, <2>4
<1>11. ASSUME NEW a \in Account, OnErr(a) PROVE Goal
  <2>1. /\ UNCHANGED <<convs, history>>
        /\ \A b \in Account : b # a => page'[b] = page[b]
        /\ \/ page'[a] = page[a] /\ sess[a] # "ready" /\ sess' = [sess EXCEPT ![a] = "closing"]
           \/ UNCHANGED sess /\ page'[a] = page[a]
           \/ UNCHANGED sess /\ Adds(page[a], page'[a], page[a].active, ErrorLine)
    BY <1>0, <1>11, ErrPage
  <2>2. \A b \in Account : sess'[b] = "ready" => sess[b] = "ready"
    BY <1>0, <2>1
  <2>3. Quiet(page[a], page'[a]) \/ page'[a] = page[a]
    <3>1. PageFits(page[a]) /\ page[a].active \in DOMAIN page[a].convs
      BY <1>p
    <3>2. Calm(page[a], page[a])
      BY <3>1, CalmSame
    <3> QED BY <2>1, <3>1, <3>2, QuietAdds
  <2> QED BY <1>r, <2>1, <2>2, <2>3
<1>12. ASSUME NEW a \in Account, NEW b \in Account, SendDirect(a, b) PROVE Goal
  <2>0. Direct(a, b).kind = "direct"
    BY DEF Direct
  <2>1. PICK c : c = Direct(a, b) /\ c.kind = "direct"
    BY <2>0
  <2>2. /\ \A u \in Account : u # a /\ (u # b \/ ~Welcomed(b)) => page'[u] = page[u]
        /\ Welcomed(b) =>
             /\ Calm(page[a], page'[a])
             /\ DOMAIN page'[a].convs = DOMAIN page[a].convs \cup {c}
             /\ Calm(page[b], page'[b])
             /\ DOMAIN page'[b].convs \subseteq DOMAIN page[b].convs \cup {c}
        /\ ~Welcomed(b) =>
             \E p : /\ Calm(page[a], p)
                    /\ DOMAIN p.convs = DOMAIN page[a].convs \cup {c}
                    /\ (page'[a] = p \/ Adds(p, page'[a], c, ErrorLine))
    BY <1>0, <1>12, <2>1, SendDirectPage
  <2>3. UNCHANGED sess
    BY <1>12 DEF SendDirect
  <2>4. CASE Welcomed(b)
    <3>1. convs' = EnsureDirect(a, b) /\ Store(c, a)
      BY <1>12, <2>1, <2>4 DEF SendDirect
    <3>2. NoGroup(convs, convs', history, history)
      BY <3>1, DirectNoGroup
    <3>3. NoGroup(convs, convs', history, history')
      BY <2>1, <3>1, <3>2, StoreNoGroup
    <3>4. Quiet(page[a], page'[a]) /\ Quiet(page[b], page'[b])
      BY <2>1, <2>2, <2>4, QuietCalm
    <3> QED BY <1>q, <2>2, <2>3, <3>3, <3>4
  <2>5. CASE ~Welcomed(b)
    <3>1. UNCHANGED <<convs, history>>
      BY <1>12, <2>5 DEF SendDirect
    <3>2. PICK p : /\ Calm(page[a], p)
                   /\ DOMAIN p.convs = DOMAIN page[a].convs \cup {c}
                   /\ (page'[a] = p \/ Adds(p, page'[a], c, ErrorLine))
      BY <2>2, <2>5
    <3>3. Quiet(page[a], page'[a])
      <4>1. Calm(page[a], p) /\ \A d \in DOMAIN p.convs \ DOMAIN page[a].convs : d.kind # "group"
        BY <2>1, <3>2
      <4>2. CASE page'[a] = p
        BY <4>1, <4>2, QuietCalm
      <4>3. CASE Adds(p, page'[a], c, ErrorLine)
        BY <2>1, <4>1, <4>3, QuietAdds
      <4> QED BY <3>2, <4>2, <4>3
    <3> QED BY <1>r, <2>2, <2>3, <2>5, <3>1, <3>3
  <2> QED BY <2>4, <2>5
<1>13. ASSUME NEW a \in Account, NEW g \in Groups, SendGroup(a, g) PROVE Goal
  <2>1. UNCHANGED <<sess, convs>> /\ Store(g, a)
    BY <1>13 DEF SendGroup
  <2>2. \A b \in Account :
             IF b \in GroupTargets(g)
               THEN \E p : Gains(b, p, g, [m |-> NewMessage, from |-> a])
             ELSE page'[b] = page[b]
    BY <1>0, <1>13, SendGroupPage
  <2>3. PICK k : k = Append(history, [conv |-> g, from |-> a])
    OBVIOUS
  <2>4. history' = k /\ g \in DOMAIN convs /\ g.kind = "group"
    BY <2>1, <2>3 DEF Store, Groups
  <2>5. ASSUME NEW b \in Account, sess[b] = "ready"
        PROVE  HasGroups(b, page'[b], convs, k)
    <3>1. PICK p0 : p0 = page[b]
      OBVIOUS
    <3>2. PICK r : r = page'[b]
      OBVIOUS
    <3>3. PageFits(p0) /\ HasGroups(b, p0, convs, history)
      BY <1>p, <2>5, <3>1 DEF GroupsInv
    <3>4. ASSUME NEW c \in DOMAIN p0.convs, c.kind = "group", c # g
          PROVE  Holds(p0.convs[c].messages, c, k)
      <4>1. PICK q : q = p0.convs[c].messages
        OBVIOUS
      <4>2. Holds(q, c, history)
        BY <3>3, <3>4, <4>1 DEF HasGroups
      <4>3. Holds(q, c, k)
        BY <1>0, <2>3, <3>4, <4>2, HoldsOther
      <4> QED BY <4>1, <4>3
    <3>5. CASE b \in GroupTargets(g)
      <4>1. PICK p : Gains(b, p, g, [m |-> NewMessage, from |-> a])
        BY <2>2, <3>5
      <4>2. /\ Calm(p0, p) /\ DOMAIN p.convs = DOMAIN p0.convs
            /\ Adds(p, r, g, [m |-> NewMessage, from |-> a])
        BY <3>1, <3>2, <4>1 DEF Gains
      <4>3. b \in convs[g] /\ g \in DOMAIN p0.convs
        BY <2>4, <3>3, <3>5 DEF GroupTargets, HasGroups
      <4>4. /\ DOMAIN r.convs = DOMAIN p0.convs
            /\ \A c \in DOMAIN p0.convs : p.convs[c].messages = p0.convs[c].messages
            /\ \A c \in DOMAIN p0.convs : c # g => r.convs[c].messages = p0.convs[c].messages
        BY <4>2, <4>3 DEF Calm, Adds
      <4>5. r.convs[g].messages = Append(p0.convs[g].messages, [m |-> Len(history) + 1, from |-> a])
        BY <4>2, <4>3, <4>4 DEF Adds, Said, NewMessage
      <4>6. Holds(r.convs[g].messages, g, k)
        <5>1. PICK q \in Seq(PageMessage) : q = p0.convs[g].messages
          BY <3>3, <4>3, PageFields
        <5>2. Holds(q, g, history)
          BY <2>4, <3>3, <4>3, <5>1 DEF HasGroups
        <5>3. PICK s : s = Append(q, [m |-> Len(history) + 1, from |-> a])
          OBVIOUS
        <5>4. Holds(s, g, k)
          BY <1>0, <2>3, <5>2, <5>3, HoldsMore
        <5> QED BY <4>5, <5>1, <5>3, <5>4
      <4>7. HasGroups(b, r, convs, k)
        BY <3>3, <3>4, <4>4, <4>6 DEF HasGroups
      <4> QED BY <3>2, <4>7
    <3>6. CASE b \notin GroupTargets(g)
      <4>1. r = p0
        BY <2>2, <3>1, <3>2, <3>6
      <4>2. b \notin convs[g]
        BY <2>5, <3>6 DEF GroupTargets, Hears
      <4>3. g \notin DOMAIN p0.convs
        BY <2>4, <3>3, <4>2 DEF HasGroups
      <4>4. HasGroups(b, p0, convs, k)
        BY <3>3, <3>4, <4>3 DEF HasGroups
      <4> QED BY <3>2, <4>1, <4>4
    <3> QED BY <3>5, <3>6
  <2>6. ASSUME NEW m \in DOMAIN k, k[m].conv.kind = "group"
        PROVE  k[m].conv \in DOMAIN convs
    <3>1. PICK n \in Nat : n = Len(history) /\ DOMAIN history = 1 .. n
      BY <1>0
    <3>2. DOMAIN k = 1 .. n + 1 /\ k[n + 1].conv = g /\ \A i \in 1 .. n : k[i] = history[i]
      BY <1>0, <2>3, <3>1
    <3> QED BY <2>4, <2>6, <3>1, <3>2 DEF GroupsInv
  <2> QED BY <2>1, <2>4, <2>5, <2>6 DEF GroupsInv
<1>14. ASSUME NEW a \in Account, NEW others \in SUBSET Account, CreateGroup(a, others) PROVE Goal
  <2>1. UNCHANGED <<sess, history>>
    BY <1>14 DEF CreateGroup
  <2>2. PICK g : g = Group(Cardinality(Groups) + 1)
    OBVIOUS
  <2>3. PICK ms : ms = {a} \cup others
    OBVIOUS
  <2>4. /\ (\A b \in ms : Welcomed(b)) =>
             /\ convs' = With(convs, g, ms)
             /\ \A b \in Account :
                  /\ Calm(page[b], page'[b])
                  /\ DOMAIN page'[b].convs =
                       IF b \in ms /\ sess[b] = "ready" THEN DOMAIN page[b].convs \cup {g}
                       ELSE DOMAIN page[b].convs
        /\ ~(\A b \in ms : Welcomed(b)) =>
             /\ UNCHANGED convs
             /\ \A b \in Account : b # a => page'[b] = page[b]
             /\ \E p : /\ Calm(page[a], p)
                       /\ DOMAIN p.convs = DOMAIN page[a].convs
                       /\ (page'[a] = p \/ Adds(p, page'[a], p.active, ErrorLine))
    <3>1. /\ (\A b \in {a} \cup others : Welcomed(b)) =>
               /\ convs' = With(convs, Group(Cardinality(Groups) + 1), {a} \cup others)
               /\ \A b \in Account :
                    /\ Calm(page[b], page'[b])
                    /\ DOMAIN page'[b].convs =
                         IF b \in {a} \cup others /\ sess[b] = "ready"
                           THEN DOMAIN page[b].convs \cup {Group(Cardinality(Groups) + 1)}
                         ELSE DOMAIN page[b].convs
          /\ ~(\A b \in {a} \cup others : Welcomed(b)) =>
               /\ UNCHANGED convs
               /\ \A b \in Account : b # a => page'[b] = page[b]
               /\ \E p : /\ Calm(page[a], p)
                         /\ DOMAIN p.convs = DOMAIN page[a].convs
                         /\ (page'[a] = p \/ Adds(p, page'[a], p.active, ErrorLine))
      <4>1. Base /\ CreateGroup(a, others)
        BY <1>0, <1>14
      <4>2. /\ DOMAIN page' = Account
            /\ (\A b \in {a} \cup others : Welcomed(b)) =>
                 /\ convs' = With(convs, Group(Cardinality(Groups) + 1), {a} \cup others)
                 /\ \A b \in Account :
                      /\ Calm(page[b], page'[b]) /\ page'[b].users = page[b].users
                      /\ DOMAIN page'[b].convs =
                           IF b \in {a} \cup others /\ sess[b] = "ready"
                             THEN DOMAIN page[b].convs \cup {Group(Cardinality(Groups) + 1)}
                           ELSE DOMAIN page[b].convs
            /\ ~(\A b \in {a} \cup others : Welcomed(b)) =>
                 /\ UNCHANGED convs
                 /\ \A b \in Account : b # a => page'[b] = page[b]
                 /\ \E p : /\ Calm(page[a], p) /\ p.users = page[a].users
                           /\ DOMAIN p.convs = DOMAIN page[a].convs
                           /\ (page'[a] = p \/ Adds(p, page'[a], p.active, ErrorLine))
        BY <4>1, CreateGroupPage
      <4> QED BY <4>2
    <3> QED BY <2>2, <2>3, <3>1
  <2>5. CASE \A b \in ms : Welcomed(b)
    <3>1. g \notin DOMAIN convs /\ g.kind = "group"
      <4>1. Cardinality(Groups) < MaxGroups /\ GroupsNumbered
        BY <1>0, <1>14 DEF CreateGroup, Base
      <4> QED BY <2>2, <4>1, NextGroup DEF Group
    <3>2. /\ DOMAIN convs' = DOMAIN convs \cup {g} /\ convs'[g] = ms
          /\ \A c \in DOMAIN convs : convs'[c] = convs[c]
      BY <2>4, <2>5, <3>1 DEF With
    <3>3. ASSUME NEW b \in Account, sess[b] = "ready"
          PROVE  HasGroups(b, page'[b], convs', history)
      <4>1. HasGroups(b, page[b], convs, history) /\ g \notin DOMAIN page[b].convs
        BY <3>1, <3>3 DEF GroupsInv, HasGroups
      <4>2. /\ DOMAIN page'[b].convs = IF b \in ms THEN DOMAIN page[b].convs \cup {g}
                                       ELSE DOMAIN page[b].convs
            /\ \A c \in DOMAIN page[b].convs : page'[b].convs[c].messages = page[b].convs[c].messages
            /\ g \in DOMAIN page'[b].convs => page'[b].convs[g].messages = <<>>
        <5>1. Calm(page[b], page'[b])
          BY <2>4, <2>5, <3>3
        <5>2. DOMAIN page'[b].convs = IF b \in ms THEN DOMAIN page[b].convs \cup {g}
                                      ELSE DOMAIN page[b].convs
          BY <2>4, <2>5, <3>3
        <5> QED BY <4>1, <5>1, <5>2 DEF Calm
      <4>3. Holds(<<>>, g, history)
        <5>1. \A m \in DOMAIN history : history[m].conv # g
          BY <3>1 DEF GroupsInv
        <5>2. DOMAIN <<>> = {}
          OBVIOUS
        <5> QED BY <5>1, <5>2 DEF Holds
      <4>4. \A c : c.kind = "group" => (c \in DOMAIN page'[b].convs <=> c \in DOMAIN convs' /\ b \in convs'[c])
        BY <3>1, <3>2, <4>1, <4>2 DEF HasGroups
      <4>5. \A c \in DOMAIN page'[b].convs : c.kind = "group" => Holds(page'[b].convs[c].messages, c, history)
        BY <4>1, <4>2, <4>3 DEF HasGroups
      <4> QED BY <4>4, <4>5 DEF HasGroups
    <3> QED BY <2>1, <3>2, <3>3 DEF GroupsInv
  <2>6. CASE ~(\A b \in ms : Welcomed(b))
    <3>1. PICK p : /\ Calm(page[a], p)
                   /\ DOMAIN p.convs = DOMAIN page[a].convs
                   /\ (page'[a] = p \/ Adds(p, page'[a], p.active, ErrorLine))
      BY <2>4, <2>6
    <3>2. PageFits(p) /\ p.active \in DOMAIN p.convs
      BY <3>1 DEF Calm, PageFits
    <3>3. Quiet(page[a], page'[a])
      <4>1. CASE page'[a] = p
        BY <3>1, <4>1, QuietCalm
      <4>2. CASE Adds(p, page'[a], p.active, ErrorLine)
        BY <3>1, <3>2, <4>2, QuietAdds
      <4> QED BY <3>1, <4>1, <4>2
    <3> QED BY <1>r, <2>1, <2>4, <2>6, <3>3
  <2> QED BY <2>5, <2>6
<1>15. ASSUME Restart PROVE Goal
  <2>1. \A b \in Account : sess'[b] # "ready"
    BY <1>15, RestartPage
  <2>2. history' = history
    BY <1>15 DEF Restart
  <2>3. DOMAIN convs \subseteq DOMAIN convs'
    BY <1>0, ConvsMoves DEF With
  <2> QED BY <2>1, <2>2, <2>3 DEF GroupsInv
<1>16. ASSUME NEW a \in Account, Handle(a) \/ CopyTargets(a) \/ Drop(a)
       PROVE UNCHANGED <<sess, convs, history, page>>
  BY <1>16 DEF Handle, CopyTargets, Drop, Database
<1>17. ASSUME NEW a \in Account,
              \/ \E b \in Account : Relay(a, b) \/ CrashInDirect(a, b)
              \/ \E others \in SUBSET Account : CrashInGroup(a, others)
              \/ \E n \in Typed : SetNickname(a, n)
       PROVE  UNCHANGED <<sess, convs, history, page>> \/ Restart
  BY <1>17 DEF Relay, CrashInDirect, CrashInGroup, SetNickname, Database
<1>18. ASSUME Crash \/ UNCHANGED vars PROVE UNCHANGED <<sess, convs, history, page>> \/ Restart
  BY <1>18 DEF Crash, vars
<1> HIDE DEF Goal
<1>19. ASSUME NEW a \in Account,
              \/ \E b \in Account : SendDirect(a, b) \/ Relay(a, b) \/ CrashInDirect(a, b)
              \/ \E others \in SUBSET Account : CreateGroup(a, others) \/ CrashInGroup(a, others)
              \/ \E n \in Typed : SetNickname(a, n)
              \/ \E c \in Groups : SendGroup(a, c)
       PROVE  Goal
  BY <1>1, <1>12, <1>13, <1>14, <1>15, <1>17, <1>19
<1>20. Goal
  BY <1>1, <1>2, <1>3, <1>4, <1>5, <1>6, <1>7, <1>8, <1>9, <1>10, <1>11, <1>15, <1>16, <1>18, <1>19, Steps
<1> QED BY <1>20 DEF Goal

\* Nobody has a group at start.
LEMMA GroupsAtStart == Init => GroupsInv
<1> SUFFICES ASSUME Init PROVE GroupsInv
  OBVIOUS
<1>1. convs = [c \in {} |-> {}] /\ history = <<>> /\ DOMAIN convs = {} /\ DOMAIN history = {}
  BY DEF Init
<1>2. ASSUME NEW b \in Account, sess[b] = "ready"
      PROVE  HasGroups(b, page[b], convs, history)
  <2>1. b \in Online
    BY <1>2 DEF Init
  <2>2. page[b] = ready(InitialPage, b, [u \in Online |-> Home[u]], [c \in {} |-> {}], <<>>)
    BY <2>1 DEF Init
  <2>3. DOMAIN page[b].convs = {Public} \cup DOMAIN [c \in {} |-> {}]
    BY <2>2 DEF ready, InitialPage
  <2>4. DOMAIN page[b].convs = {Public} /\ Public.kind # "group"
    BY <2>3 DEF Public
  <2> QED BY <1>1, <2>4 DEF HasGroups
<1> QED BY <1>1, <1>2 DEF GroupsInv

\* "Only members receive messages, non-members never do" (tests/e2e.test.ts:221):
\* a ready page has the groups of its account and no other, and each holds what
\* is stored in it, once and in order, live or from a snapshot
\* (gatewayServer.ts:243-263, 330-345, 484-499).
THEOREM GroupsAreExact == Spec => []GroupsExact
<1>1. Core /\ GroupsInv /\ [Next]_vars => GroupsInv'
  BY GroupsStep
<1>2. Core /\ GroupsInv => GroupsExact
  BY GroupsMean DEF Core, Base
<1> QED BY <1>1, <1>2, GroupsAtStart, CoreAlways, PTL DEF Spec

----------------------------------------------------------------------------
(* Where a message is on its way, and that it is there once.               *)

\* An event, and a job, that shows message m; and for whom a job does.
Brings(e, m) == e.type \in {"msg", "priv", "privSent"} /\ e.m = m
Carries(j, m, a) == Brings(j.ev, m) /\ Reaches(j, a)

\* The message is in a line of its sender, in a job of the sender's handler for
\* account a, among the events of a.
Written(s, m) == \E k \in 1 .. Len(outbox[s]) : outbox[s][k].m = m
Going(s, m, a) == \E k \in 1 .. Len(relay[s]) : Carries(relay[s][k], m, a)
Arrived(a, m) == \E k \in 1 .. Len(inbox[a]) : Brings(inbox[a][k], m)

\* What is under way was stored.
LEMMA UnderWayStored ==
  ASSUME TypesInv, NEW s \in Account, NEW a \in Account, NEW m
  PROVE  /\ \A k \in 1 .. Len(outbox[s]) : outbox[s][k].m = m /\ m # 0 =>
              m \in DOMAIN history /\ outbox[s][k].cmd \in {"say", "msg"}
         /\ Written(s, m) /\ m # 0 => m \in DOMAIN history
         /\ \A k \in 1 .. Len(relay[s]) : Brings(relay[s][k].ev, m) => m \in DOMAIN history
         /\ Going(s, m, a) => m \in DOMAIN history
         /\ Arrived(a, m) => m \in DOMAIN history
<1>1. ASSUME NEW k \in 1 .. Len(outbox[s]), outbox[s][k].m = m, m # 0
      PROVE  m \in DOMAIN history /\ outbox[s][k].cmd \in {"say", "msg"}
  <2>1. outbox[s] \in Seq(LineRecord) /\ LineFits(outbox[s][k], DOMAIN history)
    BY <1>1 DEF TypesInv, Shapes, QueuesFit
  <2>2. outbox[s][k] \in LineRecord
    BY <1>1, <2>1
  <2>3. outbox[s][k].cmd \in {"nick", "say", "msg"}
    BY <2>2 DEF LineRecord
  <2> QED BY <1>1, <2>1, <2>3 DEF LineFits
<1>2. ASSUME NEW k \in 1 .. Len(relay[s]), Brings(relay[s][k].ev, m) PROVE m \in DOMAIN history
  <2>1. JobFits(relay[s][k], DOMAIN history)
    BY <1>2 DEF TypesInv, QueuesFit
  <2> QED BY <1>2, <2>1 DEF JobFits, EventFits, Brings
<1>3. ASSUME NEW k \in 1 .. Len(inbox[a]), Brings(inbox[a][k], m) PROVE m \in DOMAIN history
  <2>1. EventFits(inbox[a][k], DOMAIN history)
    BY <1>3 DEF TypesInv, QueuesFit
  <2> QED BY <1>3, <2>1 DEF EventFits, Brings
<1> QED BY <1>1, <1>2, <1>3 DEF Written, Going, Arrived, Carries

\* Line l is the one a step adds to what s has written.
NewLine(s, l) ==
  /\ outbox'[s] = Append(outbox[s], l)
  /\ \/ l.m = 0 /\ l.cmd = "nick"
     \/ l.m = NewMessage /\ l.cmd = "say" /\ Stores(s, Public)
     \/ l.m = NewMessage /\ l.cmd = "msg" /\ \E b \in Account \ {s} : Stores(s, Direct(s, b))

\* OutboxMoves, and what is in the line.
LEMMA OutboxLines ==
  ASSUME TypesInv, [Next]_vars, NEW s \in Account
  PROVE  \/ outbox'[s] = outbox[s]
         \/ \E l \in LineRecord : NewLine(s, l)
         \/ Handle(s) /\ outbox[s] # <<>> /\ outbox'[s] = Tail(outbox[s])
         \/ Drop(s) /\ outbox'[s] = <<>>
<1>1. ASSUME NEW l \in LineRecord, outbox'[s] = Append(outbox[s], l), Posts(s, l)
      PROVE  NewLine(s, l)
  <2>1. CASE SendPublic(s) /\ l = Line("say", NoName, NewMessage)
    <3>1. l.m = NewMessage /\ l.cmd = "say"
      BY <2>1 DEF Line
    <3>2. Stores(s, Public)
      BY <2>1 DEF SendPublic, Store, Stores
    <3> QED BY <1>1, <3>1, <3>2 DEF NewLine
  <2>2. ASSUME NEW b \in Account, SendDirect(s, b), Welcomed(b), l = Line("msg", nick[b], NewMessage)
        PROVE  NewLine(s, l)
    <3>1. l.m = NewMessage /\ l.cmd = "msg"
      BY <2>2 DEF Line
    <3>2. Stores(s, Direct(s, b)) /\ b # s
      BY <2>2 DEF SendDirect, Store, Stores
    <3> QED BY <1>1, <3>1, <3>2 DEF NewLine
  <2>3. ASSUME NEW n, l = Line("nick", n, 0)
        PROVE  NewLine(s, l)
    <3>1. l.m = 0 /\ l.cmd = "nick"
      BY <2>3 DEF Line
    <3> QED BY <1>1, <3>1 DEF NewLine
  <2> QED BY <1>1, <2>1, <2>2, <2>3 DEF Posts
<1> QED BY <1>1, OutboxMoves

\* The lines of s are those of before, perhaps without the first, and a new one.
LEMMA LinesBack ==
  ASSUME TypesInv, [Next]_vars, NEW s \in Account
  PROVE  \E d \in {0, 1} :
           /\ d = 1 => Handle(s)
           /\ \A k \in 1 .. Len(outbox'[s]) :
                \/ k + d \in 1 .. Len(outbox[s]) /\ outbox'[s][k] = outbox[s][k + d]
                \/ d = 0 /\ k = Len(outbox[s]) + 1 /\ NewLine(s, outbox'[s][k])
<1>1. PICK q \in Seq(LineRecord) : q = outbox[s]
  BY DEF TypesInv, Shapes
<1>2. PICK r : r = outbox'[s]
  OBVIOUS
<1>3. ASSUME NEW d \in {0, 1}, d = 1 => Handle(s),
             \A k \in 1 .. Len(r) : \/ k + d \in 1 .. Len(q) /\ r[k] = q[k + d]
                                    \/ d = 0 /\ k = Len(q) + 1 /\ NewLine(s, r[k])
      PROVE  \E e \in {0, 1} :
               /\ e = 1 => Handle(s)
               /\ \A k \in 1 .. Len(outbox'[s]) :
                    \/ k + e \in 1 .. Len(outbox[s]) /\ outbox'[s][k] = outbox[s][k + e]
                    \/ e = 0 /\ k = Len(outbox[s]) + 1 /\ NewLine(s, outbox'[s][k])
  BY <1>1, <1>2, <1>3
<1>4. CASE r = q
  <2>1. \A k \in 1 .. Len(r) : k + 0 \in 1 .. Len(q) /\ r[k] = q[k + 0]
    BY <1>4
  <2> QED BY <1>3, <2>1
<1>5. ASSUME NEW l \in LineRecord, NewLine(s, l) PROVE \E d \in {0, 1} :
           /\ d = 1 => Handle(s)
           /\ \A k \in 1 .. Len(outbox'[s]) :
                \/ k + d \in 1 .. Len(outbox[s]) /\ outbox'[s][k] = outbox[s][k + d]
                \/ d = 0 /\ k = Len(outbox[s]) + 1 /\ NewLine(s, outbox'[s][k])
  <2>1. r = Append(q, l)
    BY <1>1, <1>2, <1>5 DEF NewLine
  <2>2. /\ Len(q) \in Nat /\ r[Len(q) + 1] = l /\ \A k \in 1 .. Len(q) : r[k] = q[k]
        /\ \A k \in 1 .. Len(r) : k \in 1 .. Len(q) \/ k = Len(q) + 1
    BY <2>1, QueueAppend
  <2>3. \A k \in 1 .. Len(r) : \/ k + 0 \in 1 .. Len(q) /\ r[k] = q[k + 0]
                               \/ 0 = 0 /\ k = Len(q) + 1 /\ NewLine(s, r[k])
    BY <1>5, <2>2
  <2> QED BY <1>3, <2>3
<1>6. CASE Handle(s) /\ q # <<>> /\ r = Tail(q)
  <2>1. \A k \in 1 .. Len(Tail(q)) : Tail(q)[k] = q[k + 1] /\ k + 1 \in 1 .. Len(q)
    BY <1>6, QueueTail
  <2>2. \A k \in 1 .. Len(r) : k + 1 \in 1 .. Len(q) /\ r[k] = q[k + 1]
    BY <1>6, <2>1
  <2> QED BY <1>3, <1>6, <2>2
<1>7. CASE r = <<>>
  <2>1. \A k \in 1 .. Len(r) : k + 0 \in 1 .. Len(q) /\ r[k] = q[k + 0]
    BY <1>7
  <2> QED BY <1>3, <2>1
<1> QED BY <1>1, <1>2, <1>4, <1>5, <1>6, <1>7, OutboxLines

\* The parts of an event and of a job.
LEMMA Parts ==
  ASSUME NEW t, NEW w, NEW n, NEW m, NEW e, NEW to
  PROVE  /\ Event(t, w, n, m).type = t /\ Event(t, w, n, m).m = m
         /\ Bcast(e, to).op = "bcast" /\ Bcast(e, to).ev = e /\ Bcast(e, to).to = to
         /\ Send(e, to).op = "send" /\ Send(e, to).ev = e /\ Send(e, to).to = to
  BY DEF Event, Bcast, Send

\* What a handled line makes carries the line's message, once to each account,
\* and what is said does not go back.
LEMMA HandledJobs ==
  ASSUME TypesInv, NEW a \in Account, Handle(a)
  PROVE  /\ 1 \in 1 .. Len(outbox[a]) /\ outbox'[a] = Tail(outbox[a])
         /\ \A k \in 1 .. Len(relay'[a]) : \A m : Brings(relay'[a][k].ev, m) =>
              outbox[a][1].m = m /\ m # 0
         /\ \A k \in 1 .. Len(relay'[a]) : \A m : \A b \in Account : Carries(relay'[a][k], m, b) =>
              ~(b = a /\ outbox[a][1].cmd = "say")
         /\ \A j, k \in 1 .. Len(relay'[a]) : \A m : \A b \in Account :
              Carries(relay'[a][j], m, b) /\ Carries(relay'[a][k], m, b) => j = k
<1>1. PICK l \in LineRecord : l = outbox[a][1] /\ LineFits(l, DOMAIN history) /\ Handles(a, l)
  BY HandleFacts
<1>2. outbox[a] # <<>> /\ outbox[a] \in Seq(LineRecord) /\ history \in Seq(Row)
  BY HandleFacts DEF TypesInv, Shapes
<1>3. 1 \in 1 .. Len(outbox[a]) /\ outbox'[a] = Tail(outbox[a])
  <2>1. Len(outbox[a]) \in Nat /\ Len(outbox[a]) >= 1
    BY <1>2, QueueTail
  <2>2. outbox' = [outbox EXCEPT ![a] = Tail(@)] /\ DOMAIN outbox = Account
    BY DEF Handle, TypesInv, Shapes
  <2> QED BY <2>1, <2>2
<1>m. l.cmd \in {"say", "msg"} => l.m # 0
  BY <1>1, <1>2 DEF LineFits
<1> DEFINE Goal(r) ==
         /\ \A k \in 1 .. Len(r) : \A m : Brings(r[k].ev, m) => l.m = m /\ m # 0
         /\ \A k \in 1 .. Len(r) : \A m : \A b \in Account : Carries(r[k], m, b) => ~(b = a /\ l.cmd = "say")
         /\ \A j, k \in 1 .. Len(r) : \A m : \A b \in Account :
              Carries(r[j], m, b) /\ Carries(r[k], m, b) => j = k
<1>0. SUFFICES Goal(relay'[a])
  BY <1>1, <1>3
<1>4. ASSUME NEW j, NEW r, r = <<j>>, j.ev.type = "msg" => j.ev.m = l.m /\ l.cmd = "say",
             j.ev.type \in {"msg", "err", "nick"}, j.ev.type = "msg" => ~Reaches(j, a)
      PROVE  Goal(r)
  <2>1. Len(r) = 1 /\ r[1] = j /\ \A k \in 1 .. Len(r) : k = 1
    BY <1>4
  <2>2. \A m : Brings(j.ev, m) => l.m = m /\ m # 0 /\ ~Reaches(j, a)
    BY <1>4, <1>m DEF Brings
  <2> QED BY <2>1, <2>2 DEF Carries
<1>5. CASE l.cmd = "say" /\ relay'[a] = <<Bcast(Event("msg", conn[a], NoName, l.m), {a})>>
  <2>1. PICK e : e = Event("msg", conn[a], NoName, l.m)
    OBVIOUS
  <2>2. PICK j : j = Bcast(e, {a})
    OBVIOUS
  <2>3. e.type = "msg" /\ e.m = l.m /\ j.op = "bcast" /\ j.ev = e /\ j.to = {a}
    BY <2>1, <2>2, Parts
  <2>4. ~Reaches(j, a)
    BY <2>3 DEF Reaches
  <2>5. j.ev.type = "msg" /\ j.ev.m = l.m
    BY <2>3
  <2>6. PICK r : r = <<j>>
    OBVIOUS
  <2> HIDE DEF Goal
  <2>7. Goal(r)
    BY <1>4, <1>5, <2>4, <2>5, <2>6
  <2>8. relay'[a] = r
    BY <1>5, <2>1, <2>2, <2>6
  <2> QED BY <2>7, <2>8
<1>6. ASSUME NEW e, e.type \in {"err", "nick"}, NEW to,
             relay'[a] = <<Send(e, to)>> \/ relay'[a] = <<Bcast(e, to)>>
      PROVE  Goal(relay'[a])
  <2>1. Send(e, to).ev = e /\ Bcast(e, to).ev = e
    BY Parts
  <2>2. PICK j : relay'[a] = <<j>> /\ j.ev = e
    BY <1>6, <2>1
  <2>3. PICK r : r = relay'[a]
    OBVIOUS
  <2>4. j.ev.type \in {"err", "nick"}
    BY <1>6, <2>2
  <2> HIDE DEF Goal
  <2>5. Goal(r)
    BY <1>4, <2>2, <2>3, <2>4
  <2> QED BY <2>3, <2>5
<1>7. CASE \/ l.cmd = "nick" /\ relay'[a] = <<Send(Event("err", NoName, l.name, 0), {a})>>
           \/ l.cmd = "nick" /\ relay'[a] = <<Bcast(Event("nick", conn[a], l.name, 0), {})>>
           \/ relay'[a] = <<Send(Event("err", NoName, NoName, l.m), {a})>>
  <2>1. PICK e, f, g : /\ e = Event("err", NoName, l.name, 0) /\ f = Event("nick", conn[a], l.name, 0)
                       /\ g = Event("err", NoName, NoName, l.m)
    OBVIOUS
  <2>2. e.type = "err" /\ f.type = "nick" /\ g.type = "err"
    <3>1. e.type = "err"
      BY <2>1, Parts
    <3>2. f.type = "nick"
      BY <2>1, Parts
    <3>3. g.type = "err"
      BY <2>1, Parts
    <3> QED BY <3>1, <3>2, <3>3
  <2>3. \E x \in {e, f, g} : relay'[a] = <<Send(x, {a})>> \/ relay'[a] = <<Bcast(x, {})>>
    BY <1>7, <2>1
  <2> HIDE DEF Goal
  <2> QED BY <1>6, <2>2, <2>3
<1>8. CASE /\ l.cmd = "msg"
           /\ relay'[a] = <<Send(Event("priv", conn[a], NoName, l.m), Bearers(a, l.name)),
                            Send(Event("privSent", l.name, NoName, l.m), {a})>>
  <2>1. PICK e, f : e = Event("priv", conn[a], NoName, l.m) /\ f = Event("privSent", l.name, NoName, l.m)
    OBVIOUS
  <2>2. PICK i, j : i = Send(e, Bearers(a, l.name)) /\ j = Send(f, {a})
    OBVIOUS
  <2>3. e.m = l.m /\ f.m = l.m
    BY <2>1, Parts
  <2>4. /\ i.op = "send" /\ i.ev = e /\ i.to = Bearers(a, l.name)
        /\ j.op = "send" /\ j.ev = f /\ j.to = {a}
    BY <2>2, Parts
  <2>5. \A b \in Account : (Reaches(i, b) => b # a) /\ (Reaches(j, b) => b = a)
    BY <2>4 DEF Reaches, Bearers
  <2>6. PICK r : r = <<i, j>>
    OBVIOUS
  <2>7. Len(r) = 2 /\ r[1] = i /\ r[2] = j /\ \A k \in 1 .. Len(r) : k = 1 \/ k = 2
    BY <2>6
  <2>8. \A m : (Brings(i.ev, m) \/ Brings(j.ev, m)) => l.m = m /\ m # 0
    BY <1>8, <1>m, <2>3, <2>4 DEF Brings
  <2>9. \A k \in 1 .. Len(r) : \A m : Brings(r[k].ev, m) => l.m = m /\ m # 0
    BY <2>7, <2>8
  <2>10. \A k, n \in 1 .. Len(r) : \A b \in Account : Reaches(r[k], b) /\ Reaches(r[n], b) => k = n
    BY <2>5, <2>7
  <2>11. \A k, n \in 1 .. Len(r) : \A m : \A b \in Account :
            Carries(r[k], m, b) /\ Carries(r[n], m, b) => k = n
    BY <2>10 DEF Carries
  <2>12. Goal(r)
    BY <1>8, <2>9, <2>11
  <2>13. relay'[a] = r
    BY <1>8, <2>1, <2>2, <2>6
  <2> HIDE DEF Goal
  <2> QED BY <2>12, <2>13
<1> HIDE DEF Goal
<1> QED BY <1>1, <1>5, <1>7, <1>8 DEF Handles

\* Line l of s says where its message is stored, according to table messages.
LineSent(s, l, h) ==
  /\ l.m # 0 => h[l.m].from = s
  /\ l.cmd = "say" => h[l.m].conv = Public
  /\ l.cmd = "msg" => \E b \in Account \ {s} : h[l.m].conv = Direct(s, b)

\* A message is in a line once, its sender's, until it is in jobs, its sender's.
Sent ==
  \A s \in Account :
    /\ \A k \in 1 .. Len(outbox[s]) : LineSent(s, outbox[s][k], history)
    /\ \A j, k \in 1 .. Len(outbox[s]) :
         outbox[s][j].m = outbox[s][k].m /\ outbox[s][j].m # 0 => j = k
    /\ \A k \in 1 .. Len(relay[s]) : \A m : Brings(relay[s][k].ev, m) =>
         history[m].from = s /\ ~Written(s, m)

\* A step keeps a message's line and jobs apart.
LEMMA SentStep ==
  ASSUME TypesInv, Sent, [Next]_vars
  PROVE  Sent'
<1>1. /\ DOMAIN history \subseteq DOMAIN history'
      /\ \A m \in DOMAIN history : history'[m] = history[m]
  BY HistoryGrows
<1>2. NewMessage \notin DOMAIN history /\ NewMessage \in Nat /\ NewMessage # 0
      /\ \A m \in DOMAIN history : m # 0
  <2>1. history \in Seq(Row)
    BY DEF TypesInv, Shapes
  <2> QED BY <2>1, NewNumber
<1>3. ASSUME NEW s \in Account, NEW c, Stores(s, c)
      PROVE  history'[NewMessage].conv = c /\ history'[NewMessage].from = s
  <2>1. history \in Seq(Row) /\ NewMessage = Len(history) + 1
    BY NewNumber DEF TypesInv, Shapes
  <2>2. PICK r : r = [conv |-> c, from |-> s]
    OBVIOUS
  <2>3. history'[NewMessage] = r
    BY <1>3, <2>1, <2>2 DEF Stores
  <2> QED BY <2>2, <2>3
<1>4. ASSUME NEW s \in Account, NEW l, NewLine(s, l) PROVE LineSent(s, l, history')
  <2>1. \A c : Stores(s, c) => history'[NewMessage].conv = c /\ history'[NewMessage].from = s
    BY <1>3
  <2>2. CASE l.m = 0 /\ l.cmd = "nick"
    BY <2>2 DEF LineSent
  <2>3. CASE l.m = NewMessage /\ l.cmd = "say" /\ Stores(s, Public)
    BY <2>1, <2>3 DEF LineSent
  <2>4. CASE l.m = NewMessage /\ l.cmd = "msg" /\ \E b \in Account \ {s} : Stores(s, Direct(s, b))
    BY <2>1, <2>4 DEF LineSent
  <2> QED BY <1>4, <2>2, <2>3, <2>4 DEF NewLine
<1>5. SUFFICES ASSUME NEW s \in Account
      PROVE  /\ \A k \in 1 .. Len(outbox'[s]) : LineSent(s, outbox'[s][k], history')
             /\ \A j, k \in 1 .. Len(outbox'[s]) :
                  outbox'[s][j].m = outbox'[s][k].m /\ outbox'[s][j].m # 0 => j = k
             /\ \A k \in 1 .. Len(relay'[s]) : \A m : Brings(relay'[s][k].ev, m) =>
                  history'[m].from = s /\ ~Written(s, m)'
  BY DEF Sent
<1>6. PICK d \in {0, 1} :
           /\ d = 1 => Handle(s)
           /\ \A k \in 1 .. Len(outbox'[s]) :
                \/ k + d \in 1 .. Len(outbox[s]) /\ outbox'[s][k] = outbox[s][k + d]
                \/ d = 0 /\ k = Len(outbox[s]) + 1 /\ NewLine(s, outbox'[s][k])
  BY LinesBack
<1>7. ASSUME NEW k \in 1 .. Len(outbox[s])
      PROVE  /\ outbox[s][k].m # 0 => outbox[s][k].m \in DOMAIN history
             /\ LineSent(s, outbox[s][k], history')
  <2>1. LineSent(s, outbox[s][k], history) /\ LineFits(outbox[s][k], DOMAIN history)
    BY DEF Sent, TypesInv, QueuesFit
  <2>2. outbox[s][k].m # 0 => outbox[s][k].m \in DOMAIN history
    BY UnderWayStored
  <2>3. outbox[s][k].cmd \in {"say", "msg"} => outbox[s][k].m \in DOMAIN history
    BY <2>1 DEF LineFits
  <2> QED BY <1>1, <2>1, <2>2, <2>3 DEF LineSent
<1>8. \A k \in 1 .. Len(outbox'[s]) : LineSent(s, outbox'[s][k], history')
  BY <1>4, <1>6, <1>7
<1>9. ASSUME NEW l, NewLine(s, l) PROVE l.m = 0 \/ l.m = NewMessage
  BY <1>9 DEF NewLine
<1>10. ASSUME NEW j \in 1 .. Len(outbox'[s]), NEW k \in 1 .. Len(outbox'[s]),
              outbox'[s][j].m = outbox'[s][k].m, outbox'[s][j].m # 0
       PROVE  j = k
  <2>1. CASE /\ j + d \in 1 .. Len(outbox[s]) /\ outbox'[s][j] = outbox[s][j + d]
             /\ k + d \in 1 .. Len(outbox[s]) /\ outbox'[s][k] = outbox[s][k + d]
    <3>1. j + d = k + d
      BY <1>10, <2>1 DEF Sent
    <3> QED BY <3>1
  <2>2. ASSUME NEW i \in 1 .. Len(outbox[s]), NEW l, NewLine(s, l), outbox[s][i].m = l.m, l.m # 0
        PROVE  FALSE
    BY <1>2, <1>7, <1>9, <2>2
  <2>3. CASE ~(j + d \in 1 .. Len(outbox[s]) /\ outbox'[s][j] = outbox[s][j + d])
    <3>1. j = Len(outbox[s]) + 1 /\ NewLine(s, outbox'[s][j])
      BY <1>6, <2>3
    <3> QED BY <1>6, <1>10, <2>2, <3>1
  <2>4. CASE ~(k + d \in 1 .. Len(outbox[s]) /\ outbox'[s][k] = outbox[s][k + d])
    <3>1. k = Len(outbox[s]) + 1 /\ NewLine(s, outbox'[s][k])
      BY <1>6, <2>4
    <3> QED BY <1>6, <1>10, <2>2, <3>1
  <2> QED BY <2>1, <2>3, <2>4
<1>11. ASSUME NEW m \in DOMAIN history, Written(s, m)' PROVE Written(s, m)
  <2>1. PICK k \in 1 .. Len(outbox'[s]) : outbox'[s][k].m = m
    BY <1>11 DEF Written
  <2>2. ~NewLine(s, outbox'[s][k])
    BY <1>2, <1>9, <2>1
  <2>3. k + d \in 1 .. Len(outbox[s]) /\ outbox[s][k + d].m = m
    BY <1>6, <2>1, <2>2
  <2> QED BY <2>3 DEF Written
<1>12. ASSUME NEW k \in 1 .. Len(relay'[s]), NEW m, Brings(relay'[s][k].ev, m)
       PROVE  history'[m].from = s /\ ~Written(s, m)'
  <2>1. CASE Left(relay[s], relay'[s])
    <3>1. PICK j \in 1 .. Len(relay[s]) : Stems(relay[s][j], relay'[s][k])
      BY <2>1 DEF Left
    <3>2. Brings(relay[s][j].ev, m)
      BY <1>12, <3>1 DEF Stems
    <3>3. m \in DOMAIN history
      BY <3>2, UnderWayStored
    <3>4. history[m].from = s /\ ~Written(s, m)
      BY <3>2 DEF Sent
    <3> QED BY <1>1, <1>11, <3>3, <3>4
  <2>2. CASE Handle(s)
    <3>0. /\ 1 \in 1 .. Len(outbox[s]) /\ outbox'[s] = Tail(outbox[s])
          /\ \A i \in 1 .. Len(relay'[s]) : \A n : Brings(relay'[s][i].ev, n) =>
               outbox[s][1].m = n /\ n # 0
      BY <2>2, HandledJobs
    <3>1. /\ 1 \in 1 .. Len(outbox[s]) /\ outbox'[s] = Tail(outbox[s])
          /\ outbox[s][1].m = m /\ m # 0
      BY <1>12, <3>0
    <3>2. m \in DOMAIN history
      BY <1>7, <3>1
    <3>3. history[m].from = s
      BY <3>1 DEF Sent, LineSent
    <3>4. ASSUME NEW j \in 1 .. Len(outbox'[s]), outbox'[s][j].m = m PROVE FALSE
      <4>1. outbox[s] # <<>> /\ outbox[s] \in Seq(LineRecord)
        BY <2>2, HandleFacts DEF TypesInv, Shapes
      <4>2. Tail(outbox[s])[j] = outbox[s][j + 1] /\ j + 1 \in 1 .. Len(outbox[s])
        BY <3>1, <3>4, <4>1, QueueTail
      <4>3. j + 1 = 1
        BY <3>1, <3>4, <4>2 DEF Sent
      <4> QED BY <4>3
    <3> QED BY <1>1, <3>2, <3>3, <3>4 DEF Written
  <2> QED BY <2>1, <2>2, RelayBack
<1> QED BY <1>8, <1>10, <1>12

\* A line about a stored message was there before.
LEMMA LineBack ==
  ASSUME TypesInv, [Next]_vars, NEW s \in Account, NEW k \in 1 .. Len(outbox'[s]),
         outbox'[s][k].m \in DOMAIN history
  PROVE  \E j \in 1 .. Len(outbox[s]) : outbox[s][j] = outbox'[s][k]
<1>1. PICK d \in {0, 1} :
         \/ k + d \in 1 .. Len(outbox[s]) /\ outbox'[s][k] = outbox[s][k + d]
         \/ NewLine(s, outbox'[s][k])
  BY LinesBack
<1>2. ~NewLine(s, outbox'[s][k])
  <2>1. history \in Seq(Row)
    BY DEF TypesInv, Shapes
  <2>2. outbox'[s][k].m # 0 /\ outbox'[s][k].m # NewMessage
    BY <2>1, NewNumber
  <2> QED BY <2>2 DEF NewLine
<1> QED BY <1>1, <1>2

\* What is left of a job for someone was for them.
LEMMA StemsReach ==
  ASSUME NEW j, NEW i, Stems(j, i), NEW m, NEW a \in Account, Carries(i, m, a)
  PROVE  Carries(j, m, a)
<1>1. Brings(j.ev, m)
  BY DEF Stems, Carries
<1>2. Reaches(i, a)
  BY DEF Carries
<1>3. Reaches(j, a)
  BY <1>2 DEF Stems, Reaches
<1> QED BY <1>1, <1>3 DEF Carries

\* The first line of s is about message m, and what its handler makes of it is
\* for a as well.
Speaks(s, m, a) ==
  /\ Handle(s) /\ 1 \in 1 .. Len(outbox[s]) /\ outbox[s][1].m = m /\ m # 0
  /\ ~(a = s /\ outbox[s][1].cmd = "say")

\* Where a job comes from, and an event.
LEMMA GoingBack ==
  ASSUME TypesInv, [Next]_vars, NEW s \in Account, NEW a \in Account, NEW m, Going(s, m, a)'
  PROVE  Going(s, m, a) \/ Speaks(s, m, a)
<1>1. PICK k \in 1 .. Len(relay'[s]) : Carries(relay'[s][k], m, a)
  BY DEF Going
<1>2. CASE Left(relay[s], relay'[s])
  <2>1. PICK j \in 1 .. Len(relay[s]) : Stems(relay[s][j], relay'[s][k])
    BY <1>2 DEF Left
  <2>2. Carries(relay[s][j], m, a)
    BY <1>1, <2>1, StemsReach
  <2> QED BY <2>2 DEF Going
<1>3. CASE Handle(s)
  <2>1. /\ 1 \in 1 .. Len(outbox[s]) /\ outbox'[s] = Tail(outbox[s])
        /\ \A i \in 1 .. Len(relay'[s]) : \A n : Brings(relay'[s][i].ev, n) =>
             outbox[s][1].m = n /\ n # 0
        /\ \A i \in 1 .. Len(relay'[s]) : \A n : \A b \in Account : Carries(relay'[s][i], n, b) =>
             ~(b = s /\ outbox[s][1].cmd = "say")
    BY <1>3, HandledJobs
  <2>2. Brings(relay'[s][k].ev, m)
    BY <1>1 DEF Carries
  <2>3. outbox[s][1].m = m /\ m # 0
    BY <1>1, <2>1, <2>2
  <2>4. ~(a = s /\ outbox[s][1].cmd = "say")
    BY <1>1, <2>1
  <2> QED BY <1>3, <2>1, <2>3, <2>4 DEF Speaks
<1> QED BY <1>2, <1>3, RelayBack

\* The handler of u sends message m to a.
Delivers(u, m, a) ==
  /\ Relay(u, a) /\ sess[a] # "off" /\ 1 \in 1 .. Len(relay[u]) /\ Carries(relay[u][1], m, a)

\* The events of a are those of before, perhaps without the first, and a new one.
LEMMA EventsBack ==
  ASSUME TypesInv, [Next]_vars, NEW a \in Account
  PROVE  \E d \in {0, 1} : \A k \in 1 .. Len(inbox'[a]) :
           \/ k + d \in 1 .. Len(inbox[a]) /\ inbox'[a][k] = inbox[a][k + d]
           \/ /\ d = 0 /\ k = Len(inbox[a]) + 1
              /\ \A m : Brings(inbox'[a][k], m) => \E u \in Account : Delivers(u, m, a)
           \/ \A m : ~Brings(inbox'[a][k], m)
<1>1. PICK q \in Seq(EventRecord) : q = inbox[a]
  BY DEF TypesInv, Shapes
<1>2. PICK r : r = inbox'[a]
  OBVIOUS
<1> DEFINE Goal(d) == \A k \in 1 .. Len(r) :
                        \/ k + d \in 1 .. Len(q) /\ r[k] = q[k + d]
                        \/ /\ d = 0 /\ k = Len(q) + 1
                           /\ \A m : Brings(r[k], m) => \E u \in Account : Delivers(u, m, a)
                        \/ \A m : ~Brings(r[k], m)
<1>3. SUFFICES Goal(0) \/ Goal(1)
  BY <1>1, <1>2
<1>4. CASE r = q
  <2>1. \A k \in 1 .. Len(r) : k + 0 \in 1 .. Len(q) /\ r[k] = q[k + 0]
    BY <1>4
  <2>2. Goal(0)
    BY <2>1
  <2> QED BY <2>2
<1>5. CASE q # <<>> /\ r = Tail(q)
  <2>1. \A k \in 1 .. Len(Tail(q)) : Tail(q)[k] = q[k + 1] /\ k + 1 \in 1 .. Len(q)
    BY <1>5, QueueTail
  <2>2. \A k \in 1 .. Len(r) : k + 1 \in 1 .. Len(q) /\ r[k] = q[k + 1]
    BY <1>5, <2>1
  <2>3. Goal(1)
    BY <2>2
  <2> QED BY <2>3
<1>6. CASE r = <<>>
  <2>1. Goal(0)
    BY <1>6
  <2> QED BY <2>1
<1>7. CASE r = <<Event("welcome", Guest[a], NoName, 0)>>
  <2>1. PICK e : e = Event("welcome", Guest[a], NoName, 0)
    OBVIOUS
  <2>2. e.type = "welcome"
    BY <2>1, Parts
  <2>3. \A m : ~Brings(e, m)
    BY <2>2 DEF Brings
  <2>4. \A k \in 1 .. Len(r) : r[k] = e
    BY <1>7, <2>1
  <2>5. Goal(0)
    BY <2>3, <2>4
  <2> QED BY <2>5
<1>8. ASSUME NEW u \in Account, Relay(u, a), sess[a] # "off", r = Append(q, relay[u][1].ev)
      PROVE  Goal(0)
  <2>1. PICK e : e = relay[u][1].ev
    OBVIOUS
  <2>2. /\ relay[u] # <<>> /\ relay[u][1].op = "send" /\ a \in relay[u][1].to
        /\ relay[u][1] \in Job /\ relay[u] \in Seq(Job)
    BY <1>8, SendFacts DEF TypesInv, Shapes
  <2>3. e \in EventRecord
    BY <2>1, <2>2 DEF Job
  <2>4. /\ Len(q) \in Nat /\ r[Len(q) + 1] = e
        /\ \A i \in 1 .. Len(q) : r[i] = q[i]
        /\ \A k \in 1 .. Len(r) : k \in 1 .. Len(q) \/ k = Len(q) + 1
    BY <1>1, <1>8, <2>1, <2>3, QueueAppend
  <2>5. ASSUME NEW m, Brings(e, m) PROVE Delivers(u, m, a)
    <3>1. Carries(relay[u][1], m, a)
      BY <2>1, <2>2, <2>5 DEF Carries, Reaches
    <3>2. 1 \in 1 .. Len(relay[u])
      BY <2>2, QueueTail
    <3> QED BY <1>8, <3>1, <3>2 DEF Delivers
  <2>6. \A m : Brings(e, m) => \E v \in Account : Delivers(v, m, a)
    BY <2>5
  <2> QED BY <2>4, <2>6
<1> HIDE DEF Goal
<1> QED BY <1>1, <1>2, <1>4, <1>5, <1>6, <1>7, <1>8, InboxMoves

\* What the handler of u has sent to a it does not send again.
LEMMA Delivered ==
  ASSUME TypesInv, NEW u \in Account, NEW a \in Account, NEW m, Delivers(u, m, a),
         \A j, k \in 1 .. Len(relay[u]) : Carries(relay[u][j], m, a) /\ Carries(relay[u][k], m, a) => j = k
  PROVE  ~Going(u, m, a)'
<1>1. PICK q \in Seq(Job) : q = relay[u]
  BY DEF TypesInv, Shapes
<1>2. q # <<>> /\ q[1].op = "send" /\ q[1] \in Job /\ 1 \in 1 .. Len(q) /\ Carries(q[1], m, a)
  BY <1>1, SendFacts DEF Delivers
<1>3. \A k \in 1 .. Len(q) : Carries(q[k], m, a) => k = 1
  BY <1>1, <1>2
<1>4. PICK r : r = relay'[u]
  OBVIOUS
<1>5. SUFFICES ASSUME NEW k \in 1 .. Len(r), Carries(r[k], m, a) PROVE FALSE
  BY <1>4 DEF Going
<1>6. CASE r = Tail(q)
  <2>1. \A i \in 1 .. Len(Tail(q)) : Tail(q)[i] = q[i + 1] /\ i + 1 \in 1 .. Len(q)
    BY <1>2, QueueTail
  <2>2. k + 1 = 1
    BY <1>3, <1>5, <1>6, <2>1
  <2> QED BY <2>2
<1>7. CASE r = <<Send(q[1].ev, q[1].to \ {a})>> \o Tail(q)
  <2>1. PICK to \in SUBSET Account : to = q[1].to \ {a}
    BY <1>2 DEF Job
  <2>2. PICK e \in EventRecord : e = q[1].ev
    BY <1>2 DEF Job
  <2>3. PICK j \in Job : j = Send(e, to) /\ j.op = "send" /\ j.to = to
    BY JobTyped
  <2>4. r = <<j>> \o Tail(q)
    BY <1>7, <2>1, <2>2, <2>3
  <2>5. Len(r) = Len(q) /\ r[1] = j /\ \A i \in 1 .. Len(q) : i # 1 => r[i] = q[i]
    BY <1>2, <2>4, QueueReplace
  <2>6. ~Carries(j, m, a)
    BY <2>1, <2>3 DEF Carries, Reaches
  <2> QED BY <1>3, <1>5, <2>5, <2>6
<1>8. r = Tail(q) \/ r = <<Send(q[1].ev, q[1].to \ {a})>> \o Tail(q)
  BY <1>1, <1>4, SendFacts DEF Delivers
<1> QED BY <1>6, <1>7, <1>8

\* What a handler says is in its connection's lines.
LEMMA SpeaksWritten ==
  ASSUME NEW s, NEW m, NEW a, Speaks(s, m, a)
  PROVE  Written(s, m) /\ m # 0
  BY DEF Speaks, Written

\* The jobs that carry m to a are one; and the events that bring it.
OneJob(s, m, a) ==
  \A j, k \in 1 .. Len(relay[s]) : Carries(relay[s][j], m, a) /\ Carries(relay[s][k], m, a) => j = k
OneEvent(a, m) ==
  \A j, k \in 1 .. Len(inbox[a]) : Brings(inbox[a][j], m) /\ Brings(inbox[a][k], m) => j = k

\* A message that has arrived is nowhere else, and on its way it is once.
Alone ==
  \A a \in Account : \A m :
    /\ Arrived(a, m) => \A s \in Account : ~Written(s, m) /\ ~Going(s, m, a)
    /\ \A s \in Account : OneJob(s, m, a)
    /\ OneEvent(a, m)

\* A message is written by its sender, and sent by the sender's handler.
LEMMA Senders ==
  ASSUME TypesInv, Sent, NEW s \in Account, NEW a \in Account, NEW m
  PROVE  /\ Written(s, m) /\ m # 0 => history[m].from = s
         /\ Going(s, m, a) => history[m].from = s /\ ~Written(s, m) /\ m # 0
<1>1. ASSUME Written(s, m), m # 0 PROVE history[m].from = s
  <2>1. PICK k \in 1 .. Len(outbox[s]) : outbox[s][k].m = m
    BY <1>1 DEF Written
  <2>2. LineSent(s, outbox[s][k], history)
    BY <2>1 DEF Sent
  <2> QED BY <1>1, <2>1, <2>2 DEF LineSent
<1>2. ASSUME Going(s, m, a) PROVE history[m].from = s /\ ~Written(s, m) /\ m # 0
  <2>1. PICK k \in 1 .. Len(relay[s]) : Carries(relay[s][k], m, a)
    BY <1>2 DEF Going
  <2>2. Brings(relay[s][k].ev, m)
    BY <2>1 DEF Carries
  <2>3. m \in DOMAIN history
    BY <1>2, UnderWayStored
  <2>4. history \in Seq(Row)
    BY DEF TypesInv, Shapes
  <2>5. m # 0
    BY <2>3, <2>4
  <2> QED BY <2>2, <2>5 DEF Sent
<1> QED BY <1>1, <1>2

\* One in the jobs stays one.
LEMMA OneJobStep ==
  ASSUME TypesInv, [Next]_vars, NEW s \in Account, NEW a \in Account, NEW m, OneJob(s, m, a)
  PROVE  OneJob(s, m, a)'
<1>1. SUFFICES ASSUME NEW j \in 1 .. Len(relay'[s]), NEW k \in 1 .. Len(relay'[s]),
                      Carries(relay'[s][j], m, a), Carries(relay'[s][k], m, a)
               PROVE  j = k
  BY DEF OneJob
<1>2. CASE Left(relay[s], relay'[s])
  <2>1. PICK f : /\ \A i \in 1 .. Len(relay'[s]) : f[i] \in 1 .. Len(relay[s])
                                                   /\ Stems(relay[s][f[i]], relay'[s][i])
                 /\ \A i, n \in 1 .. Len(relay'[s]) : f[i] = f[n] => i = n
    BY <1>2 DEF Left
  <2>2. f[j] \in 1 .. Len(relay[s]) /\ Carries(relay[s][f[j]], m, a)
    BY <1>1, <2>1, StemsReach
  <2>3. f[k] \in 1 .. Len(relay[s]) /\ Carries(relay[s][f[k]], m, a)
    BY <1>1, <2>1, StemsReach
  <2>4. f[j] = f[k]
    BY <2>2, <2>3 DEF OneJob
  <2> QED BY <2>1, <2>4
<1>3. CASE Handle(s)
  <2>1. \A i, n \in 1 .. Len(relay'[s]) : \A x : \A b \in Account :
              Carries(relay'[s][i], x, b) /\ Carries(relay'[s][n], x, b) => i = n
    BY <1>3, HandledJobs
  <2> QED BY <1>1, <2>1
<1> QED BY <1>2, <1>3, RelayBack

\* A step keeps it so.
LEMMA AloneStep ==
  ASSUME TypesInv, Sent, Alone, [Next]_vars
  PROVE  Alone'
<1>1. SUFFICES ASSUME NEW a \in Account, NEW m
      PROVE  /\ Arrived(a, m)' => \A s \in Account : ~Written(s, m)' /\ ~Going(s, m, a)'
             /\ \A s \in Account : OneJob(s, m, a)'
             /\ OneEvent(a, m)'
  BY DEF Alone
<1>2. /\ Arrived(a, m) => \A s \in Account : ~Written(s, m) /\ ~Going(s, m, a)
      /\ \A s \in Account : OneJob(s, m, a)
      /\ OneEvent(a, m)
  BY DEF Alone
<1>3. \A s \in Account : OneJob(s, m, a)'
  BY <1>2, OneJobStep
<1>4. PICK d \in {0, 1} : \A k \in 1 .. Len(inbox'[a]) :
           \/ k + d \in 1 .. Len(inbox[a]) /\ inbox'[a][k] = inbox[a][k + d]
           \/ /\ d = 0 /\ k = Len(inbox[a]) + 1
              /\ \A n : Brings(inbox'[a][k], n) => \E u \in Account : Delivers(u, n, a)
           \/ \A n : ~Brings(inbox'[a][k], n)
  BY EventsBack
<1>5. ASSUME NEW u \in Account, Delivers(u, m, a) PROVE Going(u, m, a) /\ ~Arrived(a, m)
  <2>1. Going(u, m, a)
    BY <1>5 DEF Delivers, Going
  <2> QED BY <1>2, <2>1
<1>6. ASSUME NEW s \in Account, Written(s, m)', m \in DOMAIN history PROVE Written(s, m)
  <2>1. PICK k \in 1 .. Len(outbox'[s]) : outbox'[s][k].m = m
    BY <1>6 DEF Written
  <2>2. \E j \in 1 .. Len(outbox[s]) : outbox[s][j] = outbox'[s][k]
    BY <1>6, <2>1, LineBack
  <2> QED BY <2>1, <2>2 DEF Written
<1>7. ASSUME NEW u \in Account, Delivers(u, m, a), NEW s \in Account
      PROVE  ~Written(s, m)' /\ ~Going(s, m, a)'
  <2>1. Going(u, m, a) /\ m \in DOMAIN history
    BY <1>5, <1>7, UnderWayStored
  <2>2. history[m].from = u /\ ~Written(u, m) /\ m # 0
    BY <2>1, Senders
  <2>3. Written(s, m) => s = u
    BY <2>2, Senders
  <2>4. ~Written(s, m)
    BY <2>2, <2>3
  <2>5. Going(s, m, a) => s = u
    BY <2>2, Senders
  <2>6. Speaks(s, m, a) => Written(s, m)
    BY SpeaksWritten
  <2>7. Going(s, m, a)' => s = u
    BY <2>4, <2>5, <2>6, GoingBack
  <2>8. ~Going(u, m, a)'
    BY <1>2, <1>7, Delivered DEF OneJob
  <2> QED BY <1>6, <2>1, <2>4, <2>7, <2>8
<1>8. ASSUME Arrived(a, m), NEW s \in Account PROVE ~Written(s, m)' /\ ~Going(s, m, a)'
  <2>1. m \in DOMAIN history
    BY <1>8, UnderWayStored
  <2>2. ~Written(s, m) /\ ~Going(s, m, a)
    BY <1>2, <1>8
  <2>3. Speaks(s, m, a) => Written(s, m)
    BY SpeaksWritten
  <2>4. ~Going(s, m, a)'
    BY <2>2, <2>3, GoingBack
  <2> QED BY <1>6, <2>1, <2>2, <2>4
<1>9. ASSUME NEW k \in 1 .. Len(inbox'[a]), Brings(inbox'[a][k], m)
      PROVE  \/ k + d \in 1 .. Len(inbox[a]) /\ Brings(inbox[a][k + d], m) /\ Arrived(a, m)
             \/ k = Len(inbox[a]) + 1 /\ \E u \in Account : Delivers(u, m, a)
  BY <1>4, <1>9 DEF Arrived
<1>10. Arrived(a, m)' => \A s \in Account : ~Written(s, m)' /\ ~Going(s, m, a)'
  <2>1. ASSUME Arrived(a, m)' PROVE Arrived(a, m) \/ \E u \in Account : Delivers(u, m, a)
    <3>1. PICK k \in 1 .. Len(inbox'[a]) : Brings(inbox'[a][k], m)
      BY <2>1 DEF Arrived
    <3> QED BY <1>9, <3>1
  <2> QED BY <1>7, <1>8, <2>1
<1>11. ASSUME NEW j \in 1 .. Len(inbox'[a]), NEW k \in 1 .. Len(inbox'[a]),
              Brings(inbox'[a][j], m), Brings(inbox'[a][k], m)
       PROVE  j = k
  <2>1. CASE Arrived(a, m)
    <3>1. \A u \in Account : ~Delivers(u, m, a)
      BY <1>5, <2>1
    <3>2. j + d \in 1 .. Len(inbox[a]) /\ Brings(inbox[a][j + d], m)
      BY <1>9, <1>11, <3>1
    <3>3. k + d \in 1 .. Len(inbox[a]) /\ Brings(inbox[a][k + d], m)
      BY <1>9, <1>11, <3>1
    <3>4. j + d = k + d
      BY <1>2, <3>2, <3>3 DEF OneEvent
    <3> QED BY <3>4
  <2>2. CASE ~Arrived(a, m)
    <3>1. j = Len(inbox[a]) + 1
      BY <1>9, <1>11, <2>2
    <3>2. k = Len(inbox[a]) + 1
      BY <1>9, <1>11, <2>2
    <3> QED BY <3>1, <3>2
  <2> QED BY <2>1, <2>2
<1>12. OneEvent(a, m)'
  BY <1>11 DEF OneEvent
<1> QED BY <1>3, <1>10, <1>12

----------------------------------------------------------------------------
(* What is shown is shown once.                                            *)

\* Message m is on no way to account a any more; or only in the line a said it
\* in, which does not come back.
Away(a, m) ==
  /\ ~Arrived(a, m)
  /\ \A s \in Account : ~Going(s, m, a)
  /\ \A s \in Account : \A k \in 1 .. Len(outbox[s]) :
       outbox[s][k].m = m => s = a /\ outbox[s][k].cmd = "say"

\* It stays away.
LEMMA AwayStep ==
  ASSUME TypesInv, [Next]_vars, NEW a \in Account, NEW m \in DOMAIN history, Away(a, m)
  PROVE  Away(a, m)'
<1>1. ~Arrived(a, m) /\ \A s \in Account : ~Going(s, m, a)
  BY DEF Away
<1>2. \A s \in Account : \A k \in 1 .. Len(outbox[s]) :
         outbox[s][k].m = m => s = a /\ outbox[s][k].cmd = "say"
  BY DEF Away
<1>3. ASSUME NEW s \in Account PROVE ~Going(s, m, a)'
  <2>1. ~Speaks(s, m, a)
    BY <1>2 DEF Speaks
  <2> QED BY <1>1, <2>1, GoingBack
<1>4. ASSUME NEW s \in Account, NEW k \in 1 .. Len(outbox'[s]), outbox'[s][k].m = m
      PROVE  s = a /\ outbox'[s][k].cmd = "say"
  <2>1. PICK j \in 1 .. Len(outbox[s]) : outbox[s][j] = outbox'[s][k]
    BY <1>4, LineBack
  <2> QED BY <1>2, <1>4, <2>1
<1>5. ASSUME NEW u \in Account, Delivers(u, m, a) PROVE FALSE
  BY <1>1, <1>5 DEF Delivers, Going
<1>6. ~Arrived(a, m)'
  <2>1. SUFFICES ASSUME NEW k \in 1 .. Len(inbox'[a]), Brings(inbox'[a][k], m) PROVE FALSE
    BY DEF Arrived
  <2>2. PICK d \in {0, 1} :
           \/ k + d \in 1 .. Len(inbox[a]) /\ inbox'[a][k] = inbox[a][k + d]
           \/ /\ d = 0 /\ k = Len(inbox[a]) + 1
              /\ \A n : Brings(inbox'[a][k], n) => \E u \in Account : Delivers(u, n, a)
           \/ \A n : ~Brings(inbox'[a][k], n)
    BY EventsBack
  <2>3. k + d \in 1 .. Len(inbox[a]) /\ Brings(inbox[a][k + d], m)
    BY <1>5, <2>1, <2>2
  <2> QED BY <1>1, <2>3 DEF Arrived
<1> QED BY <1>3, <1>4, <1>6 DEF Away

\* A message is not under way before it is stored.
LEMMA NotYet ==
  ASSUME TypesInv, NEW s \in Account, NEW a \in Account
  PROVE  ~Written(s, NewMessage) /\ ~Going(s, NewMessage, a) /\ ~Arrived(a, NewMessage)
<1>1. PICK m : m = NewMessage
  OBVIOUS
<1>n. NewMessage \in Nat /\ NewMessage = Len(history) + 1 /\ NewMessage \notin DOMAIN history
  BY NewNumber
<1>h. Len(history) \in Nat
  BY DEF TypesInv, Shapes
<1>2. m \notin DOMAIN history /\ m # 0
  BY <1>1, <1>n, <1>h
<1>3. ~Written(s, m) /\ ~Going(s, m, a) /\ ~Arrived(a, m)
  BY <1>2, UnderWayStored
<1> QED BY <1>1, <1>3

\* A message that is stored and shown at once is on no other way to the page.
LEMMA NewAway ==
  ASSUME TypesInv, [Next]_vars, NEW a \in Account, NEW x, NEW c, Stores(x, c),
         (x = a /\ c = Public) \/ c.kind = "group", NEW m, m = NewMessage
  PROVE  Away(a, m)'
<1>1. \A s \in Account : ~Written(s, m) /\ ~Going(s, m, a) /\ ~Arrived(a, m)
  BY NotYet
<1>2. m \in Nat /\ m # 0
  BY NewNumber DEF TypesInv, Shapes
<1>3. ASSUME NEW s \in Account PROVE ~Going(s, m, a)'
  <2>1. ~Speaks(s, m, a)
    BY <1>1, SpeaksWritten
  <2> QED BY <1>1, <2>1, GoingBack
<1>4. ~Arrived(a, m)'
  <2>1. SUFFICES ASSUME NEW k \in 1 .. Len(inbox'[a]), Brings(inbox'[a][k], m) PROVE FALSE
    BY DEF Arrived
  <2>2. PICK d \in {0, 1} :
           \/ k + d \in 1 .. Len(inbox[a]) /\ inbox'[a][k] = inbox[a][k + d]
           \/ /\ d = 0 /\ k = Len(inbox[a]) + 1
              /\ \A n : Brings(inbox'[a][k], n) => \E u \in Account : Delivers(u, n, a)
           \/ \A n : ~Brings(inbox'[a][k], n)
    BY EventsBack
  <2>3. \A u \in Account : ~Delivers(u, m, a)
    BY <1>1 DEF Delivers, Going
  <2>4. k + d \in 1 .. Len(inbox[a]) /\ Brings(inbox[a][k + d], m)
    BY <2>1, <2>2, <2>3
  <2> QED BY <1>1, <2>4 DEF Arrived
<1>5. ASSUME NEW s \in Account, NEW d, Stores(s, d) PROVE s = x /\ d = c
  <2>1. PICK e : e = [conv |-> d, from |-> s]
    OBVIOUS
  <2>2. PICK f : f = [conv |-> c, from |-> x]
    OBVIOUS
  <2>3. PICK h \in Seq(Row) : h = history
    BY DEF TypesInv, Shapes
  <2>4. Append(h, e) = Append(h, f)
    BY <1>5, <2>1, <2>2, <2>3 DEF Stores
  <2>5. Append(h, e)[Len(h) + 1] = e /\ Append(h, f)[Len(h) + 1] = f
    OBVIOUS
  <2>6. e = f
    BY <2>4, <2>5
  <2>7. e.conv = d /\ e.from = s /\ f.conv = c /\ f.from = x
    BY <2>1, <2>2
  <2> QED BY <2>6, <2>7
<1>6. ASSUME NEW s \in Account, NEW k \in 1 .. Len(outbox'[s]), outbox'[s][k].m = m
      PROVE  s = a /\ outbox'[s][k].cmd = "say"
  <2>1. PICK d \in {0, 1} :
         \/ k + d \in 1 .. Len(outbox[s]) /\ outbox'[s][k] = outbox[s][k + d]
         \/ NewLine(s, outbox'[s][k])
    BY LinesBack
  <2>2. ~(k + d \in 1 .. Len(outbox[s]) /\ outbox'[s][k] = outbox[s][k + d])
    BY <1>1, <1>6 DEF Written
  <2>3. PICK l : l = outbox'[s][k]
    OBVIOUS
  <2>4. NewLine(s, l) /\ l.m = m
    BY <1>6, <2>1, <2>2, <2>3
  <2>5. Public.kind = "public" /\ \A b : Direct(s, b).kind = "direct"
    BY DEF Public, Direct
  <2>6. CASE l.cmd = "say" /\ Stores(s, Public)
    BY <1>5, <2>3, <2>5, <2>6
  <2>7. CASE \E b \in Account \ {s} : Stores(s, Direct(s, b))
    <3>1. PICK b : Stores(s, Direct(s, b))
      BY <2>7
    <3>2. Direct(s, b) = c
      BY <1>5, <3>1
    <3> QED BY <2>5, <3>2
  <2> QED BY <1>2, <2>4, <2>6, <2>7 DEF NewLine
<1> QED BY <1>3, <1>4, <1>6 DEF Away

\* The event a session has taken was all there was of its message.
LEMMA TakenAway ==
  ASSUME TypesInv, Alone, [Next]_vars, NEW a \in Account, OnMsg(a) \/ OnPriv(a) \/ OnPrivSent(a),
         NEW m, m = Head(inbox[a]).m
  PROVE  m \in DOMAIN history /\ Arrived(a, m) /\ Away(a, m)'
<1>1. inbox[a] # <<>> /\ inbox'[a] = Tail(inbox[a])
  BY Emits DEF OnEvent
<1>2. Head(inbox[a]).type \in {"msg", "priv", "privSent"}
  BY DEF OnMsg, OnPriv, OnPrivSent, Emitted
<1>3. 1 \in 1 .. Len(inbox[a]) /\ Brings(inbox[a][1], m)
  <2>1. Head(inbox[a]) = inbox[a][1] /\ 1 \in 1 .. Len(inbox[a])
    BY <1>1, HeadEvent
  <2> QED BY <1>2, <2>1 DEF Brings
<1>4. Arrived(a, m)
  BY <1>3 DEF Arrived
<1>5. m \in DOMAIN history
  BY <1>4, UnderWayStored
<1>6. (\A s \in Account : ~Written(s, m) /\ ~Going(s, m, a)) /\ OneEvent(a, m)
  BY <1>4 DEF Alone
<1>7. ~Arrived(a, m)'
  <2>1. SUFFICES ASSUME NEW k \in 1 .. Len(inbox'[a]), Brings(inbox'[a][k], m) PROVE FALSE
    BY DEF Arrived
  <2>2. PICK q \in Seq(EventRecord) : q = inbox[a]
    BY DEF TypesInv, Shapes
  <2>3. Tail(q)[k] = q[k + 1] /\ k + 1 \in 1 .. Len(q)
    BY <1>1, <2>1, <2>2, QueueTail
  <2>4. k + 1 = 1
    BY <1>1, <1>3, <1>6, <2>1, <2>2, <2>3 DEF OneEvent
  <2> QED BY <2>4
<1>8. ASSUME NEW s \in Account PROVE ~Going(s, m, a)'
  <2>1. ~Speaks(s, m, a)
    BY <1>6, SpeaksWritten
  <2> QED BY <1>6, <2>1, GoingBack
<1>9. ASSUME NEW s \in Account, NEW k \in 1 .. Len(outbox'[s]), outbox'[s][k].m = m PROVE FALSE
  <2>1. PICK j \in 1 .. Len(outbox[s]) : outbox[s][j] = outbox'[s][k]
    BY <1>5, <1>9, LineBack
  <2>2. Written(s, m)
    BY <1>9, <2>1 DEF Written
  <2> QED BY <1>6, <2>2
<1> QED BY <1>4, <1>5, <1>7, <1>8, <1>9 DEF Away

\* Page p shows message m at place i of conversation c; somewhere; at one place.
SaysAt(p, c, i, m) ==
  c \in DOMAIN p.convs /\ i \in 1 .. Len(p.convs[c].messages) /\ p.convs[c].messages[i].m = m
Says(p, m) == \E c : \E i : SaysAt(p, c, i, m)
Once(p, m) == \A c, d : \A i, j : SaysAt(p, c, i, m) /\ SaysAt(p, d, j, m) => c = d /\ i = j

\* A page that says the same.
LEMMA CalmSays ==
  ASSUME NEW p, NEW q, Calm(p, q), NEW m
  PROVE  (Says(q, m) => Says(p, m)) /\ (Once(p, m) => Once(q, m))
<1>1. ASSUME NEW c, NEW i, SaysAt(q, c, i, m) PROVE SaysAt(p, c, i, m)
  <2>1. c \in DOMAIN q.convs /\ i \in 1 .. Len(q.convs[c].messages) /\ q.convs[c].messages[i].m = m
    BY <1>1 DEF SaysAt
  <2>2. CASE c \in DOMAIN p.convs
    BY <2>1, <2>2 DEF Calm, SaysAt
  <2>3. CASE c \notin DOMAIN p.convs
    <3>1. q.convs[c].messages = <<>>
      BY <2>1, <2>3 DEF Calm
    <3> QED BY <2>1, <3>1
  <2> QED BY <2>2, <2>3
<1>2. Says(q, m) => Says(p, m)
  BY <1>1 DEF Says
<1>3. Once(p, m) => Once(q, m)
  BY <1>1 DEF Once
<1> QED BY <1>2, <1>3

\* What it shows in a conversation is a sequence.
LEMMA SaidSeq ==
  ASSUME NEW p, PageFits(p), NEW c
  PROVE  Said(p, c) \in Seq(PageMessage)
<1>1. CASE c \in DOMAIN p.convs
  <2>1. p.convs[c].messages \in Seq(PageMessage)
    BY <1>1, PageFields
  <2> QED BY <1>1, <2>1 DEF Said
<1>2. CASE c \notin DOMAIN p.convs
  <2>1. Said(p, c) = <<>>
    BY <1>2 DEF Said
  <2> QED BY <2>1
<1> QED BY <1>1, <1>2

\* A page that says one line more.
LEMMA AddsSays ==
  ASSUME NEW p, PageFits(p), NEW q, NEW c, NEW e \in PageMessage, Adds(p, q, c, e), NEW m
  PROVE  /\ Says(q, m) => Says(p, m) \/ m = e.m
         /\ (Once(p, m) /\ m # e.m) => Once(q, m)
         /\ ~Says(p, m) => Once(q, m)
<1>1. PICK t \in Seq(PageMessage) : t = Said(p, c)
  BY SaidSeq
<1>2. PICK n \in Nat : n = Len(t)
  OBVIOUS
<1>3. ASSUME NEW d, NEW i, SaysAt(q, d, i, m)
      PROVE  SaysAt(p, d, i, m) \/ (d = c /\ i = n + 1 /\ m = e.m)
  <2>1. d \in DOMAIN q.convs /\ i \in 1 .. Len(q.convs[d].messages) /\ q.convs[d].messages[i].m = m
    BY <1>3 DEF SaysAt
  <2>2. CASE d # c
    BY <2>1, <2>2 DEF Adds, SaysAt
  <2>3. CASE d = c
    <3>1. q.convs[d].messages = Append(t, e)
      BY <1>1, <2>3 DEF Adds
    <3>2. PICK u : u = Append(t, e)
      OBVIOUS
    <3>3. /\ u[n + 1] = e /\ \A k \in 1 .. n : u[k] = t[k]
          /\ \A k \in 1 .. Len(u) : k \in 1 .. n \/ k = n + 1
      BY <1>2, <3>2, QueueAppend
    <3>4. i \in 1 .. Len(u) /\ u[i].m = m
      BY <2>1, <3>1, <3>2
    <3>5. CASE i \in 1 .. n
      <4>1. c \in DOMAIN p.convs
        BY <1>1, <1>2, <3>5 DEF Said
      <4>2. p.convs[c].messages = t
        BY <1>1, <4>1 DEF Said
      <4> QED BY <1>2, <2>3, <3>3, <3>4, <3>5, <4>1, <4>2 DEF SaysAt
    <3> QED BY <2>3, <3>3, <3>4, <3>5
  <2> QED BY <2>2, <2>3
<1>4. Says(q, m) => Says(p, m) \/ m = e.m
  BY <1>3 DEF Says
<1>5. (Once(p, m) /\ m # e.m) => Once(q, m)
  BY <1>3 DEF Once
<1>6. ~Says(p, m) => Once(q, m)
  BY <1>3 DEF Once, Says
<1> QED BY <1>4, <1>5, <1>6

\* What a ready page shows is stored; what it shows since its last snapshot it
\* shows once, and is not told again.
OncePages ==
  \A b \in Account : sess[b] = "ready" => \A m : Says(page[b], m) =>
    /\ m \in Nat /\ m <= Len(history)
    /\ m > upto[b] => Away(b, m) /\ Once(page[b], m)

\* A step keeps it so.
LEMMA OnceStep ==
  ASSUME Core, Alone, OncePages, [Next]_vars
  PROVE  OncePages'
<1>0. TypesInv /\ Base /\ history \in Seq(Row)
  BY DEF Core, Base, TypesInv, Shapes
<1>1. history' \in Seq(Row) /\ Len(history) <= Len(history')
  BY <1>0, HistoryGrows
<1>2. SUFFICES ASSUME NEW b \in Account, sess'[b] = "ready", NEW m, Says(page'[b], m)
               PROVE  /\ m \in Nat /\ m <= Len(history')
                      /\ m > upto'[b] => Away(b, m)' /\ Once(page'[b], m)
  BY DEF OncePages
<1>3. upto[b] \in Nat /\ PageFits(page[b])
  <2>1. upto[b] \in 0 .. MaxMessages /\ MaxMessages \in Nat
    BY <1>0, RoutingConstants DEF TypesInv, Shapes
  <2> QED BY <1>0, <2>1 DEF TypesInv, PagesFit
<1>4. ASSUME Keeps(b), Says(page[b], m), Once(page[b], m) => Once(page'[b], m)
      PROVE  /\ m \in Nat /\ m <= Len(history')
             /\ m > upto'[b] => Away(b, m)' /\ Once(page'[b], m)
  <2>1. sess[b] = "ready" /\ upto'[b] = upto[b]
    BY <1>2, <1>4 DEF Keeps
  <2>2. /\ m \in Nat /\ m <= Len(history)
        /\ m > upto[b] => Away(b, m) /\ Once(page[b], m)
    BY <1>4, <2>1 DEF OncePages
  <2>3. ASSUME m > upto[b] PROVE Away(b, m)' /\ Once(page'[b], m)
    <3>1. m \in DOMAIN history
      BY <1>0, <1>3, <2>2, <2>3
    <3> QED BY <1>0, <1>4, <2>2, <2>3, <3>1, AwayStep
  <2> QED BY <1>0, <1>1, <2>1, <2>2, <2>3
<1>5. CASE Keeps(b) /\ Calm(page[b], page'[b])
  BY <1>2, <1>4, <1>5, CalmSays
<1>6. ASSUME Keeps(b), NEW p, NEW c, NEW e, Calm(page[b], p), Adds(p, page'[b], c, e), Brought(b, c, e)
      PROVE  /\ m \in Nat /\ m <= Len(history')
             /\ m > upto'[b] => Away(b, m)' /\ Once(page'[b], m)
  <2>1. PageFits(p) /\ (Says(p, m) => Says(page[b], m)) /\ (Once(page[b], m) => Once(p, m))
    BY <1>6, CalmSays DEF Calm
  <2>2. e \in PageMessage
    <3>1. PageFits(page'[b]) /\ page'[b].convs[c].messages = Append(Said(p, c), e) /\ c \in DOMAIN page'[b].convs
      BY <1>6 DEF Adds
    <3>2. PICK t \in Seq(PageMessage) : t = Said(p, c)
      BY <2>1, SaidSeq
    <3>3. Append(t, e) \in Seq(PageMessage)
      BY <3>1, <3>2, PageFields
    <3>4. Append(t, e)[Len(t) + 1] = e /\ Len(t) + 1 \in 1 .. Len(Append(t, e))
      OBVIOUS
    <3> QED BY <3>3, <3>4
  <2>3. /\ Says(page'[b], m) => Says(p, m) \/ m = e.m
        /\ (Once(p, m) /\ m # e.m) => Once(page'[b], m)
        /\ ~Says(p, m) => Once(page'[b], m)
    BY <1>6, <2>1, <2>2, AddsSays
  <2>4. CASE m # e.m
    <3>1. Says(page[b], m) /\ (Once(page[b], m) => Once(page'[b], m))
      BY <1>2, <2>1, <2>3, <2>4
    <3> QED BY <1>4, <1>6, <3>1
  <2>5. sess[b] = "ready" /\ upto'[b] = upto[b]
    BY <1>2, <1>6 DEF Keeps
  <2>6. Says(page[b], m) => /\ m \in Nat /\ m <= Len(history)
                            /\ m > upto[b] => Away(b, m)
    BY <2>5 DEF OncePages
  <2>7. CASE m = e.m /\ e = ErrorLine
    <3>1. m = 0
      BY <2>7 DEF ErrorLine
    <3> QED BY <1>1, <1>3, <2>5, <3>1
  <2>8. CASE /\ m = e.m /\ e.m = NewMessage /\ Stores(e.from, c)
             /\ \/ SendPublic(b) /\ e.from = b /\ c = Public
                \/ SendGroup(e.from, c) /\ c \in Groups
    <3>1. m \in Nat /\ m = Len(history) + 1
      BY <1>0, <2>8, NewNumber
    <3>2. ~Says(page[b], m)
      BY <1>0, <2>6, <3>1
    <3>3. (e.from = b /\ c = Public) \/ c.kind = "group"
      BY <2>8 DEF Groups
    <3>4. Away(b, m)'
      BY <1>0, <2>8, <3>3, NewAway
    <3>5. m <= Len(history')
      <4>1. history' = Append(history, [conv |-> c, from |-> e.from])
        BY <2>8 DEF Stores
      <4> QED BY <1>0, <3>1, <4>1
    <3> QED BY <2>1, <2>3, <3>1, <3>2, <3>4, <3>5
  <2>9. CASE (OnMsg(b) \/ OnPriv(b) \/ OnPrivSent(b)) /\ m = e.m /\ e.m = Head(inbox[b]).m
    <3>1. m \in DOMAIN history /\ Arrived(b, m) /\ Away(b, m)'
      BY <1>0, <2>9, TakenAway
    <3>2. m > upto[b] => ~Says(page[b], m)
      BY <2>6, <3>1 DEF Away
    <3>3. m \in Nat /\ m <= Len(history)
      BY <1>0, <3>1
    <3> QED BY <1>0, <1>1, <2>1, <2>3, <2>5, <3>1, <3>2, <3>3
  <2> QED BY <1>6, <2>4, <2>7, <2>8, <2>9 DEF Brought
<1>7. CASE Snapped(b)
  <2>1. upto'[b] = Len(history) /\ UNCHANGED <<convs, history>> /\ \E n : Fresh(page'[b], n, b)
    BY <1>7 DEF Snapped
  <2>2. PICK c, i : SaysAt(page'[b], c, i, m)
    BY <1>2 DEF Says
  <2>3. Exact(page'[b].convs[c].messages, c)
    BY <2>1, <2>2 DEF Fresh, SaysAt
  <2>4. m \in DOMAIN history
    BY <2>2, <2>3 DEF Exact, SaysAt
  <2>5. m \in Nat /\ m <= Len(history)
    BY <1>0, <2>4
  <2> QED BY <1>0, <2>1, <2>5
<1> QED BY <1>2, <1>5, <1>6, <1>7, PageMoves DEF Turns

\* Nothing is under way at start, and nothing is shown.
LEMMA OnceAtStart == Init => Sent /\ Alone /\ OncePages
<1> SUFFICES ASSUME Init PROVE Sent /\ Alone /\ OncePages
  OBVIOUS
<1>1. \A a \in Account : Len(inbox[a]) = 0 /\ Len(outbox[a]) = 0 /\ Len(relay[a]) = 0
  BY DEF Init
<1>2. \A k \in 1 .. 0 : FALSE
  OBVIOUS
<1>3. Sent
  BY <1>1, <1>2 DEF Sent
<1>4. Alone
  BY <1>1, <1>2 DEF Alone, Arrived, OneJob, OneEvent
<1>5. ASSUME NEW b \in Account, sess[b] = "ready", NEW m, Says(page[b], m) PROVE FALSE
  <2>1. b \in Online
    BY <1>5 DEF Init
  <2>2. page[b] = ready(InitialPage, b, [u \in Online |-> Home[u]], [c \in {} |-> {}], <<>>)
    BY <2>1 DEF Init
  <2>3. PICK c, i : SaysAt(page[b], c, i, m)
    BY <1>5 DEF Says
  <2>4. PICK us : us = [u \in Online |-> Home[u]]
    OBVIOUS
  <2>5. us \in Maps(Account, Name)
    <3>1. us \in [Online -> Name] /\ Online \in SUBSET Account
      BY <2>4, RoutingConstants
    <3> QED BY <3>1, MapOf
  <2>6. PICK none : none = [k \in {} |-> {}]
    OBVIOUS
  <2>7. none \in Maps(ConvId, SUBSET (Account \cup Name)) /\ DOMAIN none = {}
    <3>1. PICK E \in SUBSET ConvId : E = {}
      OBVIOUS
    <3>2. none \in [E -> SUBSET (Account \cup Name)]
      BY <2>6, <3>1
    <3> QED BY <2>6, <3>2, MapOf
  <2>h. PICK h : h = <<>>
    OBVIOUS
  <2>8. h \in Seq(HistoryRow) /\ Len(h) = 0
    BY <2>h
  <2>p. PICK p : p = InitialPage
    OBVIOUS
  <2>9. PICK q : q = ready(p, b, us, none, h)
    OBVIOUS
  <2>10. Readied(q, b, us, none, h)
    <3>1. PageFits(p)
      BY <2>p, InitialFits
    <3> QED BY <2>5, <2>7, <2>8, <2>9, <3>1, ReadyFacts
  <2>11. page[b] = q
    BY <2>2, <2>4, <2>6, <2>h, <2>p, <2>9
  <2>12. \A d \in DOMAIN q.convs : q.convs[d].messages = Among(RowLines(h), RowsOf(h, d))
    BY <2>10 DEF Readied
  <2>13. q.convs[c].messages = Among(RowLines(h), RowsOf(h, c))
    BY <2>3, <2>11, <2>12 DEF SaysAt
  <2>14. PICK t : t = RowLines(h)
    OBVIOUS
  <2>t. t = [x \in 1 .. 0 |-> [m |-> h[x].m, from |-> h[x].from]] /\ RowsOf(h, c) = {}
    BY <2>8, <2>14 DEF RowLines, RowsOf
  <2>u. t \in Seq(PageMessage)
    BY <2>t
  <2>15. Len(t) = 0 /\ RowsOf(h, c) \in SUBSET (1 .. Len(t))
    BY <2>t
  <2>16. \A k \in 1 .. Len(Among(t, RowsOf(h, c))) : \E x \in RowsOf(h, c) : Among(t, RowsOf(h, c))[k] = t[x]
    BY <2>u, <2>15, AmongSeq
  <2>17. i \in 1 .. Len(Among(t, RowsOf(h, c)))
    BY <2>3, <2>11, <2>13, <2>14 DEF SaysAt
  <2> QED BY <2>15, <2>16, <2>17
<1> QED BY <1>3, <1>4, <1>5 DEF OncePages

\* It says that what comes after the snapshot is shown once.
LEMMA OnceMeans ==
  ASSUME Core, OncePages
  PROVE  ShownOnce
<1>1. SUFFICES ASSUME NEW a \in Account, sess[a] = "ready",
                      NEW c \in DOMAIN page[a].convs, NEW d \in DOMAIN page[a].convs,
                      NEW i \in DOMAIN Lines(a, c), NEW j \in DOMAIN Lines(a, d),
                      Lines(a, c)[i].m = Lines(a, d)[j].m, Lines(a, c)[i].m > upto[a]
               PROVE  c = d /\ i = j
  BY DEF ShownOnce
<1>2. PageFits(page[a])
  BY DEF Core, Base, TypesInv, PagesFit
<1>3. Lines(a, c) \in Seq(PageMessage) /\ Lines(a, d) \in Seq(PageMessage)
  BY <1>2, PageFields DEF Lines
<1>4. i \in 1 .. Len(Lines(a, c)) /\ j \in 1 .. Len(Lines(a, d))
  BY <1>1, <1>3
<1>5. PICK m : m = Lines(a, c)[i].m
  OBVIOUS
<1>6. SaysAt(page[a], c, i, m) /\ SaysAt(page[a], d, j, m)
  BY <1>1, <1>4, <1>5 DEF SaysAt, Lines
<1>7. Once(page[a], m)
  BY <1>1, <1>5, <1>6 DEF OncePages, Says
<1> QED BY <1>6, <1>7 DEF Once

\* A message stored after a page's last snapshot is shown on it once: the
\* sender's own copy is made up by the gateway, the others' come back from the
\* server, and nobody gets both (gatewayServer.ts:274-281, 395-460).
THEOREM MessagesShownOnce == Spec => []ShownOnce
<1>1. Core /\ Sent /\ [Next]_vars => Sent'
  BY SentStep DEF Core, Base
<1>2. Core /\ Sent /\ Alone /\ [Next]_vars => Alone'
  BY AloneStep DEF Core, Base
<1>3. Core /\ Alone /\ OncePages /\ [Next]_vars => OncePages'
  BY OnceStep
<1>4. Core /\ OncePages => ShownOnce
  BY OnceMeans
<1> QED BY <1>1, <1>2, <1>3, <1>4, OnceAtStart, CoreAlways, PTL DEF Spec

----------------------------------------------------------------------------
(* Nothing is missed.                                                      *)

\* Who is in the roster has a connection; a message that is stored has its
\* conversation; a direct conversation has rows of its two sides.
Bound == \A a \in Account : sess[a] # "off" => conn[a] # NoName
Homed == \A m \in DOMAIN history : history[m].conv = Public \/ history[m].conv \in DOMAIN convs
Paired == \A c \in DOMAIN convs : c.kind = "direct" => convs[c] \subseteq c.ids

\* A connection has a nickname from its session's first moment to its last.
LEMMA ConnMoves ==
  ASSUME TypesInv, [Next]_vars, NEW a \in Account
  PROVE  conn'[a] = conn[a] \/ conn'[a] \in Name \/ (Drop(a) /\ sess'[a] = "off")
<1> DEFINE Goal == conn'[a] = conn[a] \/ conn'[a] \in Name \/ (Drop(a) /\ sess'[a] = "off")
<1>0. DOMAIN conn = Account /\ Guest \in [Account -> Name]
  BY RoutingConstants DEF TypesInv, Shapes
<1>1. ASSUME UNCHANGED conn PROVE Goal
  BY <1>1
<1>2. ASSUME NEW u \in Account, Login(u) PROVE Goal
  <2>1. conn' = [conn EXCEPT ![u] = Guest[u]]
    BY <1>2 DEF Login
  <2> QED BY <1>0, <2>1
<1>3. ASSUME NEW u \in Account, Handle(u) PROVE Goal
  <2>1. PICK l \in LineRecord : LineFits(l, DOMAIN history) /\ Handles(u, l)
    BY <1>3, HandleFacts
  <2>2. UNCHANGED conn \/ (l.cmd = "nick" /\ conn' = [conn EXCEPT ![u] = l.name])
    BY <2>1 DEF Handles
  <2>3. l.cmd = "nick" => l.name \in Name
    BY <2>1 DEF LineFits
  <2> QED BY <1>0, <2>2, <2>3
<1>4. ASSUME NEW u \in Account, Drop(u) PROVE Goal
  <2>1. conn' = [conn EXCEPT ![u] = NoName] /\ sess[u] = "off" /\ sess' = sess
    BY <1>4 DEF Drop
  <2> QED BY <1>0, <1>4, <2>1
<1>5. ASSUME NEW u \in Account,
               \/ WsClosed(u) \/ SendPublic(u) \/ Open(u) \/ RequestState(u) \/ Logout(u)
               \/ OnWelcome(u) \/ OnNick(u) \/ OnMsg(u) \/ OnPriv(u) \/ OnPrivSent(u) \/ OnErr(u)
               \/ CopyTargets(u)
      PROVE  UNCHANGED conn
  BY <1>5 DEF WsClosed, SendPublic, Open, RequestState, Logout, OnWelcome,
       OnNick, OnMsg, OnPriv, OnPrivSent, OnErr, Server, CopyTargets
<1>6. ASSUME NEW u \in Account, NEW b \in Account, SendDirect(u, b) \/ Relay(u, b) \/ CrashInDirect(u, b)
      PROVE  UNCHANGED conn
  BY <1>6 DEF SendDirect, Relay, CrashInDirect, Restart
<1>7. ASSUME NEW u \in Account, NEW c \in Groups, SendGroup(u, c)
      PROVE  UNCHANGED conn
  BY <1>7 DEF SendGroup, Server
<1>8. ASSUME NEW u \in Account, NEW others \in SUBSET Account,
             CreateGroup(u, others) \/ CrashInGroup(u, others)
      PROVE  UNCHANGED conn
  BY <1>8 DEF CreateGroup, CrashInGroup, Restart, Server
<1>9. ASSUME NEW u \in Account, NEW n \in Typed, SetNickname(u, n)
      PROVE  UNCHANGED conn
  BY <1>9 DEF SetNickname
<1>10. ASSUME Crash \/ UNCHANGED vars PROVE UNCHANGED conn
  BY <1>10 DEF Crash, Restart, vars
<1> HIDE DEF Goal
<1>11. ASSUME NEW u \in Account,
              \/ \E b \in Account : SendDirect(u, b) \/ Relay(u, b) \/ CrashInDirect(u, b)
              \/ \E others \in SUBSET Account : CreateGroup(u, others) \/ CrashInGroup(u, others)
              \/ \E n \in Typed : SetNickname(u, n)
              \/ \E c \in Groups : SendGroup(u, c)
       PROVE  Goal
  BY <1>1, <1>6, <1>7, <1>8, <1>9, <1>11
<1>12. Goal
  BY <1>1, <1>2, <1>3, <1>4, <1>5, <1>10, <1>11, Steps
<1> QED BY <1>12 DEF Goal

\* It is bound at every step.
LEMMA BoundStep ==
  ASSUME TypesInv, Bound, [Next]_vars
  PROVE  Bound'
<1>1. SUFFICES ASSUME NEW a \in Account, sess'[a] # "off" PROVE conn'[a] # NoName
  BY DEF Bound
<1>2. NoName \notin Name /\ DOMAIN conn = Account /\ Guest \in [Account -> Name]
  BY RoutingConstants DEF TypesInv, Shapes
<1>3. CASE sess[a] # "off"
  <2>1. conn[a] # NoName
    BY <1>3 DEF Bound
  <2> QED BY <1>1, <1>2, <2>1, ConnMoves
<1>4. CASE sess[a] = "off"
  <2>1. SessMove(a)
    BY SessMoves
  <2>2. ~OnWelcome(a) /\ ~OnNick(a) /\ ~OnErr(a)
    BY <1>4 DEF OnWelcome, OnNick, OnErr, Emitted
  <2>3. Login(a)
    BY <1>1, <1>4, <2>1, <2>2 DEF SessMove
  <2>4. conn' = [conn EXCEPT ![a] = Guest[a]]
    BY <2>3 DEF Login
  <2> QED BY <1>2, <2>4
<1> QED BY <1>3, <1>4

\* The rows of a conversation that is there stay as they are.
LEMMA RowsStay ==
  ASSUME Base, [Next]_vars, NEW c \in DOMAIN convs
  PROVE  c \in DOMAIN convs' /\ convs'[c] = convs[c]
<1>1. CASE UNCHANGED convs
  BY <1>1
<1>2. ASSUME NEW d, NEW ms, convs' = With(convs, d, ms), d \notin DOMAIN convs
      PROVE  c \in DOMAIN convs' /\ convs'[c] = convs[c]
  <2>1. PICK f : f = convs
    OBVIOUS
  <2>2. DOMAIN With(f, d, ms) = DOMAIN f \cup {d}
        /\ \A z \in DOMAIN f : z # d => With(f, d, ms)[z] = f[z]
    BY DEF With
  <2> QED BY <1>2, <2>1, <2>2
<1> QED BY <1>1, <1>2, ConvsMoves

\* A message is stored in a conversation that is there.
LEMMA HomedStep ==
  ASSUME Base, Homed, [Next]_vars
  PROVE  Homed'
<1>0. TypesInv /\ history \in Seq(Row)
  BY DEF Base, TypesInv, Shapes
<1>1. SUFFICES ASSUME NEW m \in DOMAIN history'
               PROVE  history'[m].conv = Public \/ history'[m].conv \in DOMAIN convs'
  BY DEF Homed
<1>2. CASE m \in DOMAIN history
  <2>1. history'[m] = history[m]
    BY <1>0, <1>2, HistoryGrows
  <2>2. history[m].conv = Public \/ history[m].conv \in DOMAIN convs
    BY <1>2 DEF Homed
  <2> QED BY <2>1, <2>2, RowsStay
<1>3. CASE m \notin DOMAIN history
  <2>1. m = Len(history) + 1
    BY <1>0, <1>3, HistoryGrows
  <2>2. ASSUME NEW x, NEW c, Stores(x, c) PROVE history'[m].conv = c
    <3>1. PICK r : r = [conv |-> c, from |-> x]
      OBVIOUS
    <3>2. history'[m] = r
      BY <1>0, <2>1, <2>2, <3>1 DEF Stores
    <3> QED BY <3>1, <3>2
  <2>3. ASSUME NEW a \in Account, NEW b \in Account, SendDirect(a, b), Welcomed(b), Stores(a, Direct(a, b))
        PROVE  history'[m].conv \in DOMAIN convs'
    <3>1. convs' = EnsureDirect(a, b)
      BY <2>3 DEF SendDirect
    <3>2. PICK d : d = Direct(a, b)
      OBVIOUS
    <3>3. convs' = IF d \in DOMAIN convs THEN convs ELSE With(convs, d, {a, b})
      BY <3>1, <3>2 DEF EnsureDirect
    <3>4. DOMAIN With(convs, d, {a, b}) = DOMAIN convs \cup {d}
      BY WithFacts
    <3> QED BY <2>2, <2>3, <3>2, <3>3, <3>4
  <2>4. ASSUME NEW a \in Account, NEW c \in Groups, Stores(a, c)
        PROVE  history'[m].conv \in DOMAIN convs'
    <3>1. c \in DOMAIN convs
      BY DEF Groups
    <3> QED BY <2>2, <2>4, <3>1, RowsStay
  <2>5. history' # history
    BY <1>1, <1>3
  <2> QED BY <1>0, <2>2, <2>3, <2>4, <2>5, HistoryMoves
<1> QED BY <1>2, <1>3

\* Rows of a direct conversation are written for its two sides.
LEMMA PairedStep ==
  ASSUME Base, Paired, [Next]_vars
  PROVE  Paired'
<1>1. SUFFICES ASSUME NEW c \in DOMAIN convs', c.kind = "direct" PROVE convs'[c] \subseteq c.ids
  BY DEF Paired
<1>2. CASE c \in DOMAIN convs
  BY <1>1, <1>2, RowsStay DEF Paired
<1>3. CASE c \notin DOMAIN convs
  <2>1. PICK d \in ConvId \ {Public}, ms \in SUBSET (Account \cup Name) :
              /\ convs' = With(convs, d, ms) /\ Opens(d, ms)
              /\ d \notin DOMAIN convs
    BY <1>1, <1>3, ConvsMoves
  <2>f. PICK f : f = convs
    OBVIOUS
  <2>w. DOMAIN With(f, d, ms) = DOMAIN f \cup {d} /\ With(f, d, ms)[d] = ms
    BY DEF With
  <2>2. DOMAIN With(convs, d, ms) = DOMAIN convs \cup {d} /\ With(convs, d, ms)[d] = ms
    BY <2>f, <2>w
  <2>3. c = d /\ convs'[c] = ms
    BY <1>1, <1>3, <2>1, <2>2
  <2>4. \A i : Group(i).kind = "group"
    BY DEF Group
  <2>5. \A x, y : Direct(x, y).ids = {x, y}
    BY DEF Direct
  <2>6. ASSUME NEW x, NEW y, d = Direct(x, y), ms \subseteq {x, y} PROVE ms \subseteq c.ids
    BY <2>3, <2>5, <2>6
  <2>7. (\E x, y : d = Direct(x, y) /\ ms \subseteq {x, y}) \/ \E i : d = Group(i)
    BY <2>1 DEF Opens
  <2> QED BY <1>1, <2>3, <2>4, <2>6, <2>7
<1> QED BY <1>2, <1>3

\* A line stays in its place until its handler takes it, or its connection is
\* dropped with it.
LEMMA WrittenOn ==
  ASSUME TypesInv, [Next]_vars, NEW s \in Account, NEW m \in DOMAIN history, Written(s, m)
  PROVE  Written(s, m)' \/ (Handle(s) /\ outbox[s][1].m = m) \/ m \in lost'
<1>0. m # 0
  BY DEF TypesInv, Shapes
<1>1. PICK q \in Seq(LineRecord) : q = outbox[s]
  BY DEF TypesInv, Shapes
<1>2. PICK k \in 1 .. Len(q) : q[k].m = m
  BY <1>1 DEF Written
<1>3. PICK r : r = outbox'[s]
  OBVIOUS
<1>4. ASSUME NEW j \in 1 .. Len(r), r[j].m = m PROVE Written(s, m)'
  BY <1>3, <1>4 DEF Written
<1>5. CASE r = q
  BY <1>2, <1>4, <1>5
<1>6. ASSUME NEW l \in LineRecord, NewLine(s, l) PROVE Written(s, m)'
  <2>1. r = Append(q, l)
    BY <1>1, <1>3, <1>6 DEF NewLine
  <2>2. r[k] = q[k] /\ Len(r) = Len(q) + 1 /\ Len(q) \in Nat
    BY <2>1, QueueAppend
  <2>3. k \in 1 .. Len(r)
    BY <2>2
  <2> QED BY <1>2, <1>4, <2>2, <2>3
<1>7. CASE Handle(s) /\ q # <<>> /\ r = Tail(q)
  <2>1. CASE k = 1
    BY <1>1, <1>2, <1>7, <2>1
  <2>2. CASE k # 1
    <3>1. /\ Len(q) \in Nat /\ Len(Tail(q)) = Len(q) - 1
          /\ \A j \in 1 .. Len(Tail(q)) : Tail(q)[j] = q[j + 1]
      BY <1>7, QueueTail
    <3>2. k - 1 \in 1 .. Len(Tail(q)) /\ (k - 1) + 1 = k
      BY <2>2, <3>1
    <3>3. Tail(q)[k - 1] = q[k]
      BY <3>1, <3>2
    <3> QED BY <1>2, <1>4, <1>7, <3>2, <3>3
  <2> QED BY <2>1, <2>2
<1>8. CASE Drop(s)
  <2>1. lost' = lost \cup ({outbox[s][i].m : i \in DOMAIN outbox[s]} \ {0})
    BY <1>8 DEF Drop
  <2>2. k \in DOMAIN outbox[s] /\ outbox[s][k].m = m
    BY <1>1, <1>2
  <2> QED BY <1>0, <2>1, <2>2
<1> QED BY <1>1, <1>3, <1>5, <1>6, <1>7, <1>8, OutboxLines

\* Who a message in conversation c from s comes to by the server.
ComesTo(s, c, a) ==
  \/ c = Public /\ a # s
  \/ \E b \in Account \ {s} : c = Direct(s, b) /\ a \in {s, b}

\* What the handler makes of a line is for all its readers, or it is lost.
LEMMA HandledOn ==
  ASSUME TypesInv, Sent, NEW s \in Account, Handle(s), NEW m \in DOMAIN history,
         outbox[s][1].m = m, m \notin lost', NEW a \in Account, ComesTo(s, history[m].conv, a)
  PROVE  Going(s, m, a)'
<1>0. m # 0
  BY DEF TypesInv, Shapes
<1>1. PICK l \in LineRecord : l = outbox[s][1] /\ LineFits(l, DOMAIN history) /\ Handles(s, l)
  BY HandleFacts
<1>2. l.m = m /\ l.cmd # "nick"
  BY <1>0, <1>1 DEF LineFits
<1>3. LineSent(s, l, history)
  <2>1. 1 \in 1 .. Len(outbox[s])
    BY HandledJobs
  <2> QED BY <1>1, <2>1 DEF Sent
<1>4. ASSUME NEW r, r = relay'[s], NEW k \in 1 .. Len(r), Carries(r[k], m, a) PROVE Going(s, m, a)'
  BY <1>4 DEF Going
<1>5. CASE l.cmd = "say" /\ relay'[s] = <<Bcast(Event("msg", conn[s], NoName, l.m), {s})>>
  <2>1. history[m].conv = Public
    BY <1>2, <1>3, <1>5 DEF LineSent
  <2>2. a # s
    <3>1. \A b : Direct(s, b) # Public
      BY DEF Direct, Public
    <3> QED BY <2>1, <3>1 DEF ComesTo
  <2>3. PICK e : e = Event("msg", conn[s], NoName, l.m)
    OBVIOUS
  <2>4. PICK j : j = Bcast(e, {s})
    OBVIOUS
  <2>5. e.type = "msg" /\ e.m = l.m /\ j.op = "bcast" /\ j.ev = e /\ j.to = {s}
    BY <2>3, <2>4, Parts
  <2>6. Carries(j, m, a)
    BY <1>2, <2>2, <2>5 DEF Carries, Brings, Reaches
  <2>7. PICK r : r = <<j>>
    OBVIOUS
  <2>8. r = relay'[s] /\ Len(r) = 1 /\ r[1] = j
    BY <1>5, <2>3, <2>4, <2>7
  <2> QED BY <1>4, <2>6, <2>8
<1>6. CASE /\ l.cmd = "msg"
           /\ lost' = IF Bearers(s, l.name) = history[l.m].conv.ids \ {s} THEN lost ELSE lost \cup {l.m}
  <2>1. PICK b \in Account \ {s} : history[m].conv = Direct(s, b)
    BY <1>2, <1>3, <1>6 DEF LineSent
  <2>2. history[m].conv.ids = {s, b}
    BY <2>1 DEF Direct
  <2>3. a \in {s, b}
    <3>1. Direct(s, b) # Public /\ \A c : Direct(s, c).ids = {s, c}
      BY DEF Direct, Public
    <3>2. PICK c \in Account \ {s} : Direct(s, b) = Direct(s, c) /\ a \in {s, c}
      BY <2>1, <3>1 DEF ComesTo
    <3> QED BY <3>1, <3>2
  <2>4. Bearers(s, l.name) = {b}
    BY <1>2, <1>6, <2>2
  <2>5. relay'[s] = <<Send(Event("priv", conn[s], NoName, l.m), Bearers(s, l.name)),
                      Send(Event("privSent", l.name, NoName, l.m), {s})>>
    BY <1>1, <1>6, <2>4 DEF Handles
  <2>6. PICK e, f : e = Event("priv", conn[s], NoName, l.m) /\ f = Event("privSent", l.name, NoName, l.m)
    OBVIOUS
  <2>7. PICK i, j : i = Send(e, {b}) /\ j = Send(f, {s})
    OBVIOUS
  <2>8. e.m = l.m /\ f.m = l.m /\ e.type = "priv" /\ f.type = "privSent"
    BY <2>6, Parts
  <2>9. i.op = "send" /\ i.ev = e /\ i.to = {b} /\ j.op = "send" /\ j.ev = f /\ j.to = {s}
    BY <2>7, Parts
  <2>10. Carries(i, m, a) \/ Carries(j, m, a)
    BY <1>2, <2>3, <2>8, <2>9 DEF Carries, Brings, Reaches
  <2>11. PICK r : r = <<i, j>>
    OBVIOUS
  <2>12. r = relay'[s]
    BY <2>4, <2>5, <2>6, <2>7, <2>11
  <2>13. Len(r) = 2 /\ r[1] = i /\ r[2] = j /\ 1 \in 1 .. Len(r) /\ 2 \in 1 .. Len(r)
    BY <2>11
  <2> QED BY <1>4, <2>10, <2>12, <2>13
<1> QED BY <1>1, <1>2, <1>5, <1>6 DEF Handles

\* A job is for whoever it is for until they have the frame.
LEMMA GoingOn ==
  ASSUME TypesInv, [Next]_vars, NEW s \in Account, NEW a \in Account, NEW m, Going(s, m, a),
         sess[a] # "off", conn[a] # NoName
  PROVE  Going(s, m, a)' \/ Arrived(a, m)'
<1>1. PICK q \in Seq(Job) : q = relay[s]
  BY DEF TypesInv, Shapes
<1>2. PICK k \in 1 .. Len(q) : Carries(q[k], m, a)
  BY <1>1 DEF Going
<1>3. PICK r : r = relay'[s]
  OBVIOUS
<1>4. ASSUME NEW j \in 1 .. Len(r), Carries(r[j], m, a) PROVE Going(s, m, a)'
  BY <1>3, <1>4 DEF Going
<1>5. q # <<>> /\ q[k] \in Job /\ q[1] \in Job /\ Len(q) \in Nat /\ 1 \in 1 .. Len(q)
  BY <1>2
<1>6. ASSUME r = Tail(q), k # 1 PROVE Going(s, m, a)'
  <2>1. /\ Len(Tail(q)) = Len(q) - 1
        /\ \A j \in 1 .. Len(Tail(q)) : Tail(q)[j] = q[j + 1]
    BY <1>5, QueueTail
  <2>2. k - 1 \in 1 .. Len(Tail(q)) /\ (k - 1) + 1 = k
    BY <1>5, <1>6, <2>1
  <2>3. Tail(q)[k - 1] = q[k]
    BY <2>1, <2>2
  <2> QED BY <1>2, <1>4, <1>6, <2>2, <2>3
<1>7. ASSUME NEW to \in SUBSET Account, r = <<Send(q[1].ev, to)>> \o Tail(q), k = 1 => a \in to
      PROVE  Going(s, m, a)'
  <2>1. PICK e \in EventRecord : e = q[1].ev
    BY <1>5 DEF Job
  <2>2. PICK j \in Job : j = Send(e, to) /\ j.op = "send" /\ j.to = to /\ j.ev = e
    BY JobTyped
  <2>3. r = <<j>> \o Tail(q)
    BY <1>7, <2>1, <2>2
  <2>4. Len(r) = Len(q) /\ r[1] = j /\ \A i \in 1 .. Len(q) : i # 1 => r[i] = q[i]
    BY <1>5, <2>3, QueueReplace
  <2>5. k \in 1 .. Len(r) /\ 1 \in 1 .. Len(r)
    BY <1>5, <2>4
  <2>6. CASE k = 1
    <3>1. Carries(j, m, a)
      BY <1>2, <1>7, <2>1, <2>2, <2>6 DEF Carries, Reaches
    <3> QED BY <1>4, <2>4, <2>5, <3>1
  <2>7. CASE k # 1
    BY <1>2, <1>4, <2>4, <2>5, <2>7
  <2> QED BY <2>6, <2>7
<1>8. CASE r = q
  BY <1>2, <1>4, <1>8
<1>9. CASE Handle(s)
  <2>1. relay[s] = <<>>
    BY <1>9, HandleFacts
  <2> QED BY <1>1, <1>5, <2>1
<1>10. CASE CopyTargets(s)
  <2>1. q[1].op = "bcast"
    BY <1>1, <1>10, CopyFacts
  <2>2. PICK to \in SUBSET Account : to = Registered \ q[1].to
    BY DEF Registered
  <2>3. a \in Registered
    BY DEF Registered
  <2>4. k = 1 => a \in to
    BY <1>2, <2>1, <2>2, <2>3 DEF Carries, Reaches
  <2>5. (r = Tail(q) /\ Registered \subseteq q[1].to) \/ r = <<Send(q[1].ev, to)>> \o Tail(q)
    BY <1>1, <1>3, <1>10, <2>2, CopyFacts
  <2>6. CASE r = Tail(q) /\ Registered \subseteq q[1].to
    <3>1. k # 1
      BY <2>2, <2>4, <2>6
    <3> QED BY <1>6, <2>6, <3>1
  <2> QED BY <1>7, <2>4, <2>5, <2>6
<1>11. ASSUME NEW b \in Account, Relay(s, b) PROVE Going(s, m, a)' \/ Arrived(a, m)'
  <2>1. /\ q[1].op = "send" /\ b \in q[1].to
        /\ \/ q[1].to = {b} /\ r = Tail(q)
           \/ q[1].to # {b} /\ r = <<Send(q[1].ev, q[1].to \ {b})>> \o Tail(q)
    BY <1>1, <1>3, <1>11, SendFacts
  <2>2. CASE k = 1 /\ a = b
    <3>1. Brings(q[1].ev, m)
      BY <1>2, <2>2 DEF Carries
    <3>2. PICK e \in EventRecord : e = q[1].ev
      BY <1>5 DEF Job
    <3>3. PICK t \in Seq(EventRecord) : t = inbox[a]
      BY DEF TypesInv, Shapes
    <3>4. inbox'[b] = IF sess[b] = "off" THEN inbox[b] ELSE Append(inbox[b], relay[s][1].ev)
      BY <1>11, SendFacts
    <3>5. inbox'[a] = Append(t, e)
      BY <1>1, <2>2, <3>2, <3>3, <3>4
    <3>6. PICK u : u = Append(t, e)
      OBVIOUS
    <3>7. u[Len(t) + 1] = e /\ Len(u) = Len(t) + 1 /\ Len(t) \in Nat
      BY <3>6, QueueAppend
    <3>8. Len(t) + 1 \in 1 .. Len(u)
      BY <3>7
    <3>9. inbox'[a] = u /\ Brings(u[Len(t) + 1], m)
      BY <3>1, <3>2, <3>5, <3>6, <3>7
    <3> QED BY <3>8, <3>9 DEF Arrived
  <2>3. CASE ~(k = 1 /\ a = b)
    <3>1. PICK to \in SUBSET Account : to = q[1].to \ {b}
      BY <1>5 DEF Job
    <3>2. k = 1 => a \in to
      BY <1>2, <2>1, <2>3, <3>1 DEF Carries, Reaches
    <3>3. CASE q[1].to = {b} /\ r = Tail(q)
      <4>1. k # 1
        BY <3>1, <3>2, <3>3
      <4> QED BY <1>6, <3>3, <4>1
    <3>4. CASE r = <<Send(q[1].ev, q[1].to \ {b})>> \o Tail(q)
      BY <1>7, <3>1, <3>2, <3>4
    <3> QED BY <2>1, <3>3, <3>4
  <2> QED BY <2>2, <2>3
<1>12. ASSUME NEW b \in Account, Drop(b),
              r = Among([i \in DOMAIN q |-> Cut(q[i], b)],
                        {i \in DOMAIN q : q[i].op = "bcast" \/ q[i].to # {b}})
       PROVE  Going(s, m, a)'
  <2>1. a # b
    BY <1>12 DEF Drop
  <2>2. PICK t : t = [i \in DOMAIN q |-> Cut(q[i], b)]
    OBVIOUS
  <2>3. \A i \in DOMAIN q : Cut(q[i], b) \in Job
    <3>1. \A i \in DOMAIN q : q[i] \in Job
      OBVIOUS
    <3> QED BY <3>1 DEF Cut, Job
  <2>4. t \in Seq(Job) /\ Len(t) = Len(q)
    BY <1>5, <2>2, <2>3
  <2>5a. DOMAIN q = 1 .. Len(q)
    OBVIOUS
  <2>5. PICK I \in SUBSET (1 .. Len(t)) : I = {i \in DOMAIN q : q[i].op = "bcast" \/ q[i].to # {b}}
    BY <2>4, <2>5a
  <2>6. k \in I
    <3>1. k \in DOMAIN q
      BY <1>2
    <3>2. q[k].op = "bcast" \/ a \in q[k].to
      BY <1>2 DEF Carries, Reaches
    <3> QED BY <2>1, <2>5, <3>1, <3>2
  <2>7. PICK j \in 1 .. Len(Among(t, I)) : Among(t, I)[j] = t[k]
    <3>1. \A i \in I : \E j \in 1 .. Len(Among(t, I)) : Among(t, I)[j] = t[i]
      BY <2>4, AmongSeq
    <3> QED BY <2>6, <3>1
  <2>8. Carries(t[k], m, a)
    <3>1. t[k] = Cut(q[k], b)
      BY <1>2, <2>2
    <3>2. /\ Cut(q[k], b).ev = q[k].ev /\ Cut(q[k], b).op = q[k].op
          /\ Cut(q[k], b).to = IF q[k].op = "send" THEN q[k].to \ {b} ELSE q[k].to
      BY <1>5 DEF Cut, Job
    <3> QED BY <1>2, <2>1, <3>1, <3>2, <1>5 DEF Carries, Reaches, Job
  <2>9. r = Among(t, I)
    BY <1>12, <2>2, <2>5
  <2> QED BY <1>4, <2>7, <2>8, <2>9
<1> QED BY <1>1, <1>3, <1>8, <1>9, <1>10, <1>11, <1>12, RelayMoves

\* A page with a line more says it, and what it said.
LEMMA GainsSays ==
  ASSUME NEW p, PageFits(p), NEW q, NEW c, NEW m, NEW from, Adds(p, q, c, [m |-> m, from |-> from])
  PROVE  Says(q, m)
<1>1. PICK t \in Seq(PageMessage) : t = Said(p, c)
  BY SaidSeq
<1>2. PICK e : e = [m |-> m, from |-> from]
  OBVIOUS
<1>3. PICK u : u = Append(t, e)
  OBVIOUS
<1>4. q.convs[c].messages = u /\ c \in DOMAIN q.convs
  BY <1>1, <1>2, <1>3 DEF Adds
<1>5. u[Len(t) + 1] = e /\ Len(t) + 1 \in 1 .. Len(u)
  BY <1>3
<1>6. e.m = m
  BY <1>2
<1>7. SaysAt(q, c, Len(t) + 1, m)
  BY <1>4, <1>5, <1>6 DEF SaysAt
<1> QED BY <1>7 DEF Says

\* An event of a ready session is there until the page shows it.
LEMMA ArrivedOn ==
  ASSUME TypesInv, [Next]_vars, NEW a \in Account, NEW m, Arrived(a, m),
         sess[a] = "ready", sess'[a] = "ready"
  PROVE  Arrived(a, m)' \/ Says(page'[a], m)
<1>1. PICK q \in Seq(EventRecord) : q = inbox[a]
  BY DEF TypesInv, Shapes
<1>2. PICK k \in 1 .. Len(q) : Brings(q[k], m)
  BY <1>1 DEF Arrived
<1>3. PICK r : r = inbox'[a]
  OBVIOUS
<1>4. ASSUME NEW j \in 1 .. Len(r), Brings(r[j], m) PROVE Arrived(a, m)'
  BY <1>3, <1>4 DEF Arrived
<1>5. CASE r = q
  BY <1>2, <1>4, <1>5
<1>6. CASE OnEvent(a) /\ q # <<>> /\ r = Tail(q)
  <2>1. CASE k # 1
    <3>1. /\ Len(q) \in Nat /\ Len(Tail(q)) = Len(q) - 1
          /\ \A j \in 1 .. Len(Tail(q)) : Tail(q)[j] = q[j + 1]
      BY <1>6, QueueTail
    <3>2. k - 1 \in 1 .. Len(Tail(q)) /\ (k - 1) + 1 = k
      BY <2>1, <3>1
    <3>3. Tail(q)[k - 1] = q[k]
      BY <3>1, <3>2
    <3> QED BY <1>2, <1>4, <1>6, <3>2, <3>3
  <2>2. CASE k = 1
    <3>1. Head(inbox[a]) = q[1]
      BY <1>1, <1>6, QueueTail
    <3>2. Head(inbox[a]).type \in {"msg", "priv", "privSent"} /\ Head(inbox[a]).m = m
      BY <1>2, <2>2, <3>1 DEF Brings
    <3>3. OnMsg(a) \/ OnPriv(a) \/ OnPrivSent(a)
      BY <1>6, <3>2 DEF OnEvent, OnWelcome, OnNick, OnErr, Emitted
    <3>4. PICK c, from : Adds(page[a], page'[a], c, [m |-> Head(inbox[a]).m, from |-> from])
      <4>1. Hears(a)
        BY DEF Hears
      <4>2. \E c \in ConvId, from \in Account \cup {NoUser} :
              /\ IF Hears(a) THEN Adds(page[a], page'[a], c, [m |-> Head(inbox[a]).m, from |-> from])
                 ELSE page'[a] = page[a]
              /\ OnMsg(a) => c = Public
              /\ OnPriv(a) \/ OnPrivSent(a) => c.kind = "direct"
        BY <3>3, MessagePage
      <4> QED BY <4>1, <4>2
    <3> QED BY <3>2, <3>4, GainsSays DEF TypesInv, PagesFit
  <2> QED BY <2>1, <2>2
<1>7. CASE (WsClosed(a) \/ Restart) /\ r = <<>>
  <2>1. sess'[a] = "off"
    BY <1>7 DEF WsClosed, Restart, TypesInv, Shapes
  <2> QED BY <2>1
<1>8. CASE Login(a)
  BY <1>8 DEF Login
<1>9. ASSUME NEW u \in Account, Relay(u, a), r = Append(q, relay[u][1].ev) PROVE Arrived(a, m)'
  <2>1. relay[u][1].ev \in EventRecord
    BY <1>9, SendFacts DEF Job
  <2>2. PICK e \in EventRecord : e = relay[u][1].ev
    BY <2>1
  <2>3. r = Append(q, e)
    BY <1>9, <2>2
  <2>4. r[k] = q[k] /\ Len(r) = Len(q) + 1 /\ Len(q) \in Nat
    BY <2>3, QueueAppend
  <2>5. k \in 1 .. Len(r)
    BY <2>4
  <2> QED BY <1>2, <1>4, <2>4, <2>5
<1> QED BY <1>1, <1>3, <1>5, <1>6, <1>7, <1>8, <1>9, InboxMoves

\* Message m, of a conversation that is no group, is under way to a.
Under(m, a) ==
  LET s == history[m].from IN
  \/ Written(s, m) /\ ComesTo(s, history[m].conv, a)
  \/ Going(s, m, a)
  \/ Arrived(a, m)

\* What a ready page's account may read, in no group, is on the page or under way.
Coming ==
  \A a \in Account, m \in DOMAIN history :
    sess[a] = "ready" /\ a \in Readers(m) /\ m \notin lost /\ history[m].conv.kind # "group"
      => Says(page[a], m) \/ Under(m, a)

\* A page that says the same, or more.
LEMMA CalmKeeps ==
  ASSUME NEW p, NEW q, Calm(p, q), NEW m, Says(p, m)
  PROVE  Says(q, m)
<1>1. PICK c, i : SaysAt(p, c, i, m)
  BY DEF Says
<1>2. SaysAt(q, c, i, m)
  BY <1>1 DEF Calm, SaysAt
<1> QED BY <1>2 DEF Says

\* And a line more.
LEMMA AddsKeeps ==
  ASSUME NEW p, PageFits(p), NEW q, NEW c, NEW e, Adds(p, q, c, e), NEW m, Says(p, m)
  PROVE  Says(q, m)
<1>1. PICK d, i : SaysAt(p, d, i, m)
  BY DEF Says
<1>2. CASE d # c
  <2>1. SaysAt(q, d, i, m)
    BY <1>1, <1>2 DEF Adds, SaysAt
  <2> QED BY <2>1 DEF Says
<1>3. CASE d = c
  <2>1. PICK t \in Seq(PageMessage) : t = Said(p, c)
    BY SaidSeq
  <2>2. t = p.convs[c].messages /\ c \in DOMAIN p.convs
    BY <1>1, <1>3, <2>1 DEF Said, SaysAt
  <2>3. i \in 1 .. Len(t) /\ t[i].m = m
    BY <1>1, <1>3, <2>2 DEF SaysAt
  <2>4. PICK u : u = Append(t, e)
    OBVIOUS
  <2>5. u[i] = t[i] /\ i \in 1 .. Len(u)
    BY <2>3, <2>4
  <2>6. q.convs[c].messages = u /\ c \in DOMAIN q.convs
    BY <2>1, <2>4 DEF Adds
  <2>7. SaysAt(q, c, i, m)
    BY <2>3, <2>5, <2>6 DEF SaysAt
  <2> QED BY <2>7 DEF Says
<1> QED BY <1>2, <1>3

\* A stored message that is under way stays so, or is shown.
LEMMA UnderOn ==
  ASSUME TypesInv, Sent, Bound, [Next]_vars, NEW a \in Account, NEW m \in DOMAIN history,
         Under(m, a), m \notin lost', sess[a] = "ready", sess'[a] = "ready"
  PROVE  Says(page'[a], m) \/ Under(m, a)'
<1>r. history[m] \in Row
  BY DEF TypesInv, Shapes
<1>1. PICK s \in Account : s = history[m].from
  BY <1>r DEF Row
<1>2. history'[m] = history[m]
  BY HistoryGrows
<1>3. PICK c : c = history[m].conv
  OBVIOUS
<1>4. Under(m, a) = ((Written(s, m) /\ ComesTo(s, c, a)) \/ Going(s, m, a) \/ Arrived(a, m))
  BY <1>1, <1>3 DEF Under
<1>5. Under(m, a)' = ((Written(s, m)' /\ ComesTo(s, c, a)) \/ Going(s, m, a)' \/ Arrived(a, m)')
  BY <1>1, <1>2, <1>3 DEF Under, ComesTo
<1>6. CASE Written(s, m) /\ ComesTo(s, c, a)
  <2>1. Written(s, m)' \/ (Handle(s) /\ outbox[s][1].m = m) \/ m \in lost'
    BY <1>6, WrittenOn
  <2>2. CASE Handle(s) /\ outbox[s][1].m = m
    <3>1. Going(s, m, a)'
      BY <1>3, <1>6, <2>2, HandledOn
    <3> QED BY <1>5, <3>1
  <2> QED BY <1>5, <1>6, <2>1, <2>2
<1>7. CASE Going(s, m, a)
  <2>1. conn[a] # NoName
    BY DEF Bound
  <2>2. Going(s, m, a)' \/ Arrived(a, m)'
    BY <1>7, <2>1, GoingOn
  <2> QED BY <1>5, <2>2
<1>8. CASE Arrived(a, m)
  <2>1. Arrived(a, m)' \/ Says(page'[a], m)
    BY <1>8, ArrivedOn
  <2> QED BY <1>5, <2>1
<1> QED BY <1>4, <1>6, <1>7, <1>8

\* What is stored in a step is under way from it, or shown.
LEMMA UnderNew ==
  ASSUME Base, Paired', [Next]_vars, NEW m \in DOMAIN history', m \notin DOMAIN history,
         NEW a \in Account, a \in Readers(m)', history'[m].conv.kind # "group"
  PROVE  Says(page'[a], m) \/ Under(m, a)'
<1>0. TypesInv /\ history \in Seq(Row) /\ DOMAIN outbox = Account
  BY DEF Base, TypesInv, Shapes
<1>1. m = NewMessage /\ m = Len(history) + 1
  BY <1>0, HistoryGrows, NewNumber
<1>2. ASSUME NEW x, NEW c, Stores(x, c) PROVE history'[m].conv = c /\ history'[m].from = x
  <2>1. PICK r : r = [conv |-> c, from |-> x]
    OBVIOUS
  <2>2. history'[m] = r
    BY <1>0, <1>1, <1>2, <2>1 DEF Stores
  <2> QED BY <2>1, <2>2
<1>3. ASSUME NEW x \in Account, NEW cmd, NEW n, Post(x, Line(cmd, n, NewMessage))
      PROVE  Written(x, m)'
  <2>1. PICK l : l = Line(cmd, n, NewMessage)
    OBVIOUS
  <2>2. l.m = m
    BY <1>1, <2>1 DEF Line
  <2>3. outbox'[x] = Append(outbox[x], l)
    BY <1>0, <1>3, <2>1 DEF Post
  <2>4. PICK q \in Seq(LineRecord) : q = outbox[x]
    BY <1>0 DEF TypesInv, Shapes
  <2>5. Append(q, l)[Len(q) + 1] = l /\ Len(q) + 1 \in 1 .. Len(Append(q, l))
    OBVIOUS
  <2> QED BY <2>2, <2>3, <2>4, <2>5 DEF Written
<1>4. ASSUME NEW x \in Account, NEW c, Stores(x, c), Written(x, m)', ComesTo(x, c, a)
      PROVE  Under(m, a)'
  <2>1. history'[m].conv = c /\ history'[m].from = x
    BY <1>2, <1>4
  <2> QED BY <1>4, <2>1 DEF Under, ComesTo
<1>5. ASSUME NEW x \in Account, SendPublic(x), Stores(x, Public)
      PROVE  Says(page'[a], m) \/ Under(m, a)'
  <2>1. CASE a = x
    <3>1. PICK p : Gains(a, p, Public, [m |-> NewMessage, from |-> a])
      BY <1>0, <1>5, <2>1, SendPublicPage
    <3>2. Adds(p, page'[a], Public, [m |-> m, from |-> a]) /\ PageFits(p)
      BY <1>1, <3>1 DEF Gains, Calm
    <3>3. Says(page'[a], m)
      BY <3>2, GainsSays
    <3> QED BY <3>3
  <2>2. CASE a # x
    <3>1. Written(x, m)'
      BY <1>3, <1>5 DEF SendPublic
    <3>2. ComesTo(x, Public, a)
      BY <2>2 DEF ComesTo
    <3> QED BY <1>4, <1>5, <3>1, <3>2
  <2> QED BY <2>1, <2>2
<1>6. ASSUME NEW x \in Account, NEW b \in Account, SendDirect(x, b), Welcomed(b), Stores(x, Direct(x, b))
      PROVE  Under(m, a)'
  <2>1. x # b
    BY <1>6 DEF SendDirect
  <2>2. history' # history
    BY <1>1, NewNumber, <1>0
  <2>3. Post(x, Line("msg", nick[b], NewMessage)) /\ convs' = EnsureDirect(x, b)
    BY <1>6 DEF SendDirect
  <2>4. Written(x, m)'
    BY <1>3, <2>3
  <2>5. PICK c : c = Direct(x, b)
    OBVIOUS
  <2>6. c \in DOMAIN convs'
    <3>1. convs' = IF c \in DOMAIN convs THEN convs ELSE With(convs, c, {x, b})
      BY <2>3, <2>5 DEF EnsureDirect
    <3> QED BY <3>1 DEF With
  <2>7. history'[m].conv = c
    BY <1>2, <1>6, <2>5
  <2>8. c # Public /\ c.kind = "direct" /\ c.ids = {x, b}
    BY <2>5 DEF Direct, Public
  <2>9. a \in convs'[c]
    BY <2>7, <2>8 DEF Readers
  <2>10. convs'[c] \subseteq c.ids
    BY <2>6, <2>8 DEF Paired
  <2>11. ComesTo(x, c, a)
    BY <2>1, <2>5, <2>8, <2>9, <2>10 DEF ComesTo
  <2> QED BY <1>4, <1>6, <2>4, <2>5, <2>11
<1>7. ASSUME NEW x \in Account, NEW c \in Groups, Stores(x, c) PROVE FALSE
  <2>1. c.kind = "group"
    BY DEF Groups
  <2> QED BY <1>2, <1>7, <2>1
<1>8. history' # history
  OBVIOUS
<1> QED BY <1>0, <1>5, <1>6, <1>7, <1>8, HistoryMoves

\* Every step keeps it so.
LEMMA ComingStep ==
  ASSUME Core, Sent, Bound, Homed, Paired, Coming, [Next]_vars
  PROVE  Coming'
<1>0. TypesInv /\ Base
  BY DEF Core, Base
<1>1. SUFFICES ASSUME NEW a \in Account, NEW m \in DOMAIN history', sess'[a] = "ready",
                      a \in Readers(m)', m \notin lost', history'[m].conv.kind # "group"
               PROVE  Says(page'[a], m) \/ Under(m, a)'
  BY DEF Coming
<1>2. CASE m \notin DOMAIN history
  BY <1>0, <1>1, <1>2, PairedStep, UnderNew
<1>3. CASE m \in DOMAIN history
  <2>1. history'[m] = history[m] /\ m \notin lost
    BY <1>0, <1>1, <1>3, HistoryGrows, LostTyped
  <2>2. PICK c : c = history[m].conv
    OBVIOUS
  <2>3. c = Public \/ (c \in DOMAIN convs /\ convs'[c] = convs[c])
    <3>1. c = Public \/ c \in DOMAIN convs
      BY <1>3, <2>2 DEF Homed
    <3> QED BY <1>0, <3>1, RowsStay
  <2>4. a \in Readers(m) /\ (c = Public \/ (c \in DOMAIN convs /\ a \in convs[c]))
    BY <1>1, <2>1, <2>2, <2>3 DEF Readers
  <2>5. ASSUME Keeps(a), Says(page[a], m) => Says(page'[a], m) PROVE Says(page'[a], m) \/ Under(m, a)'
    <3>1. sess[a] = "ready"
      BY <1>1, <2>5 DEF Keeps
    <3>2. Says(page[a], m) \/ Under(m, a)
      BY <1>1, <1>3, <2>1, <2>4, <3>1 DEF Coming
    <3> QED BY <1>0, <1>1, <1>3, <2>5, <3>1, <3>2, UnderOn
  <2>6. CASE Keeps(a) /\ Calm(page[a], page'[a])
    BY <2>5, <2>6, CalmKeeps
  <2>7. ASSUME Keeps(a), NEW p, NEW d, NEW e, Calm(page[a], p), Adds(p, page'[a], d, e)
        PROVE  Says(page'[a], m) \/ Under(m, a)'
    <3>1. PageFits(p)
      BY <2>7 DEF Calm
    <3>2. Says(page[a], m) => Says(p, m)
      BY <2>7, CalmKeeps
    <3>3. Says(p, m) => Says(page'[a], m)
      BY <2>7, <3>1, AddsKeeps
    <3> QED BY <2>5, <2>7, <3>2, <3>3
  <2>8. CASE Snapped(a)
    <3>1. PICK n : Fresh(page'[a], n, a)
      BY <2>8 DEF Snapped
    <3>2. c \in DOMAIN page'[a].convs
      BY <2>4, <3>1 DEF Fresh
    <3>3. Exact(page'[a].convs[c].messages, c)
      BY <3>1, <3>2 DEF Fresh
    <3>4. PICK i \in 1 .. Len(page'[a].convs[c].messages) :
            page'[a].convs[c].messages[i] = [m |-> m, from |-> history[m].from]
      BY <1>3, <2>2, <3>3 DEF Exact
    <3>5. PICK e : e = [m |-> m, from |-> history[m].from]
      OBVIOUS
    <3>6. e.m = m /\ page'[a].convs[c].messages[i] = e
      BY <3>4, <3>5
    <3>7. SaysAt(page'[a], c, i, m)
      BY <3>2, <3>4, <3>6 DEF SaysAt
    <3> QED BY <3>7 DEF Says
  <2> QED BY <1>1, <2>6, <2>7, <2>8, PageMoves DEF Turns
<1> QED BY <1>2, <1>3

\* It is so at start: nothing is stored.
LEMMA ComingAtStart == Init => Bound /\ Homed /\ Paired /\ Coming
<1> SUFFICES ASSUME Init PROVE Bound /\ Homed /\ Paired /\ Coming
  OBVIOUS
<1>1. Home \in [Account -> Name] /\ NoName \notin Name
  BY RoutingConstants
<1>2. history = <<>> /\ DOMAIN history = {} /\ DOMAIN convs = {}
  BY DEF Init
<1>3. Bound
  BY <1>1 DEF Init, Bound
<1> QED BY <1>2, <1>3 DEF Homed, Paired, Coming

\* It says, with what is known of groups, that nothing is missed.
LEMMA ComingMeans ==
  ASSUME Core, GroupsInv, Homed, Coming
  PROVE  NothingMissed
<1>0. TypesInv
  BY DEF Core, Base
<1>1. SUFFICES ASSUME NEW a \in Account, NEW m \in DOMAIN history, sess[a] = "ready",
                      a \in Readers(m), m \notin lost
               PROVE  Shows(a, m) \/ UnderWay(m, history[m].from, a)
  BY DEF NothingMissed
<1>r. history[m] \in Row
  BY <1>0 DEF TypesInv, Shapes
<1>2. PICK s \in Account : s = history[m].from
  BY <1>r DEF Row
<1>3. PICK c : c = history[m].conv
  OBVIOUS
<1>4. CASE c.kind = "group"
  <2>1. c # Public /\ c \in DOMAIN convs /\ a \in convs[c]
    <3>1. c # Public
      BY <1>4 DEF Public
    <3> QED BY <1>1, <1>3, <3>1 DEF Homed, Readers
  <2>2. HasGroups(a, page[a], convs, history)
    BY <1>1 DEF GroupsInv
  <2>3. c \in DOMAIN page[a].convs
    BY <1>4, <2>1, <2>2 DEF HasGroups
  <2>4. Holds(page[a].convs[c].messages, c, history)
    BY <1>4, <2>2, <2>3 DEF HasGroups
  <2>5. PICK i \in DOMAIN page[a].convs[c].messages :
          page[a].convs[c].messages[i] = [m |-> m, from |-> history[m].from]
    BY <1>3, <2>4 DEF Holds
  <2>6. PICK e : e = [m |-> m, from |-> history[m].from]
    OBVIOUS
  <2>7. e.m = m /\ page[a].convs[c].messages[i] = e
    BY <2>5, <2>6
  <2> QED BY <2>3, <2>5, <2>7 DEF Shows
<1>5. CASE c.kind # "group"
  <2>1. Says(page[a], m) \/ Under(m, a)
    BY <1>1, <1>3, <1>5 DEF Coming
  <2>2. CASE Says(page[a], m)
    <3>1. PICK d, i : SaysAt(page[a], d, i, m)
      BY <2>2 DEF Says
    <3>2. PageFits(page[a])
      BY <1>0 DEF TypesInv, PagesFit
    <3>3. d \in DOMAIN page[a].convs /\ page[a].convs[d].messages \in Seq(PageMessage)
      BY <3>1, <3>2, PageFields DEF SaysAt
    <3>4. i \in DOMAIN page[a].convs[d].messages
      BY <3>1, <3>3 DEF SaysAt
    <3> QED BY <3>1, <3>3, <3>4 DEF Shows, SaysAt
  <2>3. CASE Written(s, m)
    <3>1. PICK k \in 1 .. Len(outbox[s]) : outbox[s][k].m = m
      BY <2>3 DEF Written
    <3>2. k \in DOMAIN outbox[s]
      BY <1>0, <3>1 DEF TypesInv, Shapes
    <3> QED BY <1>2, <3>1, <3>2 DEF UnderWay
  <2>4. CASE Going(s, m, a)
    <3>1. PICK k \in 1 .. Len(relay[s]) : Carries(relay[s][k], m, a)
      BY <2>4 DEF Going
    <3>2. k \in DOMAIN relay[s]
      BY <1>0, <3>1 DEF TypesInv, Shapes
    <3>3. relay[s][k].ev.m = m /\ (relay[s][k].op = "bcast" \/ a \in relay[s][k].to)
      BY <3>1 DEF Carries, Brings, Reaches
    <3> QED BY <1>2, <3>2, <3>3 DEF UnderWay
  <2>5. CASE Arrived(a, m)
    <3>1. PICK k \in 1 .. Len(inbox[a]) : Brings(inbox[a][k], m)
      BY <2>5 DEF Arrived
    <3>2. k \in DOMAIN inbox[a]
      BY <1>0, <3>1 DEF TypesInv, Shapes
    <3>3. inbox[a][k].m = m /\ inbox[a][k].type # "err"
      BY <3>1 DEF Brings
    <3> QED BY <3>2, <3>3 DEF UnderWay
  <2> QED BY <1>2, <2>1, <2>2, <2>3, <2>4, <2>5 DEF Under
<1> QED BY <1>4, <1>5

\* A page that is ready shows every stored message its account may read, or the
\* message is on its way to it, or the server refused it or never read it:
\* nothing falls between the snapshot and the broadcasts from then on
\* (gatewayServer.ts:484-499, 264-345, 395-460).
THEOREM NothingIsMissed == Spec => []NothingMissed
<1>1. Core /\ Sent /\ [Next]_vars => Sent'
  BY SentStep DEF Core, Base
<1>2. Core /\ Bound /\ [Next]_vars => Bound'
  BY BoundStep DEF Core, Base
<1>3. Core /\ Homed /\ [Next]_vars => Homed'
  BY HomedStep DEF Core
<1>4. Core /\ Paired /\ [Next]_vars => Paired'
  BY PairedStep DEF Core
<1>5. Core /\ Sent /\ Bound /\ Homed /\ Paired /\ Coming /\ [Next]_vars => Coming'
  BY ComingStep
<1>6. Core /\ GroupsInv /\ [Next]_vars => GroupsInv'
  BY GroupsStep
<1>7. Core /\ GroupsInv /\ Homed /\ Coming => NothingMissed
  BY ComingMeans
<1>8. Init => Sent /\ GroupsInv /\ Bound /\ Homed /\ Paired /\ Coming
  BY OnceAtStart, GroupsAtStart, ComingAtStart
<1> QED BY <1>1, <1>2, <1>3, <1>4, <1>5, <1>6, <1>7, <1>8, CoreAlways, PTL DEF Spec
----------------------------------------------------------------------------
(* Conversations are on the pages of those who have rows in them.          *)

\* Names stay with their accounts: own gives each account names that no other
\* has, its username and default nickname among them.
Owned(own) ==
  /\ own \in [Account -> SUBSET Name]
  /\ \A a \in Account : Home[a] \in own[a] /\ Guest[a] \in own[a]
  /\ \A a, b \in Account : \A n \in own[a] : n \in own[b] => a = b

\* Nobody asks for another name.
AsksOwn(own) == \A a \in Account : \A n \in Typed : SetNickname(a, n) => n \in own[a]

\* Name n is somebody's whose conversation with a is in the table.
Met(own, a, n, cs) == \E b \in Account : n \in own[b] /\ Direct(a, b) \in DOMAIN cs

\* A line of s asks for a name of s, or is to somebody s has met.
LineOwn(own, s, l, cs) ==
  /\ l.cmd = "nick" => l.name \in own[s]
  /\ l.cmd = "msg" => Met(own, s, l.name, cs)

\* An event for a tells of names that stay, or is from somebody a has met.
EventOwn(own, a, e, cs) ==
  /\ e.type = "welcome" => e.who \in own[a]
  /\ e.type = "nick" => \E b \in Account : e.who \in own[b] /\ e.new \in own[b]
  /\ e.type \in {"priv", "privSent"} => Met(own, a, e.who, cs)

\* So does a job, to everybody it has a frame for.
JobOwn(own, j, cs) == \A b \in Account : Reaches(j, b) => EventOwn(own, b, j.ev, cs)

\* Everybody has a name of theirs, or none.
NamesOwn(own) ==
  \A a \in Account : /\ users[a] \in own[a]
                     /\ nick[a] \in own[a] \cup {NoName}
                     /\ conn[a] \in own[a] \cup {NoName}

LinesOwn(own) == \A a \in Account : \A k \in 1 .. Len(outbox[a]) : LineOwn(own, a, outbox[a][k], convs)
JobsOwn(own) == \A a \in Account : \A k \in 1 .. Len(relay[a]) : JobOwn(own, relay[a][k], convs)
EventsOwn(own) == \A a \in Account : \A k \in 1 .. Len(inbox[a]) : EventOwn(own, a, inbox[a][k], convs)

OwnInv(own) == NamesOwn(own) /\ LinesOwn(own) /\ JobsOwn(own) /\ EventsOwn(own)

\* Whoever has a name is told by it.
LEMMA OneOwner ==
  ASSUME NEW own, Owned(own), NEW a \in Account, NEW b \in Account, NEW n, n \in own[a], n \in own[b]
  PROVE  a = b /\ n \in Name /\ n # NoName
<1>1. own[a] \in SUBSET Name
  BY DEF Owned
<1> QED BY <1>1, RoutingConstants DEF Owned

\* Conversations stay, so who has met has met.
LEMMA MetStays ==
  ASSUME Base, [Next]_vars, NEW own
  PROVE  /\ \A a, n : Met(own, a, n, convs) => Met(own, a, n, convs')
         /\ \A s, l : LineOwn(own, s, l, convs) => LineOwn(own, s, l, convs')
         /\ \A a, e : EventOwn(own, a, e, convs) => EventOwn(own, a, e, convs')
         /\ \A j : JobOwn(own, j, convs) => JobOwn(own, j, convs')
<1>1. \A c \in DOMAIN convs : c \in DOMAIN convs'
  BY RowsStay
<1>2. \A a, n : Met(own, a, n, convs) => Met(own, a, n, convs')
  BY <1>1 DEF Met
<1>3. \A s, l : LineOwn(own, s, l, convs) => LineOwn(own, s, l, convs')
  BY <1>2 DEF LineOwn
<1>4. \A a, e : EventOwn(own, a, e, convs) => EventOwn(own, a, e, convs')
  BY <1>2 DEF EventOwn
<1>5. \A j : JobOwn(own, j, convs) => JobOwn(own, j, convs')
  BY <1>4 DEF JobOwn
<1> QED BY <1>2, <1>3, <1>4, <1>5

\* A line that is posted asks for a name of its sender, or is to somebody the
\* sender has met by now.
LEMMA PostsOwn ==
  ASSUME Core, NEW own, Owned(own), NamesOwn(own), [Next]_vars, AsksOwn(own),
         NEW s \in Account, NEW l, Posts(s, l)
  PROVE  LineOwn(own, s, l, convs')
<1>0. TypesInv
  BY DEF Core, Base
<1>p. ASSUME NEW cmd, NEW n, NEW m
      PROVE  Line(cmd, n, m).cmd = cmd /\ Line(cmd, n, m).name = n
  BY DEF Line
<1>1. CASE SendPublic(s) /\ l = Line("say", NoName, NewMessage)
  <2>1. l.cmd = "say"
    BY <1>1, <1>p
  <2> QED BY <2>1 DEF LineOwn
<1>2. ASSUME NEW b \in Account, SendDirect(s, b), Welcomed(b), l = Line("msg", nick[b], NewMessage)
      PROVE  LineOwn(own, s, l, convs')
  <2>1. l.cmd = "msg" /\ l.name = nick[b]
    BY <1>2, <1>p
  <2>2. nick[b] \in own[b]
    <3>1. nick[b] \in Name
      BY <1>0, <1>2 DEF TypesInv, WelcomedNamed
    <3> QED BY <3>1, RoutingConstants DEF NamesOwn
  <2>3. Direct(s, b) \in DOMAIN convs'
    <3>1. convs' = EnsureDirect(s, b)
      BY <1>2 DEF SendDirect
    <3>2. PICK d : d = Direct(s, b)
      OBVIOUS
    <3>3. convs' = IF d \in DOMAIN convs THEN convs ELSE With(convs, d, {s, b})
      BY <3>1, <3>2 DEF EnsureDirect
    <3>4. DOMAIN With(convs, d, {s, b}) = DOMAIN convs \cup {d}
      BY WithFacts
    <3> QED BY <3>2, <3>3, <3>4
  <2>4. Met(own, s, l.name, convs')
    BY <2>1, <2>2, <2>3 DEF Met
  <2> QED BY <2>1, <2>4 DEF LineOwn
<1>3. ASSUME NEW n \in Typed, SetNickname(s, n), l = Line("nick", n, 0)
      PROVE  LineOwn(own, s, l, convs')
  <2>1. l.cmd = "nick" /\ l.name = n
    BY <1>3, <1>p
  <2>2. n \in own[s]
    BY <1>3 DEF AsksOwn
  <2> QED BY <2>1, <2>2 DEF LineOwn
<1>4. CASE OnWelcome(s) /\ l = Line("nick", users[s], 0)
  <2>1. l.cmd = "nick" /\ l.name = users[s]
    BY <1>4, <1>p
  <2> QED BY <2>1 DEF LineOwn, NamesOwn
<1> QED BY <1>1, <1>2, <1>3, <1>4 DEF Posts

\* The lines on their way stay so.
LEMMA LinesOwnStep ==
  ASSUME Core, NEW own, Owned(own), OwnInv(own), [Next]_vars, AsksOwn(own)
  PROVE  LinesOwn(own)'
<1>0. TypesInv /\ Base
  BY DEF Core, Base
<1>1. SUFFICES ASSUME NEW a \in Account, NEW k \in 1 .. Len(outbox'[a])
               PROVE  LineOwn(own, a, outbox'[a][k], convs')
  BY DEF LinesOwn
<1>2. PICK q \in Seq(LineRecord) : q = outbox[a]
  BY <1>0 DEF TypesInv, Shapes
<1>3. \A i \in 1 .. Len(q) : LineOwn(own, a, q[i], convs')
  <2>1. \A i \in 1 .. Len(q) : LineOwn(own, a, q[i], convs)
    BY <1>2 DEF OwnInv, LinesOwn
  <2> QED BY <1>0, <2>1, MetStays
<1>4. CASE outbox'[a] = outbox[a]
  BY <1>1, <1>2, <1>3, <1>4
<1>5. CASE outbox[a] # <<>> /\ outbox'[a] = Tail(outbox[a])
  BY <1>1, <1>2, <1>3, <1>5, QueueTail
<1>6. CASE outbox'[a] = <<>>
  BY <1>1, <1>6
<1>7. ASSUME NEW l \in LineRecord, outbox'[a] = Append(outbox[a], l), Posts(a, l)
      PROVE  LineOwn(own, a, outbox'[a][k], convs')
  <2>1. LineOwn(own, a, l, convs')
    BY <1>7, PostsOwn DEF OwnInv
  <2>2. /\ Append(q, l)[Len(q) + 1] = l
        /\ \A i \in 1 .. Len(q) : Append(q, l)[i] = q[i]
        /\ \A i \in 1 .. Len(Append(q, l)) : i \in 1 .. Len(q) \/ i = Len(q) + 1
    BY QueueAppend
  <2> QED BY <1>1, <1>2, <1>3, <1>7, <2>1, <2>2
<1> QED BY <1>0, <1>4, <1>5, <1>6, <1>7, OutboxMoves

\* A handled line makes jobs that say so: its bearer is the one who was met.
LEMMA HandlesOwn ==
  ASSUME Core, NEW own, Owned(own), OwnInv(own), NEW a \in Account, Handle(a)
  PROVE  \A k \in 1 .. Len(relay'[a]) : JobOwn(own, relay'[a][k], convs)
<1>0. TypesInv
  BY DEF Core, Base
<1>1. PICK l \in LineRecord : l = outbox[a][1] /\ Handles(a, l)
  BY <1>0, HandleFacts
<1>2. 1 \in 1 .. Len(outbox[a]) /\ conn[a] \in Name
  BY <1>0, HandledJobs, HandleFacts
<1>3. LineOwn(own, a, l, convs)
  BY <1>1, <1>2 DEF OwnInv, LinesOwn
<1>4. conn[a] \in own[a]
  BY <1>2, RoutingConstants DEF OwnInv, NamesOwn
<1>e. ASSUME NEW t, NEW w, NEW n, NEW m
      PROVE  Event(t, w, n, m).type = t /\ Event(t, w, n, m).who = w /\ Event(t, w, n, m).new = n
  BY DEF Event
<1>s. \A r, j : r = <<j>> => Len(r) = 1 /\ r[1] = j
  OBVIOUS
<1>o. ASSUME NEW j, relay'[a] = <<j>>, JobOwn(own, j, convs)
      PROVE  \A k \in 1 .. Len(relay'[a]) : JobOwn(own, relay'[a][k], convs)
  BY <1>s, <1>o
<1>5. ASSUME NEW e, NEW to, e.type \notin {"welcome", "nick", "priv", "privSent"}
      PROVE  JobOwn(own, Bcast(e, to), convs) /\ JobOwn(own, Send(e, to), convs)
  BY <1>5, Parts DEF JobOwn, EventOwn
<1>6. CASE l.cmd = "say" /\ relay'[a] = <<Bcast(Event("msg", conn[a], NoName, l.m), {a})>>
  <2>1. PICK e : e = Event("msg", conn[a], NoName, l.m)
    OBVIOUS
  <2>2. e.type = "msg"
    BY <2>1, <1>e
  <2>3. JobOwn(own, Bcast(e, {a}), convs)
    BY <1>5, <2>2
  <2> QED BY <1>6, <1>o, <2>1, <2>3
<1>7. ASSUME NEW n, NEW m, relay'[a] = <<Send(Event("err", NoName, n, m), {a})>>
      PROVE  \A k \in 1 .. Len(relay'[a]) : JobOwn(own, relay'[a][k], convs)
  <2>1. PICK e : e = Event("err", NoName, n, m)
    OBVIOUS
  <2>2. e.type = "err"
    BY <2>1, <1>e
  <2>3. JobOwn(own, Send(e, {a}), convs)
    BY <1>5, <2>2
  <2> QED BY <1>7, <1>o, <2>1, <2>3
<1>8. CASE l.cmd = "nick" /\ relay'[a] = <<Bcast(Event("nick", conn[a], l.name, 0), {})>>
  <2>1. PICK e : e = Event("nick", conn[a], l.name, 0)
    OBVIOUS
  <2>2. e.type = "nick" /\ e.who = conn[a] /\ e.new = l.name
    BY <2>1, <1>e
  <2>3. e.who \in own[a] /\ e.new \in own[a]
    BY <1>3, <1>4, <1>8, <2>2 DEF LineOwn
  <2>4. \A b : EventOwn(own, b, e, convs)
    BY <2>2, <2>3 DEF EventOwn
  <2>5. JobOwn(own, Bcast(e, {}), convs)
    BY <2>4, Parts DEF JobOwn
  <2> QED BY <1>8, <1>o, <2>1, <2>5
<1>9. CASE /\ l.cmd = "msg"
           /\ relay'[a] = <<Send(Event("priv", conn[a], NoName, l.m), Bearers(a, l.name)),
                            Send(Event("privSent", l.name, NoName, l.m), {a})>>
  <2>1. PICK e : e = Event("priv", conn[a], NoName, l.m)
    OBVIOUS
  <2>2. PICK f : f = Event("privSent", l.name, NoName, l.m)
    OBVIOUS
  <2>3. e.type = "priv" /\ e.who = conn[a] /\ f.type = "privSent" /\ f.who = l.name
    BY <2>1, <2>2, <1>e
  <2>4. Met(own, a, l.name, convs)
    BY <1>3, <1>9 DEF LineOwn
  <2>5. PICK b \in Account : l.name \in own[b] /\ Direct(a, b) \in DOMAIN convs
    BY <2>4 DEF Met
  <2>6. ASSUME NEW t \in Bearers(a, l.name) PROVE EventOwn(own, t, e, convs)
    <3>1. t \in Account /\ conn[t] = l.name
      BY DEF Bearers
    <3>2. l.name \in Name
      BY <2>5, OneOwner
    <3>3. l.name \in own[t]
      BY <3>1, <3>2, RoutingConstants DEF OwnInv, NamesOwn
    <3>4. t = b
      BY <2>5, <3>1, <3>3, OneOwner
    <3>5. Direct(t, a) = Direct(a, t)
      BY DEF Direct
    <3>6. Met(own, t, conn[a], convs)
      BY <1>4, <2>5, <3>4, <3>5 DEF Met
    <3> QED BY <2>3, <3>6 DEF EventOwn
  <2>7. EventOwn(own, a, f, convs)
    BY <2>3, <2>4 DEF EventOwn
  <2>8. PICK ts : ts = Bearers(a, l.name)
    OBVIOUS
  <2>9. JobOwn(own, Send(e, ts), convs)
    BY <2>6, <2>8, Parts DEF JobOwn, Reaches
  <2>10. JobOwn(own, Send(f, {a}), convs)
    BY <2>7, Parts DEF JobOwn, Reaches
  <2>11. PICK i, j : i = Send(e, ts) /\ j = Send(f, {a})
    OBVIOUS
  <2>12. relay'[a] = <<i, j>>
    BY <1>9, <2>1, <2>2, <2>8, <2>11
  <2>13. /\ Len(<<i, j>>) = 2 /\ <<i, j>>[1] = i /\ <<i, j>>[2] = j
         /\ \A k \in 1 .. 2 : k = 1 \/ k = 2
    OBVIOUS
  <2> QED BY <2>9, <2>10, <2>11, <2>12, <2>13
<1> QED BY <1>1, <1>6, <1>7, <1>8, <1>9 DEF Handles

\* The jobs stay so, and what is left of them.
LEMMA JobsOwnStep ==
  ASSUME Core, NEW own, Owned(own), OwnInv(own), [Next]_vars
  PROVE  JobsOwn(own)'
<1>0. TypesInv /\ Base
  BY DEF Core, Base
<1>1. SUFFICES ASSUME NEW a \in Account, NEW k \in 1 .. Len(relay'[a])
               PROVE  JobOwn(own, relay'[a][k], convs')
  BY DEF JobsOwn
<1>2. CASE Handle(a)
  <2>1. JobOwn(own, relay'[a][k], convs)
    BY <1>1, <1>2, HandlesOwn
  <2> QED BY <1>0, <2>1, MetStays
<1>3. CASE Left(relay[a], relay'[a])
  <2>1. PICK i \in 1 .. Len(relay[a]) : Stems(relay[a][i], relay'[a][k])
    BY <1>1, <1>3 DEF Left
  <2>2. JobOwn(own, relay[a][i], convs)
    BY DEF OwnInv, JobsOwn
  <2>3. JobOwn(own, relay[a][i], convs')
    BY <1>0, <2>2, MetStays
  <2>4. PICK j, r : j = relay[a][i] /\ r = relay'[a][k]
    OBVIOUS
  <2>5. \A b \in Account : Reaches(r, b) => Reaches(j, b)
    BY <2>1, <2>4 DEF Stems, Reaches
  <2>6. r.ev = j.ev
    BY <2>1, <2>4 DEF Stems
  <2>7. JobOwn(own, r, convs')
    BY <2>3, <2>4, <2>5, <2>6 DEF JobOwn
  <2> QED BY <2>4, <2>7
<1> QED BY <1>0, <1>2, <1>3, RelayBack

\* And the events that come of them.
LEMMA EventsOwnStep ==
  ASSUME Core, NEW own, Owned(own), OwnInv(own), [Next]_vars
  PROVE  EventsOwn(own)'
<1>0. TypesInv /\ Base
  BY DEF Core, Base
<1>1. SUFFICES ASSUME NEW a \in Account, NEW k \in 1 .. Len(inbox'[a])
               PROVE  EventOwn(own, a, inbox'[a][k], convs')
  BY DEF EventsOwn
<1>2. PICK q \in Seq(EventRecord) : q = inbox[a]
  BY <1>0 DEF TypesInv, Shapes
<1>3. \A i \in 1 .. Len(q) : EventOwn(own, a, q[i], convs')
  <2>1. \A i \in 1 .. Len(q) : EventOwn(own, a, q[i], convs)
    BY <1>2 DEF OwnInv, EventsOwn
  <2> QED BY <1>0, <2>1, MetStays
<1>4. CASE inbox'[a] = inbox[a]
  BY <1>1, <1>2, <1>3, <1>4
<1>5. CASE inbox[a] # <<>> /\ inbox'[a] = Tail(inbox[a])
  BY <1>1, <1>2, <1>3, <1>5, QueueTail
<1>6. CASE inbox'[a] = <<>>
  BY <1>1, <1>6
<1>7. CASE inbox'[a] = <<Event("welcome", Guest[a], NoName, 0)>>
  <2>1. PICK e : e = Event("welcome", Guest[a], NoName, 0)
    OBVIOUS
  <2>2. e.type = "welcome" /\ e.who = Guest[a]
    BY <2>1 DEF Event
  <2>3. EventOwn(own, a, e, convs')
    BY <2>2 DEF EventOwn, Owned
  <2>4. Len(<<e>>) = 1 /\ <<e>>[1] = e
    OBVIOUS
  <2> QED BY <1>1, <1>7, <2>1, <2>3, <2>4
<1>8. ASSUME NEW u \in Account, Relay(u, a), inbox'[a] = Append(inbox[a], relay[u][1].ev)
      PROVE  EventOwn(own, a, inbox'[a][k], convs')
  <2>1. /\ relay[u] # <<>> /\ relay[u][1].op = "send" /\ a \in relay[u][1].to
        /\ relay[u][1] \in Job
    BY <1>0, <1>8, SendFacts
  <2>2. 1 \in 1 .. Len(relay[u])
    BY <1>0, <2>1, QueueTail DEF TypesInv, Shapes
  <2>3. PICK j \in Job : j = relay[u][1]
    BY <2>1
  <2>4. JobOwn(own, j, convs)
    BY <2>2, <2>3 DEF OwnInv, JobsOwn
  <2>5. Reaches(j, a)
    BY <2>1, <2>3 DEF Reaches
  <2>6. PICK e \in EventRecord : e = j.ev
    BY DEF Job
  <2>7. EventOwn(own, a, e, convs)
    BY <2>4, <2>5, <2>6 DEF JobOwn
  <2>8. EventOwn(own, a, e, convs')
    BY <1>0, <2>7, MetStays
  <2>9. /\ Append(q, e)[Len(q) + 1] = e
        /\ \A i \in 1 .. Len(q) : Append(q, e)[i] = q[i]
        /\ \A i \in 1 .. Len(Append(q, e)) : i \in 1 .. Len(q) \/ i = Len(q) + 1
    BY QueueAppend
  <2> QED BY <1>1, <1>2, <1>3, <1>8, <2>3, <2>6, <2>8, <2>9
<1> QED BY <1>0, <1>4, <1>5, <1>6, <1>7, <1>8, InboxMoves

\* Names stay with their accounts, in the gateway, its table and the server.
LEMMA NamesOwnStep ==
  ASSUME Core, NEW own, Owned(own), OwnInv(own), [Next]_vars
  PROVE  NamesOwn(own)'
<1> DEFINE Goal == NamesOwn(own)'
<1>0. /\ TypesInv /\ DOMAIN nick = Account /\ DOMAIN conn = Account /\ DOMAIN users = Account
      /\ NoName \notin Name /\ \A a \in Account : Guest[a] \in own[a]
      /\ \A a \in Account : /\ users[a] \in own[a]
                            /\ nick[a] \in own[a] \cup {NoName}
                            /\ conn[a] \in own[a] \cup {NoName}
  BY RoutingConstants DEF Core, Base, TypesInv, Shapes, OwnInv, NamesOwn, Owned
<1>1. ASSUME UNCHANGED <<users, nick, conn>> PROVE Goal
  BY <1>0, <1>1 DEF NamesOwn
<1>2. ASSUME NEW a \in Account, Login(a) PROVE Goal
  <2>1. UNCHANGED <<users, nick>> /\ conn' = [conn EXCEPT ![a] = Guest[a]]
    BY <1>2 DEF Login, Database
  <2>2. conn'[a] = Guest[a] /\ \A b \in Account : b # a => conn'[b] = conn[b]
    BY <1>0, <2>1
  <2> QED BY <1>0, <2>1, <2>2 DEF NamesOwn
<1>3. ASSUME NEW a \in Account, WsClosed(a) PROVE Goal
  <2>1. UNCHANGED <<users, conn>> /\ nick' = [nick EXCEPT ![a] = NoName]
    BY <1>3 DEF WsClosed, Database
  <2>2. nick'[a] = NoName /\ \A b \in Account : b # a => nick'[b] = nick[b]
    BY <1>0, <2>1
  <2> QED BY <1>0, <2>1, <2>2 DEF NamesOwn
<1>4. ASSUME NEW a \in Account, OnWelcome(a) PROVE Goal
  <2>1. /\ UNCHANGED <<users, conn>> /\ nick' = [nick EXCEPT ![a] = Head(inbox[a]).who]
        /\ inbox[a] # <<>> /\ Head(inbox[a]).type = "welcome"
    BY <1>4 DEF OnWelcome, Emitted, Database
  <2>2. Head(inbox[a]) = inbox[a][1] /\ 1 \in 1 .. Len(inbox[a])
    BY <1>0, <2>1, HeadEvent
  <2>3. EventOwn(own, a, inbox[a][1], convs)
    BY <2>2 DEF OwnInv, EventsOwn
  <2>4. Head(inbox[a]).who \in own[a]
    BY <2>1, <2>2, <2>3 DEF EventOwn
  <2>5. nick'[a] = Head(inbox[a]).who /\ \A b \in Account : b # a => nick'[b] = nick[b]
    BY <1>0, <2>1
  <2> QED BY <1>0, <2>1, <2>4, <2>5 DEF NamesOwn
<1>5. ASSUME NEW a \in Account, OnNick(a) PROVE Goal
  <2>1. conn' = conn /\ inbox[a] # <<>> /\ Head(inbox[a]).type = "nick"
    BY <1>5 DEF OnNick, Emitted
  <2>2. CASE UNCHANGED <<users, nick>>
    BY <1>1, <2>1, <2>2
  <2>3. CASE ~UNCHANGED <<users, nick>>
    <3>1. PICK e : e = Head(inbox[a])
      OBVIOUS
    <3>2. e = inbox[a][1] /\ 1 \in 1 .. Len(inbox[a])
      BY <1>0, <2>1, <3>1, HeadEvent
    <3>3. /\ e.who = nick[a] /\ nick' = [nick EXCEPT ![a] = e.new]
          /\ users' = users \/ users' = [users EXCEPT ![a] = e.new]
      <4>1. Mine(a, e)
        BY <1>5, <2>3, <3>1 DEF OnNick
      <4>2. nick' = [nick EXCEPT ![a] = e.new]
        BY <1>5, <3>1, <4>1 DEF OnNick
      <4>3. users' = users \/ users' = [users EXCEPT ![a] = e.new]
        BY <1>5, <3>1, <4>1 DEF OnNick
      <4> QED BY <4>1, <4>2, <4>3 DEF Mine
    <3>4. EventOwn(own, a, e, convs)
      BY <3>2 DEF OwnInv, EventsOwn
    <3>5. PICK b \in Account : e.who \in own[b] /\ e.new \in own[b]
      BY <2>1, <3>1, <3>4 DEF EventOwn
    <3>6. a = b
      <4>1. e.who # NoName
        BY <3>5, OneOwner
      <4>2. e.who \in own[a]
        BY <1>0, <3>3, <4>1
      <4> QED BY <3>5, <4>2, OneOwner
    <3>7. nick'[a] = e.new /\ \A u \in Account : u # a => nick'[u] = nick[u]
      BY <1>0, <3>3
    <3>8. users'[a] \in {users[a], e.new} /\ \A u \in Account : u # a => users'[u] = users[u]
      BY <1>0, <3>3
    <3> QED BY <1>0, <2>1, <3>5, <3>6, <3>7, <3>8 DEF NamesOwn
  <2> QED BY <2>2, <2>3
<1>6. ASSUME NEW a \in Account, Handle(a) PROVE Goal
  <2>1. UNCHANGED <<users, nick>>
    BY <1>6 DEF Handle, Database
  <2>2. PICK l \in LineRecord : l = outbox[a][1] /\ Handles(a, l)
    BY <1>0, <1>6, HandleFacts
  <2>3. 1 \in 1 .. Len(outbox[a])
    BY <1>0, <1>6, HandledJobs
  <2>4. LineOwn(own, a, l, convs)
    BY <2>2, <2>3 DEF OwnInv, LinesOwn
  <2>5. UNCHANGED conn \/ (l.cmd = "nick" /\ conn' = [conn EXCEPT ![a] = l.name])
    BY <2>2 DEF Handles
  <2>6. CASE l.cmd = "nick" /\ conn' = [conn EXCEPT ![a] = l.name]
    <3>1. l.name \in own[a]
      BY <2>4, <2>6 DEF LineOwn
    <3>2. conn'[a] = l.name /\ \A b \in Account : b # a => conn'[b] = conn[b]
      BY <1>0, <2>6
    <3> QED BY <1>0, <2>1, <3>1, <3>2 DEF NamesOwn
  <2> QED BY <1>1, <2>1, <2>5, <2>6
<1>7. ASSUME NEW a \in Account, Drop(a) PROVE Goal
  <2>1. UNCHANGED <<users, nick>> /\ conn' = [conn EXCEPT ![a] = NoName]
    BY <1>7 DEF Drop, Database
  <2>2. conn'[a] = NoName /\ \A b \in Account : b # a => conn'[b] = conn[b]
    BY <1>0, <2>1
  <2> QED BY <1>0, <2>1, <2>2 DEF NamesOwn
<1>8. ASSUME Restart PROVE Goal
  <2>1. UNCHANGED <<users, conn>> /\ nick' = [a \in Account |-> NoName]
    BY <1>8 DEF Restart
  <2>2. \A b \in Account : nick'[b] = NoName
    BY <2>1
  <2> QED BY <1>0, <2>1, <2>2 DEF NamesOwn
<1>9. ASSUME NEW u \in Account,
             \/ SendPublic(u) \/ Open(u) \/ RequestState(u) \/ Logout(u)
             \/ OnMsg(u) \/ OnPriv(u) \/ OnPrivSent(u) \/ OnErr(u) \/ CopyTargets(u)
             \/ (\E b \in Account : SendDirect(u, b) \/ Relay(u, b))
             \/ (\E c \in Groups : SendGroup(u, c))
             \/ (\E others \in SUBSET Account : CreateGroup(u, others))
             \/ (\E n \in Typed : SetNickname(u, n))
      PROVE  UNCHANGED <<users, nick, conn>>
  <2>1. CASE \/ SendPublic(u) \/ Open(u) \/ RequestState(u) \/ Logout(u)
             \/ OnMsg(u) \/ OnPriv(u) \/ OnPrivSent(u) \/ OnErr(u) \/ CopyTargets(u)
    BY <2>1 DEF SendPublic, Open, RequestState, Logout, OnMsg, OnPriv, OnPrivSent, OnErr,
       CopyTargets, Server, Database
  <2>2. ASSUME NEW b \in Account, SendDirect(u, b) \/ Relay(u, b)
        PROVE  UNCHANGED <<users, nick, conn>>
    BY <2>2 DEF SendDirect, Relay, Database
  <2>3. ASSUME NEW c \in Groups, SendGroup(u, c)
        PROVE  UNCHANGED <<users, nick, conn>>
    BY <2>3 DEF SendGroup, Server
  <2>4. ASSUME NEW others \in SUBSET Account, CreateGroup(u, others)
        PROVE  UNCHANGED <<users, nick, conn>>
    BY <2>4 DEF CreateGroup, Server
  <2>5. ASSUME NEW n \in Typed, SetNickname(u, n)
        PROVE  UNCHANGED <<users, nick, conn>>
    BY <2>5 DEF SetNickname, Database
  <2> QED BY <1>9, <2>1, <2>2, <2>3, <2>4, <2>5
<1>10. ASSUME \/ Crash
              \/ \E u, b \in Account : CrashInDirect(u, b)
              \/ \E u \in Account, others \in SUBSET Account : CrashInGroup(u, others)
       PROVE  Restart
  BY <1>10 DEF Crash, CrashInDirect, CrashInGroup
<1>11. ASSUME UNCHANGED vars PROVE UNCHANGED <<users, nick, conn>>
  BY <1>11 DEF vars
<1> HIDE DEF Goal
<1>12. ASSUME NEW u \in Account,
              \/ \E b \in Account : SendDirect(u, b) \/ Relay(u, b) \/ CrashInDirect(u, b)
              \/ \E others \in SUBSET Account : CreateGroup(u, others) \/ CrashInGroup(u, others)
              \/ \E n \in Typed : SetNickname(u, n)
              \/ \E c \in Groups : SendGroup(u, c)
       PROVE  Goal
  BY <1>1, <1>8, <1>9, <1>10, <1>12
<1>13. Goal
  BY <1>1, <1>2, <1>3, <1>4, <1>5, <1>6, <1>7, <1>8, <1>9, <1>10, <1>11, <1>12, Steps
<1> QED BY <1>13 DEF Goal

\* All of it is inductive.
LEMMA OwnStep ==
  ASSUME Core, NEW own, Owned(own), OwnInv(own), [Next]_vars, [AsksOwn(own)]_vars
  PROVE  OwnInv(own)'
<1>1. CASE AsksOwn(own)
  <2>1. NamesOwn(own)' /\ LinesOwn(own)' /\ JobsOwn(own)' /\ EventsOwn(own)'
    BY <1>1, NamesOwnStep, LinesOwnStep, JobsOwnStep, EventsOwnStep
  <2> QED BY <2>1 DEF OwnInv
<1>2. CASE UNCHANGED vars
  BY <1>2 DEF OwnInv, NamesOwn, LinesOwn, JobsOwn, EventsOwn, vars
<1> QED BY <1>1, <1>2

\* The conversation an event names is there, if a bearer of the name was found.
LEMMA BearerMet ==
  ASSUME Core, NEW own, Owned(own), OwnInv(own), NEW a \in Account, OnPriv(a) \/ OnPrivSent(a),
         NEW x \in FoundByNickname(Head(inbox[a]).who, Head(inbox[a]).who)
  PROVE  Direct(a, x) \in DOMAIN convs \/ x \in Name
<1>0. TypesInv
  BY DEF Core, Base
<1>1. PICK e : e = inbox[a][1]
  OBVIOUS
<1>2. inbox[a] # <<>> /\ Head(inbox[a]) = e /\ e.type \in {"priv", "privSent"} /\ e.who \in Name
  <2>1. inbox[a] # <<>> /\ Head(inbox[a]) = inbox[a][1] /\ Head(inbox[a]).who \in Name
    BY <1>0, PrivNamed
  <2>2. Head(inbox[a]).type \in {"priv", "privSent"}
    BY DEF OnPriv, OnPrivSent, Emitted
  <2> QED BY <1>1, <2>1, <2>2
<1>3. 1 \in 1 .. Len(inbox[a])
  BY <1>0, <1>2, HeadEvent
<1>4. EventOwn(own, a, e, convs)
  BY <1>1, <1>3 DEF OwnInv, EventsOwn
<1>5. PICK b \in Account : e.who \in own[b] /\ Direct(a, b) \in DOMAIN convs
  BY <1>2, <1>4 DEF EventOwn, Met
<1>6. (x \in Account /\ Welcomed(x) /\ nick[x] = e.who) \/ x = e.who
  BY <1>2, Found
<1>7. CASE x \in Account /\ nick[x] = e.who
  <2>1. e.who \in own[x]
    BY <1>2, <1>7, RoutingConstants DEF OwnInv, NamesOwn
  <2>2. x = b
    BY <1>5, <1>7, <2>1, OneOwner
  <2> QED BY <1>5, <2>2
<1> QED BY <1>2, <1>6, <1>7

\* The members of a new group that are ready are told of it.
LEMMA GroupTold ==
  ASSUME Base, NEW u \in Account, NEW others \in SUBSET Account, CreateGroup(u, others),
         \A b \in {u} \cup others : Welcomed(b),
         NEW a \in {u} \cup others, sess[a] = "ready"
  PROVE  Group(Cardinality(Groups) + 1) \in DOMAIN page'[a].convs
<1>1. (\A b \in {u} \cup others : Welcomed(b)) =>
         /\ convs' = With(convs, Group(Cardinality(Groups) + 1), {u} \cup others)
         /\ \A b \in Account :
              /\ Calm(page[b], page'[b]) /\ page'[b].users = page[b].users
              /\ DOMAIN page'[b].convs =
                   IF b \in {u} \cup others /\ sess[b] = "ready"
                     THEN DOMAIN page[b].convs \cup {Group(Cardinality(Groups) + 1)}
                   ELSE DOMAIN page[b].convs
  BY CreateGroupPage
<1>2. DOMAIN page'[a].convs =
        IF a \in {u} \cup others /\ sess[a] = "ready"
          THEN DOMAIN page[a].convs \cup {Group(Cardinality(Groups) + 1)}
        ELSE DOMAIN page[a].convs
  BY <1>1
<1> QED BY <1>2

\* Whoever has a row in a conversation has it on the page, or gets it now.
LEMMA ConversationsStep ==
  ASSUME Core, NEW own, Owned(own), OwnInv(own), ConversationsShown, [Next]_vars
  PROVE  ConversationsShown'
<1>0. TypesInv /\ Base /\ Account \cap Name = {}
  BY RoutingConstants DEF Core, Base
<1>1. SUFFICES ASSUME NEW a \in Account, NEW c \in DOMAIN convs', sess'[a] = "ready", a \in convs'[c]
               PROVE  c \in DOMAIN page'[a].convs
  BY DEF ConversationsShown
<1>2. CASE Snapped(a)
  <2>1. convs' = convs /\ \E n : Fresh(page'[a], n, a)
    BY <1>2 DEF Snapped
  <2> QED BY <1>1, <2>1 DEF Fresh
<1>3. CASE Keeps(a) /\ DOMAIN page[a].convs \subseteq DOMAIN page'[a].convs
  <2>1. sess[a] = "ready"
    BY <1>1, <1>3 DEF Keeps
  <2>2. CASE c \in DOMAIN convs
    <3>1. convs'[c] = convs[c]
      BY <1>0, <2>2, RowsStay
    <3>2. c \in DOMAIN page[a].convs
      BY <1>1, <2>1, <2>2, <3>1 DEF ConversationsShown
    <3> QED BY <1>3, <3>2
  <2>3. CASE c \notin DOMAIN convs
    <3>1. PICK d \in ConvId \ {Public}, ms \in SUBSET (Account \cup Name) :
                /\ convs' = With(convs, d, ms) /\ Opens(d, ms)
                /\ d \notin DOMAIN convs
      BY <1>0, <1>1, <2>3, ConvsMoves
    <3>2. PICK f : f = convs
      OBVIOUS
    <3>3. DOMAIN With(f, d, ms) = DOMAIN f \cup {d} /\ With(f, d, ms)[d] = ms
      BY DEF With
    <3>4. c = d /\ a \in ms
      BY <1>1, <2>3, <3>1, <3>2, <3>3
    <3>5. ASSUME NEW u \in Account, NEW b \in Account, SendDirect(u, b), Welcomed(b),
                 d = Direct(u, b), ms = {u, b}
          PROVE  c \in DOMAIN page'[a].convs
      <4>1. /\ DOMAIN page'[u].convs = DOMAIN page[u].convs \cup {Direct(u, b)}
            /\ (Direct(u, b) \notin DOMAIN convs /\ sess[b] = "ready"
                 => Direct(u, b) \in DOMAIN page'[b].convs)
        BY <1>0, <3>5, SendDirectPage
      <4> QED BY <2>1, <3>1, <3>4, <3>5, <4>1
    <3>6. ASSUME NEW u \in Account, NEW others \in SUBSET Account, CreateGroup(u, others),
                 \A b \in {u} \cup others : Welcomed(b),
                 d = Group(Cardinality(Groups) + 1), ms = {u} \cup others
          PROVE  c \in DOMAIN page'[a].convs
      <4>1. a \in {u} \cup others
        BY <3>4, <3>6
      <4> QED BY <1>0, <2>1, <3>4, <3>6, <4>1, GroupTold
    <3>7. ASSUME NEW u \in Account, OnPriv(u) \/ OnPrivSent(u)
          PROVE  c \in DOMAIN page'[a].convs
      <4>1. PICK n : n = Head(inbox[u]).who
        OBVIOUS
      <4>2. PICK m \in 1 .. MaxMessages : m = Head(inbox[u]).m
        BY <1>0, <3>7, PrivNamed
      <4>3. PICK x \in FoundByNickname(n, n), from \in Account \cup {NoUser} :
              convs' = EnsureDirect(u, x) /\ Shown(u, Direct(u, x), m, from)
        BY <3>7, <4>1, <4>2 DEF OnPriv, OnPrivSent
      <4>4. x \in Account \cup Name
        BY <1>0, <3>7, <4>1, <4>3, PrivNamed
      <4>5. PICK k \in ConvId : k = Direct(u, x)
        BY <4>4, DirectId
      <4>6. convs' = IF k \in DOMAIN convs THEN convs ELSE With(convs, k, {u, x})
        BY <4>3, <4>5 DEF EnsureDirect
      <4>7. k \notin DOMAIN convs /\ convs' = With(convs, k, {u, x})
        BY <1>1, <2>3, <4>6
      <4>8. DOMAIN With(f, k, {u, x}) = DOMAIN f \cup {k} /\ With(f, k, {u, x})[k] = {u, x}
        BY DEF With
      <4>9. c = k /\ a \in {u, x}
        BY <1>1, <2>3, <3>2, <4>7, <4>8
      <4>10. x \in Name
        BY <3>7, <4>1, <4>3, <4>5, <4>7, BearerMet
      <4>11. a = u
        BY <1>0, <4>9, <4>10
      <4>12. Hears(a)
        BY <2>1 DEF Hears
      <4>13. Adds(page[u], page'[u], k, [m |-> m, from |-> from])
        <5>1. Shown(u, k, m, from)
          BY <4>3, <4>5
        <5> QED BY <1>0, <4>11, <4>12, <5>1, ShownPage
      <4> QED BY <4>9, <4>11, <4>13 DEF Adds
    <3>8. ~Restart
      BY <1>1 DEF Restart
    <3> QED BY <3>1, <3>5, <3>6, <3>7, <3>8 DEF Opens
  <2> QED BY <2>2, <2>3
<1>4. ASSUME NEW p, NEW r, NEW d, NEW e, Calm(page[a], p), Adds(p, r, d, e)
      PROVE  DOMAIN page[a].convs \subseteq DOMAIN r.convs
  BY <1>4 DEF Calm, Adds
<1>5. Calm(page[a], page'[a]) => DOMAIN page[a].convs \subseteq DOMAIN page'[a].convs
  BY DEF Calm
<1>6. Turns(a)
  BY PageMoves
<1>7. CASE Keeps(a) /\ \E p, d, e : Calm(page[a], p) /\ Adds(p, page'[a], d, e) /\ Brought(a, d, e)
  <2>1. PICK r : r = page'[a]
    OBVIOUS
  <2>2. DOMAIN page[a].convs \subseteq DOMAIN r.convs
    BY <1>4, <1>7, <2>1
  <2> QED BY <1>3, <1>7, <2>1, <2>2
<1> QED BY <1>1, <1>2, <1>3, <1>5, <1>6, <1>7 DEF Turns

\* At start nobody has another name than the username, and nothing is said.
LEMMA OwnAtStart ==
  ASSUME Init, NEW own, Owned(own)
  PROVE  OwnInv(own) /\ ConversationsShown
<1>1. \A a \in Account : Home[a] \in own[a]
  BY DEF Owned
<1>2. \A a \in Account : users[a] = Home[a] /\ nick[a] \in {Home[a], NoName} /\ conn[a] \in {Home[a], NoName}
  BY DEF Init
<1>3. NamesOwn(own)
  BY <1>1, <1>2 DEF NamesOwn
<1>4. \A a \in Account : outbox[a] = <<>> /\ relay[a] = <<>> /\ inbox[a] = <<>>
  BY DEF Init
<1>5. LinesOwn(own) /\ JobsOwn(own) /\ EventsOwn(own)
  BY <1>4 DEF LinesOwn, JobsOwn, EventsOwn
<1>6. ConversationsShown
  BY DEF Init, ConversationsShown
<1> QED BY <1>3, <1>5, <1>6 DEF OwnInv

\* Whoever has a row in a conversation has it on the page, as long as names stay
\* with their accounts: a first direct message or a new group is announced to
\* every side online, and is in the snapshot of the others
\* (gatewayServer.ts:255-261, 308-313, 475-499), wherever the gateway stops
\* between two rows.
THEOREM ConversationsAreShown ==
  ASSUME NEW own, Owned(own)
  PROVE  Spec /\ [][AsksOwn(own)]_vars => []ConversationsShown
<1>1. Init => OwnInv(own) /\ ConversationsShown
  BY OwnAtStart
<1>2. Core /\ OwnInv(own) /\ ConversationsShown /\ [Next]_vars /\ [AsksOwn(own)]_vars
        => OwnInv(own)' /\ ConversationsShown'
  BY OwnStep, ConversationsStep
<1> QED BY <1>1, <1>2, CoreAlways, PTL DEF Spec

\* So it is where usernames are the only names (gatewayServer.ts:353-398).
COROLLARY ShownUnderUsernames ==
  ASSUME Typed = {}
  PROVE  Spec => []ConversationsShown
<1>1. PICK own : own = [a \in Account |-> {Home[a], Guest[a]}]
  OBVIOUS
<1>2. Owned(own)
  <2>1. \A a \in Account : own[a] = {Home[a], Guest[a]}
    BY <1>1
  <2>2. own \in [Account -> SUBSET Name]
    BY <1>1, RoutingConstants
  <2>3. \A a, b \in Account : \A n \in own[a] : n \in own[b] => a = b
    BY <2>1, RoutingConstants
  <2> QED BY <2>1, <2>2, <2>3 DEF Owned
<1>3. AsksOwn(own)
  BY DEF AsksOwn
<1>4. Spec /\ [][AsksOwn(own)]_vars => []ConversationsShown
  BY <1>2, ConversationsAreShown
<1> QED BY <1>3, <1>4, PTL
====
