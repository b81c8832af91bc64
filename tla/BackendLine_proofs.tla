-------------------------- MODULE BackendLine_proofs --------------------------
(***************************************************************************)
(* BackendLine is a use of FrameLink: what is proved of framing holds of   *)
(* the two programs together, for every set of connections, texts and      *)
(* settings.                                                               *)
(***************************************************************************)
EXTENDS BackendLine, FrameLink_proofs, FiniteSetTheorems, WellFoundedInduction

\* A bounded set of numbers has a largest element.
LEMMA Largest ==
  ASSUME NEW n \in Nat, NEW S \in SUBSET (1 .. n), S # {}
  PROVE  \E i \in S : \A j \in S : j <= i
<1> DEFINE above(i) == {j \in S : j > i}
           T == {above(i) : i \in S}
           R == StrictSubsetOrdering(S)
<1>1. IsFiniteSet(S)
  <2>1. IsFiniteSet(1 .. n)
    BY FS_Interval
  <2> QED BY <2>1, FS_Subset
<1>2. IsWellFoundedOn(R, SUBSET S)
  BY <1>1, FS_StrictSubsetOrderingWellFounded, FS_FiniteSubsetsOfFinite
<1>3. T \subseteq SUBSET S /\ T # {}
  OBVIOUS
<1>4. PICK x \in T : \A y \in T : ~ (<<y, x>> \in R)
  <2> HIDE DEF T, R
  <2> QED BY <1>2, <1>3, WFMin
<1>5. PICK i \in S : x = above(i)
  BY <1>4
<1>6. ASSUME NEW j \in S, j > i PROVE FALSE
  <2>1. j \in Int /\ i \in Int /\ S \subseteq Int
    OBVIOUS
  <2>2. above(j) \subseteq above(i) /\ j \in above(i) /\ j \notin above(j)
    <3>1. \A k \in S : k > j => k > i
      BY <1>6, <2>1
    <3>2. ~(j > j)
      BY <2>1
    <3> QED BY <1>6, <3>1, <3>2
  <2>3. above(j) \in SUBSET S /\ above(i) \in SUBSET S /\ above(j) # above(i)
    BY <2>2
  <2> HIDE DEF above
  <2>4. <<above(j), above(i)>> \in R
    BY <2>2, <2>3 DEF StrictSubsetOrdering
  <2> QED BY <1>4, <1>5, <2>4
<1> QED BY <1>6

\* load_config and intFromEnv yield a limit from any settings.
LEMMA LimitsAreNumbers ==
  ASSUME NEW u \in Setups
  PROVE  LoadConfig(u.conf) \in Nat /\ IntFromEnv(u.env) \in Nat /\ LoadConfig(u.conf) <= MaxLimit
<1> USE LineConstants, LinesDiffer
<1>1. u.conf \in Seq(Setting) /\ u.env \in Setting
  OBVIOUS
<1>2. IntFromEnv(u.env) \in Nat
  BY <1>1 DEF IntFromEnv, InRange, Setting
<1> DEFINE lines == u.conf
           valid == {i \in DOMAIN lines : Applies(lines[i])}
           last == CHOOSE i \in valid : \A j \in valid : j <= i
<1>3. CASE valid = {}
  BY <1>2, <1>3 DEF LoadConfig
<1>4. CASE valid # {}
  <2>1. DOMAIN lines = 1 .. Len(lines) /\ Len(lines) \in Nat
    BY <1>1
  <2>2. valid \in SUBSET (1 .. Len(lines))
    BY <2>1
  <2>3. \E i \in valid : \A j \in valid : j <= i
    <3> HIDE DEF valid
    <3> QED BY <1>4, <2>1, <2>2, Largest
  <2>4. last \in valid
    <3> HIDE DEF valid
    <3> QED BY <2>3
  <2>5. LoadConfig(u.conf) = lines[last].num
    BY <1>4 DEF LoadConfig
  <2>6. InRange(lines[last].num)
    <3> HIDE DEF last
    <3> QED BY <2>4 DEF Applies
  <2>7. lines[last].num \in Nat /\ lines[last].num <= MaxLimit
    BY <2>6 DEF InRange
  <2> QED BY <1>2, <2>5, <2>7
<1> QED BY <1>3, <1>4

\* handle_line: what is left of a line is a line.
LEMMA TrimmedIsPayload ==
  ASSUME NEW p \in Payload
  PROVE  Trim(p) \in Payload
<1> DEFINE text == {i \in DOMAIN p : p[i] \notin Newlines}
           last == CHOOSE i \in text : \A j \in text : j <= i
<1>1. p \in Seq(Byte) /\ DOMAIN p = 1 .. Len(p) /\ Len(p) \in Nat
  BY DEF Payload
<1>2. CASE text = {}
  <2>1. Trim(p) = <<>>
    BY <1>2 DEF Trim
  <2> QED BY <2>1 DEF Payload
<1>3. CASE text # {}
  <2>1. text \in SUBSET (1 .. Len(p))
    BY <1>1
  <2>2. \E i \in text : \A j \in text : j <= i
    <3> HIDE DEF text
    <3> QED BY <1>1, <1>3, <2>1, Largest
  <2>3. last \in text
    <3> HIDE DEF text
    <3> QED BY <2>2
  <2>4. last \in 1 .. Len(p)
    <3> HIDE DEF text, last
    <3> QED BY <2>1, <2>3
  <2>5. Trim(p) = SubSeq(p, 1, last)
    BY <1>3 DEF Trim
  <2>6. SubSeq(p, 1, last) \in Seq(Byte)
    <3> HIDE DEF last
    <3> QED BY <1>1, <2>4
  <2> QED BY <2>5, <2>6 DEF Payload
<1> QED BY <1>2, <1>3

\* Sequences over any set.
LEMMA OneToN ==
  ASSUME NEW S, NEW n \in Nat, NEW f \in [1 .. n -> S]
  PROVE  f \in Seq(S)
OBVIOUS

LEMMA HeadAndTail ==
  ASSUME NEW S, NEW q \in Seq(S), q # <<>>
  PROVE  Head(q) \in S /\ Tail(q) \in Seq(S)
OBVIOUS

\* broadcast: a frame to each connection of a set.
LEMMA BroadcastJobs ==
  ASSUME NEW C \in SUBSET Conn, NEW frame \in Payload, NEW jobs \in Broadcasts(C, frame)
  PROVE  jobs \in Seq([to : Conn, frame : Payload])
<1>1. IsFiniteSet(C) /\ Cardinality(C) \in Nat
  BY LineConstants, FS_Subset, FS_CardinalityType
<1>2. PICK o \in Orders(C) : jobs = [i \in DOMAIN o |-> Job(o[i], frame)]
  BY DEF Broadcasts
<1>3. o \in [1 .. Cardinality(C) -> C]
  BY DEF Orders
<1>4. \A i \in 1 .. Cardinality(C) : Job(o[i], frame) \in [to : Conn, frame : Payload]
  BY <1>3 DEF Job
<1>5. jobs \in [1 .. Cardinality(C) -> [to : Conn, frame : Payload]]
  BY <1>2, <1>3, <1>4
<1> QED BY <1>1, <1>5, OneToN

\* The line a reader was given last.
LEMMA LastGot ==
  ASSUME LinkTypeOK', NEW s \in Stream, Len(got'[s]) > 0
  PROVE  got'[s][Len(got'[s])] \in Payload
<1>1. got'[s] \in Seq(Payload)
  BY DEF LinkTypeOK
<1>2. Len(got'[s]) \in 1 .. Len(got'[s])
  BY <1>1
<1> QED BY <1>1, <1>2, ElementOfSeq

\* onBackendEvent: what follows a prefix is a text.
LEMMA RestIsPayload ==
  ASSUME NEW p \in Payload, NEW q \in Payload
  PROVE  SubSeq(p, Len(q) + 1, Len(p)) \in Payload
<1>1. p \in Seq(Byte) /\ q \in Seq(Byte) /\ Len(p) \in Nat /\ Len(q) \in Nat
  BY DEF Payload
<1>2. \A i \in (Len(q) + 1) .. Len(p) : i \in 1 .. Len(p)
  BY <1>1
<1>3. SubSeq(p, Len(q) + 1, Len(p)) \in Seq(Byte)
  BY <1>1, <1>2
<1> QED BY <1>3 DEF Payload
-------------------------------------------------------------------------------
\* How many bytes a chunk has.
LEMMA TakenIsNumber ==
  ASSUME LinkTypeOK, NEW s \in Stream, NEW n, Take(s, n)
  PROVE  n \in Nat
<1>1. bytes[s] \in Seq(Byte) /\ arrived[s] \in Nat
  BY DEF LinkTypeOK
<1>2. n \in 1 .. (Len(bytes[s]) - arrived[s])
  BY DEF Take
<1> QED BY <1>1, <1>2

LEMMA ClosedIsLinkStep ==
  ASSUME LinkTypeOK, NEW c \in Conn, NEW d \in {"up", "down"}, NEW n, Close(c, d, n)
  PROVE  LinkNext
<1>1. <<c, d>> \in Stream
  BY DEF Stream
<1>2. bytes[<<c, d>>] \in Seq(Byte) /\ arrived[<<c, d>>] \in Nat
  BY <1>1 DEF LinkTypeOK
<1>3. n \in arrived[<<c, d>>] .. Len(bytes[<<c, d>>])
  BY DEF Close
<1>4. n \in Nat
  BY <1>2, <1>3
<1> QED BY <1>4 DEF LinkNext

\* sendLine writes a frame to the server, or nothing.
LEMMA SendIsLinkStep ==
  ASSUME NEW c \in Conn, NEW text \in Payload, SendMessage(c, text)
  PROVE  LinkNext \/ UNCHANGED linkVars
<1>1. Up(c) \in Stream
  BY DEF Up, Stream
<1>2. UNCHANGED linkVars \/ Write(Up(c), text)
  BY DEF SendMessage, SendLine
<1> QED BY <1>1, <1>2 DEF LinkNext

LEMMA HangupIsLinkStep ==
  ASSUME LinkTypeOK, NEW c \in Conn, Hangup(c)
  PROVE  LinkNext
<1>1. PICK n : Close(c, "up", n)
  BY DEF Hangup
<1> QED BY <1>1, ClosedIsLinkStep

\* A thread of the chat server uses a stream only as FrameLink says.
LEMMA ServerStepIsLinkStep ==
  ASSUME LineTypeOK, LinkTypeOK, NEW c \in Conn, ServerStep(c)
  PROVE  LinkNext \/ UNCHANGED linkVars
<1>1. Up(c) \in Stream /\ Down(c) \in Stream
  BY DEF Up, Down, Stream
<1>2. CASE Accept(c)
  <2>1. Welcome \in Payload /\ Write(Down(c), Welcome)
    BY <1>2, LineConstants DEF Accept
  <2> QED BY <1>1, <2>1 DEF LinkNext
<1>3. CASE ServerReads(c)
  <2>1. PICK n : Recv(Up(c), n)
    BY <1>3 DEF ServerReads
  <2>2. Take(Up(c), n)
    BY <2>1 DEF Recv, RecvPart, RecvHeader, RecvBody
  <2>3. n \in Nat
    BY <1>1, <2>2, TakenIsNumber
  <2> QED BY <1>1, <2>1, <2>3 DEF LinkNext
<1>4. CASE ServerAtEnd(c)
  BY <1>4 DEF ServerAtEnd
<1>5. CASE ServerSends(c)
  <2>1. todo[c] \in Seq([to : Conn, frame : Payload]) /\ todo[c] # <<>>
    BY <1>5 DEF LineTypeOK, ServerSends
  <2>2. Head(todo[c]) \in [to : Conn, frame : Payload]
    BY <2>1, HeadAndTail
  <2>3. Head(todo[c]).frame \in Payload /\ Down(Head(todo[c]).to) \in Stream
    BY <2>2 DEF Down, Stream
  <2>4. UNCHANGED linkVars \/ Write(Down(Head(todo[c]).to), Head(todo[c]).frame)
    BY <1>5 DEF ServerSends
  <2> QED BY <2>3, <2>4 DEF LinkNext
<1>6. CASE Leave(c)
  <2>1. PICK n : Close(c, "down", n)
    BY <1>6 DEF Leave
  <2> QED BY <2>1, ClosedIsLinkStep
<1> QED BY <1>2, <1>3, <1>4, <1>5, <1>6 DEF ServerStep

\* And so does the event loop of the gateway.
LEMMA GatewayStepIsLinkStep ==
  ASSUME LineTypeOK, LinkTypeOK, NEW c \in Conn, GatewayStep(c)
  PROVE  LinkNext \/ UNCHANGED linkVars
<1>1. Up(c) \in Stream /\ Down(c) \in Stream
  BY DEF Up, Down, Stream
<1>2. CASE Replay(c)
  <2>1. pending[c] \in Seq(Payload) /\ pending[c] # <<>> /\ SendMessage(c, Head(pending[c]))
    BY <1>2 DEF LineTypeOK, Replay
  <2>2. Head(pending[c]) \in Payload
    BY <2>1
  <2> QED BY <2>1, <2>2, SendIsLinkStep
<1>3. CASE OnData(c)
  <2>1. PICK n : Data(Down(c), n)
    BY <1>3 DEF OnData
  <2>2. Take(Down(c), n)
    BY <2>1 DEF Data
  <2>3. n \in Nat
    BY <1>1, <2>2, TakenIsNumber
  <2> QED BY <1>1, <2>1, <2>3 DEF LinkNext
<1>4. CASE OnFrame(c)
  BY <1>1, <1>4 DEF OnFrame, LinkNext
<1>5. CASE OnTooLarge(c)
  BY <1>1, <1>5 DEF OnTooLarge, LinkNext
<1>6. CASE Discard(c)
  BY <1>6, HangupIsLinkStep DEF Discard
<1>7. CASE OnBackendClosed(c)
  BY <1>7, HangupIsLinkStep DEF OnBackendClosed
<1>8. CASE OnClientClosed(c)
  <2>1. Hangup(c) \/ UNCHANGED linkVars
    BY <1>8 DEF OnClientClosed
  <2> QED BY <2>1, HangupIsLinkStep
<1>9. CASE Claimed(c)
  BY <1>9 DEF Claimed
<1> QED BY <1>2, <1>3, <1>4, <1>5, <1>6, <1>7, <1>8, <1>9 DEF GatewayStep

\* What users type under the settings.
LEMMA TextsArePayloads ==
  ASSUME LineTypeOK, NEW text \in Texts[setup]
  PROVE  text \in Payload
<1>1. setup \in Setups
  BY DEF LineTypeOK
<1>2. Texts[setup] \in SUBSET Payload
  BY <1>1, LineConstants
<1> QED BY <1>2

LEMMA LineStepIsLinkStep ==
  ASSUME LineTypeOK, LinkTypeOK, [Next]_vars
  PROVE  [LinkNext]_linkVars
<1>1. CASE UNCHANGED vars
  BY <1>1 DEF vars
<1>2. CASE Next
  <2>1. PICK c \in Conn :
          \/ ServerStep(c)
          \/ GatewayStep(c)
          \/ BrowserLeaves(c)
          \/ \E text \in Texts[setup] : FromBrowser(c, text)
    BY <1>2 DEF Next
  <2>2. CASE BrowserLeaves(c)
    BY <2>2 DEF BrowserLeaves
  <2>3. CASE \E text \in Texts[setup] : FromBrowser(c, text)
    <3>1. PICK text \in Texts[setup] : FromBrowser(c, text)
      BY <2>3
    <3>2. text \in Payload
      BY TextsArePayloads
    <3>3. SendMessage(c, text) \/ UNCHANGED linkVars
      BY <3>1 DEF FromBrowser
    <3> QED BY <3>2, <3>3, SendIsLinkStep
  <2> QED BY <2>1, <2>2, <2>3, ServerStepIsLinkStep, GatewayStepIsLinkStep
<1> QED BY <1>1, <1>2
-------------------------------------------------------------------------------
LEMMA InitTypes == Init => LineTypeOK /\ LinkInit
<1> SUFFICES ASSUME Init PROVE LineTypeOK /\ LinkInit
  OBVIOUS
<1>1. setup \in Setups /\ LinkInit
  BY DEF Init
<1>2. <<>> \in Seq(Payload) /\ <<>> \in Log /\ <<>> \in Seq([to : Conn, frame : Payload])
  BY DEF Log
<1>3. /\ pending \in [Conn -> Seq(Payload)] /\ messages \in Log /\ page \in [Conn -> Log]
      /\ todo \in [Conn -> Seq([to : Conn, frame : Payload])]
  BY <1>2 DEF Init
<1>4. /\ ws \in [Conn -> {"open", "closing", "closed"}]
      /\ closed \in [Conn -> BOOLEAN] /\ ready \in [Conn -> Readiness] /\ crashed \in BOOLEAN
      /\ serving \in [Conn -> {"accepted", "serving", "leaving", "gone"}]
      /\ since \in [Conn -> [Conn -> Nat]]
  BY DEF Init, Readiness
<1>5. typed \in Seq([by : Conn, text : Payload, when : Readiness])
  <2>1. typed = <<>>
    BY DEF Init
  <2> QED BY <2>1
<1> QED BY <1>1, <1>3, <1>4, <1>5 DEF LineTypeOK

\* A step that leaves alone what LineTypeOK is about.
LEMMA LineUnchanged ==
  ASSUME LineTypeOK, UNCHANGED <<setup, gatewayVars, serverVars>>
  PROVE  LineTypeOK'
BY DEF LineTypeOK, gatewayVars, serverVars

\* A step of the server, of which only its own part is to be shown.
LEMMA ServerPart ==
  ASSUME LineTypeOK, UNCHANGED <<setup, gatewayVars>>,
         serving' \in [Conn -> {"accepted", "serving", "leaving", "gone"}],
         todo' \in [Conn -> Seq([to : Conn, frame : Payload])],
         since' \in [Conn -> [Conn -> Nat]]
  PROVE  LineTypeOK'
BY DEF LineTypeOK, gatewayVars

LEMMA AcceptTypes ==
  ASSUME LineTypeOK, LinkTypeOK, NEW c \in Conn, Accept(c)
  PROVE  LineTypeOK'
<1>1. UNCHANGED <<setup, gatewayVars, todo>> /\ serving' = [serving EXCEPT ![c] = "serving"]
  BY DEF Accept
<1>2. since' = [since EXCEPT ![c] = [d \in Conn |-> Len(got[Up(d)])]]
  BY DEF Accept
<1>3. [d \in Conn |-> Len(got[Up(d)])] \in [Conn -> Nat]
  <2>1. \A d \in Conn : Up(d) \in Stream
    BY DEF Up, Stream
  <2>2. \A d \in Conn : got[Up(d)] \in Seq(Payload)
    BY <2>1 DEF LinkTypeOK
  <2>3. \A d \in Conn : Len(got[Up(d)]) \in Nat
    <3> SUFFICES ASSUME NEW d \in Conn PROVE Len(got[Up(d)]) \in Nat
      OBVIOUS
    <3>1. got[Up(d)] \in Seq(Payload)
      BY <2>2
    <3> QED BY <3>1, LenProperties
  <2> QED BY <2>3
<1>4. since' \in [Conn -> [Conn -> Nat]]
  BY <1>2, <1>3 DEF LineTypeOK
<1>5. /\ serving' \in [Conn -> {"accepted", "serving", "leaving", "gone"}]
      /\ todo' \in [Conn -> Seq([to : Conn, frame : Payload])]
  BY <1>1 DEF LineTypeOK
<1> QED BY <1>1, <1>4, <1>5, ServerPart

\* handle_line leaves a sequence of frames to be sent.
LEMMA HandleLineTypes ==
  ASSUME LineTypeOK, NEW c \in Conn, NEW payload \in Payload, HandleLine(c, payload)
  PROVE  /\ serving' \in [Conn -> {"accepted", "serving", "leaving", "gone"}]
         /\ todo' \in [Conn -> Seq([to : Conn, frame : Payload])]
         /\ since' = since
<1> DEFINE line == Trim(payload)
<1>1. line \in Payload
  BY TrimmedIsPayload
<1> HIDE DEF line
<1>2. CASE UNCHANGED serverVars
  BY <1>2 DEF LineTypeOK, serverVars
<1>3. CASE serving' = [serving EXCEPT ![c] = "leaving"] /\ UNCHANGED <<todo, since>>
  BY <1>3 DEF LineTypeOK
<1>4. CASE todo' = [todo EXCEPT ![c] = <<Job(c, Err)>>] /\ UNCHANGED <<serving, since>>
  <2>1. Job(c, Err) \in [to : Conn, frame : Payload]
    BY LineConstants DEF Job
  <2>2. <<Job(c, Err)>> \in Seq([to : Conn, frame : Payload])
    BY <2>1
  <2> QED BY <1>4, <2>2 DEF LineTypeOK
<1>5. CASE /\ \E jobs \in Broadcasts(Others(c), Prefix[c] \o line) : todo' = [todo EXCEPT ![c] = jobs]
           /\ UNCHANGED <<serving, since>>
  <2>1. Others(c) \in SUBSET Conn
    BY DEF Others
  <2>2. Prefix[c] \o line \in Payload
    <3>1. Prefix[c] \in Seq(Byte) /\ line \in Seq(Byte)
      BY <1>1, LineConstants DEF Payload
    <3> QED BY <3>1 DEF Payload
  <2>3. PICK jobs \in Broadcasts(Others(c), Prefix[c] \o line) : todo' = [todo EXCEPT ![c] = jobs]
    BY <1>5
  <2>4. jobs \in Seq([to : Conn, frame : Payload])
    BY <2>1, <2>2, BroadcastJobs
  <2> QED BY <1>5, <2>3, <2>4 DEF LineTypeOK
<1> QED BY <1>2, <1>3, <1>4, <1>5 DEF HandleLine, line

LEMMA ServerReadsTypes ==
  ASSUME LineTypeOK, LinkInv, LinkInv', NEW c \in Conn, ServerReads(c)
  PROVE  LineTypeOK'
<1>1. Up(c) \in Stream /\ UNCHANGED <<setup, gatewayVars>>
  BY DEF Up, Stream, ServerReads
<1>2. CASE UNCHANGED serverVars
  BY <1>1, <1>2, LineUnchanged
<1>3. CASE got' # got /\ HandleLine(c, got'[Up(c)][Len(got'[Up(c)])])
  <2>1. PICK n : Recv(Up(c), n)
    BY DEF ServerReads
  <2>2. DeliversNext(Up(c))
    <3>1. ~RecvPart(Up(c), n)
      BY <1>3 DEF RecvPart
    <3> QED BY <1>1, <1>3, <2>1, <3>1, RecvHeaderKeeps, RecvBodyKeeps DEF Recv
  <2>3. Len(got'[Up(c)]) > 0
    <3>1. LinkTypeOK /\ Written(Up(c)) /\ Given(Up(c)) /\ got[Up(c)] \in Seq(Payload)
      BY <1>1 DEF LinkInv, LinkTypeOK
    <3>2. Len(got'[Up(c)]) = Len(got[Up(c)]) + 1
      BY <1>1, <2>2, <3>1, GivenNext DEF DeliversNext
    <3> QED BY <3>1, <3>2
  <2>4. got'[Up(c)][Len(got'[Up(c)])] \in Payload
    BY <1>1, <2>3, LastGot DEF LinkInv
  <2>5. since' \in [Conn -> [Conn -> Nat]]
    BY <1>3, <2>4, HandleLineTypes DEF LineTypeOK
  <2> QED BY <1>1, <1>3, <2>4, <2>5, HandleLineTypes, ServerPart
<1>4. CASE /\ todo' = [todo EXCEPT ![c] = <<Job(c, Err)>>]
           /\ serving' = [serving EXCEPT ![c] = "leaving"]
           /\ UNCHANGED since
  <2>1. Job(c, Err) \in [to : Conn, frame : Payload]
    BY LineConstants DEF Job
  <2>2. <<Job(c, Err)>> \in Seq([to : Conn, frame : Payload])
    BY <2>1
  <2>3. todo' \in [Conn -> Seq([to : Conn, frame : Payload])]
    BY <1>4, <2>2 DEF LineTypeOK
  <2>4. /\ serving' \in [Conn -> {"accepted", "serving", "leaving", "gone"}]
        /\ since' \in [Conn -> [Conn -> Nat]]
    BY <1>4 DEF LineTypeOK
  <2> QED BY <1>1, <2>3, <2>4, ServerPart
<1> QED BY <1>2, <1>3, <1>4 DEF ServerReads

LEMMA ServerStepTypes ==
  ASSUME LineTypeOK, LinkInv, LinkInv', NEW c \in Conn, ServerStep(c)
  PROVE  LineTypeOK'
<1>1. CASE Accept(c)
  BY <1>1, AcceptTypes DEF LinkInv
<1>2. CASE ServerReads(c)
  BY <1>2, ServerReadsTypes
<1>3. CASE ServerAtEnd(c)
  BY <1>3 DEF ServerAtEnd, LineTypeOK, gatewayVars
<1>4. CASE ServerSends(c)
  <2>1. UNCHANGED <<setup, gatewayVars, serving, since>> /\ todo' = [todo EXCEPT ![c] = Tail(todo[c])]
    BY <1>4 DEF ServerSends
  <2>2. todo[c] \in Seq([to : Conn, frame : Payload]) /\ todo[c] # <<>>
    BY <1>4 DEF LineTypeOK, ServerSends
  <2>3. Tail(todo[c]) \in Seq([to : Conn, frame : Payload])
    BY <2>2, HeadAndTail
  <2>4. todo' \in [Conn -> Seq([to : Conn, frame : Payload])]
    BY <2>1, <2>3 DEF LineTypeOK
  <2>5. /\ serving' \in [Conn -> {"accepted", "serving", "leaving", "gone"}]
        /\ since' \in [Conn -> [Conn -> Nat]]
    BY <2>1 DEF LineTypeOK
  <2> QED BY <2>1, <2>4, <2>5, ServerPart
<1>5. CASE Leave(c)
  BY <1>5 DEF Leave, LineTypeOK, gatewayVars
<1> QED BY <1>1, <1>2, <1>3, <1>4, <1>5 DEF ServerStep

\* A step of the gateway, of which only its own part is to be shown.
LEMMA GatewayPart ==
  ASSUME LineTypeOK, UNCHANGED <<setup, serverVars>>,
         ws' \in [Conn -> {"open", "closing", "closed"}],
         closed' \in [Conn -> BOOLEAN], ready' \in [Conn -> Readiness],
         pending' \in [Conn -> Seq(Payload)], messages' \in Log, page' \in [Conn -> Log],
         crashed' \in BOOLEAN, typed' \in Seq([by : Conn, text : Payload, when : Readiness])
  PROVE  LineTypeOK'
BY DEF LineTypeOK, serverVars

\* handleSendMessage stores a record of a text, and may end the process.
LEMMA SendMessageTypes ==
  ASSUME LineTypeOK, NEW c \in Conn, NEW text \in Payload, SendMessage(c, text)
  PROVE  messages' \in Log /\ crashed' \in BOOLEAN
<1>1. [by |-> c, text |-> text] \in [by : Conn, text : Payload]
  OBVIOUS
<1>2. messages \in Seq([by : Conn, text : Payload])
  BY DEF LineTypeOK, Log
<1>3. messages' = Append(messages, [by |-> c, text |-> text])
  BY DEF SendMessage
<1>4. messages' \in Seq([by : Conn, text : Payload])
  BY <1>1, <1>2, <1>3, AppendProperties
<1>5. crashed' \in BOOLEAN
  BY DEF SendMessage, SendLine, LineTypeOK
<1> QED BY <1>4, <1>5 DEF Log

LEMMA OnFrameTypes ==
  ASSUME LineTypeOK, LinkInv, LinkInv', NEW c \in Conn, OnFrame(c)
  PROVE  LineTypeOK'
<1> DEFINE frame == got'[Down(c)][Len(got'[Down(c)])]
           line(by) == [by |-> by, text |-> SubSeq(frame, Len(Prefix[by]) + 1, Len(frame))]
<1>1. Down(c) \in Stream /\ Extract(Down(c))
  BY DEF Down, Stream, OnFrame
<1>2. UNCHANGED <<setup, ws, closed, pending, messages, crashed, typed, serverVars>>
  BY DEF OnFrame
<1>3. frame \in Payload
  <2>1. DeliversNext(Down(c))
    BY <1>1, ExtractKeeps
  <2>2. LinkTypeOK /\ Written(Down(c)) /\ Given(Down(c)) /\ got[Down(c)] \in Seq(Payload)
    BY <1>1 DEF LinkInv, LinkTypeOK
  <2>3. Len(got'[Down(c)]) = Len(got[Down(c)]) + 1
    BY <1>1, <2>1, <2>2, GivenNext DEF DeliversNext
  <2>4. Len(got'[Down(c)]) > 0
    BY <2>2, <2>3
  <2> QED BY <1>1, <2>4, LastGot DEF LinkInv
<1>4. \/ ready' \in [Conn -> Readiness] /\ page' = page
      \/ ready' = ready /\ \E by \in Conn : page' = [page EXCEPT ![c] = Append(page[c], line(by))]
  <2>1. From(frame) \subseteq Conn
    BY DEF From
  <2> HIDE DEF line
  <2>2. \/ (\E r \in Readiness : ready' = [ready EXCEPT ![c] = r]) /\ page' = page
        \/ ready' = ready /\ page' = page
        \/ /\ ready' = ready
           /\ \E by \in From(frame) : page' = [page EXCEPT ![c] = Append(page[c], line(by))]
    BY DEF OnFrame, line, Readiness
  <2> HIDE DEF frame
  <2>3. (\A r \in Readiness : [ready EXCEPT ![c] = r] \in [Conn -> Readiness])
        /\ ready \in [Conn -> Readiness]
    BY DEF LineTypeOK
  <2> QED BY <2>1, <2>2, <2>3
<1>5. page' \in [Conn -> Log] /\ ready' \in [Conn -> Readiness]
  <2>1. page \in [Conn -> Log] /\ ready \in [Conn -> Readiness]
    BY DEF LineTypeOK
  <2>2. CASE \E by \in Conn : page' = [page EXCEPT ![c] = Append(page[c], line(by))]
    <3> HIDE DEF frame
    <3>1. PICK by \in Conn : page' = [page EXCEPT ![c] = Append(page[c], line(by))]
      BY <2>2
    <3>2. SubSeq(frame, Len(Prefix[by]) + 1, Len(frame)) \in Payload
      BY <1>3, LineConstants, RestIsPayload
    <3>3. line(by) \in [by : Conn, text : Payload]
      BY <3>2
    <3> HIDE DEF line
    <3>4. Append(page[c], line(by)) \in Log
      BY <2>1, <3>3, AppendProperties DEF Log
    <3> QED BY <1>4, <2>1, <3>1, <3>4
  <2> QED BY <1>4, <2>1, <2>2
<1>6. /\ ws' \in [Conn -> {"open", "closing", "closed"}]
      /\ closed' \in [Conn -> BOOLEAN] /\ pending' \in [Conn -> Seq(Payload)]
      /\ messages' \in Log /\ crashed' \in BOOLEAN
      /\ typed' \in Seq([by : Conn, text : Payload, when : Readiness])
  BY <1>2 DEF LineTypeOK
<1> QED BY <1>2, <1>5, <1>6, GatewayPart

LEMMA GatewayStepTypes ==
  ASSUME LineTypeOK, LinkInv, LinkInv', NEW c \in Conn, GatewayStep(c)
  PROVE  LineTypeOK'
<1>1. CASE Replay(c)
  <2>1. pending[c] \in Seq(Payload) /\ pending[c] # <<>> /\ SendMessage(c, Head(pending[c]))
    BY <1>1 DEF LineTypeOK, Replay
  <2>2. Head(pending[c]) \in Payload /\ Tail(pending[c]) \in Seq(Payload)
    BY <2>1, HeadAndTail
  <2>3. messages' \in Log /\ crashed' \in BOOLEAN
    BY <2>1, <2>2, SendMessageTypes
  <2>4. pending' \in [Conn -> Seq(Payload)]
    BY <1>1, <2>2 DEF LineTypeOK, Replay
  <2>5. /\ UNCHANGED <<setup, serverVars>> /\ page' \in [Conn -> Log]
        /\ ws' \in [Conn -> {"open", "closing", "closed"}]
        /\ closed' \in [Conn -> BOOLEAN] /\ ready' \in [Conn -> Readiness]
        /\ typed' \in Seq([by : Conn, text : Payload, when : Readiness])
    BY <1>1 DEF LineTypeOK, Replay
  <2> QED BY <2>3, <2>4, <2>5, GatewayPart
<1>2. CASE OnData(c)
  BY <1>2, LineUnchanged DEF OnData
<1>3. CASE OnFrame(c)
  BY <1>3, OnFrameTypes
<1>4. CASE OnTooLarge(c)
  BY <1>4, LineUnchanged DEF OnTooLarge
<1>5. CASE Discard(c)
  BY <1>5 DEF Discard, Hangup, LineTypeOK, serverVars
<1>6. CASE OnBackendClosed(c)
  BY <1>6 DEF OnBackendClosed, Hangup, LineTypeOK, serverVars
<1>7. CASE OnClientClosed(c)
  BY <1>7 DEF OnClientClosed, Hangup, LineTypeOK, serverVars
<1>8. CASE Claimed(c)
  BY <1>8 DEF Claimed, LineTypeOK, serverVars, Readiness
<1> QED BY <1>1, <1>2, <1>3, <1>4, <1>5, <1>6, <1>7, <1>8 DEF GatewayStep

LEMMA BrowserLeavesTypes ==
  ASSUME LineTypeOK, NEW c \in Conn, BrowserLeaves(c)
  PROVE  LineTypeOK'
BY DEF BrowserLeaves, LineTypeOK, serverVars

LEMMA FromBrowserTypes ==
  ASSUME LineTypeOK, NEW c \in Conn, NEW text \in Payload, FromBrowser(c, text)
  PROVE  LineTypeOK'
<1>1. /\ UNCHANGED <<setup, serverVars>> /\ page' \in [Conn -> Log]
      /\ ws' \in [Conn -> {"open", "closing", "closed"}]
      /\ closed' \in [Conn -> BOOLEAN] /\ ready' \in [Conn -> Readiness]
  BY DEF LineTypeOK, FromBrowser
<1>2. pending' \in [Conn -> Seq(Payload)]
  <2>1. pending[c] \in Seq(Payload)
    BY DEF LineTypeOK
  <2>2. Append(pending[c], text) \in Seq(Payload)
    BY <2>1, AppendProperties
  <2>3. pending' = pending \/ pending' = [pending EXCEPT ![c] = Append(pending[c], text)]
    BY DEF FromBrowser
  <2> QED BY <2>2, <2>3 DEF LineTypeOK
<1>3. messages' \in Log /\ crashed' \in BOOLEAN
  <2>1. SendMessage(c, text) \/ UNCHANGED <<messages, crashed>>
    BY DEF FromBrowser
  <2> QED BY <2>1, SendMessageTypes DEF LineTypeOK
<1>4. typed' \in Seq([by : Conn, text : Payload, when : Readiness])
  <2>1. [by |-> c, text |-> text, when |-> ready[c]] \in [by : Conn, text : Payload, when : Readiness]
    BY DEF LineTypeOK
  <2>2. typed' = Append(typed, [by |-> c, text |-> text, when |-> ready[c]])
    BY DEF FromBrowser
  <2> QED BY <2>1, <2>2, AppendProperties DEF LineTypeOK
<1> QED BY <1>1, <1>2, <1>3, <1>4, GatewayPart
-------------------------------------------------------------------------------
\* Only Close ends a stream.
LEMMA OnlyCloseEnds ==
  ASSUME LinkTypeOK, NEW s \in Stream, NEW p, NEW n,
         Write(s, p) \/ Recv(s, n) \/ Data(s, n) \/ Extract(s) \/ TooLarge(s)
  PROVE  ended' = ended
BY DEF Write, Recv, RecvPart, RecvHeader, RecvBody, Data, Extract, TooLarge

LEMMA SameEnds ==
  ASSUME EndsMatch, ended' = ended, closed' = closed,
         \A c \in Conn : (serving'[c] = "gone") = (serving[c] = "gone")
  PROVE  EndsMatch'
BY DEF EndsMatch, Up, Down

LEMMA HangupEnds ==
  ASSUME LineTypeOK, LinkTypeOK, EndsMatch, NEW c \in Conn, Hangup(c), serving' = serving
  PROVE  EndsMatch'
<1>1. ended' = [ended EXCEPT ![<<c, "up">>] = TRUE] /\ closed' = [closed EXCEPT ![c] = TRUE]
  BY DEF Hangup, Close
<1>2. \A d \in Conn : Up(d) \in Stream /\ Down(d) \in Stream
  BY DEF Up, Down, Stream
<1> SUFFICES ASSUME NEW d \in Conn
             PROVE  (ended[Up(d)] = closed[d])' /\ (ended[Down(d)] = (serving[d] = "gone"))'
  BY DEF EndsMatch
<1>3. ended[Up(d)] = closed[d] /\ ended[Down(d)] = (serving[d] = "gone")
  BY DEF EndsMatch
<1>4. ended'[Down(d)] = ended[Down(d)]
  BY <1>1, <1>2 DEF LinkTypeOK, Down
<1>5. ended'[Up(d)] = IF d = c THEN TRUE ELSE ended[Up(d)]
  BY <1>1, <1>2 DEF LinkTypeOK, Up
<1>6. closed'[d] = IF d = c THEN TRUE ELSE closed[d]
  BY <1>1 DEF LineTypeOK
<1> QED BY <1>3, <1>4, <1>5, <1>6 DEF Up, Down

LEMMA LeaveEnds ==
  ASSUME LineTypeOK, LinkTypeOK, EndsMatch, NEW c \in Conn, Leave(c)
  PROVE  EndsMatch'
<1>1. /\ ended' = [ended EXCEPT ![<<c, "down">>] = TRUE] /\ closed' = closed
      /\ serving' = [serving EXCEPT ![c] = "gone"]
  BY DEF Leave, Close, gatewayVars
<1>2. \A d \in Conn : Up(d) \in Stream /\ Down(d) \in Stream
  BY DEF Up, Down, Stream
<1> SUFFICES ASSUME NEW d \in Conn
             PROVE  (ended[Up(d)] = closed[d])' /\ (ended[Down(d)] = (serving[d] = "gone"))'
  BY DEF EndsMatch
<1>3. ended[Up(d)] = closed[d] /\ ended[Down(d)] = (serving[d] = "gone")
  BY DEF EndsMatch
<1>4. ended'[Up(d)] = ended[Up(d)]
  BY <1>1, <1>2 DEF LinkTypeOK, Up
<1>5. ended'[Down(d)] = IF d = c THEN TRUE ELSE ended[Down(d)]
  BY <1>1, <1>2 DEF LinkTypeOK, Down
<1>6. serving'[d] = IF d = c THEN "gone" ELSE serving[d]
  BY <1>1 DEF LineTypeOK
<1> QED BY <1>1, <1>3, <1>4, <1>5, <1>6 DEF Up, Down

LEMMA SendEnds ==
  ASSUME LinkTypeOK, NEW c \in Conn, NEW text, SendMessage(c, text)
  PROVE  ended' = ended
BY DEF SendMessage, SendLine, Write, linkVars

LEMMA ServerEnds ==
  ASSUME LineTypeOK, LinkTypeOK, EndsMatch, NEW c \in Conn, ServerStep(c)
  PROVE  EndsMatch'
<1>1. Up(c) \in Stream /\ Down(c) \in Stream
  BY DEF Up, Down, Stream
<1>2. CASE Leave(c)
  BY <1>2, LeaveEnds
<1>3. CASE Accept(c)
  <2>1. ended' = ended /\ closed' = closed
    BY <1>3 DEF Accept, Write, gatewayVars
  <2>2. serving[c] = "accepted" /\ serving' = [serving EXCEPT ![c] = "serving"]
    BY <1>3 DEF Accept
  <2>3. \A d \in Conn : (serving'[d] = "gone") = (serving[d] = "gone")
    BY <2>2 DEF LineTypeOK
  <2> QED BY <2>1, <2>3, SameEnds
<1>4. CASE ServerReads(c) \/ ServerAtEnd(c)
  <2>1. ended' = ended /\ closed' = closed
    BY <1>4 DEF ServerReads, ServerAtEnd, Recv, RecvPart, RecvHeader, RecvBody, gatewayVars, linkVars
  <2>2. serving[c] = "serving"
    BY <1>4 DEF ServerReads, ServerAtEnd
  <2>3. serving' = serving \/ serving' = [serving EXCEPT ![c] = "leaving"]
    BY <1>4 DEF ServerReads, ServerAtEnd, HandleLine, serverVars
  <2>4. \A d \in Conn : (serving'[d] = "gone") = (serving[d] = "gone")
    BY <2>2, <2>3 DEF LineTypeOK
  <2> QED BY <2>1, <2>4, SameEnds
<1>5. CASE ServerSends(c)
  <2>1. ended' = ended /\ closed' = closed /\ serving' = serving
    BY <1>5 DEF ServerSends, Write, gatewayVars, linkVars
  <2> QED BY <2>1, SameEnds
<1> QED BY <1>2, <1>3, <1>4, <1>5 DEF ServerStep

LEMMA GatewayEnds ==
  ASSUME LineTypeOK, LinkTypeOK, EndsMatch, NEW c \in Conn, GatewayStep(c)
  PROVE  EndsMatch'
<1>1. CASE Replay(c)
  <2>1. ended' = ended /\ closed' = closed /\ serving' = serving
    BY <1>1, SendEnds DEF Replay, serverVars
  <2> QED BY <2>1, SameEnds
<1>2. CASE OnData(c) \/ OnFrame(c) \/ OnTooLarge(c)
  <2>1. ended' = ended
    BY <1>2 DEF OnData, OnFrame, OnTooLarge, Data, Extract, TooLarge
  <2>2. closed' = closed /\ serving' = serving
    BY <1>2 DEF OnData, OnFrame, OnTooLarge, gatewayVars, serverVars
  <2> QED BY <2>1, <2>2, SameEnds
<1>3. CASE Discard(c) \/ OnBackendClosed(c)
  BY <1>3, HangupEnds DEF Discard, OnBackendClosed, serverVars
<1>4. CASE OnClientClosed(c)
  <2>1. CASE Hangup(c)
    BY <1>4, <2>1, HangupEnds DEF OnClientClosed, serverVars
  <2>2. CASE UNCHANGED <<linkVars, closed>>
    <3>1. ended' = ended /\ closed' = closed /\ serving' = serving
      BY <1>4, <2>2 DEF OnClientClosed, serverVars, linkVars
    <3> QED BY <3>1, SameEnds
  <2> QED BY <1>4, <2>1, <2>2 DEF OnClientClosed
<1>5. CASE Claimed(c)
  <2>1. ended' = ended /\ closed' = closed /\ serving' = serving
    BY <1>5 DEF Claimed, serverVars, linkVars
  <2> QED BY <2>1, SameEnds
<1> QED BY <1>1, <1>2, <1>3, <1>4, <1>5 DEF GatewayStep

LEMMA BrowserEnds ==
  ASSUME LinkTypeOK, EndsMatch, NEW c \in Conn, NEW text, BrowserLeaves(c) \/ FromBrowser(c, text)
  PROVE  EndsMatch'
<1>1. ended' = ended
  BY SendEnds DEF BrowserLeaves, FromBrowser, linkVars
<1>2. closed' = closed /\ serving' = serving
  BY DEF BrowserLeaves, FromBrowser, serverVars
<1> QED BY <1>1, <1>2, SameEnds
-------------------------------------------------------------------------------
LEMMA LineInit == Init => LineInv /\ LinkInv
<1> SUFFICES ASSUME Init PROVE LineInv /\ LinkInv
  OBVIOUS
<1>1. LineTypeOK /\ LinkInit /\ LinkInv
  BY InitTypes, LinkInitInv
<1>2. EndsMatch
  <2>1. \A c \in Conn : Up(c) \in Stream /\ Down(c) \in Stream
    BY DEF Up, Down, Stream
  <2>2. \A c \in Conn : ~ended[Up(c)] /\ ~ended[Down(c)]
    BY <1>1, <2>1 DEF LinkInit
  <2>3. \A c \in Conn : ~closed[c] /\ serving[c] # "gone"
    BY DEF Init
  <2>4. \A c \in Conn : ended[Up(c)] \in BOOLEAN /\ ended[Down(c)] \in BOOLEAN /\ closed[c] \in BOOLEAN
    BY <1>1, <2>1 DEF LinkInv, LinkTypeOK, LineTypeOK
  <2> QED BY <2>2, <2>3, <2>4 DEF EndsMatch
<1> QED BY <1>1, <1>2 DEF LineInv

LEMMA LineStep ==
  ASSUME LineInv, LinkInv, [Next]_vars
  PROVE  LineInv' /\ LinkInv' /\ [LinkNext]_linkVars
<1>1. LineTypeOK /\ EndsMatch /\ LinkTypeOK
  BY DEF LineInv, LinkInv
<1>2. [LinkNext]_linkVars
  BY <1>1, LineStepIsLinkStep
<1>3. LinkInv'
  BY <1>2, LinkStep
<1>4. LineTypeOK' /\ EndsMatch'
  <2>1. CASE UNCHANGED vars
    <3>1. LineTypeOK'
      BY <1>1, <2>1, LineUnchanged DEF vars
    <3>2. ended' = ended /\ closed' = closed /\ serving' = serving
      BY <2>1 DEF vars, linkVars, gatewayVars, serverVars
    <3> QED BY <1>1, <3>1, <3>2, SameEnds
  <2>2. CASE Next
    <3>1. PICK c \in Conn :
            \/ ServerStep(c)
            \/ GatewayStep(c)
            \/ BrowserLeaves(c)
            \/ \E text \in Texts[setup] : FromBrowser(c, text)
      BY <2>2 DEF Next
    <3>2. CASE ServerStep(c)
      BY <1>1, <1>3, <3>2, ServerStepTypes, ServerEnds
    <3>3. CASE GatewayStep(c)
      BY <1>1, <1>3, <3>3, GatewayStepTypes, GatewayEnds
    <3>4. CASE BrowserLeaves(c)
      BY <1>1, <3>4, BrowserLeavesTypes, BrowserEnds
    <3>5. CASE \E text \in Texts[setup] : FromBrowser(c, text)
      <4>1. PICK text \in Texts[setup] : FromBrowser(c, text)
        BY <3>5
      <4>2. text \in Payload
        BY <1>1, TextsArePayloads
      <4> QED BY <1>1, <4>1, <4>2, FromBrowserTypes, BrowserEnds
    <3> QED BY <3>1, <3>2, <3>3, <3>4, <3>5
  <2> QED BY <2>1, <2>2
<1> QED BY <1>2, <1>3, <1>4 DEF LineInv

LEMMA LineInductive == Spec => [](LineInv /\ LinkInv)
<1>1. LineInv /\ LinkInv /\ [Next]_vars => (LineInv /\ LinkInv)'
  BY LineStep
<1> QED BY <1>1, LineInit, PTL DEF Spec

\* Neither program writes to a connection it has closed, nor closes one twice,
\* in whatever order callbacks and threads run; and every variable keeps its
\* type (BackendConnection `closed`, Server::handle_client).
THEOREM LineInvariant == Spec => []LineInv
BY LineInductive, PTL

\* The two programs use their connections only as FrameLink says: every step
\* of a handler thread, of a callback of the gateway or of a browser is one
\* step of one stream, or of none (Protocol.cpp, wireProtocol.ts).
THEOREM LineUsesLink == Spec => LinkSpec
<1>1. Init => LinkInit
  BY InitTypes
<1>2. LineInv /\ LinkInv /\ [Next]_vars => [LinkNext]_linkVars
  BY LineStep
<1> QED BY <1>1, <1>2, LineInductive, PTL DEF Spec, LinkSpec

\* So the invariant of framing is one of the two programs together.
THEOREM LineKeepsLink == Spec => []LinkInv
BY LineInductive, PTL

\* However the sockets cut the bytes up, whoever closes first and whichever
\* limits are set, the payloads of every connection are handed over whole,
\* once each and in order (recv_frame, FrameDecoder.push).
THEOREM LineIsChannel == Spec => IsChannel
BY LineUsesLink, LinkIsChannel

\* A gateway whose limit is not below the server's never closes a connection
\* over a frame of the server (Protocol.cpp:43, backendConnection.ts:70).
THEOREM NoFrameTooLarge == Spec => []ServerFitsGateway
BY LineUsesLink, NothingDiscarded
-------------------------------------------------------------------------------
(* Some of the elements of a sequence, in their order.                     *)
\* How many elements of a set of places are not behind one of them.
Below(I, i) == {j \in I : j <= i}

LEMMA Ranks ==
  ASSUME NEW n \in Nat, NEW I \in SUBSET (1 .. n)
  PROVE  /\ IsFiniteSet(I) /\ Cardinality(I) \in Nat
         /\ \A i \in I : Cardinality(Below(I, i)) \in 1 .. Cardinality(I)
         /\ \A i, j \in I : i < j => Cardinality(Below(I, i)) < Cardinality(Below(I, j))
<1>1. IsFiniteSet(I) /\ Cardinality(I) \in Nat
  <2>1. IsFiniteSet(1 .. n)
    BY FS_Interval
  <2>2. IsFiniteSet(I)
    BY <2>1, FS_Subset
  <2> QED BY <2>2, FS_CardinalityType
<1>2. \A i \in I : /\ Below(I, i) \in SUBSET I /\ IsFiniteSet(Below(I, i))
                   /\ Cardinality(Below(I, i)) \in 1 .. Cardinality(I)
  <2> SUFFICES ASSUME NEW i \in I
               PROVE  /\ Below(I, i) \in SUBSET I /\ IsFiniteSet(Below(I, i))
                      /\ Cardinality(Below(I, i)) \in 1 .. Cardinality(I)
    OBVIOUS
  <2>1. Below(I, i) \in SUBSET I /\ i \in Below(I, i)
    BY DEF Below
  <2>2. IsFiniteSet(Below(I, i)) /\ Cardinality(Below(I, i)) <= Cardinality(I)
    BY <1>1, <2>1, FS_Subset
  <2>3. Cardinality(Below(I, i)) \in Nat /\ Cardinality(Below(I, i)) # 0
    BY <2>1, <2>2, FS_CardinalityType, FS_EmptySet
  <2> QED BY <1>1, <2>1, <2>2, <2>3
<1>3. \A i, j \in I : i < j => Cardinality(Below(I, i)) < Cardinality(Below(I, j))
  <2> SUFFICES ASSUME NEW i \in I, NEW j \in I, i < j
               PROVE  Cardinality(Below(I, i)) < Cardinality(Below(I, j))
    OBVIOUS
  <2>0. i \in Int /\ j \in Int /\ \A k \in I : k \in Int
    OBVIOUS
  <2>1. \A k \in I : k <= i => k <= j
    BY <2>0
  <2>2. /\ j \in Below(I, j) /\ j \notin Below(I, i)
        /\ Below(I, i) \in SUBSET Below(I, j)
    <3>1. j <= j /\ ~(j <= i)
      BY <2>0
    <3>2. \A k \in Below(I, i) : k \in Below(I, j)
      BY <2>1 DEF Below
    <3> QED BY <3>1, <3>2 DEF Below
  <2>3. Below(I, i) # Below(I, j)
    BY <2>2
  <2>4. Cardinality(Below(I, i)) <= Cardinality(Below(I, j))
        /\ (Cardinality(Below(I, j)) = Cardinality(Below(I, i)) => Below(I, j) = Below(I, i))
    BY <1>2, <2>2, FS_Subset
  <2> QED BY <1>1, <1>2, <2>3, <2>4
<1> QED BY <1>1, <1>2, <1>3

\* The k-th place of a set of places.
LEMMA Places ==
  ASSUME NEW n \in Nat, NEW I \in SUBSET (1 .. n)
  PROVE  /\ \A k \in 1 .. Cardinality(I) : Place(I, k) \in I /\ Cardinality(Below(I, Place(I, k))) = k
         /\ \A i \in I : Place(I, Cardinality(Below(I, i))) = i
<1> DEFINE m == Cardinality(I)
           rank == [i \in I |-> Cardinality(Below(I, i))]
<1>1. /\ IsFiniteSet(I) /\ m \in Nat
      /\ \A i \in I : Cardinality(Below(I, i)) \in 1 .. m
      /\ \A i, j \in I : i < j => Cardinality(Below(I, i)) < Cardinality(Below(I, j))
  BY Ranks
<1>2. rank \in [I -> 1 .. m]
  BY <1>1
<1>3. \A i, j \in I : i # j => rank[i] # rank[j]
  <2> SUFFICES ASSUME NEW i \in I, NEW j \in I, i # j PROVE rank[i] # rank[j]
    OBVIOUS
  <2>1. i < j \/ j < i
    OBVIOUS
  <2>2. rank[i] = Cardinality(Below(I, i)) /\ rank[j] = Cardinality(Below(I, j))
    OBVIOUS
  <2>3. Cardinality(Below(I, i)) \in Int /\ Cardinality(Below(I, j)) \in Int
    BY <1>1
  <2> QED BY <1>1, <2>1, <2>2, <2>3
<1>4. rank \in Surjection(I, 1 .. m)
  <2>1. rank \in Injection(I, 1 .. m)
    <3> HIDE DEF rank
    <3> QED BY <1>2, <1>3 DEF Injection, IsInjective
  <2>2. IsFiniteSet(1 .. m) /\ Cardinality(1 .. m) = m
    BY <1>1, FS_Interval
  <2> QED BY <2>1, <2>2, FS_Injection
<1>5. \A k \in 1 .. m : Place(I, k) \in I /\ Cardinality(Below(I, Place(I, k))) = k
  <2> SUFFICES ASSUME NEW k \in 1 .. m
               PROVE  Place(I, k) \in I /\ Cardinality(Below(I, Place(I, k))) = k
    OBVIOUS
  <2>1. \E i \in I : Cardinality(Below(I, i)) = k
    BY <1>4 DEF Surjection
  <2> QED BY <2>1 DEF Place, Below
<1>6. \A i \in I : Place(I, Cardinality(Below(I, i))) = i
  <2> SUFFICES ASSUME NEW i \in I PROVE Place(I, Cardinality(Below(I, i))) = i
    OBVIOUS
  <2>1. Cardinality(Below(I, i)) \in 1 .. m
    BY <1>1
  <2>2. PICK j : j = Place(I, Cardinality(Below(I, i)))
    OBVIOUS
  <2>3. j \in I /\ Cardinality(Below(I, j)) = Cardinality(Below(I, i))
    BY <1>5, <2>1, <2>2
  <2>4. rank[j] = rank[i]
    BY <2>3
  <2> HIDE DEF rank
  <2> QED BY <1>3, <2>2, <2>3, <2>4
<1> QED BY <1>5, <1>6

\* u is what v begins with.
HeadOf(u, v) == Len(u) <= Len(v) /\ \A i \in 1 .. Len(u) : u[i] = v[i]

LEMMA AtIsSeq ==
  ASSUME NEW S, NEW s \in Seq(S), NEW I \in SUBSET (1 .. Len(s))
  PROVE  At(s, I) \in Seq(S) /\ Len(At(s, I)) = Cardinality(I) /\ Cardinality(I) \in Nat
<1>1. Len(s) \in Nat /\ Cardinality(I) \in Nat
  <2>1. Len(s) \in Nat
    BY LenProperties
  <2> QED BY <2>1, Ranks
<1>2. \A k \in 1 .. Cardinality(I) : Place(I, k) \in I
  BY <1>1, Places
<1>3. At(s, I) = [k \in 1 .. Cardinality(I) |-> s[Place(I, k)]]
  BY DEF At
<1>4. \A k \in 1 .. Cardinality(I) : s[Place(I, k)] \in S
  <2> SUFFICES ASSUME NEW k \in 1 .. Cardinality(I) PROVE s[Place(I, k)] \in S
    OBVIOUS
  <2>1. Place(I, k) \in 1 .. Len(s)
    BY <1>2
  <2> QED BY <2>1
<1>5. At(s, I) \in [1 .. Cardinality(I) -> S]
  BY <1>3, <1>4
<1> QED BY <1>1, <1>5, OneToN

\* What a sequence has at some places begins what a longer one has there and at later ones.
LEMMA AtPrefix ==
  ASSUME NEW S, NEW u \in Seq(S), NEW v \in Seq(S), HeadOf(u, v),
         NEW J \in SUBSET (1 .. Len(v)), NEW I, I = {i \in J : i <= Len(u)}
  PROVE  /\ HeadOf(At(u, I), At(v, J)) /\ I \in SUBSET (1 .. Len(u))
         /\ \A k \in 1 .. Len(At(u, I)) : At(u, I)[k] = v[Place(J, k)]
<1>1. Len(u) \in Nat /\ Len(v) \in Nat /\ Len(u) <= Len(v)
  BY DEF HeadOf
<1>2. I \in SUBSET (1 .. Len(u)) /\ I \in SUBSET J
  <2>1. \A i \in J : i \in 1 .. Len(v)
    OBVIOUS
  <2>2. \A i \in I : i \in J /\ i \in 1 .. Len(u)
    BY <1>1, <2>1
  <2> QED BY <2>2
<1>3. /\ Len(At(u, I)) = Cardinality(I) /\ Cardinality(I) \in Nat
      /\ Len(At(v, J)) = Cardinality(J) /\ Cardinality(J) \in Nat
  BY <1>2, AtIsSeq
<1>4. Cardinality(I) <= Cardinality(J)
  <2>1. IsFiniteSet(J)
    BY <1>1, Ranks
  <2> QED BY <1>2, <2>1, FS_Subset
<1>5. ASSUME NEW k \in 1 .. Cardinality(I) PROVE Place(I, k) = Place(J, k) /\ Place(I, k) \in 1 .. Len(u)
  <2>1. PICK i : i = Place(I, k)
    OBVIOUS
  <2>2. i \in I /\ Cardinality(Below(I, i)) = k
    <3>1. \A h \in 1 .. Cardinality(I) : Place(I, h) \in I /\ Cardinality(Below(I, Place(I, h))) = h
      BY <1>1, <1>2, Places
    <3> QED BY <2>1, <3>1
  <2>3. Below(I, i) = Below(J, i)
    <3>1. i \in 1 .. Len(u) /\ \A j \in J : j \in 1 .. Len(v)
      BY <1>2, <2>2
    <3>2. \A j \in J : j <= i => j <= Len(u)
      BY <1>1, <3>1
    <3> QED BY <3>2 DEF Below
  <2>4. i \in J /\ Cardinality(Below(J, i)) = k
    BY <1>2, <2>2, <2>3
  <2>5. Place(J, k) = i
    BY <1>1, <2>4, Places
  <2> QED BY <1>2, <2>1, <2>2, <2>5
<1>6. ASSUME NEW k \in 1 .. Cardinality(I)
      PROVE  At(u, I)[k] = At(v, J)[k] /\ At(u, I)[k] = v[Place(J, k)]
  <2>1. k \in 1 .. Cardinality(J)
    BY <1>3, <1>4
  <2>2. At(u, I)[k] = u[Place(I, k)] /\ At(v, J)[k] = v[Place(J, k)]
    BY <2>1 DEF At
  <2>3. u[Place(I, k)] = v[Place(I, k)]
    BY <1>5 DEF HeadOf
  <2> QED BY <1>5, <2>2, <2>3
<1> QED BY <1>2, <1>3, <1>4, <1>6 DEF HeadOf

\* One element more, which is taken or not.
LEMMA AtAppend ==
  ASSUME NEW S, NEW s \in Seq(S), NEW e \in S, NEW I \in SUBSET (1 .. Len(s))
  PROVE  /\ At(Append(s, e), I) = At(s, I)
         /\ At(Append(s, e), I \cup {Len(s) + 1}) = Append(At(s, I), e)
<1> DEFINE t == Append(s, e)
           m == Cardinality(I)
           J == I \cup {Len(s) + 1}
<1>1. /\ Len(s) \in Nat /\ t \in Seq(S) /\ Len(t) = Len(s) + 1 /\ t[Len(s) + 1] = e
      /\ \A i \in 1 .. Len(s) : t[i] = s[i]
  BY AppendProperties
<1>2. HeadOf(s, t)
  BY <1>1 DEF HeadOf
<1> HIDE DEF t
<1>i. \A i \in I : i \in 1 .. Len(s)
  OBVIOUS
<1>3. I \in SUBSET (1 .. Len(t)) /\ J \in SUBSET (1 .. Len(t))
  <2>1. \A i \in J : i \in 1 .. Len(t)
    BY <1>1, <1>i
  <2> QED BY <2>1
<1>4. I = {i \in I : i <= Len(s)} /\ I = {i \in J : i <= Len(s)}
  <2>1. (\A i \in I : i <= Len(s)) /\ ~(Len(s) + 1 <= Len(s))
    BY <1>1, <1>i
  <2> QED BY <2>1
<1>5. /\ At(s, I) \in Seq(S) /\ Len(At(s, I)) = m /\ m \in Nat
      /\ At(t, I) \in Seq(S) /\ Len(At(t, I)) = m
      /\ At(t, J) \in Seq(S) /\ Len(At(t, J)) = Cardinality(J)
  BY <1>1, <1>3, AtIsSeq
<1>6. HeadOf(At(s, I), At(t, I)) /\ HeadOf(At(s, I), At(t, J))
  <2> HIDE DEF J
  <2> QED BY <1>1, <1>2, <1>3, <1>4, AtPrefix
<1>7. At(t, I) = At(s, I)
  BY <1>5, <1>6, SeqEqual DEF HeadOf
<1>8. Cardinality(J) = m + 1
  <2>1. Len(s) + 1 \notin I
    BY <1>1, <1>i
  <2>2. IsFiniteSet(I)
    BY <1>1, Ranks
  <2> QED BY <2>1, <2>2, FS_AddElement
<1>9. At(t, J)[m + 1] = e
  <2>1. Below(J, Len(s) + 1) = J
    <3>1. \A i \in J : i <= Len(s) + 1
      BY <1>1, <1>i
    <3> QED BY <3>1 DEF Below
  <2>2. Place(J, m + 1) = Len(s) + 1
    <3> HIDE DEF J
    <3>1. Len(s) + 1 \in J
      BY DEF J
    <3>2. Len(t) \in Nat /\ Cardinality(Below(J, Len(s) + 1)) = m + 1
      BY <1>1, <1>8, <2>1
    <3>3. \A i \in J : Place(J, Cardinality(Below(J, i))) = i
      BY <1>3, <3>2, Places
    <3> QED BY <3>1, <3>2, <3>3
  <2>3. m + 1 \in 1 .. Cardinality(J)
    BY <1>5, <1>8
  <2>4. At(t, J)[m + 1] = t[Place(J, m + 1)]
    BY <2>3 DEF At
  <2> QED BY <1>1, <2>2, <2>4
<1>10. At(t, J) = Append(At(s, I), e)
  <2> DEFINE a == At(s, I)
             b == At(t, J)
  <2>1. a \in Seq(S) /\ b \in Seq(S) /\ Len(a) = m /\ Len(b) = m + 1 /\ b[m + 1] = e
        /\ \A i \in 1 .. m : a[i] = b[i]
    BY <1>5, <1>6, <1>8, <1>9 DEF HeadOf
  <2> HIDE DEF a, b
  <2>2. Append(a, e) \in Seq(S) /\ Len(Append(a, e)) = m + 1
        /\ \A i \in 1 .. m + 1 : Append(a, e)[i] = b[i]
    BY <1>5, <2>1, AppendProperties
  <2>3. Append(a, e) = b
    BY <2>1, <2>2, SeqEqual
  <2> QED BY <2>3 DEF a, b
<1> QED BY <1>7, <1>10 DEF t
-------------------------------------------------------------------------------
(* What a line becomes on its way.                                         *)

\* The text of a relay.
Rest(c, frame) == SubSeq(frame, Len(Prefix[c]) + 1, Len(frame))

\* What c said, among the frames of a connection.
FramesOf(c, frames) == {i \in DOMAIN frames : Begins(frames[i], Prefix[c])}
RestsOf(c, frames) == [i \in DOMAIN frames |-> Rest(c, frames[i])]
TextsIn(c, frames) == At(RestsOf(c, frames), FramesOf(c, frames))

\* What handle_line makes, under a limit, of the lines it has read from c but
\* for the first n.
Goes(c, text, max) ==
  Trim(text) # <<>> /\ ~IsCommand(Trim(text)) /\ Len(Prefix[c] \o Trim(text)) <= max
Going(c, n, texts, max) == {i \in DOMAIN texts : n < i /\ Goes(c, texts[i], max)}
Trimmed(texts) == [i \in DOMAIN texts |-> Trim(texts[i])]
Relays(c, n, texts, max) == At(Trimmed(texts), Going(c, n, texts, max))
Plan(c, d) == Relays(c, since[d][c], got[Up(c)], limits.server)

\* The relays to d among the frames a handler has still to send, and can.
DueIn(jobs, d, max) == {i \in DOMAIN jobs : jobs[i].to = d /\ Len(jobs[i].frame) <= max}

\* d was sent `texts` of the plan, which is all of it but for a frame that is due.
Sends(c, d, texts, plan, jobs, max, reached) ==
  /\ HeadOf(texts, plan)
  /\ reached =>
       \/ DueIn(jobs, d, max) = {} /\ texts = plan
       \/ \E i \in DOMAIN jobs :
            DueIn(jobs, d, max) = {i} /\ Append(texts, Rest(c, jobs[i].frame)) = plan

Reached(d) == serving[d] \in {"serving", "leaving"} /\ ~closed[d]

\* The limit is one of a header, and holds of what the server has read; who
\* does not read any more has closed.
LimitsHold ==
  /\ limits.server <= MaxLimit
  /\ \A s \in Stream :
       /\ phase[s] = "body" => need[s] <= ReadLimit(s)
       /\ \A i \in 1 .. Len(got[s]) : Len(got[s][i]) <= ReadLimit(s)
       /\ phase[s] = "closed" <=> ended[<<s[1], Other(s[2])>>]

\* What was written to the server is what was stored, as long as it can be.
SentOn ==
  \A c \in Conn :
    /\ HeadOf(sent[Up(c)], TextsBy(c, messages))
    /\ ~closed[c] /\ serving[c] # "gone" => sent[Up(c)] = TextsBy(c, messages)

\* Nothing is read after /exit.
ExitsLast ==
  \A c \in Conn : \A i \in DOMAIN got[Up(c)] :
    IsExit(Trim(got[Up(c)][i])) => i = Len(got[Up(c)]) /\ serving[c] \in {"leaving", "gone"}

\* A handler has relays to send, to others that were welcomed, or an ERR to its
\* own client.
JobsFit ==
  \A c \in Conn : \A i \in DOMAIN todo[c] :
    /\ serving[todo[c][i].to] # "accepted"
    /\ \/ todo[c][i].to # c /\ Begins(todo[c][i].frame, Prefix[c])
       \/ todo[c][i].to = c /\ todo[c][i].frame = Err

\* WELCOME comes once and first.
Greeted ==
  \A c \in Conn :
    /\ (serving[c] = "accepted") = (sent[Down(c)] = <<>>)
    /\ \A i \in DOMAIN sent[Down(c)] : (sent[Down(c)][i] = Welcome) = (i = 1)
    /\ (ready[c] = "no") = (got[Down(c)] = <<>>)

\* The lines of c that d was sent are those c's handler has read, but for one
\* that is due.
RelaysOn ==
  \A c, d \in Conn : c # d =>
    /\ since[d][c] <= Len(got[Up(c)])
    /\ Sends(c, d, TextsIn(c, sent[Down(d)]), Plan(c, d), todo[c], limits.server, Reached(d))

\* A page shows what its connection brought.
PagesOn ==
  \A c, d \in Conn :
    /\ HeadOf(TextsBy(c, page[d]), TextsIn(c, got[Down(d)]))
    /\ ws[d] = "open" => TextsBy(c, page[d]) = TextsIn(c, got[Down(d)])

\* What was typed before each of WELCOME and `ready`, and after.
StoredOn ==
  \A c \in Conn :
    /\ ready[c] # "yes" =>
         /\ TextsBy(c, messages) = TypedWhen(c, "claiming")
         /\ pending[c] = TypedWhen(c, "no") /\ TypedWhen(c, "yes") = <<>>
    /\ ready[c] = "no" => TypedWhen(c, "claiming") = <<>>
    /\ ready[c] = "yes" =>
         TextsBy(c, messages) \o pending[c] =
           (TypedWhen(c, "claiming") \o TypedWhen(c, "no")) \o TypedWhen(c, "yes")

RelayInv ==
  /\ LimitsHold /\ SentOn /\ ExitsLast /\ JobsFit
  /\ Greeted /\ RelaysOn /\ PagesOn /\ StoredOn
-------------------------------------------------------------------------------
\* Heads of sequences.
LEMMA HeadsFollow ==
  ASSUME NEW S, NEW u \in Seq(S), NEW v \in Seq(S), NEW w \in Seq(S), HeadOf(u, v), HeadOf(v, w)
  PROVE  HeadOf(u, w)
<1>1. Len(u) \in Nat /\ Len(v) \in Nat /\ Len(w) \in Nat /\ Len(u) <= Len(v) /\ Len(v) <= Len(w)
  BY DEF HeadOf
<1>2. \A i \in 1 .. Len(u) : i \in 1 .. Len(v)
  BY <1>1
<1>3. \A i \in 1 .. Len(u) : u[i] = w[i]
  BY <1>2 DEF HeadOf
<1>4. Len(u) <= Len(w)
  BY <1>1
<1> QED BY <1>3, <1>4 DEF HeadOf

LEMMA HeadOfSelf ==
  ASSUME NEW S, NEW u \in Seq(S)
  PROVE  HeadOf(u, u) /\ HeadOf(<<>>, u) /\ \A e \in S : HeadOf(u, Append(u, e))
<1>1. Len(u) \in Nat
  OBVIOUS
<1>2. ASSUME NEW e \in S PROVE HeadOf(u, Append(u, e))
  <2>1. Len(Append(u, e)) = Len(u) + 1 /\ \A i \in 1 .. Len(u) : Append(u, e)[i] = u[i]
    BY AppendProperties
  <2> QED BY <1>1, <2>1 DEF HeadOf
<1>3. HeadOf(u, u)
  BY <1>1 DEF HeadOf
<1>4. HeadOf(<<>>, u)
  <2>1. Len(<<>>) = 0
    OBVIOUS
  <2>2. 1 .. 0 = {}
    OBVIOUS
  <2> QED BY <1>1, <2>1, <2>2 DEF HeadOf
<1> QED BY <1>2, <1>3, <1>4

\* A head that is as long is all.
LEMMA WholeHead ==
  ASSUME NEW S, NEW u \in Seq(S), NEW v \in Seq(S), HeadOf(u, v), Len(v) <= Len(u)
  PROVE  u = v
<1>1. Len(u) = Len(v)
  <2>1. Len(u) \in Nat /\ Len(v) \in Nat /\ Len(u) <= Len(v)
    BY DEF HeadOf
  <2> QED BY <2>1
<1> QED BY <1>1, SeqEqual DEF HeadOf

\* One element more, at a place of J or not.
GrowsBy(a, b, e, more) == IF more THEN b = Append(a, e) ELSE b = a
SameBelow(I, J, n) == \A i \in 1 .. n : i \in J <=> i \in I

LEMMA AtGrows ==
  ASSUME NEW S, NEW s \in Seq(S), NEW e \in S,
         NEW I \in SUBSET (1 .. Len(s)), NEW J \in SUBSET (1 .. Len(Append(s, e))),
         SameBelow(I, J, Len(s))
  PROVE  /\ At(s, I) \in Seq(S) /\ At(Append(s, e), J) \in Seq(S)
         /\ GrowsBy(At(s, I), At(Append(s, e), J), e, Len(s) + 1 \in J)
<1> DEFINE t == Append(s, e)
<1>1. Len(s) \in Nat /\ t \in Seq(S) /\ Len(t) = Len(s) + 1
  BY AppendProperties
<1>2. \A i \in J : i \in 1 .. Len(s) \/ i = Len(s) + 1
  <2>1. \A i \in J : i \in 1 .. Len(s) + 1
    BY <1>1
  <2> QED BY <1>1, <2>1
<1>3. At(s, I) \in Seq(S) /\ At(t, J) \in Seq(S)
  BY <1>1, AtIsSeq
<1>4. /\ At(t, I) = At(s, I)
      /\ At(t, I \cup {Len(s) + 1}) = Append(At(s, I), e)
  BY AtAppend
<1>5. CASE Len(s) + 1 \in J
  <2>1. J = I \cup {Len(s) + 1}
    BY <1>2, <1>5 DEF SameBelow
  <2> QED BY <1>3, <1>4, <1>5, <2>1 DEF GrowsBy
<1>6. CASE Len(s) + 1 \notin J
  <2>1. J = I
    BY <1>2, <1>6 DEF SameBelow
  <2> QED BY <1>3, <1>4, <1>6, <2>1 DEF GrowsBy
<1> QED BY <1>5, <1>6

\* The texts of a log, with one more.
LEMMA TextsOfLog ==
  ASSUME NEW T, NEW log \in Seq(T), \A r \in T : r.text \in Payload
  PROVE  /\ TextsOf(log) \in Seq(Payload) /\ Len(TextsOf(log)) = Len(log)
         /\ \A r \in T : TextsOf(Append(log, r)) = Append(TextsOf(log), r.text)
<1>1. Len(log) \in Nat /\ DOMAIN log = 1 .. Len(log) /\ \A i \in 1 .. Len(log) : log[i] \in T
  OBVIOUS
<1>2. \A i \in 1 .. Len(log) : log[i].text \in Payload
  BY <1>1
<1>3. TextsOf(log) = [i \in 1 .. Len(log) |-> log[i].text]
  BY <1>1 DEF TextsOf
<1>4. TextsOf(log) \in Seq(Payload) /\ Len(TextsOf(log)) = Len(log)
  BY <1>1, <1>2, <1>3
<1>5. ASSUME NEW r \in T
      PROVE  TextsOf(Append(log, r)) = Append(TextsOf(log), r.text)
  <2> DEFINE q == Append(log, r)
             a == TextsOf(q)
             b == Append(TextsOf(log), r.text)
             n == Len(log) + 1
  <2>1. q \in Seq(T) /\ Len(q) = n /\ q[n] = r /\ \A i \in 1 .. Len(log) : q[i] = log[i]
    BY AppendProperties
  <2>2. n \in Nat /\ DOMAIN q = 1 .. n
    BY <1>1, <2>1
  <2> HIDE DEF q
  <2>3. a = [i \in 1 .. n |-> q[i].text]
    BY <2>2 DEF TextsOf
  <2>4. r.text \in Payload
    OBVIOUS
  <2>5. /\ b \in Seq(Payload) /\ Len(b) = n /\ b[n] = r.text
        /\ \A i \in 1 .. Len(log) : b[i] = TextsOf(log)[i]
    BY <1>4, <2>4, AppendProperties
  <2>6. \A i \in 1 .. n : q[i].text = b[i]
    <3> SUFFICES ASSUME NEW i \in 1 .. n PROVE q[i].text = b[i]
      OBVIOUS
    <3>1. CASE i = n
      BY <2>1, <2>5, <3>1
    <3>2. CASE i # n
      <4>1. i \in 1 .. Len(log)
        BY <1>1, <3>2
      <4> QED BY <1>3, <2>1, <2>5, <4>1
    <3> QED BY <3>1, <3>2
  <2>7. DOMAIN b = 1 .. n /\ b = [i \in DOMAIN b |-> b[i]]
    BY <2>2, <2>5
  <2> HIDE DEF a, b, n
  <2>8. a = b
    BY <2>3, <2>6, <2>7
  <2> QED BY <2>8 DEF a, b, q
<1> QED BY <1>4, <1>5
-------------------------------------------------------------------------------
(* One element more, of each of these.                                     *)
Row == [by : Conn, text : Payload]
TypedRow == [by : Conn, text : Payload, when : Readiness]

\* A log with one more text.
LEMMA TextsByGrows ==
  ASSUME NEW log \in Seq(Row), NEW c \in Conn
  PROVE  /\ TextsBy(c, log) \in Seq(Payload)
         /\ \A r \in Row :
              /\ r.by = c => TextsBy(c, Append(log, r)) = Append(TextsBy(c, log), r.text)
              /\ r.by # c => TextsBy(c, Append(log, r)) = TextsBy(c, log)
<1>1. \A r \in Row : r.text \in Payload /\ r.by \in Conn
  BY DEF Row
<1>2. /\ TextsOf(log) \in Seq(Payload) /\ Len(TextsOf(log)) = Len(log)
      /\ \A r \in Row : TextsOf(Append(log, r)) = Append(TextsOf(log), r.text)
  BY <1>1, TextsOfLog
<1>3. Len(log) \in Nat /\ DOMAIN log = 1 .. Len(log)
  OBVIOUS
<1> DEFINE I == {i \in DOMAIN log : log[i].by = c}
<1>4. I \in SUBSET (1 .. Len(TextsOf(log))) /\ TextsBy(c, log) = At(TextsOf(log), I)
  BY <1>2, <1>3 DEF TextsBy
<1>5. ASSUME NEW r \in Row
      PROVE  /\ r.by = c => TextsBy(c, Append(log, r)) = Append(TextsBy(c, log), r.text)
             /\ r.by # c => TextsBy(c, Append(log, r)) = TextsBy(c, log)
  <2> DEFINE q == Append(log, r)
             J == {i \in DOMAIN q : q[i].by = c}
             n == Len(log) + 1
             u == Append(TextsOf(log), r.text)
  <2>1. q \in Seq(Row) /\ Len(q) = n /\ q[n] = r /\ \A i \in 1 .. Len(log) : q[i] = log[i]
    BY AppendProperties
  <2>2. DOMAIN q = 1 .. n /\ n \in Nat
    BY <1>3, <2>1
  <2>3. r.text \in Payload /\ TextsOf(q) = u /\ Len(u) = n
    BY <1>1, <1>2, AppendProperties
  <2>4. TextsBy(c, q) = At(u, J)
    BY <2>3 DEF TextsBy
  <2> HIDE DEF q
  <2>5. J \in SUBSET (1 .. Len(u))
    BY <2>2, <2>3
  <2>6. \A i \in 1 .. Len(TextsOf(log)) : i \in J <=> i \in I
    BY <1>2, <1>3, <2>1, <2>2
  <2>7. (n \in J) = (r.by = c)
    BY <2>1, <2>2
  <2> HIDE DEF I, J, u
  <2>8. /\ n \in J => At(u, J) = Append(At(TextsOf(log), I), r.text)
        /\ n \notin J => At(u, J) = At(TextsOf(log), I)
    <3> DEFINE s == TextsOf(log)
    <3>1. s \in Seq(Payload) /\ I \in SUBSET (1 .. Len(s)) /\ n = Len(s) + 1
      BY <1>2, <1>4
    <3>2. u = Append(s, r.text)
      BY DEF u
    <3> HIDE DEF s, n
    <3>3. \A i \in 1 .. Len(s) : i \in J <=> i \in I
      BY <2>6 DEF s
    <3>4. /\ Len(s) + 1 \in J => At(u, J) = Append(At(s, I), r.text)
          /\ Len(s) + 1 \notin J => At(u, J) = At(s, I)
      <4> DEFINE e == r.text
      <4> HIDE DEF e
      <4>1. e \in Payload /\ u = Append(s, e)
        BY <2>3, <3>2 DEF e
      <4>2. SameBelow(I, J, Len(s)) /\ J \in SUBSET (1 .. Len(Append(s, e)))
        BY <2>5, <3>3, <4>1 DEF SameBelow
      <4>3. GrowsBy(At(s, I), At(Append(s, e), J), e, Len(s) + 1 \in J)
        BY <3>1, <4>1, <4>2, AtGrows
      <4> QED BY <4>1, <4>3 DEF e, GrowsBy
    <3> QED BY <3>1, <3>4 DEF s
  <2> QED BY <1>4, <2>4, <2>7, <2>8 DEF q
<1>6. TextsBy(c, log) \in Seq(Payload)
  <2> HIDE DEF I
  <2> QED BY <1>2, <1>4, AtIsSeq
<1> QED BY <1>5, <1>6

\* What was typed, with one text more.
LEMMA TypedGrows ==
  ASSUME LineTypeOK, NEW r \in TypedRow, typed' = Append(typed, r), NEW c \in Conn, NEW w
  PROVE  /\ TypedWhen(c, w) \in Seq(Payload)
         /\ r.by = c /\ r.when = w => TypedWhen(c, w)' = Append(TypedWhen(c, w), r.text)
         /\ ~(r.by = c /\ r.when = w) => TypedWhen(c, w)' = TypedWhen(c, w)
<1>0. typed \in Seq(TypedRow)
  BY DEF LineTypeOK, TypedRow
<1>1. \A x \in TypedRow : x.text \in Payload
  BY DEF TypedRow
<1>2. /\ TextsOf(typed) \in Seq(Payload) /\ Len(TextsOf(typed)) = Len(typed)
      /\ TextsOf(typed') = Append(TextsOf(typed), r.text) /\ r.text \in Payload
  BY <1>0, <1>1, TextsOfLog
<1>3. Len(typed) \in Nat /\ DOMAIN typed = 1 .. Len(typed)
  BY <1>0
<1> DEFINE I == {i \in DOMAIN typed : typed[i].by = c /\ typed[i].when = w}
           J == {i \in DOMAIN typed' : typed'[i].by = c /\ typed'[i].when = w}
           s == TextsOf(typed)
           u == TextsOf(typed')
           n == Len(typed) + 1
<1>4. I \in SUBSET (1 .. Len(s)) /\ TypedWhen(c, w) = At(s, I) /\ TypedWhen(c, w)' = At(u, J)
  BY <1>2, <1>3 DEF TypedWhen
<1>5. typed' \in Seq(TypedRow) /\ Len(typed') = n /\ typed'[n] = r
      /\ \A i \in 1 .. Len(typed) : typed'[i] = typed[i]
  BY <1>0, AppendProperties
<1>6. DOMAIN typed' = 1 .. n /\ n \in Nat
  BY <1>3, <1>5
<1>7. Len(u) = n /\ u = Append(s, r.text) /\ s \in Seq(Payload) /\ Len(s) + 1 = n
  BY <1>2, AppendProperties
<1>8. J \in SUBSET (1 .. Len(u))
  BY <1>6, <1>7
<1>9. \A i \in 1 .. Len(s) : i \in J <=> i \in I
  BY <1>2, <1>3, <1>5, <1>6
<1>10. (n \in J) = (r.by = c /\ r.when = w)
  BY <1>5, <1>6
<1> HIDE DEF I, J, u, s, n
<1>11. /\ Len(s) + 1 \in J => At(u, J) = Append(At(s, I), r.text)
       /\ Len(s) + 1 \notin J => At(u, J) = At(s, I)
       /\ At(s, I) \in Seq(Payload)
  <2> DEFINE e == r.text
  <2> HIDE DEF e
  <2>1. e \in Payload /\ u = Append(s, e)
    BY <1>2, <1>7 DEF e
  <2>2. SameBelow(I, J, Len(s)) /\ J \in SUBSET (1 .. Len(Append(s, e)))
    BY <1>8, <1>9, <2>1 DEF SameBelow
  <2>3. GrowsBy(At(s, I), At(Append(s, e), J), e, Len(s) + 1 \in J) /\ At(s, I) \in Seq(Payload)
    BY <1>4, <1>7, <2>1, <2>2, AtGrows
  <2> QED BY <2>1, <2>3 DEF e, GrowsBy
<1> QED BY <1>4, <1>7, <1>10, <1>11

\* A sequence of frames with one more.
LEMMA RestsSeq ==
  ASSUME NEW frames \in Seq(Payload), NEW c \in Conn
  PROVE  /\ RestsOf(c, frames) \in Seq(Payload) /\ Len(RestsOf(c, frames)) = Len(frames)
         /\ \A i \in 1 .. Len(frames) : RestsOf(c, frames)[i] = Rest(c, frames[i])
<1>1. Len(frames) \in Nat /\ DOMAIN frames = 1 .. Len(frames)
  OBVIOUS
<1>2. \A i \in 1 .. Len(frames) : Rest(c, frames[i]) \in Payload
  <2> SUFFICES ASSUME NEW i \in 1 .. Len(frames) PROVE Rest(c, frames[i]) \in Payload
    OBVIOUS
  <2>1. frames[i] \in Payload /\ Prefix[c] \in Payload
    BY LineConstants
  <2> QED BY <2>1, RestIsPayload DEF Rest
<1>3. RestsOf(c, frames) = [i \in 1 .. Len(frames) |-> Rest(c, frames[i])]
  BY <1>1 DEF RestsOf
<1> QED BY <1>1, <1>2, <1>3

LEMMA TextsInGrow ==
  ASSUME NEW frames \in Seq(Payload), NEW f \in Payload, NEW c \in Conn
  PROVE  /\ TextsIn(c, frames) \in Seq(Payload) /\ TextsIn(c, Append(frames, f)) \in Seq(Payload)
         /\ Rest(c, f) \in Payload
         /\ Begins(f, Prefix[c]) => TextsIn(c, Append(frames, f)) = Append(TextsIn(c, frames), Rest(c, f))
         /\ ~Begins(f, Prefix[c]) => TextsIn(c, Append(frames, f)) = TextsIn(c, frames)
<1> DEFINE q == Append(frames, f)
           I == FramesOf(c, frames)
           J == FramesOf(c, q)
           s == RestsOf(c, frames)
           u == RestsOf(c, q)
           n == Len(frames) + 1
<1>1. /\ q \in Seq(Payload) /\ Len(q) = n /\ q[n] = f /\ \A i \in 1 .. Len(frames) : q[i] = frames[i]
      /\ Len(frames) \in Nat /\ DOMAIN frames = 1 .. Len(frames)
  BY AppendProperties
<1>2. n \in Nat /\ DOMAIN q = 1 .. n
  BY <1>1
<1>3. /\ s \in Seq(Payload) /\ Len(s) = Len(frames)
      /\ \A i \in 1 .. Len(frames) : s[i] = Rest(c, frames[i])
  BY RestsSeq
<1> HIDE DEF q
<1>4. u \in Seq(Payload) /\ Len(u) = n /\ \A i \in 1 .. n : u[i] = Rest(c, q[i])
  BY <1>1, RestsSeq
<1>5. n \in 1 .. n /\ u[n] = Rest(c, f) /\ Rest(c, f) \in Payload
  <2>1. n \in 1 .. n
    BY <1>1
  <2>2. u[n] = Rest(c, f)
    BY <1>1, <1>4, <2>1
  <2>3. u[n] \in Payload
    BY <1>4, <2>1
  <2> QED BY <2>1, <2>2, <2>3
<1>6. \A i \in 1 .. Len(frames) : u[i] = s[i]
  BY <1>1, <1>3, <1>4
<1>7. n \in J <=> Begins(f, Prefix[c])
  BY <1>1, <1>2, <1>5 DEF FramesOf
<1>8. \A i \in 1 .. Len(s) : i \in J <=> i \in I
  BY <1>1, <1>2, <1>3 DEF FramesOf
<1>9. I \in SUBSET (1 .. Len(s)) /\ J \in SUBSET (1 .. Len(u))
  BY <1>1, <1>2, <1>3, <1>4 DEF FramesOf
<1>10. TextsIn(c, frames) = At(s, I) /\ TextsIn(c, q) = At(u, J)
  BY DEF TextsIn
<1> HIDE DEF I, J, s, u, n
<1>11. u = Append(s, Rest(c, f))
  <2> DEFINE e == Rest(c, f)
  <2> HIDE DEF e
  <2>1. /\ Append(s, e) \in Seq(Payload) /\ Len(Append(s, e)) = Len(s) + 1
        /\ Append(s, e)[Len(s) + 1] = e /\ \A i \in 1 .. Len(s) : Append(s, e)[i] = s[i]
    BY <1>3, <1>5, AppendProperties DEF e
  <2>2. n = Len(s) + 1
    BY <1>3 DEF n
  <2>3. \A i \in 1 .. n : i \in 1 .. Len(s) \/ i = n
    BY <1>1, <2>2, <1>3
  <2>4. \A i \in 1 .. n : u[i] = Append(s, e)[i]
    BY <1>3, <1>5, <1>6, <2>1, <2>2, <2>3 DEF e
  <2>5. u = Append(s, e)
    BY <1>4, <2>1, <2>2, <2>4, SeqEqual
  <2> QED BY <2>5 DEF e
<1>12. /\ Len(s) + 1 \in J => At(u, J) = Append(At(s, I), Rest(c, f))
       /\ Len(s) + 1 \notin J => At(u, J) = At(s, I)
       /\ At(s, I) \in Seq(Payload) /\ At(u, J) \in Seq(Payload)
  <2> DEFINE e == Rest(c, f)
  <2> HIDE DEF e
  <2>1. e \in Payload /\ u = Append(s, e)
    BY <1>5, <1>11 DEF e
  <2>2. SameBelow(I, J, Len(s)) /\ J \in SUBSET (1 .. Len(Append(s, e)))
    BY <1>8, <1>9, <2>1 DEF SameBelow
  <2>3. /\ GrowsBy(At(s, I), At(Append(s, e), J), e, Len(s) + 1 \in J)
        /\ At(s, I) \in Seq(Payload) /\ At(Append(s, e), J) \in Seq(Payload)
    BY <1>3, <1>9, <2>1, <2>2, AtGrows
  <2> QED BY <2>1, <2>3 DEF e, GrowsBy
<1>13. Len(s) + 1 = n
  BY <1>3 DEF n
<1> QED BY <1>5, <1>7, <1>10, <1>12, <1>13 DEF q

\* The lines a handler has read, with one more.
LEMMA TrimmedSeq ==
  ASSUME NEW texts \in Seq(Payload)
  PROVE  /\ Trimmed(texts) \in Seq(Payload) /\ Len(Trimmed(texts)) = Len(texts)
         /\ \A i \in 1 .. Len(texts) : Trimmed(texts)[i] = Trim(texts[i])
<1>1. Len(texts) \in Nat /\ DOMAIN texts = 1 .. Len(texts)
  OBVIOUS
<1>2. \A i \in 1 .. Len(texts) : Trim(texts[i]) \in Payload
  BY TrimmedIsPayload
<1>3. Trimmed(texts) = [i \in 1 .. Len(texts) |-> Trim(texts[i])]
  BY <1>1 DEF Trimmed
<1> QED BY <1>1, <1>2, <1>3

\* What one text more adds to the relays.
RelaysNext(c, k, texts, t, max) ==
  /\ Relays(c, k, texts, max) \in Seq(Payload) /\ Trim(t) \in Payload
  /\ Relays(c, k, Append(texts, t), max) \in Seq(Payload)
  /\ k <= Len(texts) /\ Goes(c, t, max) =>
       Relays(c, k, Append(texts, t), max) = Append(Relays(c, k, texts, max), Trim(t))
  /\ ~Goes(c, t, max) =>
       Relays(c, k, Append(texts, t), max) = Relays(c, k, texts, max)
  /\ HeadOf(Relays(c, k, texts, max), Relays(c, k, Append(texts, t), max))
  /\ Relays(c, Len(texts), texts, max) = <<>>

LEMMA RelaysGrow ==
  ASSUME NEW texts \in Seq(Payload), NEW t \in Payload, NEW c \in Conn, NEW k \in Nat, NEW max
  PROVE  RelaysNext(c, k, texts, t, max)
<1> DEFINE q == Append(texts, t)
           I == Going(c, k, texts, max)
           J == Going(c, k, q, max)
           s == Trimmed(texts)
           u == Trimmed(q)
           n == Len(texts) + 1
<1>1. /\ q \in Seq(Payload) /\ Len(q) = n /\ q[n] = t /\ \A i \in 1 .. Len(texts) : q[i] = texts[i]
      /\ Len(texts) \in Nat /\ DOMAIN texts = 1 .. Len(texts)
  BY AppendProperties
<1>2. n \in Nat /\ DOMAIN q = 1 .. n
  BY <1>1
<1>3. s \in Seq(Payload) /\ Len(s) = Len(texts) /\ \A i \in 1 .. Len(texts) : s[i] = Trim(texts[i])
  BY TrimmedSeq
<1> HIDE DEF q
<1>4. u \in Seq(Payload) /\ Len(u) = n /\ \A i \in 1 .. n : u[i] = Trim(q[i])
  BY <1>1, TrimmedSeq
<1>5. n \in 1 .. n /\ u[n] = Trim(t) /\ Trim(t) \in Payload
  <2>1. n \in 1 .. n
    BY <1>1
  <2>2. u[n] = Trim(t)
    BY <1>1, <1>4, <2>1
  <2> QED BY <2>1, <2>2, TrimmedIsPayload
<1>6. \A i \in 1 .. Len(texts) : u[i] = s[i]
  BY <1>1, <1>3, <1>4
<1>7. (n \in J) = (k < n /\ Goes(c, t, max))
  BY <1>1, <1>2, <1>5 DEF Going
<1>8. \A i \in 1 .. Len(s) : i \in J <=> i \in I
  BY <1>1, <1>2, <1>3 DEF Going
<1>9. I \in SUBSET (1 .. Len(s)) /\ J \in SUBSET (1 .. Len(u))
  BY <1>1, <1>2, <1>3, <1>4 DEF Going
<1>10. Relays(c, k, texts, max) = At(s, I) /\ Relays(c, k, q, max) = At(u, J)
  BY DEF Relays
<1>k. k <= Len(texts) => k < n
  BY <1>1
<1>e. Relays(c, Len(texts), texts, max) = <<>>
  <2>1. Going(c, Len(texts), texts, max) = {}
    BY <1>1 DEF Going
  <2>2. At(s, {}) \in Seq(Payload) /\ Len(At(s, {})) = 0
    BY <1>3, AtIsSeq, FS_EmptySet
  <2> QED BY <2>1, <2>2 DEF Relays
<1> HIDE DEF I, J, s, u, n
<1>11. u = Append(s, Trim(t))
  <2> DEFINE e == Trim(t)
  <2> HIDE DEF e
  <2>1. /\ Append(s, e) \in Seq(Payload) /\ Len(Append(s, e)) = Len(s) + 1
        /\ Append(s, e)[Len(s) + 1] = e /\ \A i \in 1 .. Len(s) : Append(s, e)[i] = s[i]
    BY <1>3, <1>5, AppendProperties DEF e
  <2>2. n = Len(s) + 1
    BY <1>3 DEF n
  <2>3. \A i \in 1 .. n : i \in 1 .. Len(s) \/ i = n
    BY <1>1, <2>2, <1>3
  <2>4. \A i \in 1 .. n : u[i] = Append(s, e)[i]
    BY <1>3, <1>5, <1>6, <2>1, <2>2, <2>3 DEF e
  <2>5. u = Append(s, e)
    BY <1>4, <2>1, <2>2, <2>4, SeqEqual
  <2> QED BY <2>5 DEF e
<1>12. /\ Len(s) + 1 \in J => At(u, J) = Append(At(s, I), Trim(t))
       /\ Len(s) + 1 \notin J => At(u, J) = At(s, I)
       /\ At(s, I) \in Seq(Payload) /\ At(u, J) \in Seq(Payload)
  <2> DEFINE e == Trim(t)
  <2> HIDE DEF e
  <2>1. e \in Payload /\ u = Append(s, e)
    BY <1>5, <1>11 DEF e
  <2>2. SameBelow(I, J, Len(s)) /\ J \in SUBSET (1 .. Len(Append(s, e)))
    BY <1>8, <1>9, <2>1 DEF SameBelow
  <2>3. /\ GrowsBy(At(s, I), At(Append(s, e), J), e, Len(s) + 1 \in J)
        /\ At(s, I) \in Seq(Payload) /\ At(Append(s, e), J) \in Seq(Payload)
    BY <1>3, <1>9, <2>1, <2>2, AtGrows
  <2> QED BY <2>1, <2>3 DEF e, GrowsBy
<1>13. Len(s) + 1 = n
  BY <1>3 DEF n
<1>14. HeadOf(At(s, I), At(u, J))
  <2> DEFINE a == At(s, I)
             e == Trim(t)
  <2>1. a \in Seq(Payload) /\ e \in Payload /\ (At(u, J) = a \/ At(u, J) = Append(a, e))
    BY <1>5, <1>12
  <2> HIDE DEF a, e
  <2>2. HeadOf(a, a) /\ HeadOf(a, Append(a, e))
    BY <2>1, HeadOfSelf
  <2>3. HeadOf(a, At(u, J))
    BY <2>1, <2>2
  <2> QED BY <2>3 DEF a
<1> QED BY <1>5, <1>7, <1>10, <1>12, <1>13, <1>14, <1>k, <1>e DEF q, RelaysNext
-------------------------------------------------------------------------------
(* The limits.                                                             *)
LEMMA Streams ==
  ASSUME NEW c \in Conn
  PROVE  /\ Up(c) \in Stream /\ Down(c) \in Stream /\ IsUp(Up(c)) /\ ~IsUp(Down(c))
         /\ \A d \in Conn : Up(c) # Down(d) /\ (Up(c) = Up(d) => c = d) /\ (Down(c) = Down(d) => c = d)
BY DEF Up, Down, Stream, IsUp

LEMMA SettingsStay ==
  ASSUME [LinkNext]_linkVars
  PROVE  limits' = limits
<1>1. CASE UNCHANGED linkVars
  BY <1>1 DEF linkVars
<1>2. CASE LinkNext
  BY <1>2 DEF LinkNext, Write, Recv, RecvPart, RecvHeader, RecvBody, Data, Extract, TooLarge, Close
<1> QED BY <1>1, <1>2

\* A stream of which nothing changed that LimitsHold is about.
WithinLimit(s) ==
  /\ phase[s] = "body" => need[s] <= ReadLimit(s)
  /\ \A i \in 1 .. Len(got[s]) : Len(got[s][i]) <= ReadLimit(s)
  /\ phase[s] = "closed" <=> ended[<<s[1], Other(s[2])>>]

LEMMA SameWithin ==
  ASSUME NEW s \in Stream, WithinLimit(s), limits' = limits, phase'[s] = phase[s], need'[s] = need[s],
         got'[s] = got[s], ended' = ended
  PROVE  WithinLimit(s)'
BY DEF WithinLimit, ReadLimit

\* One more payload was read, no longer than the limit.
LEMMA ReadWithin ==
  ASSUME LinkTypeOK, NEW s \in Stream, WithinLimit(s), limits' = limits, ended' = ended,
         NEW p \in Payload, got' = [got EXCEPT ![s] = Append(@, p)], Len(p) <= ReadLimit(s),
         phase[s] # "closed", phase'[s] = "head"
  PROVE  WithinLimit(s)'
<1>1. got[s] \in Seq(Payload) /\ got'[s] = Append(got[s], p)
  BY DEF LinkTypeOK
<1>2. /\ Len(got[s]) \in Nat /\ Len(got'[s]) = Len(got[s]) + 1 /\ got'[s][Len(got[s]) + 1] = p
      /\ \A i \in 1 .. Len(got[s]) : got'[s][i] = got[s][i]
  BY <1>1, AppendProperties
<1>3. \A i \in 1 .. Len(got'[s]) : i \in 1 .. Len(got[s]) \/ i = Len(got[s]) + 1
  BY <1>2
<1>4. ReadLimit(s)' = ReadLimit(s)
  BY DEF ReadLimit
<1>5. \A i \in 1 .. Len(got'[s]) : Len(got'[s][i]) <= ReadLimit(s)
  BY <1>2, <1>3 DEF WithinLimit
<1> QED BY <1>4, <1>5 DEF WithinLimit

LEMMA LimitsHoldStep ==
  ASSUME LinkInv, LinkInv', LimitsHold, [LinkNext]_linkVars
  PROVE  LimitsHold'
<1>0. limits' = limits /\ LinkTypeOK /\ \A s \in Stream : WithinLimit(s)
  BY SettingsStay DEF LimitsHold, WithinLimit, LinkInv
<1> SUFFICES ASSUME NEW t \in Stream PROVE WithinLimit(t)'
  BY <1>0 DEF LimitsHold, WithinLimit
<1>t. WithinLimit(t)
  BY <1>0
<1>1. CASE UNCHANGED linkVars
  BY <1>1, <1>t, SameWithin DEF linkVars
<1>2. ASSUME NEW s \in Stream, NEW p, Write(s, p) PROVE WithinLimit(t)'
  BY <1>2, <1>t, SameWithin DEF Write
<1>3. ASSUME NEW s \in Stream, NEW n, Recv(s, n) PROVE WithinLimit(t)'
  <2>1. ended' = ended /\ limits' = limits
    BY <1>3 DEF Recv, RecvPart, RecvHeader, RecvBody
  <2>2. CASE RecvPart(s, n)
    BY <2>1, <2>2, <1>t, SameWithin DEF RecvPart
  <2>3. CASE t # s
    <3>1. phase'[t] = phase[t] /\ need'[t] = need[t] /\ got'[t] = got[t]
      BY <1>0, <1>3, <2>3 DEF Recv, RecvPart, RecvHeader, RecvBody, LinkTypeOK
    <3> QED BY <2>1, <3>1, <1>t, SameWithin
  <2>4. CASE t = s /\ RecvHeader(s, n)
    <3> DEFINE len == Length(Extended(s, n))
    <3>1. UNCHANGED <<ended, limits>> /\ phase[s] = "head"
          /\ \/ /\ phase' = [phase EXCEPT ![s] = "refused"] /\ got' = got
             \/ /\ len <= ReadLimit(s)
                /\ got' = IF len = 0 THEN [got EXCEPT ![s] = Append(@, <<>>)] ELSE got
                /\ phase' = [phase EXCEPT ![s] = IF len = 0 THEN "head" ELSE "body"]
                /\ need' = [need EXCEPT ![s] = len]
      BY <2>4 DEF RecvHeader
    <3> HIDE DEF len
    <3>2. phase \in [Stream -> {"head", "body", "refused", "closed"}] /\ need \in [Stream -> Nat]
      BY <1>0 DEF LinkTypeOK
    <3>3. CASE phase' = [phase EXCEPT ![s] = "refused"] /\ got' = got
      <4>1. phase'[s] = "refused" /\ got'[s] = got[s]
        BY <3>2, <3>3
      <4> QED BY <3>1, <4>1, <1>t, <2>4 DEF WithinLimit, ReadLimit
    <3>4. CASE len <= ReadLimit(s) /\ len = 0 /\ got' = [got EXCEPT ![s] = Append(@, <<>>)]
               /\ phase' = [phase EXCEPT ![s] = "head"]
      <4> DEFINE p == <<>>
      <4>1. p \in Payload /\ Len(p) <= ReadLimit(s)
        BY <3>4 DEF Payload
      <4>2. phase'[s] = "head" /\ got' = [got EXCEPT ![s] = Append(@, p)]
        BY <3>2, <3>4
      <4> HIDE DEF p
      <4> QED BY <1>0, <1>t, <2>4, <3>1, <4>1, <4>2, ReadWithin
    <3>5. CASE len <= ReadLimit(s) /\ len # 0 /\ got' = got
               /\ phase' = [phase EXCEPT ![s] = "body"] /\ need' = [need EXCEPT ![s] = len]
      <4>1. phase'[s] = "body" /\ need'[s] = len /\ got'[s] = got[s]
        BY <3>2, <3>5
      <4> QED BY <3>1, <3>5, <4>1, <1>t, <2>4 DEF WithinLimit, ReadLimit
    <3> QED BY <3>1, <3>3, <3>4, <3>5
  <2>5. CASE t = s /\ RecvBody(s, n)
    <3>1. LinkTypeOK /\ Written(s) /\ Given(s) /\ Phased(s)
      BY DEF LinkInv
    <3>2. /\ phase[s] = "body" /\ Take(s, n) /\ Len(buffer[s]) + n = need[s]
          /\ got' = [got EXCEPT ![s] = Append(@, Extended(s, n))]
          /\ phase' = [phase EXCEPT ![s] = "head"]
      BY <2>5 DEF RecvBody
    <3>3. Buffered(s)
      BY <3>1, <3>2 DEF Phased
    <3>4. Extended(s, n) \in Seq(Byte) /\ Len(Extended(s, n)) = Len(buffer[s]) + n
      BY <3>1, <3>2, <3>3, ExtendedBytes
    <3>5. need[s] <= ReadLimit(s)
      BY <1>t, <2>5, <3>2 DEF WithinLimit
    <3>6. phase'[s] = "head"
      BY <3>1, <3>2 DEF LinkTypeOK
    <3> DEFINE p == Extended(s, n)
    <3>7. p \in Payload /\ Len(p) <= ReadLimit(s) /\ got' = [got EXCEPT ![s] = Append(@, p)]
      BY <3>2, <3>4, <3>5 DEF Payload
    <3> HIDE DEF p
    <3>8. phase[s] # "closed"
      BY <2>5 DEF RecvBody
    <3> QED BY <1>t, <2>1, <2>5, <3>1, <3>6, <3>7, <3>8, ReadWithin
  <2> QED BY <1>3, <2>2, <2>3, <2>4, <2>5 DEF Recv
<1>4. ASSUME NEW s \in Stream, NEW n, Data(s, n) PROVE WithinLimit(t)'
  BY <1>4, <1>t, SameWithin DEF Data
<1>5. ASSUME NEW s \in Stream, Extract(s) PROVE WithinLimit(t)'
  <2>1. UNCHANGED <<limits, need, phase, ended>>
    BY <1>5 DEF Extract
  <2>2. CASE t # s
    <3>1. got'[t] = got[t]
      BY <1>0, <1>5, <2>2 DEF Extract, LinkTypeOK
    <3> QED BY <2>1, <3>1, <1>t, SameWithin
  <2>3. CASE t = s
    <3> DEFINE p == SubSeq(buffer[s], HeaderSize + 1, HeaderSize + Length(buffer[s]))
    <3>1. /\ Len(buffer[s]) >= HeaderSize + Length(buffer[s]) /\ Length(buffer[s]) <= ReadLimit(s)
          /\ ~IsUp(s) /\ phase[s] = "head" /\ got' = [got EXCEPT ![s] = Append(@, p)]
      BY <1>5 DEF Extract, Whole, Decoding
    <3>2. buffer[s] \in Seq(Byte)
      BY <1>0 DEF LinkTypeOK
    <3>3. Len(buffer[s]) >= HeaderSize /\ LinkTypeOK /\ Written(s) /\ Given(s) /\ Phased(s)
      BY <1>5 DEF Extract, Whole, LinkInv
    <3>4. arrived[s] = Mark(s) + Len(buffer[s]) /\ arrived[s] <= Len(bytes[s])
          /\ \A k \in 1 .. Len(buffer[s]) : buffer[s][k] = bytes[s][Mark(s) + k]
      BY <3>1, ReaderFacts
    <3>5. Length(buffer[s]) \in Nat
      BY <3>1, <3>2, <3>3, <3>4, NextLength
    <3>6. p \in Payload /\ Len(p) = Length(buffer[s])
      <4> DEFINE m == Length(buffer[s])
                 b == buffer[s]
      <4>1. b \in Seq(Byte) /\ m \in Nat /\ Len(b) >= 4 + m /\ Len(b) \in Nat
        BY <3>1, <3>2, <3>5 DEF HeaderSize
      <4> HIDE DEF m, b
      <4>2. SubSeq(b, 4 + 1, 4 + m) \in Seq(Byte) /\ Len(SubSeq(b, 4 + 1, 4 + m)) = m
        BY <4>1
      <4> QED BY <4>2 DEF m, b, HeaderSize, Payload
    <3>7. phase'[s] = "head"
      BY <2>1, <3>1
    <3> HIDE DEF p
    <3>8. Len(p) <= ReadLimit(s)
      BY <3>1, <3>6
    <3> QED BY <1>t, <2>1, <2>3, <3>1, <3>3, <3>6, <3>7, <3>8, ReadWithin
  <2> QED BY <2>2, <2>3
<1>6. ASSUME NEW s \in Stream, TooLarge(s) PROVE WithinLimit(t)'
  <2>1. UNCHANGED <<limits, need, ended, got>> /\ phase' = [phase EXCEPT ![s] = "refused"]
    BY <1>6 DEF TooLarge
  <2>2. phase'[t] = phase[t] \/ (phase[t] = "head" /\ phase'[t] = "refused")
    BY <1>0, <1>6, <2>1 DEF LinkTypeOK, TooLarge, Decoding
  <2> QED BY <1>t, <2>1, <2>2 DEF WithinLimit, ReadLimit
<1>7. ASSUME NEW c \in Conn, NEW d \in {"up", "down"}, NEW n, Close(c, d, n) PROVE WithinLimit(t)'
  <2>1. UNCHANGED <<limits, need, got>> /\ ended' = [ended EXCEPT ![<<c, d>>] = TRUE]
        /\ phase' = [phase EXCEPT ![<<c, Other(d)>>] = "closed"]
    BY <1>7 DEF Close
  <2>2. \A s \in Stream : ended[s] => ended'[s]
    BY <1>0, <2>1 DEF LinkTypeOK
  <2>3. ended'[<<c, d>>]
    BY <1>0, <2>1 DEF LinkTypeOK, Stream
  <2>4. t[1] \in Conn /\ <<t[1], Other(t[2])>> \in Stream /\ t = <<t[1], t[2]>>
    BY DEF Stream, Other
  <2>5. Other(Other(d)) = d
    BY DEF Other
  <2>6. CASE t = <<c, Other(d)>>
    <3>1. t[1] = c /\ t[2] = Other(d)
      BY <2>6
    <3>2. ended'[<<t[1], Other(t[2])>>]
      BY <2>3, <2>5, <3>1
    <3>3. phase'[t] = "closed"
      BY <1>0, <2>1, <2>6 DEF LinkTypeOK
    <3> QED BY <1>t, <2>1, <3>2, <3>3 DEF WithinLimit, ReadLimit
  <2>7. CASE t # <<c, Other(d)>>
    <3>1. phase'[t] = phase[t]
      BY <1>0, <2>1, <2>7 DEF LinkTypeOK
    <3>2. <<t[1], Other(t[2])>> # <<c, d>>
      <4>1. Other(Other(t[2])) = t[2] /\ <<t[1], Other(t[2])>>[1] = t[1] /\ <<t[1], Other(t[2])>>[2] = Other(t[2])
        BY DEF Stream, Other
      <4>2. ASSUME <<t[1], Other(t[2])>> = <<c, d>> PROVE FALSE
        <5>1. t[1] = c /\ Other(t[2]) = d
          BY <4>2
        <5> QED BY <2>4, <2>7, <4>1, <5>1
      <4> QED BY <4>2
    <3>3. phase'[t] = "closed" <=> ended'[<<t[1], Other(t[2])>>]
      <4>1. ended'[<<t[1], Other(t[2])>>] = ended[<<t[1], Other(t[2])>>]
        BY <1>0, <2>1, <2>4, <3>2 DEF LinkTypeOK
      <4> QED BY <1>t, <3>1, <4>1 DEF WithinLimit
    <3> QED BY <1>t, <2>1, <3>1, <3>3 DEF WithinLimit, ReadLimit
  <2> QED BY <2>6, <2>7
<1> QED BY <1>1, <1>2, <1>3, <1>4, <1>5, <1>6, <1>7 DEF LinkNext

\* A step is one of these.
ServerQuiet(c) == Accept(c) \/ ServerReads(c) \/ ServerAtEnd(c) \/ ServerSends(c) \/ Leave(c)
GatewayQuiet(c) ==
  \/ Claimed(c) \/ OnData(c) \/ OnFrame(c) \/ OnTooLarge(c) \/ Discard(c)
  \/ OnBackendClosed(c) \/ OnClientClosed(c) \/ BrowserLeaves(c)

LEMMA Steps ==
  ASSUME LineTypeOK, [Next]_vars
  PROVE  \/ UNCHANGED vars
         \/ \E c \in Conn : ServerQuiet(c)
         \/ \E c \in Conn : GatewayQuiet(c)
         \/ \E c \in Conn : Replay(c)
         \/ \E c \in Conn, text \in Payload : FromBrowser(c, text)
<1>1. CASE UNCHANGED vars
  BY <1>1
<1>2. CASE Next
  <2>1. PICK c \in Conn :
          \/ ServerStep(c)
          \/ GatewayStep(c)
          \/ BrowserLeaves(c)
          \/ \E text \in Texts[setup] : FromBrowser(c, text)
    BY <1>2 DEF Next
  <2>2. CASE \E text \in Texts[setup] : FromBrowser(c, text)
    BY <2>2, TextsArePayloads
  <2>3. CASE ServerStep(c)
    BY <2>3 DEF ServerStep, ServerQuiet
  <2>4. CASE GatewayStep(c) \/ BrowserLeaves(c)
    BY <2>4 DEF GatewayStep, GatewayQuiet
  <2> QED BY <2>1, <2>2, <2>3, <2>4
<1> QED BY <1>1, <1>2

\* What is closed, or gone, or welcomed, stays so.
LEMMA ClosedStays ==
  ASSUME LineTypeOK, [Next]_vars, NEW c \in Conn
  PROVE  /\ closed[c] => closed'[c]
         /\ serving[c] = "gone" => serving'[c] = "gone"
         /\ serving[c] # "accepted" => serving'[c] # "accepted"
         /\ serving'[c] = "serving" => serving[c] \in {"accepted", "serving"}
         /\ serving'[c] = "leaving" => serving[c] \in {"serving", "leaving"}
         /\ ws'[c] = "open" => ws[c] = "open"
<1>0. /\ serving \in [Conn -> {"accepted", "serving", "leaving", "gone"}]
      /\ closed \in [Conn -> BOOLEAN] /\ ws \in [Conn -> {"open", "closing", "closed"}]
  BY DEF LineTypeOK
<1>1. CASE UNCHANGED vars
  BY <1>0, <1>1 DEF vars, gatewayVars, serverVars
<1>2. ASSUME NEW d \in Conn, ServerQuiet(d) PROVE
        /\ UNCHANGED <<closed, ws>>
        /\ \/ serving' = serving
           \/ serving[d] = "accepted" /\ serving' = [serving EXCEPT ![d] = "serving"]
           \/ serving[d] = "serving" /\ serving' = [serving EXCEPT ![d] = "leaving"]
           \/ serving[d] = "leaving" /\ serving' = [serving EXCEPT ![d] = "gone"]
  <2>1. UNCHANGED <<closed, ws>>
    BY <1>2 DEF ServerQuiet, Accept, ServerReads, ServerAtEnd, ServerSends, Leave, gatewayVars
  <2>2. CASE Accept(d)
    BY <2>1, <2>2 DEF Accept
  <2>3. CASE ServerReads(d)
    BY <2>1, <2>3 DEF ServerReads, HandleLine, serverVars
  <2>4. CASE ServerAtEnd(d) \/ ServerSends(d) \/ Leave(d)
    BY <2>1, <2>4 DEF ServerAtEnd, ServerSends, Leave
  <2> QED BY <1>2, <2>2, <2>3, <2>4 DEF ServerQuiet
<1>3. ASSUME NEW d \in Conn, GatewayQuiet(d) PROVE
        /\ UNCHANGED serving
        /\ closed' = closed \/ closed' = [closed EXCEPT ![d] = TRUE]
        /\ ws' = ws \/ ws' = [ws EXCEPT ![d] = IF @ = "open" THEN "closing" ELSE @]
           \/ ws' = [ws EXCEPT ![d] = "closing"] \/ ws' = [ws EXCEPT ![d] = "closed"]
  BY <1>3 DEF GatewayQuiet, Claimed, OnData, OnFrame, OnTooLarge, Discard, OnBackendClosed,
              OnClientClosed, BrowserLeaves, Hangup, gatewayVars, serverVars
<1>4. ASSUME NEW d \in Conn, Replay(d) PROVE UNCHANGED <<closed, ws, serving>>
  BY <1>4 DEF Replay, serverVars
<1>5. ASSUME NEW d \in Conn, NEW text \in Payload, FromBrowser(d, text) PROVE UNCHANGED <<closed, ws, serving>>
  BY <1>5 DEF FromBrowser, serverVars
<1>6. CASE \E d \in Conn : ServerQuiet(d)
  BY <1>0, <1>2, <1>6
<1>7. CASE \E d \in Conn : GatewayQuiet(d)
  BY <1>0, <1>3, <1>7
<1>8. CASE UNCHANGED <<closed, ws, serving>>
  BY <1>8
<1> QED BY <1>1, <1>4, <1>5, <1>6, <1>7, <1>8, Steps

-------------------------------------------------------------------------------
(* What was stored, and what of it was written to the server.              *)

\* One text is stored and, as long as it can be, written.
LEMMA SendMessageSends ==
  ASSUME LineInv, LinkInv, NEW c \in Conn, NEW text \in Payload, SendMessage(c, text)
  PROVE  /\ TextsBy(c, messages') = Append(TextsBy(c, messages), text)
         /\ \A d \in Conn : d # c =>
              TextsBy(d, messages') = TextsBy(d, messages) /\ sent'[Up(d)] = sent[Up(d)]
         /\ \A d \in Conn : sent'[Down(d)] = sent[Down(d)]
         /\ \/ sent'[Up(c)] = sent[Up(c)] /\ (closed[c] \/ serving[c] = "gone")
            \/ sent'[Up(c)] = Append(sent[Up(c)], text) /\ ~closed[c] /\ serving[c] # "gone"
<1>1. messages \in Seq(Row) /\ sent \in [Stream -> Seq(Payload)]
  BY DEF LineInv, LineTypeOK, Log, Row, LinkInv, LinkTypeOK
<1> DEFINE r == [by |-> c, text |-> text]
<1>2. r \in Row /\ r.by = c /\ r.text = text /\ messages' = Append(messages, r)
  BY DEF Row, SendMessage
<1> HIDE DEF r
<1>3. \A d \in Conn :
        /\ d = c => TextsBy(d, messages') = Append(TextsBy(d, messages), text)
        /\ d # c => TextsBy(d, messages') = TextsBy(d, messages)
  BY <1>1, <1>2, TextsByGrows
<1>4. \A d \in Conn : Up(d) \in Stream /\ Down(d) \in Stream /\ Up(c) # Down(d) /\ (Up(c) = Up(d) => c = d)
  BY Streams
<1>5. CASE UNCHANGED linkVars /\ (closed[c] \/ serving[c] = "gone")
  BY <1>3, <1>5 DEF linkVars
<1>6. CASE ~closed[c] /\ serving[c] # "gone" /\ Write(Up(c), text)
  <2>1. sent' = [sent EXCEPT ![Up(c)] = Append(@, text)]
    BY <1>6 DEF Write
  <2> QED BY <1>1, <1>3, <1>4, <1>6, <2>1
<1> QED BY <1>5, <1>6 DEF SendMessage, SendLine

\* Nobody else writes to the server.
LEMMA OnlySendMessage ==
  ASSUME LineTypeOK, LinkTypeOK, NEW c \in Conn, ServerQuiet(c) \/ GatewayQuiet(c)
  PROVE  messages' = messages /\ \A d \in Conn : sent'[Up(d)] = sent[Up(d)]
<1>0. \A b, d \in Conn : Up(d) # Down(b) /\ Down(b) \in Stream /\ Up(d) \in Stream
  BY Streams
<1>s. sent \in [Stream -> Seq(Payload)]
  BY DEF LinkTypeOK
<1>w. ASSUME NEW b \in Conn, NEW p, Write(Down(b), p) PROVE \A d \in Conn : sent'[Up(d)] = sent[Up(d)]
  <2>1. sent' = [sent EXCEPT ![Down(b)] = Append(@, p)]
    BY <1>w DEF Write
  <2> QED BY <1>0, <1>s, <2>1
<1>1. CASE Accept(c)
  <2>1. Write(Down(c), Welcome) /\ messages' = messages
    BY <1>1 DEF Accept, gatewayVars
  <2> QED BY <1>w, <2>1
<1>2. CASE ServerReads(c) \/ ServerAtEnd(c) \/ Leave(c)
  <2>1. messages' = messages
    BY <1>2 DEF ServerReads, ServerAtEnd, Leave, gatewayVars
  <2>2. sent' = sent
    BY <1>2 DEF ServerReads, ServerAtEnd, Leave, Recv, RecvPart, RecvHeader, RecvBody, Close, linkVars
  <2> QED BY <2>1, <2>2
<1>3. CASE ServerSends(c)
  <2>1. messages' = messages /\ todo[c] \in Seq([to : Conn, frame : Payload]) /\ todo[c] # <<>>
    BY <1>3 DEF ServerSends, gatewayVars, LineTypeOK
  <2>2. Head(todo[c]).to \in Conn
    <3>1. Head(todo[c]) \in [to : Conn, frame : Payload]
      BY <2>1, HeadAndTail
    <3> QED BY <3>1
  <2>3. Write(Down(Head(todo[c]).to), Head(todo[c]).frame) \/ UNCHANGED linkVars
    BY <1>3 DEF ServerSends
  <2>4. CASE UNCHANGED linkVars
    BY <2>1, <2>4 DEF linkVars
  <2> QED BY <1>w, <2>1, <2>2, <2>3, <2>4
<1>4. CASE GatewayQuiet(c)
  <2>1. messages' = messages /\ sent' = sent
    BY <1>4 DEF GatewayQuiet, Claimed, OnData, OnFrame, OnTooLarge, Discard, OnBackendClosed,
                OnClientClosed, BrowserLeaves, Hangup, Close, Data, Extract, TooLarge,
                gatewayVars, linkVars
  <2> QED BY <2>1
<1> QED BY <1>1, <1>2, <1>3, <1>4 DEF ServerQuiet

LEMMA SentOnStep ==
  ASSUME LineInv, LinkInv, SentOn, [Next]_vars
  PROVE  SentOn'
<1>0. LineTypeOK /\ LinkTypeOK /\ messages \in Seq(Row) /\ sent \in [Stream -> Seq(Payload)]
  BY DEF LineInv, LineTypeOK, Log, Row, LinkInv, LinkTypeOK
<1> SUFFICES ASSUME NEW c \in Conn
             PROVE  /\ HeadOf(sent'[Up(c)], TextsBy(c, messages'))
                    /\ ~closed'[c] /\ serving'[c] # "gone" => sent'[Up(c)] = TextsBy(c, messages')
  BY DEF SentOn
<1>1. /\ HeadOf(sent[Up(c)], TextsBy(c, messages))
      /\ ~closed[c] /\ serving[c] # "gone" => sent[Up(c)] = TextsBy(c, messages)
  BY DEF SentOn
<1>2. (closed[c] => closed'[c]) /\ (serving[c] = "gone" => serving'[c] = "gone")
  BY <1>0, ClosedStays
<1>3. CASE messages' = messages /\ sent'[Up(c)] = sent[Up(c)]
  BY <1>1, <1>2, <1>3
<1>4. ASSUME NEW d \in Conn, NEW text \in Payload, SendMessage(d, text),
             closed' = closed, serving' = serving
      PROVE  /\ HeadOf(sent'[Up(c)], TextsBy(c, messages'))
             /\ ~closed'[c] /\ serving'[c] # "gone" => sent'[Up(c)] = TextsBy(c, messages')
  <2>1. CASE c # d
    <3>1. TextsBy(c, messages') = TextsBy(c, messages) /\ sent'[Up(c)] = sent[Up(c)]
      BY <1>4, <2>1, SendMessageSends
    <3> QED BY <1>1, <1>4, <3>1
  <2>2. CASE c = d
    <3> DEFINE a == TextsBy(c, messages)
               u == sent[Up(c)]
    <3>1. /\ TextsBy(c, messages') = Append(a, text)
          /\ \/ sent'[Up(c)] = u /\ (closed[c] \/ serving[c] = "gone")
             \/ sent'[Up(c)] = Append(u, text) /\ ~closed[c] /\ serving[c] # "gone"
      BY <1>4, <2>2, SendMessageSends
    <3>2. a \in Seq(Payload) /\ u \in Seq(Payload)
      BY <1>0, TextsByGrows, Streams
    <3>3. HeadOf(u, a) /\ (~closed[c] /\ serving[c] # "gone" => u = a)
      BY <1>1
    <3> HIDE DEF a, u
    <3>4. CASE sent'[Up(c)] = u /\ (closed[c] \/ serving[c] = "gone")
      <4>1. Append(a, text) \in Seq(Payload) /\ HeadOf(a, Append(a, text))
        BY <3>2, HeadOfSelf, AppendProperties
      <4>2. HeadOf(u, Append(a, text))
        BY <3>2, <3>3, <4>1, HeadsFollow
      <4> QED BY <1>4, <3>1, <3>4, <4>2
    <3>5. CASE sent'[Up(c)] = Append(u, text) /\ ~closed[c] /\ serving[c] # "gone"
      <4>1. sent'[Up(c)] = Append(a, text) /\ Append(a, text) \in Seq(Payload)
        BY <3>2, <3>3, <3>5, AppendProperties
      <4>2. HeadOf(Append(a, text), Append(a, text))
        BY <4>1, HeadOfSelf
      <4> QED BY <3>1, <4>1, <4>2
    <3> QED BY <3>1, <3>4, <3>5
  <2> QED BY <2>1, <2>2
<1>5. CASE UNCHANGED vars
  BY <1>3, <1>5 DEF vars, gatewayVars, linkVars
<1>6. CASE \E d \in Conn : ServerQuiet(d) \/ GatewayQuiet(d)
  BY <1>0, <1>3, <1>6, OnlySendMessage
<1>7. ASSUME NEW d \in Conn, Replay(d)
      PROVE  /\ HeadOf(sent'[Up(c)], TextsBy(c, messages'))
             /\ ~closed'[c] /\ serving'[c] # "gone" => sent'[Up(c)] = TextsBy(c, messages')
  <2>1. /\ pending[d] \in Seq(Payload) /\ pending[d] # <<>> /\ SendMessage(d, Head(pending[d]))
        /\ closed' = closed /\ serving' = serving
    BY <1>0, <1>7 DEF Replay, LineTypeOK, serverVars
  <2>2. PICK text \in Payload : text = Head(pending[d])
    BY <2>1
  <2> QED BY <1>4, <2>1, <2>2
<1>8. ASSUME NEW d \in Conn, NEW text \in Payload, FromBrowser(d, text)
      PROVE  /\ HeadOf(sent'[Up(c)], TextsBy(c, messages'))
             /\ ~closed'[c] /\ serving'[c] # "gone" => sent'[Up(c)] = TextsBy(c, messages')
  <2>1. closed' = closed /\ serving' = serving
    BY <1>8 DEF FromBrowser, serverVars
  <2>2. SendMessage(d, text) \/ UNCHANGED <<linkVars, messages>>
    BY <1>8 DEF FromBrowser
  <2>3. CASE UNCHANGED <<linkVars, messages>>
    BY <1>3, <2>3 DEF linkVars
  <2> QED BY <1>4, <2>1, <2>2, <2>3
<1> QED BY <1>0, <1>5, <1>6, <1>7, <1>8, Steps
-------------------------------------------------------------------------------
(* What goes down a connection, and what is read of it.                    *)
\* A relay and an ERR are no WELCOME, and belong to one client at most.
LEMMA JobsAreNotWelcome ==
  ASSUME LineTypeOK, JobsFit, NEW c \in Conn, todo[c] # <<>>
  PROVE  /\ Head(todo[c]).to \in Conn /\ Head(todo[c]).frame \in Payload
         /\ Head(todo[c]).frame # Welcome /\ serving[Head(todo[c]).to] # "accepted"
         /\ \/ Head(todo[c]).to # c /\ Begins(Head(todo[c]).frame, Prefix[c])
            \/ Head(todo[c]).to = c /\ Head(todo[c]).frame = Err
<1>1. todo[c] \in Seq([to : Conn, frame : Payload])
  BY DEF LineTypeOK
<1>2. Head(todo[c]) \in [to : Conn, frame : Payload]
  BY <1>1, HeadAndTail
<1>3. 1 \in DOMAIN todo[c] /\ Head(todo[c]) = todo[c][1]
  BY <1>1
<1>4. /\ serving[todo[c][1].to] # "accepted"
      /\ \/ todo[c][1].to # c /\ Begins(todo[c][1].frame, Prefix[c])
         \/ todo[c][1].to = c /\ todo[c][1].frame = Err
  BY <1>3 DEF JobsFit
<1> QED BY <1>2, <1>3, <1>4, LinesDiffer

\* What is written to the browsers' side of a connection.
LEMMA DownMoves ==
  ASSUME LineInv, LinkInv, [Next]_vars, NEW c \in Conn
  PROVE  \/ sent'[Down(c)] = sent[Down(c)] /\ ~Accept(c)
         \/ Accept(c) /\ sent'[Down(c)] = Append(sent[Down(c)], Welcome)
         \/ \E d \in Conn :
              /\ ServerSends(d) /\ todo[d] # <<>> /\ Reaches(Head(todo[d])) /\ Head(todo[d]).to = c
              /\ sent'[Down(c)] = Append(sent[Down(c)], Head(todo[d]).frame)
              /\ serving' = serving
<1> DEFINE Goal ==
         \/ sent'[Down(c)] = sent[Down(c)] /\ ~Accept(c)
         \/ Accept(c) /\ sent'[Down(c)] = Append(sent[Down(c)], Welcome)
         \/ \E d \in Conn :
              /\ ServerSends(d) /\ todo[d] # <<>> /\ Reaches(Head(todo[d])) /\ Head(todo[d]).to = c
              /\ sent'[Down(c)] = Append(sent[Down(c)], Head(todo[d]).frame)
              /\ serving' = serving
<1>0. LineTypeOK /\ LinkTypeOK /\ sent \in [Stream -> Seq(Payload)]
      /\ serving \in [Conn -> {"accepted", "serving", "leaving", "gone"}]
  BY DEF LineInv, LineTypeOK, LinkInv, LinkTypeOK
<1>s. /\ Down(c) \in Stream /\ \A d \in Conn : Up(d) # Down(c) /\ (Down(d) = Down(c) => d = c)
      /\ \A d \in Conn : Down(d) \in Stream /\ Up(d) \in Stream
  BY Streams
<1>a. ASSUME serving'[c] # "serving" \/ serving[c] # "accepted" PROVE ~Accept(c)
  <2>1. ASSUME Accept(c) PROVE serving'[c] = "serving" /\ serving[c] = "accepted"
    BY <1>0, <2>1 DEF Accept
  <2> QED BY <1>a, <2>1
<1>q. ASSUME sent'[Down(c)] = sent[Down(c)], serving' = serving PROVE Goal
  <2>1. serving'[c] # "serving" \/ serving[c] # "accepted"
    BY <1>q
  <2> QED BY <1>a, <1>q, <2>1
<1>1. ASSUME UNCHANGED vars PROVE Goal
  BY <1>1, <1>q DEF vars, linkVars, serverVars
<1>2. ASSUME NEW d \in Conn, Accept(d) PROVE Goal
  <2>1. sent' = [sent EXCEPT ![Down(d)] = Append(@, Welcome)] /\ serving' = [serving EXCEPT ![d] = "serving"]
    BY <1>2 DEF Accept, Write
  <2>2. CASE d = c
    <3>1. sent'[Down(c)] = Append(sent[Down(c)], Welcome)
      BY <1>0, <1>s, <2>1, <2>2
    <3> QED BY <1>2, <2>2, <3>1
  <2>3. CASE d # c
    <3>1. sent'[Down(c)] = sent[Down(c)]
      BY <1>0, <1>s, <2>1, <2>3
    <3>2. serving'[c] = serving[c]
      BY <1>0, <2>1, <2>3
    <3>3. serving'[c] # "serving" \/ serving[c] # "accepted"
      BY <3>2
    <3> QED BY <1>a, <3>1, <3>3
  <2> QED BY <2>2, <2>3
<1>3. ASSUME NEW d \in Conn, ServerReads(d) \/ ServerAtEnd(d) \/ Leave(d) PROVE Goal
  <2>1. sent' = sent
    BY <1>3 DEF ServerReads, ServerAtEnd, Leave, Recv, RecvPart, RecvHeader, RecvBody, Close, linkVars
  <2>2. serving[d] \in {"serving", "leaving"} /\ \A b \in Conn : b # d => serving'[b] = serving[b]
    BY <1>0, <1>3 DEF ServerReads, ServerAtEnd, Leave, HandleLine, serverVars
  <2>3. serving'[c] # "serving" \/ serving[c] # "accepted"
    BY <2>2
  <2> QED BY <1>a, <2>1, <2>3
<1>4. ASSUME NEW d \in Conn, ServerSends(d) PROVE Goal
  <2>1. todo[d] # <<>> /\ todo[d] \in Seq([to : Conn, frame : Payload]) /\ serving' = serving
    BY <1>0, <1>4 DEF ServerSends, LineTypeOK
  <2>2. Head(todo[d]) \in [to : Conn, frame : Payload]
    BY <2>1, HeadAndTail
  <2>3. CASE UNCHANGED linkVars
    BY <1>q, <2>1, <2>3 DEF linkVars
  <2>4. CASE Reaches(Head(todo[d])) /\ Write(Down(Head(todo[d]).to), Head(todo[d]).frame)
    <3> DEFINE b == Head(todo[d]).to
               f == Head(todo[d]).frame
    <3>1. b \in Conn /\ sent' = [sent EXCEPT ![Down(b)] = Append(@, f)]
      BY <2>2, <2>4 DEF Write
    <3>2. CASE b = c
      <4>1. sent'[Down(c)] = Append(sent[Down(c)], f)
        BY <1>0, <1>s, <3>1, <3>2
      <4> QED BY <1>4, <2>1, <2>4, <3>2, <4>1
    <3>3. CASE b # c
      <4> HIDE DEF b, f
      <4>1. sent'[Down(c)] = sent[Down(c)]
        BY <1>0, <1>s, <3>1, <3>3
      <4> QED BY <1>q, <2>1, <4>1
    <3> QED BY <3>2, <3>3
  <2> QED BY <1>4, <2>3, <2>4 DEF ServerSends
<1>5. ASSUME NEW d \in Conn, GatewayQuiet(d) PROVE Goal
  <2>1. serving' = serving /\ sent' = sent
    BY <1>5 DEF GatewayQuiet, Claimed, OnData, OnFrame, OnTooLarge, Discard, OnBackendClosed,
                OnClientClosed, BrowserLeaves, Hangup, Close, Data, Extract, TooLarge,
                serverVars, linkVars
  <2> QED BY <1>q, <2>1
<1>6. ASSUME NEW d \in Conn, NEW text \in Payload, SendMessage(d, text), serving' = serving PROVE Goal
  <2>1. sent'[Down(c)] = sent[Down(c)]
    BY <1>6, SendMessageSends
  <2> QED BY <1>6, <1>q, <2>1
<1>7. ASSUME NEW d \in Conn, Replay(d) PROVE Goal
  <2>1. /\ pending[d] \in Seq(Payload) /\ pending[d] # <<>> /\ SendMessage(d, Head(pending[d]))
        /\ serving' = serving
    BY <1>0, <1>7 DEF Replay, LineTypeOK, serverVars
  <2>2. PICK text \in Payload : text = Head(pending[d])
    BY <2>1
  <2> QED BY <1>6, <2>1, <2>2
<1>8. ASSUME NEW d \in Conn, NEW text \in Payload, FromBrowser(d, text) PROVE Goal
  <2>1. serving' = serving /\ (SendMessage(d, text) \/ UNCHANGED linkVars)
    BY <1>8 DEF FromBrowser, serverVars
  <2>2. CASE UNCHANGED linkVars
    BY <1>q, <2>1, <2>2 DEF linkVars
  <2> QED BY <1>6, <2>1, <2>2
<1> HIDE DEF Goal
<1>9. Goal
  <2>1. CASE \E d \in Conn : ServerQuiet(d)
    BY <1>2, <1>3, <1>4, <2>1 DEF ServerQuiet
  <2>2. CASE \E d \in Conn : GatewayQuiet(d)
    BY <1>5, <2>2
  <2>3. CASE \E d \in Conn : Replay(d)
    BY <1>7, <2>3
  <2>4. CASE \E d \in Conn, text \in Payload : FromBrowser(d, text)
    BY <1>8, <2>4
  <2>5. \/ UNCHANGED vars
        \/ \E d \in Conn : ServerQuiet(d)
        \/ \E d \in Conn : GatewayQuiet(d)
        \/ \E d \in Conn : Replay(d)
        \/ \E d \in Conn, text \in Payload : FromBrowser(d, text)
    BY <1>0, Steps
  <2>6. CASE UNCHANGED vars
    BY <1>1, <2>6
  <2> QED BY <2>1, <2>2, <2>3, <2>4, <2>5, <2>6
<1> QED BY <1>9 DEF Goal

\* What is read.
LEMMA GotMoves ==
  ASSUME LineInv, LinkInv, [Next]_vars
  PROVE  \/ got' = got
         \/ \E c \in Conn : ServerReads(c) /\ got' # got /\ DeliversNext(Up(c))
         \/ \E c \in Conn : OnFrame(c) /\ DeliversNext(Down(c))
<1>0. LineTypeOK
  BY DEF LineInv
<1>1. CASE UNCHANGED vars
  BY <1>1 DEF vars, linkVars
<1>2. ASSUME NEW c \in Conn, ServerReads(c), got' # got PROVE DeliversNext(Up(c))
  <2>1. PICK n : Recv(Up(c), n)
    BY <1>2 DEF ServerReads
  <2>2. Up(c) \in Stream
    BY Streams
  <2>3. ~RecvPart(Up(c), n)
    BY <1>2 DEF RecvPart
  <2> QED BY <1>2, <2>1, <2>2, <2>3, RecvHeaderKeeps, RecvBodyKeeps DEF Recv
<1>3. ASSUME NEW c \in Conn, OnFrame(c) PROVE DeliversNext(Down(c))
  BY <1>3, Streams, ExtractKeeps DEF OnFrame
<1>4. ASSUME NEW c \in Conn, ServerQuiet(c), ~ServerReads(c) PROVE got' = got
  BY <1>4 DEF ServerQuiet, Accept, ServerAtEnd, ServerSends, Leave, Write, Close, linkVars
<1>5. ASSUME NEW c \in Conn, GatewayQuiet(c), ~OnFrame(c) PROVE got' = got
  BY <1>5 DEF GatewayQuiet, Claimed, OnData, OnTooLarge, Discard, OnBackendClosed,
              OnClientClosed, BrowserLeaves, Hangup, Close, Data, TooLarge, linkVars
<1>6. ASSUME NEW c \in Conn, NEW text, SendMessage(c, text) PROVE got' = got
  BY <1>6 DEF SendMessage, SendLine, Write, linkVars
<1>7. ASSUME NEW c \in Conn, Replay(c) PROVE got' = got
  BY <1>6, <1>7 DEF Replay
<1>8. ASSUME NEW c \in Conn, NEW text \in Payload, FromBrowser(c, text) PROVE got' = got
  BY <1>6, <1>8 DEF FromBrowser, linkVars
<1>9. CASE \E c \in Conn : ServerQuiet(c)
  BY <1>2, <1>4, <1>9
<1>10. CASE \E c \in Conn : GatewayQuiet(c)
  BY <1>3, <1>5, <1>10
<1> QED BY <1>0, <1>1, <1>7, <1>8, <1>9, <1>10, Steps

\* The payload a stream hands over.
LEMMA Delivered ==
  ASSUME LinkInv, NEW s \in Stream, DeliversNext(s)
  PROVE  /\ Len(got[s]) \in Nat /\ Len(got[s]) + 1 \in 1 .. Len(sent[s])
         /\ sent[s][Len(got[s]) + 1] \in Payload /\ got[s] \in Seq(Payload)
         /\ got'[s] = Append(got[s], sent[s][Len(got[s]) + 1])
         /\ got'[s][Len(got'[s])] = sent[s][Len(got[s]) + 1]
         /\ \A t \in Stream : t # s => got'[t] = got[t]
<1>1. got[s] \in Seq(Payload) /\ sent[s] \in Seq(Payload) /\ got \in [Stream -> Seq(Payload)]
  BY DEF LinkInv, LinkTypeOK
<1>2. Len(got[s]) < Len(sent[s]) /\ got' = [got EXCEPT ![s] = Append(@, sent[s][Len(got[s]) + 1])]
  BY DEF DeliversNext
<1>3. Len(got[s]) \in Nat /\ Len(got[s]) + 1 \in 1 .. Len(sent[s])
  BY <1>1, <1>2
<1>4. sent[s][Len(got[s]) + 1] \in Payload
  BY <1>1, <1>3
<1>5. got'[s] = Append(got[s], sent[s][Len(got[s]) + 1]) /\ \A t \in Stream : t # s => got'[t] = got[t]
  BY <1>1, <1>2
<1>6. got'[s][Len(got'[s])] = sent[s][Len(got[s]) + 1]
  BY <1>1, <1>4, <1>5, AppendProperties
<1> QED BY <1>1, <1>3, <1>4, <1>5, <1>6

\* A frame a session gets: WELCOME, ERR or a relay.
LEMMA OnFrameFacts ==
  ASSUME LineInv, LinkInv, Greeted, NEW c \in Conn, OnFrame(c), DeliversNext(Down(c))
  PROVE  \E f \in Payload :
           /\ f = sent[Down(c)][Len(got[Down(c)]) + 1]
           /\ got'[Down(c)] = Append(got[Down(c)], f)
           /\ \A t \in Stream : t # Down(c) => got'[t] = got[t]
           /\ f = Welcome <=> ready[c] = "no"
           /\ \/ /\ f = Welcome /\ page' = page
                 /\ ready' = [ready EXCEPT ![c] = IF c \in Claimers THEN "claiming" ELSE "yes"]
              \/ f = Err /\ UNCHANGED <<ready, page>>
              \/ \E by \in From(f) :
                   /\ page' = IF ws[c] # "open" THEN page
                              ELSE [page EXCEPT ![c] = Append(@, [by |-> by, text |-> Rest(by, f)])]
                   /\ UNCHANGED ready
<1> DEFINE n == Len(got[Down(c)])
           f == sent[Down(c)][n + 1]
<1>0. Down(c) \in Stream
  BY Streams
<1>1. /\ n \in Nat /\ n + 1 \in 1 .. Len(sent[Down(c)]) /\ f \in Payload /\ got[Down(c)] \in Seq(Payload)
      /\ got'[Down(c)] = Append(got[Down(c)], f) /\ got'[Down(c)][Len(got'[Down(c)])] = f
      /\ \A t \in Stream : t # Down(c) => got'[t] = got[t]
  BY <1>0, Delivered
<1>e. f = sent[Down(c)][Len(got[Down(c)]) + 1]
  OBVIOUS
<1>2. f = Welcome <=> ready[c] = "no"
  <2>1. sent[Down(c)] \in Seq(Payload)
    BY <1>0 DEF LinkInv, LinkTypeOK
  <2>2. n + 1 \in DOMAIN sent[Down(c)]
    BY <1>1, <2>1
  <2>3. (f = Welcome) = (n + 1 = 1)
    BY <2>2 DEF Greeted
  <2>4. n = 0 <=> got[Down(c)] = <<>>
    BY <1>1
  <2>5. (ready[c] = "no") = (got[Down(c)] = <<>>)
    BY DEF Greeted
  <2> HIDE DEF n, f
  <2> QED BY <1>1, <2>3, <2>4, <2>5
<1>3. PICK g : g = got'[Down(c)][Len(got'[Down(c)])]
  OBVIOUS
<1>4. \/ /\ g = Welcome /\ page' = page
         /\ ready' = [ready EXCEPT ![c] = IF c \in Claimers THEN "claiming" ELSE "yes"]
      \/ g = Err /\ UNCHANGED <<ready, page>>
      \/ \E by \in From(g) :
           /\ page' = IF ws[c] # "open" THEN page
                      ELSE [page EXCEPT ![c] = Append(@, [by |-> by, text |-> Rest(by, g)])]
           /\ UNCHANGED ready
  BY <1>3 DEF OnFrame, Rest
<1>5. g = f
  BY <1>1, <1>3
<1> HIDE DEF f
<1> QED BY <1>1, <1>2, <1>4, <1>5, <1>e

\* Only these change readiness.
LEMMA ReadyMoves ==
  ASSUME LineTypeOK, [Next]_vars
  PROVE  \/ ready' = ready
         \/ \E c \in Conn : OnFrame(c)
         \/ \E c \in Conn : Claimed(c) /\ ready[c] = "claiming" /\ ready' = [ready EXCEPT ![c] = "yes"]
                            /\ UNCHANGED <<messages, pending, typed, linkVars>>
<1>1. CASE UNCHANGED vars
  BY <1>1 DEF vars, gatewayVars
<1>2. ASSUME NEW c \in Conn, ServerQuiet(c) PROVE ready' = ready
  BY <1>2 DEF ServerQuiet, Accept, ServerReads, ServerAtEnd, ServerSends, Leave, gatewayVars
<1>3. ASSUME NEW c \in Conn, GatewayQuiet(c), ~OnFrame(c), ~Claimed(c) PROVE ready' = ready
  BY <1>3 DEF GatewayQuiet, OnData, OnTooLarge, Discard, OnBackendClosed, OnClientClosed, BrowserLeaves,
              gatewayVars
<1>4. ASSUME NEW c \in Conn, Claimed(c)
      PROVE  \/ ready' = ready
             \/ /\ ready[c] = "claiming" /\ ready' = [ready EXCEPT ![c] = "yes"]
                /\ UNCHANGED <<messages, pending, typed, linkVars>>
  BY <1>4 DEF Claimed
<1>5. ASSUME NEW c \in Conn, NEW text, Replay(c) \/ FromBrowser(c, text) PROVE ready' = ready
  BY <1>5 DEF Replay, FromBrowser
<1>6. CASE \E c \in Conn : ServerQuiet(c)
  BY <1>2, <1>6
<1>7. CASE \E c \in Conn : GatewayQuiet(c)
  BY <1>3, <1>4, <1>7
<1>8. CASE \E c \in Conn : Replay(c)
  BY <1>5, <1>8
<1>9. CASE \E c \in Conn, text \in Payload : FromBrowser(c, text)
  BY <1>5, <1>9
<1> QED BY <1>1, <1>6, <1>7, <1>8, <1>9, Steps

\* Only accept_one makes a client of a connection.
LEMMA StaysAccepted ==
  ASSUME LineTypeOK, [Next]_vars, NEW c \in Conn, ~Accept(c)
  PROVE  (serving'[c] = "accepted") = (serving[c] = "accepted")
<1>0. serving \in [Conn -> {"accepted", "serving", "leaving", "gone"}]
  BY DEF LineTypeOK
<1>1. CASE serving' = serving
  BY <1>1
<1>2. ASSUME NEW d \in Conn, ServerQuiet(d)
      PROVE  (serving'[c] = "accepted") = (serving[c] = "accepted")
  <2>1. CASE Accept(d)
    <3>1. d # c /\ serving' = [serving EXCEPT ![d] = "serving"]
      BY <2>1 DEF Accept
    <3> QED BY <1>0, <3>1
  <2>2. CASE ServerReads(d) \/ ServerAtEnd(d) \/ Leave(d)
    <3>1. /\ serving[d] # "accepted"
          /\ \/ serving' = serving
             \/ serving' = [serving EXCEPT ![d] = "leaving"]
             \/ serving' = [serving EXCEPT ![d] = "gone"]
      BY <2>2 DEF ServerReads, ServerAtEnd, Leave, HandleLine, serverVars
    <3> QED BY <1>0, <3>1
  <2>3. CASE ServerSends(d)
    BY <2>3 DEF ServerSends
  <2> QED BY <1>2, <2>1, <2>2, <2>3 DEF ServerQuiet
<1>3. ASSUME NEW d \in Conn, NEW text, GatewayQuiet(d) \/ Replay(d) \/ FromBrowser(d, text)
      PROVE  serving' = serving
  BY <1>3 DEF GatewayQuiet, Claimed, OnData, OnFrame, OnTooLarge, Discard, OnBackendClosed,
              OnClientClosed, BrowserLeaves, Replay, FromBrowser, serverVars
<1>4. CASE \E d \in Conn : ServerQuiet(d)
  BY <1>2, <1>4
<1>5. CASE \E d \in Conn : GatewayQuiet(d)
  BY <1>3, <1>5
<1>6. CASE \E d \in Conn : Replay(d)
  BY <1>3, <1>6
<1>7. CASE \E d \in Conn, text \in Payload : FromBrowser(d, text)
  BY <1>3, <1>7
<1>8. CASE UNCHANGED vars
  BY <1>8 DEF vars, serverVars
<1> QED BY <1>1, <1>4, <1>5, <1>6, <1>7, <1>8, Steps

LEMMA GreetedStep ==
  ASSUME LineInv, LinkInv, JobsFit, Greeted, [Next]_vars
  PROVE  Greeted'
<1>0. LineTypeOK /\ sent \in [Stream -> Seq(Payload)] /\ got \in [Stream -> Seq(Payload)]
      /\ ready \in [Conn -> Readiness]
  BY DEF LineInv, LineTypeOK, LinkInv, LinkTypeOK
<1> SUFFICES ASSUME NEW c \in Conn
             PROVE  /\ (serving'[c] = "accepted") = (sent'[Down(c)] = <<>>)
                    /\ \A i \in DOMAIN sent'[Down(c)] : (sent'[Down(c)][i] = Welcome) = (i = 1)
                    /\ (ready'[c] = "no") = (got'[Down(c)] = <<>>)
  BY DEF Greeted
<1> DEFINE u == sent[Down(c)]
<1>1. /\ (serving[c] = "accepted") = (u = <<>>)
      /\ \A i \in DOMAIN u : (u[i] = Welcome) = (i = 1)
      /\ (ready[c] = "no") = (got[Down(c)] = <<>>)
  BY DEF Greeted
<1>s. \A d \in Conn : Down(d) \in Stream /\ Up(d) \in Stream /\ Up(d) # Down(c) /\ (Down(d) = Down(c) => d = c)
  BY Streams
<1>u. u \in Seq(Payload)
  BY <1>0, <1>s
<1>2. /\ (serving'[c] = "accepted") = (sent'[Down(c)] = <<>>)
      /\ \A i \in DOMAIN sent'[Down(c)] : (sent'[Down(c)][i] = Welcome) = (i = 1)
  <2>1. CASE sent'[Down(c)] = u /\ ~Accept(c)
    BY <1>0, <1>1, <2>1, StaysAccepted
  <2>2. CASE Accept(c) /\ sent'[Down(c)] = Append(u, Welcome)
    <3>1. serving[c] = "accepted" /\ serving'[c] = "serving"
      BY <2>2 DEF Accept, LineInv, LineTypeOK
    <3>2. u = <<>>
      BY <1>1, <3>1
    <3>3. Welcome \in Payload
      BY LineConstants
    <3>4. sent'[Down(c)] = <<Welcome>>
      BY <2>2, <3>2
    <3>5. sent'[Down(c)] # <<>> /\ DOMAIN sent'[Down(c)] = {1} /\ sent'[Down(c)][1] = Welcome
      BY <3>4
    <3> QED BY <3>1, <3>5
  <2>3. ASSUME NEW d \in Conn, ServerSends(d), todo[d] # <<>>, Head(todo[d]).to = c, serving' = serving,
               sent'[Down(c)] = Append(u, Head(todo[d]).frame)
        PROVE  /\ (serving'[c] = "accepted") = (sent'[Down(c)] = <<>>)
               /\ \A i \in DOMAIN sent'[Down(c)] : (sent'[Down(c)][i] = Welcome) = (i = 1)
    <3>1. Head(todo[d]).frame \in Payload /\ Head(todo[d]).frame # Welcome /\ serving[c] # "accepted"
      BY <1>0, <2>3, JobsAreNotWelcome
    <3>2. PICK f \in Payload : f = Head(todo[d]).frame
      BY <3>1
    <3> HIDE DEF u
    <3>3. u # <<>> /\ sent'[Down(c)] = Append(u, f) /\ f # Welcome
      BY <1>1, <2>3, <3>1, <3>2
    <3>4. /\ Len(u) \in Nat /\ Len(u) >= 1 /\ DOMAIN u = 1 .. Len(u)
          /\ DOMAIN Append(u, f) = 1 .. Len(u) + 1 /\ Append(u, f)[Len(u) + 1] = f
          /\ \A i \in 1 .. Len(u) : Append(u, f)[i] = u[i]
          /\ Append(u, f) # <<>>
      BY <1>u, <3>3
    <3>5. ASSUME NEW i \in 1 .. Len(u) + 1 PROVE (Append(u, f)[i] = Welcome) = (i = 1)
      <4>1. CASE i = Len(u) + 1
        <5>1. i # 1 /\ Append(u, f)[i] # Welcome
          BY <3>3, <3>4, <4>1
        <5> QED BY <5>1
      <4>2. CASE i # Len(u) + 1
        <5>1. i \in 1 .. Len(u)
          BY <3>4, <4>2
        <5>2. Append(u, f)[i] = u[i] /\ i \in DOMAIN u
          BY <3>4, <5>1
        <5> QED BY <1>1, <5>2
      <4> QED BY <4>1, <4>2
    <3> QED BY <2>3, <3>1, <3>3, <3>4, <3>5
  <2> QED BY <2>1, <2>2, <2>3, DownMoves
<1>3. (ready'[c] = "no") = (got'[Down(c)] = <<>>)
  <2>1. ASSUME NEW d \in Conn, OnFrame(d), DeliversNext(Down(d))
        PROVE  (ready'[c] = "no") = (got'[Down(c)] = <<>>)
    <3>1. PICK f \in Payload :
           /\ got'[Down(d)] = Append(got[Down(d)], f)
           /\ \A t \in Stream : t # Down(d) => got'[t] = got[t]
           /\ f = Welcome <=> ready[d] = "no"
           /\ \/ /\ f = Welcome
                 /\ ready' = [ready EXCEPT ![d] = IF d \in Claimers THEN "claiming" ELSE "yes"]
              \/ f = Err /\ UNCHANGED ready
              \/ (\E by \in From(f) : TRUE) /\ UNCHANGED ready
      BY <2>1, OnFrameFacts
    <3>2. CASE d # c
      <4>1. got'[Down(c)] = got[Down(c)]
        BY <1>s, <3>1, <3>2
      <4>2. ready'[c] = ready[c]
        BY <1>0, <3>1, <3>2
      <4> QED BY <1>1, <4>1, <4>2
    <3>3. CASE d = c
      <4>1. got'[Down(c)] # <<>>
        BY <1>0, <1>s, <3>1, <3>3
      <4>2. ready'[c] # "no"
        <5>1. CASE f = Welcome /\ ready' = [ready EXCEPT ![d] = IF d \in Claimers THEN "claiming" ELSE "yes"]
          BY <1>0, <3>3, <5>1
        <5>2. CASE f = Err /\ UNCHANGED ready
          <6>1. f # Welcome
            BY <5>2, LinesDiffer
          <6> QED BY <3>1, <3>3, <5>2, <6>1
        <5>3. CASE (\E by \in From(f) : TRUE) /\ UNCHANGED ready
          <6>1. f # Welcome
            BY <5>3, LinesDiffer DEF From
          <6> QED BY <3>1, <3>3, <5>3, <6>1
        <5> QED BY <3>1, <5>1, <5>2, <5>3
      <4> QED BY <4>1, <4>2
    <3> QED BY <3>2, <3>3
  <2>2. ASSUME \A d \in Conn : ~OnFrame(d) PROVE (ready'[c] = "no") = (got'[Down(c)] = <<>>)
    <3>1. got'[Down(c)] = got[Down(c)]
      <4>1. CASE got' = got
        BY <4>1
      <4>2. ASSUME NEW d \in Conn, DeliversNext(Up(d)) PROVE got'[Down(c)] = got[Down(c)]
        BY <1>s, <4>2, Delivered
      <4> QED BY <2>2, <4>1, <4>2, GotMoves
    <3>2. ready'[c] = ready[c] \/ (ready[c] = "claiming" /\ ready'[c] = "yes")
      BY <1>0, <2>2, ReadyMoves
    <3> QED BY <1>1, <3>1, <3>2
  <2>3. ASSUME NEW d \in Conn, OnFrame(d) PROVE DeliversNext(Down(d))
    BY <2>3, Streams, ExtractKeeps DEF OnFrame
  <2> QED BY <2>1, <2>2, <2>3
<1> QED BY <1>2, <1>3
-------------------------------------------------------------------------------
(* What was typed.                                                         *)
StoredOf(c) ==
  /\ ready[c] # "yes" =>
       /\ TextsBy(c, messages) = TypedWhen(c, "claiming")
       /\ pending[c] = TypedWhen(c, "no") /\ TypedWhen(c, "yes") = <<>>
  /\ ready[c] = "no" => TypedWhen(c, "claiming") = <<>>
  /\ ready[c] = "yes" =>
       TextsBy(c, messages) \o pending[c] =
         (TypedWhen(c, "claiming") \o TypedWhen(c, "no")) \o TypedWhen(c, "yes")

LEMMA HeadMoves ==
  ASSUME NEW S, NEW a \in Seq(S), NEW p \in Seq(S), p # <<>>
  PROVE  Append(a, Head(p)) \o Tail(p) = a \o p
<1> DEFINE u == Append(a, Head(p)) \o Tail(p)
           v == a \o p
           n == Len(a)
           m == Len(p)
<1>1. n \in Nat /\ m \in Nat /\ m >= 1 /\ Head(p) \in S /\ Tail(p) \in Seq(S) /\ Head(p) = p[1]
      /\ Len(Tail(p)) = m - 1 /\ \A i \in 1 .. m - 1 : Tail(p)[i] = p[i + 1]
  OBVIOUS
<1>2. Append(a, Head(p)) \in Seq(S) /\ Len(Append(a, Head(p))) = n + 1
      /\ Append(a, Head(p))[n + 1] = Head(p) /\ \A i \in 1 .. n : Append(a, Head(p))[i] = a[i]
  BY <1>1, AppendProperties
<1>3. u \in Seq(S) /\ v \in Seq(S) /\ Len(u) = n + m /\ Len(v) = n + m
  BY <1>1, <1>2
<1>4. \A i \in 1 .. n + m : u[i] = v[i]
  <2> SUFFICES ASSUME NEW i \in 1 .. n + m PROVE u[i] = v[i]
    OBVIOUS
  <2>1. u[i] = IF i <= n + 1 THEN Append(a, Head(p))[i] ELSE Tail(p)[i - (n + 1)]
    BY <1>1, <1>2, ConcatProperties
  <2>2. v[i] = IF i <= n THEN a[i] ELSE p[i - n]
    BY <1>1, ConcatProperties
  <2> HIDE DEF u, v
  <2>3. CASE i <= n
    <3>1. i \in 1 .. n /\ i <= n + 1
      BY <1>1, <2>3
    <3> QED BY <1>2, <2>1, <2>2, <2>3, <3>1
  <2>4. CASE i = n + 1
    <3>1. i - n = 1 /\ ~(i <= n) /\ i <= n + 1
      BY <1>1, <2>4
    <3> QED BY <1>1, <1>2, <2>1, <2>2, <2>4, <3>1
  <2>5. CASE i > n + 1
    <3>1. i - (n + 1) \in 1 .. m - 1 /\ (i - (n + 1)) + 1 = i - n /\ ~(i <= n) /\ ~(i <= n + 1)
      BY <1>1, <2>5
    <3> QED BY <1>1, <2>1, <2>2, <3>1
  <2> QED BY <1>1, <2>3, <2>4, <2>5
<1> HIDE DEF u, v
<1>5. u = v
  BY <1>3, <1>4, SeqEqual
<1> QED BY <1>5 DEF u, v

EndsWith(a, b, e) == Append(a \o b, e) = a \o Append(b, e)
LEMMA LastMoves ==
  ASSUME NEW S, NEW a \in Seq(S), NEW b \in Seq(S), NEW e \in S
  PROVE  EndsWith(a, b, e)
<1>1. Append(a \o b, e) = a \o Append(b, e)
  OBVIOUS
<1> QED BY <1>1 DEF EndsWith

LEMMA StoredSame ==
  ASSUME NEW c \in Conn, StoredOf(c), TextsBy(c, messages') = TextsBy(c, messages),
         pending'[c] = pending[c], ready'[c] = ready[c],
         \A w \in Readiness : TypedWhen(c, w)' = TypedWhen(c, w)
  PROVE  StoredOf(c)'
<1>1. "no" \in Readiness /\ "claiming" \in Readiness /\ "yes" \in Readiness
  BY DEF Readiness
<1> QED BY <1>1 DEF StoredOf

LEMMA SameTyped ==
  ASSUME typed' = typed, NEW c \in Conn, NEW w
  PROVE  TypedWhen(c, w)' = TypedWhen(c, w)
BY DEF TypedWhen

LEMMA StoredReplay ==
  ASSUME LineInv, LinkInv, StoredOn, NEW d \in Conn, Replay(d), NEW c \in Conn
  PROVE  StoredOf(c)'
<1>0. /\ pending \in [Conn -> Seq(Payload)] /\ messages \in Seq(Row)
  BY DEF LineInv, LineTypeOK, Log, Row
<1>1. StoredOf(c)
  BY DEF StoredOn, StoredOf
<1>2. /\ ready[d] = "yes" /\ pending[d] # <<>> /\ SendMessage(d, Head(pending[d]))
      /\ pending' = [pending EXCEPT ![d] = Tail(@)] /\ UNCHANGED <<ready, typed>>
  BY DEF Replay
<1>3. \A w \in Readiness : TypedWhen(c, w)' = TypedWhen(c, w)
  BY <1>2, SameTyped
<1>4. PICK text \in Payload : text = Head(pending[d])
  BY <1>0, <1>2
<1>5. CASE c # d
  <2>1. TextsBy(c, messages') = TextsBy(c, messages)
    BY <1>2, <1>4, <1>5, SendMessageSends
  <2>2. pending'[c] = pending[c] /\ ready'[c] = ready[c]
    BY <1>0, <1>2, <1>5
  <2> QED BY <1>1, <1>3, <2>1, <2>2, StoredSame
<1>6. CASE c = d
  <2>1. TextsBy(c, messages') = Append(TextsBy(c, messages), text)
    BY <1>2, <1>4, <1>6, SendMessageSends
  <2> DEFINE a == TextsBy(c, messages)
             p == pending[c]
  <2>2. a \in Seq(Payload) /\ p \in Seq(Payload) /\ p # <<>> /\ text = Head(p) /\ pending'[c] = Tail(p)
    BY <1>0, <1>2, <1>4, <1>6, TextsByGrows
  <2>3. ready[c] = "yes" /\ ready'[c] = "yes"
    BY <1>2, <1>6
  <2>4. Append(a, text) \o Tail(p) = a \o p
    <3> HIDE DEF a, p
    <3> QED BY <2>2, HeadMoves
  <2>5. TextsBy(c, messages') \o pending'[c] = TextsBy(c, messages) \o pending[c]
    BY <2>1, <2>2, <2>4
  <2>6. /\ TypedWhen(c, "claiming")' = TypedWhen(c, "claiming") /\ TypedWhen(c, "no")' = TypedWhen(c, "no")
        /\ TypedWhen(c, "yes")' = TypedWhen(c, "yes")
    BY <1>3 DEF Readiness
  <2>7. TextsBy(c, messages') = TextsBy(c, messages)'
    OBVIOUS
  <2> HIDE DEF a, p
  <2> QED BY <1>1, <2>3, <2>5, <2>6 DEF StoredOf
<1> QED BY <1>5, <1>6

LEMMA StoredTyped ==
  ASSUME LineInv, LinkInv, StoredOn, NEW d \in Conn, NEW text \in Payload, FromBrowser(d, text),
         NEW c \in Conn
  PROVE  StoredOf(c)'
<1>0. /\ pending \in [Conn -> Seq(Payload)] /\ messages \in Seq(Row) /\ LineTypeOK
      /\ ready \in [Conn -> Readiness]
  BY DEF LineInv, LineTypeOK, Log, Row
<1>1. StoredOf(c)
  BY DEF StoredOn, StoredOf
<1> DEFINE r == [by |-> d, text |-> text, when |-> ready[d]]
<1>2. r \in TypedRow /\ typed' = Append(typed, r) /\ ready' = ready /\ Free
      /\ r.by = d /\ r.when = ready[d] /\ r.text = text
  BY <1>0 DEF FromBrowser, TypedRow
<1>3. \/ /\ ready[d] # "no" /\ SendMessage(d, text) /\ UNCHANGED pending
      \/ /\ ready[d] = "no" /\ pending' = [pending EXCEPT ![d] = Append(@, text)]
         /\ UNCHANGED messages
  BY DEF FromBrowser
<1> HIDE DEF r
<1>4. \A w : /\ TypedWhen(c, w) \in Seq(Payload)
             /\ c = d /\ ready[d] = w => TypedWhen(c, w)' = Append(TypedWhen(c, w), text)
             /\ ~(c = d /\ ready[d] = w) => TypedWhen(c, w)' = TypedWhen(c, w)
  BY <1>0, <1>2, TypedGrows
<1>5. CASE c # d
  <2>1. TextsBy(c, messages') = TextsBy(c, messages)
    BY <1>3, <1>5, SendMessageSends
  <2>2. pending'[c] = pending[c] /\ ready'[c] = ready[c]
    BY <1>0, <1>2, <1>3, <1>5
  <2> QED BY <1>1, <1>4, <1>5, <2>1, <2>2, StoredSame
<1>6. CASE c = d
  <2> DEFINE a == TextsBy(c, messages)
             p == pending[c]
             claiming == TypedWhen(c, "claiming")
             no == TypedWhen(c, "no")
             yes == TypedWhen(c, "yes")
  <2>0. /\ a \in Seq(Payload) /\ p \in Seq(Payload)
        /\ claiming \in Seq(Payload) /\ no \in Seq(Payload) /\ yes \in Seq(Payload)
    BY <1>0, <1>4, TextsByGrows
  <2>1. ready'[c] = ready[c] /\ ready[c] \in {"no", "claiming", "yes"}
    BY <1>0, <1>2 DEF Readiness
  <2>2. /\ (IF ready[c] = "claiming" THEN claiming' = Append(claiming, text) ELSE claiming' = claiming)
        /\ (IF ready[c] = "no" THEN no' = Append(no, text) ELSE no' = no)
        /\ (IF ready[c] = "yes" THEN yes' = Append(yes, text) ELSE yes' = yes)
    BY <1>4, <1>6
  <2>3. \/ /\ ready[c] # "no" /\ a' = Append(a, text) /\ pending'[c] = p
        \/ /\ ready[c] = "no" /\ pending'[c] = Append(p, text) /\ a' = a
    <3>1. CASE ready[d] # "no" /\ SendMessage(d, text) /\ UNCHANGED pending
      <4>1. TextsBy(c, messages') = Append(TextsBy(c, messages), text)
        BY <1>6, <3>1, SendMessageSends
      <4> QED BY <1>6, <3>1, <4>1
    <3>2. CASE ready[d] = "no" /\ pending' = [pending EXCEPT ![d] = Append(@, text)] /\ UNCHANGED messages
      BY <1>0, <1>6, <3>2
    <3> QED BY <1>3, <3>1, <3>2
  <2>4. /\ ready[c] # "yes" => a = claiming /\ p = no /\ yes = <<>>
        /\ ready[c] = "no" => claiming = <<>>
        /\ ready[c] = "yes" => a \o p = (claiming \o no) \o yes
    BY <1>1 DEF StoredOf
  <2>5. ready[c] = "yes" => p = <<>>
    BY <1>2 DEF Free, Busy
  <2>6. StoredOf(c)' <=>
          /\ ready'[c] # "yes" => a' = claiming' /\ pending'[c] = no' /\ yes' = <<>>
          /\ ready'[c] = "no" => claiming' = <<>>
          /\ ready'[c] = "yes" => a' \o pending'[c] = (claiming' \o no') \o yes'
    BY DEF StoredOf
  <2> DEFINE a1 == a'
             claiming1 == claiming'
             no1 == no'
             yes1 == yes'
  <2>7. /\ ready'[c] # "yes" => a1 = claiming1 /\ pending'[c] = no1 /\ yes1 = <<>>
        /\ ready'[c] = "no" => claiming1 = <<>>
        /\ ready'[c] = "yes" => a1 \o pending'[c] = (claiming1 \o no1) \o yes1
    <3>1. CASE ready[c] = "no"
      BY <2>1, <2>2, <2>3, <2>4, <3>1
    <3>2. CASE ready[c] = "claiming"
      BY <2>1, <2>2, <2>3, <2>4, <3>2
    <3>3. CASE ready[c] = "yes"
      <4>1. a1 = Append(a, text) /\ pending'[c] = <<>> /\ yes1 = Append(yes, text)
            /\ claiming1 = claiming /\ no1 = no /\ a \o <<>> = (claiming \o no) \o yes
        BY <2>2, <2>3, <2>4, <2>5, <3>3
      <4> HIDE DEF a, p, claiming, no, yes, a1, claiming1, no1, yes1
      <4>2. a = (claiming \o no) \o yes /\ a1 \o <<>> = a1 /\ claiming \o no \in Seq(Payload)
        <5>1. a \o <<>> = a /\ Append(a, text) \in Seq(Payload)
          BY <2>0
        <5>2. Append(a, text) \o <<>> = Append(a, text)
          BY <2>0
        <5>3. claiming \o no \in Seq(Payload)
          BY <2>0
        <5>4. a = (claiming \o no) \o yes
          BY <4>1, <5>1
        <5>5. a1 \o <<>> = a1
          <6>1. a1 = Append(a, text)
            BY <4>1
          <6> QED BY <5>2, <6>1
        <5> QED BY <5>3, <5>4, <5>5
      <4>3. Append((claiming \o no) \o yes, text) = (claiming \o no) \o Append(yes, text)
        <5> PICK xs \in Seq(Payload) : xs = claiming \o no
          BY <4>2
        <5> PICK ys \in Seq(Payload) : ys = yes
          BY <2>0
        <5>1. EndsWith(xs, ys, text)
          BY LastMoves
        <5> QED BY <5>1 DEF EndsWith
      <4>4. a1 \o <<>> = (claiming1 \o no1) \o yes1
        BY <4>1, <4>2, <4>3
      <4> QED BY <2>1, <3>3, <4>1, <4>4
    <3> HIDE DEF a, p, claiming, no, yes, a1, claiming1, no1, yes1
    <3> QED BY <2>1, <3>1, <3>2, <3>3
  <2> QED BY <2>6, <2>7
<1> QED BY <1>5, <1>6

LEMMA StoredOnStep ==
  ASSUME LineInv, LinkInv, Greeted, StoredOn, [Next]_vars
  PROVE  StoredOn'
<1>0. LineTypeOK /\ pending \in [Conn -> Seq(Payload)] /\ ready \in [Conn -> Readiness]
      /\ messages \in Seq(Row)
  BY DEF LineInv, LineTypeOK, Log, Row
<1> SUFFICES ASSUME NEW c \in Conn PROVE StoredOf(c)'
  BY DEF StoredOn, StoredOf
<1>1. StoredOf(c)
  BY DEF StoredOn, StoredOf
<1>2. ASSUME UNCHANGED <<messages, pending, ready, typed>> PROVE StoredOf(c)'
  BY <1>1, <1>2, StoredSame, SameTyped
<1>3. CASE UNCHANGED vars
  BY <1>2, <1>3 DEF vars, gatewayVars
<1>4. ASSUME NEW d \in Conn, ServerQuiet(d) PROVE StoredOf(c)'
  <2>1. UNCHANGED <<messages, pending, ready, typed>>
    BY <1>4 DEF ServerQuiet, Accept, ServerReads, ServerAtEnd, ServerSends, Leave, gatewayVars
  <2> QED BY <1>2, <2>1
<1>5. ASSUME NEW d \in Conn, GatewayQuiet(d) PROVE StoredOf(c)'
  <2>1. UNCHANGED <<messages, pending, typed>>
    BY <1>5 DEF GatewayQuiet, Claimed, OnData, OnFrame, OnTooLarge, Discard, OnBackendClosed,
                OnClientClosed, BrowserLeaves, gatewayVars
  <2>t. /\ TextsBy(c, messages') = TextsBy(c, messages) /\ pending'[c] = pending[c]
        /\ \A w : TypedWhen(c, w)' = TypedWhen(c, w)
    BY <2>1, SameTyped
  <2>s. /\ TextsBy(c, messages) \in Seq(Payload) /\ pending[c] \in Seq(Payload)
    BY <1>0, TextsByGrows
  <2>2. CASE ready'[c] = ready[c]
    BY <1>1, <2>2, <2>t, StoredSame
  <2>3. CASE ready[c] = "claiming" /\ ready'[c] = "yes"
    <3>1. /\ TextsBy(c, messages) = TypedWhen(c, "claiming")
          /\ pending[c] = TypedWhen(c, "no") /\ TypedWhen(c, "yes") = <<>>
      BY <1>1, <2>3 DEF StoredOf
    <3>2. TextsBy(c, messages) \o pending[c] = (TextsBy(c, messages) \o pending[c]) \o <<>>
      BY <2>s
    <3> QED BY <2>3, <2>t, <3>1, <3>2 DEF StoredOf
  <2>4. CASE ready[c] = "no" /\ ready'[c] \in {"claiming", "yes"}
    <3>1. /\ TextsBy(c, messages) = TypedWhen(c, "claiming") /\ TypedWhen(c, "claiming") = <<>>
          /\ pending[c] = TypedWhen(c, "no") /\ TypedWhen(c, "yes") = <<>>
      BY <1>1, <2>4 DEF StoredOf
    <3>2. TextsBy(c, messages) \o pending[c] = (TextsBy(c, messages) \o pending[c]) \o <<>>
      BY <2>s
    <3> QED BY <2>4, <2>t, <3>1, <3>2 DEF StoredOf
  <2>5. CASE \E b \in Conn : OnFrame(b)
    <3>1. PICK b \in Conn : OnFrame(b)
      BY <2>5
    <3>2. DeliversNext(Down(b))
      BY <3>1, Streams, ExtractKeeps DEF OnFrame
    <3>3. PICK f : /\ f = Welcome <=> ready[b] = "no"
                   /\ \/ f = Welcome /\ ready' = [ready EXCEPT ![b] = IF b \in Claimers THEN "claiming" ELSE "yes"]
                      \/ UNCHANGED ready
      BY <3>1, <3>2, OnFrameFacts
    <3> QED BY <1>0, <2>2, <2>4, <3>3
  <2>6. CASE \A b \in Conn : ~OnFrame(b)
    <3>1. ready'[c] = ready[c] \/ (ready[c] = "claiming" /\ ready'[c] = "yes")
      BY <1>0, <2>6, ReadyMoves
    <3> QED BY <2>2, <2>3, <3>1
  <2> QED BY <2>5, <2>6
<1>6. ASSUME NEW d \in Conn, Replay(d) PROVE StoredOf(c)'
  BY <1>6, StoredReplay
<1>7. ASSUME NEW d \in Conn, NEW text \in Payload, FromBrowser(d, text) PROVE StoredOf(c)'
  BY <1>7, StoredTyped
<1> QED BY <1>0, <1>3, <1>4, <1>5, <1>6, <1>7, Steps
-------------------------------------------------------------------------------
(* What the server has to send.                                            *)

\* A frame of a relay.
LEMMA PrefixedLine ==
  ASSUME NEW c \in Conn, NEW line \in Payload
  PROVE  /\ Prefix[c] \o line \in Payload
         /\ Begins(Prefix[c] \o line, Prefix[c])
         /\ Rest(c, Prefix[c] \o line) = line
<1> PICK p : p = Prefix[c]
  OBVIOUS
<1>1. p \in Seq(Byte) /\ line \in Seq(Byte)
  BY LineConstants DEF Payload
<1> DEFINE u == p \o line
<1>2. /\ u \in Seq(Byte) /\ Len(u) = Len(p) + Len(line) /\ Len(p) \in Nat /\ Len(line) \in Nat
      /\ \A i \in 1 .. Len(p) : u[i] = p[i]
      /\ \A i \in 1 .. Len(line) : u[Len(p) + i] = line[i]
  BY <1>1
<1> HIDE DEF u
<1>3. SubSeq(u, 1, Len(p)) = p
  <2> DEFINE a == SubSeq(u, 1, Len(p))
  <2>1. a \in Seq(Byte) /\ Len(a) = Len(p) /\ \A i \in 1 .. Len(p) : a[i] = u[i]
    BY <1>2
  <2> HIDE DEF a
  <2>2. \A i \in 1 .. Len(p) : a[i] = p[i]
    BY <1>2, <2>1
  <2>3. a = p
    BY <1>1, <2>1, <2>2, SeqEqual
  <2> QED BY <2>3 DEF a
<1>4. SubSeq(u, Len(p) + 1, Len(u)) = line
  <2> DEFINE a == SubSeq(u, Len(p) + 1, Len(u))
  <2>1. a \in Seq(Byte) /\ Len(a) = Len(line) /\ \A i \in 1 .. Len(line) : a[i] = u[Len(p) + i]
    BY <1>2
  <2> HIDE DEF a
  <2>2. \A i \in 1 .. Len(line) : a[i] = line[i]
    BY <1>2, <2>1
  <2>3. a = line
    BY <1>1, <2>1, <2>2, SeqEqual
  <2> QED BY <2>3 DEF a
<1>5. u \in Payload /\ Begins(u, p) /\ SubSeq(u, Len(p) + 1, Len(u)) = line
  <2>1. u \in Payload /\ Len(p) <= Len(u)
    BY <1>2 DEF Payload
  <2> QED BY <1>3, <1>4, <2>1 DEF Begins
<1> QED BY <1>5 DEF u, Rest

\* No line begins with two prefixes.
LEMMA OnePrefix ==
  ASSUME NEW f \in Payload, NEW c \in Conn, NEW d \in Conn, Begins(f, Prefix[c]), Begins(f, Prefix[d])
  PROVE  c = d
<1>1. ASSUME NEW p \in Seq(Byte), NEW q \in Seq(Byte), NEW g \in Seq(Byte), Begins(g, p), Begins(g, q),
             Len(p) <= Len(q)
      PROVE  Begins(q, p)
  <2>1. /\ Len(p) \in Nat /\ Len(q) \in Nat /\ Len(g) \in Nat /\ Len(q) <= Len(g) /\ Len(p) <= Len(g)
        /\ SubSeq(g, 1, Len(p)) = p /\ SubSeq(g, 1, Len(q)) = q
    BY <1>1 DEF Begins
  <2>2. \A i \in 1 .. Len(p) : g[i] = SubSeq(g, 1, Len(p))[i]
    BY <2>1
  <2>3. \A i \in 1 .. Len(q) : g[i] = SubSeq(g, 1, Len(q))[i]
    BY <2>1
  <2>4. \A i \in 1 .. Len(p) : p[i] = q[i]
    <3>1. \A i \in 1 .. Len(p) : i \in 1 .. Len(q)
      BY <1>1, <2>1
    <3> QED BY <2>1, <2>2, <2>3, <3>1
  <2> DEFINE a == SubSeq(q, 1, Len(p))
  <2>5. a \in Seq(Byte) /\ Len(a) = Len(p) /\ \A i \in 1 .. Len(p) : a[i] = q[i]
    BY <1>1, <2>1
  <2> HIDE DEF a
  <2>6. a = p
    <3>1. \A i \in 1 .. Len(p) : a[i] = p[i]
      BY <2>4, <2>5
    <3> QED BY <2>5, <3>1, SeqEqual
  <2> QED BY <1>1, <2>6 DEF Begins, a
<1>2. PICK p \in Seq(Byte) : p = Prefix[c]
  BY LineConstants DEF Payload
<1>3. PICK q \in Seq(Byte) : q = Prefix[d]
  BY LineConstants DEF Payload
<1>4. f \in Seq(Byte) /\ Begins(f, p) /\ Begins(f, q) /\ Len(p) \in Nat /\ Len(q) \in Nat
  BY <1>2, <1>3 DEF Payload
<1>5. Begins(q, p) \/ Begins(p, q)
  <2>1. CASE Len(p) <= Len(q)
    BY <1>1, <1>4, <2>1
  <2>2. CASE Len(q) <= Len(p)
    BY <1>1, <1>4, <2>2
  <2> QED BY <1>4, <2>1, <2>2
<1> QED BY <1>2, <1>3, <1>5, LinesDiffer

\* A broadcast has one job for each target.
LEMMA BroadcastFacts ==
  ASSUME NEW C \in SUBSET Conn, NEW frame \in Payload, NEW jobs \in Broadcasts(C, frame)
  PROVE  /\ jobs \in Seq([to : Conn, frame : Payload])
         /\ \A i \in DOMAIN jobs : jobs[i].to \in C /\ jobs[i].frame = frame
         /\ \A d \in C : \E i \in DOMAIN jobs : {j \in DOMAIN jobs : jobs[j].to = d} = {i}
<1> DEFINE n == Cardinality(C)
<1>1. IsFiniteSet(C) /\ n \in Nat
  BY LineConstants, FS_Subset, FS_CardinalityType
<1>2. PICK o \in Orders(C) : jobs = [i \in DOMAIN o |-> Job(o[i], frame)]
  BY DEF Broadcasts
<1>3. o \in [1 .. n -> C] /\ \A c \in C : \E i \in 1 .. n : o[i] = c
  BY <1>2 DEF Orders
<1>4. o \in Surjection(1 .. n, C)
  BY <1>3 DEF Surjection
<1>5. IsFiniteSet(1 .. n) /\ Cardinality(1 .. n) = n
  BY <1>1, FS_Interval
<1>6. o \in Injection(1 .. n, C)
  BY <1>4, <1>5, FS_Surjection
<1>7. \A i, j \in 1 .. n : o[i] = o[j] => i = j
  BY <1>6 DEF Injection, IsInjective
<1>8. DOMAIN jobs = 1 .. n /\ \A i \in 1 .. n : jobs[i].to = o[i] /\ jobs[i].frame = frame
  BY <1>2, <1>3 DEF Job
<1>9. ASSUME NEW d \in C PROVE \E i \in DOMAIN jobs : {j \in DOMAIN jobs : jobs[j].to = d} = {i}
  <2>1. PICK i \in 1 .. n : o[i] = d
    BY <1>3
  <2>2. \A j \in 1 .. n : jobs[j].to = d <=> j = i
    BY <1>7, <1>8, <2>1
  <2>3. {j \in DOMAIN jobs : jobs[j].to = d} = {i}
    BY <1>8, <2>2
  <2> QED BY <1>8, <2>3
<1> QED BY <1>3, <1>8, <1>9, BroadcastJobs

\* A recv() of a handler.
LEMMA ReadsMove ==
  ASSUME LineInv, LinkInv, NEW c \in Conn, ServerReads(c)
  PROVE  /\ sent' = sent /\ since' = since /\ serving[c] = "serving" /\ todo[c] = <<>>
         /\ UNCHANGED gatewayVars
         /\ \/ got' = got /\ UNCHANGED serverVars
            \/ /\ got' = got /\ todo' = [todo EXCEPT ![c] = <<Job(c, Err)>>]
               /\ serving' = [serving EXCEPT ![c] = "leaving"]
            \/ \E f \in Payload :
                 /\ got'[Up(c)] = Append(got[Up(c)], f)
                 /\ \A t \in Stream : t # Up(c) => got'[t] = got[t]
                 /\ HandleLine(c, f)
<1>0. LineTypeOK /\ LinkTypeOK /\ Up(c) \in Stream
  BY Streams DEF LineInv, LinkInv
<1>1. PICK n : Recv(Up(c), n)
  BY DEF ServerReads
<1>2. sent' = sent /\ serving[c] = "serving" /\ todo[c] = <<>> /\ UNCHANGED gatewayVars
  BY <1>1 DEF ServerReads, Recv, RecvPart, RecvHeader, RecvBody
<1>3. CASE got' = got /\ UNCHANGED serverVars
  BY <1>2, <1>3 DEF serverVars
<1>4. CASE got' # got /\ HandleLine(c, got'[Up(c)][Len(got'[Up(c)])])
  <2>1. DeliversNext(Up(c))
    <3>1. ~RecvPart(Up(c), n)
      BY <1>4 DEF RecvPart
    <3> QED BY <1>0, <1>1, <1>4, <3>1, RecvHeaderKeeps, RecvBodyKeeps DEF Recv
  <2>2. PICK f : f = sent[Up(c)][Len(got[Up(c)]) + 1]
    OBVIOUS
  <2>3. /\ f \in Payload /\ got'[Up(c)] = Append(got[Up(c)], f) /\ got'[Up(c)][Len(got'[Up(c)])] = f
        /\ \A t \in Stream : t # Up(c) => got'[t] = got[t]
    BY <1>0, <2>1, <2>2, Delivered
  <2>4. HandleLine(c, f)
    BY <1>4, <2>3
  <2>5. since' = since
    BY <1>0, <2>3, <2>4, HandleLineTypes
  <2> QED BY <1>2, <2>3, <2>4, <2>5
<1>5. CASE /\ phase'[Up(c)] = "refused" /\ todo' = [todo EXCEPT ![c] = <<Job(c, Err)>>]
           /\ serving' = [serving EXCEPT ![c] = "leaving"] /\ UNCHANGED since
  <2>1. phase \in [Stream -> {"head", "body", "refused", "closed"}]
    BY <1>0 DEF LinkTypeOK
  <2>2. got' = got
    <3>1. CASE RecvPart(Up(c), n)
      BY <3>1 DEF RecvPart
    <3>2. CASE RecvHeader(Up(c), n)
      <4> DEFINE len == Length(Extended(Up(c), n))
      <4>1. got' = got \/ phase' = [phase EXCEPT ![Up(c)] = IF len = 0 THEN "head" ELSE "body"]
        BY <3>2 DEF RecvHeader
      <4> HIDE DEF len
      <4>2. phase' = [phase EXCEPT ![Up(c)] = IF len = 0 THEN "head" ELSE "body"] => phase'[Up(c)] \in {"head", "body"}
        BY <1>0, <2>1
      <4> QED BY <1>5, <4>1, <4>2
    <3>3. CASE RecvBody(Up(c), n)
      <4>1. phase' = [phase EXCEPT ![Up(c)] = "head"]
        BY <3>3 DEF RecvBody
      <4>2. phase'[Up(c)] = "head"
        BY <1>0, <2>1, <4>1
      <4> QED BY <1>5, <4>2
    <3> QED BY <1>1, <3>1, <3>2, <3>3 DEF Recv
  <2> QED BY <1>2, <1>5, <2>2
<1> QED BY <1>3, <1>4, <1>5 DEF ServerReads

\* Only a handler's own steps change what it has to send.
LEMMA TodoMoves ==
  ASSUME LineInv, LinkInv, [Next]_vars, NEW c \in Conn
  PROVE  \/ todo'[c] = todo[c]
         \/ ServerSends(c) /\ todo[c] # <<>> /\ todo'[c] = Tail(todo[c])
         \/ ServerReads(c) /\ todo'[c] = <<Job(c, Err)>>
         \/ \E f \in Payload : /\ ServerReads(c) /\ Trim(f) # <<>> /\ ~IsCommand(Trim(f))
                               /\ todo'[c] \in Broadcasts(Others(c), Prefix[c] \o Trim(f))
<1>0. LineTypeOK /\ todo \in [Conn -> Seq([to : Conn, frame : Payload])]
  BY DEF LineInv, LineTypeOK
<1>1. CASE todo' = todo
  BY <1>1
<1>2. ASSUME NEW d \in Conn, ServerReads(d)
      PROVE  \/ todo'[c] = todo[c]
             \/ d = c /\ todo'[c] = <<Job(c, Err)>>
             \/ \E f \in Payload : /\ d = c /\ Trim(f) # <<>> /\ ~IsCommand(Trim(f))
                                   /\ todo'[c] \in Broadcasts(Others(c), Prefix[c] \o Trim(f))
  <2>1. CASE UNCHANGED serverVars
    BY <2>1 DEF serverVars
  <2>2. CASE todo' = [todo EXCEPT ![d] = <<Job(d, Err)>>]
    BY <1>0, <2>2
  <2>3. ASSUME NEW f \in Payload, HandleLine(d, f)
        PROVE  \/ todo'[c] = todo[c]
               \/ d = c /\ todo'[c] = <<Job(c, Err)>>
               \/ /\ d = c /\ Trim(f) # <<>> /\ ~IsCommand(Trim(f))
                  /\ todo'[c] \in Broadcasts(Others(c), Prefix[c] \o Trim(f))
    <3>1. \/ todo' = todo
          \/ todo' = [todo EXCEPT ![d] = <<Job(d, Err)>>]
          \/ /\ Trim(f) # <<>> /\ ~IsCommand(Trim(f))
             /\ \E jobs \in Broadcasts(Others(d), Prefix[d] \o Trim(f)) : todo' = [todo EXCEPT ![d] = jobs]
      BY <2>3 DEF HandleLine, serverVars
    <3> QED BY <1>0, <3>1
  <2> QED BY <1>2, <2>1, <2>2, <2>3, ReadsMove
<1>3. ASSUME NEW d \in Conn, ServerSends(d)
      PROVE  todo'[c] = todo[c] \/ (d = c /\ todo[c] # <<>> /\ todo'[c] = Tail(todo[c]))
  BY <1>0, <1>3 DEF ServerSends
<1>4. ASSUME NEW d \in Conn, ServerQuiet(d), ~ServerReads(d), ~ServerSends(d) PROVE todo' = todo
  BY <1>4 DEF ServerQuiet, Accept, ServerAtEnd, Leave
<1>5. ASSUME NEW d \in Conn, NEW text, GatewayQuiet(d) \/ Replay(d) \/ FromBrowser(d, text)
      PROVE  todo' = todo
  BY <1>5 DEF GatewayQuiet, Claimed, OnData, OnFrame, OnTooLarge, Discard, OnBackendClosed,
              OnClientClosed, BrowserLeaves, Replay, FromBrowser, serverVars
<1>6. CASE \E d \in Conn : ServerQuiet(d)
  BY <1>1, <1>2, <1>3, <1>4, <1>6
<1>7. CASE \E d \in Conn : GatewayQuiet(d)
  BY <1>1, <1>5, <1>7
<1>8. CASE \E d \in Conn : Replay(d)
  BY <1>1, <1>5, <1>8
<1>9. CASE \E d \in Conn, text \in Payload : FromBrowser(d, text)
  BY <1>1, <1>5, <1>9
<1>10. CASE UNCHANGED vars
  BY <1>1, <1>10 DEF vars, serverVars
<1> QED BY <1>0, <1>6, <1>7, <1>8, <1>9, <1>10, Steps

JobFits(at, c, job) ==
  /\ at[job.to] # "accepted"
  /\ \/ job.to # c /\ Begins(job.frame, Prefix[c])
     \/ job.to = c /\ job.frame = Err

LEMMA JobsFitStep ==
  ASSUME LineInv, LinkInv, JobsFit, [Next]_vars
  PROVE  JobsFit'
<1>0. LineTypeOK /\ todo \in [Conn -> Seq([to : Conn, frame : Payload])]
  BY DEF LineInv, LineTypeOK
<1> SUFFICES ASSUME NEW c \in Conn PROVE \A i \in DOMAIN todo'[c] : JobFits(serving', c, todo'[c][i])
  BY DEF JobsFit, JobFits
<1>1. ASSUME NEW job \in [to : Conn, frame : Payload], JobFits(serving, c, job) PROVE JobFits(serving', c, job)
  BY <1>0, <1>1, ClosedStays DEF JobFits
<1>2. ASSUME NEW i \in DOMAIN todo[c] PROVE todo[c][i] \in [to : Conn, frame : Payload] /\ JobFits(serving', c, todo[c][i])
  <2>0. todo[c] \in Seq([to : Conn, frame : Payload])
    BY <1>0
  <2>1. todo[c][i] \in [to : Conn, frame : Payload]
    <3> PICK T : T = [to : Conn, frame : Payload]
      OBVIOUS
    <3> PICK q \in Seq(T) : q = todo[c]
      BY <2>0
    <3>1. DOMAIN q = 1 .. Len(q)
      OBVIOUS
    <3>2. i \in 1 .. Len(q)
      BY <3>1
    <3>3. q[i] \in T
      BY <3>2, ElementOfSeq
    <3> QED BY <3>3
  <2>2. PICK job \in [to : Conn, frame : Payload] : job = todo[c][i]
    BY <2>1
  <2>3. JobFits(serving, c, job)
    BY <2>2 DEF JobsFit, JobFits
  <2>4. JobFits(serving', c, job)
    BY <1>1, <2>3
  <2> QED BY <2>1, <2>2, <2>4
<1>3. ASSUME NEW j \in DOMAIN todo[c], NEW i \in DOMAIN todo'[c], todo'[c][i] = todo[c][j]
      PROVE  JobFits(serving', c, todo'[c][i])
  BY <1>2, <1>3 DEF JobFits
<1>4. CASE todo'[c] = todo[c]
  BY <1>3, <1>4
<1>5. CASE todo[c] # <<>> /\ todo'[c] = Tail(todo[c])
  <2>1. todo[c] \in Seq([to : Conn, frame : Payload])
    BY <1>0
  <2>2. \A i \in DOMAIN todo'[c] : i + 1 \in DOMAIN todo[c] /\ todo'[c][i] = todo[c][i + 1]
    BY <1>5, <2>1
  <2> QED BY <1>3, <2>2
<1>6. CASE ServerReads(c) /\ todo'[c] = <<Job(c, Err)>>
  <2>1. serving[c] = "serving"
    BY <1>6, ReadsMove
  <2>2. serving'[c] # "accepted"
    BY <1>0, <2>1, ClosedStays
  <2>3. \A i \in DOMAIN todo'[c] : todo'[c][i].to = c /\ todo'[c][i].frame = Err
    BY <1>6 DEF Job
  <2> QED BY <2>2, <2>3 DEF JobFits
<1>7. ASSUME NEW f \in Payload, todo'[c] \in Broadcasts(Others(c), Prefix[c] \o Trim(f))
      PROVE  \A i \in DOMAIN todo'[c] : JobFits(serving', c, todo'[c][i])
  <2>1. Trim(f) \in Payload
    BY TrimmedIsPayload
  <2>2. PICK frame \in Payload : frame = Prefix[c] \o Trim(f) /\ Begins(frame, Prefix[c])
    BY <2>1, PrefixedLine
  <2>3. PICK jobs \in Broadcasts(Others(c), frame) : jobs = todo'[c]
    BY <1>7, <2>2
  <2>4. Others(c) \in SUBSET Conn /\ \A d \in Others(c) : d # c /\ serving[d] # "accepted"
    BY DEF Others
  <2>5. \A i \in DOMAIN jobs : jobs[i].to \in Others(c) /\ jobs[i].frame = frame
    BY <2>4, BroadcastFacts
  <2>6. \A d \in Others(c) : serving'[d] # "accepted"
    BY <1>0, <2>4, ClosedStays
  <2>7. \A i \in DOMAIN todo'[c] : /\ serving'[todo'[c][i].to] # "accepted" /\ todo'[c][i].to # c
                                  /\ Begins(todo'[c][i].frame, Prefix[c])
    BY <2>2, <2>3, <2>4, <2>5, <2>6
  <2> QED BY <2>7 DEF JobFits
<1> QED BY <1>4, <1>5, <1>6, <1>7, TodoMoves

LEMMA ExitsLastStep ==
  ASSUME LineInv, LineInv', LinkInv, ExitsLast, [Next]_vars
  PROVE  ExitsLast'
<1>0. LineTypeOK /\ got \in [Stream -> Seq(Payload)]
      /\ serving \in [Conn -> {"accepted", "serving", "leaving", "gone"}]
  BY DEF LineInv, LineTypeOK, LinkInv, LinkTypeOK
<1> SUFFICES ASSUME NEW c \in Conn
             PROVE  \A i \in DOMAIN got'[Up(c)] :
                      IsExit(Trim(got'[Up(c)][i])) => i = Len(got'[Up(c)]) /\ serving'[c] \in {"leaving", "gone"}
  BY DEF ExitsLast
<1>1. \A i \in DOMAIN got[Up(c)] :
        IsExit(Trim(got[Up(c)][i])) => i = Len(got[Up(c)]) /\ serving[c] \in {"leaving", "gone"}
  BY DEF ExitsLast
<1>s. Up(c) \in Stream /\ \A d \in Conn : Up(c) # Down(d) /\ (Up(c) = Up(d) => c = d)
  BY Streams
<1>2. CASE got'[Up(c)] = got[Up(c)]
  <2>1. serving[c] \in {"leaving", "gone"} => serving'[c] \in {"leaving", "gone"}
    <3>1. CASE serving[c] = "gone"
      BY <1>0, <3>1, ClosedStays
    <3>2. CASE serving[c] = "leaving"
      <4>1. serving'[c] \in {"accepted", "serving", "leaving", "gone"}
        BY DEF LineInv, LineTypeOK
      <4>2. serving'[c] # "accepted" /\ serving'[c] # "serving"
        BY <1>0, <3>2, ClosedStays
      <4> QED BY <4>1, <4>2
    <3> QED BY <3>1, <3>2
  <2> QED BY <1>1, <1>2, <2>1
<1>3. ASSUME NEW d \in Conn, ServerReads(d), got' # got
      PROVE  \A i \in DOMAIN got'[Up(c)] :
               IsExit(Trim(got'[Up(c)][i])) => i = Len(got'[Up(c)]) /\ serving'[c] \in {"leaving", "gone"}
  <2>1. PICK f \in Payload :
          /\ got'[Up(d)] = Append(got[Up(d)], f)
          /\ \A t \in Stream : t # Up(d) => got'[t] = got[t]
          /\ HandleLine(d, f)
    BY <1>3, ReadsMove
  <2>2. CASE d # c
    BY <1>2, <1>s, <2>1, <2>2
  <2>3. CASE d = c
    <3>1. serving[c] = "serving"
      BY <1>3, <2>3, ReadsMove
    <3>2. \A i \in DOMAIN got[Up(c)] : ~IsExit(Trim(got[Up(c)][i]))
      BY <1>1, <3>1
    <3>3. got[Up(c)] \in Seq(Payload) /\ got'[Up(c)] = Append(got[Up(c)], f)
      BY <1>0, <1>s, <2>1, <2>3
    <3>4. /\ Len(got'[Up(c)]) = Len(got[Up(c)]) + 1 /\ Len(got[Up(c)]) \in Nat
          /\ DOMAIN got'[Up(c)] = 1 .. Len(got[Up(c)]) + 1 /\ DOMAIN got[Up(c)] = 1 .. Len(got[Up(c)])
          /\ got'[Up(c)][Len(got[Up(c)]) + 1] = f
          /\ \A i \in 1 .. Len(got[Up(c)]) : got'[Up(c)][i] = got[Up(c)][i]
      BY <3>3
    <3>5. IsExit(Trim(f)) => serving'[c] = "leaving"
      <4>1. ASSUME IsExit(Trim(f)) PROVE serving' = [serving EXCEPT ![c] = "leaving"]
        BY <2>1, <2>3, <4>1 DEF HandleLine, IsExit, IsCommand
      <4> QED BY <1>0, <4>1
    <3> QED BY <3>2, <3>4, <3>5
  <2> QED BY <2>2, <2>3
<1>4. ASSUME NEW d \in Conn, DeliversNext(Down(d)) PROVE got'[Up(c)] = got[Up(c)]
  BY <1>4, <1>s, Streams, Delivered
<1> QED BY <1>2, <1>3, <1>4, GotMoves
-------------------------------------------------------------------------------
(* What the pages show.                                                    *)
LEMMA OnlyOnFrame ==
  ASSUME LineInv, LinkInv, Greeted, [Next]_vars, NEW d \in Conn, ~OnFrame(d)
  PROVE  page'[d] = page[d] /\ got'[Down(d)] = got[Down(d)]
<1>0. LineTypeOK /\ page \in [Conn -> Log]
  BY DEF LineInv, LineTypeOK
<1>s. Down(d) \in Stream /\ \A b \in Conn : Down(d) # Up(b) /\ Up(b) \in Stream /\ Down(b) \in Stream
                                            /\ (Down(b) = Down(d) => b = d)
  BY Streams
<1>1. got'[Down(d)] = got[Down(d)]
  <2>1. ASSUME NEW b \in Conn, DeliversNext(Up(b)) PROVE got'[Down(d)] = got[Down(d)]
    BY <1>s, <2>1, Delivered
  <2>2. ASSUME NEW b \in Conn, OnFrame(b), DeliversNext(Down(b)) PROVE got'[Down(d)] = got[Down(d)]
    <3>1. b # d
      BY <2>2
    <3>2. Down(d) # Down(b)
      BY <1>s, <3>1
    <3> QED BY <1>s, <2>2, <3>2, Delivered
  <2> QED BY <2>1, <2>2, GotMoves
<1>2. page'[d] = page[d]
  <2>1. CASE UNCHANGED vars
    BY <2>1 DEF vars, gatewayVars
  <2>2. ASSUME NEW b \in Conn, ServerQuiet(b) PROVE page' = page
    BY <2>2 DEF ServerQuiet, Accept, ServerReads, ServerAtEnd, ServerSends, Leave, gatewayVars
  <2>3. ASSUME NEW b \in Conn, GatewayQuiet(b), ~OnFrame(b) PROVE page' = page
    BY <2>3 DEF GatewayQuiet, Claimed, OnData, OnTooLarge, Discard, OnBackendClosed, OnClientClosed,
                BrowserLeaves, gatewayVars
  <2>4. ASSUME NEW b \in Conn, OnFrame(b) PROVE page'[d] = page[d]
    <3>1. DeliversNext(Down(b))
      BY <2>4, Streams, ExtractKeeps DEF OnFrame
    <3>2. \/ page' = page
          \/ \E e : page' = [page EXCEPT ![b] = e]
      BY <2>4, <3>1, OnFrameFacts
    <3>3. b # d
      BY <2>4
    <3> QED BY <1>0, <3>2, <3>3
  <2>5. ASSUME NEW b \in Conn, NEW text, Replay(b) \/ FromBrowser(b, text) PROVE page' = page
    BY <2>5 DEF Replay, FromBrowser
  <2>6. CASE \E b \in Conn : ServerQuiet(b)
    BY <2>2, <2>6
  <2>7. CASE \E b \in Conn : GatewayQuiet(b)
    BY <2>3, <2>4, <2>7
  <2>8. CASE \E b \in Conn : Replay(b)
    BY <2>5, <2>8
  <2>9. CASE \E b \in Conn, text \in Payload : FromBrowser(b, text)
    BY <2>5, <2>9
  <2> QED BY <1>0, <2>1, <2>6, <2>7, <2>8, <2>9, Steps
<1> QED BY <1>1, <1>2

\* One more line of one page.
LEMMA PageGrows ==
  ASSUME LineInv, LinkInv, Greeted, NEW d \in Conn, OnFrame(d), NEW c \in Conn
  PROVE  \E f \in Payload :
           /\ got'[Down(d)] = Append(got[Down(d)], f)
           /\ ~Begins(f, Prefix[c]) => TextsBy(c, page'[d]) = TextsBy(c, page[d])
           /\ Begins(f, Prefix[c]) =>
                TextsBy(c, page'[d]) = IF ws[d] = "open" THEN Append(TextsBy(c, page[d]), Rest(c, f))
                                       ELSE TextsBy(c, page[d])
<1>0. page \in [Conn -> Log] /\ page[d] \in Seq(Row)
  BY DEF LineInv, LineTypeOK, Log, Row
<1>1. DeliversNext(Down(d))
  BY Streams, ExtractKeeps DEF OnFrame
<1>2. PICK f \in Payload :
        /\ got'[Down(d)] = Append(got[Down(d)], f)
        /\ \/ f = Welcome /\ page' = page
           \/ f = Err /\ page' = page
           \/ \E by \in From(f) :
                page' = IF ws[d] # "open" THEN page
                        ELSE [page EXCEPT ![d] = Append(@, [by |-> by, text |-> Rest(by, f)])]
  BY <1>1, OnFrameFacts
<1>3. CASE f = Welcome \/ f = Err
  <2>1. ~Begins(f, Prefix[c])
    BY <1>3, LinesDiffer
  <2>2. page' = page
    <3>1. ASSUME NEW by \in From(f) PROVE FALSE
      BY <1>3, <3>1, LinesDiffer DEF From
    <3> QED BY <1>2, <3>1
  <2> QED BY <1>2, <2>1, <2>2
<1>4. ASSUME NEW by \in From(f),
             page' = IF ws[d] # "open" THEN page
                     ELSE [page EXCEPT ![d] = Append(@, [by |-> by, text |-> Rest(by, f)])]
      PROVE  /\ ~Begins(f, Prefix[c]) => TextsBy(c, page'[d]) = TextsBy(c, page[d])
             /\ Begins(f, Prefix[c]) =>
                  TextsBy(c, page'[d]) = IF ws[d] = "open" THEN Append(TextsBy(c, page[d]), Rest(c, f))
                                         ELSE TextsBy(c, page[d])
  <2>1. by \in Conn /\ Begins(f, Prefix[by])
    BY DEF From
  <2>2. CASE ws[d] # "open"
    BY <1>4, <2>2
  <2>3. CASE ws[d] = "open"
    <3> DEFINE r == [by |-> by, text |-> Rest(by, f)]
    <3>1. <<>> \in Seq(Payload)
      OBVIOUS
    <3>2. Rest(by, f) \in Payload
      BY <2>1, <3>1, TextsInGrow
    <3>3. r \in Row /\ r.by = by /\ r.text = Rest(by, f)
      BY <2>1, <3>2 DEF Row
    <3>4. page'[d] = Append(page[d], r)
      BY <1>0, <1>4, <2>3
    <3> HIDE DEF r
    <3>5. /\ r.by = c => TextsBy(c, Append(page[d], r)) = Append(TextsBy(c, page[d]), r.text)
          /\ r.by # c => TextsBy(c, Append(page[d], r)) = TextsBy(c, page[d])
      BY <1>0, <3>3, TextsByGrows
    <3>6. CASE Begins(f, Prefix[c])
      <4>1. by = c
        BY <2>1, <3>6, OnePrefix
      <4> QED BY <2>3, <3>3, <3>4, <3>5, <3>6, <4>1
    <3>7. CASE ~Begins(f, Prefix[c])
      <4>1. by # c
        BY <2>1, <3>7
      <4> QED BY <3>3, <3>4, <3>5, <3>7, <4>1
    <3> QED BY <3>6, <3>7
  <2> QED BY <2>2, <2>3
<1> QED BY <1>2, <1>3, <1>4

LEMMA PagesOnStep ==
  ASSUME LineInv, LinkInv, Greeted, PagesOn, [Next]_vars
  PROVE  PagesOn'
<1>0. LineTypeOK /\ page \in [Conn -> Log] /\ got \in [Stream -> Seq(Payload)]
  BY DEF LineInv, LineTypeOK, LinkInv, LinkTypeOK
<1> SUFFICES ASSUME NEW c \in Conn, NEW d \in Conn
             PROVE  /\ HeadOf(TextsBy(c, page'[d]), TextsIn(c, got'[Down(d)]))
                    /\ ws'[d] = "open" => TextsBy(c, page'[d]) = TextsIn(c, got'[Down(d)])
  BY DEF PagesOn
<1> DEFINE a == TextsBy(c, page[d])
           b == TextsIn(c, got[Down(d)])
<1>1. HeadOf(a, b) /\ (ws[d] = "open" => a = b)
  BY DEF PagesOn
<1>2. ws'[d] = "open" => ws[d] = "open"
  BY <1>0, ClosedStays
<1>3. CASE ~OnFrame(d)
  BY <1>1, <1>2, <1>3, OnlyOnFrame
<1>4. CASE OnFrame(d)
  <2>1. PICK f \in Payload :
           /\ got'[Down(d)] = Append(got[Down(d)], f)
           /\ ~Begins(f, Prefix[c]) => TextsBy(c, page'[d]) = a
           /\ Begins(f, Prefix[c]) =>
                TextsBy(c, page'[d]) = IF ws[d] = "open" THEN Append(a, Rest(c, f)) ELSE a
    BY <1>4, PageGrows
  <2>2. got[Down(d)] \in Seq(Payload) /\ page[d] \in Seq(Row)
    BY <1>0, Streams DEF Log, Row
  <2>3. /\ b \in Seq(Payload) /\ TextsIn(c, got'[Down(d)]) \in Seq(Payload) /\ Rest(c, f) \in Payload
        /\ Begins(f, Prefix[c]) => TextsIn(c, got'[Down(d)]) = Append(b, Rest(c, f))
        /\ ~Begins(f, Prefix[c]) => TextsIn(c, got'[Down(d)]) = b
    <3> PICK g \in Seq(Payload) : g = got[Down(d)]
      BY <2>2
    <3>1. b = TextsIn(c, g) /\ got'[Down(d)] = Append(g, f)
      BY <2>1
    <3> HIDE DEF b
    <3>2. /\ TextsIn(c, g) \in Seq(Payload) /\ TextsIn(c, Append(g, f)) \in Seq(Payload)
          /\ Rest(c, f) \in Payload
          /\ Begins(f, Prefix[c]) => TextsIn(c, Append(g, f)) = Append(TextsIn(c, g), Rest(c, f))
          /\ ~Begins(f, Prefix[c]) => TextsIn(c, Append(g, f)) = TextsIn(c, g)
      BY TextsInGrow
    <3> QED BY <3>1, <3>2
  <2>4. a \in Seq(Payload)
    BY <2>2, TextsByGrows
  <2> HIDE DEF a, b
  <2>5. CASE ~Begins(f, Prefix[c])
    BY <1>1, <1>2, <2>1, <2>3, <2>5
  <2>6. CASE Begins(f, Prefix[c]) /\ ws[d] = "open"
    <3>1. TextsBy(c, page'[d]) = TextsIn(c, got'[Down(d)])
      BY <1>1, <2>1, <2>3, <2>6
    <3>2. HeadOf(TextsIn(c, got'[Down(d)]), TextsIn(c, got'[Down(d)]))
      BY <2>3, HeadOfSelf
    <3> QED BY <3>1, <3>2
  <2>7. CASE Begins(f, Prefix[c]) /\ ws[d] # "open"
    <3>1. HeadOf(b, Append(b, Rest(c, f))) /\ Append(b, Rest(c, f)) \in Seq(Payload)
      BY <2>3, <2>7, HeadOfSelf
    <3>2. HeadOf(a, Append(b, Rest(c, f)))
      BY <1>1, <2>3, <2>4, <3>1, HeadsFollow
    <3> QED BY <1>2, <2>1, <2>3, <2>7, <3>2
  <2> QED BY <2>5, <2>6, <2>7
<1> QED BY <1>3, <1>4
-------------------------------------------------------------------------------
(* What the others are sent.                                               *)
AJob == [to : Conn, frame : Payload]

\* A client that is no longer reached may miss what is due.
LEMMA SendsLess ==
  ASSUME NEW c, NEW d, NEW t, NEW p, NEW jobs, NEW max, NEW r, NEW s,
         Sends(c, d, t, p, jobs, max, r), s => r
  PROVE  Sends(c, d, t, p, jobs, max, s)
BY DEF Sends

LEMMA TailDue ==
  ASSUME NEW jobs \in Seq(AJob), jobs # <<>>, NEW d, NEW max
  PROVE  /\ 1 \in DOMAIN jobs /\ Head(jobs) = jobs[1] /\ jobs[1] \in AJob
         /\ \A i \in DOMAIN Tail(jobs) : i \in Nat /\ i >= 1 /\ i + 1 \in DOMAIN jobs /\ Tail(jobs)[i] = jobs[i + 1]
         /\ \A i \in DOMAIN jobs : i # 1 => i - 1 \in DOMAIN Tail(jobs) /\ Tail(jobs)[i - 1] = jobs[i]
         /\ DueIn(Tail(jobs), d, max) = {i \in DOMAIN Tail(jobs) : i + 1 \in DueIn(jobs, d, max)}
<1> DEFINE q == Tail(jobs)
           n == Len(jobs)
<1>1. n \in Nat /\ n >= 1 /\ DOMAIN jobs = 1 .. n /\ DOMAIN q = 1 .. n - 1
      /\ \A i \in 1 .. n - 1 : q[i] = jobs[i + 1]
  OBVIOUS
<1>2. 1 \in DOMAIN jobs /\ Head(jobs) = jobs[1] /\ jobs[1] \in AJob
  <2>1. 1 \in 1 .. Len(jobs)
    BY <1>1
  <2>2. jobs[1] \in AJob
    BY <2>1, ElementOfSeq
  <2> QED BY <1>1, <2>2
<1> HIDE DEF q
<1>3. \A i \in DOMAIN q : i \in Nat /\ i >= 1 /\ i + 1 \in DOMAIN jobs /\ q[i] = jobs[i + 1]
  BY <1>1
<1>4. ASSUME NEW i \in DOMAIN jobs, i # 1 PROVE i - 1 \in DOMAIN q /\ q[i - 1] = jobs[i]
  <2>1. i - 1 \in 1 .. n - 1 /\ (i - 1) + 1 = i
    BY <1>1, <1>4
  <2> QED BY <1>1, <2>1
<1>5. \A i \in DOMAIN q : q[i].to = d /\ Len(q[i].frame) <= max <=> i + 1 \in DueIn(jobs, d, max)
  BY <1>3 DEF DueIn
<1>6. DueIn(q, d, max) = {i \in DOMAIN q : i + 1 \in DueIn(jobs, d, max)}
  BY <1>5 DEF DueIn
<1> QED BY <1>2, <1>3, <1>4, <1>6 DEF q

\* The next frame was none of these.
LEMMA SendsSkip ==
  ASSUME NEW c, NEW d, NEW t, NEW p, NEW jobs \in Seq(AJob), NEW max, NEW r, jobs # <<>>,
         Sends(c, d, t, p, jobs, max, r), 1 \notin DueIn(jobs, d, max)
  PROVE  Sends(c, d, t, p, Tail(jobs), max, r)
<1> DEFINE q == Tail(jobs)
           D == DueIn(jobs, d, max)
<1>1. /\ \A i \in DOMAIN q : i \in Nat /\ i >= 1 /\ i + 1 \in DOMAIN jobs /\ q[i] = jobs[i + 1]
      /\ \A i \in DOMAIN jobs : i # 1 => i - 1 \in DOMAIN q /\ q[i - 1] = jobs[i]
      /\ DueIn(q, d, max) = {i \in DOMAIN q : i + 1 \in D}
  BY TailDue
<1>j. DOMAIN jobs = 1 .. Len(jobs)
  OBVIOUS
<1> HIDE DEF q, D
<1>2. CASE D = {} /\ t = p
  <2>1. DueIn(q, d, max) = {}
    BY <1>1, <1>2
  <2> QED BY <1>2, <2>1 DEF Sends, q
<1>3. ASSUME NEW i \in DOMAIN jobs, D = {i}, Append(t, Rest(c, jobs[i].frame)) = p
      PROVE  Sends(c, d, t, p, q, max, r)
  <2>1. i # 1 /\ i \in Int
    BY <1>3, <1>j DEF D
  <2>2. i - 1 \in DOMAIN q /\ q[i - 1] = jobs[i]
    BY <1>1, <2>1
  <2>3. \A k \in DOMAIN q : k + 1 \in D <=> k = i - 1
    BY <1>1, <1>3, <2>1
  <2>4. DueIn(q, d, max) = {i - 1}
    BY <1>1, <2>2, <2>3
  <2> QED BY <1>3, <2>2, <2>4 DEF Sends
<1> QED BY <1>2, <1>3 DEF Sends, q, D

\* The next frame was sent to d.
LEMMA SendsOne ==
  ASSUME NEW c, NEW d, NEW t \in Seq(Payload), NEW p, NEW jobs \in Seq(AJob), NEW max, jobs # <<>>,
         NEW e \in Payload, e = Rest(c, jobs[1].frame),
         Sends(c, d, t, p, jobs, max, TRUE), 1 \in DueIn(jobs, d, max)
  PROVE  Append(t, e) = p /\ \A r : Sends(c, d, Append(t, e), p, Tail(jobs), max, r)
<1> DEFINE q == Tail(jobs)
           D == DueIn(jobs, d, max)
<1>1. /\ \A i \in DOMAIN q : i \in Nat /\ i >= 1 /\ i + 1 \in DOMAIN jobs
      /\ DueIn(q, d, max) = {i \in DOMAIN q : i + 1 \in D}
  BY TailDue
<1> HIDE DEF q, D
<1>2. D = {1} /\ Append(t, e) = p
  BY DEF Sends, D
<1>3. DueIn(q, d, max) = {}
  <2>1. \A i \in DOMAIN q : i + 1 # 1
    BY <1>1
  <2> QED BY <1>1, <1>2, <2>1
<1>4. Append(t, e) \in Seq(Payload)
  BY AppendProperties
<1>5. HeadOf(Append(t, e), Append(t, e))
  BY <1>4, HeadOfSelf
<1> QED BY <1>2, <1>3, <1>5 DEF Sends, q

\* Nothing is due and there is nothing to send to d.
LEMMA SendsNothing ==
  ASSUME NEW c, NEW d, NEW t, NEW p, NEW jobs, NEW max, NEW r, HeadOf(t, p), r => t = p,
         \A i \in DOMAIN jobs : jobs[i].to = d => ~(Len(jobs[i].frame) <= max)
  PROVE  Sends(c, d, t, p, jobs, max, r)
<1>1. DueIn(jobs, d, max) = {}
  BY DEF DueIn
<1> QED BY <1>1 DEF Sends

\* Before a handler reads, nothing is due.
LEMMA NothingDue ==
  ASSUME NEW c, NEW d, NEW t, NEW p, NEW max, NEW r, Sends(c, d, t, p, <<>>, max, r)
  PROVE  HeadOf(t, p) /\ (r => t = p)
<1>1. DOMAIN <<>> = {}
  OBVIOUS
<1> QED BY <1>1 DEF Sends

\* A relay to d among others.
LEMMA SendsNew ==
  ASSUME NEW c \in Conn, NEW d \in Conn, NEW t \in Seq(Payload), NEW p \in Seq(Payload), NEW line \in Payload,
         NEW max, NEW r,
         NEW C \in SUBSET Conn, r => d \in C, NEW frame \in Payload, frame = Prefix[c] \o line,
         Len(frame) <= max, NEW jobs \in Broadcasts(C, frame), HeadOf(t, p), r => t = p
  PROVE  Sends(c, d, t, Append(p, line), jobs, max, r)
<1>1. Rest(c, frame) = line
  BY PrefixedLine
<1>2. /\ \A i \in DOMAIN jobs : jobs[i].frame = frame
      /\ \A b \in C : \E i \in DOMAIN jobs : {j \in DOMAIN jobs : jobs[j].to = b} = {i}
  BY BroadcastFacts
<1>3. HeadOf(p, Append(p, line)) /\ Append(p, line) \in Seq(Payload)
  BY HeadOfSelf, AppendProperties
<1>4. HeadOf(t, Append(p, line))
  BY <1>3, HeadsFollow
<1>5. ASSUME r PROVE \E i \in DOMAIN jobs : DueIn(jobs, d, max) = {i} /\ Append(t, Rest(c, jobs[i].frame)) = Append(p, line)
  <2>1. PICK i \in DOMAIN jobs : {j \in DOMAIN jobs : jobs[j].to = d} = {i}
    BY <1>2, <1>5
  <2>2. \A j \in DOMAIN jobs : Len(jobs[j].frame) <= max
    BY <1>2
  <2>3. DueIn(jobs, d, max) = {j \in DOMAIN jobs : jobs[j].to = d}
    BY <2>2 DEF DueIn
  <2>4. jobs[i].frame = frame
    BY <1>2
  <2> QED BY <1>1, <1>5, <2>1, <2>3, <2>4
<1> QED BY <1>4, <1>5 DEF Sends

RelaysOf(c, d) ==
  /\ since[d][c] <= Len(got[Up(c)])
  /\ Sends(c, d, TextsIn(c, sent[Down(d)]), Plan(c, d), todo[c], limits.server, Reached(d))

LEMMA ReachedStays ==
  ASSUME LineTypeOK, [Next]_vars, NEW d \in Conn, ~Accept(d)
  PROVE  Reached(d)' => Reached(d)
<1>1. (serving'[d] = "accepted") = (serving[d] = "accepted")
  BY StaysAccepted
<1>2. /\ closed[d] => closed'[d]
      /\ serving'[d] = "serving" => serving[d] \in {"accepted", "serving"}
      /\ serving'[d] = "leaving" => serving[d] \in {"serving", "leaving"}
  BY ClosedStays
<1> QED BY <1>1, <1>2 DEF Reached

LEMMA SinceStays ==
  ASSUME LineInv, LinkInv, [Next]_vars, NEW d \in Conn, ~Accept(d)
  PROVE  since'[d] = since[d]
<1>0. LineTypeOK /\ since \in [Conn -> [Conn -> Nat]]
  BY DEF LineInv, LineTypeOK
<1>1. CASE UNCHANGED vars
  BY <1>1 DEF vars, serverVars
<1>2. ASSUME NEW b \in Conn, Accept(b) PROVE since'[d] = since[d]
  <2>1. b # d /\ \E v : since' = [since EXCEPT ![b] = v]
    BY <1>2 DEF Accept
  <2> QED BY <1>0, <2>1
<1>3. ASSUME NEW b \in Conn, ServerReads(b) PROVE since' = since
  BY <1>3, ReadsMove
<1>4. ASSUME NEW b \in Conn, ServerAtEnd(b) \/ ServerSends(b) \/ Leave(b) PROVE since' = since
  BY <1>4 DEF ServerAtEnd, ServerSends, Leave
<1>5. ASSUME NEW b \in Conn, NEW text, GatewayQuiet(b) \/ Replay(b) \/ FromBrowser(b, text)
      PROVE  since' = since
  BY <1>5 DEF GatewayQuiet, Claimed, OnData, OnFrame, OnTooLarge, Discard, OnBackendClosed,
              OnClientClosed, BrowserLeaves, Replay, FromBrowser, serverVars
<1>6. CASE \E b \in Conn : ServerQuiet(b)
  BY <1>2, <1>3, <1>4, <1>6 DEF ServerQuiet
<1>7. CASE \E b \in Conn : GatewayQuiet(b)
  BY <1>5, <1>7
<1>8. CASE \E b \in Conn : Replay(b)
  BY <1>5, <1>8
<1>9. CASE \E b \in Conn, text \in Payload : FromBrowser(b, text)
  BY <1>5, <1>9
<1> QED BY <1>0, <1>1, <1>6, <1>7, <1>8, <1>9, Steps

\* Nothing happened that matters to these two.
LEMMA RelaySame ==
  ASSUME NEW c \in Conn, NEW d \in Conn, RelaysOf(c, d), limits' = limits,
         TextsIn(c, sent'[Down(d)]) = TextsIn(c, sent[Down(d)]), since'[d] = since[d],
         got'[Up(c)] = got[Up(c)], todo'[c] = todo[c], Reached(d)' => Reached(d)
  PROVE  RelaysOf(c, d)'
<1>1. Plan(c, d)' = Plan(c, d)
  BY DEF Plan
<1>2. Sends(c, d, TextsIn(c, sent'[Down(d)]), Plan(c, d)', todo'[c], limits'.server, Reached(d)')
  BY <1>1, SendsLess DEF RelaysOf
<1> QED BY <1>2 DEF RelaysOf

\* accept_one welcomes d.
LEMMA RelayAccept ==
  ASSUME LineInv, LinkInv, JobsFit, Greeted, NEW c \in Conn, NEW d \in Conn, c # d, Accept(d)
  PROVE  RelaysOf(c, d)'
<1>0. /\ sent \in [Stream -> Seq(Payload)] /\ got \in [Stream -> Seq(Payload)]
      /\ todo \in [Conn -> Seq([to : Conn, frame : Payload])]
      /\ since \in [Conn -> [Conn -> Nat]]
  BY DEF LineInv, LineTypeOK, LinkInv, LinkTypeOK
<1>s. Down(d) \in Stream /\ Up(c) \in Stream
  BY Streams
<1>1. /\ serving[d] = "accepted" /\ sent' = [sent EXCEPT ![Down(d)] = Append(@, Welcome)] /\ todo' = todo
      /\ got' = got /\ limits' = limits
      /\ since' = [since EXCEPT ![d] = [b \in Conn |-> Len(got[Up(b)])]]
  BY DEF Accept, Write
<1>2. since'[d][c] = Len(got'[Up(c)]) /\ Len(got'[Up(c)]) \in Nat
  BY <1>0, <1>1, <1>s
<1>3. TextsIn(c, sent'[Down(d)]) = <<>>
  <2>1. sent[Down(d)] = <<>>
    BY <1>1 DEF Greeted
  <2>e. <<>> \in Seq(Payload)
    OBVIOUS
  <2> PICK q \in Seq(Payload) : q = <<>>
    BY <2>e
  <2>2. sent'[Down(d)] = Append(q, Welcome)
    BY <1>0, <1>1, <1>s, <2>1
  <2>3. Welcome \in Payload /\ ~Begins(Welcome, Prefix[c])
    BY LineConstants, LinesDiffer
  <2>4. TextsIn(c, Append(q, Welcome)) = TextsIn(c, q)
    BY <2>3, TextsInGrow
  <2>5. TextsIn(c, q) = <<>>
    <3>1. FramesOf(c, q) \in SUBSET (1 .. Len(RestsOf(c, q))) /\ FramesOf(c, q) = {}
      BY DEF FramesOf
    <3>2. Cardinality(FramesOf(c, q)) = 0
      BY <3>1, FS_EmptySet
    <3>3. RestsOf(c, q) \in Seq(Payload)
      BY RestsSeq
    <3>4. TextsIn(c, q) \in Seq(Payload) /\ Len(TextsIn(c, q)) = 0
      BY <3>1, <3>2, <3>3, AtIsSeq DEF TextsIn
    <3> QED BY <3>4
  <2> QED BY <2>2, <2>4, <2>5
<1>4. Plan(c, d)' = <<>>
  <2>1. got'[Up(c)] \in Seq(Payload)
    BY <1>0, <1>1, <1>s
  <2> PICK texts \in Seq(Payload) : texts = got'[Up(c)]
    BY <2>1
  <2>2. Welcome \in Payload /\ Len(texts) \in Nat
    BY LineConstants
  <2> PICK max : max = limits'.server
    OBVIOUS
  <2> PICK k \in Nat : k = Len(texts)
    BY <2>2
  <2>n. RelaysNext(c, k, texts, Welcome, max)
    BY <2>2, RelaysGrow
  <2>3. Relays(c, Len(texts), texts, max) = <<>>
    BY <2>n DEF RelaysNext
  <2> QED BY <1>2, <2>3 DEF Plan
<1>5. \A i \in DOMAIN todo'[c] : todo'[c][i].to # d
  BY <1>1 DEF JobsFit
<1>6. HeadOf(<<>>, <<>>)
  <2>1. <<>> \in Seq(Payload)
    OBVIOUS
  <2> QED BY <2>1, HeadOfSelf
<1>7. Sends(c, d, <<>>, <<>>, todo'[c], limits'.server, Reached(d)')
  BY <1>5, <1>6, SendsNothing
<1> QED BY <1>2, <1>3, <1>4, <1>7 DEF RelaysOf

\* The handler of c reads.
LEMMA RelayRead ==
  ASSUME LineInv, LinkInv, NEW c \in Conn, NEW d \in Conn, c # d, RelaysOf(c, d), limits' = limits,
         ServerReads(c), Reached(d)' => Reached(d)
  PROVE  RelaysOf(c, d)'
<1>0. /\ sent \in [Stream -> Seq(Payload)] /\ got \in [Stream -> Seq(Payload)] /\ LineTypeOK
      /\ todo \in [Conn -> Seq([to : Conn, frame : Payload])]
      /\ since \in [Conn -> [Conn -> Nat]]
  BY DEF LineInv, LineTypeOK, LinkInv, LinkTypeOK
<1>s. Down(d) \in Stream /\ Up(c) \in Stream
  BY Streams
<1> DEFINE t == TextsIn(c, sent[Down(d)])
           p == Plan(c, d)
           max == limits.server
<1>1. /\ sent' = sent /\ since' = since /\ todo[c] = <<>>
      /\ \/ got' = got /\ UNCHANGED serverVars
         \/ got' = got /\ todo' = [todo EXCEPT ![c] = <<Job(c, Err)>>]
         \/ \E f \in Payload : got'[Up(c)] = Append(got[Up(c)], f) /\ HandleLine(c, f)
  BY ReadsMove
<1>2. HeadOf(t, p) /\ (Reached(d) => t = p)
  <2>1. Sends(c, d, t, p, <<>>, max, Reached(d))
    BY <1>1 DEF RelaysOf
  <2> HIDE DEF t, p, max
  <2> QED BY <2>1, NothingDue
<1>3. \A i \in DOMAIN <<Job(c, Err)>> : <<Job(c, Err)>>[i].to = c
  BY DEF Job
<1>4. CASE got' = got /\ todo'[c] \in {<<>>, <<Job(c, Err)>>}
  <2>1. Plan(c, d)' = p
    BY <1>1, <1>4 DEF Plan
  <2>2. \A i \in DOMAIN todo'[c] : todo'[c][i].to # d
    <3>1. DOMAIN <<>> = {}
      OBVIOUS
    <3> QED BY <1>3, <1>4, <3>1
  <2> HIDE DEF p
  <2>3. Sends(c, d, t, p, todo'[c], max, Reached(d)')
    <3> HIDE DEF t, max
    <3> QED BY <1>2, <2>2, SendsNothing
  <2>4. Sends(c, d, TextsIn(c, sent'[Down(d)]), Plan(c, d)', todo'[c], limits'.server, Reached(d)')
    BY <1>1, <2>1, <2>3
  <2> QED BY <1>1, <1>4, <2>4 DEF RelaysOf
<1>5. ASSUME NEW f \in Payload, got'[Up(c)] = Append(got[Up(c)], f), HandleLine(c, f)
      PROVE  RelaysOf(c, d)'
  <2> DEFINE line == Trim(f)
  <2>0. line \in Payload
    BY TrimmedIsPayload
  <2> PICK texts \in Seq(Payload) : texts = got[Up(c)]
    BY <1>0, <1>s
  <2> PICK k \in Nat : k = since[d][c]
    BY <1>0
  <2>1. Len(texts) \in Nat /\ k <= Len(texts) /\ Len(Append(texts, f)) = Len(texts) + 1
    BY AppendProperties DEF RelaysOf
  <2>2. /\ p = Relays(c, k, texts, max) /\ Plan(c, d)' = Relays(c, k, Append(texts, f), max)
        /\ since'[d][c] <= Len(got'[Up(c)])
    BY <1>1, <1>5, <2>1 DEF Plan
  <2> HIDE DEF t, p, max, line
  <2>3. /\ p \in Seq(Payload)
        /\ Goes(c, f, max) => Plan(c, d)' = Append(p, Trim(f))
        /\ ~Goes(c, f, max) => Plan(c, d)' = p
    <3> PICK m : m = max
      OBVIOUS
    <3>1. RelaysNext(c, k, texts, f, m)
      BY RelaysGrow
    <3> QED BY <2>1, <2>2, <3>1 DEF RelaysNext
  <2>4. t \in Seq(Payload)
    <3> PICK q \in Seq(Payload) : q = sent[Down(d)]
      BY <1>0, <1>s
    <3>1. TextsIn(c, q) \in Seq(Payload)
      BY TextsInGrow, LineConstants
    <3> QED BY <3>1 DEF t
  <2>5. \/ todo'[c] \in {<<>>, <<Job(c, Err)>>} /\ (line = <<>> \/ IsCommand(line))
        \/ /\ line # <<>> /\ ~IsCommand(line)
           /\ todo'[c] \in Broadcasts(Others(c), Prefix[c] \o line)
    BY <1>0, <1>1, <1>5 DEF HandleLine, IsExit, serverVars, line
  <2>6. PICK frame \in Payload : frame = Prefix[c] \o line
    BY <2>0, PrefixedLine
  <2>7. CASE Goes(c, f, max)
    <3>1. line # <<>> /\ ~IsCommand(line) /\ Len(frame) <= max
      BY <2>6, <2>7 DEF Goes, line
    <3>2. PICK jobs \in Broadcasts(Others(c), frame) : jobs = todo'[c]
      BY <2>5, <2>6, <3>1
    <3>3. Reached(d) => d \in Others(c)
      BY DEF Reached, Others
    <3>4. Others(c) \in SUBSET Conn
      BY DEF Others
    <3>5. Sends(c, d, t, Append(p, line), jobs, max, Reached(d))
      BY <1>2, <2>0, <2>3, <2>4, <2>6, <3>1, <3>3, <3>4, SendsNew
    <3>6. Sends(c, d, t, Append(p, line), jobs, max, Reached(d)')
      BY <3>5, SendsLess
    <3>7. Sends(c, d, TextsIn(c, sent'[Down(d)]), Plan(c, d)', todo'[c], limits'.server, Reached(d)')
      BY <1>1, <2>3, <2>7, <3>2, <3>6 DEF t, max, line
    <3> QED BY <2>2, <3>7 DEF RelaysOf
  <2>8. CASE ~Goes(c, f, max)
    <3>1. \A i \in DOMAIN todo'[c] : todo'[c][i].to = d => ~(Len(todo'[c][i].frame) <= max)
      <4>1. CASE todo'[c] \in {<<>>, <<Job(c, Err)>>}
        <5>1. DOMAIN <<>> = {}
          OBVIOUS
        <5> QED BY <1>3, <4>1, <5>1
      <4>2. CASE /\ line # <<>> /\ ~IsCommand(line)
                 /\ todo'[c] \in Broadcasts(Others(c), Prefix[c] \o line)
        <5>1. ~(Len(frame) <= max)
          BY <2>6, <2>8, <4>2 DEF Goes, line
        <5>2. PICK jobs \in Broadcasts(Others(c), frame) : jobs = todo'[c]
          BY <2>6, <4>2
        <5>3. Others(c) \in SUBSET Conn
          BY DEF Others
        <5>4. \A i \in DOMAIN jobs : jobs[i].frame = frame
          BY <5>3, BroadcastFacts
        <5> QED BY <5>1, <5>2, <5>4
      <4> QED BY <2>5, <4>1, <4>2
    <3>2. Sends(c, d, t, p, todo'[c], max, Reached(d)')
      BY <1>2, <3>1, SendsNothing
    <3>3. Sends(c, d, TextsIn(c, sent'[Down(d)]), Plan(c, d)', todo'[c], limits'.server, Reached(d)')
      BY <1>1, <2>3, <2>8, <3>2 DEF t, max
    <3> QED BY <2>2, <3>3 DEF RelaysOf
  <2> QED BY <2>7, <2>8
<1>6. todo'[c] \in {<<>>, <<Job(c, Err)>>} \/ ~(UNCHANGED serverVars \/ todo' = [todo EXCEPT ![c] = <<Job(c, Err)>>])
  BY <1>0, <1>1 DEF serverVars
<1> QED BY <1>1, <1>4, <1>5, <1>6

\* send_frame writes what is within the limit to a connection that is open.
LEMMA FitsBelow ==
  ASSUME NEW n \in Nat, NEW m \in Nat, n <= m, Fits(m)
  PROVE  Fits(n)
<1>1. ASSUME NEW a \in Nat, NEW b \in Nat, a <= b
      PROVE  Shift(a) \in Nat /\ Shift(b) \in Nat /\ Shift(a) <= Shift(b)
  BY <1>1 DEF Shift
<1>2. PICK a1 \in Nat, b1 \in Nat : a1 = Shift(n) /\ b1 = Shift(m) /\ a1 <= b1
  BY <1>1
<1>3. PICK a2 \in Nat, b2 \in Nat : a2 = Shift(a1) /\ b2 = Shift(b1) /\ a2 <= b2
  BY <1>1, <1>2
<1>4. Shift(a2) \in Nat /\ Shift(b2) \in Nat /\ Shift(a2) <= Shift(b2)
  BY <1>1, <1>3
<1>5. Shift(b2) < 256
  BY <1>2, <1>3 DEF Fits
<1>6. Shift(a2) < 256
  BY <1>4, <1>5
<1> QED BY <1>2, <1>3, <1>6 DEF Fits

LEMMA WhoIsReached ==
  ASSUME LineInv, LinkInv, LimitsHold, NEW d \in Conn, serving[d] # "accepted",
         NEW job, job.to = d, job.frame \in Payload
  PROVE  Reaches(job) <=> Reached(d) /\ Len(job.frame) <= limits.server
<1>0. /\ serving[d] \in {"accepted", "serving", "leaving", "gone"} /\ closed[d] \in BOOLEAN
      /\ limits.server \in Nat
  BY DEF LineInv, LineTypeOK, LinkInv, LinkTypeOK
<1>1. Down(d) \in Stream /\ ~IsUp(Down(d)) /\ <<Down(d)[1], Other(Down(d)[2])>> = Up(d)
  BY Streams DEF Down, Up, Other
<1>2. ended[Up(d)] = closed[d] /\ ended[Down(d)] = (serving[d] = "gone")
  BY DEF LineInv, EndsMatch
<1>3. phase[Down(d)] = "closed" <=> closed[d]
  BY <1>1, <1>2 DEF LimitsHold
<1>4. Reached(d) <=> ~ended[Down(d)] /\ phase[Down(d)] # "closed"
  BY <1>0, <1>2, <1>3 DEF Reached
<1>5. PICK n \in Nat : n = Len(job.frame)
  BY DEF Payload
<1>6. n <= limits.server => Fits(n)
  <2>1. limits.server <= MaxLimit /\ Fits(MaxLimit) /\ MaxLimit \in Nat
    BY LinesDiffer, LineConstants DEF LimitsHold
  <2>2. n <= limits.server => n <= MaxLimit
    BY <1>0, <2>1
  <2> QED BY <2>1, <2>2, FitsBelow
<1>7. MayWrite(Down(d), job.frame) <=> ~ended[Down(d)] /\ n <= limits.server
  BY <1>1, <1>5, <1>6 DEF MayWrite
<1> QED BY <1>4, <1>5, <1>7 DEF Reaches

\* The handler of c sends its next frame.
LEMMA RelaySent ==
  ASSUME LineInv, LinkInv, LimitsHold, JobsFit, NEW c \in Conn, NEW d \in Conn, c # d, RelaysOf(c, d),
         ServerSends(c), Reached(d)' => Reached(d)
  PROVE  RelaysOf(c, d)'
<1>0. /\ LineTypeOK /\ sent \in [Stream -> Seq(Payload)]
      /\ todo[c] \in Seq(AJob) /\ todo \in [Conn -> Seq(AJob)]
  BY DEF LineInv, LineTypeOK, LinkInv, LinkTypeOK, AJob
<1>s. Down(d) \in Stream /\ \A b \in Conn : Down(b) \in Stream /\ (Down(b) = Down(d) => b = d)
  BY Streams
<1> DEFINE t == TextsIn(c, sent[Down(d)])
           p == Plan(c, d)
           jobs == todo[c]
           max == limits.server
           job == Head(todo[c])
<1>1. /\ todo[c] # <<>> /\ todo' = [todo EXCEPT ![c] = Tail(@)] /\ UNCHANGED <<serving, since>>
      /\ \/ Reaches(job) /\ Write(Down(job.to), job.frame)
         \/ ~Reaches(job) /\ UNCHANGED linkVars
  BY DEF ServerSends
<1>2. /\ job.to \in Conn /\ job.frame \in Payload /\ serving[job.to] # "accepted"
      /\ \/ job.to # c /\ Begins(job.frame, Prefix[c])
         \/ job.to = c /\ job.frame = Err
  BY <1>0, <1>1, JobsAreNotWelcome
<1>3. todo'[c] = Tail(jobs) /\ got' = got /\ limits' = limits /\ since' = since
  BY <1>0, <1>1 DEF Write, linkVars
<1>4. Plan(c, d)' = p
  BY <1>3 DEF Plan
<1>5. 1 \in DueIn(jobs, d, max) <=> job.to = d /\ Len(job.frame) <= max
  <2>1. 1 \in DOMAIN jobs /\ job = jobs[1]
    BY <1>0, <1>1, TailDue
  <2> QED BY <2>1 DEF DueIn
<1>6. Sends(c, d, t, p, jobs, max, Reached(d)) /\ jobs \in Seq(AJob) /\ jobs # <<>>
      /\ since'[d][c] <= Len(got'[Up(c)])
  BY <1>0, <1>1, <1>3 DEF RelaysOf
<1>7. t \in Seq(Payload)
  <2> PICK q \in Seq(Payload) : q = sent[Down(d)]
    BY <1>0, <1>s
  <2>1. TextsIn(c, q) \in Seq(Payload)
    BY TextsInGrow, LineConstants
  <2> QED BY <2>1
<1>8. ASSUME NEW u, u = TextsIn(c, sent'[Down(d)]),
             Sends(c, d, u, p, Tail(jobs), max, Reached(d)) \/ Sends(c, d, u, p, Tail(jobs), max, Reached(d)')
      PROVE  RelaysOf(c, d)'
  <2>1. Sends(c, d, u, p, Tail(jobs), max, Reached(d)')
    <3> HIDE DEF t, p, jobs, max
    <3> QED BY <1>8, SendsLess
  <2> QED BY <1>3, <1>4, <1>6, <1>8, <2>1 DEF RelaysOf
<1>9. CASE 1 \notin DueIn(jobs, d, max) /\ sent'[Down(d)] = sent[Down(d)]
  <2>1. Sends(c, d, t, p, Tail(jobs), max, Reached(d))
    <3> HIDE DEF t, p, jobs, max
    <3> QED BY <1>6, <1>9, SendsSkip
  <2>2. t = TextsIn(c, sent'[Down(d)])
    BY <1>9
  <2> QED BY <1>8, <2>1, <2>2
<1>10. CASE job.to # d
  <2>1. sent'[Down(d)] = sent[Down(d)]
    <3>1. CASE UNCHANGED linkVars
      BY <3>1 DEF linkVars
    <3>2. CASE Write(Down(job.to), job.frame)
      <4>1. sent' = [sent EXCEPT ![Down(job.to)] = Append(@, job.frame)]
        BY <3>2 DEF Write
      <4>2. Down(job.to) # Down(d)
        BY <1>2, <1>10, <1>s
      <4> QED BY <1>0, <1>s, <4>1, <4>2
    <3> QED BY <1>1, <3>1, <3>2
  <2> QED BY <1>5, <1>9, <1>10, <2>1
<1>11. CASE job.to = d /\ Len(job.frame) <= max /\ Reached(d)
  <2>1. Reaches(job)
    BY <1>2, <1>11, WhoIsReached
  <2>2. sent' = [sent EXCEPT ![Down(d)] = Append(@, job.frame)]
    BY <1>1, <1>11, <2>1 DEF Write
  <2>3. Begins(job.frame, Prefix[c])
    BY <1>2, <1>11
  <2> PICK f \in Payload : f = job.frame
    BY <1>2
  <2> PICK q \in Seq(Payload) : q = sent[Down(d)]
    BY <1>0, <1>s
  <2>4. /\ TextsIn(c, Append(q, f)) = Append(TextsIn(c, q), Rest(c, f)) /\ Rest(c, f) \in Payload
    BY <2>3, TextsInGrow
  <2> PICK e \in Payload : e = Rest(c, f)
    BY <2>4
  <2>5. TextsIn(c, sent'[Down(d)]) = Append(t, e)
    BY <1>0, <1>s, <2>2, <2>4
  <2>6. e = Rest(c, jobs[1].frame) /\ 1 \in DueIn(jobs, d, max)
    BY <1>0, <1>1, <1>5, <1>11, TailDue
  <2>7. Sends(c, d, t, p, jobs, max, TRUE)
    <3> HIDE DEF t, p, jobs, max
    <3> QED BY <1>6, <1>11, SendsLess
  <2>8. Sends(c, d, Append(t, e), p, Tail(jobs), max, Reached(d)')
    <3> HIDE DEF t, p, jobs, max
    <3> QED BY <1>6, <1>7, <2>6, <2>7, SendsOne
  <2> QED BY <1>8, <2>5, <2>8
<1>12. CASE job.to = d /\ ~(Len(job.frame) <= max /\ Reached(d))
  <2>1. ~Reaches(job)
    BY <1>2, <1>12, WhoIsReached
  <2>2. sent'[Down(d)] = sent[Down(d)]
    BY <1>1, <2>1 DEF linkVars
  <2>3. CASE ~(Len(job.frame) <= max)
    BY <1>5, <1>9, <2>2, <2>3
  <2>4. CASE ~Reached(d)
    <3>1. Sends(c, d, t, p, Tail(jobs), max, Reached(d))
      <4> HIDE DEF t, p, jobs, max
      <4> QED BY <1>6, <2>4 DEF Sends
    <3>2. t = TextsIn(c, sent'[Down(d)])
      BY <2>2
    <3> QED BY <1>8, <3>1, <3>2
  <2> QED BY <1>12, <2>3, <2>4
<1> QED BY <1>10, <1>11, <1>12

LEMMA RelaysOnStep ==
  ASSUME LineInv, LinkInv, LimitsHold, JobsFit, Greeted, RelaysOn, [Next]_vars
  PROVE  RelaysOn'
<1>0. LineTypeOK /\ LinkTypeOK /\ sent \in [Stream -> Seq(Payload)]
  BY DEF LineInv, LinkInv, LinkTypeOK
<1>l. limits' = limits
  BY <1>0, LineStepIsLinkStep, SettingsStay
<1> SUFFICES ASSUME NEW c \in Conn, NEW d \in Conn, c # d PROVE RelaysOf(c, d)'
  BY DEF RelaysOn, RelaysOf
<1>1. RelaysOf(c, d)
  BY DEF RelaysOn, RelaysOf
<1>s. /\ Up(c) \in Stream /\ Down(d) \in Stream
      /\ \A b \in Conn : Up(b) \in Stream /\ Down(b) \in Stream /\ Up(c) # Down(b) /\ (Up(b) = Up(c) => b = c)
  BY Streams
<1>2. CASE Accept(d)
  BY <1>2, RelayAccept
<1>3. CASE ~Accept(d) /\ ServerReads(c)
  BY <1>0, <1>1, <1>3, <1>l, ReachedStays, RelayRead
<1>4. CASE ~Accept(d) /\ ServerSends(c)
  BY <1>0, <1>1, <1>4, ReachedStays, RelaySent
<1>5. CASE ~Accept(d) /\ ~ServerReads(c) /\ ~ServerSends(c)
  <2>1. todo'[c] = todo[c]
    BY <1>5, TodoMoves
  <2>2. got'[Up(c)] = got[Up(c)]
    <3>1. ASSUME NEW b \in Conn, ServerReads(b), DeliversNext(Up(b)) PROVE got'[Up(c)] = got[Up(c)]
      <4>1. Up(b) # Up(c)
        BY <1>5, <1>s, <3>1
      <4> QED BY <1>s, <3>1, <4>1, Delivered
    <3>2. ASSUME NEW b \in Conn, DeliversNext(Down(b)) PROVE got'[Up(c)] = got[Up(c)]
      BY <1>s, <3>2, Delivered
    <3> QED BY <3>1, <3>2, GotMoves
  <2>3. TextsIn(c, sent'[Down(d)]) = TextsIn(c, sent[Down(d)])
    <3>1. ASSUME NEW b \in Conn, ServerSends(b), todo[b] # <<>>,
                 sent'[Down(d)] = Append(sent[Down(d)], Head(todo[b]).frame)
          PROVE  TextsIn(c, sent'[Down(d)]) = TextsIn(c, sent[Down(d)])
      <4>1. b # c
        BY <1>5, <3>1
      <4>2. Head(todo[b]).frame \in Payload
            /\ (Begins(Head(todo[b]).frame, Prefix[b]) \/ Head(todo[b]).frame = Err)
        BY <1>0, <3>1, JobsAreNotWelcome
      <4> PICK f \in Payload : f = Head(todo[b]).frame
        BY <4>2
      <4>3. ~Begins(f, Prefix[c])
        BY <4>1, <4>2, OnePrefix, LinesDiffer
      <4> PICK q \in Seq(Payload) : q = sent[Down(d)]
        BY <1>0, <1>s
      <4>4. TextsIn(c, Append(q, f)) = TextsIn(c, q)
        BY <4>3, TextsInGrow
      <4> QED BY <3>1, <4>4
    <3> QED BY <1>5, <3>1, DownMoves
  <2>4. since'[d] = since[d] /\ (Reached(d)' => Reached(d))
    BY <1>0, <1>5, SinceStays, ReachedStays
  <2> QED BY <1>1, <1>l, <2>1, <2>2, <2>3, <2>4, RelaySame
<1> QED BY <1>2, <1>3, <1>4, <1>5
-------------------------------------------------------------------------------
(* The invariant.                                                          *)
LEMMA NothingAt ==
  ASSUME NEW s \in Seq(Payload), NEW I \in SUBSET (1 .. Len(s)), Len(s) = 0
  PROVE  At(s, I) = <<>>
<1>1. 1 .. Len(s) = {}
  OBVIOUS
<1>2. I = {}
  BY <1>1
<1>3. At(s, I) \in Seq(Payload) /\ Len(At(s, I)) = Cardinality(I)
  BY AtIsSeq
<1>4. Cardinality(I) = 0
  BY <1>2, FS_EmptySet
<1> QED BY <1>3, <1>4

LEMMA NothingYet ==
  ASSUME NEW c \in Conn
  PROVE  /\ TextsBy(c, <<>>) = <<>> /\ TextsIn(c, <<>>) = <<>>
         /\ \A max : Relays(c, 0, <<>>, max) = <<>>
         /\ typed = <<>> => \A w : TypedWhen(c, w) = <<>>
<1> PICK q \in Seq(Payload) : q = <<>>
  <2>1. <<>> \in Seq(Payload)
    OBVIOUS
  <2> QED BY <2>1
<1>1. DOMAIN <<>> = {} /\ Len(q) = 0 /\ DOMAIN q = {}
  OBVIOUS
<1>2. TextsOf(<<>>) = <<>>
  BY <1>1 DEF TextsOf
<1>3. At(q, {}) = <<>>
  BY NothingAt
<1>4. TextsBy(c, <<>>) = <<>> /\ (typed = <<>> => \A w : TypedWhen(c, w) = <<>>)
  <2>1. {i \in DOMAIN <<>> : <<>>[i].by = c} = {}
    BY <1>1
  <2>2. \A w : {i \in DOMAIN <<>> : <<>>[i].by = c /\ <<>>[i].when = w} = {}
    BY <1>1
  <2> QED BY <1>2, <1>3, <2>1, <2>2 DEF TextsBy, TypedWhen
<1>5. TextsIn(c, <<>>) = <<>>
  <2>1. RestsOf(c, q) \in Seq(Payload) /\ Len(RestsOf(c, q)) = 0
    BY <1>1, RestsSeq
  <2>2. FramesOf(c, q) = {}
    BY <1>1 DEF FramesOf
  <2>3. At(RestsOf(c, q), {}) = <<>>
    BY <2>1, NothingAt
  <2> QED BY <2>2, <2>3 DEF TextsIn
<1>6. ASSUME NEW max PROVE Relays(c, 0, <<>>, max) = <<>>
  <2>1. Trimmed(q) \in Seq(Payload) /\ Len(Trimmed(q)) = 0
    BY <1>1, TrimmedSeq
  <2>2. Going(c, 0, q, max) = {}
    BY <1>1 DEF Going
  <2>3. At(Trimmed(q), {}) = <<>>
    BY <2>1, NothingAt
  <2> QED BY <2>2, <2>3 DEF Relays
<1> QED BY <1>4, <1>5, <1>6

LEMMA RelayInit ==
  ASSUME Init
  PROVE  RelayInv
<1>0. /\ \A c \in Conn : Up(c) \in Stream /\ Down(c) \in Stream
      /\ \A s \in Stream : s[1] \in Conn /\ <<s[1], Other(s[2])>> \in Stream
  BY Streams DEF Stream, Other
<1>1. /\ setup \in Setups /\ LinkInit
      /\ limits = [server |-> LoadConfig(setup.conf), gateway |-> IntFromEnv(setup.env)]
  BY DEF Init
<1>2. \A s \in Stream : /\ sent[s] = <<>> /\ got[s] = <<>> /\ phase[s] = "head" /\ ~ended[s]
  BY <1>1 DEF LinkInit
<1>3. \A c \in Conn : /\ ws[c] = "open" /\ closed[c] = FALSE /\ ready[c] = "no" /\ pending[c] = <<>>
                      /\ page[c] = <<>> /\ serving[c] = "accepted" /\ todo[c] = <<>>
                      /\ \A d \in Conn : since[c][d] = 0
  BY DEF Init
<1>4. messages = <<>> /\ typed = <<>>
  BY DEF Init
<1>n. DOMAIN <<>> = {} /\ Len(<<>>) = 0 /\ 1 .. 0 = {}
  OBVIOUS
<1>h. HeadOf(<<>>, <<>>)
  BY <1>n DEF HeadOf
<1>5. LimitsHold
  <2>1. limits.server <= MaxLimit
    BY <1>1, LimitsAreNumbers
  <2> QED BY <1>0, <1>2, <1>n, <2>1 DEF LimitsHold
<1>6. SentOn
  BY <1>0, <1>2, <1>4, <1>h, NothingYet DEF SentOn
<1>7. ExitsLast /\ JobsFit
  BY <1>0, <1>2, <1>3, <1>n DEF ExitsLast, JobsFit
<1>8. Greeted
  BY <1>0, <1>2, <1>3, <1>n DEF Greeted
<1>9. RelaysOn
  <2> SUFFICES ASSUME NEW c \in Conn, NEW d \in Conn PROVE RelaysOf(c, d)
    BY DEF RelaysOn, RelaysOf
  <2>1. since[d][c] = 0 /\ got[Up(c)] = <<>> /\ todo[c] = <<>> /\ sent[Down(d)] = <<>>
    BY <1>0, <1>2, <1>3
  <2>2. Plan(c, d) = <<>> /\ TextsIn(c, sent[Down(d)]) = <<>>
    BY <2>1, NothingYet DEF Plan
  <2>3. Sends(c, d, <<>>, <<>>, <<>>, limits.server, Reached(d))
    BY <1>n, <1>h, SendsNothing
  <2> QED BY <1>n, <2>1, <2>2, <2>3 DEF RelaysOf
<1>10. PagesOn
  BY <1>0, <1>2, <1>3, <1>h, NothingYet DEF PagesOn
<1>11. StoredOn
  BY <1>3, <1>4, NothingYet DEF StoredOn
<1> QED BY <1>5, <1>6, <1>7, <1>8, <1>9, <1>10, <1>11 DEF RelayInv

LEMMA RelayStep ==
  ASSUME LineInv, LinkInv, RelayInv, [Next]_vars
  PROVE  RelayInv'
<1>1. /\ LimitsHold /\ SentOn /\ ExitsLast /\ JobsFit
      /\ Greeted /\ RelaysOn /\ PagesOn /\ StoredOn
  BY DEF RelayInv
<1>2. LineInv' /\ LinkInv' /\ [LinkNext]_linkVars
  BY LineStep
<1>3. LimitsHold'
  BY <1>1, <1>2, LimitsHoldStep
<1>4. SentOn' /\ StoredOn'
  BY <1>1, SentOnStep, StoredOnStep
<1>5. ExitsLast' /\ JobsFit'
  BY <1>1, <1>2, ExitsLastStep, JobsFitStep
<1>6. Greeted'
  BY <1>1, GreetedStep
<1>7. RelaysOn'
  BY <1>1, RelaysOnStep
<1>8. PagesOn'
  BY <1>1, PagesOnStep
<1> QED BY <1>3, <1>4, <1>5, <1>6, <1>7, <1>8 DEF RelayInv

LEMMA RelayInductive == Spec => [](LineInv /\ LinkInv /\ RelayInv)
<1>1. Init => LineInv /\ LinkInv /\ RelayInv
  BY LineInit, RelayInit
<1>2. LineInv /\ LinkInv /\ RelayInv /\ [Next]_vars => (LineInv /\ LinkInv /\ RelayInv)'
  BY LineStep, RelayStep
<1> QED BY <1>1, <1>2, PTL DEF Spec

\* Every text a browser sends is stored once, or waits in the queue, in the
\* order in which they were typed but for those of the claim, which pass the
\* queue (onClientRaw and announceReady, gatewayServer.ts:141).
THEOREM TextsAreStored == Spec => []TypedIsStored
<1>1. LineInv /\ StoredOn => TypedIsStored
  <2> SUFFICES ASSUME LineInv, StoredOn, NEW c \in Conn
               PROVE  TextsBy(c, messages) \o pending[c] =
                        (TypedWhen(c, "claiming") \o TypedWhen(c, "no")) \o TypedWhen(c, "yes")
    BY DEF TypedIsStored
  <2>1. TextsBy(c, messages) \in Seq(Payload) /\ pending[c] \in Seq(Payload)
    <3>1. messages \in Seq(Row) /\ pending \in [Conn -> Seq(Payload)]
      BY DEF LineInv, LineTypeOK, Log, Row
    <3> QED BY <3>1, TextsByGrows
  <2>2. CASE ready[c] = "yes"
    BY <2>2 DEF StoredOn
  <2>3. CASE ready[c] # "yes"
    <3>1. /\ TextsBy(c, messages) = TypedWhen(c, "claiming")
          /\ pending[c] = TypedWhen(c, "no") /\ TypedWhen(c, "yes") = <<>>
      BY <2>3 DEF StoredOn
    <3>2. TextsBy(c, messages) \o pending[c] = (TextsBy(c, messages) \o pending[c]) \o <<>>
      BY <2>1
    <3> QED BY <3>1, <3>2
  <2> QED BY <2>2, <2>3
<1>2. RelayInv => StoredOn
  BY DEF RelayInv
<1> QED BY <1>1, <1>2, RelayInductive, PTL
-------------------------------------------------------------------------------
(* From the invariant to the pages.                                        *)

\* What is said in the first frames begins what is said in all.
LEMMA TextsInHead ==
  ASSUME NEW c \in Conn, NEW g \in Seq(Payload), NEW s \in Seq(Payload), HeadOf(g, s)
  PROVE  HeadOf(TextsIn(c, g), TextsIn(c, s))
<1> DEFINE u == RestsOf(c, g)
           v == RestsOf(c, s)
           I == FramesOf(c, g)
           J == FramesOf(c, s)
<1>1. /\ u \in Seq(Payload) /\ Len(u) = Len(g) /\ \A i \in 1 .. Len(g) : u[i] = Rest(c, g[i])
      /\ v \in Seq(Payload) /\ Len(v) = Len(s) /\ \A i \in 1 .. Len(s) : v[i] = Rest(c, s[i])
  BY RestsSeq
<1>2. /\ Len(g) \in Nat /\ Len(s) \in Nat /\ Len(g) <= Len(s) /\ DOMAIN g = 1 .. Len(g)
      /\ DOMAIN s = 1 .. Len(s) /\ \A i \in 1 .. Len(g) : g[i] = s[i] /\ i \in 1 .. Len(s)
  BY DEF HeadOf
<1>3. HeadOf(u, v)
  <2>1. \A i \in 1 .. Len(u) : u[i] = v[i]
    BY <1>1, <1>2
  <2>2. Len(u) <= Len(v)
    BY <1>1, <1>2
  <2> HIDE DEF u, v
  <2> QED BY <2>1, <2>2 DEF HeadOf
<1>4. J \in SUBSET (1 .. Len(v)) /\ I = {i \in J : i <= Len(u)}
  <2>1. \A i \in J : i \in 1 .. Len(s)
    BY <1>2 DEF FramesOf
  <2>2. \A i \in I : i \in J /\ i <= Len(g)
    BY <1>2 DEF FramesOf
  <2>3. \A i \in J : i <= Len(g) => i \in I
    BY <1>2, <2>1 DEF FramesOf
  <2> HIDE DEF I, J, u, v
  <2> QED BY <1>1, <2>1, <2>2, <2>3
<1> HIDE DEF u, v, I, J
<1>5. HeadOf(At(u, I), At(v, J))
  BY <1>1, <1>3, <1>4, AtPrefix
<1> QED BY <1>5 DEF TextsIn, u, v, I, J

\* What a handler relays of the lines it has read begins what is to be relayed
\* of all that was stored.
LEMMA PlanHead ==
  ASSUME LineInv, LinkInv, LimitsHold, ExitsLast, SentOn, NEW c \in Conn, NEW d \in Conn
  PROVE  HeadOf(Plan(c, d), Relayed(c, d)) /\ Plan(c, d) \in Seq(Payload) /\ Relayed(c, d) \in Seq(Payload)
<1>0. /\ messages \in Seq(Row) /\ got[Up(c)] \in Seq(Payload) /\ sent[Up(c)] \in Seq(Payload)
      /\ Up(c) \in Stream /\ IsUp(Up(c)) /\ since[d][c] \in Nat /\ limits.server \in Nat
  BY Streams DEF LineInv, LineTypeOK, Log, Row, LinkInv, LinkTypeOK
<1> PICK all \in Seq(Payload) : all = TextsBy(c, messages)
  BY <1>0, TextsByGrows
<1> PICK texts \in Seq(Payload) : texts = got[Up(c)]
  BY <1>0
<1> PICK k \in Nat, max \in Nat : k = since[d][c] /\ max = limits.server
  BY <1>0
<1> DEFINE I == Going(c, k, texts, max)
           J == Carried(c, d, all)
           u == Trimmed(texts)
           v == Trimmed(all)
<1>1. HeadOf(texts, all)
  <2>1. HeadOf(got[Up(c)], sent[Up(c)])
    BY <1>0 DEF LinkInv, Given, HeadOf
  <2>2. HeadOf(sent[Up(c)], all)
    BY DEF SentOn
  <2> QED BY <1>0, <2>1, <2>2, HeadsFollow
<1>2. /\ Len(texts) \in Nat /\ Len(all) \in Nat /\ Len(texts) <= Len(all)
      /\ DOMAIN texts = 1 .. Len(texts) /\ DOMAIN all = 1 .. Len(all)
      /\ \A i \in 1 .. Len(texts) : texts[i] = all[i] /\ i \in 1 .. Len(all)
  BY <1>1 DEF HeadOf
<1>3. /\ u \in Seq(Payload) /\ Len(u) = Len(texts) /\ \A i \in 1 .. Len(texts) : u[i] = Trim(texts[i])
      /\ v \in Seq(Payload) /\ Len(v) = Len(all) /\ \A i \in 1 .. Len(all) : v[i] = Trim(all[i])
  BY TrimmedSeq
<1>4. \A i \in 1 .. Len(texts) : ~Refused(all[i])
  <2>1. \A i \in 1 .. Len(texts) : Len(texts[i]) <= max
    BY <1>0 DEF LimitsHold, ReadLimit
  <2>2. \A i \in 1 .. Len(texts) : Len(all[i]) <= max /\ Len(all[i]) \in Nat
    <3> SUFFICES ASSUME NEW i \in 1 .. Len(texts) PROVE Len(all[i]) <= max /\ Len(all[i]) \in Nat
      OBVIOUS
    <3>1. texts[i] \in Payload
      BY ElementOfSeq
    <3>2. Len(texts[i]) \in Nat
      BY <3>1 DEF Payload
    <3> QED BY <1>2, <2>1, <3>2
  <2> QED BY <2>2 DEF Refused
<1>5. \A i \in 1 .. Len(texts) : IsExit(Trim(all[i])) => i = Len(texts)
  BY <1>2 DEF ExitsLast
<1>6. \A i \in 1 .. Len(texts) : i \in I <=> k < i /\ Goes(c, all[i], max)
  BY <1>2 DEF Going
<1>7. \A i \in 1 .. Len(all) :
        i \in J <=> k < i /\ IsRelayed(c, all[i]) /\ \A j \in 1 .. i : ~Ends(all[j])
  BY <1>2 DEF Carried
<1>8. \A i \in 1 .. Len(texts) : IsRelayed(c, all[i]) <=> Goes(c, all[i], max)
  BY <1>4 DEF IsRelayed, Goes
<1>9. ASSUME NEW i \in 1 .. Len(texts), Goes(c, all[i], max), NEW j \in 1 .. i
      PROVE  ~Ends(all[j])
  <2>1. j \in 1 .. Len(texts)
    BY <1>2
  <2>2. ASSUME IsExit(Trim(all[j])) PROVE FALSE
    <3>1. j = Len(texts)
      BY <1>5, <2>1, <2>2
    <3>2. i = j
      BY <1>2, <3>1
    <3>3. ~IsCommand(Trim(all[j]))
      BY <1>9, <3>2 DEF Goes
    <3> QED BY <2>2, <3>3 DEF IsExit
  <2> QED BY <1>4, <2>1, <2>2 DEF Ends
<1>10. \A i \in 1 .. Len(texts) : i \in J <=> i \in I
  <2> HIDE DEF I, J
  <2> QED BY <1>2, <1>6, <1>7, <1>8, <1>9
<1>11. J \in SUBSET (1 .. Len(v)) /\ I = {i \in J : i <= Len(u)}
  <2>1. \A i \in J : i \in 1 .. Len(all)
    BY <1>2 DEF Carried
  <2>2. \A i \in I : i \in 1 .. Len(texts)
    BY <1>2 DEF Going
  <2>3. \A i \in J : i <= Len(texts) => i \in 1 .. Len(texts)
    BY <1>2, <2>1
  <2>4. \A i \in I : i <= Len(texts)
    BY <1>2, <2>2
  <2> HIDE DEF I, J, u, v
  <2> QED BY <1>3, <1>10, <2>1, <2>2, <2>3, <2>4
<1> HIDE DEF I, J, u, v
<1>12. HeadOf(At(u, I), At(v, J)) /\ I \in SUBSET (1 .. Len(u))
  <2>1. HeadOf(u, v)
    <3>1. \A i \in 1 .. Len(u) : u[i] = v[i]
      BY <1>2, <1>3
    <3>2. Len(u) <= Len(v)
      BY <1>2, <1>3
    <3> QED BY <3>1, <3>2 DEF HeadOf
  <2> QED BY <1>3, <1>11, <2>1, AtPrefix
<1>13. Plan(c, d) = At(u, I)
  BY DEF Plan, Relays, u, I
<1>14. Relayed(c, d) = At(v, J)
  <2>1. J \in SUBSET (1 .. Len(all))
    BY <1>3, <1>11
  <2>2. /\ At(all, J) \in Seq(Payload) /\ Len(At(all, J)) = Cardinality(J) /\ Cardinality(J) \in Nat
        /\ At(v, J) \in Seq(Payload) /\ Len(At(v, J)) = Cardinality(J)
    BY <1>3, <1>11, <2>1, AtIsSeq
  <2>3. \A i \in 1 .. Cardinality(J) : Place(J, i) \in 1 .. Len(all)
    <3>1. \A i \in 1 .. Cardinality(J) : Place(J, i) \in J
      BY <1>2, <2>1, Places
    <3> QED BY <2>1, <3>1
  <2>4. \A i \in 1 .. Cardinality(J) : Trim(At(all, J)[i]) = At(v, J)[i]
    BY <1>3, <2>3 DEF At
  <2>5. Relayed(c, d) = [i \in 1 .. Cardinality(J) |-> Trim(At(all, J)[i])]
    <3>1. DOMAIN At(all, J) = 1 .. Cardinality(J)
      BY DEF At
    <3>2. Relayed(c, d) = [i \in DOMAIN At(all, J) |-> Trim(At(all, J)[i])]
      BY DEF Relayed, J
    <3> QED BY <3>1, <3>2
  <2>6. At(v, J) = [i \in 1 .. Cardinality(J) |-> At(v, J)[i]]
    BY DEF At
  <2> QED BY <2>4, <2>5, <2>6
<1>15. At(u, I) \in Seq(Payload) /\ At(v, J) \in Seq(Payload)
  BY <1>3, <1>11, <1>12, AtIsSeq
<1> QED BY <1>12, <1>13, <1>14, <1>15

LEMMA HeadIsPrefix ==
  ASSUME NEW S, NEW u \in Seq(S), NEW v \in Seq(S), HeadOf(u, v)
  PROVE  IsPrefixOf(u, v)
<1> DEFINE a == SubSeq(v, 1, Len(u))
<1>1. Len(u) \in Nat /\ Len(v) \in Nat /\ Len(u) <= Len(v) /\ \A i \in 1 .. Len(u) : u[i] = v[i]
  BY DEF HeadOf
<1>2. a \in Seq(S) /\ Len(a) = Len(u) /\ \A i \in 1 .. Len(u) : a[i] = v[i]
  BY <1>1
<1> HIDE DEF a
<1>3. u = a
  BY <1>1, <1>2, SeqEqual
<1> QED BY <1>1, <1>3 DEF IsPrefixOf, a

LEMMA PagesFollow ==
  ASSUME LineInv, LinkInv, RelayInv, NEW c \in Conn, NEW d \in Conn, c # d
  PROVE  IsPrefixOf(TextsBy(c, page[d]), Relayed(c, d))
<1>0. /\ page[d] \in Seq(Row) /\ got[Down(d)] \in Seq(Payload) /\ sent[Down(d)] \in Seq(Payload)
      /\ Down(d) \in Stream
  BY Streams DEF LineInv, LineTypeOK, Log, Row, LinkInv, LinkTypeOK
<1>i. LimitsHold /\ ExitsLast /\ SentOn /\ RelaysOn /\ PagesOn
  BY DEF RelayInv
<1> PICK a \in Seq(Payload) : a = TextsBy(c, page[d])
  BY <1>0, TextsByGrows
<1> PICK g \in Seq(Payload), s \in Seq(Payload) : g = got[Down(d)] /\ s = sent[Down(d)]
  BY <1>0
<1>1. TextsIn(c, g) \in Seq(Payload) /\ TextsIn(c, s) \in Seq(Payload)
  BY TextsInGrow, LineConstants
<1>2. HeadOf(a, TextsIn(c, g))
  BY <1>i DEF PagesOn
<1>3. HeadOf(TextsIn(c, g), TextsIn(c, s))
  <2>1. HeadOf(g, s)
    BY <1>0 DEF LinkInv, Given, HeadOf
  <2> QED BY <2>1, TextsInHead
<1>4. HeadOf(TextsIn(c, s), Plan(c, d))
  BY <1>i DEF RelaysOn, Sends
<1>5. HeadOf(Plan(c, d), Relayed(c, d)) /\ Plan(c, d) \in Seq(Payload) /\ Relayed(c, d) \in Seq(Payload)
  BY <1>i, PlanHead
<1>6. HeadOf(a, TextsIn(c, s))
  BY <1>1, <1>2, <1>3, HeadsFollow
<1>7. HeadOf(a, Plan(c, d))
  BY <1>1, <1>4, <1>5, <1>6, HeadsFollow
<1>8. HeadOf(a, Relayed(c, d))
  BY <1>5, <1>7, HeadsFollow
<1> QED BY <1>5, <1>8, HeadIsPrefix

\* What a browser shows of another's public messages is what that other
\* stored, in order and once each, from where the server welcomed its
\* connection, without the lines the server does not relay (Server::handle_line,
\* broadcast; onBackendEvent); however the threads and the callbacks run and
\* whoever leaves.
THEOREM RelaysInOrder == Spec => []RelayedInOrder
<1>1. LineInv /\ LinkInv /\ RelayInv => RelayedInOrder
  BY PagesFollow DEF RelayedInOrder
<1> QED BY <1>1, RelayInductive, PTL
===============================================================================
