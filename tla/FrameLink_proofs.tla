--------------------------- MODULE FrameLink_proofs ---------------------------
(***************************************************************************)
(* Framing is a message channel, for every set of connections, every pair  *)
(* of limits, every payload and every way the bytes are cut up.            *)
(***************************************************************************)
EXTENDS FrameLink, SequenceTheorems, TLAPS

LEMMA Shifted ==
  ASSUME NEW n \in Nat
  PROVE  Shift(n) \in Nat /\ n % 256 \in Byte /\ Shift(n) * 256 + (n % 256) = n
BY SMT DEF Shift, Byte

\* htonl and ntohl: four bytes hold a length of 32 bits.
LEMMA HeaderOfLength ==
  ASSUME NEW n \in Nat, Fits(n)
  PROVE  /\ Header(n) \in Seq(Byte) /\ Len(Header(n)) = HeaderSize
         /\ Length(Header(n)) = n
<1> DEFINE n1 == Shift(n)
           n2 == Shift(n1)
           n3 == Shift(n2)
<1>1. n1 \in Nat /\ n % 256 \in Byte /\ n1 * 256 + (n % 256) = n
  BY Shifted
<1>2. n2 \in Nat /\ n1 % 256 \in Byte /\ n2 * 256 + (n1 % 256) = n1
  BY <1>1, Shifted
<1>3. n3 \in Nat /\ n2 % 256 \in Byte /\ n3 * 256 + (n2 % 256) = n2
  BY <1>2, Shifted
<1>4. n3 % 256 = n3 /\ n3 \in Byte
  BY <1>3, SMT DEF Fits, Byte
<1>5. Header(n) \in Seq(Byte) /\ Len(Header(n)) = HeaderSize
  BY <1>1, <1>2, <1>3, <1>4 DEF Header, HeaderSize
<1>6. Length(Header(n)) = ((n3 * 256 + (n2 % 256)) * 256 + (n1 % 256)) * 256 + (n % 256)
  BY <1>4 DEF Header, Length
<1> QED BY <1>1, <1>2, <1>3, <1>5, <1>6

\* send_frame, encodeFrame: the header, then the payload.
LEMMA BytesOfFrame ==
  ASSUME NEW p \in Payload, Fits(Len(p))
  PROVE  /\ Frame(p) \in Seq(Byte) /\ Len(Frame(p)) = HeaderSize + Len(p)
         /\ \A k \in 1 .. HeaderSize : Frame(p)[k] = Header(Len(p))[k]
         /\ \A k \in 1 .. Len(p) : Frame(p)[HeaderSize + k] = p[k]
<1>1. p \in Seq(Byte) /\ Len(p) \in Nat
  BY DEF Payload
<1>2. Header(Len(p)) \in Seq(Byte) /\ Len(Header(Len(p))) = HeaderSize
  BY <1>1, HeaderOfLength
<1>3. HeaderSize = 4
  BY DEF HeaderSize
<1> DEFINE h == Header(Len(p))
<1> HIDE DEF h
<1>4. h \in Seq(Byte) /\ Len(h) = HeaderSize
  BY <1>2 DEF h
<1>5. Frame(p) = h \o p
  BY DEF Frame, h
<1>6. /\ Frame(p) \in Seq(Byte) /\ Len(Frame(p)) = Len(h) + Len(p)
      /\ \A i \in 1 .. Len(h) + Len(p) :
           Frame(p)[i] = IF i <= Len(h) THEN h[i] ELSE p[i - Len(h)]
  BY <1>1, <1>4, <1>5, ConcatProperties
<1>7. \A k \in 1 .. HeaderSize : Frame(p)[k] = h[k]
  BY <1>1, <1>3, <1>4, <1>6
<1>8. ASSUME NEW k \in 1 .. Len(p)
      PROVE  Frame(p)[HeaderSize + k] = p[k]
  <2> DEFINE i == HeaderSize + k
  <2>1. i \in 1 .. Len(h) + Len(p) /\ ~(i <= Len(h)) /\ i - Len(h) = k
    BY <1>1, <1>3, <1>4
  <2> HIDE DEF i
  <2>2. Frame(p)[i] = p[k]
    BY <1>6, <2>1
  <2> QED BY <2>2 DEF i
<1> QED BY <1>4, <1>6, <1>7, <1>8 DEF h

\* What a stream carries does not depend on what is written behind it, nor
\* on how much of it is lost.
LEMMA CarriesOn ==
  ASSUME NEW b \in Seq(Byte), NEW c \in Seq(Byte), NEW f \in Seq(Byte), NEW t \in Nat,
         Carries(b, t, f),
         \/ t + Len(f) <= Len(b) /\ \A k \in 1 .. Len(b) : c[k] = b[k]
         \/ Len(c) <= Len(b) /\ \A k \in 1 .. Len(c) : c[k] = b[k]
  PROVE  Carries(c, t, f)
<1> SUFFICES ASSUME NEW k \in 1 .. Len(f), t + k <= Len(c)
             PROVE  c[t + k] = f[k]
  BY DEF Carries
<1>1. t + k \in 1 .. Len(b) /\ c[t + k] = b[t + k]
  <2> DEFINE j == t + k
  <2>1. j \in 1 .. Len(c) /\ j <= t + Len(f) /\ Len(b) \in Nat /\ Len(c) \in Nat
    OBVIOUS
  <2> HIDE DEF j
  <2>2. j \in 1 .. Len(b) /\ c[j] = b[j]
    BY <2>1
  <2> QED BY <2>2 DEF j
<1>2. b[t + k] = f[k]
  BY <1>1 DEF Carries
<1> QED BY <1>1, <1>2

\* Where the frames of a stream start.
LEMMA Starts ==
  ASSUME NEW e \in Seq(Nat), NEW i \in 1 .. Len(e) + 1
  PROVE  Start(e, i) \in Nat /\ (i > 1 => Start(e, i) = e[i - 1])
BY DEF Start

\* What the layout of a stream says of one of its frames.
LEMMA OneFrame ==
  ASSUME NEW b \in Seq(Byte), NEW p \in Seq(Payload), NEW e \in Seq(Nat), LaidOut(b, p, e),
         NEW i \in 1 .. Len(p)
  PROVE  /\ p[i] \in Payload /\ Len(p[i]) \in Nat /\ Fits(Len(p[i]))
         /\ Frame(p[i]) \in Seq(Byte) /\ Len(Frame(p[i])) = HeaderSize + Len(p[i])
         /\ Start(e, i) \in Nat
         /\ Start(e, i + 1) = Start(e, i) + HeaderSize + Len(p[i])
         /\ Start(e, i + 1) <= Start(e, Len(p) + 1)
         /\ e[i] = Start(e, i + 1)
         /\ Carries(b, Start(e, i), Frame(p[i]))
<1>1. /\ Len(e) = Len(p) /\ p[i] \in Payload /\ Len(p[i]) \in Nat /\ Fits(Len(p[i]))
      /\ e[i] = Start(e, i) + HeaderSize + Len(p[i])
      /\ e[i] <= Start(e, Len(p) + 1)
      /\ Carries(b, Start(e, i), Frame(p[i]))
  BY DEF LaidOut, Payload
<1>2. Start(e, i) \in Nat /\ Start(e, i + 1) = e[i]
  BY <1>1, Starts
<1> QED BY <1>1, <1>2, BytesOfFrame

\* A stream before and after the frame of q is written to it.
IsWritten(b, p, e, q, b2, p2, e2) ==
  /\ b2 \in Seq(Byte) /\ p2 \in Seq(Payload) /\ e2 \in Seq(Nat)
  /\ Len(p2) = Len(p) + 1 /\ Len(b2) = Start(e2, Len(p2) + 1)
  /\ p2[Len(p) + 1] = q /\ \A i \in 1 .. Len(p) : p2[i] = p[i]
  /\ \A i \in 1 .. Len(p) + 1 : Start(e2, i) = Start(e, i)
  /\ \A k \in 1 .. Len(b) : b2[k] = b[k]
  /\ Len(b2) >= Len(b)
  /\ LaidOut(b2, p2, e2)

\* A frame written behind the others.
LEMMA LaidOutWrite ==
  ASSUME NEW b \in Seq(Byte), NEW p \in Seq(Payload), NEW e \in Seq(Nat), LaidOut(b, p, e),
         Len(b) = Start(e, Len(p) + 1), NEW q \in Payload, Fits(Len(q))
  PROVE  IsWritten(b, p, e, q, b \o Frame(q), Append(p, q), Append(e, Len(b \o Frame(q))))
<1> DEFINE b2 == b \o Frame(q)
           p2 == Append(p, q)
           e2 == Append(e, Len(b2))
<1>0. b2 = b \o Frame(q) /\ p2 = Append(p, q) /\ e2 = Append(e, Len(b2))
  OBVIOUS
<1> HIDE DEF b2, p2, e2
<1> DEFINE n == Len(p)
<1>1. /\ Frame(q) \in Seq(Byte) /\ Len(Frame(q)) = HeaderSize + Len(q)
      /\ HeaderSize = 4 /\ Len(q) \in Nat /\ n \in Nat /\ Len(e) = n /\ Len(b) \in Nat
  BY BytesOfFrame DEF HeaderSize, Payload, LaidOut
<1>2. /\ b2 \in Seq(Byte) /\ Len(b2) = Len(b) + Len(Frame(q))
      /\ \A k \in 1 .. Len(b) + Len(Frame(q)) :
           b2[k] = IF k <= Len(b) THEN b[k] ELSE Frame(q)[k - Len(b)]
  <2> DEFINE f == Frame(q)
  <2> HIDE DEF f
  <2>1. f \in Seq(Byte) /\ b2 = b \o f
    BY <1>0, <1>1 DEF f
  <2> QED BY <2>1, ConcatProperties DEF f
<1>3. \A k \in 1 .. Len(b) : b2[k] = b[k]
  BY <1>1, <1>2
<1>4. Carries(b2, Len(b), Frame(q))
  <2> SUFFICES ASSUME NEW k \in 1 .. Len(Frame(q))
               PROVE  b2[Len(b) + k] = Frame(q)[k]
    BY DEF Carries
  <2> DEFINE j == Len(b) + k
  <2>1. j \in 1 .. Len(b) + Len(Frame(q)) /\ ~(j <= Len(b)) /\ j - Len(b) = k
    BY <1>1
  <2> HIDE DEF j
  <2>2. b2[j] = Frame(q)[k]
    BY <1>2, <2>1
  <2> QED BY <2>2 DEF j
<1>5. /\ p2 \in Seq(Payload) /\ Len(p2) = n + 1
      /\ p2[n + 1] = q /\ \A i \in 1 .. n : p2[i] = p[i]
  BY <1>0
<1>6. /\ e2 \in Seq(Nat) /\ Len(e2) = n + 1
      /\ e2[n + 1] = Len(b2) /\ \A i \in 1 .. n : e2[i] = e[i]
  <2>1. Len(b2) \in Nat /\ Len(e) = n
    BY <1>1, <1>2
  <2> QED BY <1>0, <2>1
<1> HIDE DEF n
<1>7. \A i \in 1 .. n + 1 : Start(e2, i) = Start(e, i)
  BY <1>1, <1>6 DEF Start
<1>8. Start(e2, n + 2) = Len(b2)
  <2>1. n + 2 \in 1 .. Len(e2) + 1 /\ n + 2 > 1 /\ (n + 2) - 1 = n + 1
    BY <1>1, <1>6
  <2> QED BY <1>6, <2>1, Starts
<1>9. Start(e2, n + 1) = Len(b)
  BY <1>1, <1>7 DEF n
<1>10. ASSUME NEW i \in 1 .. n
       PROVE  /\ e2[i] = Start(e2, i) + HeaderSize + Len(p2[i])
              /\ e2[i] <= Len(b2)
              /\ Fits(Len(p2[i]))
              /\ Carries(b2, Start(e2, i), Frame(p2[i]))
  <2>1. /\ p[i] \in Payload /\ Len(p[i]) \in Nat /\ Fits(Len(p[i]))
        /\ Frame(p[i]) \in Seq(Byte) /\ Len(Frame(p[i])) = HeaderSize + Len(p[i])
        /\ Start(e, i) \in Nat
        /\ e[i] = Start(e, i) + HeaderSize + Len(p[i])
        /\ e[i] <= Len(b)
        /\ Carries(b, Start(e, i), Frame(p[i]))
    BY OneFrame DEF n
  <2>2. p2[i] = p[i] /\ e2[i] = e[i] /\ Start(e2, i) = Start(e, i)
    <3>1. i \in 1 .. n + 1
      BY <1>1
    <3> QED BY <1>5, <1>6, <1>7, <3>1
  <2>3. Start(e, i) + Len(Frame(p[i])) <= Len(b)
    <3>1. Start(e, i) + Len(Frame(p[i])) = Start(e, i) + HeaderSize + Len(p[i])
      <4> DEFINE m == Len(p[i])
                 f == Len(Frame(p[i]))
      <4>1. f = HeaderSize + m /\ m \in Nat /\ HeaderSize = 4 /\ Start(e, i) \in Nat
        BY <1>1, <2>1
      <4> HIDE DEF f, m
      <4>2. Start(e, i) + f = Start(e, i) + HeaderSize + m
        BY <4>1
      <4> QED BY <4>2 DEF f, m
    <3> QED BY <2>1, <3>1
  <2>4. Carries(b2, Start(e, i), Frame(p[i]))
    BY <1>2, <1>3, <2>1, <2>3, CarriesOn
  <2>5. e[i] <= Len(b2)
    BY <1>1, <1>2, <2>1, SMTT(30)
  <2> QED BY <2>1, <2>2, <2>4, <2>5
<1>11. /\ e2[n + 1] = Start(e2, n + 1) + HeaderSize + Len(p2[n + 1])
       /\ Carries(b2, Start(e2, n + 1), Frame(p2[n + 1]))
  BY <1>1, <1>2, <1>4, <1>5, <1>6, <1>9
<1>12. LaidOut(b2, p2, e2)
  <2>1. (n + 1) + 1 = n + 2 /\ Len(b2) \in Nat
    BY <1>1, <1>2
  <2> SUFFICES ASSUME NEW i \in 1 .. n + 1
               PROVE  /\ e2[i] = Start(e2, i) + HeaderSize + Len(p2[i])
                      /\ e2[i] <= Len(b2)
                      /\ Fits(Len(p2[i]))
                      /\ Carries(b2, Start(e2, i), Frame(p2[i]))
    BY <1>5, <1>6, <1>8, <2>1 DEF LaidOut
  <2>2. CASE i \in 1 .. n
    BY <1>10, <2>2
  <2>3. CASE i = n + 1
    BY <1>5, <1>6, <1>11, <2>1, <2>3
  <2>4. i \in 1 .. n \/ i = n + 1
    BY <1>1
  <2> QED BY <2>2, <2>3, <2>4
<1>13. Len(b2) >= Len(b)
  BY <1>1, <1>2
<1>14. Len(b2) = Start(e2, Len(p2) + 1)
  <2>1. Len(p2) + 1 = n + 2
    BY <1>1, <1>5
  <2> QED BY <1>8, <2>1
<1>15. IsWritten(b, p, e, q, b2, p2, e2)
  BY <1>2, <1>3, <1>5, <1>6, <1>7, <1>12, <1>13, <1>14 DEF n, IsWritten
<1> QED BY <1>15 DEF b2, p2, e2

\* The end of a stream that was closed is lost.
LEMMA LaidOutCut ==
  ASSUME NEW b \in Seq(Byte), NEW p \in Seq(Payload), NEW e \in Seq(Nat), LaidOut(b, p, e),
         NEW n \in 0 .. Len(b)
  PROVE  /\ SubSeq(b, 1, n) \in Seq(Byte) /\ Len(SubSeq(b, 1, n)) = n
         /\ \A k \in 1 .. n : SubSeq(b, 1, n)[k] = b[k]
         /\ LaidOut(SubSeq(b, 1, n), p, e)
<1> DEFINE c == SubSeq(b, 1, n)
<1>1. c \in Seq(Byte) /\ Len(c) = n /\ \A k \in 1 .. n : c[k] = b[k]
  OBVIOUS
<1> HIDE DEF c
<1>2. n <= Start(e, Len(p) + 1)
  <2>1. Start(e, Len(p) + 1) \in Nat /\ Len(b) <= Start(e, Len(p) + 1)
    BY Starts DEF LaidOut
  <2> QED BY <2>1
<1>3. ASSUME NEW i \in 1 .. Len(p)
      PROVE  Carries(c, Start(e, i), Frame(p[i]))
  <2>1. Start(e, i) \in Nat /\ Frame(p[i]) \in Seq(Byte) /\ Carries(b, Start(e, i), Frame(p[i]))
    BY OneFrame
  <2>2. Len(c) <= Len(b) /\ \A k \in 1 .. Len(c) : c[k] = b[k]
    BY <1>1
  <2> QED BY <1>1, <2>1, <2>2, CarriesOn
<1>4. LaidOut(c, p, e)
  BY <1>1, <1>2, <1>3 DEF LaidOut
<1> QED BY <1>1, <1>4 DEF c

\* Four bytes from where a frame starts are its length.
LEMMA HeaderRead ==
  ASSUME NEW b \in Seq(Byte), NEW p \in Seq(Payload), NEW e \in Seq(Nat), LaidOut(b, p, e),
         NEW g \in 0 .. Len(p), NEW h \in Seq(Byte), Len(h) >= HeaderSize,
         Start(e, g + 1) + HeaderSize <= Len(b),
         \A k \in 1 .. HeaderSize : h[k] = b[Start(e, g + 1) + k]
  PROVE  /\ g < Len(p)
         /\ Length(h) = Len(p[g + 1])
         /\ Start(e, g + 2) = Start(e, g + 1) + HeaderSize + Len(p[g + 1])
<1>1. HeaderSize = 4 /\ Start(e, g + 1) \in Nat /\ Len(b) <= Start(e, Len(p) + 1)
  BY Starts, SMTT(30) DEF HeaderSize, LaidOut
<1>2. g < Len(p)
  BY <1>1
<1>3. g + 1 \in 1 .. Len(p) /\ (g + 1) + 1 = g + 2
  BY <1>2
<1>4. /\ p[g + 1] \in Payload /\ Len(p[g + 1]) \in Nat /\ Fits(Len(p[g + 1]))
      /\ Len(Frame(p[g + 1])) = HeaderSize + Len(p[g + 1])
      /\ Start(e, g + 2) = Start(e, g + 1) + HeaderSize + Len(p[g + 1])
      /\ Carries(b, Start(e, g + 1), Frame(p[g + 1]))
  BY <1>3, OneFrame
<1>5. ASSUME NEW k \in 1 .. HeaderSize
      PROVE  h[k] = Header(Len(p[g + 1]))[k]
  <2> DEFINE m == Len(p[g + 1])
             t == Start(e, g + 1)
  <2>0. m \in Nat /\ t \in Nat /\ t + HeaderSize <= Len(b) /\ Len(b) \in Nat /\ HeaderSize = 4
    BY <1>1, <1>4
  <2>1. k \in 1 .. HeaderSize + m /\ t + k <= Len(b)
    <3> HIDE DEF m, t
    <3> QED BY <2>0
  <2>2. b[Start(e, g + 1) + k] = Frame(p[g + 1])[k]
    BY <1>4, <2>1 DEF Carries
  <2> QED BY <1>4, <2>2, BytesOfFrame
<1>6. Length(h) = Length(Header(Len(p[g + 1])))
  <2> DEFINE k == Header(Len(p[g + 1]))
  <2>1. h[1] = k[1] /\ h[2] = k[2] /\ h[3] = k[3] /\ h[4] = k[4]
    BY <1>1, <1>5
  <2> HIDE DEF k
  <2>2. Length(h) = Length(k)
    BY <2>1 DEF Length
  <2> QED BY <2>2 DEF k
<1> QED BY <1>2, <1>4, <1>6, HeaderOfLength

\* The bytes behind it are its payload.
LEMMA BodyRead ==
  ASSUME NEW b \in Seq(Byte), NEW p \in Seq(Payload), NEW e \in Seq(Nat), LaidOut(b, p, e),
         NEW g \in 0 .. Len(p) - 1, NEW h \in Seq(Byte), Len(h) = Len(p[g + 1]),
         Start(e, g + 1) + HeaderSize + Len(h) <= Len(b),
         \A k \in 1 .. Len(h) : h[k] = b[Start(e, g + 1) + HeaderSize + k]
  PROVE  h = p[g + 1]
<1>1. HeaderSize = 4 /\ Len(h) \in Nat /\ g + 1 \in 1 .. Len(p)
  BY DEF HeaderSize
<1>2. /\ p[g + 1] \in Payload /\ Fits(Len(p[g + 1])) /\ Start(e, g + 1) \in Nat
      /\ Len(Frame(p[g + 1])) = HeaderSize + Len(p[g + 1])
      /\ Carries(b, Start(e, g + 1), Frame(p[g + 1]))
  BY <1>1, OneFrame
<1>3. ASSUME NEW k \in 1 .. Len(h)
      PROVE  h[k] = p[g + 1][k]
  <2>1. /\ HeaderSize + k \in 1 .. Len(Frame(p[g + 1]))
        /\ Start(e, g + 1) + (HeaderSize + k) <= Len(b)
        /\ Start(e, g + 1) + (HeaderSize + k) = Start(e, g + 1) + HeaderSize + k
    BY <1>1, <1>2, SMTT(30)
  <2>2. b[Start(e, g + 1) + (HeaderSize + k)] = Frame(p[g + 1])[HeaderSize + k]
    BY <1>2, <2>1 DEF Carries
  <2> QED BY <1>2, <2>1, <2>2, BytesOfFrame
<1>4. p[g + 1] \in Seq(Byte)
  BY <1>2 DEF Payload
<1> QED BY <1>3, <1>4, SeqEqual
-------------------------------------------------------------------------------
\* A stream that a step leaves alone.
LEMMA StreamUnchanged ==
  ASSUME NEW s \in Stream, limits' = limits, bytes'[s] = bytes[s], arrived'[s] = arrived[s],
         buffer'[s] = buffer[s], need'[s] = need[s], phase'[s] = phase[s],
         ended'[s] = ended[s], sent'[s] = sent[s], ends'[s] = ends[s], got'[s] = got[s],
         Written(s), Given(s), Phased(s)
  PROVE  Written(s)' /\ Given(s)' /\ Phased(s)'
<1>1. Mark(s)' = Mark(s) /\ ReadLimit(s)' = ReadLimit(s)
  BY DEF Mark, ReadLimit
<1>2. Written(s)'
  BY DEF Written
<1>3. Given(s)'
  BY DEF Given
<1>4. Buffered(s)' = Buffered(s)
  BY <1>1 DEF Buffered
<1>5. Phased(s)'
  BY <1>1, <1>4 DEF Phased
<1> QED BY <1>2, <1>3, <1>5

\* The variables of the streams other than s are unchanged.
OnlyAt(s) ==
  /\ limits' = limits
  /\ \A t \in Stream \ {s} :
       /\ bytes'[t] = bytes[t] /\ arrived'[t] = arrived[t] /\ buffer'[t] = buffer[t]
       /\ need'[t] = need[t] /\ phase'[t] = phase[t] /\ ended'[t] = ended[t]
       /\ sent'[t] = sent[t] /\ ends'[t] = ends[t] /\ got'[t] = got[t]

\* A step on one stream.
LEMMA OneStream ==
  ASSUME LinkInv, NEW s \in Stream, OnlyAt(s), LinkTypeOK', Written(s)', Given(s)', Phased(s)'
  PROVE  LinkInv'
<1>1. ASSUME NEW t \in Stream, t # s
      PROVE  Written(t)' /\ Given(t)' /\ Phased(t)'
  <2>1. Written(t) /\ Given(t) /\ Phased(t)
    BY DEF LinkInv
  <2> QED BY <1>1, <2>1, StreamUnchanged DEF OnlyAt
<1> QED BY <1>1 DEF LinkInv

\* Where a reader is.
LEMMA MarkIsPlace ==
  ASSUME LinkTypeOK, NEW s \in Stream, Written(s), Given(s)
  PROVE  /\ Len(ends[s]) = Len(sent[s]) /\ Len(got[s]) \in 0 .. Len(sent[s])
         /\ Start(ends[s], Len(got[s]) + 1) \in Nat /\ Mark(s) \in Nat
         /\ bytes[s] \in Seq(Byte) /\ sent[s] \in Seq(Payload) /\ ends[s] \in Seq(Nat)
         /\ got[s] \in Seq(Payload) /\ buffer[s] \in Seq(Byte) /\ arrived[s] \in Nat
         /\ LaidOut(bytes[s], sent[s], ends[s])
<1>1. /\ ends[s] \in Seq(Nat) /\ sent[s] \in Seq(Payload) /\ got[s] \in Seq(Payload)
      /\ bytes[s] \in Seq(Byte) /\ buffer[s] \in Seq(Byte) /\ arrived[s] \in Nat
  BY DEF LinkTypeOK
<1>2. Len(ends[s]) = Len(sent[s]) /\ Len(got[s]) <= Len(sent[s])
  BY DEF Written, Given, LaidOut
<1>3. Len(got[s]) \in 0 .. Len(sent[s]) /\ Len(got[s]) + 1 \in 1 .. Len(ends[s]) + 1
  BY <1>1, <1>2
<1>4. Start(ends[s], Len(got[s]) + 1) \in Nat
  BY <1>1, <1>3, Starts
<1>5. Mark(s) \in Nat
  BY <1>4 DEF Mark, HeaderSize
<1> QED BY <1>1, <1>2, <1>3, <1>4, <1>5 DEF Written

\* n more bytes behind the ones buffered.
LEMMA ExtendedBytes ==
  ASSUME LinkTypeOK, NEW s \in Stream, Written(s), Given(s), Buffered(s), NEW n, Take(s, n)
  PROVE  /\ Extended(s, n) \in Seq(Byte) /\ n \in Nat \ {0}
         /\ Len(Extended(s, n)) = Len(buffer[s]) + n
         /\ arrived' = [arrived EXCEPT ![s] = @ + n] /\ arrived'[s] \in Nat
         /\ arrived'[s] = Mark(s) + Len(Extended(s, n))
         /\ arrived'[s] <= Len(bytes[s])
         /\ \A k \in 1 .. Len(Extended(s, n)) : Extended(s, n)[k] = bytes[s][Mark(s) + k]
<1> DEFINE u == buffer[s]
           b == bytes[s]
           a == arrived[s]
           v == SubSeq(b, a + 1, a + n)
           m == Mark(s)
<1>1. /\ u \in Seq(Byte) /\ b \in Seq(Byte) /\ a \in Nat /\ m \in Nat
      /\ Len(u) \in Nat /\ Len(b) \in Nat
      /\ a = m + Len(u) /\ \A k \in 1 .. Len(u) : u[k] = b[m + k]
  BY MarkIsPlace DEF Buffered
<1>2. n \in 1 .. Len(b) - a /\ arrived' = [arrived EXCEPT ![s] = @ + n]
  BY DEF Take
<1>3. arrived'[s] = a + n
  BY <1>2 DEF LinkTypeOK
<1>4. Extended(s, n) = u \o v
  BY DEF Extended
<1> HIDE DEF u, b, a, m
<1>5. n \in Nat \ {0} /\ a + n <= Len(b) /\ a + n \in Nat
  BY <1>1, <1>2
<1>6. v \in Seq(Byte) /\ Len(v) = n /\ \A i \in 1 .. n : v[i] = b[a + i]
  <2>1. \A i \in a + 1 .. a + n : b[i] \in Byte
    BY <1>1, <1>5
  <2>2. a + 1 \in Int /\ a + n \in Int /\ a + 1 <= a + n /\ (a + n) - (a + 1) + 1 = n
    BY <1>1, <1>5
  <2>3. v \in Seq(Byte) /\ Len(v) = n /\ \A i \in 1 .. n : v[i] = b[(a + 1) + i - 1]
    BY <2>1, <2>2, SubSeqProperties
  <2>4. \A i \in 1 .. n : (a + 1) + i - 1 = a + i
    BY <1>1
  <2> QED BY <2>3, <2>4
<1> HIDE DEF v
<1> DEFINE x == u \o v
<1>7. /\ x \in Seq(Byte) /\ Len(x) = Len(u) + n
      /\ \A k \in 1 .. Len(u) + n : x[k] = IF k <= Len(u) THEN u[k] ELSE v[k - Len(u)]
  BY <1>1, <1>6, ConcatProperties, ZenonT(30)
<1> HIDE DEF x
<1>8. ASSUME NEW k \in 1 .. Len(x)
      PROVE  x[k] = b[m + k]
  <2>1. CASE k <= Len(u)
    BY <1>1, <1>7, <2>1
  <2>2. CASE k > Len(u)
    <3> DEFINE i == k - Len(u)
    <3>1. i \in 1 .. n /\ a + i = m + k /\ ~(k <= Len(u)) /\ k \in 1 .. Len(u) + n
      BY <1>1, <1>5, <1>7, <2>2
    <3> HIDE DEF i
    <3>2. x[k] = v[i]
      BY <1>7, <3>1 DEF i
    <3> QED BY <1>6, <3>1, <3>2
  <2> QED BY <1>1, <1>7, <2>1, <2>2
<1>9. a + n = m + Len(x)
  BY <1>1, <1>5, <1>7
<1> QED BY <1>2, <1>3, <1>4, <1>5, <1>7, <1>8, <1>9 DEF x, u, b, a, m

\* The reader is given the next payload.
LEMMA GivenNext ==
  ASSUME LinkTypeOK, NEW s \in Stream, Written(s), Given(s), Len(got[s]) < Len(sent[s]),
         got' = [got EXCEPT ![s] = Append(@, sent[s][Len(got[s]) + 1])]
  PROVE  /\ got' \in [Stream -> Seq(Payload)]
         /\ Len(got'[s]) = Len(got[s]) + 1 /\ Len(got'[s]) <= Len(sent[s])
         /\ \A i \in 1 .. Len(got'[s]) : got'[s][i] = sent[s][i]
<1> DEFINE g == got[s]
           p == sent[s]
           q == p[Len(g) + 1]
<1>1. g \in Seq(Payload) /\ p \in Seq(Payload) /\ Len(g) \in 0 .. Len(p)
  BY MarkIsPlace
<1>2. /\ Len(g) < Len(p) /\ \A i \in 1 .. Len(g) : g[i] = p[i]
      /\ Len(g) \in Nat /\ Len(p) \in Nat
  BY <1>1 DEF Given
<1>3. got'[s] = Append(g, q) /\ \A r \in Stream : r # s => got'[r] = got[r]
  BY DEF LinkTypeOK
<1> HIDE DEF g, p
<1>4. q \in Payload
  <2>1. Len(g) + 1 \in 1 .. Len(p)
    BY <1>1, <1>2
  <2> QED BY <1>1, <2>1, ElementOfSeq
<1> HIDE DEF q
<1>5. /\ Append(g, q) \in Seq(Payload) /\ Len(Append(g, q)) = Len(g) + 1
      /\ Append(g, q)[Len(g) + 1] = q /\ \A i \in 1 .. Len(g) : Append(g, q)[i] = g[i]
  BY <1>1, <1>4
<1>6. ASSUME NEW i \in 1 .. Len(g) + 1
      PROVE  Append(g, q)[i] = p[i]
  BY <1>2, <1>5 DEF q
<1>7. got' \in [Stream -> Seq(Payload)]
  BY <1>3, <1>5 DEF LinkTypeOK
<1> QED BY <1>2, <1>3, <1>5, <1>6, <1>7 DEF g, p, q

LEMMA WriteKeeps ==
  ASSUME LinkInv, NEW s \in Stream, NEW q \in Payload, Write(s, q)
  PROVE  LinkInv'
<1> DEFINE b == bytes[s]
           p == sent[s]
           e == ends[s]
           b2 == b \o Frame(q)
           p2 == Append(p, q)
           e2 == Append(e, Len(b2))
<1>1. LinkTypeOK /\ Written(s) /\ Given(s) /\ Phased(s)
  BY DEF LinkInv
<1>2. /\ b \in Seq(Byte) /\ p \in Seq(Payload) /\ e \in Seq(Nat) /\ LaidOut(b, p, e)
      /\ Len(got[s]) \in 0 .. Len(p) /\ Len(e) = Len(p) /\ arrived[s] \in Nat
      /\ Mark(s) \in Nat /\ buffer[s] \in Seq(Byte) /\ got[s] \in Seq(Payload)
  BY <1>1, MarkIsPlace
<1>3. /\ bytes' = [bytes EXCEPT ![s] = b2]
      /\ sent' = [sent EXCEPT ![s] = p2]
      /\ ~ended[s] /\ Fits(Len(q)) /\ (IsUp(s) \/ Len(q) <= limits.server)
      /\ UNCHANGED <<limits, arrived, buffer, need, phase, ended, got>>
  BY DEF Write, MayWrite
<1>4. bytes'[s] = b2 /\ sent'[s] = p2
  BY <1>1, <1>3 DEF LinkTypeOK
<1>5. ends' = [ends EXCEPT ![s] = e2]
  BY <1>4 DEF Write
<1>6. ends'[s] = e2
  BY <1>1, <1>5 DEF LinkTypeOK
<1>7. Len(b) = Start(e, Len(p) + 1)
  BY <1>1, <1>3 DEF Written
<1> HIDE DEF b, p, e, b2, p2, e2
<1>8. /\ b2 \in Seq(Byte) /\ p2 \in Seq(Payload) /\ e2 \in Seq(Nat)
      /\ Len(p2) = Len(p) + 1 /\ Len(b2) = Start(e2, Len(p2) + 1)
      /\ p2[Len(p) + 1] = q /\ \A i \in 1 .. Len(p) : p2[i] = p[i]
      /\ \A i \in 1 .. Len(p) + 1 : Start(e2, i) = Start(e, i)
      /\ \A k \in 1 .. Len(b) : b2[k] = b[k]
      /\ Len(b2) >= Len(b)
      /\ LaidOut(b2, p2, e2)
  <2>1. /\ b \in Seq(Byte) /\ p \in Seq(Payload) /\ e \in Seq(Nat) /\ LaidOut(b, p, e)
        /\ Fits(Len(q))
    BY <1>2, <1>3
  <2>2. IsWritten(b, p, e, q, b \o Frame(q), Append(p, q), Append(e, Len(b \o Frame(q))))
    BY <1>7, <2>1, LaidOutWrite
  <2>3. IsWritten(b, p, e, q, b2, p2, e2)
    BY <2>2 DEF b2, p2, e2
  <2> QED BY <2>3 DEF IsWritten
<1>9. LinkTypeOK'
  BY <1>1, <1>3, <1>5, <1>8 DEF LinkTypeOK
<1>10. Written(s)'
  <2>1. ~IsUp(s) => \A i \in 1 .. Len(p2) : Len(p2[i]) <= limits.server
    <3> SUFFICES ASSUME ~IsUp(s), NEW i \in 1 .. Len(p2) PROVE Len(p2[i]) <= limits.server
      OBVIOUS
    <3>1. CASE i \in 1 .. Len(p)
      BY <1>1, <1>8, <3>1 DEF Written, p
    <3>2. CASE i = Len(p) + 1
      BY <1>3, <1>8, <3>2
    <3>3. Len(p) \in Nat
      BY <1>2
    <3> QED BY <1>8, <3>1, <3>2, <3>3
  <2>2. ended'[s] = ended[s] /\ limits' = limits
    BY <1>3
  <2> QED BY <1>4, <1>6, <1>8, <2>1, <2>2 DEF Written
<1>11. /\ Len(got[s]) <= Len(p) /\ \A i \in 1 .. Len(got[s]) : got[s][i] = p[i]
       /\ arrived[s] <= Len(b)
  BY <1>1 DEF Given, p, b
<1>12. Given(s)'
  <2>1. \A i \in 1 .. Len(got[s]) : got[s][i] = p2[i]
    BY <1>2, <1>8, <1>11
  <2>2. Len(got[s]) <= Len(p2)
    BY <1>2, <1>8
  <2>3. arrived[s] <= Len(b2)
    BY <1>2, <1>8, <1>11
  <2> QED BY <1>3, <1>4, <2>1, <2>2, <2>3 DEF Given
<1>13. Mark(s)' = Mark(s) /\ ReadLimit(s)' = ReadLimit(s)
  <2>1. Start(e2, Len(got[s]) + 1) = Start(e, Len(got[s]) + 1)
    BY <1>2, <1>8
  <2> QED BY <1>3, <1>6, <2>1 DEF Mark, ReadLimit, e
<1>14. Buffered(s) => Buffered(s)'
  <2> SUFFICES ASSUME Buffered(s) PROVE Buffered(s)'
    OBVIOUS
  <2>1. ASSUME NEW k \in 1 .. Len(buffer[s])
        PROVE  buffer[s][k] = b2[Mark(s) + k]
    <3>1. arrived[s] = Mark(s) + Len(buffer[s]) /\ buffer[s][k] = b[Mark(s) + k]
      BY DEF Buffered, b
    <3> DEFINE j == Mark(s) + k
    <3>2. j \in 1 .. Len(b)
      BY <1>2, <1>11, <3>1
    <3> HIDE DEF j
    <3>3. b2[j] = b[j]
      BY <1>8, <3>2
    <3> QED BY <3>1, <3>3 DEF j
  <2> QED BY <1>3, <1>4, <1>13, <2>1 DEF Buffered
<1>15. Len(got[s]) < Len(p) =>
         Len(got[s]) < Len(p2) /\ p2[Len(got[s]) + 1] = p[Len(got[s]) + 1]
  BY <1>2, <1>8, SMTT(30)
<1>16. Phased(s)'
  BY <1>1, <1>3, <1>4, <1>13, <1>14, <1>15 DEF Phased, p
<1>17. OnlyAt(s)
  BY <1>1, <1>3, <1>5 DEF OnlyAt, LinkTypeOK
<1> QED BY <1>9, <1>10, <1>12, <1>16, <1>17, OneStream

\* A step of the reader of s.
LEMMA ReaderStep ==
  ASSUME LinkInv, NEW s \in Stream, OnlyAt(s), LinkTypeOK',
         UNCHANGED <<limits, bytes, ended, sent, ends>>, Given(s)', Phased(s)'
  PROVE  LinkInv'
<1>1. Written(s)'
  <2>1. Written(s)
    BY DEF LinkInv
  <2> QED BY <2>1 DEF Written
<1> QED BY <1>1, OneStream

\* What the reader of s may rely on.
LEMMA ReaderFacts ==
  ASSUME LinkInv, NEW s \in Stream, phase[s] # "closed"
  PROVE  /\ LinkTypeOK /\ Written(s) /\ Given(s) /\ Phased(s) /\ Buffered(s)
         /\ arrived[s] = Mark(s) + Len(buffer[s])
         /\ \A k \in 1 .. Len(buffer[s]) : buffer[s][k] = bytes[s][Mark(s) + k]
         /\ arrived[s] <= Len(bytes[s])
         /\ HeaderSize = 4
<1>1. LinkTypeOK /\ Written(s) /\ Given(s) /\ Phased(s)
  BY DEF LinkInv
<1>2. Buffered(s)
  BY <1>1 DEF Phased
<1> QED BY <1>1, <1>2 DEF Buffered, Given, HeaderSize

LEMMA RecvPartKeeps ==
  ASSUME LinkInv, NEW s \in Stream, NEW n, RecvPart(s, n)
  PROVE  LinkInv'
<1>1. /\ IsUp(s) /\ phase[s] \in {"head", "body"} /\ Take(s, n)
      /\ Len(buffer[s]) + n < Wanted(s)
      /\ buffer' = [buffer EXCEPT ![s] = Extended(s, n)]
      /\ UNCHANGED <<limits, bytes, need, phase, ended, sent, ends, got>>
  BY DEF RecvPart
<1>2. LinkTypeOK /\ Written(s) /\ Given(s) /\ Phased(s) /\ Buffered(s)
  BY <1>1, ReaderFacts
<1> DEFINE x == Extended(s, n)
<1>3. /\ x \in Seq(Byte) /\ n \in Nat \ {0} /\ Len(x) = Len(buffer[s]) + n
      /\ arrived' = [arrived EXCEPT ![s] = @ + n] /\ arrived'[s] \in Nat
      /\ arrived'[s] = Mark(s) + Len(x) /\ arrived'[s] <= Len(bytes[s])
      /\ \A k \in 1 .. Len(x) : x[k] = bytes[s][Mark(s) + k]
  BY <1>1, <1>2, ExtendedBytes
<1> HIDE DEF x
<1>4. buffer'[s] = x
  BY <1>1, <1>2 DEF LinkTypeOK, x
<1>5. LinkTypeOK'
  BY <1>1, <1>2, <1>3 DEF LinkTypeOK, x
<1>6. OnlyAt(s)
  BY <1>1, <1>2, <1>3 DEF OnlyAt, LinkTypeOK
<1>7. Given(s)'
  BY <1>1, <1>2, <1>3 DEF Given
<1>8. Mark(s)' = Mark(s)
  BY <1>1 DEF Mark
<1>9. Buffered(s)'
  BY <1>1, <1>3, <1>4, <1>8 DEF Buffered
<1>10. Phased(s)'
  BY <1>1, <1>2, <1>3, <1>4, <1>9 DEF Phased, Wanted
<1> QED BY <1>1, <1>5, <1>6, <1>7, <1>10, ReaderStep

LEMMA DataKeeps ==
  ASSUME LinkInv, NEW s \in Stream, NEW n, Data(s, n)
  PROVE  LinkInv'
<1>1. /\ ~IsUp(s) /\ phase[s] = "head" /\ Take(s, n)
      /\ buffer' = [buffer EXCEPT ![s] = Extended(s, n)]
      /\ UNCHANGED <<limits, bytes, need, phase, ended, sent, ends, got>>
  BY DEF Data
<1>2. LinkTypeOK /\ Written(s) /\ Given(s) /\ Phased(s) /\ Buffered(s)
  BY <1>1, ReaderFacts
<1> DEFINE x == Extended(s, n)
<1>3. /\ x \in Seq(Byte) /\ n \in Nat \ {0} /\ Len(x) = Len(buffer[s]) + n
      /\ arrived' = [arrived EXCEPT ![s] = @ + n] /\ arrived'[s] \in Nat
      /\ arrived'[s] = Mark(s) + Len(x) /\ arrived'[s] <= Len(bytes[s])
      /\ \A k \in 1 .. Len(x) : x[k] = bytes[s][Mark(s) + k]
  BY <1>1, <1>2, ExtendedBytes
<1> HIDE DEF x
<1>4. buffer'[s] = x
  BY <1>1, <1>2 DEF LinkTypeOK, x
<1>5. LinkTypeOK'
  BY <1>1, <1>2, <1>3 DEF LinkTypeOK, x
<1>6. OnlyAt(s)
  BY <1>1, <1>2, <1>3 DEF OnlyAt, LinkTypeOK
<1>7. Given(s)'
  BY <1>1, <1>2, <1>3 DEF Given
<1>8. Mark(s)' = Mark(s)
  BY <1>1 DEF Mark
<1>9. Buffered(s)'
  BY <1>1, <1>3, <1>4, <1>8 DEF Buffered
<1>10. Phased(s)'
  BY <1>1, <1>9 DEF Phased
<1> QED BY <1>1, <1>5, <1>6, <1>7, <1>10, ReaderStep

\* The length of the next frame, read from the bytes h behind the mark.
LEMMA NextLength ==
  ASSUME LinkInv, NEW s \in Stream, phase[s] = "head", NEW h \in Seq(Byte),
         Len(h) >= HeaderSize, Mark(s) + Len(h) <= Len(bytes[s]),
         \A k \in 1 .. Len(h) : h[k] = bytes[s][Mark(s) + k]
  PROVE  /\ Len(got[s]) < Len(sent[s])
         /\ Length(h) = Len(sent[s][Len(got[s]) + 1]) /\ Length(h) \in Nat
         /\ Mark(s) = Start(ends[s], Len(got[s]) + 1)
         /\ Start(ends[s], Len(got[s]) + 2) = Mark(s) + HeaderSize + Length(h)
<1>1. LinkTypeOK /\ Written(s) /\ Given(s) /\ Phased(s) /\ HeaderSize = 4
  BY ReaderFacts
<1> DEFINE g == Len(got[s])
<1>2. /\ bytes[s] \in Seq(Byte) /\ sent[s] \in Seq(Payload) /\ ends[s] \in Seq(Nat)
      /\ LaidOut(bytes[s], sent[s], ends[s]) /\ g \in 0 .. Len(sent[s])
      /\ Start(ends[s], g + 1) \in Nat
  BY <1>1, MarkIsPlace
<1>3. Mark(s) = Start(ends[s], g + 1)
  BY <1>2 DEF Mark
<1> HIDE DEF g
<1>4. \A k \in 1 .. HeaderSize : h[k] = bytes[s][Start(ends[s], g + 1) + k]
  BY <1>1, <1>3
<1>5. Start(ends[s], g + 1) + HeaderSize <= Len(bytes[s])
  BY <1>1, <1>2, <1>3
<1>6. /\ g < Len(sent[s]) /\ Length(h) = Len(sent[s][g + 1])
      /\ Start(ends[s], g + 2) = Start(ends[s], g + 1) + HeaderSize + Len(sent[s][g + 1])
  BY <1>2, <1>4, <1>5, HeaderRead, ZenonT(30)
<1>7. Length(h) \in Nat
  <2>1. g + 1 \in 1 .. Len(sent[s])
    BY <1>2, <1>6
  <2> QED BY <1>2, <1>6, <2>1, OneFrame
<1> QED BY <1>3, <1>6, <1>7 DEF g

\* The reader of s is given the next payload.
DeliversNext(s) ==
  /\ Len(got[s]) < Len(sent[s])
  /\ got' = [got EXCEPT ![s] = Append(@, sent[s][Len(got[s]) + 1])]

LEMMA RecvHeaderKeeps ==
  ASSUME LinkInv, NEW s \in Stream, NEW n, RecvHeader(s, n)
  PROVE  LinkInv' /\ (got' = got \/ DeliversNext(s))
<1> DEFINE x == Extended(s, n)
           len == Length(x)
           g == Len(got[s])
<1>1. /\ IsUp(s) /\ phase[s] = "head" /\ Take(s, n)
      /\ Len(buffer[s]) + n = HeaderSize
      /\ UNCHANGED <<limits, bytes, ended, sent, ends>>
  BY DEF RecvHeader
<1>2. LinkTypeOK /\ Written(s) /\ Given(s) /\ Phased(s) /\ Buffered(s) /\ HeaderSize = 4
  BY <1>1, ReaderFacts
<1>3. /\ x \in Seq(Byte) /\ n \in Nat \ {0} /\ Len(x) = HeaderSize
      /\ arrived' = [arrived EXCEPT ![s] = @ + n] /\ arrived'[s] \in Nat
      /\ arrived'[s] = Mark(s) + HeaderSize /\ arrived'[s] <= Len(bytes[s])
      /\ \A k \in 1 .. Len(x) : x[k] = bytes[s][Mark(s) + k]
  <2>1. /\ x \in Seq(Byte) /\ n \in Nat \ {0} /\ Len(x) = Len(buffer[s]) + n
        /\ arrived' = [arrived EXCEPT ![s] = @ + n] /\ arrived'[s] \in Nat
        /\ arrived'[s] = Mark(s) + Len(x) /\ arrived'[s] <= Len(bytes[s])
        /\ \A k \in 1 .. Len(x) : x[k] = bytes[s][Mark(s) + k]
    BY <1>1, <1>2, ExtendedBytes
  <2> HIDE DEF x
  <2>2. Len(x) = HeaderSize
    BY <1>1, <2>1
  <2> QED BY <2>1, <2>2
<1>4. /\ g < Len(sent[s]) /\ len = Len(sent[s][g + 1]) /\ len \in Nat
      /\ Mark(s) = Start(ends[s], g + 1)
      /\ Start(ends[s], g + 2) = Mark(s) + HeaderSize + len
  <2> HIDE DEF x
  <2>1. x \in Seq(Byte) /\ Len(x) >= HeaderSize /\ Mark(s) + Len(x) <= Len(bytes[s])
    BY <1>2, <1>3
  <2>2. \A k \in 1 .. Len(x) : x[k] = bytes[s][Mark(s) + k]
    BY <1>3
  <2> QED BY <1>1, <2>1, <2>2, NextLength
<1>5. ASSUME /\ \A t \in Stream \ {s} : need'[t] = need[t] /\ phase'[t] = phase[t]
             /\ \A t \in Stream \ {s} : buffer'[t] = buffer[t] /\ got'[t] = got[t]
      PROVE  OnlyAt(s)
  BY <1>1, <1>2, <1>3, <1>5 DEF OnlyAt, LinkTypeOK
<1>6. Mark(s) \in Nat /\ g \in Nat /\ got[s] \in Seq(Payload)
  BY <1>2, MarkIsPlace
<1>7. CASE len > ReadLimit(s)
  <2>1. /\ phase' = [phase EXCEPT ![s] = "refused"]
        /\ buffer' = [buffer EXCEPT ![s] = x] /\ UNCHANGED <<need, got>>
    <3>1. limits.server \in Nat /\ limits.gateway \in Nat /\ ReadLimit(s) \in Nat
      BY <1>2 DEF LinkTypeOK, ReadLimit
    <3>2. ~(len <= ReadLimit(s))
      BY <1>4, <1>7, <3>1
    <3> QED BY <3>2 DEF RecvHeader
  <2> HIDE DEF x, g
  <2>2. LinkTypeOK'
    BY <1>1, <1>2, <1>3, <2>1 DEF LinkTypeOK
  <2>3. buffer'[s] = x /\ phase'[s] = "refused"
    BY <1>2, <2>1 DEF LinkTypeOK
  <2>4. Given(s)'
    BY <1>1, <1>2, <1>3, <2>1 DEF Given
  <2>5. Mark(s)' = Mark(s) /\ ReadLimit(s)' = ReadLimit(s)
    <3>1. phase[s] # "body" /\ phase'[s] # "body"
      BY <1>1, <2>3
    <3> QED BY <1>1, <2>1, <3>1 DEF Mark, ReadLimit
  <2>6. Buffered(s)'
    BY <1>1, <1>3, <2>3, <2>5 DEF Buffered
  <2>7. Phased(s)'
    BY <1>1, <1>4, <1>7, <2>1, <2>3, <2>5, <2>6 DEF Phased, g
  <2>8. OnlyAt(s)
    BY <1>2, <1>5, <2>1 DEF LinkTypeOK
  <2> QED BY <1>1, <2>1, <2>2, <2>4, <2>7, <2>8, ReaderStep
<1>8. CASE len <= ReadLimit(s)
  <2>1. /\ got' = IF len = 0 THEN [got EXCEPT ![s] = Append(@, <<>>)] ELSE got
        /\ phase' = [phase EXCEPT ![s] = IF len = 0 THEN "head" ELSE "body"]
        /\ need' = [need EXCEPT ![s] = len]
        /\ buffer' = [buffer EXCEPT ![s] = <<>>]
    <3>1. limits.server \in Nat /\ limits.gateway \in Nat /\ ReadLimit(s) \in Nat
      BY <1>2 DEF LinkTypeOK, ReadLimit
    <3>2. ~(len > ReadLimit(s))
      BY <1>4, <1>8, <3>1
    <3> QED BY <3>2 DEF RecvHeader
  <2> HIDE DEF x, len
  <2>2. buffer'[s] = <<>> /\ need'[s] = len /\ phase'[s] = IF len = 0 THEN "head" ELSE "body"
    BY <1>2, <2>1 DEF LinkTypeOK
  <2>3. Len(buffer'[s]) = 0 /\ <<>> \in Seq(Byte)
    BY <2>2
  <2>4. CASE len = 0
    <3>1. sent[s][g + 1] = <<>>
      <4>1. g + 1 \in 1 .. Len(sent[s]) /\ sent[s] \in Seq(Payload)
        BY <1>2, <1>4, <1>6, SMTT(30) DEF LinkTypeOK
      <4>2. sent[s][g + 1] \in Seq(Byte)
        BY <4>1 DEF Payload
      <4> QED BY <1>4, <2>4, <4>2, EmptySeq
    <3>2. got' = [got EXCEPT ![s] = Append(@, sent[s][Len(got[s]) + 1])]
      BY <2>1, <2>4, <3>1
    <3>3. /\ got' \in [Stream -> Seq(Payload)]
          /\ Len(got'[s]) = g + 1 /\ Len(got'[s]) <= Len(sent[s])
          /\ \A i \in 1 .. Len(got'[s]) : got'[s][i] = sent[s][i]
      BY <1>2, <1>4, <3>2, GivenNext
    <3>4. LinkTypeOK'
      BY <1>1, <1>2, <1>3, <1>4, <2>1, <2>3, <2>4, <3>3 DEF LinkTypeOK
    <3>5. Given(s)'
      BY <1>1, <1>3, <3>3 DEF Given
    <3>6. Mark(s)' = Mark(s) + HeaderSize
      <4>1. Mark(s)' = Start(ends[s], (g + 1) + 1)
        <5>1. Start(ends[s], (g + 1) + 1) \in Nat
          BY <1>2, <1>4, <1>6, <2>4
        <5> HIDE DEF g
        <5> QED BY <1>1, <2>2, <2>4, <3>3, <5>1 DEF Mark
      <4> QED BY <1>2, <1>4, <1>6, <2>4, <4>1
    <3>7. Buffered(s)'
      BY <1>1, <1>2, <1>3, <1>6, <2>3, <3>6 DEF Buffered
    <3>8. Phased(s)'
      BY <1>2, <2>2, <2>3, <2>4, <3>7 DEF Phased
    <3>9. OnlyAt(s)
      BY <1>2, <1>5, <2>1, <3>2 DEF LinkTypeOK
    <3>10. LinkInv'
      BY <1>1, <3>4, <3>5, <3>8, <3>9, ReaderStep
    <3> QED BY <1>4, <3>2, <3>10 DEF DeliversNext
  <2>5. CASE len # 0
    <3>1. got' = got /\ phase'[s] = "body" /\ phase' = [phase EXCEPT ![s] = "body"]
      BY <2>1, <2>2, <2>5
    <3>2. LinkTypeOK'
      <4>1. need' \in [Stream -> Nat] /\ buffer' \in [Stream -> Seq(Byte)]
        BY <1>2, <1>4, <2>1, <2>3 DEF LinkTypeOK
      <4>2. arrived' \in [Stream -> Nat]
        BY <1>2, <1>3 DEF LinkTypeOK
      <4>3. phase' \in [Stream -> {"head", "body", "refused", "closed"}]
        BY <1>2, <3>1 DEF LinkTypeOK
      <4> QED BY <1>1, <1>2, <3>1, <4>1, <4>2, <4>3 DEF LinkTypeOK
    <3>3. Given(s)'
      BY <1>1, <1>2, <1>3, <3>1 DEF Given
    <3>4. Mark(s)' = Mark(s) + HeaderSize
      BY <1>1, <1>4, <3>1 DEF Mark
    <3>5. Buffered(s)'
      BY <1>1, <1>2, <1>3, <1>6, <2>3, <3>4 DEF Buffered
    <3>6. Phased(s)'
      BY <1>1, <1>4, <2>2, <2>3, <2>5, <3>1, <3>5 DEF Phased
    <3>7. OnlyAt(s)
      BY <1>2, <1>5, <2>1, <3>1 DEF LinkTypeOK
    <3> QED BY <1>1, <3>1, <3>2, <3>3, <3>6, <3>7, ReaderStep
  <2> QED BY <2>4, <2>5
<1>9. len > ReadLimit(s) \/ len <= ReadLimit(s)
  BY DEF RecvHeader
<1> QED BY <1>7, <1>8, <1>9

LEMMA RecvBodyKeeps ==
  ASSUME LinkInv, NEW s \in Stream, NEW n, RecvBody(s, n)
  PROVE  LinkInv' /\ DeliversNext(s)
<1> DEFINE x == Extended(s, n)
           g == Len(got[s])
<1>1. /\ IsUp(s) /\ phase[s] = "body" /\ Take(s, n)
      /\ Len(buffer[s]) + n = need[s]
      /\ got' = [got EXCEPT ![s] = Append(@, x)]
      /\ phase' = [phase EXCEPT ![s] = "head"]
      /\ buffer' = [buffer EXCEPT ![s] = <<>>]
      /\ UNCHANGED <<limits, bytes, need, ended, sent, ends>>
  BY DEF RecvBody
<1>2. LinkTypeOK /\ Written(s) /\ Given(s) /\ Phased(s) /\ Buffered(s) /\ HeaderSize = 4
  BY <1>1, ReaderFacts
<1>3. /\ x \in Seq(Byte) /\ n \in Nat \ {0} /\ Len(x) = need[s]
      /\ arrived' = [arrived EXCEPT ![s] = @ + n] /\ arrived'[s] \in Nat
      /\ arrived'[s] = Mark(s) + need[s] /\ arrived'[s] <= Len(bytes[s])
      /\ \A k \in 1 .. Len(x) : x[k] = bytes[s][Mark(s) + k]
  BY <1>1, <1>2, ExtendedBytes
<1> HIDE DEF x
<1>4. /\ bytes[s] \in Seq(Byte) /\ sent[s] \in Seq(Payload) /\ ends[s] \in Seq(Nat)
      /\ LaidOut(bytes[s], sent[s], ends[s]) /\ g \in 0 .. Len(sent[s])
      /\ Start(ends[s], g + 1) \in Nat
  BY <1>2, MarkIsPlace
<1>5. Mark(s) = Start(ends[s], g + 1) + HeaderSize
  BY <1>1 DEF Mark
<1>6. g < Len(sent[s]) /\ need[s] = Len(sent[s][g + 1]) /\ need[s] \in Nat
  BY <1>1, <1>2 DEF Phased, LinkTypeOK
<1> HIDE DEF g
<1>7. x = sent[s][g + 1]
  <2>1. g \in 0 .. Len(sent[s]) - 1
    BY <1>4, <1>6
  <2>2. Start(ends[s], g + 1) + HeaderSize + Len(x) <= Len(bytes[s])
    BY <1>3, <1>5
  <2>3. \A k \in 1 .. Len(x) : x[k] = bytes[s][Start(ends[s], g + 1) + HeaderSize + k]
    BY <1>3, <1>5
  <2>4. x \in Seq(Byte) /\ Len(x) = Len(sent[s][g + 1])
    BY <1>3, <1>6
  <2>5. /\ bytes[s] \in Seq(Byte) /\ sent[s] \in Seq(Payload) /\ ends[s] \in Seq(Nat)
        /\ LaidOut(bytes[s], sent[s], ends[s])
    BY <1>4
  <2> QED BY <2>1, <2>2, <2>3, <2>4, <2>5, BodyRead
<1>8. g + 1 \in 1 .. Len(sent[s]) /\ (g + 1) + 1 = g + 2
  BY <1>4, <1>6
<1>9. Start(ends[s], (g + 1) + 1) = Mark(s) + need[s]
  BY <1>4, <1>5, <1>6, <1>8, OneFrame
<1>10. got' = [got EXCEPT ![s] = Append(@, sent[s][Len(got[s]) + 1])]
  BY <1>1, <1>7 DEF g
<1>11. /\ got' \in [Stream -> Seq(Payload)]
       /\ Len(got'[s]) = g + 1 /\ Len(got'[s]) <= Len(sent[s])
       /\ \A i \in 1 .. Len(got'[s]) : got'[s][i] = sent[s][i]
  BY <1>2, <1>6, <1>10, GivenNext DEF g
<1>12. /\ buffer'[s] = <<>> /\ phase'[s] = "head" /\ Len(buffer'[s]) = 0 /\ <<>> \in Seq(Byte)
  BY <1>1, <1>2 DEF LinkTypeOK
<1>13. LinkTypeOK'
  BY <1>1, <1>2, <1>3, <1>11, <1>12 DEF LinkTypeOK
<1>14. OnlyAt(s)
  BY <1>1, <1>2, <1>3 DEF OnlyAt, LinkTypeOK
<1>15. Given(s)'
  BY <1>1, <1>3, <1>11 DEF Given
<1>16. Mark(s)' = Mark(s) + need[s] /\ Mark(s)' \in Nat
  <2>1. Start(ends[s], (g + 1) + 1) \in Nat
    BY <1>3, <1>9
  <2> QED BY <1>1, <1>9, <1>11, <1>12, <2>1 DEF Mark
<1>17. Buffered(s)'
  BY <1>3, <1>12, <1>16 DEF Buffered
<1>18. Phased(s)'
  BY <1>2, <1>12, <1>17 DEF Phased
<1>19. LinkInv'
  BY <1>1, <1>13, <1>14, <1>15, <1>18, ReaderStep
<1> QED BY <1>6, <1>10, <1>19 DEF g, DeliversNext

LEMMA ExtractKeeps ==
  ASSUME LinkInv, NEW s \in Stream, Extract(s)
  PROVE  LinkInv' /\ DeliversNext(s)
<1> DEFINE u == buffer[s]
           b == bytes[s]
           g == Len(got[s])
           len == Length(u)
           x == SubSeq(u, HeaderSize + 1, HeaderSize + len)
           v == SubSeq(u, HeaderSize + len + 1, Len(u))
<1>1. /\ ~IsUp(s) /\ phase[s] = "head"
      /\ Len(u) >= HeaderSize /\ Len(u) >= HeaderSize + len
      /\ got' = [got EXCEPT ![s] = Append(@, x)]
      /\ buffer' = [buffer EXCEPT ![s] = v]
      /\ UNCHANGED <<limits, bytes, arrived, need, phase, ended, sent, ends>>
  BY DEF Extract, Decoding, Whole
<1>2. /\ LinkTypeOK /\ Written(s) /\ Given(s) /\ Phased(s) /\ HeaderSize = 4
      /\ arrived[s] = Mark(s) + Len(u)
      /\ \A k \in 1 .. Len(u) : u[k] = b[Mark(s) + k]
      /\ arrived[s] <= Len(b)
  BY <1>1, ReaderFacts
<1>3. /\ u \in Seq(Byte) /\ Len(u) \in Nat /\ Mark(s) \in Nat
      /\ b \in Seq(Byte) /\ sent[s] \in Seq(Payload) /\ ends[s] \in Seq(Nat)
      /\ LaidOut(b, sent[s], ends[s]) /\ g \in 0 .. Len(sent[s])
      /\ Start(ends[s], g + 1) \in Nat
  BY <1>2, MarkIsPlace
<1>4. /\ g < Len(sent[s]) /\ len = Len(sent[s][g + 1]) /\ len \in Nat
      /\ Mark(s) = Start(ends[s], g + 1)
      /\ Start(ends[s], g + 2) = Mark(s) + HeaderSize + len
  <2> HIDE DEF u
  <2>1. /\ u \in Seq(Byte) /\ Len(u) >= HeaderSize /\ Mark(s) + Len(u) <= Len(bytes[s])
        /\ \A k \in 1 .. Len(u) : u[k] = bytes[s][Mark(s) + k]
    BY <1>1, <1>2, <1>3
  <2> QED BY <1>1, <2>1, NextLength
<1> HIDE DEF u, len, b
<1>5. x \in Seq(Byte) /\ Len(x) = len /\ \A k \in 1 .. len : x[k] = u[HeaderSize + k]
  <2>1. \A i \in HeaderSize + 1 .. HeaderSize + len : u[i] \in Byte
    <3>1. HeaderSize + len <= Len(u)
      BY <1>1
    <3>2. \A i \in HeaderSize + 1 .. HeaderSize + len : i \in 1 .. Len(u)
      BY <1>2, <1>3, <1>4, <3>1
    <3> QED BY <1>3, <3>2, ElementOfSeq
  <2>2. /\ HeaderSize + 1 \in Int /\ HeaderSize + len \in Int
        /\ (HeaderSize + len) - (HeaderSize + 1) + 1 = len
        /\ HeaderSize + 1 <= HeaderSize + len \/ len = 0
    BY <1>2, <1>4, SMTT(30)
  <2>3. /\ x \in Seq(Byte)
        /\ Len(x) = IF HeaderSize + 1 <= HeaderSize + len THEN len ELSE 0
        /\ \A k \in 1 .. len : x[k] = u[(HeaderSize + 1) + k - 1]
    BY <2>1, <2>2, SubSeqProperties
  <2>4. \A k \in 1 .. len : (HeaderSize + 1) + k - 1 = HeaderSize + k
    BY <1>2
  <2> QED BY <1>2, <1>4, <2>2, <2>3, <2>4
<1> DEFINE h == HeaderSize + len
<1>6. h \in Nat /\ h <= Len(u)
  BY <1>1, <1>2, <1>4, SMTT(30)
<1>7. v \in Seq(Byte) /\ Len(v) = Len(u) - h /\ \A k \in 1 .. Len(v) : v[k] = u[h + k]
  <2>0. v = SubSeq(u, h + 1, Len(u))
    OBVIOUS
  <2> HIDE DEF h, v
  <2>1. \A i \in h + 1 .. Len(u) : u[i] \in Byte
    BY <1>3, <1>6
  <2>2. h + 1 \in Int /\ Len(u) \in Int /\ Len(u) - (h + 1) + 1 = Len(u) - h
    BY <1>3, <1>6
  <2>3. /\ v \in Seq(Byte)
        /\ Len(v) = IF h + 1 <= Len(u) THEN Len(u) - h ELSE 0
        /\ \A k \in 1 .. Len(u) - h : v[k] = u[(h + 1) + k - 1]
    BY <2>0, <2>1, <2>2, SubSeqProperties
  <2>4. \A k \in 1 .. Len(u) - h : (h + 1) + k - 1 = h + k
    BY <1>6
  <2>5. Len(v) = Len(u) - h
    BY <1>3, <1>6, <2>3
  <2> QED BY <2>3, <2>4, <2>5
<1> HIDE DEF x, v, g
<1>8. x = sent[s][g + 1]
  <2>1. g \in 0 .. Len(sent[s]) - 1
    BY <1>3, <1>4
  <2>2. Start(ends[s], g + 1) + HeaderSize + Len(x) <= Len(b)
    BY <1>1, <1>2, <1>3, <1>4, <1>5, SMTT(30)
  <2>3. ASSUME NEW k \in 1 .. Len(x)
        PROVE  x[k] = b[Start(ends[s], g + 1) + HeaderSize + k]
    <3> DEFINE j == HeaderSize + k
    <3>1. j \in 1 .. Len(u) /\ Mark(s) + j = Start(ends[s], g + 1) + HeaderSize + k
      <4>1. HeaderSize + len <= Len(u) /\ k \in 1 .. len
        BY <1>1, <1>5
      <4>2. j \in 1 .. Len(u)
        <5>1. HeaderSize \in Nat /\ len \in Nat /\ Len(u) \in Nat
          BY <1>2, <1>3, <1>4
        <5> QED BY <4>1, <5>1
      <4>3. Mark(s) + j = Mark(s) + HeaderSize + k
        BY <1>2, <1>3
      <4> QED BY <1>4, <4>2, <4>3
    <3> HIDE DEF j
    <3>2. u[j] = b[Mark(s) + j]
      BY <1>2, <3>1
    <3>3. x[k] = u[j]
      BY <1>5 DEF j
    <3> QED BY <3>1, <3>2, <3>3
  <2>4. x \in Seq(Byte) /\ Len(x) = Len(sent[s][g + 1])
    BY <1>4, <1>5
  <2>5. /\ b \in Seq(Byte) /\ sent[s] \in Seq(Payload) /\ ends[s] \in Seq(Nat)
        /\ LaidOut(b, sent[s], ends[s])
    BY <1>3
  <2> QED BY <2>1, <2>2, <2>3, <2>4, <2>5, BodyRead
<1>9. DeliversNext(s)
  BY <1>1, <1>4, <1>8 DEF DeliversNext, g
<1>10. /\ got' \in [Stream -> Seq(Payload)]
       /\ Len(got'[s]) = g + 1 /\ Len(got'[s]) <= Len(sent[s])
       /\ \A i \in 1 .. Len(got'[s]) : got'[s][i] = sent[s][i]
  BY <1>2, <1>9, GivenNext DEF g, DeliversNext
<1>11. buffer'[s] = v /\ phase'[s] = "head"
  BY <1>1, <1>2 DEF LinkTypeOK
<1>12. LinkTypeOK'
  BY <1>1, <1>2, <1>7, <1>10 DEF LinkTypeOK
<1>13. OnlyAt(s)
  BY <1>1, <1>2 DEF OnlyAt, LinkTypeOK
<1>14. Given(s)'
  <2>1. Len(got'[s]) <= Len(sent[s]) /\ arrived[s] <= Len(bytes[s])
    BY <1>2, <1>10 DEF b
  <2> QED BY <1>1, <1>10, <2>1 DEF Given
<1>15. Mark(s)' = Mark(s) + h /\ Mark(s)' \in Nat
  <2>1. (g + 1) + 1 = g + 2
    BY <1>3
  <2>2. Mark(s)' = Start(ends[s], g + 2) + 0
    BY <1>1, <1>10, <1>11, <2>1 DEF Mark
  <2>3. Mark(s) + HeaderSize + len = Mark(s) + h /\ Mark(s) + h \in Nat
    <3>1. Mark(s) + HeaderSize + len = Mark(s) + (HeaderSize + len)
      <4>1. Mark(s) \in Nat /\ HeaderSize \in Nat /\ len \in Nat
        BY <1>2, <1>3, <1>4
      <4> QED BY <4>1
    <3> QED BY <1>3, <1>6, <3>1
  <2> QED BY <1>4, <2>2, <2>3
<1> HIDE DEF h
<1>16. Buffered(s)'
  <2>1. arrived[s] = (Mark(s) + h) + Len(v)
    BY <1>2, <1>3, <1>6, <1>7
  <2>2. ASSUME NEW k \in 1 .. Len(v)
        PROVE  v[k] = b[(Mark(s) + h) + k]
    <3> DEFINE j == h + k
    <3>1. j \in 1 .. Len(u) /\ Mark(s) + j = (Mark(s) + h) + k
      BY <1>3, <1>6, <1>7
    <3> HIDE DEF j
    <3>2. u[j] = b[Mark(s) + j]
      BY <1>2, <3>1
    <3>3. v[k] = u[j]
      BY <1>7 DEF j
    <3> QED BY <3>1, <3>2, <3>3
  <2> QED BY <1>1, <1>11, <1>15, <2>1, <2>2 DEF Buffered, b
<1>17. Phased(s)'
  BY <1>1, <1>11, <1>16 DEF Phased
<1>18. LinkInv'
  BY <1>1, <1>12, <1>13, <1>14, <1>17, ReaderStep
<1> QED BY <1>9, <1>18

LEMMA TooLargeKeeps ==
  ASSUME LinkInv, NEW s \in Stream, TooLarge(s)
  PROVE  LinkInv'
<1> DEFINE u == buffer[s]
<1>1. /\ ~IsUp(s) /\ phase[s] = "head"
      /\ Len(u) >= HeaderSize /\ Length(u) > ReadLimit(s)
      /\ phase' = [phase EXCEPT ![s] = "refused"]
      /\ UNCHANGED <<limits, bytes, arrived, buffer, need, ended, sent, ends, got>>
  BY DEF TooLarge, Decoding, Oversized
<1>2. /\ LinkTypeOK /\ Written(s) /\ Given(s) /\ Buffered(s) /\ HeaderSize = 4
      /\ arrived[s] = Mark(s) + Len(u)
      /\ \A k \in 1 .. Len(u) : u[k] = bytes[s][Mark(s) + k]
      /\ arrived[s] <= Len(bytes[s]) /\ u \in Seq(Byte)
  BY <1>1, ReaderFacts DEF LinkTypeOK
<1>3. Len(got[s]) < Len(sent[s]) /\ Length(u) = Len(sent[s][Len(got[s]) + 1])
  <2> HIDE DEF u
  <2>1. Mark(s) + Len(u) <= Len(bytes[s])
    BY <1>2
  <2> QED BY <1>1, <1>2, <2>1, NextLength
<1>4. phase'[s] = "refused"
  BY <1>1, <1>2 DEF LinkTypeOK
<1>5. LinkTypeOK'
  BY <1>1, <1>2 DEF LinkTypeOK
<1>6. OnlyAt(s)
  BY <1>1, <1>2 DEF OnlyAt, LinkTypeOK
<1>7. Given(s)'
  BY <1>1, <1>2 DEF Given
<1>8. Mark(s)' = Mark(s) /\ ReadLimit(s)' = ReadLimit(s)
  BY <1>1, <1>4 DEF Mark, ReadLimit
<1>9. Buffered(s)'
  BY <1>1, <1>2, <1>8 DEF Buffered
<1>10. Phased(s)'
  BY <1>1, <1>3, <1>4, <1>8, <1>9 DEF Phased
<1> QED BY <1>1, <1>5, <1>6, <1>7, <1>10, ReaderStep

LEMMA CloseKeeps ==
  ASSUME LinkInv, NEW c \in Conn, NEW d \in {"up", "down"}, NEW n, Close(c, d, n)
  PROVE  LinkInv'
<1> DEFINE s == <<c, d>>
           r == <<c, Other(d)>>
           b == bytes[s]
           b2 == SubSeq(b, 1, n)
<1>1. /\ ~ended[s] /\ n \in arrived[s] .. Len(b)
      /\ bytes' = [bytes EXCEPT ![s] = b2]
      /\ ended' = [ended EXCEPT ![s] = TRUE]
      /\ phase' = [phase EXCEPT ![r] = "closed"]
      /\ UNCHANGED <<limits, arrived, buffer, need, sent, ends, got>>
  BY DEF Close
<1>2. s \in Stream /\ r \in Stream /\ r # s
  BY DEF Stream, Other
<1> HIDE DEF s, r
<1>3. LinkTypeOK /\ \A t \in Stream : Written(t) /\ Given(t) /\ Phased(t)
  BY DEF LinkInv
<1>4. /\ b \in Seq(Byte) /\ sent[s] \in Seq(Payload) /\ ends[s] \in Seq(Nat)
      /\ LaidOut(b, sent[s], ends[s]) /\ arrived[s] \in Nat /\ Mark(s) \in Nat
      /\ buffer[s] \in Seq(Byte)
  BY <1>2, <1>3, MarkIsPlace
<1>5. n \in 0 .. Len(b) /\ arrived[s] <= n
  BY <1>1, <1>4
<1>6. /\ b2 \in Seq(Byte) /\ Len(b2) = n /\ \A k \in 1 .. n : b2[k] = b[k]
      /\ LaidOut(b2, sent[s], ends[s])
  <2> DEFINE p == sent[s]
             e == ends[s]
  <2> HIDE DEF p, e, b
  <2>1. /\ b \in Seq(Byte) /\ p \in Seq(Payload) /\ e \in Seq(Nat) /\ LaidOut(b, p, e)
        /\ n \in 0 .. Len(b)
    BY <1>4, <1>5 DEF p, e
  <2>2. b2 \in Seq(Byte) /\ Len(b2) = n /\ \A k \in 1 .. n : b2[k] = b[k]
    BY <2>1, LaidOutCut
  <2>3. LaidOut(b2, p, e)
    BY <2>1, LaidOutCut
  <2> QED BY <2>2, <2>3 DEF p, e
<1>7. bytes'[s] = b2 /\ ended'[s] = TRUE /\ phase'[s] = phase[s] /\ phase'[r] = "closed"
  BY <1>1, <1>2, <1>3 DEF LinkTypeOK
<1> HIDE DEF b, b2
<1>8. LinkTypeOK'
  BY <1>1, <1>2, <1>3, <1>6 DEF LinkTypeOK
<1>9. Written(s)' /\ Given(s)' /\ Phased(s)'
  <2>1. Mark(s)' = Mark(s) /\ ReadLimit(s)' = ReadLimit(s)
    BY <1>1, <1>7 DEF Mark, ReadLimit
  <2>2. Written(s)'
    <3>1. ~IsUp(s) => \A i \in 1 .. Len(sent[s]) : Len(sent[s][i]) <= limits.server
      BY <1>2, <1>3 DEF Written
    <3> QED BY <1>1, <1>6, <1>7, <3>1 DEF Written
  <2>3. Given(s)'
    <3>1. /\ Len(got[s]) <= Len(sent[s])
          /\ \A i \in 1 .. Len(got[s]) : got[s][i] = sent[s][i]
      BY <1>2, <1>3 DEF Given
    <3> QED BY <1>1, <1>5, <1>6, <1>7, <3>1 DEF Given
  <2>4. Buffered(s) => Buffered(s)'
    <3> SUFFICES ASSUME Buffered(s) PROVE Buffered(s)'
      OBVIOUS
    <3>1. ASSUME NEW k \in 1 .. Len(buffer[s])
          PROVE  buffer[s][k] = b2[Mark(s) + k]
      <4>1. arrived[s] = Mark(s) + Len(buffer[s]) /\ buffer[s][k] = b[Mark(s) + k]
        BY DEF Buffered, b
      <4> DEFINE j == Mark(s) + k
      <4>2. j \in 1 .. n
        BY <1>4, <1>5, <4>1
      <4> HIDE DEF j
      <4>3. b2[j] = b[j]
        BY <1>6, <4>2
      <4> QED BY <4>1, <4>3 DEF j
    <3>2. arrived[s] = Mark(s) + Len(buffer[s])
      BY DEF Buffered
    <3> QED BY <1>1, <1>7, <2>1, <3>1, <3>2 DEF Buffered
  <2>5. Phased(s)'
    <3>1. Phased(s)
      BY <1>2, <1>3
    <3> QED BY <1>1, <1>7, <2>1, <2>4, <3>1 DEF Phased
  <2> QED BY <2>2, <2>3, <2>5
<1>10. Written(r)' /\ Given(r)' /\ Phased(r)'
  <2>1. bytes'[r] = bytes[r] /\ ended'[r] = ended[r]
    BY <1>1, <1>2, <1>3 DEF LinkTypeOK
  <2>2. Written(r) /\ Given(r)
    BY <1>2, <1>3
  <2>3. Written(r)'
    BY <1>1, <2>1, <2>2 DEF Written
  <2>4. Given(r)'
    BY <1>1, <2>1, <2>2 DEF Given
  <2>5. Phased(r)'
    BY <1>7 DEF Phased
  <2> QED BY <2>3, <2>4, <2>5
<1>11. ASSUME NEW t \in Stream, t # s, t # r
       PROVE  Written(t)' /\ Given(t)' /\ Phased(t)'
  <2>1. bytes'[t] = bytes[t] /\ ended'[t] = ended[t] /\ phase'[t] = phase[t]
    BY <1>1, <1>3, <1>11 DEF LinkTypeOK
  <2>2. Written(t) /\ Given(t) /\ Phased(t)
    BY <1>3
  <2>3. /\ limits' = limits /\ arrived'[t] = arrived[t] /\ buffer'[t] = buffer[t]
        /\ need'[t] = need[t] /\ sent'[t] = sent[t] /\ ends'[t] = ends[t] /\ got'[t] = got[t]
    BY <1>1
  <2> QED BY <2>1, <2>2, <2>3, StreamUnchanged
<1> QED BY <1>8, <1>9, <1>10, <1>11 DEF LinkInv
-------------------------------------------------------------------------------
LEMMA LinkInitInv == LinkInit => LinkInv
<1> SUFFICES ASSUME LinkInit PROVE LinkInv
  OBVIOUS
<1> USE DEF LinkInit
<1>1. <<>> \in Seq(Byte) /\ <<>> \in Seq(Payload) /\ <<>> \in Seq(Nat) /\ Len(<<>>) = 0
  OBVIOUS
<1>2. LinkTypeOK
  BY <1>1 DEF LinkTypeOK
<1>3. ASSUME NEW s \in Stream
      PROVE  Written(s) /\ Given(s) /\ Phased(s)
  <2>1. /\ bytes[s] = <<>> /\ sent[s] = <<>> /\ ends[s] = <<>> /\ got[s] = <<>>
        /\ buffer[s] = <<>> /\ arrived[s] = 0 /\ phase[s] = "head"
    OBVIOUS
  <2>2. Start(<<>>, 1) = 0
    BY DEF Start
  <2>3. LaidOut(<<>>, <<>>, <<>>)
    BY <2>2 DEF LaidOut
  <2>4. Written(s)
    BY <2>1, <2>2, <2>3 DEF Written
  <2>5. Given(s)
    BY <2>1 DEF Given
  <2>6. Mark(s) = 0
    BY <2>1, <2>2 DEF Mark
  <2>7. Buffered(s)
    BY <2>1, <2>6 DEF Buffered
  <2>8. Phased(s)
    BY <2>1, <2>7 DEF Phased, HeaderSize
  <2> QED BY <2>4, <2>5, <2>8
<1> QED BY <1>2, <1>3 DEF LinkInv

\* Every step keeps the invariant, and is a step of the channel or none.
LEMMA LinkStep ==
  ASSUME LinkInv, [LinkNext]_linkVars
  PROVE  LinkInv' /\ [Channel!Next]_<<sent, got>>
<1>1. CASE UNCHANGED linkVars
  <2>1. LinkTypeOK' /\ \A s \in Stream : Written(s)' /\ Given(s)' /\ Phased(s)'
    <3>1. LinkTypeOK'
      BY <1>1 DEF linkVars, LinkInv, LinkTypeOK
    <3>2. ASSUME NEW s \in Stream
          PROVE  Written(s)' /\ Given(s)' /\ Phased(s)'
      BY <1>1, StreamUnchanged DEF linkVars, LinkInv
    <3> QED BY <3>1, <3>2
  <2> QED BY <1>1, <2>1 DEF linkVars, LinkInv
<1>2. ASSUME NEW s \in Stream, NEW q \in Payload, Write(s, q)
      PROVE  LinkInv' /\ Channel!Next
  <2>1. LinkInv'
    BY <1>2, WriteKeeps
  <2>2. sent' = [sent EXCEPT ![s] = Append(@, q)] /\ got' = got
    BY <1>2 DEF Write
  <2>3. sent'[s] = Append(sent[s], q) /\ sent[s] \in Seq(Payload)
    BY <2>2 DEF LinkInv, LinkTypeOK
  <2>4. Len(sent'[s]) = Len(sent[s]) + 1 /\ sent'[s][Len(sent'[s])] = q
    BY <2>3
  <2>5. Channel!Send(s)
    BY <2>2, <2>4 DEF Channel!Send
  <2> QED BY <2>1, <2>5 DEF Channel!Next
<1>3. ASSUME NEW s \in Stream, DeliversNext(s), sent' = sent
      PROVE  Channel!Next
  BY <1>3 DEF DeliversNext, Channel!Next, Channel!Deliver
<1>4. ASSUME NEW s \in Stream, NEW n, Recv(s, n)
      PROVE  LinkInv' /\ [Channel!Next]_<<sent, got>>
  <2>1. CASE RecvPart(s, n)
    BY <2>1, RecvPartKeeps DEF RecvPart
  <2>2. CASE RecvHeader(s, n)
    BY <1>3, <2>2, RecvHeaderKeeps DEF RecvHeader
  <2>3. CASE RecvBody(s, n)
    BY <1>3, <2>3, RecvBodyKeeps DEF RecvBody
  <2> QED BY <1>4, <2>1, <2>2, <2>3 DEF Recv
<1>5. ASSUME NEW s \in Stream, NEW n, Data(s, n)
      PROVE  LinkInv' /\ UNCHANGED <<sent, got>>
  BY <1>5, DataKeeps DEF Data
<1>6. ASSUME NEW s \in Stream, Extract(s)
      PROVE  LinkInv' /\ Channel!Next
  BY <1>3, <1>6, ExtractKeeps DEF Extract
<1>7. ASSUME NEW s \in Stream, TooLarge(s)
      PROVE  LinkInv' /\ UNCHANGED <<sent, got>>
  BY <1>7, TooLargeKeeps DEF TooLarge
<1>8. ASSUME NEW c \in Conn, NEW d \in {"up", "down"}, NEW n, Close(c, d, n)
      PROVE  LinkInv' /\ UNCHANGED <<sent, got>>
  BY <1>8, CloseKeeps DEF Close
<1> QED BY <1>1, <1>2, <1>4, <1>5, <1>6, <1>7, <1>8 DEF LinkNext

\* The framing of both programs, whatever is written and however it arrives:
\* buffers hold the bytes from where the next frame starts.
THEOREM LinkInvariant == LinkSpec => []LinkInv
<1>1. LinkInit => LinkInv
  BY LinkInitInv
<1>2. LinkInv /\ [LinkNext]_linkVars => LinkInv'
  BY LinkStep
<1> QED BY <1>1, <1>2, PTL DEF LinkSpec

\* recv_frame and FrameDecoder.push give a frame up only when its length is
\* over the limit, and never for bytes they took to be a length.
THEOREM OnlyTooLargeRefused == LinkSpec => []RefusedIsTooLarge
<1>1. LinkInv => RefusedIsTooLarge
  BY DEF LinkInv, Phased, RefusedIsTooLarge
<1> QED BY <1>1, LinkInvariant, PTL

\* A gateway whose limit is not below the server's never gives a frame up.
THEOREM NothingDiscarded == LinkSpec => []ServerFitsGateway
<1>1. ASSUME LinkInv, limits.server <= limits.gateway, NEW s \in Stream, ~IsUp(s)
      PROVE  phase[s] # "refused"
  <2> SUFFICES ASSUME phase[s] = "refused" PROVE FALSE
    OBVIOUS
  <2> DEFINE i == Len(got[s]) + 1
  <2>1. LinkTypeOK /\ Written(s) /\ Given(s) /\ Phased(s)
    BY <1>1 DEF LinkInv
  <2>2. Len(got[s]) \in 0 .. Len(sent[s]) /\ sent[s] \in Seq(Payload)
    BY <2>1, MarkIsPlace
  <2>3. Len(got[s]) < Len(sent[s]) /\ Len(sent[s][i]) > limits.gateway
    BY <1>1, <2>1 DEF Phased, ReadLimit
  <2>4. i \in 1 .. Len(sent[s])
    BY <2>2, <2>3
  <2> HIDE DEF i
  <2>5. Len(sent[s][i]) <= limits.server
    BY <1>1, <2>1, <2>4 DEF Written
  <2>6. sent[s][i] \in Seq(Byte)
    BY <2>2, <2>4 DEF Payload
  <2>7. limits.server \in Nat /\ limits.gateway \in Nat /\ Len(sent[s][i]) \in Nat
    BY <2>1, <2>6 DEF LinkTypeOK
  <2> QED BY <1>1, <2>3, <2>5, <2>7
<1>2. LinkInv => ServerFitsGateway
  BY <1>1 DEF ServerFitsGateway
<1> QED BY <1>2, LinkInvariant, PTL

\* Framing implements the message channel.
THEOREM LinkIsChannel == LinkSpec => IsChannel
<1>1. LinkInit => Channel!Init
  BY DEF LinkInit, Channel!Init
<1>2. LinkInv /\ [LinkNext]_linkVars => [Channel!Next]_<<sent, got>>
  BY LinkStep
<1> QED BY <1>1, <1>2, LinkInvariant, PTL DEF LinkSpec, IsChannel, Channel!Spec
===============================================================================
