------------------------------- MODULE FrameLink -------------------------------
(***************************************************************************)
(* The byte streams between the gateway and the chat server.  Every        *)
(* connection has one stream each way.  A frame is a header of four bytes, *)
(* the length of the payload in network order, and the payload.  The       *)
(* server reads with recv_frame (src/Protocol.cpp), which blocks for       *)
(* exactly the bytes it wants; the gateway with FrameDecoder.push          *)
(* (gateway/src/wireProtocol.ts), which is given whatever has arrived.     *)
(* A chunk may be any part of what is under way: TCP keeps no boundaries.  *)
(***************************************************************************)
EXTENDS Integers, Sequences

CONSTANT Conn   \* the connections, one per browser session that is logged in

VARIABLES
  limits,   \* config_.max_message_size and backendMaxMessageBytes, set at startup
  bytes,    \* bytes[s]: what was written to stream s and is not lost
  arrived,  \* arrived[s]: how many of them the reader has taken from its socket
  buffer,   \* buffer[s]: FrameDecoder.buffer, or what recv_exact has filled
  need,     \* need[s]: the length recv_frame has read
  phase,    \* phase[s]: what the reader of s is doing
  ended,    \* ended[s]: the writer has closed its end
  sent,     \* history: the payloads written to s
  ends,     \* history: where in the stream each of them ends
  got       \* history: the payloads the reader of s was given

linkVars == <<limits, bytes, arrived, buffer, need, phase, ended, sent, ends, got>>

Stream == Conn \X {"up", "down"}   \* up: from the gateway to the server
IsUp(s) == s[2] = "up"
Byte == 0 .. 255
Payload == Seq(Byte)
HeaderSize == 4   \* FRAME_HEADER_SIZE

(* htonl, writeUInt32BE; ntohl, readUInt32BE; what a uint32_t holds.       *)
Shift(n) == n \div 256
Header(n) == <<Shift(Shift(Shift(n))) % 256, Shift(Shift(n)) % 256, Shift(n) % 256, n % 256>>
Length(b) == ((b[1] * 256 + b[2]) * 256 + b[3]) * 256 + b[4]
Fits(n) == Shift(Shift(Shift(n))) < 256
Frame(p) == Header(Len(p)) \o p

ReadLimit(s) == IF IsUp(s) THEN limits.server ELSE limits.gateway

\* Slip: send_frame does not look at the limit.
SlipMayWrite(s, p) == ~ended[s] /\ Fits(Len(p))

\* Slip: send_frame refuses a payload as long as the limit, too.
SlipMayWriteBelow(s, p) ==
  /\ ~ended[s]
  /\ Fits(Len(p))
  /\ IsUp(s) \/ Len(p) < limits.server

(* send_frame refuses a payload over the limit; encodeFrame has none but   *)
(* the width of the header.                                                *)
MayWrite(s, p) ==
  /\ ~ended[s]
  /\ Fits(Len(p))
  /\ IsUp(s) \/ Len(p) <= limits.server

(* send_frame, writeFrame: a whole frame; how much of it has arrived is    *)
(* the reader's business, and frames of several writers do not mix: they   *)
(* hold the write mutex.  Where that fails, a stale frame put under the    *)
(* mutex of the descriptor's former owner, is in ThreadLinkServer only.    *)
Write(s, p) ==
  /\ MayWrite(s, p)
  /\ bytes' = [bytes EXCEPT ![s] = @ \o Frame(p)]
  /\ sent' = [sent EXCEPT ![s] = Append(@, p)]
  /\ ends' = [ends EXCEPT ![s] = Append(@, Len(bytes'[s]))]
  /\ UNCHANGED <<limits, arrived, buffer, need, phase, ended, got>>

(* n more bytes from the socket. *)
Take(s, n) ==
  /\ n \in 1 .. (Len(bytes[s]) - arrived[s])
  /\ arrived' = [arrived EXCEPT ![s] = @ + n]

Extended(s, n) == buffer[s] \o SubSeq(bytes[s], arrived[s] + 1, arrived[s] + n)

(* What recv_exact has been asked for. *)
Wanted(s) == IF phase[s] = "head" THEN HeaderSize ELSE need[s]

(* recv() gave n bytes and recv_exact goes on. *)
RecvPart(s, n) ==
  /\ IsUp(s) /\ phase[s] \in {"head", "body"}
  /\ Take(s, n)
  /\ Len(buffer[s]) + n < Wanted(s)
  /\ buffer' = [buffer EXCEPT ![s] = Extended(s, n)]
  /\ UNCHANGED <<limits, bytes, need, phase, ended, sent, ends, got>>

(* The header is complete: too large, empty, or the body is to be read. *)
RecvHeader(s, n) ==
  /\ IsUp(s) /\ phase[s] = "head"
  /\ Take(s, n)
  /\ Len(buffer[s]) + n = HeaderSize
  /\ LET len == Length(Extended(s, n)) IN
     \/ /\ len > ReadLimit(s)
        /\ phase' = [phase EXCEPT ![s] = "refused"]
        /\ buffer' = [buffer EXCEPT ![s] = Extended(s, n)]
        /\ UNCHANGED <<need, got>>
     \/ /\ len <= ReadLimit(s)
        /\ got' = IF len = 0 THEN [got EXCEPT ![s] = Append(@, <<>>)] ELSE got
        /\ phase' = [phase EXCEPT ![s] = IF len = 0 THEN "head" ELSE "body"]
        /\ need' = [need EXCEPT ![s] = len]
        /\ buffer' = [buffer EXCEPT ![s] = <<>>]
  /\ UNCHANGED <<limits, bytes, ended, sent, ends>>

\* Slip: recv_frame returns what the last recv() gave, not all of the body.
SlipRecvBody(s, n) ==
  /\ IsUp(s) /\ phase[s] = "body"
  /\ Take(s, n)
  /\ Len(buffer[s]) + n = need[s]
  /\ got' = [got EXCEPT ![s] = Append(@, SubSeq(bytes[s], arrived[s] + 1, arrived[s] + n))]
  /\ phase' = [phase EXCEPT ![s] = "head"]
  /\ buffer' = [buffer EXCEPT ![s] = <<>>]
  /\ UNCHANGED <<limits, bytes, need, ended, sent, ends>>

(* The body is complete: recv_frame returns Ok. *)
RecvBody(s, n) ==
  /\ IsUp(s) /\ phase[s] = "body"
  /\ Take(s, n)
  /\ Len(buffer[s]) + n = need[s]
  /\ got' = [got EXCEPT ![s] = Append(@, Extended(s, n))]
  /\ phase' = [phase EXCEPT ![s] = "head"]
  /\ buffer' = [buffer EXCEPT ![s] = <<>>]
  /\ UNCHANGED <<limits, bytes, need, ended, sent, ends>>

Recv(s, n) == RecvPart(s, n) \/ RecvHeader(s, n) \/ RecvBody(s, n)

(* The loop of push: whether its next iteration finds a length over the    *)
(* limit, or a whole frame.                                                *)
Oversized(s) == Len(buffer[s]) >= HeaderSize /\ Length(buffer[s]) > ReadLimit(s)
Whole(s) ==
  /\ Len(buffer[s]) >= HeaderSize
  /\ Length(buffer[s]) <= ReadLimit(s)
  /\ Len(buffer[s]) >= HeaderSize + Length(buffer[s])

(* push is looping: Node runs nothing else until it is done. *)
Decoding(s) == ~IsUp(s) /\ phase[s] = "head" /\ (Oversized(s) \/ Whole(s))

(* A `data` event: push appends the chunk to its buffer. *)
Data(s, n) ==
  /\ ~IsUp(s) /\ phase[s] = "head" /\ ~Decoding(s)
  /\ Take(s, n)
  /\ buffer' = [buffer EXCEPT ![s] = Extended(s, n)]
  /\ UNCHANGED <<limits, bytes, need, phase, ended, sent, ends, got>>

\* Slip: the cut of the buffer is off by one.
SlipExtract(s) ==
  /\ Decoding(s) /\ Whole(s)
  /\ LET end == HeaderSize + Length(buffer[s]) IN
     /\ got' = [got EXCEPT ![s] = Append(@, SubSeq(buffer[s], HeaderSize + 1, end))]
     /\ buffer' = [buffer EXCEPT ![s] = SubSeq(@, end, Len(@))]
  /\ UNCHANGED <<limits, bytes, arrived, need, phase, ended, sent, ends>>

(* An iteration that finds a whole frame. *)
Extract(s) ==
  /\ Decoding(s) /\ Whole(s)
  /\ LET end == HeaderSize + Length(buffer[s]) IN
     /\ got' = [got EXCEPT ![s] = Append(@, SubSeq(buffer[s], HeaderSize + 1, end))]
     /\ buffer' = [buffer EXCEPT ![s] = SubSeq(@, end + 1, Len(@))]
  /\ UNCHANGED <<limits, bytes, arrived, need, phase, ended, sent, ends>>

(* An iteration that finds a length over the limit: push returns an error. *)
TooLarge(s) ==
  /\ Decoding(s) /\ Oversized(s)
  /\ phase' = [phase EXCEPT ![s] = "refused"]
  /\ UNCHANGED <<limits, bytes, arrived, buffer, need, ended, sent, ends, got>>

Other(d) == IF d = "up" THEN "down" ELSE "up"

(* The end of connection c that writes in direction d is closed: it reads  *)
(* no more, and of what it wrote the n first bytes arrive.                 *)
Close(c, d, n) ==
  /\ ~ended[<<c, d>>]
  /\ n \in arrived[<<c, d>>] .. Len(bytes[<<c, d>>])
  /\ bytes' = [bytes EXCEPT ![<<c, d>>] = SubSeq(@, 1, n)]
  /\ ended' = [ended EXCEPT ![<<c, d>>] = TRUE]
  /\ phase' = [phase EXCEPT ![<<c, Other(d)>>] = "closed"]
  /\ UNCHANGED <<limits, arrived, buffer, need, sent, ends, got>>

(* recv() returns 0, or the socket ends: the writer has closed and there   *)
(* is nothing left to read.                                                *)
AtEnd(s) == ended[s] /\ arrived[s] = Len(bytes[s]) /\ ~Decoding(s)

LinkInit ==
  /\ limits \in [server : Nat, gateway : Nat]
  /\ sent = [s \in Stream |-> <<>>]
  /\ ends = [s \in Stream |-> <<>>]
  /\ bytes = [s \in Stream |-> <<>>]
  /\ arrived = [s \in Stream |-> 0]
  /\ buffer = [s \in Stream |-> <<>>]
  /\ need = [s \in Stream |-> 0]
  /\ phase = [s \in Stream |-> "head"]
  /\ ended = [s \in Stream |-> FALSE]
  /\ got = [s \in Stream |-> <<>>]

LinkNext ==
  \/ \E s \in Stream :
       \/ \E p \in Payload : Write(s, p)
       \/ \E n \in Nat : Recv(s, n) \/ Data(s, n)
       \/ Extract(s)
       \/ TooLarge(s)
  \/ \E c \in Conn, d \in {"up", "down"}, n \in Nat : Close(c, d, n)

LinkSpec == LinkInit /\ [][LinkNext]_linkVars
-------------------------------------------------------------------------------
(* Framing hands payloads over whole, once each and in order, however the  *)
(* bytes are cut up (recv_frame, FrameDecoder.push).                       *)
Channel == INSTANCE MessageChannel
IsChannel == Channel!Spec

(* A reader refuses a frame only for being over its limit: it never takes  *)
(* other bytes for a length (Protocol.cpp:59, wireProtocol.ts:35).         *)
RefusedIsTooLarge ==
  \A s \in Stream :
    phase[s] = "refused" =>
      /\ Len(got[s]) < Len(sent[s])
      /\ Len(sent[s][Len(got[s]) + 1]) > ReadLimit(s)

(* A gateway whose limit is not below the server's refuses no frame: the   *)
(* server writes none over its own (Protocol.cpp:43).                      *)
ServerFitsGateway ==
  limits.server <= limits.gateway =>
    \A s \in Stream : ~IsUp(s) => phase[s] # "refused"

(* The inductive invariant.  Where in a stream with frame ends e the i-th  *)
(* frame starts.                                                           *)
Start(e, i) == IF i = 1 THEN 0 ELSE e[i - 1]

(* From its t-th byte on, b is f, or what is left of it.                   *)
Carries(b, t, f) == \A k \in 1 .. Len(f) : t + k <= Len(b) => b[t + k] = f[k]

(* The bytes b are the frames of the payloads p, one after the other with  *)
(* ends e, or what is left of them.                                        *)
LaidOut(b, p, e) ==
  /\ Len(e) = Len(p)
  /\ Len(b) <= Start(e, Len(p) + 1)
  /\ \A i \in 1 .. Len(p) :
       /\ e[i] = Start(e, i) + HeaderSize + Len(p[i])
       /\ e[i] <= Start(e, Len(p) + 1)
       /\ Fits(Len(p[i]))
       /\ Carries(b, Start(e, i), Frame(p[i]))

(* Where the reader of s is: behind the frames it was given, and behind    *)
(* the header of the next one once it reads a body.                        *)
Mark(s) == Start(ends[s], Len(got[s]) + 1) + (IF phase[s] = "body" THEN HeaderSize ELSE 0)

LinkTypeOK ==
  /\ limits \in [server : Nat, gateway : Nat]
  /\ bytes \in [Stream -> Seq(Byte)]
  /\ arrived \in [Stream -> Nat]
  /\ buffer \in [Stream -> Seq(Byte)]
  /\ need \in [Stream -> Nat]
  /\ phase \in [Stream -> {"head", "body", "refused", "closed"}]
  /\ ended \in [Stream -> BOOLEAN]
  /\ sent \in [Stream -> Seq(Payload)]
  /\ ends \in [Stream -> Seq(Nat)]
  /\ got \in [Stream -> Seq(Payload)]

(* The writer's part: nothing is lost of a stream that has not ended, and  *)
(* the server's frames are within its limit.                               *)
Written(s) ==
  /\ LaidOut(bytes[s], sent[s], ends[s])
  /\ ~ended[s] => Len(bytes[s]) = Start(ends[s], Len(sent[s]) + 1)
  /\ ~IsUp(s) => \A i \in 1 .. Len(sent[s]) : Len(sent[s][i]) <= limits.server

(* The reader's part: it has been given the first payloads, and buffers    *)
(* the bytes from its mark to what has arrived.                            *)
Given(s) ==
  /\ Len(got[s]) <= Len(sent[s])
  /\ \A i \in 1 .. Len(got[s]) : got[s][i] = sent[s][i]
  /\ arrived[s] <= Len(bytes[s])
Buffered(s) ==
  /\ arrived[s] = Mark(s) + Len(buffer[s])
  /\ \A k \in 1 .. Len(buffer[s]) : buffer[s][k] = bytes[s][Mark(s) + k]

(* What its phase says of the next payload. *)
Phased(s) ==
  /\ phase[s] # "closed" => Buffered(s)
  /\ phase[s] = "head" /\ IsUp(s) => Len(buffer[s]) < HeaderSize
  /\ phase[s] = "body" =>
       /\ IsUp(s)
       /\ Len(got[s]) < Len(sent[s])
       /\ need[s] = Len(sent[s][Len(got[s]) + 1])
       /\ Len(buffer[s]) < need[s]
  /\ phase[s] = "refused" =>
       /\ Len(got[s]) < Len(sent[s])
       /\ Len(sent[s][Len(got[s]) + 1]) > ReadLimit(s)

LinkInv == LinkTypeOK /\ \A s \in Stream : Written(s) /\ Given(s) /\ Phased(s)
===============================================================================
