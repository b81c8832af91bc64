---------------------------- MODULE MessageChannel ----------------------------
(***************************************************************************)
(* What framing promises to both ends of a connection: each one-way stream *)
(* hands the payloads written to it to its reader whole, once each and in  *)
(* the order they were written.  A stream may stop at any payload; it does *)
(* not skip one.                                                           *)
(***************************************************************************)
EXTENDS Naturals, Sequences

CONSTANTS
  Stream,   \* the one-way streams
  Payload   \* what may be written to them

VARIABLES
  sent,     \* sent[s]: the payloads written to s so far
  got       \* got[s]: the payloads its reader has been given

Init ==
  /\ sent = [s \in Stream |-> <<>>]
  /\ got = [s \in Stream |-> <<>>]

(* writeFrame, send_frame: one more payload, the last of sent'[s]. *)
Send(s) ==
  /\ Len(sent'[s]) = Len(sent[s]) + 1
  /\ sent'[s][Len(sent'[s])] \in Payload
  /\ sent' = [sent EXCEPT ![s] = Append(@, sent'[s][Len(sent'[s])])]
  /\ UNCHANGED got

(* recv_frame, FrameDecoder.push: the next one, unchanged. *)
Deliver(s) ==
  /\ Len(got[s]) < Len(sent[s])
  /\ got' = [got EXCEPT ![s] = Append(@, sent[s][Len(@) + 1])]
  /\ UNCHANGED sent

Next == \E s \in Stream : Send(s) \/ Deliver(s)

Spec == Init /\ [][Next]_<<sent, got>>
===============================================================================
