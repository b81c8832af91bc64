------------------------------ MODULE MCServer ------------------------------
(* Small instances of ThreadLinkServer for TLC. *)
EXTENDS ThreadLinkServer, TLC

CONSTANTS c1, c2, c3, u1, u2, u3, alice

Users == <<u1, u2, u3>>

Connections == Permutations(Conn)
=============================================================================
