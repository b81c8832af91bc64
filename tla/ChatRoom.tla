------------------------------ MODULE ChatRoom ------------------------------
(***************************************************************************)
(* What the ThreadLink server promises about its one public room, whatever *)
(* its threads do: a person takes a seat once, under a name nobody in the  *)
(* room bears, while a seat is free; renames to a free name in one         *)
(* indivisible step; leaves and never comes back (a reconnecting user is a *)
(* new connection).  ThreadLinkServer implements this specification.       *)
(***************************************************************************)
EXTENDS Integers, FiniteSets

CONSTANTS Person,   \* connections that may ever be accepted
          Name,     \* nicknames
          Seats     \* MAX_CLIENTS

VARIABLES member,   \* the people in the room, each with the name they bear
          gone      \* the people who were in it and left

room == <<member, gone>>

Present == DOMAIN member

Free(n) == \A p \in Present : member[p] # n

Init == /\ member = [p \in {} |-> {}]
        /\ gone = {}

Join(p, n) ==
  /\ p \notin Present \cup gone
  /\ Cardinality(Present) < Seats
  /\ Free(n)
  /\ member' = [q \in Present \cup {p} |-> IF q = p THEN n ELSE member[q]]
  /\ UNCHANGED gone

Rename(p, n) ==
  /\ p \in Present
  /\ \A q \in Present \ {p} : member[q] # n
  /\ member' = [member EXCEPT ![p] = n]
  /\ UNCHANGED gone

Leave(p) ==
  /\ p \in Present
  /\ member' = [q \in Present \ {p} |-> member[q]]
  /\ gone' = gone \cup {p}

Next == \E p \in Person :
          \/ \E n \in Name : Join(p, n) \/ Rename(p, n)
          \/ Leave(p)

Spec == Init /\ [][Next]_room
=============================================================================
