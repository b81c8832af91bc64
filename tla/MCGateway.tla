----------------------------- MODULE MCGateway -----------------------------
(* Instances of GatewaySessions for TLC. *)
EXTENDS GatewaySessions, TLC

CONSTANTS s1, s2, s3, a, b, alice, bob, User1, User2, User3

\* One account; a second can be registered.
OneAccount == (a :> alice)

\* Two accounts.
TwoAccounts == (a :> alice) @@ (b :> bob)

\* Two accounts, one with a name the server gives by default.
DefaultAccounts == (a :> alice) @@ (b :> User1)

TwoDefaults == <<User1, User2>>

ThreeDefaults == <<User1, User2, User3>>

Symmetric == Permutations(Session)

=============================================================================
