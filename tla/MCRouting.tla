----------------------------- MODULE MCRouting -----------------------------
(* Instances of GatewayRouting for TLC. *)
EXTENDS GatewayRouting, TLC

CONSTANTS a1, a2, a3, n1, n2, n3, x1, g1, g2, g3

Homes == [a \in Account |-> CASE a = a1 -> n1 [] a = a2 -> n2 [] a = a3 -> n3]
Guests == [a \in Account |-> CASE a = a1 -> g1 [] a = a2 -> g2 [] a = a3 -> g3]

\* Accounts are interchangeable, each together with its names.
Swap(f) == [x \in UNION {{a, Homes[a], Guests[a]} : a \in Account} |->
              LET a == CHOOSE y \in Account : x \in {y, Homes[y], Guests[y]} IN
              CASE x = a -> f[a] [] x = Homes[a] -> Homes[f[a]] [] OTHER -> Guests[f[a]]]

Symmetric == {Swap(f) : f \in Permutations(Account)}

=============================================================================
