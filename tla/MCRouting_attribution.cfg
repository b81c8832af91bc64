CONSTANTS
  a1 = a1
  a2 = a2
  a3 = a3
  n1 = n1
  n2 = n2
  n3 = n3
  x1 = x1
  g1 = g1
  g2 = g2
  g3 = g3
  Account = {a1, a2, a3}
  Name = {n1, n2, n3, g1, g2, g3, x1}
  Home <- Homes
  Online = {a1, a2, a3}
  Guest <- Guests
  NoUser = NoUser
  NoName = NoName
  Typed = {x1}
  Uses = {"public", "leave"}
  MaxMessages = 1
  MaxGroups = 0
  MaxErrors = 1
  Requests = 2
  Logins = 0
SPECIFICATION Spec
SYMMETRY Symmetric
INVARIANTS
  Attributed
CHECK_DEADLOCK FALSE
