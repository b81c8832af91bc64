CONSTANTS
  a1 = a1
  a2 = a2
  a3 = a3
  n1 = n1
  n2 = n2
  n3 = n3
  x1 = x1
  g1 = g1
  g2 = g2
  g3 = g3
  Account = {a1, a2, a3}
  Name = {n1, n2, n3, g1, g2, g3, x1}
  Home <- Homes
  Online = {a1, a2}
  Guest <- Guests
  NoUser = NoUser
  NoName = NoName
  Typed = {}
  Uses = {"group", "crash", "direct", "logout", "open"}
  MaxMessages = 1
  MaxGroups = 1
  MaxErrors = 1
  Requests = 1
  Logins = 1
SPECIFICATION Spec
SYMMETRY Symmetric
INVARIANTS
  TypeOK
  GroupsExact
  ConversationsShown
PROPERTIES
  UnreadCounted
CHECK_DEADLOCK FALSE
