CONSTANTS
  s1 = s1
  s2 = s2
  s3 = s3
  a = a
  b = b
  alice = alice
  bob = bob
  User1 = User1
  User2 = User2
  User3 = User3
  NoId = NoId
  NoName = NoName
  NoTry = NoTry
  Session = {s1, s2}
  Id = {a, b}
  Name = {alice, bob, User1, User2}
  DefaultName <- TwoDefaults
  Accounts <- OneAccount
  Typed = {alice, bob}
  Attempts = 1
  Renames = 1
  Faults = {"backendLost"}
SPECIFICATION Spec
SYMMETRY Symmetric
INVARIANTS
  TypeOK
  AccountsUnique
  ViewMatchesRoster
  NicknameMirrored
PROPERTIES
  AnnouncedByName
CHECK_DEADLOCK FALSE
