CONSTANTS
  s1 = s1
  s2 = s2
  s3 = s3
  a = a
  b = b
  alice = alice
  bob = bob
  User1 = User1
  User2 = User2
  User3 = User3
  NoId = NoId
  NoName = NoName
  NoTry = NoTry
  Session = {s1, s2}
  Id = {a, b}
  Name = {alice, User1, User2}
  DefaultName <- TwoDefaults
  Accounts <- DefaultAccounts
  Typed = {User1}
  Attempts = 1
  Renames = 0
  Faults = {"backendLost", "connectFails", "closeInAuth"}
SPECIFICATION FairSpec
INVARIANTS
  RosterAccurate
PROPERTIES
  LoginAnswered
CHECK_DEADLOCK FALSE
