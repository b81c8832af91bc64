CONSTANTS
  c1 = c1
  c2 = c2
  c3 = c3
  u1 = u1
  u2 = u2
  u3 = u3
  alice = alice
  Conn = {c1, c2}
  FD = {4, 5}
  Name = {u1, u2, u3, alice}
  DefaultName <- Users
  MaxClients = 2
  Events = {"msg", "stop", "close", "selectFails"}
  Wanted = {u1}
  Kept = {"BYE"}
  MaxLines = 1
  SlowPeer = {c2}
  Main = Main
  NoConn = NoConn
  NoName = NoName
  NoFd = NoFd
SPECIFICATION FairSpec
INVARIANTS
  IInv
  GoodbyeBeforeCut
PROPERTIES
  RequestedStopHappens
  OnlyItsWritersWait
