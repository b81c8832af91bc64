CONSTANTS
  c1 = c1
  c2 = c2
  c3 = c3
  u1 = u1
  u2 = u2
  u3 = u3
  alice = alice
  Conn = {c1, c2, c3}
  FD = {4, 5, 6}
  Name = {u1, u2, u3, alice}
  DefaultName <- Users
  MaxClients = 2
  Events = {"nick", "exit", "huge"}
  Wanted = {u2, alice}
  Kept = {}
  MaxLines = 2
  SlowPeer = {}
  Main = Main
  NoConn = NoConn
  NoName = NoName
  NoFd = NoFd
SPECIFICATION Spec
SYMMETRY Connections
INVARIANTS
  TypeOK
  NickUnique
  WithinCapacity
  RegistryMatches
PROPERTIES
  IsChatRoom
