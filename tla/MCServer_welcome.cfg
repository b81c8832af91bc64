CONSTANTS
  c1 = c1
  c2 = c2
  c3 = c3
  u1 = u1
  u2 = u2
  u3 = u3
  alice = alice
  Conn = {c1, c2, c3}
  FD = {4, 5, 6}
  Name = {u1, u2, u3, alice}
  DefaultName <- Users
  MaxClients = 2
  Events = {"text", "exit"}
  Wanted = {u1}
  Kept = {"WELCOME", "FULL", "JOINED", "MSG", "LEFT"}
  MaxLines = 1
  SlowPeer = {}
  Main = Main
  NoConn = NoConn
  NoName = NoName
  NoFd = NoFd
SPECIFICATION Spec
SYMMETRY Connections
INVARIANT WelcomeIsFirst
