SPECIFICATION FairSpec
CONSTANTS
  w1 = w1
  c1 = c1
  Acceptor = Acceptor
  Main = Main
  Waker = Waker
  Nobody = Nobody
  NoHandle = NoHandle
  Workers = {w1}
  Clients = {c1}
  Readers = {c1}
  Handles = {1, 2}
  MaxConnections = 1
  PendingConnections = 1
  Kinds = {"hello", "oldhello", "request", "shutdown", "bye", "garbage"}
  MaxFrames = 2
  SendBuffer = 1
CHECK_DEADLOCK FALSE
INVARIANTS
  CalledBackOnce
PROPERTIES
  WorkersLetGo
  AcceptorLeaves
