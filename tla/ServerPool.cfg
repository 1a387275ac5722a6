SPECIFICATION Spec
CONSTANTS
  w1 = w1
  w2 = w2
  c1 = c1
  c2 = c2
  c3 = c3
  Acceptor = Acceptor
  Main = Main
  Waker = Waker
  Nobody = Nobody
  NoHandle = NoHandle
  Workers = {w1, w2}
  Clients = {c1, c2, c3}
  Readers = {}
  Handles = {1, 2, 3}
  MaxConnections = 2
  PendingConnections = 1
  Kinds = {}
  MaxFrames = 0
  SendBuffer = 1
SYMMETRY PoolSymmetry
CHECK_DEADLOCK FALSE
INVARIANTS
  TypeOK
  SocketsHaveOneOwner
  CountsAdmitted
  QueuedWorkIsNoticed
  NothingLeftBehind
  MutexesDoNotDeadlock
