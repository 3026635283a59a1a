CONSTANTS
  c1 = c1
  c2 = c2
  p1 = p1
  p2 = p2
  Clients = {c1}
  Server = Server
  Payload = {p1, p2}
  Oversize = {}
  NoData = NoData
  Faults = {}
  Duplicating = TRUE
  WindowSize = 2
  EpochLimit = 2
  IncomingCap = 0
  TmsgCap = 1
  MaxConns = 1
  RmsgCap = 1
  MaxClientWrites = 2
  ClientsClose = TRUE
  ServerCap = 0
  OutgoingCap = 0
  ServerRmsgCap = 1
  ErrCap = 1
  MaxServerWrites = 0
  ServerOps = {}
SPECIFICATION Spec
SYMMETRY PayloadSymmetry
INVARIANTS InOrder CloseFlushes
CHECK_DEADLOCK FALSE
