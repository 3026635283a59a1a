CONSTANTS
  c1 = c1
  c2 = c2
  p1 = p1
  p2 = p2
  Clients = {c1}
  Server = Server
  Payload = {p1, p2}
  Oversize = {p2}
  NoData = NoData
  Faults = {"short", "long"}
  Duplicating = TRUE
  WindowSize = 1
  EpochLimit = 2
  IncomingCap = 0
  TmsgCap = 0
  MaxConns = 1
  RmsgCap = 1
  MaxClientWrites = 0
  ClientsClose = TRUE
  ServerCap = 0
  OutgoingCap = 0
  ServerRmsgCap = 1
  ErrCap = 1
  MaxServerWrites = 1
  ServerOps = {"Close", "CloseConn"}
SPECIFICATION Spec
INVARIANTS TypeOK CloseFlushes 
CHECK_DEADLOCK FALSE
