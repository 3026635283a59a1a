CONSTANTS
  c1 = c1
  c2 = c2
  p1 = p1
  p2 = p2
  Clients = {c1}
  Server = Server
  Payload = {p1}
  Oversize = {}
  NoData = NoData
  Faults = {}
  Duplicating = TRUE
  WindowSize = 1
  EpochLimit = 2
  IncomingCap = 0
  TmsgCap = 0
  MaxConns = 2
  RmsgCap = 1
  MaxClientWrites = 0
  ClientsClose = FALSE
  ServerCap = 0
  OutgoingCap = 1
  ServerRmsgCap = 1
  ErrCap = 1
  MaxServerWrites = 1
  ServerOps = {"Close"}
SPECIFICATION Spec
INVARIANTS CloseWaits OneConnection
 
CHECK_DEADLOCK FALSE
