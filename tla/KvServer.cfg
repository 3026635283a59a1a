CONSTANTS
  Clients = {a, b}
  Keys = {k}
  None = None
  ReqCap = 1
  ResCap = 1
  MaxReq = 2
  MaxGone = 1
SPECIFICATION Spec
INVARIANTS TypeOK  ReadsFollowSets
PROPERTIES Handled Unblocked
