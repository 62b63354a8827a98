\* The first version of the module: memory written over between its kfree and its reads.
CONSTANTS
  own = own
  Uids <- MCUids
  Callers = {t1, own}
  Servers = {s1}
  Cells = {c1, c2}
  Requests <- MCRequests
  NoServer = NoServer
  NoCell = NoCell
  NoCheck = NoCheck
  RcvBuf = 1
  MaxIndex = 4
  KmallocReuses = FALSE
  ServersLeave = FALSE
  OwnThread <- MCOwnThread
SYMMETRY CellSymmetry
SPECIFICATION SelfSpec
INVARIANT WokenResultIsAVerdict
CHECK_DEADLOCK FALSE
