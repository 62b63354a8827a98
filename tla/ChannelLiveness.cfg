\* Liveness: two callers, one server that may crash or leave, no symmetry.
CONSTANTS
  Uids <- MCUids
  Callers = {t1, t2}
  Servers = {s1}
  Cells = {c1}
  Requests <- OneRequest
  NoServer = NoServer
  NoCell = NoCell
  NoCheck = NoCheck
  RcvBuf = 1
  MaxIndex = 4
  KmallocReuses = TRUE
  ServersLeave = TRUE
SPECIFICATION FairSpec
PROPERTIES CheckReturns ConnectReturns
CHECK_DEADLOCK FALSE
