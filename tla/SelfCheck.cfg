\* Both versions of the module, one caller, one server that logs to a regular file.
CONSTANTS
  own = own
  Uids <- MCUids
  Callers = {t1, own}
  Servers = {s1}
  Cells = {c1, c2}
  Requests <- MCRequests
  NoServer = NoServer
  NoCell = NoCell
  NoCheck = NoCheck
  RcvBuf = 1
  MaxIndex = 4
  KmallocReuses = TRUE
  ServersLeave = TRUE
  OwnThread <- MCOwnThread
SYMMETRY CellSymmetry
SPECIFICATION SelfSpec
INVARIANTS TypeOK FailCountSettled OwnCheckFails PresentAnswersOnce
PROPERTIES PresentKeepsPromise
CHECK_DEADLOCK FALSE
