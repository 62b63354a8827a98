\* A late answer and an address that kmalloc hands out again.
CONSTANTS
  Uids <- MCUids
  Callers = {t1, t2}
  Servers = {s1}
  Cells = {c1}
  Requests <- TwoRequests
  NoServer = NoServer
  NoCell = NoCell
  NoCheck = NoCheck
  RcvBuf = 2
  MaxIndex = 4
  KmallocReuses = TRUE
  ServersLeave = FALSE
SYMMETRY CallerSymmetry
SPECIFICATION Spec
INVARIANT OwnVerdict
CHECK_DEADLOCK FALSE
