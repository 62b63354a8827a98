\* One caller, one server: a result read before it was written.
CONSTANTS
  Uids <- MCUids
  Callers = {t1}
  Servers = {s1}
  Cells = {c1}
  Requests <- OneRequest
  NoServer = NoServer
  NoCell = NoCell
  NoCheck = NoCheck
  RcvBuf = 2
  MaxIndex = 4
  KmallocReuses = FALSE
  ServersLeave = FALSE
SYMMETRY CallerSymmetry
SPECIFICATION Spec
INVARIANT ResultIsAVerdict
CHECK_DEADLOCK FALSE
