\* Two callers at once, two servers, a queue of one message, cells that are handed out again.
CONSTANTS
  Uids <- MCUids
  Callers = {t1,t2}
  Servers = {s1,s2}
  Cells = {c1,c2}
  Requests <- TwoRequests
  NoServer = NoServer
  NoCell = NoCell
  NoCheck = NoCheck
  RcvBuf = 1
  MaxIndex = 3
  KmallocReuses = TRUE
  ServersLeave = FALSE
SYMMETRY FullSymmetry
SPECIFICATION Spec
INVARIANTS CellOwned ExactVerdict
PROPERTY KeepsPromise
CHECK_DEADLOCK FALSE
