\* A second server connects.
CONSTANTS
  Uids <- MCUids
  Callers = {t1}
  Servers = {s1, s2}
  Cells = {c1}
  Requests <- OneRequest
  NoServer = NoServer
  NoCell = NoCell
  NoCheck = NoCheck
  RcvBuf = 2
  MaxIndex = 5
  KmallocReuses = TRUE
  ServersLeave = FALSE
SPECIFICATION FairSpec
PROPERTY ConnectReturns
CHECK_DEADLOCK FALSE
