\* A thread that opens for two users, one of them unknown, and two daemons.
CONSTANTS
  Openers = {t1}
  Users = {Root, Stranger}
  Root = Root
  Strangers = {Stranger}
  Daemons = {d1, d2}
  NoDaemon = NoDaemon
  RcvBuf = 2
  MaxOpens = 3
  MaxLines = 2
SPECIFICATION Spec
INVARIANTS TypeOK LogIsInOrder NoSilentLoss
PROPERTIES OpenReturns QueuedIsLogged
CHECK_DEADLOCK FALSE
