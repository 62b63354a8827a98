\* Two threads that share one descriptor, a regular file and a device.
CONSTANTS
  t1 = t1
  t2 = t2
  reg = reg
  Uids <- MCUids
  Callers = {t1, t2}
  Requests <- MCRequests
  NoCheck = NoCheck
  UidOf <- MCUidOf
  Fds = {fd1}
  Files = {reg, dev}
  FileType <- MCFileType
  NoFile = NoFile
  NoFd = NoFd
SPECIFICATION Spec
INVARIANTS TypeOK DenialIsEnforced BlockedOnlyByVerdict
