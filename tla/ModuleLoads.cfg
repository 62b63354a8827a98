\* Three modules, two of them loaded at a time, a thread that opens and reads, two CPUs.
CONSTANTS
  Modules <- MCModules
  Threads = {t1}
  Calls <- MCCalls
  CPUs = {p1, p2}
  MaxLoaded = 2
  Preemptible = TRUE
SYMMETRY CPUSymmetry
SPECIFICATION Spec
INVARIANTS TypeOK EveryHookLeadsOn NoWayInWithoutSocket ProtectionIsBack HooksFindTheirWay
CHECK_DEADLOCK FALSE
