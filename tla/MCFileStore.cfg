SPECIFICATION FairSpec
CONSTANTS
  c1 = c1
  c2 = c2
  c3 = c3
  p1 = p1
  p2 = p2
  Calls <- MCCalls
  Procs <- MCProcs
  ProcOf <- MCProcOf
  Absent <- MCAbsent
  Partial <- MCPartial
  NoOne = NoOne
  MaxDirs = 1
  LockFails = FALSE
  MayDie <- MCProcs
INVARIANTS TypeOK Exclusive LockedInside NoTempLeak
PROPERTIES ImplementsAtomicStore CallsReturn
