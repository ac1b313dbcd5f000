\* Two processes, two contents: every crash and error outside the torn-backup window.
SPECIFICATION Spec
CONSTANTS
  Procs = {p1, p2}
  Values = {v1, v2}
  Absent = Absent
  Torn = Torn
  CrashPoints <- MCCrashPoints
  Faults <- MCFaults
INVARIANTS TypeOK RecoverableDisk NoTornRead
PROPERTY ImplementsAtomicFile
