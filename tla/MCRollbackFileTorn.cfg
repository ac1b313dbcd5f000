\* A process dies while the backup is being copied: the torn backup is restored.
SPECIFICATION Spec
CONSTANTS
  Procs = {p1, p2}
  Values = {v1, v2}
  Absent = Absent
  Torn = Torn
  CrashPoints <- MCBackupWindow
  Faults = {}
INVARIANT NoTornRead
