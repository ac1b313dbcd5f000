SPECIFICATION Spec
CONSTANTS
  Names = {a, b}
  Ids = {"i"}
  NoId = NoId
  Slots = {s, t, u}
  NoSlot = NoSlot
  NoName = NoName
  CniIds = {"i"}
  Kinds = {"create", "start", "rm", "rename"}
  Restart = TRUE
  Apart = FALSE
  Faults = {"setup", "archive", "internalLabels", "newContainer", "setupNetworking", "newTask", "cni", "cniRemove", "setLabels", "bounce"}
SYMMETRY SlotsAndNames
INVARIANTS TypeOK
