SPECIFICATION Spec
CONSTANTS
  Names = {a, b}
  Ids = {"i", "j"}
  NoId = NoId
  Slots = {s, t}
  NoSlot = NoSlot
  NoName = NoName
  CniIds = {"i"}
  Kinds = {"create", "start", "rm", "rename"}
  Restart = TRUE
  Apart = TRUE
  Faults = {"setup", "newContainer", "setLabels", "cni", "cniRemove", "bounce"}
SYMMETRY SlotsAndNames
INVARIANTS LabelOwned NoLeakedName FailedCreateCleans NoLeakedDirs NoLeakedNetwork
PROPERTIES NamesKept
