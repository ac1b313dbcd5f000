SPECIFICATION Spec
CONSTANTS
  Names = {"a", "b"}
  Ids = {"i", "j"}
  NoId = NoId
  Slots = {"s", "t"}
  NoSlot = NoSlot
  NoName = NoName
  CniIds = {"i"}
  Kinds = {"create", "start"}
  Restart = TRUE
  Apart = TRUE
  Faults = {}
INVARIANTS NoSharedName
