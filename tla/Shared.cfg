SPECIFICATION MCSpec
CONSTANTS
  Editors = {e1, e2}
  Keys = {k1, k2}
  Edits <- MCEdits
  MaxUpgrades = 1
  Members = {"alice", "bob"}
  Terminals = {"t1", "t2", "t3"}
  OwnerOf <- MCOwnerOf
  Enrolled = {"t1"}
  MaxCommands = 5
SYMMETRY MCSymmetry
INVARIANTS EditsTellTruth NoStranger
PROPERTIES OthersKeysKept NothingLostInOrder
CHECK_DEADLOCK FALSE
