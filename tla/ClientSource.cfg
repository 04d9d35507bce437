SPECIFICATION MCSpec
CONSTANTS
  Rows <- AllRows
  MaxExtra = 0
  Profiles = {"work", "home"}
  MaxEdits = 2
  Asks <- AllAsks
  Entries0 <- SomeEntries
  MaxSetups = 0
  Orders <- AllOrders
  MaxRuns = 0
INVARIANTS ClientFollowsChain
