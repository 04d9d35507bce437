SPECIFICATION MCSpec
CONSTANTS
  Rows <- AllRows
  MaxExtra = 2
  Profiles = {"work", "home"}
  MaxEdits = 2
  Asks <- AllAsks
  Entries0 <- SomeEntries
  MaxSetups = 2
  Orders <- AllOrders
  MaxRuns = 2
INVARIANTS EndTellsTruth CauseIsNamed SentHome OneIdentity NoSilentProfile SetupTellsTruth DoneMeansSaved
