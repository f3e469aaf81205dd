SPECIFICATION SpecUpdate
CONSTANTS
  Operations = {"remove", "repair", "disable", "prepare", "package"}
  InitialFiles = "old"
  InitialEnabled = TRUE
  InitialActive = TRUE
  MaxTransactions = 2
  MaxFaults = 1
  MaxKills = 1
  MaxLosses = 1
  MaxEdits = 1
  MaxUpdates = 1
INVARIANT ReportIsDurable
INVARIANT IntentCoversFiles
INVARIANT PairIsConsistent
PROPERTY ActsOnKnownFiles
