CONSTANTS
  Profiles = {p}
  None = None
  MaxRequests = 2
  MaxStops = 1
  MaxFaults = 2
  MaxOps = 1
  Exits = TRUE
SPECIFICATION Spec
CHECK_DEADLOCK FALSE
INVARIANT OwnersAreKept
INVARIANT CleanupVisible
INVARIANT LegalTransitions
PROPERTY StoppedIsFinal
