SPECIFICATION FairSpec
CONSTANTS
  Caller = {c1, c2}
  Slots = 1
  MaxRetries = 1
  FailThreshold = 2
  OpenTimeout = 2
  MinInterval = 1
  MaxFaults = 5
INVARIANTS TypeOK SlotsBalanced OneVerdict
PROPERTIES OpensAfterStreak CallsReturn Recovers
