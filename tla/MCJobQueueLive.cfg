CONSTANTS
  Jobs = {j1}
  Workers = {w1, w2}
  Tokens = {1, 2, 3, 4, 5, 6, 7}
  NoJob = NoJob
  NoToken = 0
  MaxAttempts = 2
  MaxCrashes = 2
  MaxStalls = 1
  MaxManualRetries = 1
SPECIFICATION FairSpec
INVARIANTS
  AnnouncedOutcomes
  AttemptsAccounted
PROPERTIES
  ImplementsLease
  EveryJobSettles
