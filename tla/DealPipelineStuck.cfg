CONSTANTS
  Documents = {d1, d2}
  Workers = {w1, w2}
  MaxRuns = 2
  None = None
  Research = TRUE
  MaxAttempts = 2
  MaxManual = 0
  MaxFaults = 1
  MaxSize = 3
SPECIFICATION FairSpec
PROPERTY
  NoDealStuck
CHECK_DEADLOCK FALSE
