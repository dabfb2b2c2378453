CONSTANTS
  Documents = {d1, d2}
  Workers = {w1, w2}
  MaxRuns = 2
  None = None
  Research = TRUE
  MaxAttempts = 2
  MaxManual = 1
  MaxFaults = 2
  MaxSize = 3
SPECIFICATION MCSpec
INVARIANTS
  PacketWaitsForDocuments
PROPERTIES
  ReadyHasPacket
  FailedForAReason
  EveryDealSettles
CHECK_DEADLOCK FALSE
