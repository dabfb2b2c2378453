CONSTANTS
  Callers = {c1, c2}
  Nothing = Nothing
  MaxFailWrites = 2
  Rows = {r1}
  Workers = {w1, w2}
  NoRow = NoRow
  NoOne = NoOne
  MaxAttempts = 4
  MaxFailures = 1
  MaxCrashes = 1
  MaxStalls = 1
  MaxReplays = 1
SPECIFICATION MCSpec
INVARIANTS
  IntentMatchesHistory
  HistoryExplainsStatus
  DeliveredIsNotified
  DeadLettersExhausted
  NotifiedIsNotGivenUp
PROPERTIES
  LockEndsByOwnerOrExpiry
  EveryIntentNotified
