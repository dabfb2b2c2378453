CONSTANTS
  Jobs = {j1, j2}
  Workers = {w1, w2}
  Tokens = {1, 2, 3, 4, 5, 6}
  NoJob = NoJob
  NoToken = 0
  MaxAttempts = 2
  MaxCrashes = 1
  MaxStalls = 1
  MaxManualRetries = 0
SPECIFICATION Spec
SYMMETRY Identities
INVARIANTS
  IInv
  SingleHolder
  FaultFreeAgreement
