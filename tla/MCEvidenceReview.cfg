CONSTANTS
  Sources = {s1}
  Workers = {w1, w2}
  Requests = {c1, c2}
  None = None
  MaxReports = 2
  MaxEvaluations = 3
  MaxEvents = 2
  DocumentTypes = {"proof_of_funds", "registration"}
  Keys = {"sanctions"}
  NoRule = NoRule
  Rules <- mcRules
  Deals <- mcDeals
SPECIFICATION MCSpec
INVARIANTS
  ResultCatchesUp
  MoreEvidenceNeverHurts
  ProceedIsEarned
  EvidenceFeedsBack
PROPERTIES
  FresherEvaluationStays
  GateHolds
  OneCollectionAtATime
SYMMETRY Identities
CHECK_DEADLOCK FALSE
