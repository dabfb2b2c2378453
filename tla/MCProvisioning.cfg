CONSTANTS
  MaxCrashes = 1
  MaxWrites = 1
  Targets <- mcTargets
  NoTarget = NoTarget
  Visits = {v1, v2}
  Users = {u1, u2}
  Orgs = {o1, o2}
  Emails = {e1, e2}
  Slugs = {s1, s2}
  MaxLosses = 1
  MaxDisabled = 1
SPECIFICATION Spec
INVARIANTS
  UpgradeSuffices
  OnlyApprovedTargets
  OneStarter
  SameSignInGetsIn
PROPERTIES
  UpgradeCompletes
CHECK_DEADLOCK FALSE
