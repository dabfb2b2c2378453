CONSTANTS
  Tabs = {t1, t2}
  Requests = {r1, r2}
  Files = {f1, f2, f3}
  Required = {f1, f2}
  OtherLists = {{f1}}
  MaxFiles = 2
  None = None
  Contents <- mcContents
  NoObject = NoObject
  Declarations <- mcDeclarations
  MaxBytes = 20
  TailBytes = 8
  MaxPuts = 2
  MaxOutages = 1
SPECIFICATION MCSpec
SYMMETRY Interchangeable
INVARIANTS
  UnverifiedAreForeign
  AcceptanceIsAtomic
  VerdictIsRight
PROPERTY
  AcceptedOnce
CHECK_DEADLOCK FALSE
