CONSTANTS
  Requests = {r1, r2}
  Processes = {p1}
  Nowhere = Nowhere
  Limit = 2
  Window = 2
  MaxOutages = 1
  MaxLost = 1
  MaxRestarts = 1
  Threads = {t1, t2}
  Urls = {u1}
  NoUrl = NoUrl
  Interval = 1
  RedisInterval = 2
  CacheTtl = 2
  Slots = 1
  MaxUrls = 1
  MaxLookup = 1
  MaxFailures = 1
SPECIFICATION Spec
INVARIANTS
  WindowBound
  RefusedOnlyWhenSpent
  LineIsTight
  HitsAreFresh
PROPERTIES
  PatientClientAdmitted
  EveryRequestAnswered
CHECK_DEADLOCK FALSE
