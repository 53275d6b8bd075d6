CONSTANTS
  Requests = {r1, r2}
  Origins = {o1, o2}
  Ids = {i1, i2, i3}
  NoId = NoId
  MaxConcurrency = 2
  PerMinute = 2
  Window = 2
  IdleExpiry = 1
  SessionLimit = 3
  OriginLimit = 2
  Stateless = FALSE
  CleanUps = {TRUE, FALSE}
  MaxTime = 2
SPECIFICATION SessionSpec
SYMMETRY Interchangeable
INVARIANTS
  SessionInvariant
  LimitsHold
  RateIsBounded
  SessionIsExclusive
  DrainedIsEmpty
  DrainIsNeverStuck
CHECK_DEADLOCK FALSE
