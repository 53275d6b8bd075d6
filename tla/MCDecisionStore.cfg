CONSTANTS
  p1 = p1  p2 = p2  c1 = c1  c2 = c2  d1 = d1  d2 = d2  n1 = n1
  Decisions = {d1, d2}
  Natives = {n1}
  NoCall = NoCall
  Blank = "blank"
  Processes = {"a0"}
  Profiles = {p1, p2}
  Chats = {c1, c2}
  ProfileOf <- MCProfileOf
  ScopeOf <- MCScopeOf
  Payloads = {"draft"}
  CallLimit = 2
  DecisionQuota = 1
  TTL = 1
  MaxTime = 2
  MaxGeneration = 2
  MaxKey = 1
SPECIFICATION StoreSpec
INVARIANTS
  AdmissionHoldsSlot
  OpenIsCurrent
  QuotaIsExact
PROPERTIES
  NeverReopened
CHECK_DEADLOCK FALSE
