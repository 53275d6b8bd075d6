CONSTANTS
  a = a  w1 = w1  w2 = w2  s1 = s1  s2 = s2
  Scopes = {s1, s2}
  Stores = {a}
  Writers = {w1, w2}
  StoreOf <- MCStoreOf
  Contents = {"event"}
  Garbage = "garbage"
  MaxEvents = 2
  MaxAge = 1
  CacheScopes = 2
  CacheRows = 2
  Times = {0, 1}
  MaxAppends = 4
  FaultBudget = 1
SPECIFICATION Spec
SYMMETRY MCSymmetry
INVARIANTS
  CacheAgrees
  DamageIsSeen
  CommittedIsKept
  AuditLimits
PROPERTIES
  ImplementsEventLog
CHECK_DEADLOCK FALSE
