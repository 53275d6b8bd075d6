CONSTANTS
  p1 = p1  c1 = c1  d1 = d1  n1 = n1  l1 = l1  t1 = t1  t2 = t2  a0 = a0
  k1 = k1  k2 = k2  k3 = k3  m1 = m1  m2 = m2
  NoCall = NoCall  Blank = Blank
  Payloads <- Sealed  Granted <- Approved  NoLease = NoLease  NoBinding = NoBinding
  Profiles = {p1}
  Chats = {c1}
  ProfileOf <- MCProfileOf
  Decisions = {d1}
  Natives = {n1}
  ScopeOf <- MCScopeOf
  Processes = {a0}
  Threads = {t1, t2}
  ProcessOf <- MCProcessOf
  Leases = {l1}
  Classes = {1}
  Configs = {k1, k2, k3}
  Enabled = {k1, k2}
  Sensitive = {k1, k3}
  CeilingOf <- MCCeilingOf
  SealOf <- MCSealOf
  NodeOf <- MCNodeOf
  Nodes = {m1, m2}
  StartConfig = k1
  CallLimit = 1
  DecisionQuota = 1
  TTL = 1
  LeaseTTL = 1
  MaxTime = 0
  MaxGeneration = 1
  MaxKey = 1
  FaultBudget = 1
SPECIFICATION Spec
SYMMETRY MCSymmetry
INVARIANTS
  InferenceTypeOK
  SentOnEvidence
  SentWhereApproved
PROPERTIES
  ImplementsApprovedDispatch
