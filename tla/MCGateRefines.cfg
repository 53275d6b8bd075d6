CONSTANTS
  p1 = p1  p2 = p2  c1 = c1  c2 = c2  d1 = d1  d2 = d2  n1 = n1  l1 = l1  l2 = l2
  t1 = t1  t2 = t2  t3 = t3  v1 = v1  v2 = v2  v3 = v3  k1 = k1  k2 = k2  a0 = a0  a1 = a1
  NoCall = NoCall  Blank = Blank
  Payloads <- Sealed  Granted <- Consented  NoLease = NoLease  NoBinding = NoBinding
  PolicyOf <- MCPolicyOf
  Conforming <- MCConforming
  StartTool = v1
  StartConfig = k1
  Profiles = {p1}
  Chats = {c1}
  ProfileOf <- MCProfileOf
  Decisions = {d1}
  Natives = {n1}
  ScopeOf <- MCScopeOf
  Processes = {a0}
  Threads = {t1, t2}
  ProcessOf <- MCOneProcess
  Leases = {l1}
  Tools = {v1, v2, v3}
  Configs = {k1}
  CallLimit = 2
  DecisionQuota = 2
  TTL = 1
  LeaseTTL = 1
  MaxTime = 0
  MaxGeneration = 2
  MaxKey = 0
  FaultBudget = 0
SPECIFICATION FairSpec
INVARIANTS
  GateInvariant
  DispatchIsValidated
PROPERTIES
  NothingBeginsWhileStopped
  ImplementsApprovedDispatch
  SlotIsReleased
