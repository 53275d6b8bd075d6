SPECIFICATION FairRegistrySpec
CONSTANTS
  Ops = {x1, x2, x3}
  Maintain = Maintain
  Names = {n1, n2, n3}
  Chats = {c1}
  Owners = {"profile", "other"}
  OwnerOf <- MCOwnerOf
  Versions = {v1}
  Incarnations = {i1, i2, i3}
  None = None
  ServiceCapacity = 2
  c1 = c1
  c2 = c2
  c3 = c3
INVARIANTS
  RegistryInvariant
PROPERTIES
  ImplementsServiceLifeCycle
  RevokedIsDrained
CHECK_DEADLOCK FALSE
