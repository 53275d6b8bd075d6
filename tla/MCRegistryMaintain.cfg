SPECIFICATION PromptSpec
CONSTANTS
  Ops = {x1, x2, x3, x4}
  Maintain = Maintain
  Names = {n1, n2}
  Chats = {c1, c2}
  Owners = {"profile"}
  OwnerOf <- MCOwnerOf
  Versions = {v1}
  Incarnations = {i1, i2, i3, i4}
  None = None
  ServiceCapacity = 2
  c1 = c1
  c2 = c2
  c3 = c3
SYMMETRY MCSymmetry
PROPERTIES
  MaintenanceStopsRevoked
CHECK_DEADLOCK FALSE
