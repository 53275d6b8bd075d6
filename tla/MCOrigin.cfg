SPECIFICATION OriginSpec
CONSTANTS
  Calls = {c1, c2, c3}
  Peers = {p1}
  Anonymous = Anonymous
  Services = {s1, s2}
  Second = 2
  Lifetime = 2
  Skew = 1
  Offsets <- MCOffsets
  Capacity = 2
  MaxTime = 6
  MaxBoots = 2
SYMMETRY Interchangeable
INVARIANTS
  HandledOnce
  HandledAsSent
  SeenCoversWindow
CHECK_DEADLOCK FALSE
