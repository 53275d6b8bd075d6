SPECIFICATION FairNodeSpec
CONSTANTS
  Processes = {a0, a1}
  Callers = {x1, x2, x3}
  HomeOf <- MCHomeOf
  None = None
  Troubles = 1
  a0 = a0
  a1 = a1
  x1 = x1
  x2 = x2
  x3 = x3
INVARIANTS
  OneSupervisor
PROPERTIES
  StopSticks
  DisabledStops
CHECK_DEADLOCK FALSE
