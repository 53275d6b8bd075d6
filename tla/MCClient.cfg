SPECIFICATION Spec
CONSTANTS
  Callers = {c1, c2}
  NoCaller = NoCaller
  Sessions = {s1, s2}
  NoSession = NoSession
  ReadTools = {"describe"}
  LegacyTools = {"get_token_info"}
  CallTool = "call_remote_tool"
  DescribeTool = "describe"
  Listings <- MCListings
  UsedEndpoints <- MCEndpoints
  Resolvable = {"loopback", "routable", "own_socket", "other_inode"}
  MaxOps = 3
SYMMETRY MCSymmetry
INVARIANTS
  ClientInvariant
  PeerIsAllowed
  ExecutedIsTold
  AnswerIsOwn
  ReportIsSeen
CHECK_DEADLOCK FALSE
