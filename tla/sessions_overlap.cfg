\* Callbacks run while a request is running.
SPECIFICATION Spec
CONSTANTS
  a1 = a1
  a2 = a2
  s1 = s1
  s2 = s2
  s3 = s3
  s4 = s4
  srv1 = srv1
  srv2 = srv2
  Agents = {a1, a2}
  Servers = {srv1, srv2}
  Sessions = {s1, s2}
  Dump <- ThreeCells
  MaxStops = 0
  Overlap = TRUE
  LateClose = FALSE
  AgentsFirst = TRUE
  None = None
  NoRow = NoRow
  Rest = Rest
SYMMETRY SessionSymmetry
CHECK_DEADLOCK FALSE
INVARIANTS NoServerLost ConnectedIsReachable
