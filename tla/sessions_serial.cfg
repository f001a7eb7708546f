\* Callbacks and requests do not overlap; one stop; the sessions are bounded, so the system may stop.
SPECIFICATION Spec
CONSTANTS
  a1 = a1
  a2 = a2
  s1 = s1
  s2 = s2
  s3 = s3
  s4 = s4
  srv1 = srv1
  srv2 = srv2
  Agents = {a1, a2}
  Servers = {srv1, srv2}
  Sessions = {s1, s2, s3}
  Dump <- TwoCells
  MaxStops = 1
  Overlap = FALSE
  LateClose = FALSE
  AgentsFirst = TRUE
  None = None
  NoRow = NoRow
  Rest = Rest
SYMMETRY SessionSymmetry
CHECK_DEADLOCK FALSE
INVARIANTS TypeOK SerialInv
PROPERTY ImplementsRegistry
