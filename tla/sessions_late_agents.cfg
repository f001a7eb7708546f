\* Agents connect once the simulation is running.  Liveness: no symmetry.
SPECIFICATION FairSpec
CONSTANTS
  a1 = a1
  a2 = a2
  s1 = s1
  s2 = s2
  s3 = s3
  s4 = s4
  srv1 = srv1
  srv2 = srv2
  Agents = {a1, a2}
  Servers = {srv1, srv2}
  Sessions = {s1, s2, s3}
  Dump <- TwoCells
  MaxStops = 0
  Overlap = FALSE
  LateClose = FALSE
  AgentsFirst = FALSE
  None = None
  NoRow = NoRow
  Rest = Rest
CHECK_DEADLOCK FALSE
INVARIANTS UnassignedIsFree OneAgentPerServer AssignedIsConfigured
PROPERTY EventuallyConfigured
