SPECIFICATION Spec
CONSTANTS
    c1 = c1
    c2 = c2
    Cells = {c1, c2}
    Pcis = {1, 2}
    InitPci <- AllOnes
    MaxHandlers = 2
    MaxChanges = 2
    MaxCommits = 1
    None = None
INVARIANTS NoEcho UpdatesArrive CommitsArrive MonitoringReturns
SYMMETRY CellSymmetry
CHECK_DEADLOCK FALSE
