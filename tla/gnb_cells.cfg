SPECIFICATION Spec
CONSTANTS
    f1 = f1
    f2 = f2
    f3 = f3
    Functions = {f1, f2, f3}
    CellCount <- MCCellCount
    Configs <- MCConfigs
    Readers = {r1, r2}
    MaxConfigs = 2
    MaxWalks = 3
    None = None
INVARIANT OwnCells
INVARIANT FirstReadIsComplete
SYMMETRY ReaderSymmetry
CHECK_DEADLOCK FALSE
