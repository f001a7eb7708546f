SPECIFICATION Spec
CONSTANTS
    x = x
    Changes = {c1, c2, c3}
    Cells = {x}
    CellOf <- MCCellOf
    None = None
INVARIANT TypeOK
INVARIANT SentOnce
PROPERTY EarlyIsSent
CHECK_DEADLOCK FALSE
