SPECIFICATION ReportSpec
CONSTANTS
    Pcis = {0, 1, 2, 3}
    Null = Null
    MaxNbrs = 5
    MaxPci = 3
    Share = 2
    Empty = Empty
INVARIANT CountsAreExact
INVARIANT ProblemIsRight
INVARIANT EachPciIsMeasured
INVARIANT AFifthIsBad
INVARIANT ConfusedAreMerged
PROPERTY ResultIfComplete
CHECK_DEADLOCK FALSE
