SPECIFICATION Spec
CONSTANTS
    n1 = n1
    n2 = n2
    n3 = n3
    Cells = {n1, n2, n3}
    Blank = Blank
    None = None
    NoRow = NoRow
    NoSession = NoSession
    InitPci <- MCInitPci
    InitNbrs <- MCInitNbrs
    AgentOf <- MCAgentOf
    MaxPci = 1
    Pcis = {0, 1, 2}
    NbrSets <- MCNbrSets
    Operations <- AllOperations
    Requests = {r1, r2}
INVARIANT TypeOK
INVARIANT ListedIsDetailed
INVARIANT PciIsLogged
PROPERTY ModifyIsDone
PROPERTY ModifyLeavesFresh
PROPERTY TopologyIsRight
 
SYMMETRY RequestSymmetry
CHECK_DEADLOCK FALSE
