---------------------------- MODULE MCCellTables ----------------------------
EXTENDS CellTables, TLC

\* Three cells: n1 and n2 list each other, n3 is listed by n2 and lists none.
CONSTANTS n1, n2, n3
MCInitPci == (n1 :> 0) @@ (n2 :> 1) @@ (n3 :> 0)
MCInitNbrs == (n1 :> {n2}) @@ (n2 :> {n1, n3}) @@ (n3 :> {})
MCNbrSets == {{}, {n2, n3}}
MCAgentOf == (n1 :> "x") @@ (n2 :> "x") @@ (n3 :> "y")
AllOperations == OperationNames
PciOperations == {"modify", "sdnrPci"}
RequestSymmetry == Permutations(Requests)
=============================================================================
