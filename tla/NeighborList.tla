---------------------------- MODULE NeighborList ----------------------------
(***************************************************************************)
(* The handover neighbors of a cell, as generateNeighborList gives them to *)
(* the check for conflicts (PciCheck) and to the PM data (PmMeasurement).  *)
(* A neighbor is its position in the list.                                 *)
(***************************************************************************)
EXTENDS Naturals, FiniteSets

CONSTANTS
    Pcis,       \* physical cell ids
    MaxNbrs,    \* bound on the handover neighbors of the cell
    Null        \* a CellDetails row, or a result, that is not there

ASSUME NullAssumption == Null \notin Pcis
ASSUME MaxNbrsAssumption == MaxNbrs \in Nat

VARIABLE cellsWithHo    \* the PCIs of the neighbors in order

\* A neighbor whose CellDetails row is not there is in the list as null.
GenerateNeighborList ==
    \E n \in 0 .. MaxNbrs : cellsWithHo \in [1 .. n -> Pcis \cup {Null}]

Nbrs == DOMAIN cellsWithHo
Count == Cardinality(Nbrs)

=============================================================================
