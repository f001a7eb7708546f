--------------------------- MODULE PmMeasurement ---------------------------
(***************************************************************************)
(* The measurements generatePmData makes for one cell: one per handover    *)
(* neighbor.  For a cell with bad or poor performance the neighbors are    *)
(* put in the order of their PCIs, in an array indexed by PCI, and the     *)
(* first fifth of them gets the bad or poor value.                         *)
(***************************************************************************)
EXTENDS NeighborList, Sequences

CONSTANTS
    MaxPci,     \* maxPciValueAllowed
    Share,      \* one in Share neighbors is bad: 5 in the code
    Empty       \* an array element that was never set

ASSUME MaxPciAssumption == MaxPci \in Nat \ {0}
ASSUME ShareAssumption == Share \in Nat \ {0}
ASSUME EmptyAssumption == Empty \notin Nat
ASSUME PciAssumption == Pcis \subseteq 0 .. MaxPci

VARIABLES
    kind,                   \* checkBad, checkPoor, or neither
    countBad,               \* countBad or countPoor: bad values still to be given
    orderedList,            \* PCI -> neighbor, or Empty
    index,                  \* l of the loop over the neighbors, k of the others
    additionalMeasurements,
    at                      \* the loop that generatePmData is in

pmVars == <<kind, countBad, orderedList, index, additionalMeasurements, at>>

Kinds == {"bad", "poor", "normal"}

\* (int) (size * 0.2)
CountBad == Count \div Share

\* The array has maxPciValueAllowed elements, its last index is one less.
NewArray == [pos \in 0 .. MaxPci - 1 |-> Empty]
InBounds(pci) == pci # Null /\ pci < MaxPci

PmInit ==
    /\ kind = "normal"
    /\ countBad = 0
    /\ orderedList = NewArray
    /\ index = 1
    /\ additionalMeasurements = << >>
    /\ at = "cell"

CheckBadPoor(k) ==
    /\ at = "cell"
    /\ kind' = k
    /\ countBad' = IF k = "normal" THEN 0 ELSE CountBad
    /\ at' = IF k = "normal" THEN "list" ELSE "order"
    /\ UNCHANGED <<orderedList, index, additionalMeasurements>>

\* Mutant: a neighbor that finds its place taken is left out.
OrderNeighbor_KeepsFirst ==
    /\ at = "order"
    /\ index <= Count
    /\ InBounds(cellsWithHo[index])
    /\ orderedList' = [orderedList EXCEPT ![cellsWithHo[index]] =
                          IF @ = Empty THEN index ELSE @]
    /\ index' = index + 1
    /\ UNCHANGED <<kind, countBad, additionalMeasurements, at>>

\* A neighbor replaces one that has the same PCI.
OrderNeighbor ==
    /\ at = "order"
    /\ index <= Count
    /\ InBounds(cellsWithHo[index])
    /\ orderedList' = [orderedList EXCEPT ![cellsWithHo[index]] = index]
    /\ index' = index + 1
    /\ UNCHANGED <<kind, countBad, additionalMeasurements, at>>

NeighborsOrdered ==
    /\ at = "order"
    /\ index > Count
    /\ index' = 0
    /\ at' = "measure"
    /\ UNCHANGED <<kind, countBad, orderedList, additionalMeasurements>>

Measure(nbr, value) ==
    additionalMeasurements' = Append(additionalMeasurements, [nbr |-> nbr, value |-> value])

\* Mutant: elements that are not set use up the count, too.
MeasureElement_CountsEmpty ==
    LET nbr == orderedList[index] IN
    /\ at = "measure"
    /\ index < MaxPci
    /\ IF nbr = Empty THEN UNCHANGED additionalMeasurements
       ELSE Measure(nbr, IF countBad > 0 THEN kind ELSE "success")
    /\ countBad' = IF countBad > 0 THEN countBad - 1 ELSE 0
    /\ index' = index + 1
    /\ UNCHANGED <<kind, orderedList, at>>

MeasureElement ==
    LET nbr == orderedList[index] IN
    /\ at = "measure"
    /\ index < MaxPci
    /\ \/ nbr = Empty /\ UNCHANGED <<countBad, additionalMeasurements>>
       \/ nbr # Empty /\ countBad > 0 /\ Measure(nbr, kind) /\ countBad' = countBad - 1
       \/ nbr # Empty /\ countBad = 0 /\ Measure(nbr, "success") /\ UNCHANGED countBad
    /\ index' = index + 1
    /\ UNCHANGED <<kind, orderedList, at>>

MeasureNeighbor ==
    /\ at = "list"
    /\ index <= Count
    /\ cellsWithHo[index] # Null
    /\ Measure(index, "success")
    /\ index' = index + 1
    /\ UNCHANGED <<kind, countBad, orderedList, at>>

CellMeasured ==
    /\ \/ at = "measure" /\ index = MaxPci
       \/ at = "list" /\ index > Count
    /\ at' = "done"
    /\ UNCHANGED <<kind, countBad, orderedList, index, additionalMeasurements>>

\* An index out of bounds, or a neighbor that is not there: the exception ends the
\* run of generatePmData.
CellFails ==
    /\ index <= Count
    /\ \/ at = "order" /\ ~InBounds(cellsWithHo[index])
       \/ at = "list" /\ cellsWithHo[index] = Null
    /\ at' = "failed"
    /\ UNCHANGED <<kind, countBad, orderedList, index, additionalMeasurements>>

PmNext ==
    \/ \E k \in Kinds : CheckBadPoor(k)
    \/ OrderNeighbor \/ NeighborsOrdered
    \/ MeasureElement \/ MeasureNeighbor
    \/ CellMeasured \/ CellFails

=============================================================================
