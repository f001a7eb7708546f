----------------------------- MODULE CellReports -----------------------------
(***************************************************************************)
(* What the controller reports of one cell, for the same list of handover  *)
(* neighbors (generateNeighborList): the FM alarm that the loop of         *)
(* PciCheck works out, and the measurements of the PM data.  The one reads *)
(* nothing that the other writes, so it is enough to run one after the     *)
(* other.                                                                  *)
(***************************************************************************)
EXTENDS PciCheck, PmMeasurement

ReportInit == Init /\ PmInit

ReportNext ==
    \/ Next /\ UNCHANGED pmVars
    \/ pc = "done" /\ PmNext /\ UNCHANGED vars

ReportSpec == ReportInit /\ [][ReportNext]_<<vars, pmVars>> /\ WF_vars(Next)

-----------------------------------------------------------------------------
Measurements == DOMAIN additionalMeasurements
NbrOf(i) == additionalMeasurements[i].nbr
Measured == {NbrOf(i) : i \in Measurements}

\* Of the neighbors that share a PCI one is measured, the last; each other one
\* is measured, exactly once, in the order of the PCIs for a bad or poor cell.
EachPciIsMeasured == at = "done" =>
    /\ Len(additionalMeasurements) = Cardinality(Measured)
    /\ kind = "normal" => Measured = Nbrs
    /\ kind # "normal" =>
         /\ Measured = {n \in Nbrs : \A o \in Nbrs : o > n => cellsWithHo[o] # cellsWithHo[n]}
         /\ \A i, j \in Measurements : i < j => cellsWithHo[NbrOf(i)] < cellsWithHo[NbrOf(j)]

\* The neighbors with the lowest PCIs, as many as a fifth of the list, have the
\* bad or poor value, also if some neighbors of the list share a PCI.
AFifthIsBad == at = "done" =>
    \A i \in Measurements :
        additionalMeasurements[i].value =
            IF kind # "normal" /\ i <= CountBad THEN kind ELSE "success"

\* A cell that the FM alarm calls confused is one that bad or poor PM data
\* report with too few neighbors, and no other cell is: each neighbor in the
\* alarm's confusion count shares its one measurement with another.
ConfusedAreMerged ==
    LET merged == Count - Len(additionalMeasurements) IN
    problem # Null /\ at = "done" /\ kind # "normal" =>
        /\ merged > 0 <=> flags.confusion
        /\ merged <= confusionCount
        /\ confusionCount <= 2 * merged

=============================================================================
