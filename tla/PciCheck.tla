------------------------------ MODULE PciCheck ------------------------------
(***************************************************************************)
(* The loop of setCollisionConfusionFromFile over the handover neighbors   *)
(* of a cell.  It counts collisions and confusions in one pass, with a     *)
(* list of the PCIs it has met and a list of those it has met twice, and   *)
(* names the problem for the FM alarm.                                     *)
(***************************************************************************)
EXTENDS PciFlags, NeighborList

VARIABLES
    currentCell,    \* the PCI of the cell, or Null
    next,           \* the neighbor the loop looks at
    nbrPcis, confusionPcis, collisionCount, confusionCount,
    collisionDetected, confusionDetected,
    flags, problem, \* what is merged and what is answered
    pc

input == <<currentCell, cellsWithHo>>
counters == <<next, nbrPcis, confusionPcis, collisionCount, confusionCount,
              collisionDetected, confusionDetected>>
vars == <<input, counters, flags, problem, pc>>

Problems == {"No Issues", "Collision", "Confusion", "CollisionAndConfusion"}
ASSUME ProblemAssumption == Null \notin Problems

TypeOK ==
    /\ currentCell \in Pcis \cup {Null}
    /\ cellsWithHo \in UNION {[1 .. n -> Pcis \cup {Null}] : n \in 0 .. MaxNbrs}
    /\ next \in Nat
    /\ nbrPcis \subseteq Pcis /\ confusionPcis \subseteq Pcis
    /\ collisionCount \in Nat /\ confusionCount \in Nat
    /\ collisionDetected \in BOOLEAN /\ confusionDetected \in BOOLEAN
    /\ flags \in Flags
    /\ problem \in Problems \cup {Null}
    /\ pc \in {"loop", "set", "done"}

Init ==
    /\ currentCell \in Pcis \cup {Null}
    /\ GenerateNeighborList
    /\ next = 1
    /\ nbrPcis = {} /\ confusionPcis = {}
    /\ collisionCount = 0 /\ confusionCount = 0
    /\ collisionDetected = FALSE /\ confusionDetected = FALSE
    /\ flags = NoFlags
    /\ problem = Null
    /\ pc = "loop"

\* Mutant: a PCI that is met for the second time counts for one neighbor.
NoteConfusion_OffByOne(p) ==
    /\ confusionDetected' = TRUE
    /\ confusionCount' = confusionCount + 1
    /\ confusionPcis' = confusionPcis \cup {p}
    /\ UNCHANGED nbrPcis

\* A PCI that is met for the second time makes two neighbors confused, each
\* later time makes one more.
NoteConfusion(p) ==
    /\ confusionDetected' = TRUE
    /\ confusionCount' = confusionCount + (IF p \in confusionPcis THEN 1 ELSE 2)
    /\ confusionPcis' = confusionPcis \cup {p}
    /\ UNCHANGED nbrPcis

\* Mutant: the PCI is not remembered.
NotePci_Forgets(p) ==
    UNCHANGED <<nbrPcis, confusionPcis, confusionCount, confusionDetected>>

NotePci(p) ==
    /\ nbrPcis' = nbrPcis \cup {p}
    /\ UNCHANGED <<confusionPcis, confusionCount, confusionDetected>>

NoteCollision(p) ==
    IF p = currentCell
    THEN collisionDetected' = TRUE /\ collisionCount' = collisionCount + 1
    ELSE UNCHANGED <<collisionDetected, collisionCount>>

Missing == currentCell = Null \/ cellsWithHo[next] = Null

Look ==
    /\ pc = "loop"
    /\ next <= Count
    /\ ~Missing
    /\ LET p == cellsWithHo[next] IN
         /\ IF p \in nbrPcis THEN NoteConfusion(p) ELSE NotePci(p)
         /\ NoteCollision(p)
    /\ next' = next + 1
    /\ UNCHANGED <<input, flags, problem, pc>>

\* The exception is caught, null is answered, nothing is merged.
Throw ==
    /\ pc = "loop"
    /\ IF next <= Count THEN Missing ELSE currentCell = Null
    /\ pc' = "done"
    /\ UNCHANGED <<input, counters, flags, problem>>

\* Mutant: a cell that is not there is given flags all the same.
SetFlags_NoCell ==
    /\ pc = "loop"
    /\ next > Count
    /\ flags' = [collision |-> collisionDetected, confusion |-> confusionDetected]
    /\ pc' = "set"
    /\ UNCHANGED <<input, counters, problem>>

SetFlags ==
    /\ pc = "loop"
    /\ next > Count
    /\ currentCell # Null
    /\ flags' = [collision |-> collisionDetected, confusion |-> confusionDetected]
    /\ pc' = "set"
    /\ UNCHANGED <<input, counters, problem>>

\* Mutant: the cases are tested in another order.
SetProblem_Swapped ==
    /\ pc = "set"
    /\ problem' = CASE flags.collision -> "Collision"
                    [] ~flags.collision /\ flags.confusion -> "Confusion"
                    [] OTHER -> "No Issues"
    /\ pc' = "done"
    /\ UNCHANGED <<input, counters, flags>>

SetProblem ==
    /\ pc = "set"
    /\ problem' = CASE ~flags.collision /\ ~flags.confusion -> "No Issues"
                    [] flags.collision /\ flags.confusion -> "CollisionAndConfusion"
                    [] flags.collision /\ ~flags.confusion -> "Collision"
                    [] ~flags.collision /\ flags.confusion -> "Confusion"
    /\ pc' = "done"
    /\ UNCHANGED <<input, counters, flags>>

Next == Look \/ Throw \/ SetFlags \/ SetProblem

Spec == Init /\ [][Next]_vars /\ WF_vars(Next)

-----------------------------------------------------------------------------
Colliding == {k \in Nbrs : cellsWithHo[k] = currentCell}
Confusing == {k \in Nbrs : \E l \in Nbrs : l # k /\ cellsWithHo[l] = cellsWithHo[k]}

\* The alarm's counts: collisions is the number of handover neighbors that have
\* the PCI of the cell, confusions the number of those that share theirs with
\* another, although the loop meets each neighbor once and never looks back.
CountsAreExact ==
    problem # Null =>
        /\ collisionCount = Cardinality(Colliding)
        /\ confusionCount = Cardinality(Confusing)

\* The problem and the flags are the conflicts of the definition, so that FM
\* alarms, colors and the CellDetails flags tell the same.
ProblemIsRight ==
    LET f == Conflicts(currentCell, cellsWithHo, Nbrs) IN
    problem # Null =>
        /\ flags = f
        /\ problem = CASE f.collision /\ f.confusion -> "CollisionAndConfusion"
                       [] f.collision /\ ~f.confusion -> "Collision"
                       [] ~f.collision /\ f.confusion -> "Confusion"
                       [] OTHER -> "No Issues"

\* A result is given in the end exactly if the cell and all its handover
\* neighbors are there.
ResultIfComplete ==
    <>[](problem # Null <=> currentCell # Null /\ \A k \in Nbrs : cellsWithHo[k] # Null)

=============================================================================
