-------------------------- MODULE CellReportsProofs --------------------------
(***************************************************************************)
(* The one-pass loop of setCollisionConfusionFromFile and the measurements *)
(* of generatePmData are right, and agree, for every set of PCIs and every *)
(* number of handover neighbors.                                           *)
(***************************************************************************)
EXTENDS CellReports, FiniteSetTheorems, TLAPS

-----------------------------------------------------------------------------
(* What the loop knows of the neighbors 1 .. m. *)

Met(m) == {cellsWithHo[k] : k \in 1 .. m}
MetTwice(m) == {p \in Met(m) : \E j, k \in 1 .. m :
                    j # k /\ cellsWithHo[j] = p /\ cellsWithHo[k] = p}
CollidingIn(m) == {k \in 1 .. m : cellsWithHo[k] = currentCell}
ConfusingIn(m) == {k \in 1 .. m : \E j \in 1 .. m :
                     j # k /\ cellsWithHo[j] = cellsWithHo[k]}

CountersAreRight(m) ==
    /\ nbrPcis = Met(m)
    /\ confusionPcis = MetTwice(m)
    /\ collisionCount = Cardinality(CollidingIn(m))
    /\ confusionCount = Cardinality(ConfusingIn(m))
    /\ collisionDetected <=> CollidingIn(m) # {}
    /\ confusionDetected <=> ConfusingIn(m) # {}

Typed ==
    /\ \E n \in Nat : n <= MaxNbrs /\ cellsWithHo \in [1 .. n -> Pcis \cup {Null}]
    /\ currentCell \in Pcis \cup {Null}
    /\ next \in Nat /\ 1 <= next /\ next <= Count + 1
    /\ collisionDetected \in BOOLEAN /\ confusionDetected \in BOOLEAN
    /\ pc \in {"loop", "set", "done"}

ProblemFollows ==
    problem # Null =>
        problem = CASE flags.collision /\ flags.confusion -> "CollisionAndConfusion"
                    [] flags.collision /\ ~flags.confusion -> "Collision"
                    [] ~flags.collision /\ flags.confusion -> "Confusion"
                    [] OTHER -> "No Issues"

\* The invariant: the counters are right for the neighbors the loop has passed;
\* when it has passed all of them, the flags and the problem follow from them.
Inv ==
    /\ Typed
    /\ CountersAreRight(next - 1)
    /\ pc = "loop" => problem = Null
    /\ pc = "set" \/ problem # Null =>
         /\ next = Count + 1 /\ currentCell # Null
         /\ flags = [collision |-> collisionDetected, confusion |-> confusionDetected]
    /\ ProblemFollows

-----------------------------------------------------------------------------
LEMMA CountIsLength ==
    ASSUME NEW n \in Nat, NEW S, cellsWithHo \in [1 .. n -> S]
    PROVE  Count = n /\ DOMAIN cellsWithHo = 1 .. n
<1>1. Cardinality(1 .. n) = n
  BY FS_Interval
<1> QED
  BY <1>1 DEF Count, Nbrs

LEMMA PrefixFinite ==
    ASSUME NEW m \in Nat
    PROVE  /\ IsFiniteSet(CollidingIn(m)) /\ Cardinality(CollidingIn(m)) \in Nat
           /\ IsFiniteSet(ConfusingIn(m)) /\ Cardinality(ConfusingIn(m)) \in Nat
<1>1. IsFiniteSet(1 .. m)
  BY FS_Interval
<1>2. CollidingIn(m) \subseteq 1 .. m /\ ConfusingIn(m) \subseteq 1 .. m
  BY DEF CollidingIn, ConfusingIn
<1> QED
  BY <1>1, <1>2, FS_Subset, FS_CardinalityType

\* One more neighbor with a PCI that has not been met: no one is confused by it.
LEMMA NewPci ==
    ASSUME NEW m \in Nat, m > 0, cellsWithHo[m] \notin Met(m - 1)
    PROVE  /\ ConfusingIn(m) = ConfusingIn(m - 1)
           /\ MetTwice(m) = MetTwice(m - 1)
<1>1. 1 .. m = (1 .. (m - 1)) \cup {m} /\ m \notin 1 .. (m - 1)
  OBVIOUS
<1>2. \A j \in 1 .. (m - 1) : cellsWithHo[j] # cellsWithHo[m]
  BY DEF Met
<1>3. ConfusingIn(m) = ConfusingIn(m - 1)
  BY <1>1, <1>2 DEF ConfusingIn
<1>4. MetTwice(m) = MetTwice(m - 1)
  BY <1>1, <1>2 DEF MetTwice, Met
<1> QED
  BY <1>3, <1>4

\* One more neighbor with a PCI that was met once: it is confused, and so is the
\* neighbor that has this PCI.
LEMMA SecondPci ==
    ASSUME NEW m \in Nat, m > 0,
           cellsWithHo[m] \in Met(m - 1), cellsWithHo[m] \notin MetTwice(m - 1)
    PROVE  /\ Cardinality(ConfusingIn(m)) = Cardinality(ConfusingIn(m - 1)) + 2
           /\ MetTwice(m) = MetTwice(m - 1) \cup {cellsWithHo[m]}
           /\ ConfusingIn(m) # {}
<1>1. 1 .. m = (1 .. (m - 1)) \cup {m} /\ m \notin 1 .. (m - 1)
  OBVIOUS
<1>2. PICK j \in 1 .. (m - 1) : cellsWithHo[j] = cellsWithHo[m]
  BY DEF Met
<1>3. \A k \in 1 .. (m - 1) : cellsWithHo[k] = cellsWithHo[m] => k = j
  BY <1>2 DEF MetTwice
<1>4. ConfusingIn(m) = (ConfusingIn(m - 1) \cup {j}) \cup {m}
  BY <1>1, <1>2, <1>3 DEF ConfusingIn
<1>5. j \notin ConfusingIn(m - 1) /\ m \notin ConfusingIn(m - 1) \cup {j}
  BY <1>1, <1>2, <1>3 DEF ConfusingIn
<1>6. m - 1 \in Nat
  OBVIOUS
<1>7. /\ IsFiniteSet(ConfusingIn(m - 1) \cup {j})
      /\ Cardinality(ConfusingIn(m - 1) \cup {j}) = Cardinality(ConfusingIn(m - 1)) + 1
  BY <1>5, <1>6, PrefixFinite, FS_AddElement
<1>8. Cardinality(ConfusingIn(m)) = Cardinality(ConfusingIn(m - 1) \cup {j}) + 1
  BY <1>4, <1>5, <1>7, FS_AddElement
<1>9. MetTwice(m) = MetTwice(m - 1) \cup {cellsWithHo[m]}
  BY <1>1, <1>2, <1>3 DEF MetTwice, Met
<1> QED
  BY <1>4, <1>6, <1>7, <1>8, <1>9, PrefixFinite

\* One more neighbor with a PCI that was met twice: it is confused, too.
LEMMA LaterPci ==
    ASSUME NEW m \in Nat, m > 0, cellsWithHo[m] \in MetTwice(m - 1)
    PROVE  /\ Cardinality(ConfusingIn(m)) = Cardinality(ConfusingIn(m - 1)) + 1
           /\ MetTwice(m) = MetTwice(m - 1) \cup {cellsWithHo[m]}
           /\ ConfusingIn(m) # {}
<1>1. 1 .. m = (1 .. (m - 1)) \cup {m} /\ m \notin 1 .. (m - 1)
  OBVIOUS
<1>2. PICK i, j \in 1 .. (m - 1) :
        i # j /\ cellsWithHo[i] = cellsWithHo[m] /\ cellsWithHo[j] = cellsWithHo[m]
  BY DEF MetTwice
<1>3. ConfusingIn(m) = ConfusingIn(m - 1) \cup {m}
  BY <1>1, <1>2 DEF ConfusingIn
<1>4. m \notin ConfusingIn(m - 1)
  BY <1>1 DEF ConfusingIn
<1>5. m - 1 \in Nat
  OBVIOUS
<1>6. Cardinality(ConfusingIn(m)) = Cardinality(ConfusingIn(m - 1)) + 1
  BY <1>3, <1>4, <1>5, PrefixFinite, FS_AddElement
<1>7. MetTwice(m) = MetTwice(m - 1) \cup {cellsWithHo[m]}
  BY <1>1, <1>2 DEF MetTwice, Met
<1> QED
  BY <1>3, <1>6, <1>7

LEMMA OneMoreCollision ==
    ASSUME NEW m \in Nat, m > 0
    PROVE  IF cellsWithHo[m] = currentCell
           THEN /\ Cardinality(CollidingIn(m)) = Cardinality(CollidingIn(m - 1)) + 1
                /\ CollidingIn(m) # {}
           ELSE CollidingIn(m) = CollidingIn(m - 1)
<1>1. 1 .. m = (1 .. (m - 1)) \cup {m} /\ m \notin 1 .. (m - 1) /\ m - 1 \in Nat
  OBVIOUS
<1>2. CASE cellsWithHo[m] = currentCell
  <2>1. CollidingIn(m) = CollidingIn(m - 1) \cup {m} /\ m \notin CollidingIn(m - 1)
    BY <1>1, <1>2 DEF CollidingIn
  <2> QED
    BY <1>1, <1>2, <2>1, PrefixFinite, FS_AddElement
<1>3. CASE cellsWithHo[m] # currentCell
  BY <1>1, <1>3 DEF CollidingIn
<1> QED
  BY <1>2, <1>3

-----------------------------------------------------------------------------
LEMMA InitInv == Init => Inv
<1> SUFFICES ASSUME Init PROVE Inv
  OBVIOUS
<1>1. PICK n \in 0 .. MaxNbrs : cellsWithHo \in [1 .. n -> Pcis \cup {Null}]
  BY DEF Init, GenerateNeighborList
<1>2. n \in Nat /\ n <= MaxNbrs
  BY MaxNbrsAssumption
<1>a. Count = n
  BY <1>1, <1>2, CountIsLength
<1>3. Typed
  <2>1. \E m \in Nat : m <= MaxNbrs /\ cellsWithHo \in [1 .. m -> Pcis \cup {Null}]
    BY <1>1, <1>2
  <2> QED
    <3>1. 1 <= Count + 1 /\ 1 \in Nat
      BY <1>2, <1>a
    <3> QED
      <4>1. /\ currentCell \in Pcis \cup {Null} /\ next = 1 /\ pc = "loop"
            /\ collisionDetected = FALSE /\ confusionDetected = FALSE
        BY DEF Init
      <4> QED
        <5>1. currentCell \in Pcis \cup {Null} /\ pc \in {"loop", "set", "done"}
          BY <4>1
        <5>2. next \in Nat /\ 1 <= next /\ next <= Count + 1
          BY <3>1, <4>1
        <5>3. collisionDetected \in BOOLEAN /\ confusionDetected \in BOOLEAN
          BY <4>1
        <5> QED
          BY <2>1, <5>1, <5>2, <5>3 DEF Typed
<1>4. 1 .. 0 = {}
  OBVIOUS
<1>5. next - 1 = 0
  BY DEF Init
<1>6. CollidingIn(0) = {} /\ ConfusingIn(0) = {} /\ Met(0) = {} /\ MetTwice(0) = {}
  BY <1>4 DEF CollidingIn, ConfusingIn, Met, MetTwice
<1>7. CountersAreRight(0)
  BY <1>6, FS_EmptySet DEF Init, CountersAreRight
<1> QED
  BY <1>3, <1>5, <1>7 DEF Init, Inv, ProblemFollows

LEMMA LookInv == Inv /\ Look => Inv'
<1> SUFFICES ASSUME Inv, Look PROVE Inv'
  OBVIOUS
<1> DEFINE p == cellsWithHo[next]
<1>0. PICK m \in Nat : m = next
  BY DEF Inv, Typed
<1>1. PICK n \in Nat : n <= MaxNbrs /\ cellsWithHo \in [1 .. n -> Pcis \cup {Null}]
  BY DEF Inv, Typed
<1>2. Count = n /\ m > 0 /\ m <= n
  <2>1. Count = n
    BY <1>1, CountIsLength
  <2>2. 1 <= next /\ next <= Count
    BY DEF Inv, Typed, Look
  <2> QED
    BY <1>0, <2>1, <2>2
<1>3. UNCHANGED input /\ next' = m + 1 /\ UNCHANGED <<flags, problem, pc>> /\ pc = "loop"
  BY <1>0 DEF Look
<1>4. CountersAreRight(m - 1)
  BY <1>0 DEF Inv
<1>5. /\ Met(m)' = Met(m) /\ MetTwice(m)' = MetTwice(m)
      /\ CollidingIn(m)' = CollidingIn(m) /\ ConfusingIn(m)' = ConfusingIn(m)
  <2>1. cellsWithHo' = cellsWithHo /\ currentCell' = currentCell
    BY <1>3 DEF input
  <2> QED
    BY <2>1 DEF Met, MetTwice, CollidingIn, ConfusingIn
<1>6. /\ nbrPcis' = Met(m)
      /\ confusionPcis' = MetTwice(m)
      /\ confusionCount' = Cardinality(ConfusingIn(m))
      /\ confusionDetected' \in BOOLEAN
      /\ confusionDetected' <=> ConfusingIn(m) # {}
  <2>1. 1 .. m = (1 .. (m - 1)) \cup {m}
    BY <1>2
  <2>2. Met(m) = Met(m - 1) \cup {p}
    BY <1>0, <2>1 DEF Met
  <2>3. confusionDetected \in BOOLEAN
    BY DEF Inv, Typed
  <2>4. CASE p \notin nbrPcis
    <3>1. NotePci(p)
      BY <2>4 DEF Look
    <3>2. ConfusingIn(m) = ConfusingIn(m - 1) /\ MetTwice(m) = MetTwice(m - 1)
      BY <1>0, <1>2, <1>4, <2>4, NewPci DEF CountersAreRight
    <3> QED
      BY <1>4, <2>2, <2>3, <3>1, <3>2 DEF NotePci, CountersAreRight
  <2>5. CASE p \in nbrPcis
    <3>1. NoteConfusion(p)
      BY <2>5 DEF Look
    <3>2. Met(m) = nbrPcis
      BY <1>4, <2>2, <2>5 DEF CountersAreRight
    <3>3. CASE p \notin confusionPcis
      <4>1. /\ Cardinality(ConfusingIn(m)) = Cardinality(ConfusingIn(m - 1)) + 2
            /\ MetTwice(m) = MetTwice(m - 1) \cup {p}
            /\ ConfusingIn(m) # {}
        BY <1>0, <1>2, <1>4, <2>5, <3>3, SecondPci DEF CountersAreRight
      <4> QED
        BY <1>4, <3>1, <3>2, <3>3, <4>1 DEF NoteConfusion, CountersAreRight
    <3>4. CASE p \in confusionPcis
      <4>1. /\ Cardinality(ConfusingIn(m)) = Cardinality(ConfusingIn(m - 1)) + 1
            /\ MetTwice(m) = MetTwice(m - 1) \cup {p}
            /\ ConfusingIn(m) # {}
        BY <1>0, <1>2, <1>4, <3>4, LaterPci DEF CountersAreRight
      <4> QED
        BY <1>4, <3>1, <3>2, <3>4, <4>1 DEF NoteConfusion, CountersAreRight
    <3> QED
      BY <3>3, <3>4
  <2> QED
    BY <2>4, <2>5
<1>7. /\ collisionCount' = Cardinality(CollidingIn(m))
      /\ collisionDetected' \in BOOLEAN
      /\ collisionDetected' <=> CollidingIn(m) # {}
  <2>1. NoteCollision(p) /\ collisionDetected \in BOOLEAN
    BY DEF Look, Inv, Typed
  <2>2. IF p = currentCell
        THEN /\ Cardinality(CollidingIn(m)) = Cardinality(CollidingIn(m - 1)) + 1
             /\ CollidingIn(m) # {}
        ELSE CollidingIn(m) = CollidingIn(m - 1)
    BY <1>0, <1>2, OneMoreCollision
  <2> QED
    BY <1>4, <2>1, <2>2 DEF NoteCollision, CountersAreRight
<1>8. CountersAreRight(m)'
  BY <1>5, <1>6, <1>7 DEF CountersAreRight
<1>9. Count' = n
  BY <1>1, <1>2, <1>3 DEF Count, Nbrs, input
<1>10. Typed'
  BY <1>1, <1>2, <1>3, <1>6, <1>7, <1>9 DEF Typed, input, Inv
<1>11. CountersAreRight(next - 1)'
  <2>1. next' - 1 = m
    BY <1>3
  <2> QED
    BY <1>8, <2>1 DEF CountersAreRight, Met, MetTwice, CollidingIn, ConfusingIn
<1> QED
  BY <1>3, <1>10, <1>11 DEF Inv, ProblemFollows

LEMMA StepInv == Inv /\ [Next]_vars => Inv'
<1> SUFFICES ASSUME Inv, [Next]_vars PROVE Inv'
  OBVIOUS
<1>1. CASE Look
  BY <1>1, LookInv
<1>2. ASSUME UNCHANGED <<input, counters>>
      PROVE  Count' = Count /\ CountersAreRight(next - 1)'
  <2>1. CountersAreRight(next - 1)
    BY DEF Inv
  <2> QED
    BY <1>2, <2>1 DEF input, counters, CountersAreRight, Count, Nbrs, Met, MetTwice,
                      CollidingIn, ConfusingIn
<1>3. CASE Throw
  <2>1. UNCHANGED <<input, counters, flags, problem>> /\ pc' = "done" /\ pc = "loop"
    BY <1>3 DEF Throw
  <2>2. Typed'
    BY <1>2, <2>1 DEF Inv, Typed, input, counters
  <2> QED
    BY <1>2, <2>1, <2>2 DEF Inv, ProblemFollows, counters, input
<1>4. CASE SetFlags
  <2>1. next = Count + 1 /\ problem = Null
    <3>1. pc = "loop" /\ next > Count
      BY <1>4 DEF SetFlags
    <3>2. PICK n \in Nat : cellsWithHo \in [1 .. n -> Pcis \cup {Null}]
      BY DEF Inv, Typed
    <3>3. Count \in Nat
      BY <3>2, CountIsLength
    <3> QED
      BY <3>1, <3>3 DEF Inv, Typed
  <2>2. /\ pc' = "set" /\ UNCHANGED <<input, counters, problem>> /\ currentCell # Null
        /\ flags' = [collision |-> collisionDetected, confusion |-> confusionDetected]
    BY <1>4 DEF SetFlags
  <2>3. Typed'
    BY <1>2, <2>2 DEF Inv, Typed, input, counters
  <2> QED
    BY <1>2, <2>1, <2>2, <2>3 DEF Inv, ProblemFollows, input, counters
<1>5. CASE SetProblem
  <2>1. UNCHANGED <<input, counters, flags>> /\ pc' = "done" /\ pc = "set"
    BY <1>5 DEF SetProblem
  <2>a. flags.collision \in BOOLEAN /\ flags.confusion \in BOOLEAN
    BY <2>1 DEF Inv, Typed
  <2>2. problem' = CASE flags.collision /\ flags.confusion -> "CollisionAndConfusion"
                     [] flags.collision /\ ~flags.confusion -> "Collision"
                     [] ~flags.collision /\ flags.confusion -> "Confusion"
                     [] OTHER -> "No Issues"
    BY <1>5, <2>a DEF SetProblem
  <2>3. Typed'
    BY <1>2, <2>1 DEF Inv, Typed, input, counters
  <2> QED
    BY <1>2, <2>1, <2>2, <2>3 DEF Inv, ProblemFollows, input, counters
<1>6. CASE UNCHANGED vars
  <2>1. UNCHANGED <<input, counters, flags, problem, pc>>
    BY <1>6 DEF vars
  <2>2. Typed'
    BY <1>2, <2>1 DEF Inv, Typed, input, counters
  <2> QED
    BY <1>2, <2>1, <2>2 DEF Inv, ProblemFollows, input, counters
<1> QED
  BY <1>1, <1>3, <1>4, <1>5, <1>6 DEF Next

LEMMA ExactCounts == Inv => CountsAreExact
<1> SUFFICES ASSUME Inv, problem # Null
             PROVE  /\ collisionCount = Cardinality(Colliding)
                    /\ confusionCount = Cardinality(Confusing)
  BY DEF CountsAreExact
<1>1. PICK n \in Nat : cellsWithHo \in [1 .. n -> Pcis \cup {Null}]
  BY DEF Inv, Typed
<1>2. Count = n /\ Nbrs = 1 .. n
  BY <1>1, CountIsLength DEF Nbrs
<1>a. next - 1 = n
  BY <1>2 DEF Inv, Typed
<1>3. Colliding = CollidingIn(n) /\ Confusing = ConfusingIn(n)
  BY <1>2 DEF Colliding, CollidingIn, Confusing, ConfusingIn
<1> QED
  BY <1>a, <1>3 DEF Inv, CountersAreRight

LEMMA RightProblem == Inv => ProblemIsRight
<1> SUFFICES ASSUME Inv, problem # Null
             PROVE  flags = Conflicts(currentCell, cellsWithHo, Nbrs)
  BY DEF ProblemIsRight, Inv, ProblemFollows
<1>1. PICK n \in Nat : cellsWithHo \in [1 .. n -> Pcis \cup {Null}]
  BY DEF Inv, Typed
<1>2. Count = n /\ Nbrs = 1 .. n
  BY <1>1, CountIsLength DEF Nbrs
<1>a. next - 1 = n
  BY <1>2 DEF Inv, Typed
<1>3. /\ collisionDetected <=> CollidingIn(n) # {}
      /\ confusionDetected <=> ConfusingIn(n) # {}
      /\ collisionDetected \in BOOLEAN /\ confusionDetected \in BOOLEAN
  BY <1>a DEF Inv, CountersAreRight, Typed
<1>4. collisionDetected = (\E k \in Nbrs : cellsWithHo[k] = currentCell)
  BY <1>2, <1>3 DEF CollidingIn
<1>5. confusionDetected = (\E j, k \in Nbrs : j # k /\ cellsWithHo[j] = cellsWithHo[k])
  BY <1>2, <1>3 DEF ConfusingIn
<1> QED
  BY <1>4, <1>5 DEF Inv, Conflicts

\* Whatever the neighbors are, the alarm of setCollisionConfusionFromFile counts
\* the collisions and the confused neighbors exactly.
THEOREM CountsExact == Spec => []CountsAreExact
BY InitInv, StepInv, ExactCounts, PTL DEF Spec

\* Whatever the neighbors are, the flags that setCollisionConfusionFromFile
\* merges, and the problem it names, are the conflicts of the definition.
THEOREM ProblemRight == Spec => []ProblemIsRight
BY InitInv, StepInv, RightProblem, PTL DEF Spec

-----------------------------------------------------------------------------
(* When there is a result. *)

Complete == currentCell # Null /\ \A k \in Nbrs : cellsWithHo[k] # Null

\* What the loop has passed is there.
ThereUpTo(m) ==
    /\ \A k \in 1 .. m : cellsWithHo[k] # Null
    /\ m > 0 => currentCell # Null

CompleteInv ==
    /\ pc = "loop" => ThereUpTo(next - 1)
    /\ pc = "set" => Complete

ResultTellsComplete == pc = "done" => (problem # Null <=> Complete)

LEMMA CompleteStep ==
    ASSUME Inv, CompleteInv, ResultTellsComplete, [Next]_vars
    PROVE  CompleteInv' /\ ResultTellsComplete'
<1>1. PICK n \in Nat : /\ n <= MaxNbrs /\ cellsWithHo \in [1 .. n -> Pcis \cup {Null}]
                      /\ next \in 1 .. n + 1 /\ Count = n /\ Nbrs = 1 .. n
  <2>1. PICK n \in Nat : n <= MaxNbrs /\ cellsWithHo \in [1 .. n -> Pcis \cup {Null}]
    BY DEF Inv, Typed
  <2>2. Count = n /\ Nbrs = 1 .. n
    BY <2>1, CountIsLength DEF Nbrs
  <2> QED
    BY <2>1, <2>2 DEF Inv, Typed
<1>2. ASSUME UNCHANGED input PROVE Complete' <=> Complete
  BY <1>2 DEF input, Complete, Nbrs
<1>3. pc = "loop" => problem = Null
  BY DEF Inv
<1>4. CASE Look
  <2>1. /\ pc = "loop" /\ pc' = "loop" /\ next' = next + 1
        /\ currentCell # Null /\ cellsWithHo[next] # Null
        /\ UNCHANGED <<currentCell, cellsWithHo>>
    BY <1>4 DEF Look, Missing, input
  <2>2. ThereUpTo(next - 1) /\ 1 .. (next' - 1) = (1 .. (next - 1)) \cup {next}
    BY <1>1, <2>1 DEF CompleteInv
  <2>3. ThereUpTo(next - 1)'
    BY <2>1, <2>2 DEF ThereUpTo
  <2> QED
    BY <2>1, <2>3 DEF CompleteInv, ResultTellsComplete
<1>5. CASE Throw
  <2>1. /\ pc = "loop" /\ pc' = "done" /\ problem' = Null /\ UNCHANGED input
        /\ currentCell = Null \/ (next <= n /\ cellsWithHo[next] = Null)
    BY <1>1, <1>3, <1>5 DEF Throw, Missing
  <2>2. ~Complete
    BY <1>1, <2>1 DEF Complete
  <2> QED
    BY <1>2, <2>1, <2>2 DEF CompleteInv, ResultTellsComplete
<1>6. CASE SetFlags
  <2>1. pc = "loop" /\ pc' = "set" /\ currentCell # Null /\ next > n /\ UNCHANGED input
    BY <1>1, <1>6 DEF SetFlags
  <2>2. next - 1 = n
    BY <1>1, <2>1
  <2>3. Complete
    BY <1>1, <2>1, <2>2 DEF CompleteInv, ThereUpTo, Complete
  <2> QED
    BY <1>2, <2>1, <2>3 DEF CompleteInv, ResultTellsComplete
<1>7. CASE SetProblem
  <2>1. pc = "set" /\ pc' = "done" /\ UNCHANGED input
    BY <1>7 DEF SetProblem
  <2>2. flags.collision \in BOOLEAN /\ flags.confusion \in BOOLEAN
    BY <2>1 DEF Inv, Typed
  <2>3. problem' \in Problems
    BY <1>7, <2>2 DEF SetProblem, Problems
  <2> QED
    BY <1>2, <2>1, <2>3, ProblemAssumption DEF CompleteInv, ResultTellsComplete
<1>8. CASE UNCHANGED vars
  <2>1. UNCHANGED <<input, currentCell, cellsWithHo, next, problem, pc>>
    BY <1>8 DEF vars, input, counters
  <2> QED
    BY <1>2, <2>1 DEF CompleteInv, ResultTellsComplete, ThereUpTo
<1> QED
  BY <1>4, <1>5, <1>6, <1>7, <1>8 DEF Next

\* When the check is over it has answered exactly if the cell and all its neighbors
\* were there; otherwise an exception has been caught and null is answered.
THEOREM AnswerTellsComplete == Spec => []ResultTellsComplete
<1>1. Init => CompleteInv /\ ResultTellsComplete
  <2>1. 1 .. 0 = {}
    OBVIOUS
  <2> QED
    BY <2>1 DEF Init, CompleteInv, ResultTellsComplete, ThereUpTo
<1>2. Inv /\ CompleteInv /\ ResultTellsComplete /\ [Next]_vars
        => CompleteInv' /\ ResultTellsComplete'
  BY CompleteStep
<1> QED
  BY <1>1, <1>2, InitInv, StepInv, PTL DEF Spec

-----------------------------------------------------------------------------
(* What generatePmData knows of the neighbors 1 .. m. *)

\* The neighbor n is the last one with the PCI p.
IsLast(n, p, m) ==
    /\ n \in 1 .. m /\ cellsWithHo[n] = p
    /\ \A l \in 1 .. m : l > n => cellsWithHo[l] # p

OrderedUpTo(m) ==
    /\ \A l \in 1 .. m : cellsWithHo[l] \in 0 .. MaxPci - 1
    /\ \A p \in 0 .. MaxPci - 1 :
         IF orderedList[p] = Empty THEN \A l \in 1 .. m : cellsWithHo[l] # p
         ELSE IsLast(orderedList[p], p, m)

\* The measurements are those of the array's elements below k.
ElementsBelow(k) ==
    /\ \A i \in Measurements :
         /\ NbrOf(i) \in Nbrs /\ cellsWithHo[NbrOf(i)] < k
         /\ orderedList[cellsWithHo[NbrOf(i)]] = NbrOf(i)
    /\ \A p \in 0 .. MaxPci - 1 : p < k /\ orderedList[p] # Empty =>
         \E i \in Measurements : NbrOf(i) = orderedList[p]
    /\ \A i, j \in Measurements : i < j => cellsWithHo[NbrOf(i)] < cellsWithHo[NbrOf(j)]

ValuesGiven ==
    /\ \A i \in Measurements : additionalMeasurements[i].value =
                                  IF i <= CountBad THEN kind ELSE "success"
    /\ countBad = IF Len(additionalMeasurements) < CountBad
                  THEN CountBad - Len(additionalMeasurements) ELSE 0

ListedUpTo(m) ==
    /\ Len(additionalMeasurements) = m
    /\ \A i \in 1 .. m : additionalMeasurements[i] = [nbr |-> i, value |-> "success"]

Measurement == [nbr : Nat, value : Kinds \cup {"success"}]

PmTyped ==
    /\ kind \in Kinds /\ countBad \in Nat /\ index \in Nat
    /\ orderedList \in [0 .. MaxPci - 1 -> Nat \cup {Empty}]
    /\ additionalMeasurements \in Seq(Measurement)
    /\ at \in {"cell", "order", "measure", "list", "done", "failed"}

\* The invariant: one conjunct for each of the loops of generatePmData.
PmInv ==
    /\ PmTyped
    /\ at = "cell" =>
         orderedList = NewArray /\ index = 1 /\ additionalMeasurements = << >>
    /\ at = "order" =>
         /\ kind # "normal" /\ index \in 1 .. Count + 1 /\ OrderedUpTo(index - 1)
         /\ additionalMeasurements = << >> /\ countBad = CountBad
    /\ at = "measure" =>
         /\ kind # "normal" /\ index \in 0 .. MaxPci /\ OrderedUpTo(Count)
         /\ ElementsBelow(index) /\ ValuesGiven
    /\ at = "list" =>
         kind = "normal" /\ index \in 1 .. Count + 1 /\ ListedUpTo(index - 1)
    /\ at = "done" =>
         IF kind = "normal" THEN ListedUpTo(Count)
         ELSE OrderedUpTo(Count) /\ ElementsBelow(MaxPci) /\ ValuesGiven

Listed ==
    /\ Count \in Nat /\ Nbrs = 1 .. Count
    /\ cellsWithHo \in [1 .. Count -> Pcis \cup {Null}]

LEMMA TypedList == Typed => Listed
<1> SUFFICES ASSUME Typed PROVE Listed
  OBVIOUS
<1>1. PICK n \in Nat : cellsWithHo \in [1 .. n -> Pcis \cup {Null}]
  BY DEF Typed
<1> QED
  BY <1>1, CountIsLength DEF Listed, Nbrs

LEMMA CountBadIsNat == ASSUME Count \in Nat PROVE CountBad \in Nat
BY ShareAssumption DEF CountBad

LEMMA InBoundsIsPosition ==
    ASSUME NEW p \in Pcis \cup {Null}, InBounds(p) PROVE p \in 0 .. MaxPci - 1
BY PciAssumption, MaxPciAssumption DEF InBounds

\* One more measurement: the others stay.
LEMMA OneMoreMeasurement ==
    ASSUME additionalMeasurements \in Seq(Measurement), NEW m \in Nat,
           Len(additionalMeasurements) = m,
           NEW n \in Nat, NEW v \in Kinds \cup {"success"}, Measure(n, v)
    PROVE  /\ additionalMeasurements' \in Seq(Measurement)
           /\ Len(additionalMeasurements') = m + 1
           /\ Measurements = 1 .. m /\ Measurements' = 1 .. (m + 1)
           /\ \A i \in 1 .. m : additionalMeasurements'[i] = additionalMeasurements[i]
           /\ additionalMeasurements'[m + 1] = [nbr |-> n, value |-> v]
           /\ \A i \in 1 .. m : NbrOf(i)' = NbrOf(i)
           /\ NbrOf(m + 1)' = n
<1> DEFINE s == additionalMeasurements
           e == [nbr |-> n, value |-> v]
<1>1. e \in Measurement
  BY DEF Measurement
<1>2. s' = Append(s, e)
  BY DEF Measure
<1>3. s' \in Seq(Measurement) /\ Len(s') = m + 1
  BY <1>1, <1>2
<1>4. (\A i \in 1 .. m : s'[i] = s[i]) /\ s'[m + 1] = e
  BY <1>1, <1>2
<1>5. DOMAIN s = 1 .. m /\ DOMAIN s' = 1 .. (m + 1)
  BY <1>3
<1>6. (\A i \in 1 .. m : NbrOf(i)' = NbrOf(i)) /\ NbrOf(m + 1)' = n
  BY <1>4 DEF NbrOf
<1> QED
  BY <1>3, <1>4, <1>5, <1>6 DEF Measurements

\* One more neighbor in the array: it is the last one with its PCI.
LEMMA OneMoreOrdered ==
    ASSUME NEW m \in Nat \ {0}, OrderedUpTo(m - 1),
           orderedList \in [0 .. MaxPci - 1 -> Nat \cup {Empty}],
           NEW q \in 0 .. MaxPci - 1, cellsWithHo[m] = q,
           orderedList' = [orderedList EXCEPT ![q] = m], UNCHANGED cellsWithHo
    PROVE  OrderedUpTo(m)'
<1>1. 1 .. m = (1 .. (m - 1)) \cup {m} /\ \A l \in 1 .. (m - 1) : m > l /\ ~(l > m)
  OBVIOUS
<1>2. \A l \in 1 .. m : cellsWithHo[l] \in 0 .. MaxPci - 1
  BY <1>1 DEF OrderedUpTo
<1>3. ASSUME NEW p \in 0 .. MaxPci - 1
      PROVE  IF orderedList'[p] = Empty THEN \A l \in 1 .. m : cellsWithHo[l] # p
             ELSE IsLast(orderedList'[p], p, m)
  <2>1. CASE p = q
    <3>1. orderedList'[p] = m /\ m # Empty /\ ~(m > m)
      BY <2>1, EmptyAssumption
    <3> QED
      BY <1>1, <2>1, <3>1 DEF IsLast
  <2>2. CASE p # q
    <3>1. orderedList'[p] = orderedList[p] /\ cellsWithHo[m] # p
      BY <2>2
    <3> QED
      BY <1>1, <3>1 DEF OrderedUpTo, IsLast
  <2> QED
    BY <2>1, <2>2
<1> QED
  BY <1>2, <1>3 DEF OrderedUpTo, IsLast

\* An element of the array gives no measurement, or one that comes after all others.
LEMMA OneMoreElement ==
    ASSUME Listed, PmTyped, OrderedUpTo(Count), ElementsBelow(index), ValuesGiven,
           kind # "normal", MeasureElement, UNCHANGED cellsWithHo
    PROVE  /\ additionalMeasurements' \in Seq(Measurement) /\ countBad' \in Nat
           /\ ElementsBelow(index)' /\ ValuesGiven'
<1> DEFINE k == index
           x == orderedList[k]
<1>1. /\ k \in 0 .. MaxPci - 1 /\ orderedList' = orderedList /\ kind' = kind
      /\ index' = k + 1 /\ k < k + 1
  BY MaxPciAssumption DEF MeasureElement, PmTyped
<1>2. additionalMeasurements \in Seq(Measurement) /\ countBad \in Nat
  BY DEF PmTyped
<1>3. CountBad' = CountBad /\ CountBad \in Nat /\ Nbrs' = Nbrs /\ Count' = Count
  BY CountBadIsNat DEF CountBad, Listed, Nbrs, Count
<1>4. \A p \in 0 .. MaxPci - 1 : p \in Nat /\ (p < k + 1 <=> p < k \/ p = k)
  BY <1>1
<1>7. \A l \in Nbrs : cellsWithHo[l] \in 0 .. MaxPci - 1
  BY DEF Listed, OrderedUpTo
<1>5. CASE x = Empty
  <2>1. UNCHANGED <<countBad, additionalMeasurements>>
    BY <1>5 DEF MeasureElement
  <2>2. Measurements' = Measurements /\ \A i : NbrOf(i)' = NbrOf(i)
    BY <2>1 DEF Measurements, NbrOf
  <2>3. ElementsBelow(index)'
    <3>1. \A i \in Measurements :
            /\ NbrOf(i) \in Nbrs /\ cellsWithHo[NbrOf(i)] < k + 1
            /\ orderedList[cellsWithHo[NbrOf(i)]] = NbrOf(i)
      BY <1>4, <1>7 DEF ElementsBelow
    <3>2. \A p \in 0 .. MaxPci - 1 : p < k + 1 /\ orderedList[p] # Empty =>
            \E i \in Measurements : NbrOf(i) = orderedList[p]
      BY <1>4, <1>5 DEF ElementsBelow
    <3>3. \A i, j \in Measurements : i < j => cellsWithHo[NbrOf(i)] < cellsWithHo[NbrOf(j)]
      BY DEF ElementsBelow
    <3> QED
      BY <1>1, <1>3, <2>2, <3>1, <3>2, <3>3 DEF ElementsBelow
  <2> QED
    BY <1>1, <1>2, <1>3, <2>1, <2>2, <2>3 DEF ValuesGiven
<1>6. CASE x # Empty
  <2> DEFINE v == IF countBad > 0 THEN kind ELSE "success"
  <2>1. PICK m \in Nat : m = Len(additionalMeasurements)
    BY <1>2
  <2>2. x \in Nat /\ x \in Nbrs /\ cellsWithHo[x] = k
    <3>1. IsLast(x, k, Count)
      BY <1>1, <1>6 DEF OrderedUpTo
    <3> QED
      BY <3>1 DEF IsLast, Listed
  <2>3. v \in Kinds \cup {"success"} /\ Measure(x, v)
    BY <1>2, <1>6 DEF MeasureElement, PmTyped
  <2>4. /\ additionalMeasurements' \in Seq(Measurement)
        /\ Len(additionalMeasurements') = m + 1
        /\ Measurements = 1 .. m /\ Measurements' = 1 .. (m + 1)
        /\ \A i \in 1 .. m : additionalMeasurements'[i] = additionalMeasurements[i]
        /\ additionalMeasurements'[m + 1] = [nbr |-> x, value |-> v]
        /\ \A i \in 1 .. m : NbrOf(i)' = NbrOf(i)
        /\ NbrOf(m + 1)' = x
    BY <1>2, <2>1, <2>2, <2>3, OneMoreMeasurement
  <2>5. 1 .. (m + 1) = (1 .. m) \cup {m + 1}
    OBVIOUS
  <2>6. ElementsBelow(index)'
    <3>1. \A i \in 1 .. (m + 1) :
            /\ NbrOf(i)' \in Nbrs /\ cellsWithHo[NbrOf(i)'] < k + 1
            /\ orderedList[cellsWithHo[NbrOf(i)']] = NbrOf(i)'
      <4>1. \A i \in 1 .. m :
              /\ NbrOf(i)' \in Nbrs /\ cellsWithHo[NbrOf(i)'] < k + 1
              /\ orderedList[cellsWithHo[NbrOf(i)']] = NbrOf(i)'
        BY <1>4, <1>7, <2>4 DEF ElementsBelow
      <4> QED
        BY <1>1, <2>2, <2>4, <2>5, <4>1
    <3>2. \A p \in 0 .. MaxPci - 1 : p < k + 1 /\ orderedList[p] # Empty =>
            \E i \in 1 .. (m + 1) : NbrOf(i)' = orderedList[p]
      <4> SUFFICES ASSUME NEW p \in 0 .. MaxPci - 1, p < k + 1, orderedList[p] # Empty
                   PROVE  \E i \in 1 .. (m + 1) : NbrOf(i)' = orderedList[p]
        OBVIOUS
      <4>1. CASE p = k
        BY <2>4, <2>5, <4>1
      <4>2. CASE p < k
        <5>1. PICK i \in 1 .. m : NbrOf(i) = orderedList[p]
          BY <2>4, <4>2 DEF ElementsBelow
        <5> QED
          BY <2>4, <2>5, <5>1
      <4> QED
        BY <1>4, <4>1, <4>2
    <3>3. ASSUME NEW i \in 1 .. (m + 1), NEW j \in 1 .. (m + 1), i < j
          PROVE  cellsWithHo[NbrOf(i)'] < cellsWithHo[NbrOf(j)']
      <4>1. i \in 1 .. m /\ (j \in 1 .. m \/ j = m + 1)
        BY <3>3
      <4>2. CASE j \in 1 .. m
        BY <2>4, <3>3, <4>1, <4>2 DEF ElementsBelow
      <4>3. CASE j = m + 1
        BY <2>2, <2>4, <4>1, <4>3 DEF ElementsBelow
      <4> QED
        BY <4>1, <4>2, <4>3
    <3> HIDE DEF k
    <3> QED
      BY <1>1, <1>3, <2>4, <3>1, <3>2, <3>3 DEF ElementsBelow
  <2>7. ValuesGiven'
    <3>1. countBad = IF m < CountBad THEN CountBad - m ELSE 0
      BY <2>1 DEF ValuesGiven
    <3>2. countBad' = IF m + 1 < CountBad THEN CountBad - (m + 1) ELSE 0
      <4>1. countBad' = IF countBad > 0 THEN countBad - 1 ELSE 0
        BY <1>2, <1>6 DEF MeasureElement
      <4> QED
        BY <1>3, <3>1, <4>1
    <3>3. v = IF m + 1 <= CountBad THEN kind ELSE "success"
      BY <1>3, <3>1
    <3>4. \A i \in 1 .. m : additionalMeasurements'[i].value =
                               IF i <= CountBad THEN kind ELSE "success"
      BY <2>4 DEF ValuesGiven
    <3>5. additionalMeasurements'[m + 1].value = v
      BY <2>4
    <3> QED
      BY <1>1, <1>3, <2>4, <2>5, <3>2, <3>3, <3>4, <3>5 DEF ValuesGiven
  <2>8. countBad' \in Nat
    BY <1>2, <1>6 DEF MeasureElement
  <2> QED
    BY <2>4, <2>6, <2>7, <2>8
<1> QED
  BY <1>5, <1>6

LEMMA SameList ==
    ASSUME Listed, UNCHANGED cellsWithHo
    PROVE  /\ Count' = Count /\ Nbrs' = Nbrs /\ CountBad' = CountBad
           /\ Count \in Nat /\ CountBad \in Nat
BY CountBadIsNat DEF CountBad, Count, Nbrs, Listed

LEMMA PmInitInv == ReportInit => PmInv
<1> SUFFICES ASSUME PmInit PROVE PmInv
  BY DEF ReportInit
<1>1. NewArray \in [0 .. MaxPci - 1 -> Nat \cup {Empty}]
  BY DEF NewArray
<1>2. << >> \in Seq(Measurement)
  OBVIOUS
<1>3. PmTyped
  BY <1>1, <1>2 DEF PmInit, PmTyped, Kinds
<1> QED
  BY <1>3 DEF PmInit, PmInv

LEMMA CheckBadPoorInv ==
    ASSUME Listed, PmInv, UNCHANGED cellsWithHo, NEW k \in Kinds, CheckBadPoor(k)
    PROVE  PmInv'
<1>1. /\ at = "cell" /\ orderedList' = NewArray /\ index' = 1 /\ kind' = k
      /\ additionalMeasurements' = << >>
      /\ countBad' = IF k = "normal" THEN 0 ELSE CountBad
      /\ at' = IF k = "normal" THEN "list" ELSE "order"
  BY DEF CheckBadPoor, PmInv
<1>2. /\ Count' = Count /\ CountBad' = CountBad /\ Count \in Nat /\ CountBad \in Nat
  BY SameList
<1>3. PmTyped'
  <2>1. UNCHANGED <<orderedList, index, additionalMeasurements>> /\ PmTyped
    BY DEF CheckBadPoor, PmInv
  <2> QED
    BY <1>1, <1>2, <2>1 DEF PmTyped
<1>4. index' \in 1 .. Count + 1 /\ index' - 1 = 0 /\ 1 .. 0 = {}
  BY <1>1, <1>2
<1>5. OrderedUpTo(index - 1)'
  <2>1. \A p \in 0 .. MaxPci - 1 : orderedList'[p] = Empty
    BY <1>1 DEF NewArray
  <2> QED
    BY <1>4, <2>1 DEF OrderedUpTo
<1>6. ListedUpTo(index - 1)'
  BY <1>1, <1>4 DEF ListedUpTo
<1> QED
  BY <1>1, <1>2, <1>3, <1>4, <1>5, <1>6 DEF PmInv

LEMMA OrderNeighborInv ==
    ASSUME Listed, PmInv, UNCHANGED cellsWithHo, OrderNeighbor
    PROVE  PmInv'
<1> DEFINE q == cellsWithHo[index]
<1>1. PICK m \in Nat \ {0} : m = index /\ m <= Count
  BY SameList DEF PmInv, OrderNeighbor
<1>2. q \in 0 .. MaxPci - 1
  BY <1>1, SameList, InBoundsIsPosition DEF Listed, OrderNeighbor
<1>3. PmTyped /\ OrderedUpTo(m - 1) /\ at = "order"
  BY <1>1 DEF PmInv, OrderNeighbor
<1>4. orderedList' = [orderedList EXCEPT ![q] = m]
  BY <1>1 DEF OrderNeighbor
<1>5. index' = m + 1 /\ UNCHANGED <<kind, countBad, additionalMeasurements, at>>
  BY <1>1 DEF OrderNeighbor
<1>6. OrderedUpTo(m)'
  BY <1>1, <1>2, <1>3, <1>4, OneMoreOrdered DEF PmTyped
<1>7. index' \in 1 .. Count + 1 /\ index' - 1 = m
  BY <1>1, <1>5, SameList
<1>8. OrderedUpTo(index - 1)'
  BY <1>6, <1>7 DEF OrderedUpTo, IsLast
<1>9. PmTyped'
  BY <1>2, <1>3, <1>4, <1>5, <1>7 DEF PmTyped
<1> QED
  BY <1>3, <1>5, <1>7, <1>8, <1>9, SameList DEF PmInv

LEMMA NeighborsOrderedInv ==
    ASSUME Listed, PmInv, UNCHANGED cellsWithHo, NeighborsOrdered
    PROVE  PmInv'
<1>1. /\ at' = "measure" /\ index' = 0
      /\ UNCHANGED <<kind, countBad, orderedList, additionalMeasurements>>
  BY DEF NeighborsOrdered
<1>2. /\ PmTyped /\ kind # "normal" /\ OrderedUpTo(index - 1) /\ index - 1 = Count
      /\ additionalMeasurements = << >> /\ countBad = CountBad
  BY SameList DEF PmInv, NeighborsOrdered
<1>3. OrderedUpTo(Count)'
  BY <1>1, <1>2, SameList DEF OrderedUpTo, IsLast
<1>4. Measurements' = {} /\ Len(additionalMeasurements') = 0
  BY <1>1, <1>2 DEF Measurements
<1>5. ElementsBelow(index)'
  BY <1>1, <1>4 DEF ElementsBelow
<1>6. ValuesGiven'
  BY <1>1, <1>2, <1>4, SameList DEF ValuesGiven
<1>7. PmTyped' /\ index' \in 0 .. MaxPci
  BY <1>1, <1>2, MaxPciAssumption DEF PmTyped
<1> QED
  BY <1>1, <1>2, <1>3, <1>5, <1>6, <1>7 DEF PmInv

LEMMA MeasureElementInv ==
    ASSUME Listed, PmInv, UNCHANGED cellsWithHo, MeasureElement
    PROVE  PmInv'
<1>1. /\ at = "measure" /\ at' = "measure" /\ index < MaxPci /\ index' = index + 1
      /\ UNCHANGED <<kind, orderedList>>
  BY DEF MeasureElement
<1>2. /\ PmTyped /\ kind # "normal" /\ OrderedUpTo(Count) /\ ElementsBelow(index)
      /\ ValuesGiven
  BY <1>1 DEF PmInv
<1>3. /\ additionalMeasurements' \in Seq(Measurement) /\ countBad' \in Nat
      /\ ElementsBelow(index)' /\ ValuesGiven'
  BY <1>2, OneMoreElement
<1>4. OrderedUpTo(Count)'
  BY <1>1, <1>2, SameList DEF OrderedUpTo, IsLast
<1>5. PmTyped' /\ index' \in 0 .. MaxPci
  BY <1>1, <1>2, <1>3, MaxPciAssumption DEF PmTyped
<1> QED
  BY <1>1, <1>2, <1>3, <1>4, <1>5 DEF PmInv

LEMMA MeasureNeighborInv ==
    ASSUME Listed, PmInv, UNCHANGED cellsWithHo, MeasureNeighbor
    PROVE  PmInv'
<1>1. PICK m \in Nat : m + 1 = index /\ m + 1 <= Count
  BY SameList DEF PmInv, MeasureNeighbor
<1>2. PmTyped /\ kind = "normal" /\ ListedUpTo(m) /\ at = "list"
  BY <1>1 DEF PmInv, MeasureNeighbor
<1>3. /\ index' = m + 2 /\ Measure(m + 1, "success")
      /\ UNCHANGED <<kind, countBad, orderedList, at>>
  BY <1>1 DEF MeasureNeighbor
<1>4. /\ additionalMeasurements' \in Seq(Measurement)
      /\ Len(additionalMeasurements') = m + 1
      /\ \A i \in 1 .. m : additionalMeasurements'[i] = additionalMeasurements[i]
      /\ additionalMeasurements'[m + 1] = [nbr |-> m + 1, value |-> "success"]
  <2>1. additionalMeasurements \in Seq(Measurement) /\ Len(additionalMeasurements) = m
    BY <1>2 DEF PmTyped, ListedUpTo
  <2>2. m + 1 \in Nat /\ "success" \in Kinds \cup {"success"}
    OBVIOUS
  <2> QED
    BY <1>3, <2>1, <2>2, OneMoreMeasurement
<1>5. 1 .. (m + 1) = (1 .. m) \cup {m + 1} /\ index' - 1 = m + 1
  BY <1>3
<1>6. ListedUpTo(index - 1)'
  BY <1>2, <1>4, <1>5 DEF ListedUpTo
<1>7. PmTyped' /\ index' \in 1 .. Count + 1
  BY <1>1, <1>2, <1>3, <1>4, SameList DEF PmTyped
<1> QED
  BY <1>2, <1>3, <1>6, <1>7, SameList DEF PmInv

LEMMA CellMeasuredInv ==
    ASSUME Listed, PmInv, UNCHANGED cellsWithHo, CellMeasured
    PROVE  PmInv'
<1>1. /\ at' = "done" /\ PmTyped
      /\ UNCHANGED <<kind, countBad, orderedList, index, additionalMeasurements>>
  BY DEF CellMeasured, PmInv
<1>2. PmTyped'
  BY <1>1 DEF PmTyped
<1>3. \A i : NbrOf(i)' = NbrOf(i)
  BY <1>1 DEF NbrOf
<1>4. CASE at = "measure" /\ index = MaxPci
  <2>1. kind # "normal" /\ OrderedUpTo(Count) /\ ElementsBelow(MaxPci) /\ ValuesGiven
    BY <1>4 DEF PmInv
  <2>2. OrderedUpTo(Count)' /\ ElementsBelow(MaxPci)' /\ ValuesGiven'
    <3>1. OrderedUpTo(Count)'
      BY <1>1, <2>1, SameList DEF OrderedUpTo, IsLast
    <3>2. Measurements' = Measurements
      BY <1>1 DEF Measurements
    <3>3. ElementsBelow(MaxPci)'
      BY <1>1, <1>3, <2>1, <3>2, SameList DEF ElementsBelow
    <3>4. ValuesGiven'
      BY <1>1, <2>1, <3>2, SameList DEF ValuesGiven
    <3> QED
      BY <3>1, <3>3, <3>4
  <2> QED
    BY <1>1, <1>2, <2>1, <2>2 DEF PmInv
<1>5. CASE at = "list" /\ index > Count
  <2>1. kind = "normal" /\ ListedUpTo(Count)
    <3>1. kind = "normal" /\ index \in 1 .. Count + 1 /\ ListedUpTo(index - 1)
      BY <1>5 DEF PmInv
    <3>2. index - 1 = Count
      BY <1>5, <3>1, SameList
    <3> QED
      BY <3>1, <3>2
  <2>2. ListedUpTo(Count)'
    BY <1>1, <2>1, SameList DEF ListedUpTo
  <2> QED
    BY <1>1, <1>2, <2>1, <2>2 DEF PmInv
<1> QED
  BY <1>4, <1>5 DEF CellMeasured

LEMMA PmStepInv == Listed /\ PmInv /\ UNCHANGED cellsWithHo /\ [PmNext]_pmVars => PmInv'
<1> SUFFICES ASSUME Listed, PmInv, UNCHANGED cellsWithHo, [PmNext]_pmVars PROVE PmInv'
  OBVIOUS
<1>1. CASE CellFails
  <2>1. /\ PmTyped /\ at' = "failed"
        /\ UNCHANGED <<kind, countBad, orderedList, index, additionalMeasurements>>
    BY <1>1 DEF CellFails, PmInv
  <2> QED
    BY <2>1 DEF PmInv, PmTyped
<1>2. CASE UNCHANGED pmVars
  <2>1. UNCHANGED <<kind, countBad, orderedList, index, additionalMeasurements, at>>
    BY <1>2 DEF pmVars
  <2>2. PmTyped' /\ \A i : NbrOf(i)' = NbrOf(i)
    BY <2>1 DEF PmInv, PmTyped, NbrOf
  <2>3. /\ \A m : OrderedUpTo(m) => OrderedUpTo(m)'
        /\ \A k : ElementsBelow(k) => ElementsBelow(k)'
        /\ \A m : ListedUpTo(m) => ListedUpTo(m)'
        /\ ValuesGiven => ValuesGiven'
    <3>1. \A m : OrderedUpTo(m) => OrderedUpTo(m)'
      BY <2>1 DEF OrderedUpTo, IsLast
    <3>2. \A k : ElementsBelow(k) => ElementsBelow(k)'
      BY <2>1, <2>2, SameList DEF ElementsBelow, Measurements
    <3>3. (\A m : ListedUpTo(m) => ListedUpTo(m)') /\ (ValuesGiven => ValuesGiven')
      BY <2>1, SameList DEF ListedUpTo, ValuesGiven, Measurements
    <3> QED
      BY <3>1, <3>2, <3>3
  <2> QED
    BY <2>1, <2>2, <2>3, SameList DEF PmInv
<1> QED
  BY <1>1, <1>2, CheckBadPoorInv, OrderNeighborInv, NeighborsOrderedInv,
     MeasureElementInv, MeasureNeighborInv, CellMeasuredInv DEF PmNext

-----------------------------------------------------------------------------
(* What follows for a cell that is measured. *)

\* The neighbors that are the last ones with their PCI.
Lasts == {n \in Nbrs : \A o \in Nbrs : o > n => cellsWithHo[o] # cellsWithHo[n]}

LEMMA OneLastForEachPci ==
    ASSUME Listed, NEW n \in Lasts, NEW o \in Lasts, cellsWithHo[n] = cellsWithHo[o]
    PROVE  n = o
<1>1. n \in Nat /\ o \in Nat
  BY DEF Lasts, Listed
<1>2. ~(o > n) /\ ~(n > o)
  BY DEF Lasts
<1> QED
  BY <1>1, <1>2

LEMMA LastsAreMeasured ==
    ASSUME Listed, PmTyped, OrderedUpTo(Count), ElementsBelow(MaxPci)
    PROVE  Measured = Lasts
<1>1. \A n \in Nbrs : cellsWithHo[n] \in 0 .. MaxPci - 1
  BY DEF Listed, OrderedUpTo
<1>2. \A n, p : IsLast(n, p, Count) => n \in Lasts /\ cellsWithHo[n] = p
  BY DEF IsLast, Lasts, Listed
<1>3. ASSUME NEW i \in Measurements PROVE NbrOf(i) \in Lasts
  <2>1. /\ NbrOf(i) \in Nbrs /\ cellsWithHo[NbrOf(i)] \in 0 .. MaxPci - 1
        /\ orderedList[cellsWithHo[NbrOf(i)]] = NbrOf(i)
    BY <1>1 DEF ElementsBelow
  <2>2. NbrOf(i) # Empty
    BY <2>1, EmptyAssumption DEF Listed
  <2> QED
    BY <1>2, <2>1, <2>2 DEF OrderedUpTo
<1>4. ASSUME NEW n \in Lasts PROVE n \in Measured
  <2> DEFINE p == cellsWithHo[n]
             x == orderedList[p]
  <2>1. n \in Nbrs /\ n \in 1 .. Count /\ p \in 0 .. MaxPci - 1 /\ p < MaxPci
    BY <1>1, MaxPciAssumption DEF Lasts, Listed
  <2>2. IsLast(x, p, Count) /\ x # Empty
    BY <2>1 DEF OrderedUpTo
  <2>3. x = n
    BY <1>2, <2>2, OneLastForEachPci
  <2>4. PICK i \in Measurements : NbrOf(i) = x
    BY <2>1, <2>2 DEF ElementsBelow
  <2> QED
    BY <2>3, <2>4 DEF Measured
<1> QED
  BY <1>3, <1>4 DEF Measured

LEMMA MeasuredOnce ==
    ASSUME PmTyped, \A i, j \in Measurements : i < j => NbrOf(i) # NbrOf(j)
    PROVE  Len(additionalMeasurements) = Cardinality(Measured)
<1> DEFINE f == [i \in Measurements |-> NbrOf(i)]
<1>1. PICK m \in Nat : m = Len(additionalMeasurements) /\ Measurements = 1 .. m
  BY DEF PmTyped, Measurements
<1>2. f \in Surjection(Measurements, Measured)
  BY DEF Measured, Surjection
<1>3. \A i, j \in Measurements : NbrOf(i) = NbrOf(j) => i = j
  <2>1. \A i, j \in Measurements : i \in Nat /\ j \in Nat
    BY <1>1
  <2>2. \A i, j \in Measurements : i < j \/ j < i \/ i = j
    BY <2>1
  <2> QED
    BY <2>2
<1>4. f \in Injection(Measurements, Measured)
  BY <1>3 DEF Measured, Injection, IsInjective
<1>5. IsFiniteSet(Measurements) /\ Cardinality(Measurements) = m
  <2>1. IsFiniteSet(1 .. m) /\ Cardinality(1 .. m) = m
    BY FS_Interval
  <2> QED
    BY <1>1, <2>1
<1> QED
  BY <1>1, <1>2, <1>4, <1>5, FS_Surjection

LEMMA MeasuredInOrder ==
    ASSUME Listed, PmTyped, OrderedUpTo(Count), ElementsBelow(MaxPci)
    PROVE  Len(additionalMeasurements) = Cardinality(Lasts)
<1>1. \A i \in Measurements : cellsWithHo[NbrOf(i)] \in Nat
  BY DEF ElementsBelow, Listed, OrderedUpTo
<1>2. \A i, j \in Measurements : i < j => NbrOf(i) # NbrOf(j)
  BY <1>1 DEF ElementsBelow
<1> QED
  BY <1>2, MeasuredOnce, LastsAreMeasured

LEMMA EachIsMeasured == Listed /\ PmInv => EachPciIsMeasured
<1> SUFFICES ASSUME Listed, PmInv, at = "done" PROVE EachPciIsMeasured
  BY DEF EachPciIsMeasured
<1>1. PmTyped /\ Count \in Nat
  BY DEF PmInv, Listed
<1>2. CASE kind = "normal"
  <2>1. ListedUpTo(Count)
    BY <1>2 DEF PmInv
  <2>2. Measurements = 1 .. Count
    BY <1>1, <2>1 DEF PmTyped, ListedUpTo, Measurements
  <2>3. \A i \in Measurements : NbrOf(i) = i
    BY <2>1, <2>2 DEF ListedUpTo, NbrOf
  <2>4. Measured = Nbrs
    BY <2>2, <2>3 DEF Measured, Listed
  <2> QED
    BY <1>2, <2>1, <2>4 DEF EachPciIsMeasured, ListedUpTo, Count
<1>3. CASE kind # "normal"
  <2>1. OrderedUpTo(Count) /\ ElementsBelow(MaxPci)
    BY <1>3 DEF PmInv
  <2>2. Measured = Lasts /\ Len(additionalMeasurements) = Cardinality(Measured)
    BY <1>1, <2>1, LastsAreMeasured, MeasuredInOrder
  <2> QED
    BY <1>3, <2>1, <2>2 DEF EachPciIsMeasured, ElementsBelow, Lasts
<1> QED
  BY <1>2, <1>3

LEMMA FifthIsBad == Listed /\ PmInv => AFifthIsBad
<1> SUFFICES ASSUME Listed, PmInv, at = "done", NEW i \in Measurements
             PROVE  additionalMeasurements[i].value =
                        IF kind # "normal" /\ i <= CountBad THEN kind ELSE "success"
  BY DEF AFifthIsBad
<1>1. CASE kind = "normal"
  <2>1. ListedUpTo(Count)
    BY <1>1 DEF PmInv
  <2>2. Measurements = 1 .. Count
    BY <2>1 DEF PmInv, PmTyped, ListedUpTo, Measurements, Listed
  <2> QED
    BY <1>1, <2>1, <2>2 DEF ListedUpTo
<1>2. CASE kind # "normal"
  BY <1>2 DEF PmInv, ValuesGiven
<1> QED
  BY <1>1, <1>2

\* Of the neighbors that share a PCI all but the last are merged: the merged ones
\* are confused, and there is one for each last one that is confused.
LEMMA MergedCount ==
    ASSUME Listed
    PROVE  LET merged == Count - Cardinality(Lasts) IN
           /\ merged > 0 <=> Confusing # {}
           /\ merged <= Cardinality(Confusing)
           /\ Cardinality(Confusing) <= 2 * merged
<1> DEFINE Merged == Nbrs \ Lasts
           ConfusedLasts == Confusing \cap Lasts
<1>1. IsFiniteSet(Nbrs) /\ Cardinality(Nbrs) = Count /\ \A n \in Nbrs : n \in Nat
  <2>1. Nbrs = 1 .. Count /\ Count \in Nat
    BY DEF Listed
  <2>2. IsFiniteSet(1 .. Count)
    BY <2>1, FS_Interval
  <2>3. Cardinality(Nbrs) = Count
    BY DEF Count
  <2> QED
    BY <2>1, <2>2, <2>3
<1>2. Lasts \subseteq Nbrs /\ Merged \subseteq Nbrs /\ Confusing \subseteq Nbrs
  BY DEF Lasts, Confusing
<1>3. /\ IsFiniteSet(Lasts) /\ IsFiniteSet(Merged) /\ IsFiniteSet(Confusing)
      /\ IsFiniteSet(ConfusedLasts)
  BY <1>1, <1>2, FS_Subset
<1>4. /\ Cardinality(Lasts) \in Nat /\ Cardinality(Merged) \in Nat
      /\ Cardinality(Confusing) \in Nat /\ Cardinality(ConfusedLasts) \in Nat
  BY <1>3, FS_CardinalityType
<1>5. \A m \in Merged : \E l \in Nbrs : l > m /\ cellsWithHo[l] = cellsWithHo[m]
  BY DEF Lasts
<1>6. Merged \subseteq Confusing
  BY <1>1, <1>5 DEF Confusing
<1>7. \A n \in ConfusedLasts : \E m \in Merged : cellsWithHo[m] = cellsWithHo[n]
  <2> SUFFICES ASSUME NEW n \in ConfusedLasts
               PROVE  \E m \in Merged : cellsWithHo[m] = cellsWithHo[n]
    OBVIOUS
  <2>1. PICK m \in Nbrs : m # n /\ cellsWithHo[m] = cellsWithHo[n]
    BY DEF Confusing
  <2>2. m \notin Lasts
    BY <2>1, OneLastForEachPci
  <2> QED
    BY <2>1, <2>2
<1>8. Cardinality(Merged) = Count - Cardinality(Lasts)
  <2>1. Nbrs \cap Lasts = Lasts
    BY <1>2
  <2> QED
    BY <1>1, <2>1, FS_Difference
<1>9. Cardinality(Merged) > 0 <=> Confusing # {}
  <2>1. Cardinality(Merged) = 0 <=> Merged = {}
    BY <1>3, FS_EmptySet
  <2>2. Merged = {} <=> Confusing = {}
    BY <1>2, <1>6, <1>7
  <2> QED
    BY <1>4, <2>1, <2>2
<1>10. Cardinality(Merged) <= Cardinality(Confusing)
  BY <1>3, <1>6, FS_Subset
<1>11. Cardinality(ConfusedLasts) <= Cardinality(Merged)
  <2> DEFINE f == [n \in ConfusedLasts |->
                      CHOOSE m \in Merged : cellsWithHo[m] = cellsWithHo[n]]
  <2>1. \A n \in ConfusedLasts : f[n] \in Merged /\ cellsWithHo[f[n]] = cellsWithHo[n]
    BY <1>7
  <2>2. f \in [ConfusedLasts -> Merged]
    BY <2>1
  <2> HIDE DEF f
  <2>3. \A n, o \in ConfusedLasts : f[n] = f[o] => n = o
    BY <2>1, OneLastForEachPci
  <2>4. f \in Injection(ConfusedLasts, Merged)
    BY <2>2, <2>3 DEF Injection, IsInjective
  <2> QED
    BY <1>3, <2>4, FS_Injection
<1>12. Cardinality(Confusing) = Cardinality(ConfusedLasts) + Cardinality(Merged)
  <2>1. Confusing = ConfusedLasts \cup Merged /\ ConfusedLasts \cap Merged = {}
    BY <1>2, <1>6
  <2>2. Cardinality(ConfusedLasts \cap Merged) = 0
    BY <2>1, FS_EmptySet
  <2>3. Cardinality(ConfusedLasts \cup Merged)
          = Cardinality(ConfusedLasts) + Cardinality(Merged)
              - Cardinality(ConfusedLasts \cap Merged)
    BY <1>3, FS_Union
  <2> HIDE DEF ConfusedLasts, Merged
  <2>4. Cardinality(Confusing) = Cardinality(ConfusedLasts \cup Merged)
    BY <2>1
  <2> QED
    BY <1>4, <2>2, <2>3, <2>4
<1> QED
  BY <1>4, <1>8, <1>9, <1>10, <1>11, <1>12

LEMMA ConfusedMerged ==
    Listed /\ PmInv /\ CountsAreExact /\ ProblemIsRight => ConfusedAreMerged
<1> SUFFICES ASSUME Listed, PmInv, CountsAreExact, ProblemIsRight,
                    problem # Null, at = "done", kind # "normal"
             PROVE  LET merged == Count - Len(additionalMeasurements) IN
                    /\ merged > 0 <=> flags.confusion
                    /\ merged <= confusionCount
                    /\ confusionCount <= 2 * merged
  BY DEF ConfusedAreMerged
<1>1. PmTyped /\ OrderedUpTo(Count) /\ ElementsBelow(MaxPci)
  BY DEF PmInv
<1>2. Len(additionalMeasurements) = Cardinality(Lasts)
  BY <1>1, MeasuredInOrder
<1>3. confusionCount = Cardinality(Confusing)
  BY DEF CountsAreExact
<1>4. flags.confusion <=> Confusing # {}
  <2>1. flags.confusion = \E m, n \in Nbrs : m # n /\ cellsWithHo[m] = cellsWithHo[n]
    <3>1. flags = Conflicts(currentCell, cellsWithHo, Nbrs)
      BY DEF ProblemIsRight
    <3> QED
      BY <3>1 DEF Conflicts
  <2> QED
    BY <2>1 DEF Confusing
<1> QED
  BY <1>2, <1>3, <1>4, MergedCount

-----------------------------------------------------------------------------
(* The reports of a cell are checked as PciCheck says and measured besides. *)

ReportInv == Inv /\ PmInv

LEMMA CheckStays == [ReportNext]_<<vars, pmVars>> => [Next]_vars
BY DEF ReportNext

LEMMA MeasuringStays == [ReportNext]_<<vars, pmVars>> => [PmNext]_pmVars
BY DEF ReportNext

LEMMA ListStays == [Next]_vars => UNCHANGED cellsWithHo
BY DEF Next, Look, Throw, SetFlags, SetProblem, vars, input

LEMMA ReportInvHolds == ReportSpec => []ReportInv
<1>1. ReportInit => ReportInv
  BY InitInv, PmInitInv DEF ReportInit, ReportInv
<1>2. ReportInv /\ [ReportNext]_<<vars, pmVars>> => ReportInv'
  <2> SUFFICES ASSUME ReportInv, [ReportNext]_<<vars, pmVars>> PROVE ReportInv'
    OBVIOUS
  <2>1. [Next]_vars /\ [PmNext]_pmVars /\ UNCHANGED cellsWithHo
    BY CheckStays, MeasuringStays, ListStays
  <2>2. Inv'
    BY <2>1, StepInv DEF ReportInv
  <2>3. Listed
    BY TypedList DEF ReportInv, Inv
  <2>4. PmInv'
    BY <2>1, <2>3, PmStepInv DEF ReportInv
  <2> QED
    BY <2>2, <2>4 DEF ReportInv
<1> QED
  BY <1>1, <1>2, PTL DEF ReportSpec

\* The controller that reports a cell checks it as the loop of
\* setCollisionConfusionFromFile does alone: what holds of PciCheck holds here.
THEOREM ReportsCheck == ReportSpec => Spec
<1>1. ReportInit => Init
  BY DEF ReportInit
<1> QED
  BY <1>1, CheckStays, PTL DEF ReportSpec, Spec

\* Whatever the neighbors are, generatePmData measures each of them, or the last
\* one with each PCI in the order of the PCIs.
THEOREM PcisAreMeasured == ReportSpec => []EachPciIsMeasured
<1>1. ReportInv => EachPciIsMeasured
  BY TypedList, EachIsMeasured DEF ReportInv, Inv
<1> QED
  BY <1>1, ReportInvHolds, PTL

\* Whatever the neighbors are, the first fifth of the measurements is bad or poor.
THEOREM FirstFifthIsBad == ReportSpec => []AFifthIsBad
<1>1. ReportInv => AFifthIsBad
  BY TypedList, FifthIsBad DEF ReportInv, Inv
<1> QED
  BY <1>1, ReportInvHolds, PTL

\* The alarm and the measurements agree for every list of neighbors: the cells
\* that are confused are those whose measurements are fewer than their neighbors.
THEOREM AlarmsAgreeWithReports == ReportSpec => []ConfusedAreMerged
<1>1. ReportInv => ConfusedAreMerged
  BY TypedList, ExactCounts, RightProblem, ConfusedMerged DEF ReportInv, Inv
<1> QED
  BY <1>1, ReportInvHolds, PTL

=============================================================================
