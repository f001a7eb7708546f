----------------------------- MODULE GnbCellsProofs -----------------------------
(* Proofs about GnbCells: why the flags find the right function as long as the   *)
(* reads come one by one, and why they stop finding any.                         *)
EXTENDS GnbCells, Integers, TLAPS

-----------------------------------------------------------------------------
(* The inductive invariant.                                                *)

\* A reader that is at a function has one; one that returns cells has found them.
AtFunction ==
    \A r \in Readers :
        /\ pc[r] \notin {"idle", "next"} => walk[r] # << >>
        /\ pc[r] \in {"take", "takeNull", "show"} => found[r] # None

Structure == TypeOK /\ AtFunction

Calm == mishaps \subseteq {"again"}

\* The reader is alone, and the tree is the one it began with.
Alone(r) ==
    /\ puts = << >> /\ walkTurn[r] = turn
    /\ pc[r] = "scan" => listTurn[r] = turn
    /\ \A q \in Readers : q # r => pc[q] = "idle"

\* The keys are those of the first message, and all functions have cells.
KeysAreOld ==
    /\ \A f \in Functions : key[f] \in 0 .. 1
    /\ \A f \in Names(config) :
         /\ CellCount[f] > 0
         /\ key[f] = 0 => turn = 1 /\ f \in Names(puts)
    /\ Names(puts) \subseteq Names(config)
    /\ \A i, j \in 1 .. Len(config) : config[i] = config[j] => i = j

\* The first m functions of the message have their flags set, or their cells shown.
Flagged(m) == \A i \in 1 .. Len(config) : flag[config[i]] = IF i <= m THEN 1 ELSE 0
Shown(m) == \A i \in 1 .. Len(config) :
                shown[config[i]] = IF i <= m THEN {config[i]} ELSE {}

Progress(m) == Flagged(m) /\ Shown(m) /\ ~complete
Full == Flagged(Len(config)) /\ Shown(Len(config))

\* s is what is left of the functions, and m of them are behind.
IsRest(s) == /\ Len(s) <= Len(config)
             /\ \A i \in 1 .. Len(s) : s[i] = config[Len(config) - Len(s) + i]
Behind(r) == Len(config) - Len(walk[r])

\* While the first read goes on, flags and cells are in step with it.
InStep(r) ==
    /\ IsRest(walk[r])
    /\ pc[r] \in {"next", "list"} => Progress(Behind(r)) \/ Full
    /\ pc[r] = "scan" =>
         /\ IsRest(list[r])
         /\ Full \/ (Progress(Behind(r)) /\ Len(walk[r]) <= Len(list[r]))
    /\ pc[r] \in {"take", "show"} =>
         /\ found[r] = Head(walk[r]) /\ left[r] <= CellCount[found[r]]
         /\ Shown(Behind(r)) /\ ~complete
         /\ Flagged(IF pc[r] = "take" /\ left[r] = CellCount[found[r]]
                       THEN Behind(r) ELSE Behind(r) + 1)

NoMessage ==
    /\ \A r \in Readers : pc[r] = "idle"
    /\ \A f \in Functions : flag[f] = 0 /\ shown[f] = {}
    /\ ~complete

FirstMessage ==
    /\ puts # << >> => Progress(0)
    /\ (\A r \in Readers : pc[r] = "idle") => Progress(0) \/ Full
    /\ \A r \in Readers : pc[r] # "idle" => InStep(r)

CalmInv ==
    /\ \A r \in Readers : pc[r] # "idle" => Alone(r)
    /\ \A r \in Readers : pc[r] \notin {"takeNull"} /\ (pc[r] \in {"take", "show"} => turn = 1)
    /\ KeysAreOld
    /\ \A f \in Functions : shown[f] \subseteq {f}
    /\ turn = 0 => NoMessage
    /\ turn = 1 => FirstMessage
    /\ turn > 1 => "again" \in mishaps

Inv == Structure /\ (Calm => CalmInv)

USE NameAssumption, ConfigAssumption, BoundsAssumption

-----------------------------------------------------------------------------
(* Sequences of functions.                                                 *)

\* A sequence that is not empty has a first element, and the others follow it.
LEMMA HeadAndTail ==
    ASSUME NEW s \in Seq(Functions), s # << >>
    PROVE  /\ Head(s) \in Functions /\ Head(s) = s[1] /\ Head(s) \in Names(s)
           /\ Tail(s) \in Seq(Functions) /\ Len(s) > 0 /\ Len(Tail(s)) = Len(s) - 1
           /\ \A i \in 1 .. Len(Tail(s)) : Tail(s)[i] = s[i + 1]
           /\ Names(s) \subseteq Functions
<1>1. Len(s) \in Nat /\ Len(s) > 0
  OBVIOUS
<1>2. /\ Head(s) \in Functions /\ Head(s) = s[1]
      /\ Tail(s) \in Seq(Functions) /\ Len(Tail(s)) = Len(s) - 1
      /\ \A i \in 1 .. Len(Tail(s)) : Tail(s)[i] = s[i + 1]
  BY <1>1
<1>3. Head(s) \in Names(s) /\ Names(s) \subseteq Functions
  BY <1>1, <1>2 DEF Names
<1> QED
  BY <1>1, <1>2, <1>3

LEMMA NamesOfTail ==
    ASSUME NEW s \in Seq(Functions), s # << >>
    PROVE  Names(s) = {Head(s)} \cup Names(Tail(s))
<1>1. Len(s) \in Nat /\ Len(s) > 0 /\ Head(s) = s[1] /\ Len(Tail(s)) = Len(s) - 1
  BY HeadAndTail
<1>2. ASSUME NEW i \in 1 .. Len(s) PROVE s[i] \in {Head(s)} \cup Names(Tail(s))
  <2>1. CASE i = 1
    BY <1>1, <2>1
  <2>2. CASE i # 1
    <3>1. i - 1 \in 1 .. Len(Tail(s)) /\ (i - 1) + 1 = i
      BY <1>1, <2>2
    <3>2. Tail(s)[i - 1] = s[i]
      BY <3>1, HeadAndTail
    <3> QED
      BY <3>1, <3>2 DEF Names
  <2> QED
    BY <2>1, <2>2
<1>3. ASSUME NEW i \in 1 .. Len(Tail(s)) PROVE Tail(s)[i] \in Names(s)
  <2>1. i + 1 \in 1 .. Len(s)
    BY <1>1
  <2> QED
    BY <2>1, HeadAndTail DEF Names
<1>4. Names(s) \subseteq {Head(s)} \cup Names(Tail(s))
  BY <1>2 DEF Names
<1>5. Names(Tail(s)) \subseteq Names(s) /\ Head(s) \in Names(s)
  BY <1>3, HeadAndTail DEF Names
<1> QED
  BY <1>4, <1>5

\* What is left of the functions when one of them is done.
LEMMA RestOfRest ==
    ASSUME config \in Seq(Functions), NEW s \in Seq(Functions), s # << >>, IsRest(s)
    PROVE  /\ IsRest(Tail(s))
           /\ Len(config) - Len(s) + 1 \in 1 .. Len(config)
           /\ Head(s) = config[Len(config) - Len(s) + 1]
           /\ Head(s) \in Names(config)
<1>1. Len(config) \in Nat /\ Len(s) \in Nat
  OBVIOUS
<1>2. IsRest(Tail(s))
  BY <1>1, HeadAndTail DEF IsRest
<1>3. /\ Len(config) - Len(s) + 1 \in 1 .. Len(config)
      /\ Head(s) = config[Len(config) - Len(s) + 1]
  BY <1>1, HeadAndTail DEF IsRest
<1> QED
  BY <1>2, <1>3 DEF Names

-----------------------------------------------------------------------------
(* The structure.                                                          *)

LEMMA InitInv == Init => Inv
<1> SUFFICES ASSUME Init PROVE Inv
  OBVIOUS
<1> USE DEF Init
<1>1. TypeOK
  <2>1. << >> \in Seq(Functions) /\ 0 \in 0 .. MaxConfigs /\ 0 \in 0 .. MaxWalks
    OBVIOUS
  <2>2. /\ walk \in [Readers -> Seq(Functions)] /\ list \in [Readers -> Seq(Functions)]
        /\ pc \in [Readers -> Pc] /\ shown \in [Functions -> SUBSET Functions]
    BY <2>1 DEF Pc
  <2>3. /\ key \in [Functions -> 0 .. turn] /\ flag \in [Functions -> 0 .. 1]
        /\ walkTurn \in [Readers -> 0 .. turn] /\ listTurn \in [Readers -> 0 .. turn]
    OBVIOUS
  <2>4. found \in [Readers -> Functions \cup {None}] /\ left \in [Readers -> Nat]
    OBVIOUS
  <2> QED
    BY <2>1, <2>2, <2>3, <2>4 DEF TypeOK
<1>2. AtFunction
  BY DEF AtFunction
<1>3. KeysAreOld
  BY DEF KeysAreOld, Names
<1>4. CalmInv
  BY <1>3 DEF CalmInv, NoMessage
<1> QED
  BY <1>1, <1>2, <1>4 DEF Inv, Structure

LEMMA StructureStep ==
    ASSUME Structure, [Next]_vars
    PROVE  Structure'
<1> USE DEF Structure, TypeOK, AtFunction, Go, Fail, tree, entries, position, histories
<1>1. ASSUME NEW c \in Configs, SetNearRTRIC(c) PROVE Structure'
  <2>1. c \in Seq(Functions) /\ turn' \in 0 .. MaxConfigs /\ 0 .. turn \subseteq 0 .. turn'
    BY <1>1 DEF SetNearRTRIC
  <2>2. mishaps' \subseteq Mishaps
    BY <1>1 DEF SetNearRTRIC, Mishaps
  <2>3. /\ key' \in [Functions -> 0 .. turn'] /\ walkTurn' \in [Readers -> 0 .. turn']
        /\ listTurn' \in [Readers -> 0 .. turn']
    BY <1>1, <2>1 DEF SetNearRTRIC
  <2> QED
    BY <1>1, <2>1, <2>2, <2>3 DEF SetNearRTRIC
<1>2. CASE PutFlag
  BY <1>2, HeadAndTail DEF PutFlag
<1>3. ASSUME NEW r \in Readers, BeginWalk(r) PROVE Structure'
  BY <1>3 DEF BeginWalk, Pc, Mishaps
<1>4. ASSUME NEW r \in Readers, ReadFunction(r) \/ EndWalk(r) PROVE Structure'
  BY <1>4 DEF ReadFunction, EndWalk, Pc
<1>5. ASSUME NEW r \in Readers, GetNearRTRIC(r) PROVE Structure'
  <2>1. list' \in [Readers -> Seq(Functions)] /\ listTurn' \in [Readers -> 0 .. turn]
    BY <1>5 DEF GetNearRTRIC
  <2>2. pc' \in [Readers -> Pc] /\ AtFunction'
    BY <1>5 DEF GetNearRTRIC, Pc
  <2> QED
    BY <1>5, <2>1, <2>2 DEF GetNearRTRIC
<1>6. ASSUME NEW r \in Readers, SkipFunction(r) PROVE Structure'
  BY <1>6, HeadAndTail DEF SkipFunction
<1>7. ASSUME NEW r \in Readers, FindFunction(r) PROVE Structure'
  BY <1>7, HeadAndTail DEF FindFunction, Pc
<1>8. ASSUME NEW r \in Readers, ReturnNothing(r) PROVE Structure'
  BY <1>8, HeadAndTail DEF ReturnNothing, Pc
<1>9. ASSUME NEW r \in Readers, ModifiedConcurrently(r) \/ ReturnCells(r) PROVE Structure'
  BY <1>9 DEF ModifiedConcurrently, ReturnCells, Pc
<1>10. ASSUME NEW r \in Readers, TakeCell(r) PROVE Structure'
  <2>1. left' \in [Readers -> Nat] /\ flag' \in [Functions -> 0 .. 1]
    BY <1>10 DEF TakeCell
  <2>2. pc' \in [Readers -> Pc] /\ AtFunction'
    BY <1>10 DEF TakeCell, Pc
  <2> QED
    BY <1>10, <2>1, <2>2 DEF TakeCell
<1>11. ASSUME NEW r \in Readers, ShowCells(r) PROVE Structure'
  <2>1. /\ walk[r] # << >> /\ walk[r] \in Seq(Functions) /\ found[r] \in Functions
        /\ UNCHANGED <<tree, entries, walkTurn, list, listTurn, found, left, complete,
                       walks, mishaps>>
    BY <1>11 DEF ShowCells
  <2>a. Tail(walk[r]) \in Seq(Functions) /\ Head(walk[r]) \in Functions
    BY <2>1, HeadAndTail
  <2>b. \/ UNCHANGED <<shown, walk>>
        \/ /\ shown' = [shown EXCEPT ![Head(walk[r])] = @ \cup {found[r]}]
           /\ walk' = [walk EXCEPT ![r] = Tail(@)]
    BY <1>11 DEF ShowCells
  <2>2. walk' \in [Readers -> Seq(Functions)]
    BY <2>a, <2>b
  <2>3. shown' \in [Functions -> SUBSET Functions]
    <3>1. shown \in [Functions -> SUBSET Functions]
      OBVIOUS
    <3>2. shown[Head(walk[r])] \cup {found[r]} \in SUBSET Functions
      BY <2>1, <2>a, <3>1
    <3>3. CASE shown' = [shown EXCEPT ![Head(walk[r])] = @ \cup {found[r]}]
      <4>1. shown' = [f \in Functions |-> IF f = Head(walk[r])
                                          THEN shown[Head(walk[r])] \cup {found[r]}
                                          ELSE shown[f]]
        BY <3>1, <3>3
      <4>2. ASSUME NEW f \in Functions PROVE shown[f] \in SUBSET Functions
        BY <3>1
      <4> QED
        BY <3>2, <4>1, <4>2
    <3> QED
      BY <2>b, <3>1, <3>3
  <2>4. pc' \in [Readers -> Pc]
    <3>1. PICK label \in {"next", "idle"} : pc' = [pc EXCEPT ![r] = label]
      BY <1>11 DEF ShowCells
    <3> QED
      BY <3>1 DEF Pc
  <2>5. AtFunction'
    <3>1. /\ pc'[r] \in {"idle", "next"}
          /\ \A q \in Readers : q # r => pc'[q] = pc[q] /\ walk'[q] = walk[q]
      BY <1>11, <2>b DEF ShowCells
    <3> QED
      BY <2>1, <3>1
  <2> QED
    BY <2>1, <2>2, <2>3, <2>4, <2>5
<1>12. CASE UNCHANGED vars
  BY <1>12 DEF vars
<1> QED
  BY <1>1, <1>2, <1>3, <1>4, <1>5, <1>6, <1>7, <1>8, <1>9, <1>10, <1>11, <1>12 DEF Next

-----------------------------------------------------------------------------
(* The flags, one action after the other.                                  *)

\* A step during which the tree, the flags and what is shown stay as they are.
Still == UNCHANGED <<config, turn, puts, key, flag, shown, complete>>

LEMMA StillKeeps ==
    ASSUME Still
    PROVE  /\ \A m \in Int : Flagged(m)' <=> Flagged(m)
           /\ \A m \in Int : Shown(m)' <=> Shown(m)
           /\ \A m \in Int : Progress(m)' <=> Progress(m)
           /\ Full' <=> Full
<1>1. config' = config /\ flag' = flag /\ shown' = shown /\ complete' = complete
  BY DEF Still
<1>2. \A m \in Int : Flagged(m)' <=> Flagged(m)
  BY <1>1 DEF Flagged
<1>3. \A m \in Int : Shown(m)' <=> Shown(m)
  BY <1>1 DEF Shown
<1>4. \A m \in Int : Progress(m)' <=> Progress(m)
  BY <1>1, <1>2, <1>3 DEF Progress
<1>5. Full' <=> Full
  BY <1>1 DEF Full, Flagged, Shown
<1> QED
  BY <1>2, <1>3, <1>4, <1>5

\* A message that comes while nobody reads starts the count, if it is the first.
LEMMA SetNearRTRICInv ==
    ASSUME Structure, Calm => CalmInv, NEW c \in Configs, SetNearRTRIC(c), Calm'
    PROVE  CalmInv'
<1> USE DEF SetNearRTRIC, entries, position, Structure
<1>1. Calm /\ CalmInv
  BY DEF Calm
<1>2. /\ \A r \in Readers : pc[r] = "idle"
      /\ turn > 0 => "again" \in mishaps' /\ \A f \in Names(c) : key[f] # 0
      /\ \A f \in Names(c) : CellCount[f] # 0
  BY DEF Calm
<1>3. c \in Seq(Functions) /\ turn \in Nat /\ Names(c) \subseteq Functions
  <2>1. c \in Seq(Functions) /\ turn \in Nat
    BY DEF TypeOK
  <2> QED
    BY <2>1 DEF Names
<1>4. KeysAreOld'
  BY <1>1, <1>2, <1>3 DEF CalmInv, KeysAreOld, Names
<1>5. turn = 0 => FirstMessage'
  <2> SUFFICES ASSUME turn = 0 PROVE FirstMessage'
    OBVIOUS
  <2>1. NoMessage
    BY <1>1 DEF CalmInv
  <2>2. \A i \in 1 .. Len(c) : c[i] \in Functions /\ ~(i <= 0)
    BY <1>3
  <2>3. \A i \in 1 .. Len(c) : flag[c[i]] = 0 /\ shown[c[i]] = {}
    BY <2>1, <2>2 DEF NoMessage
  <2>4. ~complete'
    BY <2>1 DEF NoMessage
  <2>5. Flagged(0)' /\ Shown(0)'
    BY <2>2, <2>3 DEF Flagged, Shown
  <2> QED
    BY <1>2, <2>4, <2>5 DEF FirstMessage, Progress
<1> QED
  BY <1>1, <1>2, <1>3, <1>4, <1>5 DEF CalmInv

\* Clearing the flags of the first message changes nothing: they are clear.
LEMMA PutFlagInv ==
    ASSUME Structure, Calm => CalmInv, PutFlag, Calm'
    PROVE  CalmInv'
<1> USE DEF PutFlag, position, histories, Structure
<1>1. Calm /\ CalmInv
  BY DEF Calm
<1>2. \A r \in Readers : pc[r] = "idle"
  BY <1>1 DEF CalmInv, Alone
<1>3. /\ Head(puts) \in Functions /\ Head(puts) \in Names(config)
      /\ Names(puts) = {Head(puts)} \cup Names(Tail(puts))
  <2>1. puts \in Seq(Functions) /\ puts # << >>
    BY DEF TypeOK
  <2>2. Names(puts) = {Head(puts)} \cup Names(Tail(puts))
    BY <2>1, NamesOfTail
  <2> QED
    BY <1>1, <2>1, <2>2, HeadAndTail DEF CalmInv, KeysAreOld
<1>4. turn > 0
  BY <1>1, <1>3 DEF CalmInv, KeysAreOld, NoMessage, TypeOK
<1>5. KeysAreOld'
  BY <1>1, <1>3, <1>4 DEF CalmInv, KeysAreOld, TypeOK
<1>6. turn = 1 => FirstMessage'
  <2> SUFFICES ASSUME turn = 1 PROVE FirstMessage'
    OBVIOUS
  <2>1. Progress(0)
    BY <1>1 DEF CalmInv, FirstMessage
  <2>2. Flagged(0)'
    BY <1>3, <2>1 DEF Progress, Flagged, TypeOK
  <2>3. Progress(0)'
    BY <2>1, <2>2 DEF Progress, Shown
  <2> QED
    BY <1>2, <2>3 DEF FirstMessage
<1> QED
  BY <1>1, <1>2, <1>4, <1>5, <1>6 DEF CalmInv

-----------------------------------------------------------------------------
(* The read of the tree.                                                   *)

\* A reader that is at work is alone, and if there was one message only, in step.
LEMMA Reading ==
    ASSUME CalmInv, Structure, NEW r \in Readers, pc[r] # "idle"
    PROVE  /\ Alone(r) /\ turn > 0 /\ pc[r] # "takeNull"
           /\ turn = 1 => InStep(r)
BY DEF CalmInv, NoMessage, FirstMessage, Structure, TypeOK

\* A reader at a function is somewhere in the tree.
LEMMA Walking ==
    ASSUME Structure, NEW r \in Readers, pc[r] \notin {"idle", "next"}
    PROVE  /\ walk[r] # << >> /\ walk[r] \in Seq(Functions) /\ config \in Seq(Functions)
           /\ Behind(r) \in Int
<1>1. walk[r] \in Seq(Functions) /\ config \in Seq(Functions) /\ walk[r] # << >>
  BY DEF Structure, TypeOK, AtFunction
<1> QED
  BY <1>1 DEF Behind

\* What a step of a reader has to keep.
LEMMA ReaderStep ==
    ASSUME Structure, CalmInv, NEW r \in Readers, turn > 0, puts = << >>,
           UNCHANGED <<config, turn, puts, key>>, mishaps \subseteq mishaps',
           \A q \in Readers : q # r => pc[q] = "idle" /\ pc'[q] = "idle",
           walkTurn'[r] = turn,
           pc'[r] = "scan" => listTurn'[r] = turn,
           pc'[r] # "takeNull",
           pc'[r] \in {"take", "show"} => turn = 1,
           \A f \in Functions : shown'[f] \subseteq {f},
           turn = 1 /\ pc'[r] = "idle" => Progress(0)' \/ Full',
           turn = 1 /\ pc'[r] # "idle" => InStep(r)'
    PROVE  CalmInv'
<1>1. KeysAreOld'
  BY DEF CalmInv, KeysAreOld
<1>2. \A q \in Readers : pc'[q] # "idle" => Alone(q)'
  BY DEF Alone
<1>3. turn = 1 => FirstMessage'
  BY DEF FirstMessage
<1>4. turn \in Nat
  BY DEF Structure, TypeOK
<1> QED
  BY <1>1, <1>2, <1>3, <1>4 DEF CalmInv

LEMMA BeginWalkInv ==
    ASSUME Structure, Calm => CalmInv, NEW r \in Readers, BeginWalk(r), Calm'
    PROVE  CalmInv'
<1> USE DEF BeginWalk, Structure, TypeOK, Go
<1>1. Calm /\ CalmInv
  BY DEF Calm
<1>2. /\ puts = << >> /\ \A q \in Readers : pc[q] = "idle"
      /\ \A q \in Readers : q # r => pc'[q] = "idle"
  BY DEF Calm
<1>3. /\ UNCHANGED <<config, turn, puts, key, flag, shown, complete>>
      /\ mishaps \subseteq mishaps' /\ turn > 0
      /\ walkTurn'[r] = turn /\ pc'[r] = "next" /\ walk'[r] = config
  BY DEF tree, entries
<1>4. turn = 1 => InStep(r)'
  <2> SUFFICES ASSUME turn = 1 PROVE InStep(r)'
    OBVIOUS
  <2>1. Progress(0) \/ Full
    BY <1>1, <1>2 DEF CalmInv, FirstMessage
  <2>2. IsRest(walk[r])'
    BY <1>3 DEF IsRest
  <2>3. Behind(r)' = 0
    BY <1>3 DEF Behind
  <2>4. Progress(0)' \/ Full'
    BY <1>3, <2>1, StillKeeps DEF Still
  <2> QED
    BY <1>3, <2>2, <2>3, <2>4 DEF InStep
<1>5. \A f \in Functions : shown'[f] \subseteq {f}
  BY <1>1, <1>3 DEF CalmInv
<1> QED
  BY <1>1, <1>2, <1>3, <1>4, <1>5, ReaderStep

\* What a step that only moves the reader has to keep.
LEMMA QuietStep ==
    ASSUME Structure, CalmInv, NEW r \in Readers, pc[r] # "idle", Still,
           mishaps \subseteq mishaps',
           \A q \in Readers : q # r => pc'[q] = pc[q],
           walkTurn'[r] = walkTurn[r],
           pc'[r] = "scan" => listTurn'[r] = turn,
           pc'[r] # "takeNull",
           pc'[r] \in {"take", "show"} => turn = 1,
           turn = 1 /\ pc'[r] = "idle" => Progress(0) \/ Full,
           turn = 1 /\ pc'[r] # "idle" => InStep(r)'
    PROVE  CalmInv'
<1>1. Alone(r) /\ turn > 0
  BY Reading
<1>2. turn = 1 /\ pc'[r] = "idle" => Progress(0)' \/ Full'
  BY StillKeeps
<1>3. UNCHANGED <<config, turn, puts, key>> /\ \A f \in Functions : shown'[f] \subseteq {f}
  BY DEF Still, CalmInv
<1>4. /\ \A q \in Readers : q # r => pc[q] = "idle" /\ pc'[q] = "idle"
      /\ walkTurn'[r] = turn /\ puts = << >>
  BY <1>1 DEF Alone
<1> QED
  BY <1>1, <1>2, <1>3, <1>4, ReaderStep

\* The functions are those of the tree, so each is found.
LEMMA ReadFunctionInv ==
    ASSUME Structure, CalmInv, NEW r \in Readers, ReadFunction(r)
    PROVE  CalmInv'
<1> USE DEF ReadFunction, Structure, TypeOK, Go
<1>1. Alone(r) /\ turn > 0 /\ pc[r] = "next" /\ (turn = 1 => InStep(r))
  BY Reading
<1>2. /\ Still /\ UNCHANGED <<mishaps, position>> /\ pc'[r] = "list"
      /\ \A q \in Readers : q # r => pc'[q] = pc[q]
  BY <1>1 DEF Alone, Still, tree, entries, histories
<1>3. turn = 1 => InStep(r)'
  <2>1. walk' = walk /\ Behind(r)' = Behind(r) /\ (IsRest(walk[r])' <=> IsRest(walk[r]))
    BY <1>2 DEF Still, position, Behind, IsRest
  <2>2. Behind(r) \in Int
    BY DEF Behind
  <2>3. (Progress(Behind(r)))' <=> Progress(Behind(r))
    BY <1>2, <2>1, <2>2 DEF Still, Progress, Flagged, Shown
  <2> QED
    BY <1>1, <1>2, <2>1, <2>3, StillKeeps DEF InStep
<1>4. walkTurn' = walkTurn /\ mishaps' = mishaps
  BY <1>2 DEF position
<1> QED
  BY <1>1, <1>2, <1>3, <1>4, QuietStep

\* At the end of the read, every flag is set and every cell shown.
LEMMA EndWalkInv ==
    ASSUME Structure, CalmInv, NEW r \in Readers, EndWalk(r)
    PROVE  CalmInv'
<1> USE DEF EndWalk, Structure, TypeOK, Go
<1>1. Alone(r) /\ turn > 0 /\ pc[r] = "next" /\ (turn = 1 => InStep(r))
  BY Reading
<1>2. /\ UNCHANGED <<config, turn, puts, key, flag, shown, mishaps, position>>
      /\ pc'[r] = "idle" /\ \A q \in Readers : q # r => pc'[q] = pc[q]
  BY DEF tree, entries
<1>3. turn = 1 => Full'
  <2> SUFFICES ASSUME turn = 1 PROVE Full'
    OBVIOUS
  <2>1. Behind(r) = Len(config)
    BY DEF Behind
  <2>2. Full
    BY <1>1, <2>1 DEF InStep, Progress, Full
  <2> QED
    BY <1>2, <2>2 DEF Full, Flagged, Shown
<1>4. walkTurn' = walkTurn /\ \A f \in Functions : shown'[f] \subseteq {f}
  BY <1>2 DEF position, CalmInv
<1> QED
  BY <1>1, <1>2, <1>3, <1>4, ReaderStep DEF Alone

-----------------------------------------------------------------------------
(* The cells of a function.                                                *)

\* A reader that stays where it is in the tree, while nothing else changes.
LEMMA InPlace ==
    ASSUME Structure, Still, walk' = walk, NEW r \in Readers
    PROVE  /\ Behind(r)' = Behind(r) /\ Behind(r) \in Int
           /\ IsRest(walk[r])' <=> IsRest(walk[r])
           /\ Progress(Behind(r))' <=> Progress(Behind(r))
           /\ Shown(Behind(r))' <=> Shown(Behind(r))
<1>1. config' = config /\ Behind(r)' = Behind(r)
  BY DEF Still, Behind
<1>2. Behind(r) \in Int
  BY DEF Structure, TypeOK, Behind
<1>3. IsRest(walk[r])' <=> IsRest(walk[r])
  BY <1>1 DEF IsRest
<1>4. Shown(Behind(r))' <=> Shown(Behind(r))
  BY <1>1 DEF Still, Shown
<1>5. Progress(Behind(r))' <=> Progress(Behind(r))
  BY <1>1, <1>4 DEF Still, Progress, Flagged
<1> QED
  BY <1>1, <1>2, <1>3, <1>4, <1>5

LEMMA GetNearRTRICInv ==
    ASSUME Structure, CalmInv, NEW r \in Readers, GetNearRTRIC(r)
    PROVE  CalmInv'
<1> USE DEF GetNearRTRIC, Structure, TypeOK, Go
<1>1. Alone(r) /\ turn > 0 /\ pc[r] = "list" /\ (turn = 1 => InStep(r))
  BY Reading
<1>2. /\ Still /\ UNCHANGED <<mishaps, walk, walkTurn>> /\ pc'[r] = "scan"
      /\ list'[r] = config /\ listTurn'[r] = turn
      /\ \A q \in Readers : q # r => pc'[q] = pc[q]
  BY <1>1 DEF Alone, Still, tree, entries, histories
<1>3. turn = 1 => InStep(r)'
  <2>1. IsRest(list[r])'
    BY <1>2 DEF Still, IsRest
  <2>2. turn = 1 => Len(walk'[r]) <= Len(list'[r])
    BY <1>1, <1>2 DEF InStep, IsRest
  <2> QED
    BY <1>1, <1>2, <2>1, <2>2, InPlace, StillKeeps DEF InStep
<1> QED
  BY <1>1, <1>2, <1>3, QuietStep

\* The functions that are skipped are those that have been read.
LEMMA SkipFunctionInv ==
    ASSUME Structure, CalmInv, NEW r \in Readers, SkipFunction(r)
    PROVE  CalmInv'
<1> USE DEF SkipFunction, Structure, TypeOK
<1>1. Alone(r) /\ turn > 0 /\ pc[r] = "scan" /\ (turn = 1 => InStep(r))
  BY Reading
<1>2. /\ Still /\ UNCHANGED <<mishaps, walk, walkTurn, listTurn>> /\ pc' = pc
      /\ list'[r] = Tail(list[r])
  BY <1>1 DEF Alone, Still, tree, entries, histories
<1>3. turn = 1 => InStep(r)'
  <2> SUFFICES ASSUME turn = 1 PROVE InStep(r)'
    OBVIOUS
  <2>1. /\ IsRest(list[r])
        /\ Full \/ (Progress(Behind(r)) /\ Len(walk[r]) <= Len(list[r]))
        /\ IsRest(walk[r])
    BY <1>1 DEF InStep
  <2>2. /\ IsRest(Tail(list[r])) /\ Head(list[r]) \in Names(config)
        /\ Head(list[r]) = config[Len(config) - Len(list[r]) + 1]
        /\ Len(config) - Len(list[r]) + 1 \in 1 .. Len(config)
    <3> DEFINE s == list[r]
    <3>1. config \in Seq(Functions) /\ s \in Seq(Functions) /\ s # << >> /\ IsRest(s)
      BY <2>1
    <3> HIDE DEF s
    <3>2. /\ IsRest(Tail(s)) /\ Head(s) \in Names(config)
          /\ Head(s) = config[Len(config) - Len(s) + 1]
          /\ Len(config) - Len(s) + 1 \in 1 .. Len(config)
      BY <3>1, RestOfRest
    <3> QED
      BY <3>2 DEF s
  <2>3. key[Head(list[r])] = listTurn[r] /\ CellCount[Head(list[r])] > 0
    <3>1. puts = << >> /\ listTurn[r] = 1 /\ Head(list[r]) \in Functions
      BY <1>1, HeadAndTail DEF Alone
    <3>2. Names(puts) = {}
      BY <3>1 DEF Names
    <3> QED
      BY <2>2, <3>1, <3>2 DEF CalmInv, KeysAreOld
  <2>4. flag[Head(list[r])] # 0
    BY <2>3 DEF Unread
  <2>5. Full \/ (Progress(Behind(r)) /\ Len(walk[r]) <= Len(Tail(list[r])))
    <3>1. Len(Tail(list[r])) = Len(list[r]) - 1 /\ Len(list[r]) \in Nat /\ Len(walk[r]) \in Nat
      BY HeadAndTail
    <3>2. ASSUME Progress(Behind(r)) PROVE Len(config) - Len(list[r]) + 1 <= Behind(r)
      BY <2>2, <2>4, <3>2 DEF Progress, Flagged
    <3> QED
      BY <2>1, <3>1, <3>2 DEF Behind
  <2>6. IsRest(list[r])'
    BY <1>2, <2>2 DEF Still, IsRest
  <2> QED
    BY <1>1, <1>2, <2>1, <2>5, <2>6, InPlace, StillKeeps DEF InStep
<1> QED
  BY <1>1, <1>2, <1>3, QuietStep DEF Alone

\* The function that is found is the one the reader is at, and there is none after a
\* second message.
LEMMA FindFunctionInv ==
    ASSUME Structure, CalmInv, NEW r \in Readers, FindFunction(r)
    PROVE  CalmInv'
<1>1. Alone(r) /\ turn > 0 /\ pc[r] = "scan" /\ (turn = 1 => InStep(r))
  BY Reading DEF FindFunction
<1>2. /\ Still /\ UNCHANGED <<mishaps, walk, walkTurn, listTurn>> /\ pc'[r] = "take"
      /\ found'[r] = Head(list[r]) /\ left'[r] = CellCount[Head(list[r])]
      /\ \A q \in Readers : q # r => pc'[q] = pc[q]
  BY <1>1 DEF Alone, Still, tree, entries, histories, FindFunction, Structure, TypeOK, Go
<1>a. /\ list[r] \in Seq(Functions) /\ list[r] # << >> /\ walk[r] # << >>
      /\ walk[r] \in Seq(Functions) /\ config \in Seq(Functions) /\ turn \in Nat
      /\ Unread(Head(list[r]), listTurn[r])
  <2>1. list[r] # << >> /\ Unread(Head(list[r]), listTurn[r])
    BY DEF FindFunction
  <2>2. /\ list[r] \in Seq(Functions) /\ walk[r] \in Seq(Functions)
        /\ config \in Seq(Functions) /\ turn \in Nat
    BY DEF Structure, TypeOK
  <2>3. walk[r] # << >>
    BY <1>1 DEF Structure, AtFunction
  <2> QED
    BY <2>1, <2>2, <2>3
<1>3. /\ Head(list[r]) \in Functions /\ key[Head(list[r])] = turn /\ flag[Head(list[r])] = 0
      /\ CellCount[Head(list[r])] \in Nat
  BY <1>1, <1>a, HeadAndTail DEF Alone, Unread
<1>4. turn = 1
  BY <1>1, <1>3, <1>a DEF CalmInv, KeysAreOld
<1>5. /\ IsRest(list[r]) /\ IsRest(walk[r])
      /\ Full \/ (Progress(Behind(r)) /\ Len(walk[r]) <= Len(list[r]))
  BY <1>1, <1>4 DEF InStep
<1>6. /\ Head(list[r]) = config[Len(config) - Len(list[r]) + 1]
      /\ Len(config) - Len(list[r]) + 1 \in 1 .. Len(config)
  BY <1>a, <1>5, RestOfRest
<1>8. Head(walk[r]) = config[Len(config) - Len(walk[r]) + 1]
  BY <1>a, <1>5, RestOfRest
<1>b. PICK k \in 1 .. Len(config) :
          k = Len(config) - Len(list[r]) + 1 /\ flag[config[k]] = 0
  BY <1>3, <1>6
<1>c. k \in Nat /\ k <= Len(config) /\ Len(config) \in Nat /\ Behind(r) \in Int
  BY <1>a DEF Behind
<1>9. ~Full
  <2>1. Flagged(Len(config)) => flag[config[k]] = 1
    BY <1>a, <1>b, <1>c DEF Flagged
  <2> QED
    BY <1>b, <2>1 DEF Full
<1>10. ~(k <= Behind(r))
  <2>1. Flagged(Behind(r)) /\ k <= Behind(r) => flag[config[k]] = 1
    BY <1>a, <1>b, <1>c DEF Flagged
  <2> QED
    <3>1. flag[config[k]] # 1
      BY <1>b
    <3>2. Flagged(Behind(r))
      BY <1>5, <1>9 DEF Progress
    <3> QED
      BY <2>1, <3>1, <3>2, Zenon
<1>11. Len(list[r]) = Len(walk[r])
  <2>1. Len(list[r]) \in Nat /\ Len(walk[r]) \in Nat /\ Len(walk[r]) <= Len(list[r])
    BY <1>a, <1>5, <1>9
  <2>2. Behind(r) = Len(config) - Len(walk[r])
    BY DEF Behind
  <2> QED
    <3>1. \A m, n, p \in Nat : m <= n /\ ~(p - n + 1 <= p - m) => n = m
      OBVIOUS
    <3>2. ~(Len(config) - Len(list[r]) + 1 <= Len(config) - Len(walk[r]))
      BY <1>b, <1>10, <2>2
    <3> QED
      BY <1>c, <2>1, <3>1, <3>2, Zenon
<1>12. InStep(r)'
  <2>a. Head(list[r]) = Head(walk[r])
    BY <1>6, <1>8, <1>11
  <2>b. found'[r] = Head(walk'[r])
    BY <1>2, <2>a
  <2>1. found'[r] = Head(walk'[r]) /\ left'[r] <= CellCount[found'[r]]
    BY <1>2, <1>3, <2>b
  <2>2. Flagged(Behind(r))' /\ Shown(Behind(r))' /\ ~complete' /\ IsRest(walk[r])'
    BY <1>2, <1>5, <1>9, InPlace DEF Progress
  <2> QED
    BY <1>2, <2>1, <2>2 DEF InStep
<1> QED
  BY <1>1, <1>2, <1>4, <1>12, QuietStep

\* Nothing is returned only if everything has been.
LEMMA ReturnNothingInv ==
    ASSUME Structure, CalmInv, NEW r \in Readers, ReturnNothing(r)
    PROVE  CalmInv'
<1> USE DEF ReturnNothing, Structure, TypeOK, Go
<1>1. Alone(r) /\ turn > 0 /\ pc[r] = "scan" /\ (turn = 1 => InStep(r))
  BY Reading
<1>2. /\ Still /\ UNCHANGED <<mishaps, walkTurn, listTurn>> /\ pc'[r] = "next"
      /\ walk'[r] = Tail(walk[r])
      /\ \A q \in Readers : q # r => pc'[q] = pc[q]
  BY <1>1 DEF Alone, Still, tree, entries, histories
<1>3. turn = 1 => InStep(r)'
  <2> SUFFICES ASSUME turn = 1 PROVE InStep(r)'
    OBVIOUS
  <2>1. walk[r] # << >> /\ walk[r] \in Seq(Functions) /\ IsRest(walk[r])
    BY <1>1 DEF AtFunction, InStep
  <2>2. Full
    BY <1>1, <2>1, HeadAndTail DEF InStep
  <2>3. IsRest(Tail(walk[r]))
    BY <2>1, RestOfRest
  <2>4. IsRest(walk[r])'
    BY <1>2, <2>3 DEF Still, IsRest
  <2> QED
    BY <1>2, <2>2, <2>4, StillKeeps DEF InStep
<1> QED
  BY <1>1, <1>2, <1>3, QuietStep

\* The flag that is set is that of the function the reader is at.
LEMMA TakeCellInv ==
    ASSUME Structure, CalmInv, NEW r \in Readers, TakeCell(r)
    PROVE  CalmInv'
<1>1. Alone(r) /\ turn > 0 /\ pc[r] = "take" /\ turn = 1 /\ InStep(r)
  BY Reading DEF CalmInv, TakeCell
<1>2. /\ walk[r] # << >> /\ walk[r] \in Seq(Functions) /\ IsRest(walk[r])
      /\ config \in Seq(Functions) /\ left[r] \in Nat
  BY <1>1, Walking DEF InStep, Structure, TypeOK
<1>3. /\ Len(config) - Len(walk[r]) + 1 \in 1 .. Len(config) /\ found[r] \in Names(config)
      /\ found[r] = config[Len(config) - Len(walk[r]) + 1]
      /\ found[r] \in Functions /\ CellCount[found[r]] \in Nat
  BY <1>1, <1>2, RestOfRest, HeadAndTail DEF InStep
<1>4. /\ UNCHANGED <<config, turn, puts, key, shown, complete, mishaps, walk, walkTurn,
                    found>>
      /\ pc'[r] = "take" /\ left'[r] = left[r] - 1 /\ left[r] > 0
      /\ \A q \in Readers : q # r => pc'[q] = pc[q]
      /\ flag'[found[r]] = 1
      /\ \A f \in Functions : f # found[r] => flag'[f] = flag[f]
  BY <1>1, <1>3 DEF tree, histories, TakeCell, Structure, TypeOK, Go
<1>5. Behind(r)' = Behind(r) /\ Behind(r) + 1 = Len(config) - Len(walk[r]) + 1
  BY <1>2, <1>4 DEF Behind
<1>6. Flagged(Behind(r)) \/ Flagged(Behind(r) + 1)
  BY <1>1 DEF InStep
<1>7. Flagged(Behind(r) + 1)'
  <2>1. ASSUME NEW i \in 1 .. Len(config)
        PROVE  flag'[config[i]] = IF i <= Behind(r) + 1 THEN 1 ELSE 0
    <3>1. config[i] \in Functions /\ i \in Nat /\ Behind(r) \in Int
      BY <1>2 DEF Behind
    <3>2. CASE i = Behind(r) + 1
      <4>1. config[i] = found[r]
        BY <1>2, <1>3, <1>5, <3>2
      <4>2. flag'[config[i]] = 1
        BY <1>4, <4>1
      <4> QED
        BY <3>1, <3>2, <4>2
    <3>3. CASE i # Behind(r) + 1
      <4>1. config[i] # found[r]
        BY <1>3, <1>5, <3>3 DEF CalmInv, KeysAreOld
      <4>2. flag'[config[i]] = flag[config[i]]
        BY <1>4, <3>1, <4>1
      <4> QED
        BY <1>6, <3>1, <3>3, <4>2 DEF Flagged
    <3> QED
      BY <3>2, <3>3
  <2> QED
    BY <1>4, <1>5, <2>1 DEF Flagged
<1>8. InStep(r)'
  <2>1. Shown(Behind(r))' /\ IsRest(walk[r])' /\ ~complete'
    <3>1. Shown(Behind(r)) /\ ~complete
      BY <1>1 DEF InStep
    <3>2. Shown(Behind(r))'
      <4>1. config' = config /\ shown' = shown /\ Behind(r)' = Behind(r)
        BY <1>4, <1>5
      <4> QED
        BY <3>1, <4>1 DEF Shown
    <3>3. IsRest(walk[r])'
      BY <1>2, <1>4 DEF IsRest
    <3> QED
      BY <1>4, <3>1, <3>2, <3>3
  <2>2. left'[r] <= CellCount[found'[r]] /\ left'[r] # CellCount[found'[r]]
    <3>1. left[r] <= CellCount[found[r]]
      BY <1>1 DEF InStep
    <3>2. found'[r] = found[r] /\ left'[r] = left[r] - 1
      BY <1>4
    <3>3. \A m, n \in Nat : m <= n => m - 1 <= n /\ m - 1 # n
      OBVIOUS
    <3>4. left[r] - 1 <= CellCount[found[r]] /\ left[r] - 1 # CellCount[found[r]]
      BY <1>2, <1>3, <3>1, <3>3, Zenon
    <3> QED
      BY <3>2, <3>4, Zenon
  <2>3. found'[r] = Head(walk'[r])
    BY <1>1, <1>4 DEF InStep
  <2> QED
    BY <1>4, <1>5, <1>7, <2>1, <2>2, <2>3 DEF InStep
<1>9. walkTurn'[r] = turn /\ \A f \in Functions : shown'[f] \subseteq {f}
  BY <1>1, <1>4 DEF Alone, CalmInv
<1> QED
  BY <1>1, <1>4, <1>8, <1>9, ReaderStep DEF Alone

\* Each function has a cell, so its flag is set.
LEMMA ReturnCellsInv ==
    ASSUME Structure, CalmInv, NEW r \in Readers, ReturnCells(r)
    PROVE  CalmInv'
<1>1. Alone(r) /\ turn > 0 /\ pc[r] = "take" /\ turn = 1 /\ InStep(r) /\ left[r] = 0
  BY Reading DEF CalmInv, ReturnCells
<1>2. /\ Still /\ UNCHANGED <<mishaps, position>> /\ pc'[r] = "show"
      /\ \A q \in Readers : q # r => pc'[q] = pc[q]
  BY <1>1 DEF ReturnCells, Go, Structure, TypeOK, Alone, Still, tree, entries, histories
<1>3. found[r] = Head(walk[r]) /\ IsRest(walk[r]) /\ Shown(Behind(r)) /\ ~complete
  BY <1>1 DEF InStep
<1>4. /\ walk[r] # << >> /\ walk[r] \in Seq(Functions) /\ config \in Seq(Functions)
      /\ Behind(r) \in Int
  BY <1>1, Walking
<1>5. CellCount[found[r]] # 0
  <2>1. found[r] \in Names(config) /\ found[r] \in Functions
    BY <1>3, <1>4, RestOfRest, HeadAndTail
  <2>2. CellCount[found[r]] > 0 /\ CellCount[found[r]] \in Nat
    BY <2>1 DEF CalmInv, KeysAreOld
  <2> QED
    BY <2>2
<1>6. Flagged(Behind(r) + 1)
  BY <1>1, <1>5 DEF InStep
<1>7. InStep(r)'
  <2>1. /\ walk' = walk /\ found' = found /\ Behind(r)' = Behind(r)
        /\ IsRest(walk[r])' /\ Shown(Behind(r))' /\ ~complete'
    BY <1>2, <1>3, InPlace DEF position, Still
  <2>2. Flagged(Behind(r) + 1)'
    BY <1>2, <1>6, <2>1 DEF Still, Flagged
  <2>3. left'[r] <= CellCount[found'[r]]
    BY <1>1, <1>2, <2>1 DEF InStep, position
  <2> QED
    BY <1>2, <1>3, <2>1, <2>2, <2>3 DEF InStep
<1>8. walkTurn' = walkTurn /\ mishaps' = mishaps
  BY <1>2 DEF position
<1> QED
  BY <1>1, <1>2, <1>7, <1>8, QuietStep

\* The cells become those of the function they belong to.
LEMMA ShowCellsInv ==
    ASSUME Structure, CalmInv, NEW r \in Readers, ShowCells(r)
    PROVE  CalmInv'
<1>1. Alone(r) /\ turn > 0 /\ pc[r] = "show" /\ turn = 1 /\ InStep(r)
  BY Reading DEF CalmInv, ShowCells
<1>2. /\ walk[r] # << >> /\ walk[r] \in Seq(Functions) /\ config \in Seq(Functions)
      /\ IsRest(walk[r]) /\ found[r] = Head(walk[r]) /\ Shown(Behind(r))
      /\ Flagged(Behind(r) + 1) /\ ~complete /\ Behind(r) \in Int
  BY <1>1, Walking DEF InStep
<1>3. PICK k \in 1 .. Len(config) :
          k = Len(config) - Len(walk[r]) + 1 /\ found[r] = config[k]
  BY <1>2, RestOfRest
<1>4. found[r] \in Names(config) /\ found[r] \in Functions
  BY <1>2, RestOfRest, HeadAndTail
<1>5. /\ UNCHANGED <<config, turn, puts, key, flag, complete, mishaps, walkTurn>>
      /\ pc'[r] = "next" /\ walk'[r] = Tail(walk[r])
      /\ \A q \in Readers : q # r => pc'[q] = pc[q]
      /\ shown'[found[r]] = shown[found[r]] \cup {found[r]}
      /\ \A f \in Functions : f # found[r] => shown'[f] = shown[f]
  <2>1. /\ UNCHANGED <<config, turn, puts, key, flag, complete, mishaps, walkTurn>>
        /\ shown' = [shown EXCEPT ![found[r]] = @ \cup {found[r]}]
        /\ walk' = [walk EXCEPT ![r] = Tail(@)]
        /\ pc' = [pc EXCEPT ![r] = "next"]
    BY <1>2, <1>4 DEF ShowCells, Go, tree, entries
  <2>2. /\ shown \in [Functions -> SUBSET Functions] /\ walk \in [Readers -> Seq(Functions)]
        /\ pc \in [Readers -> Pc]
    BY DEF Structure, TypeOK
  <2> QED
    BY <1>4, <2>1, <2>2
<1>6. /\ Behind(r) + 1 = k /\ Behind(r)' = k
      /\ k \in Nat /\ Len(Tail(walk[r])) = Len(walk[r]) - 1
  <2>1. Len(walk[r]) \in Nat /\ Len(config) \in Nat /\ Len(Tail(walk[r])) = Len(walk[r]) - 1
    BY <1>2, HeadAndTail
  <2>2. Behind(r) + 1 = k
    BY <1>3, <2>1 DEF Behind
  <2>3. Behind(r)' = Len(config) - Len(Tail(walk[r]))
    BY <1>5 DEF Behind
  <2>4. Len(config) - Len(Tail(walk[r])) = k
    <3>1. \A m, n \in Nat : n - (m - 1) = n - m + 1
      OBVIOUS
    <3> QED
      BY <1>3, <2>1, <3>1, Zenon
  <2> QED
    BY <2>1, <2>2, <2>3, <2>4
<1>7. Flagged(k)'
  BY <1>2, <1>5, <1>6 DEF Flagged
<1>8. Shown(k)'
  <2>1. ASSUME NEW i \in 1 .. Len(config)
        PROVE  shown'[config[i]] = IF i <= k THEN {config[i]} ELSE {}
    <3>1. config[i] \in Functions /\ i \in Nat
      BY <1>2
    <3>2. CASE i = k
      <4>a. ~(k <= Behind(r))
        BY <1>2, <1>6
      <4>1. shown[config[k]] = {}
        BY <1>2, <4>a DEF Shown
      <4>2. shown'[config[k]] = {config[k]}
        BY <1>3, <1>5, <4>1
      <4> QED
        BY <1>6, <3>2, <4>2
    <3>3. CASE i # k
      <4>1. config[i] # found[r]
        BY <1>3, <3>3 DEF CalmInv, KeysAreOld
      <4>2. shown'[config[i]] = shown[config[i]]
        BY <1>5, <3>1, <4>1
      <4>3. i <= k <=> i <= Behind(r)
        BY <1>2, <1>6, <3>1, <3>3
      <4> QED
        BY <1>2, <4>2, <4>3 DEF Shown
    <3> QED
      BY <3>2, <3>3
  <2> QED
    BY <1>5, <2>1 DEF Shown
<1>9. InStep(r)'
  <2>1. IsRest(Tail(walk[r]))
    BY <1>2, RestOfRest
  <2>2. IsRest(walk[r])'
    BY <1>5, <2>1 DEF IsRest
  <2>3. Progress(Behind(r))'
    BY <1>2, <1>5, <1>6, <1>7, <1>8 DEF Progress
  <2> QED
    BY <1>5, <2>2, <2>3 DEF InStep
<1>10. ASSUME NEW f \in Functions PROVE shown'[f] \subseteq {f}
  BY <1>5 DEF CalmInv
<1> QED
  BY <1>1, <1>5, <1>9, <1>10, ReaderStep DEF Alone

-----------------------------------------------------------------------------
(* The theorems.                                                           *)

LEMMA ModifiedConcurrentlyInv ==
    ASSUME Structure, CalmInv, NEW r \in Readers, ModifiedConcurrently(r)
    PROVE  FALSE
BY Reading DEF ModifiedConcurrently, Alone

LEMMA NextInv == Inv /\ [Next]_vars => Inv'
<1> SUFFICES ASSUME Structure, Calm => CalmInv, [Next]_vars PROVE Inv'
  BY DEF Inv
<1>1. Structure'
  BY StructureStep
<1>2. SUFFICES ASSUME Calm' PROVE CalmInv'
  BY <1>1 DEF Inv
<1>3. ASSUME NEW r \in Readers,
             \/ ReadFunction(r) \/ EndWalk(r) \/ GetNearRTRIC(r) \/ SkipFunction(r)
             \/ FindFunction(r) \/ ReturnNothing(r) \/ ModifiedConcurrently(r)
             \/ TakeCell(r) \/ ReturnCells(r) \/ ShowCells(r)
      PROVE  CalmInv'
  <2>1. mishaps' = mishaps
    BY <1>3 DEF ReadFunction, EndWalk, GetNearRTRIC, SkipFunction, FindFunction,
       ReturnNothing, ModifiedConcurrently, TakeCell, ReturnCells, ShowCells, histories
  <2>2. CalmInv
    BY <1>2, <2>1 DEF Calm
  <2> QED
    BY <1>3, <2>2, ReadFunctionInv, EndWalkInv, GetNearRTRICInv, SkipFunctionInv,
       FindFunctionInv, ReturnNothingInv, ModifiedConcurrentlyInv, TakeCellInv,
       ReturnCellsInv, ShowCellsInv
<1>4. CASE UNCHANGED vars
  <2>1. Calm /\ CalmInv
    BY <1>2, <1>4 DEF vars, histories, Calm
  <2>2. Still /\ UNCHANGED <<pc, position, mishaps>>
    BY <1>4 DEF vars, tree, entries, histories, Still
  <2>3. KeysAreOld'
    BY <2>1, <2>2 DEF CalmInv, KeysAreOld, Still
  <2>4. ASSUME NEW r \in Readers PROVE InStep(r)' <=> InStep(r)
    <3>1. /\ walk' = walk /\ list' = list /\ found' = found /\ left' = left /\ pc' = pc
          /\ config' = config /\ complete' = complete
      BY <2>2 DEF Still, position
    <3>2. Behind(r)' = Behind(r) /\ (Progress(Behind(r))' <=> Progress(Behind(r)))
          /\ (IsRest(walk[r])' <=> IsRest(walk[r])) /\ (Shown(Behind(r))' <=> Shown(Behind(r)))
      BY <2>2, <3>1, InPlace
    <3>3. IsRest(list[r])' <=> IsRest(list[r])
      BY <3>1 DEF IsRest
    <3>4. /\ Flagged(Behind(r))' <=> Flagged(Behind(r))
          /\ Flagged(Behind(r) + 1)' <=> Flagged(Behind(r) + 1)
      BY <2>2, <3>1, <3>2 DEF Flagged, Still
    <3> QED
      BY <2>2, <3>1, <3>2, <3>3, <3>4, StillKeeps DEF InStep
  <2>5. turn = 1 => FirstMessage'
    BY <2>1, <2>2, <2>4, StillKeeps DEF CalmInv, FirstMessage, Still
  <2>6. turn = 0 => NoMessage'
    BY <2>1, <2>2 DEF CalmInv, NoMessage, Still
  <2>7. \A r \in Readers : pc[r] # "idle" => Alone(r)'
    BY <2>1, <2>2 DEF CalmInv, Alone, Still, position
  <2> QED
    BY <2>1, <2>2, <2>3, <2>5, <2>6, <2>7 DEF CalmInv, Still
<1> QED
  BY <1>2, <1>3, <1>4, SetNearRTRICInv, PutFlagInv, BeginWalkInv DEF Next

\* The tree, the flags and the readers are well typed, whatever comes of them.
THEOREM TypeCorrect == Spec => []TypeOK
<1>1. Inv => TypeOK
  BY DEF Inv, Structure
<1> QED
  BY <1>1, InitInv, NextInv, PTL DEF Spec

\* The flags of the service of the cells (readAll of GNBDUFunctionNRCellDUCrudService)
\* show no function with the cells of another, as long as the reads come one by one and
\* no message comes during one, adds a function or has one without cells.
THEOREM EachHasItsOwn == Spec => []OwnCells
<1>1. Inv => OwnCells
  BY DEF Inv, CalmInv, Calm, OwnCells
<1> QED
  BY <1>1, InitInv, NextInv, PTL DEF Spec

\* The first read after the first message shows each function with its cells.
THEOREM FirstReadShowsAll == Spec => []FirstReadIsComplete
<1>1. Inv => FirstReadIsComplete
  <2> SUFFICES ASSUME Inv, complete, mishaps = {}, NEW f \in Names(config)
               PROVE  shown[f] = {f}
    BY DEF FirstReadIsComplete
  <2>1. CalmInv /\ Structure /\ turn = 1
    BY DEF Inv, Calm, CalmInv, NoMessage, Structure, TypeOK
  <2>2. Full
    BY <2>1 DEF CalmInv, FirstMessage, InStep, Progress, Structure, TypeOK, Pc
  <2>3. PICK i \in 1 .. Len(config) : f = config[i]
    BY DEF Names
  <2> QED
    BY <2>1, <2>2, <2>3 DEF Full, Shown, Structure, TypeOK
<1> QED
  BY <1>1, InitInv, NextInv, PTL DEF Spec

\* After a second message, no read finds the cells of any function again: the keys of
\* the map are the ids of the first, and readAll compares them by ==.
THEOREM SecondMessageHidesAll ==
    Spec => [](Calm /\ turn > 1 => \A r \in Readers : pc[r] # "take")
<1>1. Inv => (Calm /\ turn > 1 => \A r \in Readers : pc[r] # "take")
  BY DEF Inv, CalmInv, Structure, TypeOK
<1> QED
  BY <1>1, InitInv, NextInv, PTL DEF Spec
=============================================================================
