------------------------ MODULE NeighborBatchesProofs ------------------------
(* Proofs about NeighborBatches: why no change is sent twice as long as writers  *)
(* and timers do not meet in a batch, and why none is lost that is added in time. *)
EXTENDS NeighborBatches, TLAPS

-----------------------------------------------------------------------------
(* The inductive invariant.                                                *)

\* The change is in the batch the writer has found.
Added(ch) == batch[ch] # None /\ pc[ch] \in {"cancel", "timer", "schedule", "done"}

\* What a writer and the thread of a timer have when they are at a step.
WritersHold == \A ch \in Changes :
    /\ pc[ch] \in {"new", "find"} => batch[ch] = None
    /\ pc[ch] \in {"put", "add", "cancel", "timer", "schedule"} => batch[ch] # None
    /\ pc[ch] = "cancel" => timer[batch[ch]] # None
    /\ pc[ch] = "schedule" => timer[batch[ch]] = ch

TimersHold == \A tm \in Changes :
    /\ tm \in scheduled => Added(tm) /\ pc[tm] = "done" /\ timer[batch[tm]] # None
    /\ run[tm] # "idle" => tm \in scheduled

\* The writer holds the monitor of its batch, which has one owner at a time.
Owns(ch) == pc[ch] \in {"cancel", "timer", "schedule"}
OneOwner == \A ch, d \in Changes : Owns(ch) /\ Owns(d) /\ batch[ch] = batch[d] => ch = d

\* A change is in its own batch, and everything that waits or is sent has been added.
InItsBatch ==
    /\ \A b \in Changes : \A i \in 1 .. Len(nbrList[b]) :
         Added(nbrList[b][i]) /\ batch[nbrList[b][i]] = b
    /\ \A tm \in Changes : \A k \in 1 .. Len(topology[tm]) : Added(topology[tm][k])
    /\ \A i \in 1 .. Len(messages) : \A k \in 1 .. Len(messages[i]) : Added(messages[i][k])

Structure == TypeOK /\ WritersHold /\ TimersHold /\ OneOwner /\ InItsBatch

\* A timer that will fire is the one that was set last, no writer is about to set
\* another, and its batch is not empty unless its thread is at work.
Busy(tm) == run[tm] \in {"read", "send", "clear", "cancel"}
Active == scheduled \ cancelled
LastIsActive == \A tm \in Active :
    /\ timer[batch[tm]] = tm
    /\ \A ch \in Changes : Owns(ch) /\ batch[ch] = batch[tm] => pc[ch] = "cancel"
    /\ nbrList[batch[tm]] = << >> => \E u \in Changes : Busy(u) /\ batch[u] = batch[tm]

\* The batch of a writer that holds the monitor is not empty.
OwnedIsFilled == \A ch \in Changes : Owns(ch) => nbrList[batch[ch]] # << >>

\* The thread of a timer is alone with its batch, and has the list as it is.
BusyAlone == \A tm \in Changes : Busy(tm) =>
    /\ \A u \in Changes : batch[u] = batch[tm] => ~Owns(u) /\ (Busy(u) => u = tm)
    /\ run[tm] \in {"read", "send", "clear"} => topology[tm] = nbrList[batch[tm]]
    /\ run[tm] \in {"read", "send"} => nbrList[batch[tm]] # << >>

\* What waits has not been sent, unless the list is about to be cleared.
WaitsUnsent == \A b \in Changes :
    \/ \E tm \in Changes : run[tm] = "clear" /\ batch[tm] = b
    \/ \A i \in 1 .. Len(messages) : \A k \in 1 .. Len(nbrList[b]) :
         ~Contains(messages[i], nbrList[b][k])

Separate == LastIsActive /\ OwnedIsFilled /\ BusyAlone /\ WaitsUnsent
Inv == Structure /\ (~mixed => Separate) /\ SentOnce

USE ChangeAssumption

-----------------------------------------------------------------------------
(* Sequences.                                                              *)

\* The sequence with one more element.
LEMMA Appended ==
    ASSUME NEW S, NEW q \in Seq(S), NEW e \in S
    PROVE  /\ Append(q, e) \in Seq(S) /\ Len(Append(q, e)) = Len(q) + 1 /\ Len(q) \in Nat
           /\ Append(q, e) # << >>
           /\ \A i \in 1 .. Len(q) : Append(q, e)[i] = q[i]
           /\ Append(q, e)[Len(q) + 1] = e
           /\ \A i \in 1 .. Len(Append(q, e)) : i \in 1 .. Len(q) \/ i = Len(q) + 1
OBVIOUS

\* Whether a sequence contains something, by its indices.
LEMMA ContainsAt ==
    ASSUME NEW S, NEW q \in Seq(S), NEW e
    PROVE  Contains(q, e) <=> \E i \in 1 .. Len(q) : q[i] = e
BY DEF Contains

-----------------------------------------------------------------------------
(* The structure.                                                          *)

LEMMA InitInv == Init => Inv
<1> SUFFICES ASSUME Init PROVE Inv
  OBVIOUS
<1>1. TypeOK
  <2>1. /\ isConfigTopoInitialized \in BOOLEAN /\ mixed \in BOOLEAN
        /\ scheduled \subseteq Changes /\ cancelled \subseteq Changes /\ late \subseteq Changes
    BY DEF Init
  <2>2. << >> \in Seq(Changes) /\ << >> \in Seq(Seq(Changes))
    OBVIOUS
  <2>3. nbrList \in [Changes -> Seq(Changes)] /\ topology \in [Changes -> Seq(Changes)]
        /\ messages \in Seq(Seq(Changes))
    BY <2>2, Zenon DEF Init
  <2>4. /\ serverCidNbrList \in [Cells -> Changes \cup {None}]
        /\ timer \in [Changes -> Changes \cup {None}]
        /\ batch \in [Changes -> Changes \cup {None}]
    BY DEF Init
  <2>5. pc \in [Changes -> {"new", "find", "put", "add", "cancel", "timer", "schedule", "done"}]
    BY DEF Init
  <2>6. run \in [Changes -> {"idle", "read", "send", "clear", "cancel", "dead"}]
    BY DEF Init
  <2> QED
    BY <2>1, <2>3, <2>4, <2>5, <2>6 DEF TypeOK
<1>2. WritersHold /\ TimersHold /\ OneOwner
  BY DEF Init, WritersHold, TimersHold, OneOwner, Owns
<1>3. InItsBatch /\ SentOnce
  BY DEF Init, InItsBatch, SentOnce
<1>4. Separate
  BY DEF Init, Separate, LastIsActive, OwnedIsFilled, BusyAlone, WaitsUnsent, Active, Busy, Owns
<1> QED
  BY <1>1, <1>2, <1>3, <1>4 DEF Inv, Structure

\* Nothing that has been added moves.
AddedNext(ch) == batch'[ch] # None /\ pc'[ch] \in {"cancel", "timer", "schedule", "done"}
AddedStays == \A ch \in Changes : Added(ch) => AddedNext(ch) /\ batch'[ch] = batch[ch]

\* What is in the lists and the messages are changes.
LEMMA Elements ==
    ASSUME TypeOK
    PROVE  /\ \A b \in Changes : \A i \in 1 .. Len(nbrList[b]) : nbrList[b][i] \in Changes
           /\ \A tm \in Changes : \A i \in 1 .. Len(topology[tm]) : topology[tm][i] \in Changes
           /\ \A i \in 1 .. Len(messages) : messages[i] \in Seq(Changes)
           /\ \A i \in 1 .. Len(messages) :
                \A k \in 1 .. Len(messages[i]) : messages[i][k] \in Changes
<1>1. \A b \in Changes : nbrList[b] \in Seq(Changes) /\ topology[b] \in Seq(Changes)
  BY DEF TypeOK
<1>2. \A i \in 1 .. Len(messages) : messages[i] \in Seq(Changes)
  BY DEF TypeOK
<1>3. \A q \in Seq(Changes) : \A i \in 1 .. Len(q) : q[i] \in Changes
  OBVIOUS
<1> QED
  BY <1>1, <1>2, <1>3, Zenon

LEMMA InItsBatchKept ==
    ASSUME TypeOK, InItsBatch, AddedStays, UNCHANGED <<nbrList, topology, messages>>
    PROVE  InItsBatch'
<1>1. /\ nbrList' = nbrList /\ topology' = topology /\ messages' = messages
      /\ \A ch \in Changes : Added(ch) => AddedNext(ch) /\ batch'[ch] = batch[ch]
  BY DEF AddedStays
<1>2. /\ \A b \in Changes : \A i \in 1 .. Len(nbrList[b]) :
           AddedNext(nbrList[b][i]) /\ batch'[nbrList[b][i]] = b
      /\ \A tm \in Changes : \A k \in 1 .. Len(topology[tm]) : AddedNext(topology[tm][k])
      /\ \A i \in 1 .. Len(messages) : \A k \in 1 .. Len(messages[i]) : AddedNext(messages[i][k])
  BY <1>1, Elements DEF InItsBatch
<1> QED
  BY <1>1, <1>2 DEF InItsBatch, Added, AddedNext

-----------------------------------------------------------------------------
(* What leaves the lists, the timers and the messages alone: the events, a *)
(* stuttering step, and a writer that has not added its change yet.        *)

Aside(ch) ==
    /\ UNCHANGED <<nbrList, timer, timers, runs, messages, history>>
    /\ \A d \in Changes \ {ch} : pc'[d] = pc[d] /\ batch'[d] = batch[d]

LEMMA EventsInv ==
    ASSUME Inv, IgnoreEvents \/ MonitorEvents \/ UNCHANGED vars
    PROVE  Inv'
<1> USE DEF IgnoreEvents, MonitorEvents, vars, batches, timers, writers, runs, history
<1>1. UNCHANGED <<serverCidNbrList, nbrList, timer, scheduled, cancelled, pc, batch, run, topology,
                 messages, late, mixed>>
  OBVIOUS
<1>2. isConfigTopoInitialized' \in BOOLEAN
  BY DEF Inv, Structure, TypeOK
<1> HIDE DEF IgnoreEvents, MonitorEvents, vars, batches, timers, writers, runs, history
<1>3. TypeOK'
  BY <1>1, <1>2 DEF TypeOK, Inv, Structure
<1>4. /\ WritersHold' <=> WritersHold
      /\ TimersHold' <=> TimersHold
      /\ OneOwner' <=> OneOwner
      /\ InItsBatch' <=> InItsBatch
  BY <1>1 DEF WritersHold, TimersHold, OneOwner, InItsBatch, Added, Owns
<1>5. Separate' <=> Separate
  BY <1>1 DEF Separate, LastIsActive, OwnedIsFilled, BusyAlone, WaitsUnsent, Active, Busy, Owns
<1>6. SentOnce' <=> SentOnce
  BY <1>1 DEF SentOnce
<1> QED
  BY <1>1, <1>3, <1>4, <1>5, <1>6 DEF Inv, Structure

LEMMA WriterAside ==
    ASSUME Structure, NEW ch \in Changes, WriteData(ch) \/ FindBatch(ch) \/ PutBatch(ch)
    PROVE  Aside(ch) /\ ~Added(ch) /\ ~Owns(ch) /\ ~Owns(ch)' /\ TypeOK'
           /\ (pc'[ch] \in {"new", "find"} => batch'[ch] = None)
           /\ (pc'[ch] \in {"put", "add"} => batch'[ch] # None)
           /\ pc'[ch] \in {"find", "put", "add", "done"}
<1> USE DEF WriteData, FindBatch, PutBatch, batches, timers, writers, runs, history, Goto
<1>1. /\ TypeOK /\ WritersHold /\ pc[ch] \in {"new", "find", "put"}
      /\ CellOf[ch] \in Cells /\ (pc[ch] \in {"new", "find"} => batch[ch] = None)
      /\ (pc[ch] = "put" => batch[ch] # None)
  BY DEF Structure, WritersHold
<1>2. Aside(ch)
  BY <1>1 DEF TypeOK, Aside
<1>3. pc' \in [Changes -> {"new", "find", "put", "add", "cancel", "timer", "schedule", "done"}]
      /\ pc'[ch] \in {"find", "put", "add", "done"}
  BY <1>1 DEF TypeOK
<1>4. batch' \in [Changes -> Changes \cup {None}]
      /\ serverCidNbrList' \in [Cells -> Changes \cup {None}]
  <2>1. serverCidNbrList[CellOf[ch]] \in Changes \cup {None}
    BY <1>1 DEF TypeOK
  <2>2. CASE WriteData(ch)
    BY <1>1, <2>2 DEF TypeOK
  <2>3. CASE FindBatch(ch)
    <3>1. \E x \in Changes : batch' = [batch EXCEPT ![ch] = x]
      BY <2>1, <2>3
    <3>2. serverCidNbrList' = serverCidNbrList
      BY <2>3
    <3> QED
      BY <1>1, <3>1, <3>2 DEF TypeOK
  <2>4. CASE PutBatch(ch)
    BY <1>1, <2>4 DEF TypeOK
  <2> QED
    BY <2>2, <2>3, <2>4
<1>5. isConfigTopoInitialized' = isConfigTopoInitialized
  OBVIOUS
<1>6. (pc'[ch] \in {"new", "find"} => batch'[ch] = None)
      /\ (pc'[ch] \in {"put", "add"} => batch'[ch] # None)
  BY <1>1 DEF TypeOK
<1> HIDE DEF WriteData, FindBatch, PutBatch, Goto
<1>7. TypeOK'
  BY <1>1, <1>2, <1>3, <1>4, <1>5 DEF TypeOK, Aside
<1>8. ~Added(ch) /\ ~Owns(ch) /\ ~Owns(ch)'
  BY <1>1, <1>3 DEF Added, Owns
<1> QED
  BY <1>2, <1>3, <1>6, <1>7, <1>8

LEMMA WriterAsideInv ==
    ASSUME Inv, NEW ch \in Changes, WriteData(ch) \/ FindBatch(ch) \/ PutBatch(ch)
    PROVE  Inv'
<1>1. /\ Structure /\ TypeOK /\ WritersHold /\ TimersHold /\ OneOwner /\ InItsBatch
  BY DEF Inv, Structure
<1>2. Aside(ch) /\ ~Added(ch) /\ ~Owns(ch) /\ ~Owns(ch)' /\ TypeOK'
      /\ (pc'[ch] \in {"new", "find"} => batch'[ch] = None)
      /\ (pc'[ch] \in {"put", "add"} => batch'[ch] # None)
      /\ pc'[ch] \in {"find", "put", "add", "done"}
  BY <1>1, WriterAside
<1>3. UNCHANGED <<nbrList, timer, scheduled, cancelled, run, topology, messages, late, mixed>>
  BY <1>2 DEF Aside, timers, runs, history
<1>4. \A d \in Changes : d = ch \/ (pc'[d] = pc[d] /\ batch'[d] = batch[d])
  BY <1>2 DEF Aside
<1>5. ch \notin scheduled /\ ~Busy(ch)
  BY <1>1, <1>2 DEF TimersHold, Busy
<1>6. WritersHold'
  BY <1>1, <1>2, <1>3, <1>4 DEF WritersHold
<1>7. TimersHold'
  BY <1>1, <1>3, <1>4, <1>5 DEF TimersHold, Added
<1>8. OneOwner'
  BY <1>1, <1>2, <1>4 DEF OneOwner, Owns
<1>9. InItsBatch'
  BY <1>1, <1>2, <1>3, <1>4, InItsBatchKept DEF AddedStays, Added, AddedNext
<1>10. ASSUME Separate PROVE Separate'
  <2>1. \A d \in Changes : /\ Busy(d)' <=> Busy(d)
                           /\ Owns(d)' <=> Owns(d)
                           /\ Busy(d) \/ d \in scheduled \/ Owns(d) => d # ch
    BY <1>2, <1>3, <1>4, <1>5 DEF Busy, Owns
  <2>2. LastIsActive'
    <3> SUFFICES ASSUME NEW tm \in Active'
                 PROVE  /\ timer'[batch'[tm]] = tm
                        /\ \A d \in Changes :
                             Owns(d)' /\ batch'[d] = batch'[tm] => pc'[d] = "cancel"
                        /\ nbrList'[batch'[tm]] = << >> =>
                             \E u \in Changes : Busy(u)' /\ batch'[u] = batch'[tm]
      BY DEF LastIsActive
    <3>1. tm \in Active /\ tm \in Changes /\ tm \in scheduled
      BY <1>1, <1>3 DEF Active, TypeOK
    <3>2. batch'[tm] = batch[tm]
      BY <2>1, <1>4, <3>1
    <3>3. /\ timer[batch[tm]] = tm
          /\ \A d \in Changes : Owns(d) /\ batch[d] = batch[tm] => pc[d] = "cancel"
          /\ (nbrList[batch[tm]] = << >> =>
                \E u \in Changes : Busy(u) /\ batch[u] = batch[tm])
      BY <1>10, <3>1 DEF Separate, LastIsActive
    <3>4. timer'[batch'[tm]] = tm
      BY <1>3, <3>2, <3>3
    <3>5. \A d \in Changes : Owns(d)' /\ batch'[d] = batch'[tm] => pc'[d] = "cancel"
      BY <2>1, <1>4, <3>2, <3>3
    <3>6. ASSUME nbrList'[batch'[tm]] = << >>
          PROVE  \E u \in Changes : Busy(u)' /\ batch'[u] = batch'[tm]
      <4>1. nbrList[batch[tm]] = << >>
        BY <1>3, <3>2, <3>6
      <4>2. PICK u \in Changes : Busy(u) /\ batch[u] = batch[tm]
        BY <3>3, <4>1, Zenon
      <4>3. Busy(u)' /\ batch'[u] = batch'[tm]
        BY <2>1, <1>4, <3>2, <4>2
      <4> QED
        BY <4>3
    <3> QED
      BY <3>4, <3>5, <3>6
  <2>3. OwnedIsFilled'
    BY <2>1, <1>3, <1>4, <1>10 DEF Separate, OwnedIsFilled
  <2>4. BusyAlone'
    BY <2>1, <1>3, <1>4, <1>10 DEF Separate, BusyAlone
  <2>5. WaitsUnsent'
    BY <2>1, <1>3, <1>4, <1>10 DEF Separate, WaitsUnsent, Busy
  <2> QED
    BY <2>2, <2>3, <2>4, <2>5 DEF Separate
<1>11. SentOnce' <=> SentOnce
  BY <1>3 DEF SentOnce
<1> QED
  BY <1>1, <1>2, <1>3, <1>6, <1>7, <1>8, <1>9, <1>10, <1>11 DEF Inv, Structure

-----------------------------------------------------------------------------
(* The writers.                                                            *)

\* Another element of a list, and what is added and moves: one change.
LEMMA AddNbrStructure ==
    ASSUME Structure, NEW ch \in Changes, AddNbr(ch)
    PROVE  /\ Structure' /\ batch[ch] \in Changes /\ pc[ch] = "add" /\ ~Added(ch)
           /\ UNCHANGED <<timer, timers, batch, runs, messages>>
           /\ pc'[ch] = IF timer[batch[ch]] = None THEN "timer" ELSE "cancel"
           /\ \A d \in Changes \ {ch} : pc'[d] = pc[d]
           /\ \A d \in Changes : Owns(d) => batch[d] # batch[ch]
           /\ nbrList'[batch[ch]] = Append(nbrList[batch[ch]], ch)
           /\ \A b \in Changes \ {batch[ch]} : nbrList'[b] = nbrList[b]
           /\ mixed' <=> mixed \/ \E u \in Changes : Busy(u) /\ batch[u] = batch[ch]
<1>1. TypeOK /\ WritersHold /\ TimersHold /\ OneOwner /\ InItsBatch
  BY DEF Structure
<1>2. batch[ch] \in Changes /\ pc[ch] = "add" /\ ~Added(ch)
  BY <1>1 DEF AddNbr, WritersHold, TypeOK, Added
<1>3. UNCHANGED <<isConfigTopoInitialized, serverCidNbrList, timer, timers, batch, runs, messages>>
  BY DEF AddNbr
<1>4. pc'[ch] = (IF timer[batch[ch]] = None THEN "timer" ELSE "cancel")
      /\ (\A d \in Changes \ {ch} : pc'[d] = pc[d])
      /\ pc' \in [Changes -> {"new", "find", "put", "add", "cancel", "timer", "schedule", "done"}]
  BY <1>1 DEF AddNbr, Goto, TypeOK
<1>5. nbrList'[batch[ch]] = Append(nbrList[batch[ch]], ch)
      /\ (\A b \in Changes \ {batch[ch]} : nbrList'[b] = nbrList[b])
      /\ nbrList' \in [Changes -> Seq(Changes)]
  <2>1. nbrList[batch[ch]] \in Seq(Changes)
    BY <1>1, <1>2 DEF TypeOK
  <2>2. Append(nbrList[batch[ch]], ch) \in Seq(Changes)
    BY <2>1, Appended
  <2>3. nbrList \in [Changes -> Seq(Changes)]
    BY <1>1 DEF TypeOK
  <2>4. nbrList' = [nbrList EXCEPT ![batch[ch]] = Append(nbrList[batch[ch]], ch)]
    BY DEF AddNbr
  <2> QED
    BY <1>2, <2>2, <2>3, <2>4
<1>6. \A d \in Changes : Owns(d) => batch[d] # batch[ch]
  BY DEF AddNbr, Inside, Owns
<1>7. mixed' <=> mixed \/ \E u \in Changes : Busy(u) /\ batch[u] = batch[ch]
  <2>1. AtWork(batch[ch]) # {} <=> \E u \in Changes : Busy(u) /\ batch[u] = batch[ch]
    BY DEF AtWork, At, Busy
  <2>2. mixed' = (mixed \/ AtWork(batch[ch]) # {})
    BY DEF AddNbr
  <2> QED
    BY <1>1, <2>1, <2>2 DEF TypeOK
<1>8. TypeOK'
  <2>1. late' \in SUBSET Changes
    BY <1>1 DEF AddNbr, TypeOK
  <2>2. mixed' \in BOOLEAN
    BY <1>1 DEF AddNbr, TypeOK
  <2> QED
    BY <1>1, <1>3, <1>4, <1>5, <2>1, <2>2 DEF TypeOK, timers, runs
<1>9. WritersHold'
  BY <1>1, <1>2, <1>3, <1>4 DEF WritersHold
<1>10. TimersHold'
  BY <1>1, <1>2, <1>3, <1>4 DEF TimersHold, Added, timers, runs
<1>11. OneOwner'
  BY <1>1, <1>2, <1>3, <1>4, <1>6 DEF OneOwner, Owns
<1>12. InItsBatch'
  <2>1. \A d \in Changes : Added(d) => AddedNext(d) /\ batch'[d] = batch[d]
    BY <1>2, <1>3, <1>4 DEF Added, AddedNext
  <2>2. AddedNext(ch) /\ batch'[ch] = batch[ch]
    BY <1>2, <1>3, <1>4 DEF Added, AddedNext
  <2>3. ASSUME NEW b \in Changes, NEW i \in 1 .. Len(nbrList'[b])
        PROVE  AddedNext(nbrList'[b][i]) /\ batch'[nbrList'[b][i]] = b
    <3>1. \A c \in Changes : \A k \in 1 .. Len(nbrList[c]) :
            nbrList[c][k] \in Changes /\ Added(nbrList[c][k]) /\ batch[nbrList[c][k]] = c
      BY <1>1, Elements DEF InItsBatch
    <3>2. CASE b = batch[ch]
      <4>1. nbrList[b] \in Seq(Changes) /\ nbrList'[b] = Append(nbrList[b], ch)
        BY <1>1, <1>5, <3>2 DEF TypeOK
      <4>2. i \in 1 .. Len(nbrList[b]) \/ i = Len(nbrList[b]) + 1
        BY <4>1, Appended
      <4>3. CASE i \in 1 .. Len(nbrList[b])
        <5>1. nbrList'[b][i] = nbrList[b][i]
          BY <4>1, <4>3, Appended
        <5>2. nbrList[b][i] \in Changes /\ Added(nbrList[b][i]) /\ batch[nbrList[b][i]] = b
          BY <3>1, <4>3
        <5> QED
          BY <2>1, <5>1, <5>2
      <4>4. CASE i = Len(nbrList[b]) + 1
        <5>1. nbrList'[b][i] = ch
          BY <4>1, <4>4, Appended
        <5> QED
          BY <2>2, <3>2, <5>1
      <4> QED
        BY <4>2, <4>3, <4>4
    <3>3. CASE b # batch[ch]
      <4>1. nbrList'[b] = nbrList[b]
        BY <1>5, <3>3
      <4>2. nbrList[b][i] \in Changes /\ Added(nbrList[b][i]) /\ batch[nbrList[b][i]] = b
        BY <3>1, <4>1
      <4> QED
        BY <2>1, <4>1, <4>2
    <3> QED
      BY <3>2, <3>3
  <2>4. topology' = topology /\ messages' = messages
    BY <1>3 DEF runs
  <2>5. \A tm \in Changes : \A k \in 1 .. Len(topology[tm]) : AddedNext(topology[tm][k])
    BY <1>1, <2>1, Elements DEF InItsBatch
  <2>6. \A i \in 1 .. Len(messages) : \A k \in 1 .. Len(messages[i]) : AddedNext(messages[i][k])
    BY <1>1, <2>1, Elements DEF InItsBatch
  <2> QED
    BY <2>3, <2>4, <2>5, <2>6 DEF InItsBatch, Added, AddedNext
<1> QED
  BY <1>2, <1>3, <1>4, <1>5, <1>6, <1>7, <1>8, <1>9, <1>10, <1>11, <1>12 DEF Structure

LEMMA AddNbrInv ==
    ASSUME Inv, NEW ch \in Changes, AddNbr(ch)
    PROVE  Inv'
<1>1. /\ Structure /\ TypeOK /\ WritersHold /\ InItsBatch
  BY DEF Inv, Structure
<1>2. /\ Structure' /\ batch[ch] \in Changes /\ pc[ch] = "add" /\ ~Added(ch)
      /\ UNCHANGED <<timer, scheduled, cancelled, batch, run, topology, messages>>
      /\ pc'[ch] = IF timer[batch[ch]] = None THEN "timer" ELSE "cancel"
      /\ \A d \in Changes \ {ch} : pc'[d] = pc[d]
      /\ \A d \in Changes : Owns(d) => batch[d] # batch[ch]
      /\ nbrList'[batch[ch]] = Append(nbrList[batch[ch]], ch)
      /\ \A b \in Changes \ {batch[ch]} : nbrList'[b] = nbrList[b]
      /\ mixed' <=> mixed \/ \E u \in Changes : Busy(u) /\ batch[u] = batch[ch]
  BY <1>1, AddNbrStructure DEF timers, runs
<1>3. SentOnce'
  <2>1. SentOnce
    BY DEF Inv
  <2>2. (mixed => mixed') /\ messages' = messages
    BY <1>2
  <2> QED
    BY <2>1, <2>2 DEF SentOnce
<1>4. ASSUME ~mixed' PROVE Separate'
  <2>1. /\ LastIsActive /\ OwnedIsFilled /\ BusyAlone /\ WaitsUnsent
        /\ \A u \in Changes : Busy(u) => batch[u] # batch[ch]
    BY <1>2, <1>4 DEF Inv, Separate
  <2>2. /\ \A d \in Changes : Busy(d)' <=> Busy(d)
        /\ \A d \in Changes : d # ch => (Owns(d)' <=> Owns(d))
        /\ \A d \in Changes : batch'[d] = batch[d]
        /\ \A tm \in Changes : tm \in Active' <=> tm \in Active
    BY <1>2 DEF Busy, Owns, Active
  <2>3. nbrList'[batch[ch]] # << >>
    <3>1. nbrList[batch[ch]] \in Seq(Changes)
      BY <1>1, <1>2 DEF TypeOK
    <3> QED
      BY <1>2, <3>1, Appended
  <2>4. LastIsActive'
    <3> SUFFICES ASSUME NEW tm \in Active'
                 PROVE  /\ timer'[batch'[tm]] = tm
                        /\ \A d \in Changes :
                             Owns(d)' /\ batch'[d] = batch'[tm] => pc'[d] = "cancel"
                        /\ nbrList'[batch'[tm]] = << >> =>
                             \E u \in Changes : Busy(u)' /\ batch'[u] = batch'[tm]
      BY DEF LastIsActive
    <3>1. tm \in Active /\ tm \in Changes /\ batch[tm] \in Changes \cup {None}
          /\ batch'[tm] = batch[tm]
      BY <1>1, <1>2 DEF Active, TypeOK
    <3>2. /\ timer[batch[tm]] = tm
          /\ \A d \in Changes : Owns(d) /\ batch[d] = batch[tm] => pc[d] = "cancel"
          /\ (nbrList[batch[tm]] = << >> =>
                \E u \in Changes : Busy(u) /\ batch[u] = batch[tm])
      BY <2>1, <3>1 DEF LastIsActive
    <3>3. timer'[batch'[tm]] = tm
      BY <1>2, <3>1, <3>2
    <3>4. \A d \in Changes : Owns(d)' /\ batch'[d] = batch'[tm] => pc'[d] = "cancel"
      <4> SUFFICES ASSUME NEW d \in Changes, Owns(d)', batch'[d] = batch'[tm]
                   PROVE  pc'[d] = "cancel"
        OBVIOUS
      <4>1. CASE d = ch
        BY <1>2, <2>2, <3>1, <3>2, <4>1
      <4>2. CASE d # ch
        BY <1>2, <2>2, <3>1, <3>2, <4>2
      <4> QED
        BY <4>1, <4>2
    <3>5. ASSUME nbrList'[batch'[tm]] = << >>
          PROVE  \E u \in Changes : Busy(u)' /\ batch'[u] = batch'[tm]
      <4>1. batch[tm] # batch[ch] /\ batch[tm] # None
        BY <1>1, <2>3, <3>1, <3>5 DEF Structure, TimersHold, Active, Added
      <4>2. nbrList[batch[tm]] = << >>
        BY <1>2, <3>1, <3>5, <4>1
      <4>3. PICK u \in Changes : Busy(u) /\ batch[u] = batch[tm]
        BY <3>2, <4>2
      <4>4. Busy(u)' /\ batch'[u] = batch'[tm]
        BY <2>2, <3>1, <4>3
      <4> QED
        BY <4>4
    <3> QED
      BY <3>3, <3>4, <3>5
  <2>5. \A d \in Changes : batch[d] # None => batch[d] \in Changes
    BY <1>1 DEF TypeOK
  <2>6. OwnedIsFilled'
    <3> SUFFICES ASSUME NEW d \in Changes, Owns(d)' PROVE nbrList'[batch'[d]] # << >>
      BY DEF OwnedIsFilled
    <3>1. CASE d = ch
      BY <2>2, <2>3, <3>1
    <3>2. CASE d # ch
      <4>1. Owns(d) /\ batch[d] # None
        BY <1>1, <2>2, <3>2 DEF WritersHold, Owns
      <4>2. nbrList[batch[d]] # << >> /\ batch[d] # batch[ch]
        BY <1>2, <2>1, <4>1 DEF OwnedIsFilled
      <4> QED
        BY <1>2, <2>2, <2>5, <4>1, <4>2
    <3> QED
      BY <3>1, <3>2
  <2>7. \A tm \in Changes : Busy(tm) =>
          batch[tm] \in Changes /\ batch[tm] # batch[ch] /\ nbrList'[batch[tm]] = nbrList[batch[tm]]
    <3>1. \A tm \in Changes : Busy(tm) => batch[tm] # None
      BY <1>1 DEF Structure, TimersHold, Busy, Added
    <3> QED
      BY <1>2, <2>1, <2>5, <3>1
  <2>8. BusyAlone'
    <3> SUFFICES ASSUME NEW tm \in Changes, Busy(tm)'
                 PROVE  /\ \A u \in Changes : batch'[u] = batch'[tm] =>
                             ~Owns(u)' /\ (Busy(u)' => u = tm)
                        /\ run'[tm] \in {"read", "send", "clear"} =>
                             topology'[tm] = nbrList'[batch'[tm]]
                        /\ run'[tm] \in {"read", "send"} => nbrList'[batch'[tm]] # << >>
      BY DEF BusyAlone
    <3>1. Busy(tm) /\ batch[tm] # batch[ch] /\ nbrList'[batch[tm]] = nbrList[batch[tm]]
      BY <2>2, <2>7
    <3>2. /\ \A u \in Changes : batch[u] = batch[tm] => ~Owns(u) /\ (Busy(u) => u = tm)
          /\ run[tm] \in {"read", "send", "clear"} => topology[tm] = nbrList[batch[tm]]
          /\ run[tm] \in {"read", "send"} => nbrList[batch[tm]] # << >>
      BY <2>1, <3>1 DEF BusyAlone
    <3>3. \A u \in Changes : batch'[u] = batch'[tm] => ~Owns(u)' /\ (Busy(u)' => u = tm)
      BY <2>2, <3>1, <3>2
    <3> QED
      BY <1>2, <2>2, <3>1, <3>2, <3>3
  <2>9. WaitsUnsent'
    <3> SUFFICES ASSUME NEW b \in Changes,
                        ~ \E tm \in Changes : run'[tm] = "clear" /\ batch'[tm] = b,
                        NEW i \in 1 .. Len(messages'), NEW k \in 1 .. Len(nbrList'[b])
                 PROVE  ~Contains(messages'[i], nbrList'[b][k])
      BY DEF WaitsUnsent
    <3>1. messages' = messages /\ i \in 1 .. Len(messages) /\ messages[i] \in Seq(Changes)
      BY <1>1, <1>2, Elements
    <3>2. \A q \in 1 .. Len(nbrList[b]) : ~Contains(messages[i], nbrList[b][q])
      BY <1>2, <2>1, <3>1 DEF WaitsUnsent
    <3>3. CASE b # batch[ch]
      BY <1>2, <3>1, <3>2, <3>3
    <3>4. CASE b = batch[ch]
      <4>1. nbrList[b] \in Seq(Changes) /\ nbrList'[b] = Append(nbrList[b], ch)
        BY <1>1, <1>2, <3>4 DEF TypeOK
      <4>2. k \in 1 .. Len(nbrList[b]) \/ k = Len(nbrList[b]) + 1
        BY <4>1, Appended
      <4>3. CASE k \in 1 .. Len(nbrList[b])
        <5>1. nbrList'[b][k] = nbrList[b][k]
          BY <4>1, <4>3, Appended
        <5> QED
          BY <3>1, <3>2, <4>3, <5>1
      <4>4. CASE k = Len(nbrList[b]) + 1
        <5>1. nbrList'[b][k] = ch
          BY <4>1, <4>4, Appended
        <5>2. ~Contains(messages[i], ch)
          <6>1. \A q \in 1 .. Len(messages[i]) : Added(messages[i][q])
            BY <1>1, <3>1 DEF InItsBatch
          <6>2. \A q \in 1 .. Len(messages[i]) : messages[i][q] # ch
            BY <1>2, <6>1
          <6> QED
            BY <3>1, <6>2, ContainsAt
        <5> QED
          BY <3>1, <5>1, <5>2
      <4> QED
        BY <4>2, <4>3, <4>4
    <3> QED
      BY <3>3, <3>4
  <2> QED
    BY <2>4, <2>6, <2>8, <2>9 DEF Separate
<1> QED
  BY <1>2, <1>3, <1>4 DEF Inv

\* The steps of a writer or a timer that leave the lists, the batches and the
\* messages alone.
Still == UNCHANGED <<serverCidNbrList, isConfigTopoInitialized, nbrList, batch, topology,
                     messages, history>>

LEMMA CancelTimerInv ==
    ASSUME Inv, NEW ch \in Changes, CancelTimer(ch)
    PROVE  Inv'
<1>1. /\ Structure /\ TypeOK /\ WritersHold /\ TimersHold /\ OneOwner /\ InItsBatch /\ SentOnce
  BY DEF Inv, Structure
<1>2. /\ pc[ch] = "cancel" /\ batch[ch] \in Changes /\ timer[batch[ch]] \in Changes
  BY <1>1 DEF CancelTimer, WritersHold, TypeOK
<1>3. /\ Still
      /\ UNCHANGED <<scheduled, timer, run, late, mixed>>
      /\ cancelled' = cancelled \cup {timer[batch[ch]]}
  BY DEF CancelTimer, Still, batches, runs, history
<1>4. /\ pc' \in [Changes -> {"new", "find", "put", "add", "cancel", "timer", "schedule", "done"}]
      /\ pc'[ch] = "timer"
      /\ \A d \in Changes \ {ch} : pc'[d] = pc[d]
  BY <1>1 DEF CancelTimer, Goto, TypeOK
<1>5. TypeOK'
  BY <1>1, <1>2, <1>3, <1>4 DEF TypeOK, Still
<1>6. WritersHold'
  BY <1>1, <1>2, <1>3, <1>4 DEF WritersHold, Still
<1>7. TimersHold'
  BY <1>1, <1>2, <1>3, <1>4 DEF TimersHold, Added, Still
<1>8. OneOwner'
  BY <1>1, <1>2, <1>3, <1>4 DEF OneOwner, Owns, Still
<1>9. InItsBatch'
  BY <1>1, <1>2, <1>3, <1>4, InItsBatchKept DEF AddedStays, Added, AddedNext, Still
<1>10. SentOnce'
  BY <1>1, <1>3 DEF SentOnce, Still
<1>11. ASSUME ~mixed' PROVE Separate'
  <2>1. LastIsActive /\ OwnedIsFilled /\ BusyAlone /\ WaitsUnsent
    BY <1>3, <1>11 DEF Inv, Separate
  <2>2. /\ \A d \in Changes : Busy(d)' <=> Busy(d)
        /\ \A d \in Changes : Owns(d)' <=> Owns(d)
        /\ batch' = batch /\ nbrList' = nbrList /\ messages' = messages /\ topology' = topology
    BY <1>2, <1>3, <1>4 DEF Busy, Owns, Still
  <2>3. Active' = Active \ {timer[batch[ch]]}
    BY <1>3 DEF Active
  <2>4. \A tm \in Active' : batch[tm] # batch[ch]
    BY <2>1, <2>3 DEF LastIsActive
  <2>5. LastIsActive'
    BY <1>3, <1>4, <2>1, <2>2, <2>3, <2>4 DEF LastIsActive
  <2>6. OwnedIsFilled'
    BY <2>1, <2>2 DEF OwnedIsFilled
  <2>7. BusyAlone'
    BY <1>3, <2>1, <2>2 DEF BusyAlone
  <2>8. WaitsUnsent'
    BY <1>3, <2>1, <2>2 DEF WaitsUnsent
  <2> QED
    BY <2>5, <2>6, <2>7, <2>8 DEF Separate
<1> QED
  BY <1>5, <1>6, <1>7, <1>8, <1>9, <1>10, <1>11 DEF Inv, Structure

LEMMA NewTimerInv ==
    ASSUME Inv, NEW ch \in Changes, NewTimer(ch)
    PROVE  Inv'
<1>1. /\ Structure /\ TypeOK /\ WritersHold /\ TimersHold /\ OneOwner /\ InItsBatch /\ SentOnce
  BY DEF Inv, Structure
<1>2. /\ pc[ch] = "timer" /\ batch[ch] \in Changes
  BY <1>1 DEF NewTimer, WritersHold, TypeOK
<1>3. /\ Still
      /\ UNCHANGED <<scheduled, cancelled, run, late, mixed>>
  BY DEF NewTimer, Still, timers, runs, history
<1>4. /\ pc' \in [Changes -> {"new", "find", "put", "add", "cancel", "timer", "schedule", "done"}]
      /\ pc'[ch] = "schedule"
      /\ \A d \in Changes \ {ch} : pc'[d] = pc[d]
  BY <1>1 DEF NewTimer, Goto, TypeOK
<1>5. /\ timer' \in [Changes -> Changes \cup {None}]
      /\ timer'[batch[ch]] = ch
      /\ \A b \in Changes \ {batch[ch]} : timer'[b] = timer[b]
  BY <1>1, <1>2 DEF NewTimer, TypeOK
<1>6. TypeOK'
  BY <1>1, <1>3, <1>4, <1>5 DEF TypeOK, Still
<1>7. WritersHold'
  <2> SUFFICES ASSUME NEW d \in Changes
               PROVE  /\ pc'[d] \in {"new", "find"} => batch'[d] = None
                      /\ pc'[d] \in {"put", "add", "cancel", "timer", "schedule"}
                           => batch'[d] # None
                      /\ pc'[d] = "cancel" => timer'[batch'[d]] # None
                      /\ pc'[d] = "schedule" => timer'[batch'[d]] = d
    BY DEF WritersHold
  <2>1. batch'[d] = batch[d] /\ batch[d] \in Changes \cup {None}
    BY <1>1, <1>3 DEF Still, TypeOK
  <2>2. CASE d = ch
    BY <1>2, <1>4, <1>5, <2>1, <2>2
  <2>3. CASE d # ch
    <3>1. /\ pc'[d] = pc[d]
          /\ pc[d] \in {"new", "find"} => batch[d] = None
          /\ pc[d] \in {"put", "add", "cancel", "timer", "schedule"} => batch[d] # None
          /\ pc[d] = "cancel" => timer[batch[d]] # None
          /\ pc[d] = "schedule" => timer[batch[d]] = d
      BY <1>1, <1>4, <2>3 DEF WritersHold
    <3>2. ~(Owns(d) /\ batch[d] = batch[ch])
      BY <1>1, <1>2, <2>3 DEF OneOwner, Owns
    <3> QED
      BY <1>5, <2>1, <3>1, <3>2 DEF Owns
  <2> QED
    BY <2>2, <2>3
<1>8. TimersHold'
  <2>1. \A b \in Changes : timer[b] # None => timer'[b] # None
    BY <1>5
  <2>2. \A d \in Changes : Added(d) => batch[d] \in Changes
    BY <1>1 DEF Added, TypeOK
  <2> QED
    BY <1>1, <1>2, <1>3, <1>4, <2>1, <2>2 DEF TimersHold, Added, Still
<1>9. OneOwner'
  BY <1>1, <1>2, <1>3, <1>4 DEF OneOwner, Owns, Still
<1>10. InItsBatch'
  BY <1>1, <1>2, <1>3, <1>4, InItsBatchKept DEF AddedStays, Added, AddedNext, Still
<1>11. SentOnce'
  BY <1>1, <1>3 DEF SentOnce, Still
<1>12. ASSUME ~mixed' PROVE Separate'
  <2>1. LastIsActive /\ OwnedIsFilled /\ BusyAlone /\ WaitsUnsent
    BY <1>3, <1>12 DEF Inv, Separate
  <2>2. /\ \A d \in Changes : Busy(d)' <=> Busy(d)
        /\ \A d \in Changes : Owns(d)' <=> Owns(d)
        /\ batch' = batch /\ nbrList' = nbrList /\ messages' = messages /\ topology' = topology
        /\ Active' = Active
    BY <1>2, <1>3, <1>4 DEF Busy, Owns, Still, Active
  <2>3. \A tm \in Active : tm \in Changes /\ batch[tm] \in Changes /\ batch[tm] # batch[ch]
    <3>1. Owns(ch) /\ pc[ch] # "cancel"
      BY <1>2 DEF Owns
    <3>2. \A tm \in Active : tm \in Changes /\ Added(tm)
      BY <1>1 DEF TimersHold, Active, TypeOK
    <3> QED
      BY <1>1, <2>1, <3>1, <3>2 DEF LastIsActive, Added, TypeOK
  <2>4. \A tm \in Active : timer'[batch[tm]] = timer[batch[tm]]
    BY <1>5, <2>3
  <2>5. LastIsActive'
    BY <1>4, <2>1, <2>2, <2>3, <2>4 DEF LastIsActive
  <2>6. OwnedIsFilled'
    BY <2>1, <2>2 DEF OwnedIsFilled
  <2>7. BusyAlone'
    BY <1>3, <2>1, <2>2 DEF BusyAlone
  <2>8. WaitsUnsent'
    BY <1>3, <2>1, <2>2 DEF WaitsUnsent
  <2> QED
    BY <2>5, <2>6, <2>7, <2>8 DEF Separate
<1> QED
  BY <1>6, <1>7, <1>8, <1>9, <1>10, <1>11, <1>12 DEF Inv, Structure

LEMMA ScheduleInv ==
    ASSUME Inv, NEW ch \in Changes, Schedule(ch)
    PROVE  Inv'
<1>1. /\ Structure /\ TypeOK /\ WritersHold /\ TimersHold /\ OneOwner /\ InItsBatch /\ SentOnce
  BY DEF Inv, Structure
<1>2. /\ pc[ch] = "schedule" /\ batch[ch] \in Changes /\ timer[batch[ch]] = ch
      /\ Owns(ch) /\ ch \notin scheduled /\ ~Busy(ch)
  BY <1>1 DEF Schedule, WritersHold, TypeOK, Owns, TimersHold, Busy
<1>3. /\ Still
      /\ UNCHANGED <<timer, cancelled, run, late, mixed>>
      /\ scheduled' \in {scheduled, scheduled \cup {ch}}
  BY DEF Schedule, Still, batches, runs, history
<1>4. /\ pc' \in [Changes -> {"new", "find", "put", "add", "cancel", "timer", "schedule", "done"}]
      /\ pc'[ch] = "done"
      /\ \A d \in Changes \ {ch} : pc'[d] = pc[d]
  BY <1>1 DEF Schedule, Goto, TypeOK
<1>5. TypeOK'
  BY <1>1, <1>3, <1>4 DEF TypeOK, Still
<1>6. WritersHold'
  BY <1>1, <1>2, <1>3, <1>4 DEF WritersHold, Still
<1>7. TimersHold'
  BY <1>1, <1>2, <1>3, <1>4 DEF TimersHold, Added, Still
<1>8. OneOwner'
  BY <1>1, <1>2, <1>3, <1>4 DEF OneOwner, Owns, Still
<1>9. InItsBatch'
  BY <1>1, <1>2, <1>3, <1>4, InItsBatchKept DEF AddedStays, Added, AddedNext, Still
<1>10. SentOnce'
  BY <1>1, <1>3 DEF SentOnce, Still
<1>11. ASSUME ~mixed' PROVE Separate'
  <2>1. LastIsActive /\ OwnedIsFilled /\ BusyAlone /\ WaitsUnsent
    BY <1>3, <1>11 DEF Inv, Separate
  <2>2. /\ \A d \in Changes : Busy(d)' <=> Busy(d)
        /\ \A d \in Changes : Owns(d)' <=> Owns(d) /\ d # ch
        /\ batch' = batch /\ nbrList' = nbrList /\ messages' = messages /\ topology' = topology
        /\ timer' = timer
        /\ Active' \subseteq Active \cup {ch}
    BY <1>2, <1>3, <1>4 DEF Busy, Owns, Still, Active
  <2>3. /\ nbrList[batch[ch]] # << >>
        /\ \A d \in Changes : Owns(d)' => batch[d] # batch[ch]
    BY <1>1, <1>2, <2>1, <2>2 DEF OwnedIsFilled, OneOwner
  <2>4. LastIsActive'
    <3> SUFFICES ASSUME NEW tm \in Active'
                 PROVE  /\ timer[batch[tm]] = tm
                        /\ \A d \in Changes :
                             Owns(d)' /\ batch[d] = batch[tm] => pc'[d] = "cancel"
                        /\ nbrList[batch[tm]] = << >> =>
                             \E u \in Changes : Busy(u)' /\ batch[u] = batch[tm]
      BY <2>2 DEF LastIsActive
    <3>1. CASE tm = ch
      BY <1>2, <2>3, <3>1
    <3>2. CASE tm # ch
      <4>1. tm \in Active
        BY <2>2, <3>2
      <4> QED
        BY <1>4, <2>1, <2>2, <4>1 DEF LastIsActive
    <3> QED
      BY <3>1, <3>2
  <2>5. OwnedIsFilled'
    BY <2>1, <2>2 DEF OwnedIsFilled
  <2>6. BusyAlone'
    BY <1>3, <2>1, <2>2 DEF BusyAlone
  <2>7. WaitsUnsent'
    BY <1>3, <2>1, <2>2 DEF WaitsUnsent
  <2> QED
    BY <2>4, <2>5, <2>6, <2>7 DEF Separate
<1> QED
  BY <1>5, <1>6, <1>7, <1>8, <1>9, <1>10, <1>11 DEF Inv, Structure

-----------------------------------------------------------------------------
(* The threads of the timers.                                              *)

RunLabels == {"idle", "read", "send", "clear", "cancel", "dead"}

LEMMA FireInv ==
    ASSUME Inv, NEW tm \in Changes, Fire(tm)
    PROVE  Inv'
<1>1. /\ Structure /\ TypeOK /\ WritersHold /\ TimersHold /\ OneOwner /\ InItsBatch /\ SentOnce
  BY DEF Inv, Structure
<1>2. /\ tm \in Active /\ tm \in scheduled /\ run[tm] = "idle" /\ ~Busy(tm)
      /\ batch[tm] \in Changes /\ nbrList[batch[tm]] \in Seq(Changes)
  BY <1>1 DEF Fire, Active, Busy, TimersHold, Added, TypeOK
<1>3. UNCHANGED <<isConfigTopoInitialized, serverCidNbrList, nbrList, timer, scheduled, cancelled,
                  pc, batch, messages, late>>
  BY DEF Fire, batches, timers, writers
<1>4. /\ run' \in [Changes -> RunLabels] /\ run'[tm] = "read"
      /\ \A u \in Changes \ {tm} : run'[u] = run[u]
  BY <1>1 DEF Fire, RunTo, TypeOK, RunLabels
<1>5. /\ topology' \in [Changes -> Seq(Changes)] /\ topology'[tm] = nbrList[batch[tm]]
      /\ \A u \in Changes \ {tm} : topology'[u] = topology[u]
  BY <1>1, <1>2 DEF Fire, TypeOK
<1>6. /\ mixed' \in BOOLEAN /\ (mixed => mixed')
      /\ ~mixed' => \A u \in Changes : batch[u] = batch[tm] => ~Owns(u) /\ ~Busy(u)
  <2>1. mixed' = (mixed \/ Inside(batch[tm]) # {} \/ AtWork(batch[tm]) # {}) /\ mixed \in BOOLEAN
    BY <1>1 DEF Fire, TypeOK
  <2>2. \A u \in Changes : batch[u] = batch[tm] =>
          (Owns(u) => u \in Inside(batch[tm])) /\ (Busy(u) => u \in AtWork(batch[tm]))
    BY DEF Inside, Owns, AtWork, At, Busy
  <2> QED
    BY <2>1, <2>2
<1>7. TypeOK'
  BY <1>1, <1>3, <1>4, <1>5, <1>6 DEF TypeOK, RunLabels
<1>8. WritersHold' /\ OneOwner'
  BY <1>1, <1>3 DEF WritersHold, OneOwner, Owns
<1>9. TimersHold'
  BY <1>1, <1>2, <1>3, <1>4 DEF TimersHold, Added
<1>10. InItsBatch'
  <2>1. \A d \in Changes : (Added(d) <=> AddedNext(d)) /\ batch'[d] = batch[d]
    BY <1>3 DEF Added, AddedNext
  <2>2. \A b \in Changes : \A i \in 1 .. Len(nbrList[b]) :
          AddedNext(nbrList[b][i]) /\ batch'[nbrList[b][i]] = b
    BY <1>1, <2>1, Elements DEF InItsBatch
  <2>3. \A u \in Changes : \A k \in 1 .. Len(topology'[u]) : AddedNext(topology'[u][k])
    <3> SUFFICES ASSUME NEW u \in Changes, NEW k \in 1 .. Len(topology'[u])
                 PROVE  AddedNext(topology'[u][k])
      OBVIOUS
    <3>1. CASE u = tm
      BY <1>2, <1>5, <2>2, <3>1
    <3>2. CASE u # tm
      <4>1. topology'[u] = topology[u]
        BY <1>5, <3>2
      <4>2. topology[u][k] \in Changes /\ Added(topology[u][k])
        BY <1>1, <4>1, Elements DEF InItsBatch
      <4> QED
        BY <2>1, <4>1, <4>2
    <3> QED
      BY <3>1, <3>2
  <2>4. \A i \in 1 .. Len(messages) : \A k \in 1 .. Len(messages[i]) : AddedNext(messages[i][k])
    BY <1>1, <2>1, Elements DEF InItsBatch
  <2> QED
    BY <1>3, <2>2, <2>3, <2>4 DEF InItsBatch, Added, AddedNext
<1>11. SentOnce'
  BY <1>1, <1>3, <1>6 DEF SentOnce
<1>12. ASSUME ~mixed' PROVE Separate'
  <2>1. /\ LastIsActive /\ OwnedIsFilled /\ BusyAlone /\ WaitsUnsent
        /\ \A u \in Changes : batch[u] = batch[tm] => ~Owns(u) /\ ~Busy(u)
    BY <1>6, <1>12 DEF Inv, Separate
  <2>2. /\ \A d \in Changes : Busy(d)' <=> Busy(d) \/ d = tm
        /\ \A d \in Changes : Owns(d)' <=> Owns(d)
        /\ batch' = batch /\ nbrList' = nbrList /\ messages' = messages /\ timer' = timer
        /\ pc' = pc /\ Active' = Active
    BY <1>3, <1>4 DEF Busy, Owns, Active
  <2>3. nbrList[batch[tm]] # << >>
    BY <1>2, <2>1 DEF LastIsActive
  <2>4. LastIsActive'
    BY <2>1, <2>2 DEF LastIsActive
  <2>5. OwnedIsFilled'
    BY <2>1, <2>2 DEF OwnedIsFilled
  <2>6. BusyAlone'
    <3> SUFFICES ASSUME NEW u \in Changes, Busy(u)'
                 PROVE  /\ \A v \in Changes : batch[v] = batch[u] =>
                             ~Owns(v)' /\ (Busy(v)' => v = u)
                        /\ run'[u] \in {"read", "send", "clear"} =>
                             topology'[u] = nbrList[batch[u]]
                        /\ run'[u] \in {"read", "send"} => nbrList[batch[u]] # << >>
      BY <2>2 DEF BusyAlone
    <3>1. CASE u = tm
      BY <1>4, <1>5, <2>1, <2>2, <2>3, <3>1
    <3>2. CASE u # tm
      BY <1>4, <1>5, <2>1, <2>2, <3>2 DEF BusyAlone
    <3> QED
      BY <3>1, <3>2
  <2>7. \A u \in Changes : run[u] = "clear" => run'[u] = "clear"
    BY <1>2, <1>4
  <2>8. WaitsUnsent'
    BY <2>1, <2>2, <2>7 DEF WaitsUnsent
  <2> QED
    BY <2>4, <2>5, <2>6, <2>8 DEF Separate
<1> QED
  BY <1>7, <1>8, <1>9, <1>10, <1>11, <1>12 DEF Inv, Structure

LEMMA ReadListInv ==
    ASSUME Inv, NEW tm \in Changes, ReadList(tm)
    PROVE  Inv'
<1>1. /\ Structure /\ TypeOK /\ WritersHold /\ TimersHold /\ OneOwner /\ InItsBatch /\ SentOnce
  BY DEF Inv, Structure
<1>2. /\ run[tm] = "read" /\ Busy(tm) /\ tm \in scheduled
  BY <1>1 DEF ReadList, Busy, TimersHold
<1>3. UNCHANGED <<isConfigTopoInitialized, serverCidNbrList, nbrList, timer, scheduled, cancelled,
                  pc, batch, topology, messages, late, mixed>>
  BY DEF ReadList, batches, timers, writers, history
<1>4. /\ run' \in [Changes -> RunLabels]
      /\ run'[tm] = IF nbrList[batch[tm]] = topology[tm] THEN "send" ELSE "dead"
      /\ \A u \in Changes \ {tm} : run'[u] = run[u]
  BY <1>1 DEF ReadList, RunTo, TypeOK, RunLabels
<1>5. TypeOK'
  BY <1>1, <1>3, <1>4 DEF TypeOK, RunLabels
<1>6. WritersHold' /\ OneOwner'
  BY <1>1, <1>3 DEF WritersHold, OneOwner, Owns
<1>7. TimersHold'
  BY <1>1, <1>2, <1>3, <1>4 DEF TimersHold, Added
<1>8. InItsBatch'
  BY <1>1, <1>3, InItsBatchKept DEF AddedStays, Added, AddedNext
<1>9. SentOnce'
  BY <1>1, <1>3 DEF SentOnce
<1>10. ASSUME ~mixed' PROVE Separate'
  <2>1. LastIsActive /\ OwnedIsFilled /\ BusyAlone /\ WaitsUnsent
    BY <1>3, <1>10 DEF Inv, Separate
  <2>2. run'[tm] = "send"
    BY <1>2, <1>4, <2>1 DEF BusyAlone
  <2>3. /\ \A d \in Changes : Busy(d)' <=> Busy(d)
        /\ \A d \in Changes : Owns(d)' <=> Owns(d)
        /\ \A d \in Changes : run'[d] = "clear" <=> run[d] = "clear"
        /\ batch' = batch /\ nbrList' = nbrList /\ messages' = messages /\ timer' = timer
        /\ pc' = pc /\ Active' = Active /\ topology' = topology
    BY <1>2, <1>3, <1>4, <2>2 DEF Busy, Owns, Active
  <2>4. LastIsActive'
    BY <2>1, <2>3 DEF LastIsActive
  <2>5. OwnedIsFilled'
    BY <2>1, <2>3 DEF OwnedIsFilled
  <2>6. BusyAlone'
    BY <1>2, <1>4, <2>1, <2>3 DEF BusyAlone
  <2>7. WaitsUnsent'
    BY <2>1, <2>3 DEF WaitsUnsent
  <2> QED
    BY <2>4, <2>5, <2>6, <2>7 DEF Separate
<1> QED
  BY <1>5, <1>6, <1>7, <1>8, <1>9, <1>10 DEF Inv, Structure

LEMMA CancelLastInv ==
    ASSUME Inv, NEW tm \in Changes, CancelLast(tm)
    PROVE  Inv'
<1>1. /\ Structure /\ TypeOK /\ WritersHold /\ TimersHold /\ OneOwner /\ InItsBatch /\ SentOnce
  BY DEF Inv, Structure
<1>2. /\ run[tm] = "cancel" /\ Busy(tm) /\ tm \in scheduled
      /\ batch[tm] \in Changes /\ timer[batch[tm]] \in Changes
  BY <1>1 DEF CancelLast, Busy, TimersHold, Added, TypeOK
<1>3. /\ UNCHANGED <<isConfigTopoInitialized, serverCidNbrList, nbrList, timer, scheduled,
                     pc, batch, topology, messages, late, mixed>>
      /\ cancelled' = cancelled \cup {timer[batch[tm]]}
  BY DEF CancelLast, batches, writers, history
<1>4. /\ run' \in [Changes -> RunLabels] /\ run'[tm] = "idle"
      /\ \A u \in Changes \ {tm} : run'[u] = run[u]
  BY <1>1 DEF CancelLast, RunTo, TypeOK, RunLabels
<1>5. TypeOK'
  BY <1>1, <1>2, <1>3, <1>4 DEF TypeOK, RunLabels
<1>6. WritersHold' /\ OneOwner'
  BY <1>1, <1>3 DEF WritersHold, OneOwner, Owns
<1>7. TimersHold'
  BY <1>1, <1>2, <1>3, <1>4 DEF TimersHold, Added
<1>8. InItsBatch'
  BY <1>1, <1>3, InItsBatchKept DEF AddedStays, Added, AddedNext
<1>9. SentOnce'
  BY <1>1, <1>3 DEF SentOnce
<1>10. ASSUME ~mixed' PROVE Separate'
  <2>1. LastIsActive /\ OwnedIsFilled /\ BusyAlone /\ WaitsUnsent
    BY <1>3, <1>10 DEF Inv, Separate
  <2>2. /\ \A d \in Changes : Busy(d)' <=> Busy(d) /\ d # tm
        /\ \A d \in Changes : Owns(d)' <=> Owns(d)
        /\ \A d \in Changes : run'[d] = "clear" <=> run[d] = "clear"
        /\ batch' = batch /\ nbrList' = nbrList /\ messages' = messages /\ timer' = timer
        /\ pc' = pc /\ topology' = topology
        /\ Active' = Active \ {timer[batch[tm]]}
    BY <1>2, <1>3, <1>4 DEF Busy, Owns, Active
  <2>3. \A u \in Active' : u \in Active /\ batch[u] # batch[tm]
    BY <2>1, <2>2 DEF LastIsActive
  <2>4. LastIsActive'
    BY <2>1, <2>2, <2>3 DEF LastIsActive
  <2>5. OwnedIsFilled'
    BY <2>1, <2>2 DEF OwnedIsFilled
  <2>6. BusyAlone'
    BY <1>4, <2>1, <2>2 DEF BusyAlone
  <2>7. WaitsUnsent'
    BY <2>1, <2>2 DEF WaitsUnsent
  <2> QED
    BY <2>4, <2>5, <2>6, <2>7 DEF Separate
<1> QED
  BY <1>5, <1>6, <1>7, <1>8, <1>9, <1>10 DEF Inv, Structure

LEMMA SendTopologyInv ==
    ASSUME Inv, NEW tm \in Changes, SendTopology(tm)
    PROVE  Inv'
<1>1. /\ Structure /\ TypeOK /\ WritersHold /\ TimersHold /\ OneOwner /\ InItsBatch /\ SentOnce
  BY DEF Inv, Structure
<1>2. /\ run[tm] = "send" /\ Busy(tm) /\ tm \in scheduled /\ batch[tm] \in Changes
      /\ topology[tm] \in Seq(Changes) /\ messages \in Seq(Seq(Changes)) /\ Len(messages) \in Nat
  BY <1>1 DEF SendTopology, Busy, TimersHold, Added, TypeOK
<1>3. UNCHANGED <<isConfigTopoInitialized, serverCidNbrList, nbrList, timer, scheduled, cancelled,
                  pc, batch, topology, late, mixed>>
  BY DEF SendTopology, batches, timers, writers, history
<1>4. /\ run' \in [Changes -> RunLabels] /\ run'[tm] = "clear"
      /\ \A u \in Changes \ {tm} : run'[u] = run[u]
  BY <1>1 DEF SendTopology, RunTo, TypeOK, RunLabels
<1>5. /\ messages' \in Seq(Seq(Changes)) /\ Len(messages') = Len(messages) + 1
      /\ messages'[Len(messages) + 1] = topology[tm]
      /\ \A i \in 1 .. Len(messages) : messages'[i] = messages[i]
      /\ \A i \in 1 .. Len(messages') : i \in 1 .. Len(messages) \/ i = Len(messages) + 1
  <2>1. messages' = Append(messages, topology[tm])
    BY DEF SendTopology
  <2> QED
    BY <1>2, <2>1, Appended
<1>6. TypeOK'
  BY <1>1, <1>3, <1>4, <1>5 DEF TypeOK, RunLabels
<1>7. WritersHold' /\ OneOwner'
  BY <1>1, <1>3 DEF WritersHold, OneOwner, Owns
<1>8. TimersHold'
  BY <1>1, <1>2, <1>3, <1>4 DEF TimersHold, Added
<1>9. InItsBatch'
  <2>1. \A d \in Changes : (Added(d) <=> AddedNext(d)) /\ batch'[d] = batch[d]
    BY <1>3 DEF Added, AddedNext
  <2>2. \A b \in Changes : \A i \in 1 .. Len(nbrList[b]) :
          AddedNext(nbrList[b][i]) /\ batch'[nbrList[b][i]] = b
    BY <1>1, <2>1, Elements DEF InItsBatch
  <2>3. \A u \in Changes : \A k \in 1 .. Len(topology[u]) : AddedNext(topology[u][k])
    BY <1>1, <2>1, Elements DEF InItsBatch
  <2>4. \A i \in 1 .. Len(messages) : \A k \in 1 .. Len(messages[i]) : AddedNext(messages[i][k])
    BY <1>1, <2>1, Elements DEF InItsBatch
  <2>5. \A i \in 1 .. Len(messages') : \A k \in 1 .. Len(messages'[i]) : AddedNext(messages'[i][k])
    BY <1>5, <2>3, <2>4
  <2> QED
    BY <1>3, <2>2, <2>3, <2>5 DEF InItsBatch, Added, AddedNext
<1>10. ASSUME ~mixed' PROVE Separate' /\ SentOnce'
  <2>1. LastIsActive /\ OwnedIsFilled /\ BusyAlone /\ WaitsUnsent /\ ~mixed
    BY <1>3, <1>10 DEF Inv, Separate
  <2>2. /\ \A d \in Changes : Busy(d)' <=> Busy(d)
        /\ \A d \in Changes : Owns(d)' <=> Owns(d)
        /\ \A d \in Changes : run'[d] = "clear" <=> run[d] = "clear" \/ d = tm
        /\ batch' = batch /\ nbrList' = nbrList /\ timer' = timer
        /\ pc' = pc /\ topology' = topology /\ Active' = Active
    BY <1>2, <1>3, <1>4 DEF Busy, Owns, Active
  <2>3. topology[tm] = nbrList[batch[tm]] /\ topology[tm] # << >>
    BY <1>2, <2>1 DEF BusyAlone
  <2>4. LastIsActive'
    BY <2>1, <2>2 DEF LastIsActive
  <2>5. OwnedIsFilled'
    BY <2>1, <2>2 DEF OwnedIsFilled
  <2>6. BusyAlone'
    BY <1>2, <1>4, <2>1, <2>2 DEF BusyAlone
  <2>7. WaitsUnsent'
    <3> SUFFICES ASSUME NEW b \in Changes,
                        ~ \E u \in Changes : run'[u] = "clear" /\ batch[u] = b,
                        NEW i \in 1 .. Len(messages'), NEW k \in 1 .. Len(nbrList[b])
                 PROVE  ~Contains(messages'[i], nbrList[b][k])
      BY <2>2 DEF WaitsUnsent
    <3>1. b # batch[tm]
      BY <1>4
    <3>2. CASE i \in 1 .. Len(messages)
      BY <1>5, <2>1, <2>2, <3>2 DEF WaitsUnsent
    <3>3. CASE i = Len(messages) + 1
      <4>1. \A q \in 1 .. Len(topology[tm]) : batch[topology[tm][q]] = batch[tm]
        BY <1>1, <1>2, <2>3 DEF InItsBatch
      <4>2. batch[nbrList[b][k]] = b
        BY <1>1 DEF InItsBatch
      <4>3. \A q \in 1 .. Len(topology[tm]) : topology[tm][q] # nbrList[b][k]
        BY <3>1, <4>1, <4>2
      <4>4. ~Contains(topology[tm], nbrList[b][k])
        BY <1>2, <4>3, ContainsAt
      <4> QED
        BY <1>5, <3>3, <4>4
    <3> QED
      BY <1>5, <3>2, <3>3
  <2>8. \A i \in 1 .. Len(messages) : \A k \in 1 .. Len(topology[tm]) :
          ~Contains(messages[i], topology[tm][k])
    <3>1. ~ \E u \in Changes : run[u] = "clear" /\ batch[u] = batch[tm]
      BY <1>2, <2>1 DEF BusyAlone, Busy
    <3> QED
      BY <1>2, <2>1, <2>3, <3>1 DEF WaitsUnsent
  <2>9. SentOnce'
    <3>1. DOMAIN messages = 1 .. Len(messages) /\ DOMAIN messages' = 1 .. Len(messages')
      BY <1>2, <1>5
    <3>2. \A i \in 1 .. Len(messages) : messages[i] \in Seq(Changes) /\ messages[i] # << >>
      BY <1>1, <2>1, <3>1, Elements DEF SentOnce
    <3>3. \A i \in 1 .. Len(messages') : messages'[i] \in Seq(Changes) /\ messages'[i] # << >>
      BY <1>2, <1>5, <2>3, <3>2
    <3>4. \A i \in 1 .. Len(messages') : DOMAIN messages'[i] = 1 .. Len(messages'[i])
      BY <3>3
    <3>5. ASSUME NEW i \in 1 .. Len(messages'), NEW j \in 1 .. Len(messages'), i # j,
                 NEW k \in 1 .. Len(messages'[i])
          PROVE  ~Contains(messages'[j], messages'[i][k])
      <4>1. CASE i \in 1 .. Len(messages) /\ j \in 1 .. Len(messages)
        <5>1. DOMAIN messages[i] = 1 .. Len(messages[i]) /\ messages'[i] = messages[i]
              /\ messages'[j] = messages[j]
          BY <1>5, <3>2, <4>1
        <5> QED
          BY <1>1, <2>1, <3>1, <3>5, <4>1, <5>1 DEF SentOnce
      <4>2. CASE i = Len(messages) + 1 /\ j \in 1 .. Len(messages)
        BY <1>5, <2>8, <4>2
      <4>3. CASE i \in 1 .. Len(messages) /\ j = Len(messages) + 1
        <5>1. messages'[i] = messages[i] /\ messages'[j] = topology[tm]
              /\ messages[i] \in Seq(Changes)
          BY <1>5, <3>2, <4>3
        <5>2. SUFFICES ASSUME Contains(topology[tm], messages[i][k]) PROVE FALSE
          BY <5>1
        <5>3. PICK q \in 1 .. Len(topology[tm]) : topology[tm][q] = messages[i][k]
          <6>1. topology[tm] \in Seq(Changes)
            BY <1>2
          <6> QED
            BY <5>2, <6>1, ContainsAt
        <5>4. k \in 1 .. Len(messages[i])
          BY <5>1
        <5>5. Contains(messages[i], topology[tm][q])
          <6>1. \E l \in 1 .. Len(messages[i]) : messages[i][l] = topology[tm][q]
            BY <5>3, <5>4
          <6> QED
            BY <5>1, <6>1, ContainsAt
        <5> QED
          BY <2>8, <4>3, <5>5
      <4> QED
        BY <1>5, <3>5, <4>1, <4>2, <4>3
    <3> QED
      BY <3>1, <3>3, <3>4, <3>5 DEF SentOnce
  <2> QED
    BY <2>4, <2>5, <2>6, <2>7, <2>9 DEF Separate
<1>11. SentOnce'
  BY <1>10 DEF SentOnce
<1> QED
  BY <1>6, <1>7, <1>8, <1>9, <1>10, <1>11 DEF Inv, Structure

LEMMA ClearListInv ==
    ASSUME Inv, NEW tm \in Changes, ClearList(tm)
    PROVE  Inv'
<1>1. /\ Structure /\ TypeOK /\ WritersHold /\ TimersHold /\ OneOwner /\ InItsBatch /\ SentOnce
  BY DEF Inv, Structure
<1>2. /\ run[tm] = "clear" /\ Busy(tm) /\ tm \in scheduled /\ batch[tm] \in Changes
  BY <1>1 DEF ClearList, Busy, TimersHold, Added, TypeOK
<1>3. UNCHANGED <<isConfigTopoInitialized, serverCidNbrList, timer, scheduled, cancelled,
                  pc, batch, topology, messages, late, mixed>>
  BY DEF ClearList, timers, writers, history
<1>4. /\ run' \in [Changes -> RunLabels] /\ run'[tm] = "cancel"
      /\ \A u \in Changes \ {tm} : run'[u] = run[u]
  BY <1>1 DEF ClearList, RunTo, TypeOK, RunLabels
<1>5. /\ nbrList' \in [Changes -> Seq(Changes)] /\ nbrList'[batch[tm]] = << >>
      /\ \A b \in Changes \ {batch[tm]} : nbrList'[b] = nbrList[b]
  BY <1>1, <1>2 DEF ClearList, TypeOK
<1>6. TypeOK'
  BY <1>1, <1>3, <1>4, <1>5 DEF TypeOK, RunLabels
<1>7. WritersHold' /\ OneOwner'
  BY <1>1, <1>3 DEF WritersHold, OneOwner, Owns
<1>8. TimersHold'
  BY <1>1, <1>2, <1>3, <1>4 DEF TimersHold, Added
<1>9. InItsBatch'
  <2>1. \A d \in Changes : (Added(d) <=> AddedNext(d)) /\ batch'[d] = batch[d]
    BY <1>3 DEF Added, AddedNext
  <2>2. ASSUME NEW b \in Changes, NEW i \in 1 .. Len(nbrList'[b])
        PROVE  AddedNext(nbrList'[b][i]) /\ batch'[nbrList'[b][i]] = b
    <3>1. nbrList'[b] = nbrList[b]
      BY <1>5
    <3>2. nbrList[b][i] \in Changes /\ Added(nbrList[b][i]) /\ batch[nbrList[b][i]] = b
      BY <1>1, <3>1, Elements DEF InItsBatch
    <3> QED
      BY <2>1, <3>1, <3>2
  <2>3. \A u \in Changes : \A k \in 1 .. Len(topology[u]) : AddedNext(topology[u][k])
    BY <1>1, <2>1, Elements DEF InItsBatch
  <2>4. \A i \in 1 .. Len(messages) : \A k \in 1 .. Len(messages[i]) : AddedNext(messages[i][k])
    BY <1>1, <2>1, Elements DEF InItsBatch
  <2> QED
    BY <1>3, <2>2, <2>3, <2>4 DEF InItsBatch, Added, AddedNext
<1>10. SentOnce'
  BY <1>1, <1>3 DEF SentOnce
<1>11. ASSUME ~mixed' PROVE Separate'
  <2>1. LastIsActive /\ OwnedIsFilled /\ BusyAlone /\ WaitsUnsent
    BY <1>3, <1>11 DEF Inv, Separate
  <2>2. /\ \A d \in Changes : Busy(d)' <=> Busy(d)
        /\ \A d \in Changes : Owns(d)' <=> Owns(d)
        /\ \A d \in Changes : d # tm => run'[d] = run[d]
        /\ batch' = batch /\ messages' = messages /\ timer' = timer
        /\ pc' = pc /\ topology' = topology /\ Active' = Active
    BY <1>2, <1>3, <1>4 DEF Busy, Owns, Active
  <2>3. \A d \in Changes :
          Added(d) => batch[d] \in Changes /\ (batch[d] # batch[tm] => nbrList'[batch[d]] = nbrList[batch[d]])
    BY <1>1, <1>5 DEF Added, TypeOK
  <2>4. \A d \in Changes : d \in Active \/ Busy(d) \/ Owns(d) => Added(d)
    BY <1>1 DEF TimersHold, WritersHold, Active, Busy, Owns, Added
  <2>5. LastIsActive'
    <3> SUFFICES ASSUME NEW u \in Active'
                 PROVE  /\ timer[batch[u]] = u
                        /\ \A d \in Changes :
                             Owns(d)' /\ batch[d] = batch[u] => pc[d] = "cancel"
                        /\ nbrList'[batch[u]] = << >> =>
                             \E v \in Changes : Busy(v)' /\ batch[v] = batch[u]
      BY <2>2 DEF LastIsActive
    <3>1. u \in Active /\ u \in Changes
      BY <1>1, <2>2 DEF Active, TypeOK
    <3>2. CASE batch[u] = batch[tm]
      BY <1>2, <2>1, <2>2, <3>1, <3>2 DEF LastIsActive
    <3>3. CASE batch[u] # batch[tm]
      <4>1. nbrList'[batch[u]] = nbrList[batch[u]]
        BY <2>3, <2>4, <3>1, <3>3
      <4> QED
        BY <2>1, <2>2, <3>1, <4>1 DEF LastIsActive
    <3> QED
      BY <3>2, <3>3
  <2>6. OwnedIsFilled'
    <3> SUFFICES ASSUME NEW d \in Changes, Owns(d)' PROVE nbrList'[batch[d]] # << >>
      BY <2>2 DEF OwnedIsFilled
    <3>1. Owns(d) /\ batch[d] # batch[tm]
      BY <1>2, <2>1, <2>2 DEF BusyAlone
    <3> QED
      BY <2>1, <2>3, <2>4, <3>1 DEF OwnedIsFilled
  <2>7. BusyAlone'
    <3> SUFFICES ASSUME NEW u \in Changes, Busy(u)'
                 PROVE  /\ \A v \in Changes : batch[v] = batch[u] =>
                             ~Owns(v)' /\ (Busy(v)' => v = u)
                        /\ run'[u] \in {"read", "send", "clear"} =>
                             topology[u] = nbrList'[batch[u]]
                        /\ run'[u] \in {"read", "send"} => nbrList'[batch[u]] # << >>
      BY <2>2 DEF BusyAlone
    <3>1. \A v \in Changes : batch[v] = batch[u] => ~Owns(v)' /\ (Busy(v)' => v = u)
      BY <2>1, <2>2 DEF BusyAlone
    <3>2. CASE u = tm
      BY <1>4, <3>1, <3>2
    <3>3. CASE u # tm
      <4>1. Busy(u) /\ batch[u] # batch[tm]
        BY <1>2, <2>1, <2>2, <3>3 DEF BusyAlone
      <4>2. nbrList'[batch[u]] = nbrList[batch[u]]
        BY <2>3, <2>4, <4>1
      <4> QED
        BY <2>1, <2>2, <3>1, <3>3, <4>1, <4>2 DEF BusyAlone
    <3> QED
      BY <3>2, <3>3
  <2>8. WaitsUnsent'
    <3> SUFFICES ASSUME NEW b \in Changes,
                        ~ \E u \in Changes : run'[u] = "clear" /\ batch[u] = b,
                        NEW i \in 1 .. Len(messages), NEW k \in 1 .. Len(nbrList'[b])
                 PROVE  ~Contains(messages[i], nbrList'[b][k])
      BY <2>2 DEF WaitsUnsent
    <3>1. b # batch[tm] /\ nbrList'[b] = nbrList[b]
      BY <1>5
    <3>2. ~ \E u \in Changes : run[u] = "clear" /\ batch[u] = b
      BY <2>2, <3>1
    <3> QED
      BY <2>1, <3>1, <3>2 DEF WaitsUnsent
  <2> QED
    BY <2>5, <2>6, <2>7, <2>8 DEF Separate
<1> QED
  BY <1>6, <1>7, <1>8, <1>9, <1>10, <1>11 DEF Inv, Structure

-----------------------------------------------------------------------------
(* The theorems.                                                           *)

LEMMA InvHolds == Spec => []Inv
<1>1. Inv /\ [Next]_vars => Inv'
  <2> SUFFICES ASSUME Inv, [Next]_vars PROVE Inv'
    OBVIOUS
  <2>1. CASE IgnoreEvents \/ MonitorEvents \/ UNCHANGED vars
    BY <2>1, EventsInv
  <2>2. ASSUME NEW ch \in Changes, WriteData(ch) \/ Write(ch)
        PROVE  Inv'
    BY <2>2, WriterAsideInv, AddNbrInv, CancelTimerInv, NewTimerInv, ScheduleInv DEF Write
  <2>3. ASSUME NEW tm \in Changes, Run(tm)
        PROVE  Inv'
    BY <2>3, FireInv, ReadListInv, SendTopologyInv, ClearListInv, CancelLastInv DEF Run
  <2> QED
    BY <2>1, <2>2, <2>3 DEF Next
<1> QED
  BY InitInv, <1>1, PTL DEF Spec

\* However the writers, the timers and their threads interleave, a change is added
\* only to a batch that has been found, and a timer is cancelled only where there is
\* one: no thread meets a null.
THEOREM TypeCorrect == Spec => []TypeOK
<1>1. Inv => TypeOK
  BY DEF Inv, Structure
<1> QED
  BY InvHolds, <1>1, PTL

\* As long as no thread of a timer and no writer have met in one batch, the timer
\* that will fire is the one that was set last and its thread is alone with the
\* list, so the modifications of one cell go out once and no message is empty.
THEOREM SentOnceAlways == Spec => []SentOnce
<1>1. Inv => SentOnce
  BY DEF Inv
<1> QED
  BY InvHolds, <1>1, PTL

-----------------------------------------------------------------------------
(* A change that is not late is kept until it is sent.                     *)

Waits(ch) == Added(ch) /\ ch \notin late /\ ~Sent(ch)

\* No thread of a timer is about to clear the list, or to cancel the timer that was
\* set last, without having sent the change.
NotPassedOver(ch) ==
    /\ Contains(nbrList[batch[ch]], ch)
    /\ \A tm \in Changes : batch[tm] = batch[ch] =>
         /\ run[tm] \notin {"clear", "cancel"}
         /\ run[tm] = "send" => Contains(topology[tm], ch)

\* Somebody will send the batch: the thread of a timer that has its list, a writer
\* that is about to set a timer, or the timer that is set.
IsRead(b, tm) == batch[tm] = b /\ run[tm] = "read" /\ topology[tm] = nbrList[b]
WillSchedule(b, d) == batch[d] = b /\ Owns(d) /\ (pc[d] = "schedule" => d \notin cancelled)
IsSet(b) == timer[b] \in Active /\ run[timer[b]] = "idle"
HasSender(b) ==
    \/ \E tm \in Changes : batch[tm] = b /\ run[tm] = "send"
    \/ \E tm \in Changes : IsRead(b, tm)
    \/ \E d \in Changes : WillSchedule(b, d)
    \/ IsSet(b)

EarlyIsKept == \A ch \in Changes : Waits(ch) => NotPassedOver(ch) /\ HasSender(batch[ch])

\* The timer of a batch is one of the batch, and only a timer that was made is cancelled.
TimersAreMade ==
    /\ \A b \in Changes : timer[b] # None =>
         timer[b] \in Changes /\ batch[timer[b]] = b /\ pc[timer[b]] \in {"schedule", "done"}
    /\ \A d \in cancelled : pc[d] \in {"schedule", "done"}

EarlyInv == Structure /\ TimersAreMade /\ EarlyIsKept

LEMMA EarlyInit == Init => EarlyInv
<1> SUFFICES ASSUME Init PROVE EarlyInv
  OBVIOUS
<1>1. Structure
  BY InitInv DEF Inv
<1>2. TimersAreMade /\ \A ch \in Changes : ~Added(ch)
  BY DEF Init, TimersAreMade, Added
<1> QED
  BY <1>1, <1>2 DEF EarlyInv, EarlyIsKept, Waits

\* A step that leaves the batch b alone.
Untouched(b) ==
    /\ nbrList'[b] = nbrList[b] /\ timer'[b] = timer[b]
    /\ \A d \in Changes :
         IF batch[d] = b
         THEN /\ batch'[d] = b /\ run'[d] = run[d] /\ topology'[d] = topology[d]
              /\ Owns(d) => pc'[d] = pc[d]
              /\ d \in cancelled' => d \in cancelled
              /\ d \in scheduled => d \in scheduled'
         ELSE batch'[d] = b => run'[d] = "idle"

LEMMA UntouchedIsKept ==
    ASSUME EarlyInv, NEW ch \in Changes, Waits(ch), NEW b \in Changes,
           batch[ch] = b, Untouched(b)
    PROVE  NotPassedOver(ch)' /\ HasSender(b)'
<1>1. NotPassedOver(ch) /\ HasSender(b)
  BY DEF EarlyInv, EarlyIsKept
<1>2. NotPassedOver(ch)'
  BY <1>1 DEF Untouched, NotPassedOver
<1>3. CASE \E tm \in Changes : batch[tm] = b /\ run[tm] = "send"
  <2>1. \E tm \in Changes : batch'[tm] = b /\ run'[tm] = "send"
    BY <1>3 DEF Untouched
  <2> QED
    BY <1>2, <2>1 DEF HasSender
<1>4. CASE \E tm \in Changes : IsRead(b, tm)
  <2>1. \E tm \in Changes : IsRead(b, tm)'
    BY <1>4 DEF Untouched, IsRead
  <2> QED
    BY <1>2, <2>1 DEF HasSender, IsRead
<1>5. CASE \E d \in Changes : WillSchedule(b, d)
  <2>1. \E d \in Changes : WillSchedule(b, d)'
    BY <1>5 DEF Untouched, WillSchedule, Owns
  <2> QED
    BY <1>2, <2>1 DEF HasSender, WillSchedule
<1>6. CASE IsSet(b)
  <2>1. timer[b] \in Changes /\ batch[timer[b]] = b
    <3>1. timer[b] # None
      BY <1>6 DEF IsSet, Active, EarlyInv, Structure, TypeOK
    <3> QED
      BY <3>1 DEF EarlyInv, TimersAreMade
  <2>2. IsSet(b)'
    BY <1>6, <2>1 DEF Untouched, IsSet, Active
  <2> QED
    BY <1>2, <2>2 DEF HasSender, IsSet
<1> QED
  BY <1>1, <1>2, <1>3, <1>4, <1>5, <1>6 DEF HasSender

LEMMA ContainsAppended ==
    ASSUME NEW q \in Seq(Changes), NEW d \in Changes, NEW e \in Changes
    PROVE  Contains(Append(q, d), e) <=> Contains(q, e) \/ e = d
<1>1. Append(q, d) \in Seq(Changes) /\ 1 .. Len(Append(q, d)) = (1 .. Len(q)) \cup {Len(q) + 1}
  OBVIOUS
<1>2. /\ \A i \in 1 .. Len(q) : Append(q, d)[i] = q[i]
      /\ Append(q, d)[Len(q) + 1] = d
  BY Appended
<1>3. Contains(Append(q, d), e) <=> \E i \in 1 .. Len(Append(q, d)) : Append(q, d)[i] = e
  BY <1>1, ContainsAt
<1>4. Contains(q, e) <=> \E i \in 1 .. Len(q) : q[i] = e
  BY ContainsAt
<1> QED
  BY <1>1, <1>2, <1>3, <1>4

LEMMA WriterAsideEarly ==
    ASSUME EarlyInv, NEW d \in Changes, WriteData(d) \/ FindBatch(d) \/ PutBatch(d),
           NEW ch \in Changes, Waits(ch)'
    PROVE  NotPassedOver(ch)' /\ HasSender(batch[ch])'
<1>1. /\ Aside(d) /\ ~Owns(d) /\ pc'[d] \in {"find", "put", "add", "done"}
      /\ pc[d] \in {"new", "find", "put"} /\ TypeOK /\ TimersHold
      /\ (pc[d] = "new" => batch[d] = None /\ batch' = batch)
      /\ (pc[d] # "new" => pc'[d] # "done")
  <2>1. Structure
    BY DEF EarlyInv
  <2>2. TypeOK /\ WritersHold /\ TimersHold
    BY <2>1 DEF Structure
  <2>3. Aside(d) /\ ~Owns(d) /\ pc'[d] \in {"find", "put", "add", "done"}
    BY <2>1, WriterAside
  <2>4. /\ pc[d] \in {"new", "find", "put"} /\ (pc[d] = "new" => batch[d] = None /\ batch' = batch)
        /\ (pc[d] # "new" => pc'[d] # "done")
    BY <2>2 DEF WriteData, FindBatch, PutBatch, WritersHold, TypeOK, Goto, writers
  <2> QED
    BY <2>2, <2>3, <2>4
<1>2. ch # d
  BY <1>1 DEF Waits, Added
<1>3. /\ UNCHANGED <<nbrList, timer, scheduled, cancelled, run, topology, messages, late>>
      /\ \A e \in Changes \ {d} : pc'[e] = pc[e] /\ batch'[e] = batch[e]
  BY <1>1 DEF Aside, timers, runs, history
<1>4. Waits(ch) /\ batch'[ch] = batch[ch] /\ batch[ch] \in Changes
  BY <1>1, <1>2, <1>3 DEF Waits, Added, Sent, TypeOK
<1>5. d \notin scheduled /\ run[d] = "idle"
  BY <1>1 DEF TimersHold, TypeOK
<1>6. CASE batch'[d] = batch[d] \/ batch[d] # batch[ch]
  <2>1. Untouched(batch[ch])
    BY <1>1, <1>3, <1>5, <1>6 DEF Untouched
  <2> QED
    BY <1>4, <2>1, UntouchedIsKept
<1>7. batch'[d] = batch[d] \/ batch[d] # batch[ch]
  <2>1. pc[d] = "find" => batch[d] = None
    BY DEF EarlyInv, Structure, WritersHold
  <2>2. pc[d] \in {"new", "put"} => batch' = batch
    BY <1>1 DEF WriteData, FindBatch, PutBatch, writers
  <2> QED
    BY <1>1, <1>4, <2>1, <2>2
<1> QED
  BY <1>6, <1>7

LEMMA AddNbrEarly ==
    ASSUME EarlyInv, NEW d \in Changes, AddNbr(d), NEW ch \in Changes, Waits(ch)'
    PROVE  NotPassedOver(ch)' /\ HasSender(batch[ch])'
<1> DEFINE c == batch[d]
<1>1. /\ TypeOK /\ WritersHold /\ pc[d] = "add" /\ c \in Changes /\ ~Added(d)
      /\ UNCHANGED <<timer, scheduled, cancelled, batch, run, topology, messages>>
      /\ pc'[d] \in {"timer", "cancel"} /\ (\A e \in Changes \ {d} : pc'[e] = pc[e])
      /\ late \subseteq late'
  BY DEF EarlyInv, Structure, WritersHold, TypeOK, AddNbr, Added, Goto, timers, runs
<1>2. /\ nbrList'[c] = Append(nbrList[c], d) /\ nbrList[c] \in Seq(Changes)
      /\ \A b \in Changes \ {c} : nbrList'[b] = nbrList[b]
  BY <1>1 DEF AddNbr, TypeOK
<1>3. \A e \in Changes : Contains(nbrList'[c], e) <=> Contains(nbrList[c], e) \/ e = d
  BY <1>2, ContainsAppended
<1>4. batch'[ch] = batch[ch] /\ batch[ch] \in Changes
  BY <1>1 DEF Waits, Added, TypeOK
<1>5. CASE ch = d
  <2>1. At(c, {"send", "clear", "cancel"}) = {}
    BY <1>1, <1>5 DEF AddNbr, Waits
  <2>2. NotPassedOver(ch)'
    BY <1>1, <1>3, <1>5, <2>1 DEF NotPassedOver, At
  <2>3. WillSchedule(c, d)'
    BY <1>1 DEF WillSchedule, Owns
  <2> QED
    BY <1>1, <1>5, <2>2, <2>3 DEF HasSender, WillSchedule
<1>6. CASE ch # d
  <2>1. Waits(ch)
    BY <1>1, <1>6 DEF Waits, Added, Sent
  <2>2. CASE batch[ch] = c
    <3>1. NotPassedOver(ch)
      BY <2>1 DEF EarlyInv, EarlyIsKept
    <3>2. NotPassedOver(ch)'
      BY <1>1, <1>3, <2>2, <3>1 DEF NotPassedOver
    <3>3. WillSchedule(c, d)'
      BY <1>1 DEF WillSchedule, Owns
    <3> QED
      BY <1>1, <2>2, <3>2, <3>3 DEF HasSender, WillSchedule
  <2>3. CASE batch[ch] # c
    <3>1. Untouched(batch[ch])
      BY <1>1, <1>2, <1>4, <2>3 DEF Untouched
    <3> QED
      BY <1>4, <2>1, <3>1, UntouchedIsKept
  <2> QED
    BY <2>2, <2>3
<1> QED
  BY <1>5, <1>6

\* A step that adds nothing: what waits after it has waited before.
LEMMA StillWaits ==
    ASSUME EarlyInv, NEW ch \in Changes, Waits(ch)', Added(ch)' => Added(ch),
           UNCHANGED <<batch, late>>, Sent(ch) => Sent(ch)'
    PROVE  /\ Waits(ch) /\ batch'[ch] = batch[ch] /\ batch[ch] \in Changes
           /\ NotPassedOver(ch) /\ HasSender(batch[ch])
<1>1. Waits(ch)
  BY DEF Waits
<1>2. batch[ch] \in Changes
  BY <1>1 DEF Waits, Added, EarlyInv, Structure, TypeOK
<1> QED
  BY <1>1, <1>2 DEF EarlyInv, EarlyIsKept

LEMMA CancelTimerEarly ==
    ASSUME EarlyInv, NEW d \in Changes, CancelTimer(d), NEW ch \in Changes, Waits(ch)'
    PROVE  NotPassedOver(ch)' /\ HasSender(batch[ch])'
<1> DEFINE c == batch[d]
<1>1. /\ c \in Changes /\ pc[d] = "cancel" /\ timer[c] # None /\ pc'[d] = "timer"
      /\ UNCHANGED <<nbrList, timer, scheduled, batch, run, topology, messages, late>>
      /\ (\A e \in Changes \ {d} : pc'[e] = pc[e])
      /\ cancelled' = cancelled \cup {timer[c]}
  BY DEF EarlyInv, Structure, WritersHold, TypeOK, CancelTimer, Goto, batches, runs, history
<1>2. batch[timer[c]] = c
  BY <1>1 DEF EarlyInv, TimersAreMade
<1>3. /\ Waits(ch) /\ batch'[ch] = batch[ch] /\ batch[ch] \in Changes /\ NotPassedOver(ch)
  BY <1>1, StillWaits DEF Added, Sent
<1>4. CASE batch[ch] = c
  <2>1. NotPassedOver(ch)'
    BY <1>1, <1>3 DEF NotPassedOver
  <2>2. WillSchedule(c, d)'
    BY <1>1 DEF WillSchedule, Owns
  <2> QED
    BY <1>1, <1>4, <2>1, <2>2 DEF HasSender, WillSchedule
<1>5. CASE batch[ch] # c
  <2>1. Untouched(batch[ch])
    BY <1>1, <1>2, <1>5 DEF Untouched
  <2> QED
    BY <1>3, <2>1, UntouchedIsKept
<1> QED
  BY <1>4, <1>5

LEMMA NewTimerEarly ==
    ASSUME EarlyInv, NEW d \in Changes, NewTimer(d), NEW ch \in Changes, Waits(ch)'
    PROVE  NotPassedOver(ch)' /\ HasSender(batch[ch])'
<1> DEFINE c == batch[d]
<1>1. /\ c \in Changes /\ pc[d] = "timer" /\ pc'[d] = "schedule"
      /\ UNCHANGED <<nbrList, scheduled, cancelled, batch, run, topology, messages, late>>
      /\ (\A e \in Changes \ {d} : pc'[e] = pc[e])
      /\ \A b \in Changes \ {c} : timer'[b] = timer[b]
  BY DEF EarlyInv, Structure, WritersHold, TypeOK, NewTimer, Goto, timers, runs, history
<1>2. /\ Waits(ch) /\ batch'[ch] = batch[ch] /\ batch[ch] \in Changes /\ NotPassedOver(ch)
  BY <1>1, StillWaits DEF Added, Sent
<1>3. d \notin cancelled
  BY <1>1 DEF EarlyInv, TimersAreMade
<1>4. CASE batch[ch] = c
  <2>1. NotPassedOver(ch)'
    BY <1>1, <1>2 DEF NotPassedOver
  <2>2. WillSchedule(c, d)'
    BY <1>1, <1>3 DEF WillSchedule, Owns
  <2> QED
    BY <1>1, <1>4, <2>1, <2>2 DEF HasSender, WillSchedule
<1>5. CASE batch[ch] # c
  <2>1. Untouched(batch[ch])
    BY <1>1, <1>2, <1>5 DEF Untouched
  <2> QED
    BY <1>2, <2>1, UntouchedIsKept
<1> QED
  BY <1>4, <1>5

LEMMA ScheduleEarly ==
    ASSUME EarlyInv, NEW d \in Changes, Schedule(d), NEW ch \in Changes, Waits(ch)'
    PROVE  NotPassedOver(ch)' /\ HasSender(batch[ch])'
<1> DEFINE c == batch[d]
<1>1. /\ c \in Changes /\ pc[d] = "schedule" /\ timer[c] = d
      /\ UNCHANGED <<nbrList, timer, cancelled, batch, run, topology, messages, late>>
      /\ (\A e \in Changes \ {d} : pc'[e] = pc[e])
      /\ scheduled' = (IF d \in cancelled THEN scheduled ELSE scheduled \cup {d})
  BY DEF EarlyInv, Structure, WritersHold, TypeOK, Schedule, Goto, batches, runs, history
<1>2. /\ Waits(ch) /\ batch'[ch] = batch[ch] /\ batch[ch] \in Changes /\ NotPassedOver(ch)
      /\ HasSender(batch[ch])
  BY <1>1, StillWaits DEF Added, Sent
<1>3. NotPassedOver(ch)'
  BY <1>1, <1>2 DEF NotPassedOver
<1>4. CASE batch[ch] = c
  <2>1. CASE d \notin cancelled
    <3>1. d \notin scheduled
      BY <1>1 DEF EarlyInv, Structure, TimersHold
    <3>2. run[d] = "idle"
      BY <3>1 DEF EarlyInv, Structure, TimersHold
    <3>3. IsSet(c)'
      BY <1>1, <2>1, <3>2 DEF IsSet, Active
    <3> QED
      BY <1>1, <1>3, <1>4, <3>3 DEF HasSender, IsSet
  <2>2. CASE d \in cancelled
    <3>1. \A e \in Changes : ~WillSchedule(c, e)
      <4>1. \A e \in Changes : Owns(e) /\ batch[e] = c => e = d
        BY <1>1 DEF EarlyInv, Structure, OneOwner, Owns
      <4> QED
        BY <1>1, <2>2, <4>1 DEF WillSchedule
    <3>2. ~IsSet(c)
      BY <1>1, <2>2 DEF IsSet, Active
    <3>3. \/ \E tm \in Changes : batch[tm] = c /\ run[tm] = "send"
          \/ \E tm \in Changes : IsRead(c, tm)
      BY <1>2, <1>4, <3>1, <3>2 DEF HasSender
    <3>4. \/ \E tm \in Changes : batch'[tm] = c /\ run'[tm] = "send"
          \/ \E tm \in Changes : IsRead(c, tm)'
      BY <1>1, <3>3 DEF IsRead
    <3> QED
      BY <1>1, <1>3, <1>4, <3>4 DEF HasSender, IsRead
  <2> QED
    BY <2>1, <2>2
<1>5. CASE batch[ch] # c
  <2>1. Untouched(batch[ch])
    BY <1>1, <1>2, <1>5 DEF Untouched
  <2> QED
    BY <1>2, <2>1, UntouchedIsKept
<1> QED
  BY <1>4, <1>5

-----------------------------------------------------------------------------
(* The thread of a timer. *)

LEMMA FireEarly ==
    ASSUME EarlyInv, NEW t \in Changes, Fire(t), NEW ch \in Changes, Waits(ch)'
    PROVE  NotPassedOver(ch)' /\ HasSender(batch[ch])'
<1>1. /\ UNCHANGED <<nbrList, timer, scheduled, cancelled, pc, batch, messages, late>>
      /\ run'[t] = "read" /\ topology'[t] = nbrList[batch[t]] /\ run[t] = "idle"
      /\ \A u \in Changes \ {t} : run'[u] = run[u] /\ topology'[u] = topology[u]
  BY DEF EarlyInv, Structure, TypeOK, Fire, RunTo, batches, timers, writers
<1>2. /\ Waits(ch) /\ batch'[ch] = batch[ch] /\ batch[ch] \in Changes /\ NotPassedOver(ch)
  BY <1>1, StillWaits DEF Added, Sent
<1>3. CASE batch[ch] = batch[t]
  <2>1. NotPassedOver(ch)'
    BY <1>1, <1>2 DEF NotPassedOver
  <2>2. IsRead(batch[ch], t)'
    BY <1>1, <1>2, <1>3 DEF IsRead
  <2> QED
    BY <2>1, <2>2 DEF HasSender, IsRead
<1>4. CASE batch[ch] # batch[t]
  <2>1. Untouched(batch[ch])
    BY <1>1, <1>2, <1>4 DEF Untouched
  <2> QED
    BY <1>2, <2>1, UntouchedIsKept
<1> QED
  BY <1>3, <1>4

LEMMA ReadListEarly ==
    ASSUME EarlyInv, NEW t \in Changes, ReadList(t), NEW ch \in Changes, Waits(ch)'
    PROVE  NotPassedOver(ch)' /\ HasSender(batch[ch])'
<1>1. /\ UNCHANGED <<nbrList, timer, scheduled, cancelled, pc, batch, topology, messages, late>>
      /\ run[t] = "read"
      /\ run'[t] = (IF nbrList[batch[t]] = topology[t] THEN "send" ELSE "dead")
      /\ \A u \in Changes \ {t} : run'[u] = run[u]
  BY DEF EarlyInv, Structure, TypeOK, ReadList, RunTo, batches, timers, writers, history
<1>2. /\ Waits(ch) /\ batch'[ch] = batch[ch] /\ batch[ch] \in Changes /\ NotPassedOver(ch)
      /\ HasSender(batch[ch])
  BY <1>1, StillWaits DEF Added, Sent
<1>3. CASE batch[ch] = batch[t]
  <2>1. NotPassedOver(ch)'
    BY <1>1, <1>2, <1>3 DEF NotPassedOver
  <2>2. CASE nbrList[batch[t]] = topology[t]
    <3>1. batch'[t] = batch'[ch] /\ run'[t] = "send"
      BY <1>1, <1>3, <2>2
    <3> QED
      BY <2>1, <3>1 DEF HasSender
  <2>3. CASE nbrList[batch[t]] # topology[t]
    <3>1. PICK b \in Changes : b = batch[ch]
      BY <1>2
    <3>2. HasSender(b)'
      <4>1. CASE \E tm \in Changes : batch[tm] = b /\ run[tm] = "send"
        <5>1. \E tm \in Changes : batch'[tm] = b /\ run'[tm] = "send"
          BY <1>1, <4>1
        <5> QED
          BY <5>1 DEF HasSender
      <4>2. CASE \E tm \in Changes : IsRead(b, tm)
        <5>1. \E tm \in Changes : IsRead(b, tm)'
          BY <1>1, <1>3, <2>3, <3>1, <4>2 DEF IsRead
        <5> QED
          BY <5>1 DEF HasSender, IsRead
      <4>3. CASE \E d \in Changes : WillSchedule(b, d)
        <5>1. \E d \in Changes : WillSchedule(b, d)'
          BY <1>1, <4>3 DEF WillSchedule, Owns
        <5> QED
          BY <5>1 DEF HasSender, WillSchedule
      <4>4. CASE IsSet(b)
        <5>1. timer[b] \in Changes
          BY <4>4 DEF IsSet, Active, EarlyInv, Structure, TypeOK
        <5>2. IsSet(b)'
          BY <1>1, <4>4, <5>1 DEF IsSet, Active
        <5> QED
          BY <5>2 DEF HasSender, IsSet
      <4> QED
        BY <1>2, <3>1, <4>1, <4>2, <4>3, <4>4 DEF HasSender
    <3> QED
      BY <1>2, <2>1, <3>1, <3>2
  <2> QED
    BY <2>2, <2>3
<1>4. CASE batch[ch] # batch[t]
  <2>1. Untouched(batch[ch])
    BY <1>1, <1>2, <1>4 DEF Untouched
  <2> QED
    BY <1>2, <2>1, UntouchedIsKept
<1> QED
  BY <1>3, <1>4

LEMMA SendTopologyEarly ==
    ASSUME EarlyInv, NEW t \in Changes, SendTopology(t), NEW ch \in Changes, Waits(ch)'
    PROVE  NotPassedOver(ch)' /\ HasSender(batch[ch])'
<1>1. /\ UNCHANGED <<nbrList, timer, scheduled, cancelled, pc, batch, topology, late>>
      /\ run[t] = "send" /\ messages' = Append(messages, topology[t])
      /\ messages \in Seq(Seq(Changes)) /\ topology[t] \in Seq(Changes)
      /\ \A u \in Changes \ {t} : run'[u] = run[u]
  BY DEF EarlyInv, Structure, TypeOK, SendTopology, RunTo, batches, timers, writers, history
<1>2. /\ Sent(ch) => Sent(ch)'
      /\ Contains(topology[t], ch) => Sent(ch)'
  <2>1. /\ DOMAIN messages' = 1 .. (Len(messages) + 1) /\ DOMAIN messages = 1 .. Len(messages)
        /\ \A i \in 1 .. Len(messages) : messages'[i] = messages[i]
        /\ messages'[Len(messages) + 1] = topology[t]
        /\ Len(messages) \in Nat
    BY <1>1
  <2>2. Sent(ch) => Sent(ch)'
    BY <2>1 DEF Sent
  <2>3. Contains(topology[t], ch) => Sent(ch)'
    BY <2>1 DEF Sent
  <2> QED
    BY <2>2, <2>3
<1>3. /\ Waits(ch) /\ batch'[ch] = batch[ch] /\ batch[ch] \in Changes /\ NotPassedOver(ch)
  BY <1>1, <1>2, StillWaits DEF Added
<1>4. ~Contains(topology[t], ch)
  BY <1>2 DEF Waits
<1>5. batch[ch] # batch[t]
  BY <1>1, <1>3, <1>4 DEF NotPassedOver
<1>6. Untouched(batch[ch])
  BY <1>1, <1>3, <1>5 DEF Untouched
<1> QED
  BY <1>3, <1>6, UntouchedIsKept

LEMMA ClearListEarly ==
    ASSUME EarlyInv, NEW t \in Changes, ClearList(t), NEW ch \in Changes, Waits(ch)'
    PROVE  NotPassedOver(ch)' /\ HasSender(batch[ch])'
<1>1. /\ UNCHANGED <<timer, scheduled, cancelled, pc, batch, topology, messages, late>>
      /\ run[t] = "clear" /\ (\A u \in Changes \ {t} : run'[u] = run[u])
      /\ \A b \in Changes \ {batch[t]} : nbrList'[b] = nbrList[b]
  BY DEF EarlyInv, Structure, TypeOK, ClearList, RunTo, timers, writers, history
<1>2. /\ Waits(ch) /\ batch'[ch] = batch[ch] /\ batch[ch] \in Changes /\ NotPassedOver(ch)
  BY <1>1, StillWaits DEF Added, Sent
<1>3. batch[ch] # batch[t]
  BY <1>1, <1>2 DEF NotPassedOver
<1>4. Untouched(batch[ch])
  BY <1>1, <1>2, <1>3 DEF Untouched
<1> QED
  BY <1>2, <1>4, UntouchedIsKept

LEMMA CancelLastEarly ==
    ASSUME EarlyInv, NEW t \in Changes, CancelLast(t), NEW ch \in Changes, Waits(ch)'
    PROVE  NotPassedOver(ch)' /\ HasSender(batch[ch])'
<1>1. /\ UNCHANGED <<nbrList, timer, scheduled, pc, batch, topology, messages, late>>
      /\ run[t] = "cancel" /\ (\A u \in Changes \ {t} : run'[u] = run[u])
      /\ cancelled' = cancelled \cup {timer[batch[t]]}
  BY DEF EarlyInv, Structure, TypeOK, CancelLast, RunTo, batches, writers, history
<1>2. /\ Waits(ch) /\ batch'[ch] = batch[ch] /\ batch[ch] \in Changes /\ NotPassedOver(ch)
  BY <1>1, StillWaits DEF Added, Sent
<1>3. batch[ch] # batch[t]
  BY <1>1, <1>2 DEF NotPassedOver
<1>4. batch[timer[batch[t]]] = batch[t]
  <2>1. t \in scheduled
    BY <1>1 DEF EarlyInv, Structure, TimersHold
  <2>2. batch[t] \in Changes /\ timer[batch[t]] # None
    BY <2>1 DEF EarlyInv, Structure, TimersHold, Added, TypeOK
  <2> QED
    BY <2>2 DEF EarlyInv, TimersAreMade
<1>5. Untouched(batch[ch])
  BY <1>1, <1>2, <1>3, <1>4 DEF Untouched
<1> QED
  BY <1>2, <1>5, UntouchedIsKept

-----------------------------------------------------------------------------
(* The timers, and the theorem. *)

LEMMA TimersStayMade ==
    ASSUME EarlyInv, [Next]_vars
    PROVE  TimersAreMade'
<1>1. TypeOK /\ TimersAreMade /\ WritersHold /\ TimersHold /\ OneOwner
  BY DEF EarlyInv, Structure
<1>2. ASSUME UNCHANGED <<timer, cancelled>>,
             \A d \in Changes : pc[d] \in {"schedule", "done"} =>
                 pc'[d] \in {"schedule", "done"} /\ batch'[d] = batch[d]
      PROVE  TimersAreMade'
  BY <1>1, <1>2 DEF TimersAreMade, TypeOK
<1>3. CASE IgnoreEvents \/ MonitorEvents \/ UNCHANGED vars
  <2>1. UNCHANGED <<timer, cancelled, pc, batch>>
    BY <1>3 DEF IgnoreEvents, MonitorEvents, vars, batches, timers, writers
  <2> QED
    BY <1>2, <2>1
<1>4. ASSUME NEW t \in Changes, Fire(t) \/ ReadList(t) \/ SendTopology(t) \/ ClearList(t)
      PROVE  TimersAreMade'
  <2>1. UNCHANGED <<timer, cancelled, pc, batch>>
    BY <1>4 DEF Fire, ReadList, SendTopology, ClearList, batches, timers, writers
  <2> QED
    BY <1>2, <2>1
<1>5. ASSUME NEW t \in Changes, CancelLast(t) PROVE TimersAreMade'
  <2>1. /\ UNCHANGED <<timer, pc, batch>>
        /\ cancelled' = cancelled \cup {timer[batch[t]]}
    BY <1>5 DEF CancelLast, batches, writers
  <2>2. batch[t] \in Changes /\ timer[batch[t]] # None
    <3>1. t \in scheduled
      BY <1>1, <1>5 DEF CancelLast, TimersHold
    <3> QED
      BY <1>1, <3>1 DEF TimersHold, Added, TypeOK
  <2> QED
    BY <1>1, <2>1, <2>2 DEF TimersAreMade
<1>6. ASSUME NEW d \in Changes, WriteData(d) \/ FindBatch(d) \/ PutBatch(d)
      PROVE  TimersAreMade'
  <2>1. Aside(d) /\ pc[d] \notin {"schedule", "done"}
    <3>1. Aside(d)
      BY <1>6, WriterAside DEF EarlyInv
    <3> QED
      BY <1>6, <3>1 DEF WriteData, FindBatch, PutBatch
  <2> QED
    BY <1>2, <2>1 DEF Aside, timers
<1>7. ASSUME NEW d \in Changes, AddNbr(d) PROVE TimersAreMade'
  <2>1. /\ UNCHANGED <<timer, cancelled, batch>> /\ pc[d] = "add"
        /\ \A e \in Changes \ {d} : pc'[e] = pc[e]
    BY <1>1, <1>7 DEF AddNbr, Goto, TypeOK, timers
  <2> QED
    BY <1>2, <2>1
<1>8. ASSUME NEW d \in Changes, CancelTimer(d) PROVE TimersAreMade'
  <2>1. /\ UNCHANGED <<timer, batch>> /\ pc[d] = "cancel" /\ timer[batch[d]] # None
        /\ (\A e \in Changes \ {d} : pc'[e] = pc[e]) /\ batch[d] \in Changes
        /\ cancelled' = cancelled \cup {timer[batch[d]]}
    BY <1>1, <1>8 DEF CancelTimer, Goto, WritersHold, TypeOK, batches
  <2>2. \A e \in Changes : pc[e] \in {"schedule", "done"} =>
                             pc'[e] \in {"schedule", "done"} /\ batch'[e] = batch[e]
    BY <2>1
  <2>3. cancelled' \subseteq Changes /\ cancelled \subseteq Changes
    BY <1>1, <2>1 DEF TypeOK, TimersAreMade
  <2>4. \A e \in cancelled' : pc'[e] \in {"schedule", "done"}
    BY <1>1, <2>1, <2>2, <2>3 DEF TimersAreMade
  <2> QED
    BY <1>1, <2>1, <2>2, <2>4 DEF TimersAreMade
<1>9. ASSUME NEW d \in Changes, NewTimer(d) PROVE TimersAreMade'
  <2>1. /\ UNCHANGED <<cancelled, batch>> /\ pc[d] = "timer" /\ pc'[d] = "schedule"
        /\ (\A e \in Changes \ {d} : pc'[e] = pc[e])
        /\ timer'[batch[d]] = d /\ batch[d] \in Changes
        /\ \A b \in Changes \ {batch[d]} : timer'[b] = timer[b]
    BY <1>1, <1>9 DEF NewTimer, Goto, WritersHold, TypeOK, timers
  <2>2. \A e \in Changes : pc[e] \in {"schedule", "done"} =>
                             pc'[e] \in {"schedule", "done"} /\ batch'[e] = batch[e]
    BY <2>1
  <2>3. cancelled' = cancelled /\ cancelled \subseteq Changes
    BY <1>1, <2>1 DEF TypeOK
  <2>4. \A e \in cancelled' : pc'[e] \in {"schedule", "done"}
    BY <1>1, <2>2, <2>3 DEF TimersAreMade
  <2>5. ASSUME NEW b \in Changes, timer'[b] # None
        PROVE  timer'[b] \in Changes /\ batch'[timer'[b]] = b
               /\ pc'[timer'[b]] \in {"schedule", "done"}
    <3>1. CASE b = batch[d]
      BY <2>1, <3>1
    <3>2. CASE b # batch[d]
      BY <1>1, <2>1, <2>2, <2>5, <3>2 DEF TimersAreMade
    <3> QED
      BY <3>1, <3>2
  <2> QED
    BY <2>4, <2>5 DEF TimersAreMade
<1>10. ASSUME NEW d \in Changes, Schedule(d) PROVE TimersAreMade'
  <2>1. /\ UNCHANGED <<timer, cancelled, batch>> /\ pc'[d] = "done"
        /\ \A e \in Changes \ {d} : pc'[e] = pc[e]
    BY <1>1, <1>10 DEF Schedule, Goto, TypeOK, batches
  <2> QED
    BY <1>2, <2>1
<1> QED
  BY <1>3, <1>4, <1>5, <1>6, <1>7, <1>8, <1>9, <1>10 DEF Next, Write, Run

LEMMA EarlyStep ==
    ASSUME EarlyInv, [Next]_vars
    PROVE  EarlyIsKept'
<1> SUFFICES ASSUME NEW ch \in Changes, Waits(ch)'
             PROVE  NotPassedOver(ch)' /\ HasSender(batch[ch])'
  BY DEF EarlyIsKept
<1>1. CASE IgnoreEvents \/ MonitorEvents \/ UNCHANGED vars
  <2>1. UNCHANGED <<nbrList, timer, scheduled, cancelled, pc, batch, run, topology, messages,
                    late>>
    BY <1>1 DEF IgnoreEvents, MonitorEvents, vars, batches, timers, writers, runs, history
  <2>2. Waits(ch) /\ batch'[ch] = batch[ch] /\ batch[ch] \in Changes
    BY <2>1, StillWaits DEF Added, Sent
  <2>3. Untouched(batch[ch])
    BY <2>1, <2>2 DEF Untouched
  <2> QED
    BY <2>2, <2>3, UntouchedIsKept
<1>2. ASSUME NEW d \in Changes, WriteData(d) \/ Write(d)
      PROVE  NotPassedOver(ch)' /\ HasSender(batch[ch])'
  BY <1>2, WriterAsideEarly, AddNbrEarly, CancelTimerEarly, NewTimerEarly, ScheduleEarly DEF Write
<1>3. ASSUME NEW t \in Changes, Run(t)
      PROVE  NotPassedOver(ch)' /\ HasSender(batch[ch])'
  BY <1>3, FireEarly, ReadListEarly, SendTopologyEarly, ClearListEarly, CancelLastEarly DEF Run
<1> QED
  BY <1>1, <1>2, <1>3 DEF Next

\* A change that SDN-R has written is kept until it is sent, however writers, timers
\* and their threads interleave, unless it was added while a timer's thread was
\* between the reading of the list and the end of its run: it stays in the list, and
\* there is a writer, a timer or a thread that will send it.
THEOREM EarlyIsNeverLost == Spec => []EarlyIsKept
<1>1. Inv' /\ EarlyInv /\ [Next]_vars => EarlyInv'
  BY TimersStayMade, EarlyStep DEF EarlyInv, Inv
<1>2. EarlyInv => EarlyIsKept
  BY DEF EarlyInv
<1> QED
  BY <1>1, <1>2, EarlyInit, InvHolds, PTL DEF Spec

=============================================================================
