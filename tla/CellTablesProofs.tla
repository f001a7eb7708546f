-------------------------- MODULE CellTablesProofs --------------------------
(* Theorems about the cell tables, for every set of cells, every topology  *)
(* and every set of requests: for every way in which they overlap, and for *)
(* requests up to the first that does.                                     *)
EXTENDS CellTables, TLAPS

-----------------------------------------------------------------------------
LEMMA TypeInit == Init => TypeOK
<1> SUFFICES ASSUME Init PROVE TypeOK
  OBVIOUS
<1> USE NameAssumption, FileAssumption, RequestAssumption DEF Init, TypeOK, TablesOK, OutputsOK, QuestionOK,
    LocalsOK, Prepared, Names
<1>1. NoFlags \in Flags /\ \A own, f, s : Conflicts(own, f, s) \in Flags
  BY DEF NoFlags, Flags, Conflicts
<1>2. cell \in [Names -> Row \cup {NoRow}]
  BY <1>1 DEF Row
<1>3. list \in [Cells -> (SUBSET Names) \cup {NoRow}]
  OBVIOUS
<1>4. blacklisted \in [Cells -> [Names -> BOOLEAN \cup {None}]]
  OBVIOUS
<1>5. logged \in [Cells -> LogRow \cup {None}]
  OBVIOUS
<1> QED
  <2>1. TablesOK
    BY <1>1, <1>2, <1>3, <1>4, <1>5
  <2>2. OutputsOK
    BY <1>5
  <2>3. QuestionOK
    BY DEF Pc
  <2>4. LocalsOK
    BY <1>1, <1>2
  <2>5. \A t \in Requests : Prepared(t)
    OBVIOUS
  <2> QED
    BY <2>1, <2>2, <2>3, <2>4, <2>5

\* What a row of the operation log tells, whoever asked for the change.
LEMMA LogRowTells ==
    ASSUME logged \in [Cells -> LogRow \cup {None}], NEW c \in Cells,
           NEW src \in {"GUI", "Netconf"}, NEW old \in Nat, NEW new \in Nat,
           AddLogRow(c, src, old, new)
    PROVE  /\ logged' \in [Cells -> LogRow \cup {None}]
           /\ LoggedPci(c)' = IF src = "GUI" THEN new ELSE old
           /\ \A n \in Cells : n # c => LoggedPci(n)' = LoggedPci(n)
<1> DEFINE logRow == [source |-> src, from |-> old, to |-> new]
<1>1. logRow \in LogRow /\ logRow # None
  BY NameAssumption DEF LogRow
<1>2. logRow.source = src /\ logRow.from = old /\ logRow.to = new
  OBVIOUS
<1>3. logged' = [logged EXCEPT ![c] = logRow]
  BY DEF AddLogRow
<1> HIDE DEF logRow
<1>4. logged'[c] = logRow /\ \A n \in Cells : n # c => logged'[n] = logged[n]
  BY <1>3
<1> QED
  BY <1>1, <1>2, <1>3, <1>4 DEF LoggedPci

\* A request goes to a step it is prepared for; the others stay where they are.
LEMMA PreparedGoto ==
    ASSUME TypeOK, NEW t \in Requests, NEW label, Goto(t, label),
           UNCHANGED <<op, target, checking, row>>,
           label \in {"log", "merge", "pciLog", "checkMerge"} => row[t] # NoRow,
           label \in {"log", "merge", "nbrs", "details", "list", "alarm", "update",
                     "pciLog", "dropNbrs", "dropCell"} => op[t] \notin {"topology", None},
           label \in {"checkNbrs", "checkMerge", "event"} => checking[t] # None
    PROVE  \A s \in Requests : Prepared(s)'
<1>1. pc \in [Requests -> Pc] /\ \A s \in Requests : Prepared(s)
  BY DEF TypeOK, QuestionOK
<1>2. ASSUME NEW s \in Requests, s # t PROVE Prepared(s)'
  BY <1>1, <1>2 DEF Prepared, Goto
<1>3. pc'[t] = label
  BY <1>1 DEF Goto
<1>4. Prepared(t)'
  BY <1>1, <1>3 DEF Prepared
<1> QED
  BY <1>2, <1>4

\* A request begins; the others stay where they are.
LEMMA PreparedBegin ==
    ASSUME TypeOK, NEW t \in Requests, NEW o, NEW c, NEW label, Begin(t, o, c, label),
           UNCHANGED checking,
           \A s \in Requests : s # t => row'[s] = row[s],
           label \in {"log", "merge", "pciLog", "checkMerge"} => row'[t] # NoRow,
           label \in {"log", "merge", "nbrs", "details", "list", "alarm", "update",
                     "pciLog", "dropNbrs", "dropCell"} => o # "topology",
           o # "topology" => c # None,
           label \notin {"checkNbrs", "checkMerge", "event"}
    PROVE  \A s \in Requests : Prepared(s)'
<1>1. /\ pc \in [Requests -> Pc] /\ \A s \in Requests : Prepared(s)
      /\ op \in [Requests -> Operations \cup {None}]
      /\ target \in [Requests -> Cells \cup {None}]
  BY DEF TypeOK, QuestionOK
<1>2. ASSUME NEW s \in Requests, s # t PROVE Prepared(s)'
  BY <1>1, <1>2 DEF Prepared, Goto, Begin
<1>3. pc'[t] = label /\ op'[t] = o /\ target'[t] = c
  BY <1>1 DEF Goto, Begin
<1>4. o # None
  BY RequestAssumption DEF Begin, OperationNames
<1>5. Prepared(t)'
  BY <1>3, <1>4 DEF Prepared
<1> QED
  BY <1>2, <1>5

LEMMA TypeStep == TypeOK /\ [Next]_vars => TypeOK'
<1> SUFFICES ASSUME TypeOK, [Next]_vars PROVE TypeOK'
  OBVIOUS
<1> USE NameAssumption, FileAssumption, RequestAssumption
    DEF Answer, tables, outputs, question, locals, OperationNames
<1>p. TablesOK /\ OutputsOK /\ QuestionOK /\ LocalsOK /\ \A t \in Requests : Prepared(t)
  BY DEF TypeOK
<1>1. ASSUME NEW t \in Requests, ModifyACell(t) PROVE TypeOK'
  <2>1. TablesOK'
    BY <1>1, <1>p DEF ModifyACell, TablesOK
  <2>2. OutputsOK'
    BY <1>1, <1>p DEF ModifyACell, OutputsOK
  <2>3. QuestionOK'
    BY <1>1, <1>p DEF ModifyACell, QuestionOK, Pc, Goto, Begin, Names
  <2>4. LocalsOK'
    BY <1>1, <1>p DEF ModifyACell, LocalsOK, ReadRow, TablesOK, Names
  <2>5. \A s \in Requests : Prepared(s)'
    <3>1. PICK c \in Cells, label \in {"update", "log", "nbrs"} :
            /\ Begin(t, "modify", c, label)
            /\ label # "update" => Exists(c)
            /\ row' = [row EXCEPT ![t] = cell[c]]
            /\ UNCHANGED checking
      BY <1>1 DEF ModifyACell, ReadRow
    <3>2. row \in [Requests -> Row \cup {NoRow}] /\ c # None
      BY <1>p DEF LocalsOK
    <3>3. label = "log" => row'[t] # NoRow
      BY <3>1, <3>2 DEF Exists
    <3> QED
      BY <3>1, <3>2, <3>3, PreparedBegin
  <2> QED
    BY <2>1, <2>2, <2>3, <2>4, <2>5 DEF TypeOK
<1>2. ASSUME NEW t \in Requests, LogPci(t) PROVE TypeOK'
  <2>0. target[t] \in Cells
    BY <1>2, <1>p DEF LogPci, Prepared, QuestionOK
  <2>1. TablesOK'
    BY <1>2, <1>p DEF LogPci, TablesOK
  <2>2. OutputsOK'
    <3>1. row[t].pci \in Nat /\ pci[t] \in Nat
      BY <1>2, <1>p DEF LogPci, Prepared, LocalsOK, QuestionOK, Row
    <3>2. AddLogRow(target[t], "GUI", row[t].pci, pci[t])
      BY <1>2 DEF LogPci
    <3>3. logged' \in [Cells -> LogRow \cup {None}]
      BY <1>p, <2>0, <3>1, <3>2, LogRowTells DEF OutputsOK
    <3> QED
      BY <1>2, <1>p, <3>3 DEF LogPci, OutputsOK
  <2>3. QuestionOK'
    BY <1>2, <1>p DEF LogPci, QuestionOK, Pc, Goto
  <2>4. LocalsOK'
    BY <1>2, <1>p DEF LogPci, LocalsOK
  <2>5. \A s \in Requests : Prepared(s)'
    BY <1>2, <1>p, PreparedGoto DEF LogPci, Prepared
  <2> QED
    BY <2>1, <2>2, <2>3, <2>4, <2>5 DEF TypeOK
<1>3. ASSUME NEW t \in Requests, MergeCell(t) PROVE TypeOK'
  <2>0. target[t] \in Cells
    BY <1>3, <1>p DEF MergeCell, Prepared, QuestionOK
  <2>1. TablesOK'
    <3>1. row[t] \in Row /\ pci[t] \in Nat /\ target[t] \in Names
      BY <1>3, <1>p, <2>0 DEF MergeCell, Prepared, LocalsOK, QuestionOK, Names
    <3>2. [row[t] EXCEPT !.pci = pci[t]] \in Row
      BY <3>1 DEF Row
    <3> QED
      BY <1>3, <1>p, <3>1, <3>2 DEF MergeCell, TablesOK
  <2>2. OutputsOK'
    BY <1>3, <1>p DEF MergeCell, OutputsOK
  <2>3. QuestionOK'
    BY <1>3, <1>p DEF MergeCell, QuestionOK, Pc, Goto
  <2>4. LocalsOK'
    BY <1>3, <1>p DEF MergeCell, LocalsOK
  <2>5. \A s \in Requests : Prepared(s)'
    BY <1>3, <1>p, PreparedGoto DEF MergeCell, Prepared
  <2> QED
    BY <2>1, <2>2, <2>3, <2>4, <2>5 DEF TypeOK
<1>4. ASSUME NEW t \in Requests, ReadNeighbors(t) PROVE TypeOK'
  <2>0. target[t] \in Cells
    BY <1>4, <1>p DEF ReadNeighbors, Prepared, QuestionOK
  <2>1. TablesOK'
    BY <1>4, <1>p DEF ReadNeighbors, TablesOK
  <2>2. OutputsOK'
    BY <1>4, <1>p DEF ReadNeighbors, OutputsOK
  <2>3. QuestionOK'
    <3>1. (Goto(t, "done") \/ Goto(t, "details")) /\ UNCHANGED question
      BY <1>4 DEF ReadNeighbors
    <3> QED
      BY <1>p, <3>1 DEF QuestionOK, Pc, Goto
  <2>4. LocalsOK'
    <3> DEFINE c == target[t]
               gone == HandoverNbrs(c) \ nbrs[t]
               added == nbrs[t] \ HandoverNbrs(c)
               rows == [nbr : gone, blacklisted : {TRUE}]
                       \cup [nbr : added, blacklisted : {FALSE}]
    <3>1. \/ UNCHANGED <<details, newList>> /\ result' = [result EXCEPT ![t] = 500]
          \/ /\ list[c] # NoRow
             /\ details' = [details EXCEPT ![t] = rows]
             /\ newList' = [newList EXCEPT ![t] = list[c] \cup added]
             /\ UNCHANGED result
      BY <1>4 DEF ReadNeighbors
    <3>2. UNCHANGED <<row, checks, checking, flags, issues>>
      BY <1>4 DEF ReadNeighbors
    <3>3. nbrs[t] \subseteq Names /\ (list[c] # NoRow => list[c] \subseteq Names)
      BY <1>p, <2>0 DEF TablesOK, QuestionOK
    <3>4. list[c] # NoRow => gone \subseteq Names /\ added \subseteq Names
      BY <3>3 DEF HandoverNbrs
    <3> HIDE DEF gone, added, c
    <3>5. list[c] # NoRow => rows \subseteq Detail
      BY <3>4 DEF Detail
    <3> HIDE DEF rows
    <3> QED
      BY <1>p, <3>1, <3>2, <3>3, <3>4, <3>5 DEF LocalsOK
  <2>5. \A s \in Requests : Prepared(s)'
    <3>1. /\ Goto(t, "done") \/ Goto(t, "details")
          /\ pc[t] = "nbrs" /\ UNCHANGED <<op, target, checking, row>>
      BY <1>4 DEF ReadNeighbors
    <3> QED
      BY <1>p, <3>1, PreparedGoto DEF Prepared
  <2> QED
    BY <2>1, <2>2, <2>3, <2>4, <2>5 DEF TypeOK
<1>5. ASSUME NEW t \in Requests, MergeDetail(t) PROVE TypeOK'
  <2>0. target[t] \in Cells
    BY <1>5, <1>p DEF MergeDetail, Prepared, QuestionOK
  <2>1. TablesOK'
    <3>1. PICK d \in details[t] :
            blacklisted' = [blacklisted EXCEPT ![target[t]][d.nbr] = d.blacklisted]
      BY <1>5 DEF MergeDetail
    <3>2. d.nbr \in Names /\ d.blacklisted \in BOOLEAN \cup {None}
      BY <1>p, <3>1 DEF LocalsOK, Detail
    <3>3. UNCHANGED <<cell, list>>
      BY <1>5 DEF MergeDetail
    <3> QED
      BY <1>p, <2>0, <3>1, <3>2, <3>3 DEF TablesOK
  <2>2. OutputsOK'
    BY <1>5, <1>p DEF MergeDetail, OutputsOK
  <2>3. QuestionOK'
    BY <1>5, <1>p DEF MergeDetail, QuestionOK, Pc, Goto
  <2>4. LocalsOK'
    BY <1>5, <1>p DEF MergeDetail, LocalsOK
  <2>5. \A s \in Requests : Prepared(s)'
    BY <1>5, <1>p DEF MergeDetail, Prepared, ReadRow, Goto, QuestionOK, LocalsOK, Names
  <2> QED
    BY <2>1, <2>2, <2>3, <2>4, <2>5 DEF TypeOK
<1>6. ASSUME NEW t \in Requests, DetailsMerged(t) PROVE TypeOK'
  <2>1. TablesOK'
    BY <1>6, <1>p DEF DetailsMerged, TablesOK
  <2>2. OutputsOK'
    BY <1>6, <1>p DEF DetailsMerged, OutputsOK
  <2>3. QuestionOK'
    BY <1>6, <1>p DEF DetailsMerged, QuestionOK, Pc, Goto
  <2>4. LocalsOK'
    BY <1>6, <1>p DEF DetailsMerged, LocalsOK
  <2>5. \A s \in Requests : Prepared(s)'
    BY <1>6, <1>p, PreparedGoto DEF DetailsMerged, Prepared
  <2> QED
    BY <2>1, <2>2, <2>3, <2>4, <2>5 DEF TypeOK
<1>7. ASSUME NEW t \in Requests, MergeList(t) PROVE TypeOK'
  <2>0. target[t] \in Cells
    BY <1>7, <1>p DEF MergeList, Prepared, QuestionOK
  <2>1. TablesOK'
    BY <1>7, <1>p, <2>0 DEF MergeList, TablesOK, LocalsOK
  <2>2. OutputsOK'
    BY <1>7, <1>p DEF MergeList, OutputsOK
  <2>3. QuestionOK'
    BY <1>7, <1>p DEF MergeList, QuestionOK, Pc, Goto
  <2>4. LocalsOK'
    <3>1. {target[t]} \cup newList[t] \in SUBSET Names
      BY <1>p, <2>0 DEF LocalsOK, Names
    <3> QED
      BY <1>7, <1>p, <3>1 DEF MergeList, LocalsOK
  <2>5. \A s \in Requests : Prepared(s)'
    BY <1>7, <1>p, PreparedGoto DEF MergeList, Prepared
  <2> QED
    BY <2>1, <2>2, <2>3, <2>4, <2>5 DEF TypeOK
<1>8. ASSUME NEW t \in Requests, CheckNext(t) PROVE TypeOK'
  <2>1. TablesOK'
    BY <1>8, <1>p DEF CheckNext, TablesOK
  <2>2. OutputsOK'
    BY <1>8, <1>p DEF CheckNext, OutputsOK
  <2>3. QuestionOK'
    BY <1>8, <1>p DEF CheckNext, QuestionOK, Pc, Goto
  <2>4. LocalsOK'
    BY <1>8, <1>p DEF CheckNext, LocalsOK, ReadRow, TablesOK, Names
  <2>5. \A s \in Requests : Prepared(s)'
    BY <1>8, <1>p DEF CheckNext, Prepared, ReadRow, Goto, QuestionOK, LocalsOK, Names
  <2> QED
    BY <2>1, <2>2, <2>3, <2>4, <2>5 DEF TypeOK
<1>9. ASSUME NEW t \in Requests, CheckNeighbors(t) PROVE TypeOK'
  <2>1. TablesOK'
    BY <1>9, <1>p DEF CheckNeighbors, TablesOK
  <2>2. OutputsOK'
    BY <1>9, <1>p DEF CheckNeighbors, OutputsOK
  <2>3. QuestionOK'
    BY <1>9, <1>p DEF CheckNeighbors, QuestionOK, Pc, Goto
  <2>4. LocalsOK'
    <3>1. \A n, own : FlagsOf(n, own) \in Flags
      BY DEF FlagsOf, Conflicts, Flags
    <3> QED
      BY <1>9, <1>p, <3>1 DEF CheckNeighbors, LocalsOK
  <2>5. \A s \in Requests : Prepared(s)'
    BY <1>9, <1>p, PreparedGoto DEF CheckNeighbors, Prepared
  <2> QED
    BY <2>1, <2>2, <2>3, <2>4, <2>5 DEF TypeOK
<1>10. ASSUME NEW t \in Requests, CheckMerge(t) PROVE TypeOK'
  <2>0. checking[t] \in Names /\ row[t] \in Row /\ flags[t] \in Flags
    BY <1>10, <1>p DEF CheckMerge, Prepared, LocalsOK
  <2>1. TablesOK'
    <3>1. [row[t] EXCEPT !.flags = flags[t]] \in Row
      BY <2>0 DEF Row
    <3> QED
      BY <1>10, <1>p, <2>0, <3>1 DEF CheckMerge, TablesOK
  <2>2. OutputsOK'
    BY <1>10, <1>p DEF CheckMerge, OutputsOK
  <2>3. QuestionOK'
    BY <1>10, <1>p DEF CheckMerge, QuestionOK, Pc, Goto
  <2>4. LocalsOK'
    BY <1>10, <1>p DEF CheckMerge, LocalsOK
  <2>5. \A s \in Requests : Prepared(s)'
    BY <1>10, <1>p, PreparedGoto DEF CheckMerge, Prepared
  <2> QED
    BY <2>1, <2>2, <2>3, <2>4, <2>5 DEF TypeOK
<1>11. ASSUME NEW t \in Requests, FmEvent(t) PROVE TypeOK'
  <2>1. TablesOK'
    BY <1>11, <1>p DEF FmEvent, TablesOK
  <2>2. OutputsOK'
    BY <1>11, <1>p DEF FmEvent, OutputsOK
  <2>3. QuestionOK'
    BY <1>11, <1>p DEF FmEvent, QuestionOK, Pc, Goto
  <2>4. LocalsOK'
    <3>1. checking[t] \in Names
      BY <1>11, <1>p DEF FmEvent, Prepared, LocalsOK
    <3> QED
      BY <1>11, <1>p, <3>1 DEF FmEvent, LocalsOK
  <2>5. \A s \in Requests : Prepared(s)'
    BY <1>11, <1>p, PreparedGoto DEF FmEvent, Prepared
  <2> QED
    BY <2>1, <2>2, <2>3, <2>4, <2>5 DEF TypeOK
<1>12. ASSUME NEW t \in Requests, Checked(t) PROVE TypeOK'
  <2>1. TablesOK'
    BY <1>12, <1>p DEF Checked, TablesOK
  <2>2. OutputsOK'
    BY <1>12, <1>p DEF Checked, OutputsOK
  <2>3. QuestionOK'
    BY <1>12, <1>p DEF Checked, QuestionOK, Pc, Goto
  <2>4. LocalsOK'
    BY <1>12, <1>p DEF Checked, LocalsOK
  <2>5. \A s \in Requests : Prepared(s)'
    BY <1>12, <1>p, PreparedGoto DEF Checked, Prepared
  <2> QED
    BY <2>1, <2>2, <2>3, <2>4, <2>5 DEF TypeOK
<1>13. ASSUME NEW t \in Requests, SendAlarms(t) PROVE TypeOK'
  <2>0. target[t] \in Cells
    BY <1>13, <1>p DEF SendAlarms, Prepared, QuestionOK
  <2>1. TablesOK'
    BY <1>13, <1>p DEF SendAlarms, TablesOK
  <2>2. OutputsOK'
    BY <1>13, <1>p, <2>0 DEF SendAlarms, OutputsOK, LocalsOK
  <2>3. QuestionOK'
    BY <1>13, <1>p DEF SendAlarms, QuestionOK, Pc, Goto
  <2>4. LocalsOK'
    BY <1>13, <1>p DEF SendAlarms, LocalsOK
  <2>5. \A s \in Requests : Prepared(s)'
    BY <1>13, <1>p, PreparedGoto DEF SendAlarms, Prepared
  <2> QED
    BY <2>1, <2>2, <2>3, <2>4, <2>5 DEF TypeOK
<1>14. ASSUME NEW t \in Requests, SendUpdateCell(t) PROVE TypeOK'
  <2>0. target[t] \in Cells
    BY <1>14, <1>p DEF SendUpdateCell, Prepared, QuestionOK
  <2>1. TablesOK'
    BY <1>14, <1>p DEF SendUpdateCell, TablesOK
  <2>2. OutputsOK'
    <3>1. PICK told \in {pci[t], NoSession, None} :
            updateCell' = [updateCell EXCEPT ![target[t]] = told]
      BY <1>14 DEF SendUpdateCell
    <3>2. told \in Nat \cup {None, NoSession}
      BY <1>p DEF QuestionOK
    <3> QED
      BY <1>14, <1>p, <2>0, <3>1, <3>2 DEF SendUpdateCell, OutputsOK
  <2>3. QuestionOK'
    BY <1>14, <1>p DEF SendUpdateCell, QuestionOK, Pc, Goto
  <2>4. LocalsOK'
    BY <1>14, <1>p DEF SendUpdateCell, LocalsOK
  <2>5. \A s \in Requests : Prepared(s)'
    BY <1>14, <1>p, PreparedGoto DEF SendUpdateCell, Prepared
  <2> QED
    BY <2>1, <2>2, <2>3, <2>4, <2>5 DEF TypeOK
<1>15. ASSUME NEW t \in Requests, DeleteACell(t) PROVE TypeOK'
  <2>1. TablesOK'
    BY <1>15, <1>p DEF DeleteACell, TablesOK
  <2>2. OutputsOK'
    BY <1>15, <1>p DEF DeleteACell, OutputsOK
  <2>3. QuestionOK'
    BY <1>15, <1>p DEF DeleteACell, QuestionOK, Pc, Goto, Begin
  <2>4. LocalsOK'
    BY <1>15, <1>p DEF DeleteACell, LocalsOK, ReadRow, TablesOK, Names
  <2>5. \A s \in Requests : Prepared(s)'
    <3>1. PICK c \in Cells, label \in {"done", "dropCell", "dropNbrs"} :
            /\ Begin(t, "delete", c, label)
            /\ row' = [row EXCEPT ![t] = cell[c]]
            /\ UNCHANGED checking
      BY <1>15 DEF DeleteACell, ReadRow
    <3>2. row \in [Requests -> Row \cup {NoRow}] /\ c # None
      BY <1>p DEF LocalsOK
    <3> QED
      BY <3>1, <3>2, PreparedBegin
  <2> QED
    BY <2>1, <2>2, <2>3, <2>4, <2>5 DEF TypeOK
<1>16. ASSUME NEW t \in Requests, DropNeighbors(t) PROVE TypeOK'
  <2>0. target[t] \in Cells
    BY <1>16, <1>p DEF DropNeighbors, Prepared, QuestionOK
  <2>1. TablesOK'
    <3>1. list' = [list EXCEPT ![target[t]] = NoRow] /\ UNCHANGED <<cell, blacklisted>>
      BY <1>16 DEF DropNeighbors
    <3> QED
      BY <1>p, <2>0, <3>1 DEF TablesOK
  <2>2. OutputsOK'
    BY <1>16, <1>p DEF DropNeighbors, OutputsOK
  <2>3. QuestionOK'
    BY <1>16, <1>p DEF DropNeighbors, QuestionOK, Pc, Goto
  <2>4. LocalsOK'
    BY <1>16, <1>p DEF DropNeighbors, LocalsOK
  <2>5. \A s \in Requests : Prepared(s)'
    BY <1>16, <1>p, PreparedGoto DEF DropNeighbors, Prepared
  <2> QED
    BY <2>1, <2>2, <2>3, <2>4, <2>5 DEF TypeOK
<1>17. ASSUME NEW t \in Requests, DropCell(t) PROVE TypeOK'
  <2>0. target[t] \in Cells
    BY <1>17, <1>p DEF DropCell, Prepared, QuestionOK
  <2>1. TablesOK'
    BY <1>17, <1>p, <2>0 DEF DropCell, TablesOK
  <2>2. OutputsOK'
    BY <1>17, <1>p DEF DropCell, OutputsOK
  <2>3. QuestionOK'
    BY <1>17, <1>p DEF DropCell, QuestionOK, Pc, Goto
  <2>4. LocalsOK'
    BY <1>17, <1>p DEF DropCell, LocalsOK
  <2>5. \A s \in Requests : Prepared(s)'
    BY <1>17, <1>p, PreparedGoto DEF DropCell, Prepared
  <2> QED
    BY <2>1, <2>2, <2>3, <2>4, <2>5 DEF TypeOK
<1>18. ASSUME NEW t \in Requests, ModifyPci(t) PROVE TypeOK'
  <2>1. TablesOK'
    BY <1>18, <1>p DEF ModifyPci, TablesOK
  <2>2. OutputsOK'
    BY <1>18, <1>p DEF ModifyPci, OutputsOK
  <2>3. QuestionOK'
    BY <1>18, <1>p DEF ModifyPci, QuestionOK, Pc, Goto, Begin
  <2>4. LocalsOK'
    BY <1>18, <1>p DEF ModifyPci, LocalsOK, ReadRow, TablesOK, Names
  <2>5. \A s \in Requests : Prepared(s)'
    <3>1. PICK c \in Cells, label \in {"merge", "done"} :
            /\ Begin(t, "sdnrPci", c, label)
            /\ label = IF Exists(c) THEN "merge" ELSE "done"
            /\ row' = [row EXCEPT ![t] = cell[c]]
            /\ UNCHANGED checking
      BY <1>18 DEF ModifyPci, ReadRow
    <3>2. row \in [Requests -> Row \cup {NoRow}] /\ c # None
      BY <1>p DEF LocalsOK
    <3>3. label = "merge" => row'[t] # NoRow
      BY <3>1, <3>2 DEF Exists
    <3> QED
      BY <3>1, <3>2, <3>3, PreparedBegin
  <2> QED
    BY <2>1, <2>2, <2>3, <2>4, <2>5 DEF TypeOK
<1>19. ASSUME NEW t \in Requests, LogSdnrPci(t) PROVE TypeOK'
  <2>0. target[t] \in Cells
    BY <1>19, <1>p DEF LogSdnrPci, Prepared, QuestionOK
  <2>1. TablesOK'
    BY <1>19, <1>p DEF LogSdnrPci, TablesOK
  <2>2. OutputsOK'
    <3>1. row[t].pci \in Nat /\ pci[t] \in Nat
      BY <1>19, <1>p DEF LogSdnrPci, Prepared, LocalsOK, QuestionOK, Row
    <3>2. AddLogRow(target[t], "Netconf", pci[t], row[t].pci)
      BY <1>19 DEF LogSdnrPci
    <3>3. logged' \in [Cells -> LogRow \cup {None}]
      BY <1>p, <2>0, <3>1, <3>2, LogRowTells DEF OutputsOK
    <3> QED
      BY <1>19, <1>p, <3>3 DEF LogSdnrPci, OutputsOK
  <2>3. QuestionOK'
    BY <1>19, <1>p DEF LogSdnrPci, QuestionOK, Pc, Goto
  <2>4. LocalsOK'
    BY <1>19, <1>p DEF LogSdnrPci, LocalsOK
  <2>5. \A s \in Requests : Prepared(s)'
    BY <1>19, <1>p, PreparedGoto DEF LogSdnrPci, Prepared
  <2> QED
    BY <2>1, <2>2, <2>3, <2>4, <2>5 DEF TypeOK
<1>20. ASSUME NEW t \in Requests, ModifyAnr(t) PROVE TypeOK'
  <2>1. TablesOK'
    BY <1>20, <1>p DEF ModifyAnr, TablesOK
  <2>2. OutputsOK'
    BY <1>20, <1>p DEF ModifyAnr, OutputsOK
  <2>3. QuestionOK'
    BY <1>20, <1>p DEF ModifyAnr, QuestionOK, Pc, Goto, Begin, Names
  <2>4. LocalsOK'
    BY <1>20, <1>p DEF ModifyAnr, LocalsOK, Detail, TablesOK, Names
  <2>5. \A s \in Requests : Prepared(s)'
    <3>1. PICK c \in Cells : Begin(t, "sdnrNbr", c, "details") /\ UNCHANGED <<checking, row>>
      BY <1>20 DEF ModifyAnr
    <3>2. c # None
      OBVIOUS
    <3> QED
      BY <3>1, <3>2, PreparedBegin
  <2> QED
    BY <2>1, <2>2, <2>3, <2>4, <2>5 DEF TypeOK
<1>21. ASSUME NEW t \in Requests, GetTopology(t) PROVE TypeOK'
  <2>1. TablesOK'
    BY <1>21, <1>p DEF GetTopology, TablesOK
  <2>2. OutputsOK'
    BY <1>21, <1>p DEF GetTopology, OutputsOK
  <2>3. QuestionOK'
    BY <1>21, <1>p DEF GetTopology, QuestionOK, Pc, Goto, Begin
  <2>4. LocalsOK'
    BY <1>21, <1>p DEF GetTopology, LocalsOK, QuestionOK, Names
  <2>5. \A s \in Requests : Prepared(s)'
    <3>1. Begin(t, "topology", None, "check") /\ UNCHANGED <<checking, row>>
      BY <1>21 DEF GetTopology
    <3> QED
      BY <3>1, PreparedBegin
  <2> QED
    BY <2>1, <2>2, <2>3, <2>4, <2>5 DEF TypeOK
<1>22. CASE UNCHANGED vars
  BY <1>p, <1>22 DEF vars, TypeOK, TablesOK, OutputsOK, QuestionOK, LocalsOK, Prepared
<1> QED
  BY <1>1, <1>2, <1>3, <1>4, <1>5, <1>6, <1>7, <1>8, <1>9, <1>10, <1>11, <1>12,
     <1>13, <1>14, <1>15, <1>16, <1>17, <1>18, <1>19, <1>20, <1>21, <1>22
  DEF Next, Modify, Check, Delete, Message

\* The tables and the requests are well typed; a request that merges a row has
\* read one.
THEOREM TypeCorrect == Spec => []TypeOK
  BY TypeInit, TypeStep, PTL DEF Spec

-----------------------------------------------------------------------------
\* ListedIsDetailed needs, of the list that ModifyACell will merge, that each
\* neighbor has its row or will have it before.
Pending(t) ==
    \/ pc[t] = "list"
    \/ op[t] = "modify" /\ pc[t] = "details"

PendingIsDetailed == \A t \in Requests : Pending(t) =>
    \A n \in newList[t] :
        \/ blacklisted[target[t]][n] # None
        \/ pc[t] = "details" /\ \E d \in details[t] : d.nbr = n

DetailInv == TypeOK /\ ListedIsDetailed /\ PendingIsDetailed

LEMMA DetailInit == Init => DetailInv
<1> SUFFICES ASSUME Init PROVE DetailInv
  OBVIOUS
<1>1. ListedIsDetailed
  <2> SUFFICES ASSUME NEW c \in Cells, NEW n \in InitNbrs[c]
               PROVE  blacklisted[c][n] # None
    BY DEF ListedIsDetailed, Init
  <2>1. n \in Names /\ FALSE # None
    BY NameAssumption, FileAssumption DEF Names
  <2>2. blacklisted[c][n] = FALSE
    BY <2>1 DEF Init
  <2> QED
    BY <2>1, <2>2
<1>2. PendingIsDetailed
  BY DEF Init, PendingIsDetailed, Pending
<1> QED
  BY <1>1, <1>2, TypeInit DEF DetailInv

\* NeighborDetails rows are merged and never deleted.
LEMMA DetailsAreKept ==
    ASSUME TypeOK, [Next]_vars
    PROVE  \A c \in Cells : \A n \in Names :
             blacklisted[c][n] # None => blacklisted'[c][n] # None
<1>1. ASSUME NEW t \in Requests, MergeDetail(t)
      PROVE  \A c \in Cells : \A n \in Names :
               blacklisted[c][n] # None => blacklisted'[c][n] # None
  <2>1. PICK d \in details[t] :
          blacklisted' = [blacklisted EXCEPT ![target[t]][d.nbr] = d.blacklisted]
    BY <1>1 DEF MergeDetail
  <2>2. d.blacklisted # None
    BY <2>1, NameAssumption DEF TypeOK, LocalsOK, Detail
  <2>3. blacklisted \in [Cells -> [Names -> BOOLEAN \cup {None}]]
    BY DEF TypeOK, TablesOK
  <2> QED
    BY <2>1, <2>2, <2>3
<1>2. CASE UNCHANGED blacklisted
  BY <1>2
<1>3. \/ \E t \in Requests : MergeDetail(t)
      \/ UNCHANGED blacklisted
  <2>1. ASSUME NEW t \in Requests,
               ModifyACell(t) \/ LogPci(t) \/ MergeCell(t) \/ ReadNeighbors(t)
               \/ DetailsMerged(t) \/ MergeList(t) \/ SendAlarms(t) \/ SendUpdateCell(t)
        PROVE  UNCHANGED blacklisted
    BY <2>1 DEF ModifyACell, LogPci, MergeCell, ReadNeighbors, DetailsMerged, MergeList,
                SendAlarms, SendUpdateCell, tables
  <2>2. ASSUME NEW t \in Requests, Check(t) \/ Delete(t) PROVE UNCHANGED blacklisted
    BY <2>2 DEF Check, Delete, CheckNext, CheckNeighbors, CheckMerge, FmEvent, Checked,
                DeleteACell, DropNeighbors, DropCell, tables
  <2>3. ASSUME NEW t \in Requests, Message(t) \/ GetTopology(t)
        PROVE  UNCHANGED blacklisted
    BY <2>3 DEF Message, ModifyPci, LogSdnrPci, ModifyAnr, GetTopology, tables
  <2> QED
    BY <2>1, <2>2, <2>3 DEF Next, Modify, vars, tables
<1> QED
  BY <1>1, <1>2, <1>3

LEMMA PendingIsPrepared ==
    ASSUME TypeOK, NEW t \in Requests, Pending(t)
    PROVE  target[t] \in Cells /\ newList[t] \subseteq Names
<1>1. CASE pc[t] = "list"
  BY <1>1 DEF TypeOK, Prepared, QuestionOK, LocalsOK
<1>2. CASE op[t] = "modify" /\ pc[t] = "details"
  BY <1>2 DEF TypeOK, Prepared, QuestionOK, LocalsOK
<1> QED
  BY <1>1, <1>2 DEF Pending

\* A step of one request that is not one of the three that fill, use or finish
\* the rows to be merged: whatever is pending was pending, unchanged.
LEMMA PendingIsKept ==
    ASSUME TypeOK, PendingIsDetailed, [Next]_vars,
           \A s \in Requests : Pending(s)' =>
               /\ Pending(s)
               /\ UNCHANGED <<pc[s], newList[s], target[s], details[s]>>
    PROVE  PendingIsDetailed'
<1> SUFFICES ASSUME NEW s \in Requests, Pending(s)', NEW n \in newList'[s]
             PROVE  \/ blacklisted'[target'[s]][n] # None
                    \/ pc'[s] = "details" /\ \E d \in details'[s] : d.nbr = n
  BY DEF PendingIsDetailed
<1>1. /\ Pending(s) /\ pc'[s] = pc[s] /\ newList'[s] = newList[s]
      /\ target'[s] = target[s] /\ details'[s] = details[s]
  OBVIOUS
<1>2. target[s] \in Cells /\ n \in Names
  BY <1>1, PendingIsPrepared
<1>3. \/ blacklisted[target[s]][n] # None
      \/ pc[s] = "details" /\ \E d \in details[s] : d.nbr = n
  BY <1>1 DEF PendingIsDetailed
<1> QED
  BY <1>1, <1>2, <1>3, DetailsAreKept

\* Only ModifyACell and DeleteACell touch the lists.
LEMMA ListChanges ==
    [Next]_vars => (\E t \in Requests : MergeList(t) \/ DropNeighbors(t)) \/ UNCHANGED list
<1>1. ASSUME NEW t \in Requests,
             ModifyACell(t) \/ LogPci(t) \/ MergeCell(t) \/ ReadNeighbors(t)
             \/ MergeDetail(t) \/ DetailsMerged(t) \/ SendAlarms(t) \/ SendUpdateCell(t)
      PROVE  UNCHANGED list
  BY <1>1 DEF ModifyACell, LogPci, MergeCell, ReadNeighbors, MergeDetail, DetailsMerged,
              SendAlarms, SendUpdateCell, tables
<1>2. ASSUME NEW t \in Requests, Check(t) \/ DeleteACell(t) \/ DropCell(t)
      PROVE  UNCHANGED list
  BY <1>2 DEF Check, CheckNext, CheckNeighbors, CheckMerge, FmEvent, Checked,
              DeleteACell, DropCell, tables
<1>3. ASSUME NEW t \in Requests, Message(t) \/ GetTopology(t)
      PROVE  UNCHANGED list
  BY <1>3 DEF Message, ModifyPci, LogSdnrPci, ModifyAnr, GetTopology, tables
<1> QED
  BY <1>1, <1>2, <1>3 DEF Next, Modify, Delete, vars, tables

LEMMA ListedStep == DetailInv /\ [Next]_vars => ListedIsDetailed'
<1> SUFFICES ASSUME DetailInv, [Next]_vars, NEW c \in Cells, list'[c] # NoRow,
                    NEW n \in list'[c]
             PROVE  blacklisted'[c][n] # None
  BY DEF ListedIsDetailed
<1>1. list \in [Cells -> (SUBSET Names) \cup {NoRow}] /\ TypeOK
  BY DEF DetailInv, TypeOK, TablesOK
<1>2. CASE list'[c] = list[c]
  <2>1. blacklisted[c][n] # None /\ n \in Names
    BY <1>1, <1>2 DEF DetailInv, ListedIsDetailed
  <2> QED
    BY <1>1, <2>1, DetailsAreKept
<1>3. ASSUME NEW t \in Requests, MergeList(t), list'[c] # list[c]
      PROVE  blacklisted'[c][n] # None
  <2>1. pc[t] = "list" /\ c = target[t] /\ n \in newList[t] /\ UNCHANGED blacklisted
    BY <1>1, <1>3 DEF MergeList
  <2>2. Pending(t)
    BY <2>1 DEF Pending
  <2>3. blacklisted[target[t]][n] # None
    BY <2>1, <2>2 DEF DetailInv, PendingIsDetailed
  <2> QED
    BY <2>1, <2>3
<1>4. ASSUME NEW t \in Requests, DropNeighbors(t) PROVE list'[c] = list[c]
  BY <1>1, <1>4 DEF DropNeighbors
<1> QED
  BY <1>2, <1>3, <1>4, ListChanges

LEMMA PendingStep == DetailInv /\ [Next]_vars => PendingIsDetailed'
<1> SUFFICES ASSUME DetailInv, [Next]_vars PROVE PendingIsDetailed'
  OBVIOUS
<1>1. /\ TypeOK /\ ListedIsDetailed /\ PendingIsDetailed
      /\ pc \in [Requests -> Pc] /\ op \in [Requests -> Operations \cup {None}]
      /\ target \in [Requests -> Cells \cup {None}]
      /\ newList \in [Requests -> SUBSET Names]
      /\ details \in [Requests -> SUBSET Detail]
  BY DEF DetailInv, TypeOK, QuestionOK, LocalsOK
<1>2. ASSUME NEW t \in Requests, ReadNeighbors(t) PROVE PendingIsDetailed'
  <2> SUFFICES ASSUME NEW s \in Requests, Pending(s)', NEW n \in newList'[s]
               PROVE  \/ blacklisted'[target'[s]][n] # None
                      \/ pc'[s] = "details" /\ \E d \in details'[s] : d.nbr = n
    BY DEF PendingIsDetailed
  <2>1. UNCHANGED <<op, target, blacklisted, list>>
    BY <1>2 DEF ReadNeighbors, question, tables
  <2>2. CASE s # t
    <3>1. /\ \E p \in {"details", "done"} : pc' = [pc EXCEPT ![t] = p]
          /\ \E S : newList' = [newList EXCEPT ![t] = S] \/ newList' = newList
          /\ \E D : details' = [details EXCEPT ![t] = D] \/ details' = details
      BY <1>2 DEF ReadNeighbors, Goto, Answer
    <3>2. /\ pc'[s] = pc[s] /\ newList'[s] = newList[s] /\ details'[s] = details[s]
      BY <1>1, <2>2, <3>1
    <3> QED
      BY <1>1, <2>1, <3>2 DEF PendingIsDetailed, Pending
  <2>3. CASE s = t
    <3> DEFINE c == target[t]
               added == nbrs[t] \ HandoverNbrs(c)
    <3>1. /\ pc'[t] = "details" /\ list[c] # NoRow
          /\ newList'[t] = list[c] \cup added
          /\ \A m \in added : \E d \in details'[t] : d.nbr = m
          /\ pc[t] = "nbrs"
      <4>1. pc'[t] # "done"
        BY <2>3 DEF Pending
      <4>2. /\ list[c] # NoRow /\ Goto(t, "details") /\ pc[t] = "nbrs"
            /\ newList' = [newList EXCEPT ![t] = list[c] \cup added]
            /\ details' = [details EXCEPT ![t] =
                             [nbr : HandoverNbrs(c) \ nbrs[t], blacklisted : {TRUE}]
                             \cup [nbr : added, blacklisted : {FALSE}]]
        <5>1. CASE list[c] = NoRow /\ Answer(t, 500)
          <6>1. pc'[t] = "done"
            BY <1>1, <5>1 DEF Answer, Goto
          <6> QED
            BY <4>1, <6>1
        <5> QED
          BY <1>2, <5>1 DEF ReadNeighbors
      <4>3. \A m \in added : [nbr |-> m, blacklisted |-> FALSE] \in details'[t]
        BY <1>1, <4>2
      <4> QED
        BY <1>1, <4>2, <4>3 DEF Goto
    <3>2. c \in Cells
      BY <1>1, <3>1 DEF TypeOK, Prepared
    <3>3. CASE n \in added
      <4>1. \E d \in details'[s] : d.nbr = n
        BY <2>3, <3>1, <3>3
      <4> QED
        BY <2>3, <3>1, <4>1
    <3>4. CASE n \in list[c]
      <4>1. blacklisted[c][n] # None
        BY <1>1, <3>1, <3>2, <3>4 DEF ListedIsDetailed
      <4> QED
        BY <2>1, <2>3, <4>1
    <3> QED
      BY <2>3, <3>1, <3>3, <3>4
  <2> QED
    BY <2>2, <2>3
<1>3. ASSUME NEW t \in Requests, MergeDetail(t) PROVE PendingIsDetailed'
  <2> SUFFICES ASSUME NEW s \in Requests, Pending(s)', NEW n \in newList'[s]
               PROVE  \/ blacklisted'[target'[s]][n] # None
                      \/ pc'[s] = "details" /\ \E d \in details'[s] : d.nbr = n
    BY DEF PendingIsDetailed
  <2>1. PICK d \in details[t] :
          /\ blacklisted' = [blacklisted EXCEPT ![target[t]][d.nbr] = d.blacklisted]
          /\ details' = [details EXCEPT ![t] = @ \ {d}]
          /\ UNCHANGED <<pc, op, target, newList>>
    BY <1>3 DEF MergeDetail, question
  <2>2. Pending(s) /\ target[s] \in Cells /\ n \in Names /\ n \in newList[s]
    BY <1>1, <2>1, PendingIsPrepared DEF Pending
  <2>3. CASE blacklisted[target[s]][n] # None
    BY <1>1, <2>1, <2>2, <2>3, DetailsAreKept
  <2>4. CASE blacklisted[target[s]][n] = None
    <3>1. PICK e \in details[s] : pc[s] = "details" /\ e.nbr = n
      BY <1>1, <2>2, <2>4 DEF PendingIsDetailed
    <3>2. CASE s = t /\ e = d
      <4>1. d.blacklisted # None
        BY <1>1, <2>1, NameAssumption DEF Detail
      <4>2. blacklisted'[target[s]][n] = d.blacklisted
        BY <2>1, <2>2, <3>1, <3>2 DEF DetailInv, TypeOK, TablesOK
      <4> QED
        BY <2>1, <4>1, <4>2
    <3>3. CASE ~(s = t /\ e = d)
      <4>1. e \in details'[s]
        BY <1>1, <2>1, <3>1, <3>3
      <4> QED
        BY <2>1, <3>1, <4>1
    <3> QED
      BY <3>2, <3>3
  <2> QED
    BY <2>3, <2>4
<1>4. ASSUME NEW t \in Requests, DetailsMerged(t) PROVE PendingIsDetailed'
  <2> SUFFICES ASSUME NEW s \in Requests, Pending(s)', NEW n \in newList'[s]
               PROVE  \/ blacklisted'[target'[s]][n] # None
                      \/ pc'[s] = "details" /\ \E d \in details'[s] : d.nbr = n
    BY DEF PendingIsDetailed
  <2>1. /\ pc[t] = "details" /\ details[t] = {}
        /\ Goto(t, IF op[t] = "modify" THEN "list" ELSE "check")
        /\ UNCHANGED <<op, target, newList, details, blacklisted>>
    BY <1>4 DEF DetailsMerged, question, tables, locals
  <2>2. Pending(s)
    BY <1>1, <2>1 DEF Pending, Goto
  <2>3. s # t => pc'[s] = pc[s]
    BY <1>1, <2>1 DEF Goto
  <2> QED
    BY <1>1, <2>1, <2>2, <2>3 DEF PendingIsDetailed
<1>5. ASSUME NEW t \in Requests,
             \A s \in Requests : s # t =>
               UNCHANGED <<pc[s], op[s], newList[s], target[s], details[s]>>,
             pc'[t] \notin {"list", "details"} \/ (pc'[t] = "details" /\ op'[t] # "modify")
      PROVE  PendingIsDetailed'
  <2>1. \A s \in Requests : Pending(s)' =>
          /\ Pending(s)
          /\ UNCHANGED <<pc[s], newList[s], target[s], details[s]>>
    BY <1>5 DEF Pending
  <2> QED
    BY <1>1, <2>1, PendingIsKept
<1>6. ASSUME NEW t \in Requests,
             LogPci(t) \/ MergeCell(t) \/ MergeList(t) \/ SendAlarms(t) \/ SendUpdateCell(t)
      PROVE  PendingIsDetailed'
  BY <1>1, <1>5, <1>6 DEF LogPci, MergeCell, MergeList, SendAlarms, SendUpdateCell,
     Goto, question, locals
<1>7. ASSUME NEW t \in Requests, ModifyACell(t) PROVE PendingIsDetailed'
  BY <1>1, <1>5, <1>7 DEF ModifyACell, Begin, Goto
<1>8. ASSUME NEW t \in Requests, Check(t) PROVE PendingIsDetailed'
  BY <1>1, <1>5, <1>8 DEF Check, CheckNext, CheckNeighbors, CheckMerge, FmEvent, Checked,
     Goto, Answer, question, locals
<1>9. ASSUME NEW t \in Requests, Delete(t) PROVE PendingIsDetailed'
  BY <1>1, <1>5, <1>9 DEF Delete, DeleteACell, DropNeighbors, DropCell, Begin, Goto,
     question, locals
<1>10. ASSUME NEW t \in Requests, Message(t) \/ GetTopology(t) PROVE PendingIsDetailed'
  BY <1>1, <1>5, <1>10 DEF Message, ModifyPci, LogSdnrPci, ModifyAnr, GetTopology, Begin,
     Goto, Answer, question, locals
<1>11. CASE UNCHANGED vars
  BY <1>1, <1>11 DEF PendingIsDetailed, Pending, vars, question, locals, tables
<1> QED
  BY <1>2, <1>3, <1>4, <1>6, <1>7, <1>8, <1>9, <1>10, <1>11 DEF Next, Modify

\* A listed neighbor always has its NeighborDetails row, whatever requests
\* overlap: generateNeighborList, which reads the row of each listed neighbor,
\* never finds one missing.
THEOREM ListedDetailed == Spec => []ListedIsDetailed
<1>1. DetailInv /\ [Next]_vars => DetailInv'
  BY TypeStep, ListedStep, PendingStep DEF DetailInv
<1>2. DetailInv => ListedIsDetailed
  BY DEF DetailInv
<1> QED
  BY <1>1, <1>2, DetailInit, PTL DEF Spec

-----------------------------------------------------------------------------
(* Requests that do not overlap.                                           *)
(*                                                                         *)
(* As long as no request has begun while another was under way, at most    *)
(* one is busy, and the tables differ from what they should be only by     *)
(* what this one has in hand.                                              *)

Busy(t) == pc[t] \notin {"idle", "done"}
OneBusy == \A s, t \in Requests : Busy(s) /\ Busy(t) => s = t

\* The operation that comes to a step.
CheckPcs == {"check", "checkNbrs", "checkMerge", "event"}
Asked(t) ==
    /\ pc[t] = "idle" => op[t] = None
    /\ pc[t] \in {"log", "nbrs", "list", "event", "alarm", "update"} => op[t] = "modify"
    /\ pc[t] = "merge" => op[t] \in {"modify", "sdnrPci"}
    /\ pc[t] = "pciLog" => op[t] = "sdnrPci"
    /\ pc[t] = "details" => op[t] \in {"modify", "sdnrNbr"}
    /\ pc[t] \in {"dropNbrs", "dropCell"} => op[t] = "delete"

\* The request has merged the PCI, and it has merged the list, of a ModifyACell
\* that may still be answered 200.
HasList(t) ==
    /\ op[t] = "modify"
    /\ pc[t] \in CheckPcs \cup {"alarm"} \/ (pc[t] = "update" /\ result[t] = 200)
HasPci(t) == HasList(t) \/ (op[t] = "modify" /\ pc[t] \in {"nbrs", "details", "list"})

\* The operation log differs from the table only for the cell whose PCI is being
\* changed.
LogDue(t, c) ==
    /\ target[t] = c
    /\ pc[t] = "pciLog" \/ (pc[t] = "merge" /\ op[t] = "modify")
LogAgrees == \A c \in Cells :
    Exists(c) => cell[c].pci = LoggedPci(c) \/ \E t \in Requests : LogDue(t, c)
PciInHand(t) ==
    /\ pc[t] = "merge" /\ op[t] = "modify" => LoggedPci(target[t]) = pci[t]
    /\ pc[t] = "pciLog" => cell[target[t]].pci = pci[t]
    /\ HasPci(t) => /\ Exists(target[t])
                    /\ cell[target[t]].pci = pci[t]
                    /\ LoggedPci(target[t]) = pci[t]

\* The rows of NeighborDetails that are still to be merged make up for the
\* difference between what is blacklisted and what is asked for.
NbrsInHand(t) ==
    /\ op[t] = "modify" /\ pc[t] \in {"details", "list"} =>
         /\ list[target[t]] # NoRow
         /\ list[target[t]] \cup nbrs[t] \subseteq newList[t]
         /\ \A d \in details[t] : d.blacklisted = (d.nbr \notin nbrs[t])
         /\ \A n \in newList[t] :
              \/ \E d \in details[t] : d.nbr = n
              \/ blacklisted[target[t]][n] = (n \notin nbrs[t])
    /\ pc[t] = "list" => details[t] = {}
    /\ HasList(t) => HandoverNbrs(target[t]) = nbrs[t]

\* The row that was read for the check is the row of the table, and the flags
\* are those that it should have; when they have been merged, it has them.
IsRight(n) == Exists(n) /\ Readable(n) /\ Fresh(n)
RowInHand(t) ==
    /\ pc[t] \in {"checkNbrs", "checkMerge"} => row[t] = cell[checking[t]]
    /\ pc[t] = "checkMerge" =>
         Readable(checking[t]) /\ flags[t] = FlagsOf(checking[t], row[t].pci)
    /\ pc[t] = "event" => IsRight(checking[t])

\* Of the cells that ModifyACell looks at, and of those that GetTopology shows
\* with an issue, only those that are still to be checked may not be right.
UnderCheck(t, n) ==
    \/ pc[t] \in CheckPcs /\ n \in checks[t]
    \/ pc[t] \in CheckPcs \ {"check"} /\ n = checking[t]
ChecksInHand(t) ==
    /\ HasList(t) => \A n \in {target[t]} \cup list[target[t]] :
         \/ UnderCheck(t, n)
         \/ IsRight(n) /\ (HasIssue(cell[n].flags) =>
              n \in (IF pc[t] = "update" THEN cellsWithIssues ELSE issues[t]))
    /\ op[t] = "topology" /\ pc[t] \in CheckPcs =>
         \A c \in Cells : Exists(c) /\ HasIssue(cell[c].flags) =>
            UnderCheck(t, c) \/ Fresh(c)

InHand(t) == PciInHand(t) /\ NbrsInHand(t) /\ RowInHand(t) /\ ChecksInHand(t)
Alone == OneBusy /\ LogAgrees /\ \A t \in Requests : InHand(t)
AloneInv == DetailInv /\ (\A t \in Requests : Asked(t)) /\ (~overlapped => Alone)

-----------------------------------------------------------------------------
(* What holds of requests, whether they overlap or not.                    *)

\* Each step belongs to an operation.
LEMMA AskedStep ==
    ASSUME TypeOK, \A t \in Requests : Asked(t), [Next]_vars
    PROVE  \A t \in Requests : Asked(t)'
<1> USE DEF Answer, question, locals
<1>1. pc \in [Requests -> Pc] /\ op \in [Requests -> Operations \cup {None}]
  BY DEF TypeOK, QuestionOK
<1>2. ASSUME NEW t \in Requests,
             \A s \in Requests : s # t => pc'[s] = pc[s] /\ op'[s] = op[s], Asked(t)'
      PROVE  \A s \in Requests : Asked(s)'
  BY <1>2 DEF Asked
<1>3. ASSUME NEW t \in Requests, Modify(t) PROVE \A s \in Requests : Asked(s)'
  <2>1. \A s \in Requests : s # t => pc'[s] = pc[s] /\ op'[s] = op[s]
    <3>1. /\ op' = op \/ \E o : op' = [op EXCEPT ![t] = o]
          /\ pc' = pc \/ \E label : Goto(t, label)
      <4>1. CASE ModifyACell(t)
        <5>1. \E c, label : Begin(t, "modify", c, label)
          BY <4>1, Zenon DEF ModifyACell
        <5> QED
          BY <5>1 DEF Begin
      <4>2. CASE ~ModifyACell(t)
        <5>1. CASE ReadNeighbors(t)
          BY <5>1 DEF ReadNeighbors
        <5>2. CASE MergeDetail(t)
          BY <5>2 DEF MergeDetail
        <5>3. CASE LogPci(t) \/ MergeCell(t) \/ DetailsMerged(t) \/ MergeList(t)
                   \/ SendAlarms(t) \/ SendUpdateCell(t)
          BY <5>3 DEF LogPci, MergeCell, DetailsMerged, MergeList, SendAlarms, SendUpdateCell
        <5> QED
          BY <1>3, <4>2, <5>1, <5>2, <5>3 DEF Modify
      <4> QED
        BY <4>1, <4>2
    <3> QED
      BY <1>1, <3>1 DEF Goto
  <2>2. ASSUME ModifyACell(t) PROVE Asked(t)'
    BY <1>1, <2>2 DEF ModifyACell, Begin, Goto, Asked
  <2>3. ASSUME ~ModifyACell(t) PROVE Asked(t)'
    BY <1>1, <1>3, <2>3 DEF Modify, LogPci, MergeCell, ReadNeighbors, MergeDetail,
       DetailsMerged, MergeList, SendAlarms, SendUpdateCell, Goto, Asked
  <2> QED
    BY <1>2, <2>1, <2>2, <2>3
<1>4. ASSUME NEW t \in Requests, Check(t) PROVE \A s \in Requests : Asked(s)'
  <2>1. \A s \in Requests : s # t => pc'[s] = pc[s] /\ op'[s] = op[s]
    BY <1>1, <1>4 DEF Check, CheckNext, CheckNeighbors, CheckMerge, FmEvent, Checked, Goto
  <2>2. Asked(t)'
    BY <1>1, <1>4 DEF Check, CheckNext, CheckNeighbors, CheckMerge, FmEvent, Checked, Goto,
       Asked
  <2> QED
    BY <1>2, <2>1, <2>2
<1>5. ASSUME NEW t \in Requests, Delete(t) \/ Message(t) \/ GetTopology(t)
      PROVE  \A s \in Requests : Asked(s)'
  <2>1. \A s \in Requests : s # t => pc'[s] = pc[s] /\ op'[s] = op[s]
    BY <1>1, <1>5 DEF Delete, DeleteACell, DropNeighbors, DropCell, Message, ModifyPci,
       LogSdnrPci, ModifyAnr, GetTopology, Begin, Goto
  <2>2. Asked(t)'
    BY <1>1, <1>5 DEF Delete, DeleteACell, DropNeighbors, DropCell, Message, ModifyPci,
       LogSdnrPci, ModifyAnr, GetTopology, Begin, Goto, Asked
  <2> QED
    BY <1>2, <2>1, <2>2
<1>6. CASE UNCHANGED vars
  BY <1>6 DEF vars, Asked
<1> QED
  BY <1>3, <1>4, <1>5, <1>6 DEF Next

-----------------------------------------------------------------------------
(* What a step leaves to the other requests.                               *)

\* A request that is not under way has nothing in hand.
LEMMA IdleHasNothing == \A t \in Requests : (~Busy(t))' => InHand(t)'
BY DEF Busy, InHand, PciInHand, NbrsInHand, RowInHand, ChecksInHand, HasList, HasPci, CheckPcs

\* A step of the one that is busy.
LEMMA OthersAtStep ==
    ASSUME AloneInv, ~overlapped, NEW t \in Requests, Busy(t),
           \A s \in Requests : s # t => pc'[s] = pc[s]
    PROVE  OneBusy' /\ \A s \in Requests : s # t => InHand(s)'
<1>1. \A s \in Requests : s # t => ~Busy(s) /\ (~Busy(s))'
  BY DEF AloneInv, Alone, OneBusy, Busy
<1> QED
  BY <1>1, IdleHasNothing DEF OneBusy

\* A request that begins when none is under way.
LEMMA OthersAtBegin ==
    ASSUME AloneInv, NEW t \in Requests, NEW o, NEW c, NEW label,
           Begin(t, o, c, label), ~overlapped', UNCHANGED <<tables, outputs>>
    PROVE  /\ OneBusy' /\ LogAgrees' /\ PciIsLogged
           /\ \A s \in Requests : s # t => InHand(s)'
           /\ pc'[t] = label /\ op'[t] = o /\ target'[t] = c
<1>1. /\ pc \in [Requests -> Pc] /\ op \in [Requests -> Operations \cup {None}]
      /\ target \in [Requests -> Cells \cup {None}]
  BY DEF AloneInv, DetailInv, TypeOK, QuestionOK
<1>2. Quiet /\ ~overlapped
  BY DEF Begin
<1>3. \A c_1 \in Cells : Exists(c_1) => cell[c_1].pci = LoggedPci(c_1)
  BY <1>2 DEF AloneInv, Alone, LogAgrees, LogDue, Quiet
<1>4. LogAgrees'
  BY <1>3 DEF LoggedPci, LogAgrees, Exists, tables, outputs
<1>5. \A s \in Requests : s # t => (~Busy(s))'
  BY <1>1, <1>2 DEF Quiet, Busy, Begin, Goto
<1>6. OneBusy' /\ \A s \in Requests : s # t => InHand(s)'
  BY <1>5, IdleHasNothing DEF OneBusy
<1> QED
  BY <1>1, <1>3, <1>4, <1>6 DEF Begin, Goto, PciIsLogged

\* If the tables stay as they are, what is right stays right.
LEMMA TablesAreKept ==
    ASSUME UNCHANGED tables
    PROVE  \A n : /\ IsRight(n)' = IsRight(n) /\ Fresh(n)' = Fresh(n)
                  /\ Readable(n)' = Readable(n) /\ Exists(n)' = Exists(n)
                  /\ HandoverNbrs(n)' = HandoverNbrs(n)
                  /\ \A own : FlagsOf(n, own)' = FlagsOf(n, own)
BY DEF tables, IsRight, Fresh, Readable, Exists, HandoverNbrs, FlagsOf

\* If only flags change, the flags that the other cells should have stay the same.
LEMMA FlagsAreKept ==
    ASSUME TypeOK, UNCHANGED <<list, blacklisted>>,
           \A m \in Names : Exists(m)' = Exists(m) /\ cell'[m].pci = cell[m].pci,
           NEW n
    PROVE  /\ HandoverNbrs(n)' = HandoverNbrs(n) /\ Readable(n)' = Readable(n)
           /\ Readable(n) => \A own : FlagsOf(n, own)' = FlagsOf(n, own)
<1>1. HandoverNbrs(n)' = HandoverNbrs(n)
  BY DEF HandoverNbrs
<1>2. n \in Cells /\ list[n] # NoRow => HandoverNbrs(n) \subseteq Names
  BY DEF HandoverNbrs, TypeOK, TablesOK
<1>3. Readable(n)' = Readable(n)
  BY <1>1, <1>2 DEF Readable
<1>4. Readable(n) => [m \in HandoverNbrs(n) |-> cell'[m].pci] = [m \in HandoverNbrs(n) |-> cell[m].pci]
  BY <1>2 DEF Readable
<1>5. Readable(n) => \A own : FlagsOf(n, own)' = FlagsOf(n, own)
  BY <1>1, <1>4 DEF FlagsOf
<1> QED
  BY <1>1, <1>3, <1>5

-----------------------------------------------------------------------------
(* The operation log.                                                      *)

\* When the one request under way is not between the table and the log, they agree.
LEMMA NothingDue ==
    ASSUME AloneInv, ~overlapped, NEW t \in Requests, Busy(t),
           pc[t] # "pciLog", pc[t] = "merge" => op[t] # "modify"
    PROVE  \A c \in Cells : Exists(c) => cell[c].pci = LoggedPci(c)
<1>1. ASSUME NEW s \in Requests, NEW c \in Cells, LogDue(s, c) PROVE s = t
  BY <1>1 DEF AloneInv, Alone, OneBusy, Busy, LogDue
<1>2. ASSUME NEW c \in Cells PROVE ~LogDue(t, c)
  BY DEF LogDue
<1> QED
  BY <1>1, <1>2 DEF AloneInv, Alone, LogAgrees

LEMMA LogIsKept ==
    ASSUME AloneInv, ~overlapped, NEW t \in Requests, Busy(t),
           pc[t] # "pciLog", pc[t] = "merge" => op[t] # "modify",
           UNCHANGED logged,
           \A c \in Cells : Exists(c)' => Exists(c) /\ cell'[c].pci = cell[c].pci
    PROVE  LogAgrees'
BY NothingDue DEF LoggedPci, LogAgrees

-----------------------------------------------------------------------------
(* The steps of ModifyACell. *)

LEMMA LogPciAlone ==
    ASSUME AloneInv, ~overlapped, NEW t \in Requests, LogPci(t)
    PROVE  LogAgrees' /\ InHand(t)'
<1>1. /\ pc \in [Requests -> Pc] /\ logged \in [Cells -> LogRow \cup {None}] /\ target[t] \in Cells
      /\ pc[t] = "log" /\ op[t] = "modify" /\ pc'[t] = "merge"
      /\ UNCHANGED <<cell, op, target, pci>>
      /\ AddLogRow(target[t], "GUI", row[t].pci, pci[t])
      /\ row[t].pci \in Nat /\ pci[t] \in Nat
  BY DEF AloneInv, DetailInv, TypeOK, QuestionOK, OutputsOK, LocalsOK, Row, Prepared, Asked,
     LogPci, Goto, question, tables
<1>2. /\ LoggedPci(target[t])' = pci[t]
      /\ \A n \in Cells : n # target[t] => LoggedPci(n)' = LoggedPci(n)
  BY <1>1, LogRowTells
<1>3. LogAgrees'
  <2> SUFFICES ASSUME NEW c \in Cells, Exists(c)
               PROVE  cell'[c].pci = LoggedPci(c)' \/ LogDue(t, c)'
    BY <1>1 DEF LogAgrees, Exists
  <2>1. CASE c = target[t]
    BY <1>1, <2>1 DEF LogDue
  <2>2. CASE c # target[t]
    BY <1>1, <1>2, <2>2, NothingDue DEF Busy
  <2> QED
    BY <2>1, <2>2
<1>4. InHand(t)'
  BY <1>1, <1>2 DEF InHand, PciInHand, NbrsInHand, RowInHand, ChecksInHand, HasList, HasPci, CheckPcs
<1> QED
  BY <1>3, <1>4

LEMMA MergeCellAlone ==
    ASSUME AloneInv, ~overlapped, NEW t \in Requests, MergeCell(t)
    PROVE  LogAgrees' /\ InHand(t)'
<1> DEFINE c == target[t]
           new == [row[t] EXCEPT !.pci = pci[t]]
<1>1. /\ pc \in [Requests -> Pc] /\ c \in Cells /\ cell \in [Names -> Row \cup {NoRow}]
      /\ pc[t] = "merge" /\ op[t] \in {"modify", "sdnrPci"}
      /\ pc'[t] = IF op[t] = "modify" THEN "nbrs" ELSE "pciLog"
      /\ UNCHANGED <<logged, op, target, pci>>
      /\ cell' = [cell EXCEPT ![c] = new]
      /\ row[t] \in Row /\ pci[t] \in Nat
  BY DEF AloneInv, DetailInv, TypeOK, QuestionOK, TablesOK, LocalsOK, Prepared, Asked,
     MergeCell, Goto, question, outputs
<1>2. new \in Row /\ new # NoRow /\ new.pci = pci[t]
  BY <1>1, NameAssumption DEF Row
<1>3. cell'[c] = new /\ \A n \in Cells \ {c} : cell'[n] = cell[n]
  BY <1>1 DEF Names
<1>4. op[t] = "modify" => LoggedPci(c) = pci[t]
  BY <1>1 DEF AloneInv, Alone, InHand, PciInHand
<1>5. LogAgrees'
  <2> SUFFICES ASSUME NEW n \in Cells, Exists(n)'
               PROVE  cell'[n].pci = LoggedPci(n)' \/ LogDue(t, n)'
    BY DEF LogAgrees
  <2>1. CASE n = c
    BY <1>1, <1>2, <1>3, <1>4, <2>1 DEF LoggedPci, LogDue
  <2>2. CASE n # c
    <3>1. Exists(n) /\ cell'[n] = cell[n]
      BY <1>3, <2>2 DEF Exists
    <3>2. ASSUME NEW s \in Requests, LogDue(s, n) PROVE FALSE
      <4>1. s = t
        BY <1>1, <3>2 DEF AloneInv, Alone, OneBusy, Busy, LogDue
      <4> QED
        BY <2>2, <3>2, <4>1 DEF LogDue
    <3> QED
      BY <1>1, <3>1, <3>2 DEF LoggedPci, AloneInv, Alone, LogAgrees
  <2> QED
    BY <2>1, <2>2
<1>6. PciInHand(t)'
  BY <1>1, <1>2, <1>3, <1>4 DEF LoggedPci, PciInHand, HasPci, HasList, CheckPcs, Exists
<1>7. (NbrsInHand(t) /\ RowInHand(t) /\ ChecksInHand(t))'
  BY <1>1 DEF NbrsInHand, RowInHand, ChecksInHand, HasList, CheckPcs
<1> QED
  BY <1>5, <1>6, <1>7 DEF InHand

LEMMA ReadNeighborsAlone ==
    ASSUME AloneInv, ~overlapped, NEW t \in Requests, ReadNeighbors(t)
    PROVE  LogAgrees' /\ InHand(t)'
<1> DEFINE c == target[t]
           gone == HandoverNbrs(c) \ nbrs[t]
           added == nbrs[t] \ HandoverNbrs(c)
<1>1. /\ pc \in [Requests -> Pc] /\ c \in Cells /\ pc[t] = "nbrs" /\ op[t] = "modify"
      /\ UNCHANGED <<tables, logged, op, target, pci, nbrs>>
      /\ details \in [Requests -> SUBSET Detail] /\ newList \in [Requests -> SUBSET Names]
      /\ PciInHand(t)
  BY DEF AloneInv, DetailInv, TypeOK, QuestionOK, LocalsOK, Prepared, Asked, ReadNeighbors,
     question, outputs, Alone, InHand
<1>2. LogAgrees'
  BY <1>1, LogIsKept DEF Busy, tables, Exists
<1>3. HasPci(t) /\ cell' = cell
  BY <1>1 DEF HasPci, tables
<1>4. CASE Answer(t, 500)
  <2>1. pc'[t] = "done"
    BY <1>1, <1>4 DEF Answer, Goto
  <2> QED
    BY <1>2, <2>1, IdleHasNothing DEF Busy
<1>5. CASE /\ list[c] # NoRow
           /\ details' = [details EXCEPT ![t] = [nbr : gone, blacklisted : {TRUE}]
                                          \cup [nbr : added, blacklisted : {FALSE}]]
           /\ newList' = [newList EXCEPT ![t] = list[c] \cup added]
           /\ Goto(t, "details")
  <2>1. /\ pc'[t] = "details" /\ newList'[t] = list[c] \cup added
        /\ details'[t] = [nbr : gone, blacklisted : {TRUE}]
                         \cup [nbr : added, blacklisted : {FALSE}]
    BY <1>1, <1>5 DEF Goto
  <2>2. PciInHand(t)'
    BY <1>1, <1>3, <2>1 DEF LoggedPci, PciInHand, HasPci, HasList, CheckPcs, Exists, tables
  <2>3. \A n \in list[c] : blacklisted[c][n] \in BOOLEAN
    BY <1>1, <1>5 DEF AloneInv, DetailInv, ListedIsDetailed, TypeOK, TablesOK
  <2>4. list[c] \cup nbrs[t] \subseteq newList'[t]
    BY <2>1 DEF HandoverNbrs
  <2>5. \A d \in details'[t] : d.blacklisted = (d.nbr \notin nbrs[t])
    BY <2>1
  <2>6. ASSUME NEW n \in newList'[t]
        PROVE  \/ \E d \in details'[t] : d.nbr = n
               \/ blacklisted[c][n] = (n \notin nbrs[t])
    <3>1. CASE n \in gone
      <4>1. [nbr |-> n, blacklisted |-> TRUE] \in details'[t]
        BY <2>1, <3>1
      <4> QED
        BY <4>1
    <3>2. CASE n \in added
      <4>1. [nbr |-> n, blacklisted |-> FALSE] \in details'[t]
        BY <2>1, <3>2
      <4> QED
        BY <4>1
    <3>3. CASE n \notin gone /\ n \notin added
      BY <2>1, <2>3, <2>6, <3>3 DEF HandoverNbrs
    <3> QED
      BY <3>1, <3>2, <3>3
  <2>7. NbrsInHand(t)'
    BY <1>1, <1>5, <2>1, <2>4, <2>5, <2>6 DEF NbrsInHand, HasList, CheckPcs, tables
  <2>8. (RowInHand(t) /\ ChecksInHand(t))'
    BY <2>1 DEF RowInHand, ChecksInHand, HasList, CheckPcs
  <2> QED
    BY <1>2, <2>2, <2>7, <2>8 DEF InHand
<1> QED
  BY <1>4, <1>5 DEF ReadNeighbors

LEMMA MergeDetailAlone ==
    ASSUME AloneInv, ~overlapped, NEW t \in Requests, MergeDetail(t)
    PROVE  LogAgrees' /\ InHand(t)'
<1> DEFINE c == target[t]
<1>1. /\ c \in Cells /\ pc[t] = "details" /\ op[t] \in {"modify", "sdnrNbr"}
      /\ UNCHANGED <<cell, list, logged, pc, op, target, pci, nbrs, newList>>
      /\ details \in [Requests -> SUBSET Detail] /\ newList[t] \subseteq Names
      /\ blacklisted \in [Cells -> [Names -> BOOLEAN \cup {None}]]
      /\ PciInHand(t) /\ NbrsInHand(t)
  BY DEF AloneInv, DetailInv, TypeOK, TablesOK, QuestionOK, LocalsOK, Prepared, Asked,
     MergeDetail, question, outputs, Alone, InHand
<1>2. PICK d \in details[t] :
        /\ blacklisted' = [blacklisted EXCEPT ![c][d.nbr] = d.blacklisted]
        /\ details' = [details EXCEPT ![t] = @ \ {d}]
  BY DEF MergeDetail
<1>3. LogAgrees'
  BY <1>1, LogIsKept DEF Busy, Exists
<1>4. PciInHand(t)'
  BY <1>1 DEF LoggedPci, PciInHand, HasPci, HasList, CheckPcs, Exists
<1>5. NbrsInHand(t)'
  <2> SUFFICES ASSUME op[t] = "modify"
               PROVE  /\ \A e \in details'[t] : e.blacklisted = (e.nbr \notin nbrs[t])
                      /\ \A n \in newList[t] :
                           \/ \E e \in details'[t] : e.nbr = n
                           \/ blacklisted'[c][n] = (n \notin nbrs[t])
    BY <1>1 DEF NbrsInHand, HasList, CheckPcs
  <2>1. details'[t] = details[t] \ {d}
    BY <1>1, <1>2
  <2>2. \A e \in details[t] : e.blacklisted = (e.nbr \notin nbrs[t])
    BY <1>1 DEF NbrsInHand
  <2>3. ASSUME NEW n \in newList[t]
        PROVE  \/ \E e \in details'[t] : e.nbr = n
               \/ blacklisted'[c][n] = (n \notin nbrs[t])
    <3>1. CASE n = d.nbr
      <4>1. blacklisted'[c][n] = d.blacklisted
        BY <1>1, <1>2, <3>1
      <4> QED
        BY <2>2, <3>1, <4>1
    <3>2. CASE n # d.nbr
      <4>1. blacklisted'[c][n] = blacklisted[c][n]
        BY <1>1, <1>2, <3>2
      <4> QED
        BY <1>1, <2>1, <3>2, <4>1 DEF NbrsInHand
    <3> QED
      BY <3>1, <3>2
  <2> QED
    BY <2>1, <2>2, <2>3
<1>6. (RowInHand(t) /\ ChecksInHand(t))'
  BY <1>1 DEF RowInHand, ChecksInHand, HasList, CheckPcs
<1> QED
  BY <1>3, <1>4, <1>5, <1>6 DEF InHand

LEMMA DetailsMergedAlone ==
    ASSUME AloneInv, ~overlapped, NEW t \in Requests, DetailsMerged(t)
    PROVE  LogAgrees' /\ InHand(t)'
<1>1. /\ pc \in [Requests -> Pc] /\ pc[t] = "details" /\ op[t] \in {"modify", "sdnrNbr"}
      /\ details[t] = {} /\ pc'[t] = IF op[t] = "modify" THEN "list" ELSE "check"
      /\ UNCHANGED <<cell, list, blacklisted, logged, op, target, pci, nbrs, newList, details>>
      /\ PciInHand(t) /\ NbrsInHand(t)
  BY DEF AloneInv, DetailInv, TypeOK, QuestionOK, Asked,
     DetailsMerged, Goto, question, outputs, tables, locals, Alone, InHand
<1>2. LogAgrees'
  BY <1>1, LogIsKept DEF Busy, Exists
<1>3. PciInHand(t)' /\ NbrsInHand(t)'
  BY <1>1 DEF LoggedPci, PciInHand, NbrsInHand, HasPci, HasList, CheckPcs, Exists
<1>4. (RowInHand(t) /\ ChecksInHand(t))'
  BY <1>1 DEF RowInHand, ChecksInHand, HasList, CheckPcs
<1> QED
  BY <1>2, <1>3, <1>4 DEF InHand

LEMMA MergeListAlone ==
    ASSUME AloneInv, ~overlapped, NEW t \in Requests, MergeList(t)
    PROVE  LogAgrees' /\ InHand(t)' /\ list[target[t]] \subseteq list'[target[t]]
<1> DEFINE c == target[t]
<1>1. /\ pc \in [Requests -> Pc] /\ c \in Cells /\ pc[t] = "list" /\ op[t] = "modify"
      /\ pc'[t] = "check" /\ list \in [Cells -> (SUBSET Names) \cup {NoRow}]
      /\ checks \in [Requests -> SUBSET Names]
      /\ list' = [list EXCEPT ![c] = newList[t]]
      /\ checks' = [checks EXCEPT ![t] = {c} \cup newList[t]]
      /\ UNCHANGED <<cell, blacklisted, logged, op, target, pci, nbrs, newList, details>>
      /\ PciInHand(t) /\ NbrsInHand(t)
  BY DEF AloneInv, DetailInv, TypeOK, TablesOK, QuestionOK, LocalsOK, Prepared, Asked,
     MergeList, Goto, question, outputs, Alone, InHand
<1>2. LogAgrees'
  BY <1>1, LogIsKept DEF Busy, Exists
<1>3. PciInHand(t)'
  BY <1>1 DEF LoggedPci, PciInHand, HasPci, HasList, CheckPcs, Exists
<1>4. /\ list'[c] = newList[t] /\ checks'[t] = {c} \cup newList[t]
      /\ list[c] \cup nbrs[t] \subseteq newList[t]
      /\ \A n \in newList[t] : blacklisted[c][n] = (n \notin nbrs[t])
  BY <1>1 DEF NbrsInHand
<1>5. NbrsInHand(t)'
  <2>1. {n \in list'[c] : ~blacklisted[c][n]} = nbrs[t]
    BY <1>4
  <2> QED
    BY <1>1, <2>1 DEF NbrsInHand, HandoverNbrs
<1>6. (RowInHand(t) /\ ChecksInHand(t))'
  BY <1>1, <1>4 DEF RowInHand, ChecksInHand, UnderCheck, CheckPcs
<1> QED
  BY <1>2, <1>3, <1>4, <1>5, <1>6 DEF InHand

\* ModifyACell after the checks: nothing is left to be checked.
LEMMA SendAlarmsAlone ==
    ASSUME AloneInv, ~overlapped, NEW t \in Requests, SendAlarms(t)
    PROVE  LogAgrees' /\ InHand(t)'
<1>1. /\ pc \in [Requests -> Pc] /\ pc[t] = "alarm" /\ op[t] = "modify" /\ pc'[t] = "update"
      /\ result \in [Requests -> {0, 200, 400, 500}] /\ result'[t] = 200
      /\ UNCHANGED <<tables, logged, op, target, pci, nbrs>>
      /\ cellsWithIssues' = cellsWithIssues \cup issues[t]
      /\ PciInHand(t) /\ NbrsInHand(t) /\ ChecksInHand(t)
  BY DEF AloneInv, DetailInv, TypeOK, QuestionOK, LocalsOK, Asked,
     SendAlarms, Goto, question, Alone, InHand
<1>2. LogAgrees'
  BY <1>1, LogIsKept DEF Busy, Exists, tables
<1>3. HasList(t) /\ HasPci(t) /\ \A n : HandoverNbrs(n)' = HandoverNbrs(n) /\ Exists(n)' = Exists(n)
  BY <1>1, TablesAreKept DEF HasPci, HasList
<1>4. PciInHand(t)' /\ NbrsInHand(t)'
  BY <1>1, <1>3 DEF LoggedPci, PciInHand, NbrsInHand, tables
<1>5. \A n \in {target[t]} \cup list[target[t]] :
        IsRight(n) /\ (HasIssue(cell[n].flags) => n \in issues[t])
  BY <1>1, <1>3 DEF ChecksInHand, UnderCheck, CheckPcs
<1>6. (RowInHand(t) /\ ChecksInHand(t))'
  <2>1. \A n : IsRight(n)' = IsRight(n)
    BY <1>1, TablesAreKept
  <2> QED
    BY <1>1, <1>5, <2>1 DEF RowInHand, ChecksInHand, CheckPcs, tables
<1> QED
  BY <1>2, <1>4, <1>6 DEF InHand

LEMMA SendUpdateCellAlone ==
    ASSUME AloneInv, ~overlapped, NEW t \in Requests, SendUpdateCell(t)
    PROVE  LogAgrees' /\ InHand(t)'
<1>1. /\ pc \in [Requests -> Pc] /\ pc[t] = "update" /\ pc'[t] = "done"
      /\ UNCHANGED <<tables, logged>>
  BY DEF AloneInv, DetailInv, TypeOK, QuestionOK, SendUpdateCell, Goto
<1>2. LogAgrees'
  BY <1>1, LogIsKept DEF Busy, Exists, tables
<1> QED
  BY <1>1, <1>2, IdleHasNothing DEF Busy

-----------------------------------------------------------------------------
(* The steps of the check.                                                 *)

LEMMA CheckNextAlone ==
    ASSUME AloneInv, ~overlapped, NEW t \in Requests, CheckNext(t)
    PROVE  LogAgrees' /\ InHand(t)'
<1>1. /\ pc \in [Requests -> Pc] /\ pc[t] = "check" /\ pc'[t] = "checkNbrs"
      /\ checks \in [Requests -> SUBSET Names] /\ checking \in [Requests -> Names \cup {None}]
      /\ row \in [Requests -> Row \cup {NoRow}]
      /\ UNCHANGED <<tables, logged, op, target, pci, nbrs, issues>>
      /\ PciInHand(t) /\ NbrsInHand(t) /\ ChecksInHand(t)
  BY DEF AloneInv, DetailInv, TypeOK, QuestionOK, LocalsOK,
     CheckNext, Goto, question, outputs, Alone, InHand
<1>2. PICK n \in checks[t] : /\ checking'[t] = n /\ checks'[t] = checks[t] \ {n}
                             /\ row'[t] = cell[n]
  BY <1>1 DEF CheckNext, ReadRow
<1>3. LogAgrees'
  BY <1>1, LogIsKept DEF Busy, Exists, tables
<1>4. \A m : /\ HandoverNbrs(m)' = HandoverNbrs(m) /\ Exists(m)' = Exists(m)
             /\ IsRight(m)' = IsRight(m) /\ Fresh(m)' = Fresh(m)
  BY <1>1, TablesAreKept
<1>5. HasList(t)' = HasList(t) /\ HasPci(t)' = HasPci(t)
  BY <1>1 DEF HasList, HasPci, CheckPcs
<1>6. PciInHand(t)' /\ NbrsInHand(t)' /\ RowInHand(t)'
  BY <1>1, <1>2, <1>4, <1>5 DEF LoggedPci, PciInHand, NbrsInHand, RowInHand, tables
<1>7. ChecksInHand(t)'
  <2>1. \A m : UnderCheck(t, m) => UnderCheck(t, m)'
    BY <1>1, <1>2 DEF UnderCheck, CheckPcs
  <2> QED
    BY <1>1, <1>4, <1>5, <2>1 DEF ChecksInHand, tables, CheckPcs
<1> QED
  BY <1>3, <1>6, <1>7 DEF InHand

LEMMA CheckNeighborsAlone ==
    ASSUME AloneInv, ~overlapped, NEW t \in Requests, CheckNeighbors(t)
    PROVE  LogAgrees' /\ InHand(t)'
<1> DEFINE k == checking[t]
<1>1. /\ pc \in [Requests -> Pc] /\ pc[t] = "checkNbrs" /\ Asked(t)
      /\ flags \in [Requests -> Flags]
      /\ UNCHANGED <<tables, logged, op, target, pci, nbrs, row, checks, checking, issues>>
      /\ PciInHand(t) /\ NbrsInHand(t) /\ RowInHand(t) /\ ChecksInHand(t)
  BY DEF AloneInv, DetailInv, TypeOK, QuestionOK, LocalsOK,
     CheckNeighbors, question, outputs, Alone, InHand
<1>2. LogAgrees'
  BY <1>1, LogIsKept DEF Busy, Exists, tables
<1>3. \A m : /\ HandoverNbrs(m)' = HandoverNbrs(m) /\ Exists(m)' = Exists(m)
             /\ Readable(m)' = Readable(m)
             /\ IsRight(m)' = IsRight(m) /\ Fresh(m)' = Fresh(m)
             /\ \A own : FlagsOf(m, own)' = FlagsOf(m, own)
  BY <1>1, TablesAreKept
<1>4. CASE row[t] # NoRow /\ Readable(k) /\ flags' = [flags EXCEPT ![t] = FlagsOf(k, row[t].pci)]
           /\ Goto(t, "checkMerge")
  <2>1. pc'[t] = "checkMerge" /\ flags'[t] = FlagsOf(k, row[t].pci)
    BY <1>1, <1>4 DEF Goto
  <2>2. HasList(t)' = HasList(t) /\ HasPci(t)' = HasPci(t)
    BY <1>1, <2>1 DEF HasList, HasPci, CheckPcs
  <2>3. PciInHand(t)' /\ NbrsInHand(t)'
    BY <1>1, <1>3, <2>1, <2>2 DEF LoggedPci, PciInHand, NbrsInHand, tables
  <2>4. RowInHand(t)'
    <3>1. Readable(k)' /\ flags'[t] = FlagsOf(k, row[t].pci)'
      BY <1>1, <1>3, <1>4, <2>1 DEF FlagsOf, HandoverNbrs, tables
    <3> QED
      BY <1>1, <2>1, <3>1 DEF RowInHand, tables
  <2>5. ChecksInHand(t)'
    <3>1. \A m : UnderCheck(t, m) => UnderCheck(t, m)'
      BY <1>1, <2>1 DEF UnderCheck, CheckPcs
    <3> QED
      BY <1>1, <1>3, <2>1, <2>2, <3>1 DEF ChecksInHand, tables, CheckPcs
  <2> QED
    BY <1>2, <2>3, <2>4, <2>5 DEF InHand
<1>5. CASE op[t] = "modify" /\ Answer(t, 500)
  <2>1. pc'[t] = "done"
    BY <1>1, <1>5 DEF Answer, Goto
  <2> QED
    BY <1>2, <2>1, IdleHasNothing DEF Busy
<1>6. CASE ~(row[t] # NoRow /\ Readable(k)) /\ op[t] # "modify" /\ Goto(t, "check")
  <2>1. pc'[t] = "check"
    BY <1>1, <1>6 DEF Goto
  <2>2. (PciInHand(t) /\ NbrsInHand(t) /\ RowInHand(t))'
    BY <1>1, <1>6, <2>1 DEF PciInHand, NbrsInHand, RowInHand, HasPci, HasList
  <2>3. ASSUME op[t] = "topology", NEW c \in Cells, Exists(c), HasIssue(cell[c].flags)
        PROVE  UnderCheck(t, c)' \/ Fresh(c)
    <3>1. UnderCheck(t, c) \/ Fresh(c)
      BY <1>1, <2>3 DEF ChecksInHand, CheckPcs
    <3>2. CASE c = k
      BY <1>1, <1>6, <2>3, <3>2 DEF RowInHand, Exists, Fresh
    <3>3. CASE c # k
      BY <1>1, <2>1, <3>1, <3>3 DEF UnderCheck, CheckPcs
    <3> QED
      BY <3>2, <3>3
  <2>4. ChecksInHand(t)'
    BY <1>1, <1>3, <1>6, <2>3 DEF ChecksInHand, HasList, tables
  <2> QED
    BY <1>2, <2>2, <2>4 DEF InHand
<1> QED
  BY <1>4, <1>5, <1>6 DEF CheckNeighbors

LEMMA CheckMergeAlone ==
    ASSUME AloneInv, ~overlapped, NEW t \in Requests, CheckMerge(t)
    PROVE  LogAgrees' /\ InHand(t)'
<1> DEFINE new == [row[t] EXCEPT !.flags = flags[t]]
<1>1. /\ pc \in [Requests -> Pc] /\ pc[t] = "checkMerge" /\ cell \in [Names -> Row \cup {NoRow}]
      /\ TypeOK /\ row[t] \in Row /\ flags[t] \in Flags
      /\ cell' = [cell EXCEPT ![checking[t]] = new]
      /\ UNCHANGED <<list, blacklisted, logged, cellsWithIssues, op, target, pci, nbrs, row,
                     details, newList, flags, checks, checking, issues, result>>
      /\ pc'[t] = IF op[t] = "modify" /\ HasIssue(flags[t]) THEN "event" ELSE "check"
      /\ PciInHand(t) /\ NbrsInHand(t) /\ RowInHand(t) /\ ChecksInHand(t)
  BY DEF AloneInv, DetailInv, TypeOK, QuestionOK, LocalsOK, TablesOK, Prepared,
     CheckMerge, Goto, question, outputs, locals, Alone, InHand
<1>2. PICK k \in Cells : /\ k = checking[t] /\ k \in Names /\ Readable(k)
                         /\ cell[k] = row[t] /\ flags[t] = FlagsOf(k, row[t].pci)
  BY <1>1 DEF RowInHand, Readable, Names
<1>3. new \in Row /\ new # NoRow /\ new.pci = cell[k].pci /\ new.flags = flags[t]
  BY <1>1, <1>2, NameAssumption DEF Row
<1>4. cell'[k] = new /\ \A m : m # k => cell'[m] = cell[m]
  BY <1>1, <1>2
<1>5. \A m : Exists(m)' = Exists(m) /\ cell'[m].pci = cell[m].pci
  <2>1. ASSUME NEW m PROVE Exists(m)' = Exists(m) /\ cell'[m].pci = cell[m].pci
    <3>1. CASE m = k
      BY <1>1, <1>2, <1>3, <1>4, <3>1, NameAssumption DEF Exists
    <3>2. CASE m # k
      BY <1>4, <3>2 DEF Exists
    <3> QED
      BY <3>1, <3>2
  <2> QED
    BY <2>1
<1>6. \A n : /\ HandoverNbrs(n)' = HandoverNbrs(n) /\ Readable(n)' = Readable(n)
             /\ Readable(n) => \A own : FlagsOf(n, own)' = FlagsOf(n, own)
  BY <1>1, <1>5, FlagsAreKept
<1>7. IsRight(k)'
  BY <1>2, <1>3, <1>4, <1>5, <1>6 DEF IsRight, Fresh, Exists
<1>8. \A n : n # k => (Fresh(n) => Fresh(n)') /\ (IsRight(n) => IsRight(n)')
  BY <1>4, <1>5, <1>6 DEF IsRight, Fresh
<1>9. LogAgrees'
  BY <1>1, <1>5, LogIsKept DEF Busy
<1>10. HasList(t)' = HasList(t) /\ HasPci(t)' = HasPci(t)
  BY <1>1 DEF HasList, HasPci, CheckPcs
<1>11. PciInHand(t)' /\ NbrsInHand(t)' /\ RowInHand(t)'
  BY <1>1, <1>2, <1>5, <1>6, <1>7, <1>10 DEF LoggedPci, PciInHand, NbrsInHand, RowInHand
<1>12. \A n : n # k => (UnderCheck(t, n)' <=> UnderCheck(t, n))
  BY <1>1, <1>2 DEF UnderCheck, CheckPcs
<1>13. ChecksInHand(t)'
  <2>1. ASSUME HasList(t)', NEW n \in {target[t]} \cup list[target[t]], ~UnderCheck(t, n)'
        PROVE  IsRight(n)' /\ (HasIssue(cell'[n].flags) => n \in issues[t])
    <3>1. CASE n = k
      <4>1. ~HasIssue(cell'[n].flags)
        BY <1>1, <1>2, <1>3, <1>4, <1>10, <2>1, <3>1 DEF UnderCheck, CheckPcs, HasList
      <4> QED
        BY <1>7, <3>1, <4>1
    <3>2. CASE n # k
      BY <1>1, <1>4, <1>8, <1>10, <1>12, <2>1, <3>2 DEF ChecksInHand
    <3> QED
      BY <3>1, <3>2
  <2>2. ASSUME op[t] = "topology", NEW c \in Cells, Exists(c)', HasIssue(cell'[c].flags)
        PROVE  UnderCheck(t, c)' \/ Fresh(c)'
    <3>1. CASE c = k
      BY <1>7, <3>1 DEF IsRight
    <3>2. CASE c # k
      BY <1>1, <1>4, <1>5, <1>8, <1>12, <2>2, <3>2 DEF ChecksInHand, CheckPcs
    <3> QED
      BY <3>1, <3>2
  <2> QED
    BY <1>1, <2>1, <2>2 DEF ChecksInHand
<1> QED
  BY <1>9, <1>11, <1>13 DEF InHand

LEMMA FmEventAlone ==
    ASSUME AloneInv, ~overlapped, NEW t \in Requests, FmEvent(t)
    PROVE  LogAgrees' /\ InHand(t)'
<1>1. /\ pc \in [Requests -> Pc] /\ pc[t] = "event" /\ op[t] = "modify"
      /\ UNCHANGED <<tables, logged, cellsWithIssues, op, target, pci, nbrs, checks, checking>>
      /\ issues \in [Requests -> SUBSET Names]
      /\ PciInHand(t) /\ NbrsInHand(t) /\ RowInHand(t) /\ ChecksInHand(t)
  BY DEF AloneInv, DetailInv, TypeOK, QuestionOK, LocalsOK, Asked,
     FmEvent, question, outputs, Alone, InHand
<1>2. Exists(checking[t]) /\ IsRight(checking[t])
  BY <1>1 DEF RowInHand, IsRight
<1>3. pc'[t] = "check" /\ issues'[t] = issues[t] \cup {checking[t]}
  BY <1>1, <1>2 DEF FmEvent, Goto
<1>4. LogAgrees'
  BY <1>1, LogIsKept DEF Busy, Exists, tables
<1>5. \A m : /\ HandoverNbrs(m)' = HandoverNbrs(m) /\ Exists(m)' = Exists(m)
             /\ IsRight(m)' = IsRight(m)
  BY <1>1, TablesAreKept
<1>6. HasList(t) /\ HasPci(t)
  BY <1>1 DEF HasList, HasPci, CheckPcs
<1>7. PciInHand(t)' /\ NbrsInHand(t)' /\ RowInHand(t)'
  BY <1>1, <1>3, <1>5, <1>6 DEF LoggedPci, PciInHand, NbrsInHand, RowInHand, tables
<1>8. \A n : UnderCheck(t, n) => UnderCheck(t, n)' \/ n = checking[t]
  BY <1>1, <1>3 DEF UnderCheck, CheckPcs
<1>9. ChecksInHand(t)'
  BY <1>1, <1>2, <1>3, <1>5, <1>6, <1>8 DEF ChecksInHand, tables
<1> QED
  BY <1>4, <1>7, <1>9 DEF InHand

LEMMA CheckedAlone ==
    ASSUME AloneInv, ~overlapped, NEW t \in Requests, Checked(t)
    PROVE  /\ LogAgrees' /\ InHand(t)'
           /\ op[t] = "topology" => \A c \in Cells :
                Exists(c) /\ HasIssue(cell[c].flags) => Fresh(c)
<1>1. /\ pc \in [Requests -> Pc] /\ pc[t] = "check" /\ checks[t] = {}
      /\ UNCHANGED <<tables, logged, op, target, pci, nbrs, issues>>
      /\ pc'[t] = IF op[t] = "modify" THEN "alarm" ELSE "done"
      /\ PciInHand(t) /\ NbrsInHand(t) /\ ChecksInHand(t)
  BY DEF AloneInv, DetailInv, TypeOK, QuestionOK, Checked, Answer, Goto, question, outputs,
     Alone, InHand
<1>2. LogAgrees'
  BY <1>1, LogIsKept DEF Busy, Exists, tables
<1>3. \A n : ~UnderCheck(t, n)
  BY <1>1 DEF UnderCheck
<1>4. \A m : /\ HandoverNbrs(m)' = HandoverNbrs(m) /\ Exists(m)' = Exists(m)
             /\ IsRight(m)' = IsRight(m)
  BY <1>1, TablesAreKept
<1>5. CASE op[t] = "modify"
  <2>1. HasList(t) /\ HasPci(t) /\ pc'[t] = "alarm"
    BY <1>1, <1>5 DEF HasList, HasPci, CheckPcs
  <2>2. PciInHand(t)' /\ NbrsInHand(t)' /\ RowInHand(t)'
    BY <1>1, <1>4, <1>5, <2>1 DEF LoggedPci, PciInHand, NbrsInHand, RowInHand, tables
  <2>3. ChecksInHand(t)'
    BY <1>1, <1>3, <1>4, <1>5, <2>1 DEF ChecksInHand, tables
  <2> QED
    BY <1>2, <1>5, <2>2, <2>3 DEF InHand
<1>6. CASE op[t] # "modify"
  <2>1. InHand(t)'
    BY <1>1, <1>6, IdleHasNothing DEF Busy
  <2> QED
    BY <1>1, <1>2, <1>3, <2>1 DEF ChecksInHand, CheckPcs
<1> QED
  BY <1>5, <1>6

-----------------------------------------------------------------------------
(* The steps of the other operations.                                      *)

LEMMA DropAlone ==
    ASSUME AloneInv, ~overlapped, NEW t \in Requests, DropNeighbors(t) \/ DropCell(t)
    PROVE  LogAgrees' /\ InHand(t)'
<1>1. /\ pc \in [Requests -> Pc] /\ pc[t] \in {"dropNbrs", "dropCell"} /\ op[t] = "delete"
      /\ pc'[t] \in {"dropCell", "done"} /\ UNCHANGED <<logged, op>>
      /\ cell \in [Names -> Row \cup {NoRow}]
      /\ cell' = cell \/ cell' = [cell EXCEPT ![target[t]] = NoRow]
  BY DEF AloneInv, DetailInv, TypeOK, QuestionOK, TablesOK, Asked, DropNeighbors, DropCell,
     Goto, question, outputs
<1>2. \A c \in Cells : Exists(c)' => Exists(c) /\ cell'[c].pci = cell[c].pci
  BY <1>1 DEF Exists, Names
<1>3. LogAgrees'
  BY <1>1, <1>2, LogIsKept DEF Busy
<1>4. InHand(t)'
  BY <1>1 DEF InHand, PciInHand, NbrsInHand, RowInHand, ChecksInHand, HasList, HasPci, CheckPcs
<1> QED
  BY <1>3, <1>4

LEMMA LogSdnrPciAlone ==
    ASSUME AloneInv, ~overlapped, NEW t \in Requests, LogSdnrPci(t)
    PROVE  LogAgrees' /\ InHand(t)'
<1>1. /\ pc \in [Requests -> Pc] /\ logged \in [Cells -> LogRow \cup {None}] /\ target[t] \in Cells
      /\ pc[t] = "pciLog" /\ pc'[t] = "done" /\ UNCHANGED <<cell, target>>
      /\ AddLogRow(target[t], "Netconf", pci[t], row[t].pci)
      /\ row[t].pci \in Nat /\ pci[t] \in Nat
      /\ cell[target[t]].pci = pci[t]
  BY DEF AloneInv, DetailInv, TypeOK, QuestionOK, OutputsOK, LocalsOK, Row, Prepared,
     LogSdnrPci, Answer, Goto, tables, question, Alone, InHand, PciInHand, OperationNames
<1>3. /\ LoggedPci(target[t])' = pci[t]
      /\ \A n \in Cells : n # target[t] => LoggedPci(n)' = LoggedPci(n)
  BY <1>1, LogRowTells
<1>2. LogAgrees'
  <2> SUFFICES ASSUME NEW c \in Cells, Exists(c) PROVE cell[c].pci = LoggedPci(c)'
    BY <1>1 DEF LogAgrees, Exists
  <2>1. CASE c = target[t]
    BY <1>1, <1>3, <2>1
  <2>2. CASE c # target[t]
    <3>1. ASSUME NEW s \in Requests, LogDue(s, c) PROVE FALSE
      <4>1. s = t
        BY <1>1, <3>1 DEF AloneInv, Alone, OneBusy, Busy, LogDue
      <4> QED
        BY <2>2, <3>1, <4>1 DEF LogDue
    <3> QED
      BY <1>1, <1>3, <2>2, <3>1 DEF AloneInv, Alone, LogAgrees
  <2> QED
    BY <2>1, <2>2
<1> QED
  BY <1>1, <1>2, IdleHasNothing DEF Busy

\* ModifyACell begins with the log, the neighbors, or a refusal.
LEMMA ModifyBegins ==
    ASSUME NEW t \in Requests, ModifyACell(t),
           pci \in [Requests -> Nat], result \in [Requests -> {0, 200, 400, 500}]
    PROVE  \E c \in Cells : \E label \in {"update", "log", "nbrs"} :
             /\ Begin(t, "modify", c, label)
             /\ label = "update" => result'[t] = 400
             /\ label = "nbrs" => Exists(c) /\ pci'[t] = cell[c].pci
<1>1. PICK c \in Cells, p \in Pcis, ns \in NbrSets :
        /\ LET valid == Exists(c) /\ p <= MaxPci IN
             /\ Begin(t, "modify", c, CASE ~valid -> "update"
                                        [] valid /\ p # cell[c].pci -> "log"
                                        [] OTHER -> "nbrs")
             /\ result' = [result EXCEPT ![t] = IF valid THEN 0 ELSE 400]
        /\ ReadRow(t, c)
        /\ pci' = [pci EXCEPT ![t] = p]
        /\ nbrs' = [nbrs EXCEPT ![t] = IF ns = {} THEN {Blank} ELSE ns]
        /\ UNCHANGED <<tables, outputs, details, newList, checks, checking, flags, issues>>
  BY DEF ModifyACell
<1> DEFINE valid == Exists(c) /\ p <= MaxPci
<1>2. CASE ~valid
  BY <1>1, <1>2
<1>3. CASE valid /\ p # cell[c].pci
  BY <1>1, <1>3
<1>4. CASE valid /\ p = cell[c].pci
  BY <1>1, <1>4
<1> QED
  BY <1>2, <1>3, <1>4

LEMMA BeginAlone ==
    ASSUME AloneInv, ~overlapped', NEW t \in Requests,
           ModifyACell(t) \/ DeleteACell(t) \/ ModifyPci(t) \/ ModifyAnr(t) \/ GetTopology(t)
    PROVE  Alone'
<1>1. UNCHANGED <<tables, outputs>>
  BY DEF ModifyACell, DeleteACell, ModifyPci, ModifyAnr, GetTopology
<1>2. /\ pc \in [Requests -> Pc] /\ pci \in [Requests -> Nat]
      /\ result \in [Requests -> {0, 200, 400, 500}] /\ checks \in [Requests -> SUBSET Names]
  BY DEF AloneInv, DetailInv, TypeOK, QuestionOK, LocalsOK
<1> SUFFICES ASSUME NEW o, NEW c, NEW label, Begin(t, o, c, label), PciIsLogged,
                    pc'[t] = label, op'[t] = o, target'[t] = c,
                    \/ /\ o = "modify" /\ c \in Cells
                       /\ label = "update" => result'[t] = 400
                       /\ label = "nbrs" => Exists(c) /\ pci'[t] = cell[c].pci
                       /\ label \in {"update", "nbrs", "log"}
                    \/ o = "delete" /\ label \in {"done", "dropCell", "dropNbrs"}
                    \/ o = "sdnrPci" /\ label \in {"merge", "done"}
                    \/ o = "sdnrNbr" /\ label = "details"
                    \/ /\ o = "topology" /\ label = "check"
                       /\ \A n \in Cells : Exists(n) /\ HasIssue(cell[n].flags) => n \in checks'[t]
             PROVE  InHand(t)'
  <2>1. ASSUME NEW o, NEW c, NEW label, Begin(t, o, c, label), InHand(t)'
        PROVE  Alone'
    BY <1>1, <2>1, OthersAtBegin DEF Alone
  <2>2. CASE ModifyACell(t)
    <3>1. PICK c \in Cells, label \in {"update", "log", "nbrs"} :
            /\ Begin(t, "modify", c, label)
            /\ label = "update" => result'[t] = 400
            /\ label = "nbrs" => Exists(c) /\ pci'[t] = cell[c].pci
      BY <1>2, <2>2, ModifyBegins
    <3>2. PciIsLogged /\ pc'[t] = label /\ op'[t] = "modify" /\ target'[t] = c
      BY <1>1, <3>1, OthersAtBegin
    <3>3. InHand(t)'
      BY <3>1, <3>2
    <3> QED
      BY <2>1, <3>1, <3>3
  <2>3. CASE DeleteACell(t)
    BY <1>1, <1>2, <2>1, <2>3, OthersAtBegin DEF DeleteACell
  <2>4. CASE ModifyPci(t)
    BY <1>1, <1>2, <2>1, <2>4, OthersAtBegin DEF ModifyPci
  <2>5. CASE ModifyAnr(t)
    BY <1>1, <1>2, <2>1, <2>5, OthersAtBegin DEF ModifyAnr
  <2>6. CASE GetTopology(t)
    BY <1>1, <1>2, <2>1, <2>6, OthersAtBegin DEF GetTopology
  <2> QED
    BY <2>2, <2>3, <2>4, <2>5, <2>6
<1>3. PciInHand(t)'
  <2>1. Quiet /\ ~overlapped
    BY DEF Begin
  <2>2. label = "nbrs" => Exists(c) /\ pci'[t] = cell[c].pci /\ LoggedPci(c) = cell[c].pci
    BY <2>1 DEF PciIsLogged
  <2> QED
    BY <1>1, <2>2 DEF LoggedPci, PciInHand, HasPci, HasList, CheckPcs, Exists, tables, outputs
<1>4. (NbrsInHand(t) /\ RowInHand(t))'
  BY DEF NbrsInHand, RowInHand, HasList, CheckPcs
<1>5. ChecksInHand(t)'
  BY <1>1 DEF ChecksInHand, HasList, CheckPcs, UnderCheck, Exists, tables
<1> QED
  BY <1>3, <1>4, <1>5 DEF InHand

-----------------------------------------------------------------------------
(* The invariant. *)

LEMMA AloneInit == Init => AloneInv
<1> SUFFICES ASSUME Init PROVE AloneInv
  OBVIOUS
<1>1. \A t \in Requests : ~Busy(t) /\ pc[t] = "idle" /\ Asked(t)
  BY DEF Init, Busy, Asked
<1>2. \A t \in Requests : InHand(t)
  BY <1>1 DEF InHand, PciInHand, NbrsInHand, RowInHand, ChecksInHand, HasList, HasPci, CheckPcs
<1>3. LogAgrees
  <2> SUFFICES ASSUME NEW c \in Cells PROVE cell[c].pci = LoggedPci(c)
    BY DEF LogAgrees
  <2>1. c \in Names /\ c # Blank
    BY NameAssumption DEF Names
  <2> QED
    BY <2>1 DEF LoggedPci, Init
<1> QED
  BY <1>1, <1>2, <1>3, DetailInit DEF AloneInv, Alone, OneBusy

\* Each step is one of a request that begins, of one that is under way, or none.
LEMMA StepOfOne ==
    ASSUME AloneInv, NEW t \in Requests,
           Modify(t) \/ Check(t) \/ Delete(t) \/ Message(t) \/ GetTopology(t)
    PROVE  \/ ModifyACell(t) \/ DeleteACell(t) \/ ModifyPci(t) \/ ModifyAnr(t) \/ GetTopology(t)
           \/ /\ Busy(t) /\ overlapped' = overlapped
              /\ \A s \in Requests : s # t => pc'[s] = pc[s]
<1>1. pc \in [Requests -> Pc]
  BY DEF AloneInv, DetailInv, TypeOK, QuestionOK
<1>2. ASSUME Modify(t), ~ModifyACell(t)
      PROVE  Busy(t) /\ overlapped' = overlapped /\ \A s \in Requests : s # t => pc'[s] = pc[s]
  BY <1>1, <1>2 DEF Modify, LogPci, MergeCell, ReadNeighbors, MergeDetail, DetailsMerged,
     MergeList, SendAlarms, SendUpdateCell, Busy, Goto, Answer, question
<1>3. ASSUME Check(t)
      PROVE  Busy(t) /\ overlapped' = overlapped /\ \A s \in Requests : s # t => pc'[s] = pc[s]
  BY <1>1, <1>3 DEF Check, CheckNext, CheckNeighbors, CheckMerge, FmEvent, Checked,
     Busy, Goto, Answer, question
<1>4. ASSUME DropNeighbors(t) \/ DropCell(t) \/ LogSdnrPci(t)
      PROVE  Busy(t) /\ overlapped' = overlapped /\ \A s \in Requests : s # t => pc'[s] = pc[s]
  BY <1>1, <1>4 DEF DropNeighbors, DropCell, LogSdnrPci, Busy, Goto, Answer, question
<1> QED
  BY <1>2, <1>3, <1>4 DEF Delete, Message

LEMMA AloneStep == AloneInv /\ [Next]_vars => AloneInv'
<1> SUFFICES ASSUME AloneInv, [Next]_vars PROVE AloneInv'
  OBVIOUS
<1>1. DetailInv' /\ \A t \in Requests : Asked(t)'
  BY TypeStep, ListedStep, PendingStep, AskedStep DEF AloneInv, DetailInv
<1>2. ASSUME ~overlapped', NEW t \in Requests,
             Modify(t) \/ Check(t) \/ Delete(t) \/ Message(t) \/ GetTopology(t)
      PROVE  Alone'
  <2>1. CASE ModifyACell(t) \/ DeleteACell(t) \/ ModifyPci(t) \/ ModifyAnr(t) \/ GetTopology(t)
    BY <1>2, <2>1, BeginAlone
  <2>2. CASE ~(ModifyACell(t) \/ DeleteACell(t) \/ ModifyPci(t) \/ ModifyAnr(t) \/ GetTopology(t))
    <3>1. ~overlapped /\ Busy(t) /\ \A s \in Requests : s # t => pc'[s] = pc[s]
      BY <1>2, <2>2, StepOfOne
    <3>2. OneBusy' /\ \A s \in Requests : s # t => InHand(s)'
      BY <3>1, OthersAtStep
    <3>3. LogAgrees' /\ InHand(t)'
      <4>1. CASE Modify(t)
        BY <2>2, <3>1, <4>1, LogPciAlone, MergeCellAlone, ReadNeighborsAlone, MergeDetailAlone,
           DetailsMergedAlone, MergeListAlone, SendAlarmsAlone, SendUpdateCellAlone DEF Modify
      <4>2. CASE Check(t)
        BY <3>1, <4>2, CheckNextAlone, CheckNeighborsAlone, CheckMergeAlone, FmEventAlone,
           CheckedAlone DEF Check
      <4>3. CASE Delete(t) \/ Message(t) \/ GetTopology(t)
        BY <2>2, <3>1, <4>3, DropAlone, LogSdnrPciAlone DEF Delete, Message
      <4> QED
        BY <1>2, <4>1, <4>2, <4>3
    <3> QED
      BY <3>2, <3>3 DEF Alone
  <2> QED
    BY <2>1, <2>2
<1>3. CASE UNCHANGED vars
  <2>1. UNCHANGED <<tables, outputs, pc, question, locals>>
    BY <1>3 DEF vars
  <2> QED
    BY <1>1, <2>1, TablesAreKept DEF LoggedPci, AloneInv, Alone, OneBusy, Busy, LogAgrees, LogDue, InHand,
       PciInHand, NbrsInHand, RowInHand, ChecksInHand, HasList, HasPci, UnderCheck, tables, outputs, question, locals
<1> QED
  BY <1>1, <1>2, <1>3 DEF Next, AloneInv

\* Until requests overlap, the last row of the operation log has the PCI of the cell,
\* as the new one if the GUI has changed it and as the old one if an agent has: a
\* request is never between the table and the log when it is answered.
THEOREM PciLogged == Spec => []PciIsLogged
<1>1. AloneInv => PciIsLogged
  BY DEF AloneInv, Alone, LogAgrees, LogDue, Quiet, PciIsLogged
<1> QED
  BY <1>1, AloneInit, AloneStep, PTL DEF Spec

-----------------------------------------------------------------------------
(* What an answer means. *)

\* ModifyACell is answered 200 by its last step only, GetTopology when there is
\* nothing left to check.
LEMMA WhoAnswers ==
    ASSUME AloneInv, [Next]_vars, NEW t \in Requests, pc[t] # "done", pc'[t] = "done"
    PROVE  /\ op[t] = "modify" /\ result'[t] = 200 =>
                SendUpdateCell(t) /\ pc[t] = "update" /\ result[t] = 200
           /\ op[t] = "topology" => Checked(t)
<1>1. /\ pc \in [Requests -> Pc] /\ Asked(t) /\ op[t] \in Operations \cup {None}
      /\ result \in [Requests -> {0, 200, 400, 500}] /\ None \notin OperationNames
  BY RequestAssumption DEF AloneInv, DetailInv, TypeOK, QuestionOK, LocalsOK
<1>2. PICK s \in Requests : Modify(s) \/ Check(s) \/ Delete(s) \/ Message(s) \/ GetTopology(s)
  BY DEF Next, vars
<1>3. CASE ModifyACell(s) \/ DeleteACell(s) \/ ModifyPci(s) \/ ModifyAnr(s) \/ GetTopology(s)
  <2>1. pc[s] = "idle" /\ \A r \in Requests : r # s => pc'[r] = pc[r]
    BY <1>1, <1>3 DEF ModifyACell, DeleteACell, ModifyPci, ModifyAnr, GetTopology, Begin, Goto
  <2>2. op[t] = None
    BY <1>1, <2>1 DEF Asked
  <2> QED
    BY <1>1, <2>2 DEF OperationNames
<1>4. CASE ~(ModifyACell(s) \/ DeleteACell(s) \/ ModifyPci(s) \/ ModifyAnr(s) \/ GetTopology(s))
  <2>1. s = t
    BY <1>2, <1>4, StepOfOne
  <2>2. CASE Modify(t)
    <3>1. CASE ReadNeighbors(t)
      <4>1. pc[t] = "nbrs" /\ (Answer(t, 500) \/ Goto(t, "details"))
        BY <3>1 DEF ReadNeighbors
      <4>2. result'[t] = 500
        BY <1>1, <4>1 DEF Goto, Answer
      <4> QED
        BY <1>1, <4>1, <4>2 DEF Asked
    <3>2. CASE SendUpdateCell(t)
      BY <1>1, <3>2 DEF SendUpdateCell, Asked, locals
    <3>3. CASE LogPci(t) \/ MergeCell(t) \/ MergeDetail(t) \/ DetailsMerged(t) \/ MergeList(t)
               \/ SendAlarms(t)
      <4>1. ASSUME NEW label, label # "done", Goto(t, label) PROVE FALSE
        BY <1>1, <4>1 DEF Goto
      <4>2. ~MergeDetail(t)
        BY DEF MergeDetail
      <4> QED
        BY <3>3, <4>1, <4>2 DEF LogPci, MergeCell, DetailsMerged, MergeList, SendAlarms
    <3> QED
      BY <1>4, <2>1, <2>2, <3>1, <3>2, <3>3 DEF Modify
  <2>3. CASE Check(t)
    BY <1>1, <2>3 DEF Check, CheckNext, CheckNeighbors, CheckMerge, FmEvent, Checked, Goto,
       Answer, Asked
  <2>4. CASE DropNeighbors(t) \/ DropCell(t) \/ LogSdnrPci(t)
    BY <1>1, <2>4 DEF DropNeighbors, DropCell, LogSdnrPci, Asked
  <2> QED
    BY <1>2, <1>4, <2>1, <2>2, <2>3, <2>4 DEF Delete, Message
<1> QED
  BY <1>3, <1>4

\* Until requests overlap, a ModifyACell that is answered 200 has changed the table
\* and the handover neighbors as asked for, the log has the PCI, and the agent was
\* told it unless it had no session.
THEOREM ModifyDone == Spec => ModifyIsDone
<1>1. ASSUME AloneInv, [Next]_vars, NEW t \in Requests, ~overlapped, Answered(t, "modify"),
             result'[t] = 200
      PROVE  LET c == target[t] IN
             /\ Exists(c)'
             /\ cell'[c].pci = pci[t] /\ LoggedPci(c)' = pci[t]
             /\ updateCell'[c] \in {pci[t], NoSession}
             /\ HandoverNbrs(c)' = nbrs[t]
  <2> DEFINE c == target[t]
  <2>1. op[t] = "modify" /\ SendUpdateCell(t) /\ pc[t] = "update" /\ result[t] = 200
    BY <1>1, WhoAnswers DEF Answered
  <2>2. /\ UNCHANGED <<cell, list, blacklisted, logged, target, pci, nbrs>> /\ HasList(t) /\ HasPci(t)
        /\ c \in Cells /\ updateCell \in [Cells -> Nat \cup {None, NoSession}]
    BY <1>1, <2>1 DEF SendUpdateCell, tables, question, HasList, HasPci, AloneInv, DetailInv,
       TypeOK, OutputsOK, QuestionOK, Prepared, Asked
  <2>3. InHand(t)
    BY <1>1 DEF AloneInv, Alone
  <2>4. Exists(c) /\ cell[c].pci = pci[t] /\ LoggedPci(c) = pci[t] /\ HandoverNbrs(c) = nbrs[t]
    BY <2>2, <2>3 DEF InHand, PciInHand, NbrsInHand
  <2>5. \A n \in {c} \cup list[c] : IsRight(n)
    BY <2>1, <2>2, <2>3 DEF InHand, ChecksInHand, UnderCheck, CheckPcs
  <2>6. updateCell'[c] \in {pci[t], NoSession}
    BY <2>1, <2>2, <2>4, <2>5 DEF SendUpdateCell, IsRight, Readable
  <2> QED
    BY <2>2, <2>4, <2>6 DEF Exists, HandoverNbrs, LoggedPci
<1>2. AloneInv /\ [Next]_vars =>
        [\A t \in Requests : ~overlapped /\ Answered(t, "modify") /\ result'[t] = 200 =>
           LET c == target[t] IN
           /\ Exists(c)'
           /\ cell'[c].pci = pci[t] /\ LoggedPci(c)' = pci[t]
           /\ updateCell'[c] \in {pci[t], NoSession}
           /\ HandoverNbrs(c)' = nbrs[t]]_vars
  BY <1>1
<1> QED
  BY <1>2, AloneInit, AloneStep, PTL DEF Spec, ModifyIsDone

\* Until requests overlap, a ModifyACell that is answered 200 leaves each cell
\* it is about with the right flags, and with an alarm raised if it needs one.
THEOREM ModifyFresh == Spec => ModifyLeavesFresh
<1>1. ASSUME AloneInv, [Next]_vars, NEW t \in Requests, ~overlapped, Answered(t, "modify"),
             result'[t] = 200, NEW n \in {target[t]} \cup list[target[t]]
      PROVE  /\ Readable(n)' /\ Fresh(n)'
             /\ HasIssue(cell'[n].flags) => n \in cellsWithIssues'
  <2>1. op[t] = "modify" /\ SendUpdateCell(t) /\ pc[t] = "update" /\ result[t] = 200
    BY <1>1, WhoAnswers DEF Answered
  <2>2. UNCHANGED tables /\ UNCHANGED <<cell, cellsWithIssues>> /\ HasList(t) /\ ChecksInHand(t)
    BY <1>1, <2>1 DEF SendUpdateCell, tables, HasList, AloneInv, Alone, InHand
  <2>3. IsRight(n) /\ (HasIssue(cell[n].flags) => n \in cellsWithIssues)
    BY <2>1, <2>2 DEF ChecksInHand, UnderCheck, CheckPcs
  <2>4. Readable(n)' = Readable(n) /\ Fresh(n)' = Fresh(n)
    BY <2>2, TablesAreKept
  <2> QED
    BY <2>2, <2>3, <2>4 DEF IsRight
<1>2. AloneInv /\ [Next]_vars =>
        [\A t \in Requests : ~overlapped /\ Answered(t, "modify") /\ result'[t] = 200 =>
           \A n \in {target[t]} \cup list[target[t]] :
             /\ Readable(n)' /\ Fresh(n)'
             /\ HasIssue(cell'[n].flags) => n \in cellsWithIssues']_vars
  BY <1>1
<1> QED
  BY <1>2, AloneInit, AloneStep, PTL DEF Spec, ModifyLeavesFresh

\* Until requests overlap, GetTopology shows no issue that is none.
THEOREM TopologyRight == Spec => TopologyIsRight
<1>1. AloneInv /\ [Next]_vars =>
        [\A t \in Requests : ~overlapped /\ Answered(t, "topology") =>
           \A c \in Cells : Exists(c) /\ HasIssue(cell[c].flags) => Fresh(c)]_vars
  BY WhoAnswers, CheckedAlone DEF Answered
<1> QED
  BY <1>1, AloneInit, AloneStep, PTL DEF Spec, TopologyIsRight

\* Until requests overlap, no list loses a neighbor.
THEOREM NeighborsKept == Spec => NeighborsAreKept
<1>1. ASSUME AloneInv, [Next]_vars, NEW c \in Cells, ~overlapped, list[c] # NoRow, list'[c] # NoRow
      PROVE  list[c] \subseteq list'[c]
  <2>1. list \in [Cells -> (SUBSET Names) \cup {NoRow}]
    BY <1>1 DEF AloneInv, DetailInv, TypeOK, TablesOK
  <2>2. ASSUME NEW t \in Requests, MergeList(t) PROVE list[c] \subseteq list'[c]
    <3>1. CASE c = target[t]
      BY <1>1, <2>2, <3>1, MergeListAlone
    <3>2. CASE c # target[t]
      BY <2>1, <2>2, <3>2 DEF MergeList
    <3> QED
      BY <3>1, <3>2
  <2>3. ASSUME NEW t \in Requests, DropNeighbors(t) PROVE list[c] \subseteq list'[c]
    BY <1>1, <2>1, <2>3 DEF DropNeighbors
  <2> QED
    BY <1>1, <2>2, <2>3, ListChanges
<1>2. AloneInv /\ [Next]_vars =>
        [\A c \in Cells : ~overlapped /\ list[c] # NoRow /\ list'[c] # NoRow =>
           list[c] \subseteq list'[c]]_vars
  BY <1>1
<1> QED
  BY <1>2, AloneInit, AloneStep, PTL DEF Spec, NeighborsAreKept

=============================================================================
