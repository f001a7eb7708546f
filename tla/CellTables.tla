----------------------------- MODULE CellTables -----------------------------
(***************************************************************************)
(* The cell tables of the RAN simulator controller and the requests that   *)
(* change them: ModifyACell and DeleteACell of the GUI, the ModifyPci and  *)
(* ModifyAnr messages of the agents, and GetTopology, which looks at the   *)
(* flagged cells again.                                                    *)
(*                                                                         *)
(* Three tables: CellDetails (a cell's PCI and its collision and confusion *)
(* flags), CellNeighbor (the neighbors a cell lists) and NeighborDetails   *)
(* (whether handover to a listed neighbor is blacklisted).  Each call of   *)
(* RansimControllerDatabase is a transaction of its own, and a merge       *)
(* writes the whole row as it was when it was read.  A request is cut into *)
(* these transactions; requests run in threads of their own, and nothing   *)
(* orders them.                                                            *)
(***************************************************************************)
EXTENDS PciFlags

CONSTANTS
    Cells,      \* node ids
    Blank,      \* the empty node id: what "" splits into
    InitPci,    \* the PCI and the handover neighbors of each cell in the
    InitNbrs,   \* topology file
    AgentOf,    \* the agent that simulates a cell
    MaxPci,     \* maxPciValueAllowed
    Pcis,       \* PCI values that requests ask for
    NbrSets,    \* sets of neighbors that ModifyACell asks for
    Operations, \* the operations that are requested
    Requests,   \* bounds the requests: each is used once
    None, NoRow,
    NoSession   \* an UpdateCell that could not be sent

Row == [pci : Nat, flags : Flags]

\* The row that updatePciOperationsTable adds to the operation log: who asked for the
\* change, and the two PCIs of its message "PCID value changed from .. to ..".
LogRow == [source : {"GUI", "Netconf"}, from : Nat, to : Nat]

ASSUME NameAssumption ==
    /\ Blank \notin Cells
    /\ None \notin Cells \cup {Blank}
    /\ None \notin BOOLEAN
    /\ NoRow \notin Row
    /\ None \notin LogRow
    /\ NoSession \notin Nat \cup {None}
ASSUME FileAssumption ==
    /\ MaxPci \in Nat
    /\ InitPci \in [Cells -> 0 .. MaxPci]
    /\ InitNbrs \in [Cells -> SUBSET Cells]
OperationNames == {"modify", "delete", "sdnrPci", "sdnrNbr", "topology"}
ASSUME RequestAssumption ==
    /\ Pcis \subseteq Nat
    /\ NbrSets \subseteq SUBSET Cells
    /\ Operations \subseteq OperationNames
    /\ None \notin OperationNames

VARIABLES
    cell,           \* CellDetails: node id -> row, or NoRow
    list,           \* CellNeighbor: node id -> the neighbors it lists, or NoRow
    blacklisted,    \* NeighborDetails: source, neighbor -> flag, or None
    logged,         \* the last OperationLog row for the PCI of a cell, or None
    cellsWithIssues,\* the cells an FM alarm has been raised for
    updateCell,     \* what became of the last UpdateCell for a cell: the PCI it told
                    \* the agent, NoSession, or None if it was not made
    pc, op, target, pci,
    nbrs,           \* the neighbors that are asked for: ModifyACell's newNbrs
    overlapped,     \* history: a request has arrived while another was running
    row,            \* the CellDetails row that was read last
    details,        \* NeighborDetails rows that are still to be merged
    newList,        \* the neighbor list that will be merged
    checks,         \* cells whose flags are still to be set
    checking, flags, issues, result

tables == <<cell, list, blacklisted>>
outputs == <<logged, cellsWithIssues, updateCell>>
question == <<op, target, pci, nbrs, overlapped>>
locals == <<row, details, newList, checks, checking, flags, issues, result>>
vars == <<tables, outputs, pc, question, locals>>

Names == Cells \cup {Blank}
Detail == [nbr : Names, blacklisted : BOOLEAN]

Pc == {"idle", "log", "merge", "nbrs", "details", "list", "check", "checkNbrs",
       "checkMerge", "event", "alarm", "update", "pciLog", "dropNbrs", "dropCell", "done"}

\* What a request has read, or is about, when it comes to a step that needs it.
Prepared(t) ==
    /\ pc[t] \in {"log", "merge", "pciLog", "checkMerge"} => row[t] # NoRow
    /\ pc[t] \in {"log", "merge", "nbrs", "details", "list", "alarm", "update",
                 "pciLog", "dropNbrs", "dropCell"} => op[t] \notin {"topology", None}
    /\ op[t] \notin {"topology", None} => target[t] # None
    /\ pc[t] \in {"checkNbrs", "checkMerge", "event"} => checking[t] # None

TablesOK ==
    /\ cell \in [Names -> Row \cup {NoRow}]
    /\ list \in [Cells -> (SUBSET Names) \cup {NoRow}]
    /\ blacklisted \in [Cells -> [Names -> BOOLEAN \cup {None}]]
OutputsOK ==
    /\ logged \in [Cells -> LogRow \cup {None}]
    /\ cellsWithIssues \subseteq Names
    /\ updateCell \in [Cells -> Nat \cup {None, NoSession}]
QuestionOK ==
    /\ pc \in [Requests -> Pc]
    /\ op \in [Requests -> Operations \cup {None}]
    /\ target \in [Requests -> Cells \cup {None}]
    /\ pci \in [Requests -> Nat]
    /\ nbrs \in [Requests -> SUBSET Names]
    /\ overlapped \in BOOLEAN
LocalsOK ==
    /\ row \in [Requests -> Row \cup {NoRow}]
    /\ details \in [Requests -> SUBSET Detail]
    /\ newList \in [Requests -> SUBSET Names]
    /\ checks \in [Requests -> SUBSET Names]
    /\ checking \in [Requests -> Names \cup {None}]
    /\ flags \in [Requests -> Flags]
    /\ issues \in [Requests -> SUBSET Names]
    /\ result \in [Requests -> {0, 200, 400, 500}]
TypeOK ==
    TablesOK /\ OutputsOK /\ QuestionOK /\ LocalsOK /\ \A t \in Requests : Prepared(t)

-----------------------------------------------------------------------------
(* What the tables say of a cell. *)

Exists(n) == cell[n] # NoRow
HandoverNbrs(c) == {n \in list[c] : ~blacklisted[c][n]}

\* generateNeighborList, and the loop over it, come to an end without an
\* exception: the cell has a list, and no handover neighbor is missing.
Readable(c) ==
    /\ c \in Cells
    /\ list[c] # NoRow
    /\ \A n \in HandoverNbrs(c) : Exists(n)

\* The flags of c, whose own PCI is taken to be own.
FlagsOf(c, own) ==
    Conflicts(own, [n \in HandoverNbrs(c) |-> cell[n].pci], HandoverNbrs(c))

Fresh(c) == Readable(c) /\ Exists(c) => cell[c].flags = FlagsOf(c, cell[c].pci)

\* generateClusterFromFile: rows, lists and flags as in the topology file.
Init ==
    /\ cell = [n \in Names |->
                 IF n = Blank THEN NoRow
                 ELSE [pci |-> InitPci[n],
                       flags |-> Conflicts(InitPci[n], InitPci, InitNbrs[n])]]
    /\ list = InitNbrs
    /\ blacklisted = [c \in Cells |->
                        [n \in Names |-> IF n \in InitNbrs[c] THEN FALSE ELSE None]]
    /\ logged = [c \in Cells |-> None]
    /\ cellsWithIssues = {}
    /\ updateCell = [c \in Cells |-> None]
    /\ pc = [t \in Requests |-> "idle"]
    /\ op = [t \in Requests |-> None]
    /\ target = [t \in Requests |-> None]
    /\ pci = [t \in Requests |-> 0]
    /\ nbrs = [t \in Requests |-> {}]
    /\ overlapped = FALSE
    /\ row = [t \in Requests |-> NoRow]
    /\ details = [t \in Requests |-> {}]
    /\ newList = [t \in Requests |-> {}]
    /\ checks = [t \in Requests |-> {}]
    /\ checking = [t \in Requests |-> None]
    /\ flags = [t \in Requests |-> NoFlags]
    /\ issues = [t \in Requests |-> {}]
    /\ result = [t \in Requests |-> 0]

Quiet == \A t \in Requests : pc[t] \in {"idle", "done"}

Goto(t, label) == pc' = [pc EXCEPT ![t] = label]
Answer(t, code) == Goto(t, "done") /\ result' = [result EXCEPT ![t] = code]

\* A request arrives; it is about cell c, or None.
Begin(t, o, c, label) ==
    /\ pc[t] = "idle"
    /\ o \in Operations
    /\ overlapped' = (overlapped \/ ~Quiet)
    /\ op' = [op EXCEPT ![t] = o]
    /\ target' = [target EXCEPT ![t] = c]
    /\ Goto(t, label)

\* getCellDetail: the whole row is read.
ReadRow(t, c) == row' = [row EXCEPT ![t] = cell[c]]

-----------------------------------------------------------------------------
(* ModifyACell: modifyCellFunction, then handleModifyPciFromGui. *)

\* The neighbors are given as one string, split at its commas: splitting ""
\* yields one empty name.  A PCI that is out of range, or a cell that is not
\* there, is answered by 400, after handleModifyPciFromGui.
ModifyACell(t) == \E c \in Cells, p \in Pcis, ns \in NbrSets :
    /\ LET valid == Exists(c) /\ p <= MaxPci IN
         /\ Begin(t, "modify", c, CASE ~valid -> "update"
                                    [] valid /\ p # cell[c].pci -> "log"
                                    [] OTHER -> "nbrs")
         /\ result' = [result EXCEPT ![t] = IF valid THEN 0 ELSE 400]
    /\ ReadRow(t, c)
    /\ pci' = [pci EXCEPT ![t] = p]
    /\ nbrs' = [nbrs EXCEPT ![t] = IF ns = {} THEN {Blank} ELSE ns]
    /\ UNCHANGED <<tables, outputs, details, newList, checks, checking, flags, issues>>

\* updatePciOperationsTable: its message tells both PCIs.
AddLogRow(c, src, old, new) ==
    logged' = [logged EXCEPT ![c] = [source |-> src, from |-> old, to |-> new]]

\* Mutant: the PCIs are swapped, as they are for a ModifyPci message.
LogPci_Swapped(t) ==
    /\ pc[t] = "log"
    /\ AddLogRow(target[t], "GUI", pci[t], row[t].pci)
    /\ Goto(t, "merge")
    /\ UNCHANGED <<tables, cellsWithIssues, updateCell, question, locals>>

\* The log is written before the row is merged.
LogPci(t) ==
    /\ pc[t] = "log"
    /\ AddLogRow(target[t], "GUI", row[t].pci, pci[t])
    /\ Goto(t, "merge")
    /\ UNCHANGED <<tables, cellsWithIssues, updateCell, question, locals>>

\* mergeCellDetails: the row that was read, with the new PCI.  An SdnrPci
\* request comes here before it writes its log.
MergeCell(t) ==
    /\ pc[t] = "merge"
    /\ cell' = [cell EXCEPT ![target[t]] = [row[t] EXCEPT !.pci = pci[t]]]
    /\ Goto(t, IF op[t] = "modify" THEN "nbrs" ELSE "pciLog")
    /\ UNCHANGED <<list, blacklisted, outputs, question, locals>>

\* Mutant: neighbors that are no longer asked for keep their handover.
ReadNeighbors_KeepsDropped(t) ==
    LET c == target[t]
        added == nbrs[t] \ HandoverNbrs(c)
    IN  /\ pc[t] = "nbrs"
        /\ list[c] # NoRow
        /\ details' = [details EXCEPT ![t] = [nbr : added, blacklisted : {FALSE}]]
        /\ newList' = [newList EXCEPT ![t] = list[c] \cup added]
        /\ Goto(t, "details")
        /\ UNCHANGED <<tables, outputs, question, row, checks, checking, flags,
                       issues, result>>

\* getCellNeighbor: neighbors that are no longer asked for will be blacklisted,
\* neighbors that had no handover before are added.  No row: an exception.
ReadNeighbors(t) ==
    LET c == target[t]
        gone == HandoverNbrs(c) \ nbrs[t]
        added == nbrs[t] \ HandoverNbrs(c)
    IN  /\ pc[t] = "nbrs"
        /\ \/ /\ list[c] = NoRow
              /\ Answer(t, 500)
              /\ UNCHANGED <<details, newList>>
           \/ /\ list[c] # NoRow
              /\ details' = [details EXCEPT ![t] =
                                [nbr : gone, blacklisted : {TRUE}]
                                \cup [nbr : added, blacklisted : {FALSE}]]
              /\ newList' = [newList EXCEPT ![t] = list[c] \cup added]
              /\ Goto(t, "details")
              /\ UNCHANGED result
        /\ UNCHANGED <<tables, outputs, question, row, checks, checking, flags, issues>>

\* mergeNeighborDetails, row by row; a ModifyAnr message goes on to the checks.
MergeDetail(t) == \E d \in details[t] :
    /\ pc[t] = "details"
    /\ blacklisted' = [blacklisted EXCEPT ![target[t]][d.nbr] = d.blacklisted]
    /\ details' = [details EXCEPT ![t] = @ \ {d}]
    /\ UNCHANGED <<cell, list, outputs, pc, question, row, newList, checks,
                   checking, flags, issues, result>>

\* Mutant: the list is merged before the rows it refers to.
DetailsMerged_Early(t) ==
    /\ pc[t] = "details"
    /\ Goto(t, IF op[t] = "modify" THEN "list" ELSE "check")
    /\ UNCHANGED <<tables, outputs, question, locals>>

DetailsMerged(t) ==
    /\ pc[t] = "details"
    /\ details[t] = {}
    /\ Goto(t, IF op[t] = "modify" THEN "list" ELSE "check")
    /\ UNCHANGED <<tables, outputs, question, locals>>

\* Mutants: only the neighbors that are asked for are checked; they replace the
\* list.
MergeList_ChecksAsked(t) ==
    /\ pc[t] = "list"
    /\ list' = [list EXCEPT ![target[t]] = newList[t]]
    /\ checks' = [checks EXCEPT ![t] = {target[t]} \cup nbrs[t]]
    /\ Goto(t, "check")
    /\ UNCHANGED <<cell, blacklisted, outputs, question, row, details, newList,
                   checking, flags, issues, result>>
MergeList_Replaces(t) ==
    /\ pc[t] = "list"
    /\ list' = [list EXCEPT ![target[t]] = nbrs[t]]
    /\ checks' = [checks EXCEPT ![t] = {target[t]} \cup newList[t]]
    /\ Goto(t, "check")
    /\ UNCHANGED <<cell, blacklisted, outputs, question, row, details, newList,
                   checking, flags, issues, result>>

\* mergeCellNeighbor: a blacklisted neighbor stays in the list.
MergeList(t) ==
    /\ pc[t] = "list"
    /\ list' = [list EXCEPT ![target[t]] = newList[t]]
    /\ checks' = [checks EXCEPT ![t] = {target[t]} \cup newList[t]]
    /\ Goto(t, "check")
    /\ UNCHANGED <<cell, blacklisted, outputs, question, row, details, newList,
                   checking, flags, issues, result>>

-----------------------------------------------------------------------------
(* setCollisionConfusionFromFile, called for one cell after the other: of    *)
(* ModifyACell by generateFmData, where the cell itself comes first.  A      *)
(* neighbor that generateFmData looks at twice is looked at once.            *)

CheckNext(t) == \E n \in checks[t] :
    /\ pc[t] = "check"
    /\ (target[t] \in checks[t]) => (n = target[t])
    /\ checking' = [checking EXCEPT ![t] = n]
    /\ checks' = [checks EXCEPT ![t] = @ \ {n}]
    /\ ReadRow(t, n)
    /\ Goto(t, "checkNbrs")
    /\ UNCHANGED <<tables, outputs, question, details, newList, flags, issues, result>>

\* No result is given if the cell, its list or a handover neighbor is missing:
\* generateFmData throws then, the other callers go on.
CheckNeighbors(t) ==
    LET n == checking[t] IN
    /\ pc[t] = "checkNbrs"
    /\ \/ /\ row[t] # NoRow /\ Readable(n)
          /\ flags' = [flags EXCEPT ![t] = FlagsOf(n, row[t].pci)]
          /\ Goto(t, "checkMerge")
          /\ UNCHANGED result
       \/ /\ ~(row[t] # NoRow /\ Readable(n))
          /\ \/ op[t] = "modify" /\ Answer(t, 500)
             \/ op[t] # "modify" /\ Goto(t, "check") /\ UNCHANGED result
          /\ UNCHANGED flags
    /\ UNCHANGED <<tables, outputs, question, row, details, newList, checks,
                   checking, issues>>

CheckMerge(t) ==
    /\ pc[t] = "checkMerge"
    /\ cell' = [cell EXCEPT ![checking[t]] = [row[t] EXCEPT !.flags = flags[t]]]
    /\ Goto(t, IF op[t] = "modify" /\ HasIssue(flags[t]) THEN "event" ELSE "check")
    /\ UNCHANGED <<list, blacklisted, outputs, question, locals>>

\* generateFmData reads a neighbor again to put it into an event.
FmEvent(t) ==
    /\ pc[t] = "event"
    /\ \/ /\ checking[t] = target[t] \/ Exists(checking[t])
          /\ issues' = [issues EXCEPT ![t] = @ \cup {checking[t]}]
          /\ Goto(t, "check")
          /\ UNCHANGED result
       \/ /\ checking[t] # target[t] /\ ~Exists(checking[t])
          /\ Answer(t, 500)
          /\ UNCHANGED issues
    /\ UNCHANGED <<tables, outputs, question, row, details, newList, checks,
                   checking, flags>>

Checked(t) ==
    /\ pc[t] = "check"
    /\ checks[t] = {}
    /\ \/ op[t] = "modify" /\ Goto(t, "alarm") /\ UNCHANGED result
       \/ op[t] # "modify" /\ Answer(t, 200)
    /\ UNCHANGED <<tables, outputs, question, row, details, newList, checks,
                   checking, flags, issues>>

\* One FM message for each netconf server of the cells with an issue.  The cells are
\* noted before the message is made; sendFmData drops it if the agent has no session.
SendAlarms(t) ==
    /\ pc[t] = "alarm"
    /\ cellsWithIssues' = cellsWithIssues \cup issues[t]
    /\ result' = [result EXCEPT ![t] = 200]
    /\ Goto(t, "update")
    /\ UNCHANGED <<tables, logged, updateCell, question, row, details, newList,
                   checks, checking, flags, issues>>

\* handleModifyPciFromGui: UpdateCell carries the PCI that was asked for.  It is sent
\* if the cell's server has an agent and the agent a session, which AgentSessions may
\* give and take at any time; otherwise, and if an exception on a missing neighbor,
\* blacklisted or not, is swallowed, nothing is sent.  The answer is the same.
SendUpdateCell(t) ==
    LET c == target[t]
        complete == Exists(c) /\ list[c] # NoRow /\ \A n \in list[c] : Exists(n)
    IN
    /\ pc[t] = "update"
    /\ \E told \in IF complete THEN {pci[t], NoSession} ELSE {None} :
         updateCell' = [updateCell EXCEPT ![c] = told]
    /\ Goto(t, "done")
    /\ UNCHANGED <<tables, logged, cellsWithIssues, question, locals>>

-----------------------------------------------------------------------------
(* DeleteACell: deleteCellFunction. *)

\* Its loop over the neighbor lists looks for a NeihborId in a set of
\* NeighborDetails, finds none, and changes nothing.
DeleteACell(t) == \E c \in Cells :
    /\ Begin(t, "delete", c,
             IF ~Exists(c) THEN "done" ELSE IF list[c] = NoRow THEN "dropCell"
             ELSE "dropNbrs")
    /\ ReadRow(t, c)
    /\ result' = [result EXCEPT ![t] = 200]
    /\ UNCHANGED <<tables, outputs, pci, nbrs, details, newList, checks,
                   checking, flags, issues>>

DropNeighbors(t) ==
    /\ pc[t] = "dropNbrs"
    /\ list' = [list EXCEPT ![target[t]] = NoRow]
    /\ Goto(t, "dropCell")
    /\ UNCHANGED <<cell, blacklisted, outputs, question, locals>>

\* deleteCellDetails: a rolled back transaction is logged and not reported
\* (the cell may still be referred to by the row of its netconf server).
DropCell(t) ==
    /\ pc[t] = "dropCell"
    /\ \/ cell' = [cell EXCEPT ![target[t]] = NoRow]
       \/ UNCHANGED cell
    /\ Goto(t, "done")
    /\ UNCHANGED <<list, blacklisted, outputs, question, locals>>

-----------------------------------------------------------------------------
(* The messages of the agents, and GetTopology. *)

\* The messages of one agent are handled one after the other.
AgentIsServed(c) == \E t \in Requests :
    pc[t] # "done" /\ op[t] \in {"sdnrPci", "sdnrNbr"} /\ AgentOf[target[t]] = AgentOf[c]

\* Mutant: the cell is not known to exist.
ModifyPci_Unchecked(t) == \E c \in Cells, p \in Pcis :
    /\ ~AgentIsServed(c)
    /\ Begin(t, "sdnrPci", c, "merge")
    /\ ReadRow(t, c)
    /\ pci' = [pci EXCEPT ![t] = p]
    /\ UNCHANGED <<tables, outputs, nbrs, details, newList, checks, checking,
                   flags, issues, result>>

\* handleModifyPciFromSdnr: any PCI is taken; no cell: an exception.
ModifyPci(t) == \E c \in Cells, p \in Pcis :
    /\ ~AgentIsServed(c)
    /\ Begin(t, "sdnrPci", c, IF Exists(c) THEN "merge" ELSE "done")
    /\ ReadRow(t, c)
    /\ pci' = [pci EXCEPT ![t] = p]
    /\ UNCHANGED <<tables, outputs, nbrs, details, newList, checks, checking,
                   flags, issues, result>>

\* The log is written after the row is merged.  handleModifyPciFromSdnr gives the old PCI
\* where updatePciOperationsTable takes the new one: the message is the wrong way round.
LogSdnrPci(t) ==
    /\ pc[t] = "pciLog"
    /\ AddLogRow(target[t], "Netconf", pci[t], row[t].pci)
    /\ Answer(t, 200)
    /\ UNCHANGED <<tables, cellsWithIssues, updateCell, question, row, details,
                   newList, checks, checking, flags, issues>>

\* handleModifyNeighborFromSdnr: the NeighborDetails are merged, the list of
\* the cell is not touched, the flags of the cell and the neighbors are set.
ModifyAnr(t) == \E c \in Cells : \E ns \in SUBSET (Cells \ {c}) : \E b \in [ns -> BOOLEAN] :
    /\ ns # {} /\ ~AgentIsServed(c)
    /\ Begin(t, "sdnrNbr", c, "details")
    /\ nbrs' = [nbrs EXCEPT ![t] = {n \in ns : ~b[n]}]
    /\ details' = [details EXCEPT ![t] = {[nbr |-> n, blacklisted |-> b[n]] : n \in ns}]
    /\ checks' = [checks EXCEPT ![t] = {c} \cup ns]
    /\ UNCHANGED <<tables, outputs, pci, row, newList, checking, flags, issues, result>>

\* Mutant: the condition on confusion is lost.
GetTopology_CollisionOnly(t) ==
    /\ Begin(t, "topology", None, "check")
    /\ checks' = [checks EXCEPT ![t] = {c \in Cells : Exists(c) /\ cell[c].flags.collision}]
    /\ UNCHANGED <<tables, outputs, pci, nbrs, row, details, newList, checking,
                   flags, issues, result>>

\* checkCollisionAfterModify: the cells that are flagged are checked again.
GetTopology(t) ==
    /\ Begin(t, "topology", None, "check")
    /\ checks' = [checks EXCEPT ![t] = {c \in Cells : Exists(c) /\ HasIssue(cell[c].flags)}]
    /\ UNCHANGED <<tables, outputs, pci, nbrs, row, details, newList, checking,
                   flags, issues, result>>

-----------------------------------------------------------------------------
Modify(t) == \/ ModifyACell(t) \/ LogPci(t) \/ MergeCell(t) \/ ReadNeighbors(t)
             \/ MergeDetail(t) \/ DetailsMerged(t) \/ MergeList(t)
             \/ SendAlarms(t) \/ SendUpdateCell(t)
Check(t) == \/ CheckNext(t) \/ CheckNeighbors(t) \/ CheckMerge(t)
            \/ FmEvent(t) \/ Checked(t)
Delete(t) == DeleteACell(t) \/ DropNeighbors(t) \/ DropCell(t)
Message(t) == ModifyPci(t) \/ LogSdnrPci(t) \/ ModifyAnr(t)

Next == \E t \in Requests :
    Modify(t) \/ Check(t) \/ Delete(t) \/ Message(t) \/ GetTopology(t)

Spec == Init /\ [][Next]_vars

-----------------------------------------------------------------------------
(* Properties of every interleaving. *)

\* A listed neighbor always has its NeighborDetails row, whatever requests
\* overlap: the rows are merged before the list that refers to them, and a
\* stale list that is merged late refers to rows that are never deleted.
ListedIsDetailed ==
    \A c \in Cells : list[c] # NoRow =>
        \A n \in list[c] : blacklisted[c][n] # None

-----------------------------------------------------------------------------
(* Properties of requests that do not overlap: they hold until two have. *)

Answered(t, o) == op[t] = o /\ pc[t] # "done" /\ pc'[t] = "done"

\* The PCI of a cell according to the operation log.  The row of an agent's change has
\* it where the old one should be.
LoggedPci(c) ==
    IF logged[c] = None THEN InitPci[c]
    ELSE IF logged[c].source = "GUI" THEN logged[c].to
    ELSE logged[c].from

\* ModifyACell answers 200 only if the PCI and the handover neighbors are as asked
\* for, the operation log has the PCI, and the agent was told it unless it had no
\* session, although they are written by six or more transactions, any of which may
\* be the last.
ModifyIsDone == [][\A t \in Requests :
    ~overlapped /\ Answered(t, "modify") /\ result'[t] = 200 =>
        LET c == target[t] IN
        /\ Exists(c)'
        /\ cell'[c].pci = pci[t] /\ LoggedPci(c)' = pci[t]
        /\ updateCell'[c] \in {pci[t], NoSession}
        /\ HandoverNbrs(c)' = nbrs[t]]_vars

\* When ModifyACell answers 200, the flags of the cell and of every cell it
\* lists are what the tables say now, and an alarm was raised for each one with an
\* issue: generateFmData must come after every write and leave no listed cell out.
ModifyLeavesFresh == [][\A t \in Requests :
    ~overlapped /\ Answered(t, "modify") /\ result'[t] = 200 =>
        \A n \in {target[t]} \cup list[target[t]] :
            /\ Readable(n)' /\ Fresh(n)'
            /\ HasIssue(cell'[n].flags) => n \in cellsWithIssues']_vars

\* No change of a PCI is missing from the operation log, which ModifyACell writes
\* before the table and a ModifyPci message after it: the last row of a cell has its
\* PCI, as the new one if the GUI has changed it, as the old one if an agent has.
PciIsLogged == Quiet /\ ~overlapped => \A c \in Cells : Exists(c) => cell[c].pci = LoggedPci(c)

\* A cell that GetTopology shows with an issue has this issue: flags that a
\* message has made obsolete are dropped before the topology is read.
TopologyIsRight == [][\A t \in Requests :
    ~overlapped /\ Answered(t, "topology") =>
        \A c \in Cells : Exists(c) /\ HasIssue(cell[c].flags) => Fresh(c)]_vars

\* A neighbor that was listed once stays listed, blacklisted if it is dropped:
\* no merge of a list loses what another request has added.
NeighborsAreKept == [][\A c \in Cells :
    ~overlapped /\ list[c] # NoRow /\ list'[c] # NoRow => list[c] \subseteq list'[c]]_vars

-----------------------------------------------------------------------------
(* What the documentation says and the code does not do. *)

\* updatePciOperationsTable: "PCID value changed from <oldPciId> to <physicalCellId>".
LogTellsChange == Quiet /\ ~overlapped =>
    \A c \in Cells : Exists(c) /\ logged[c] # None => logged[c].to = cell[c].pci

=============================================================================
