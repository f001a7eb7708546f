----------------------------- MODULE AgentConfig -----------------------------
(***************************************************************************)
(* The configuration of one eNodeB agent and its way between RAN simulator *)
(* controller, agent and SDN-R.                                            *)
(*                                                                         *)
(* The agent keeps the configuration of its cells three times: in the      *)
(* topology the controller has sent (ncServerTopology), in the file        *)
(* data.json, and in the data tree of Honeycomb; a fourth copy,            *)
(* radioAccessObj, only answers reads and is left out.  A change that      *)
(* SDN-R commits is reported to the controller by the write services.  A   *)
(* change of the controller is written to the file and Honeycomb is        *)
(* initialised from it, while the flag isConfigTopoInitialized keeps the   *)
(* write services from reporting what they are told.  The threads are the  *)
(* main thread (0), which starts Honeycomb, and for each session of the    *)
(* web socket the container's thread that handles its messages one by one. *)
(*                                                                         *)
(* The PCI stands for what a cell has in the configuration.                *)
(***************************************************************************)
EXTENDS Naturals, Sequences

CONSTANTS
    Cells,          \* the cells of the agent's netconf server
    Pcis,
    InitPci,        \* PCI of each cell when the agent starts
    MaxHandlers,    \* bounds the configuration handlers that are created
    MaxChanges,     \* bound on the changes of the controller's user
    MaxCommits,     \* bound on the changes of SDN-R
    None

ASSUME NamesAssumption == None \notin Pcis /\ InitPci \in [Cells -> Pcis]
ASSUME NoTopologyAssumption == None \notin [Cells -> Pcis]
ASSUME BoundsAssumption ==
    /\ MaxHandlers \in Nat \ {0}
    /\ MaxChanges \in Nat /\ MaxCommits \in Nat

\* A handler is named by its turn, and so are its session and the session's thread.
Handlers == 1 .. MaxHandlers
Threads == 0 .. MaxHandlers
Messages == [type : {"set"}, pcis : [Cells -> Pcis]]
                \cup [type : {"update"}, cell : Cells, pci : Pcis]

VARIABLES
    \* the controller
    row,            \* the PCI of a cell's CellDetails row
    started,        \* a simulation runs, and the agent has the server's id
    agentSession,   \* the session of the agent, or 0
    toAgent,        \* session -> messages on their way to the agent
    toController,   \* cell -> the PCIs the agent has reported, on their way
    \* the agent
    instance,       \* configJsonHandlerInstance, or 0
    made,           \* how many handlers have been created
    topology,       \* ncServerTopology of each handler, or None
    initialized,    \* isConfigTopoInitialized of each handler
    file, tree,     \* cell -> its PCI in data.json and in Honeycomb, or None
    pc, handler,    \* of the threads; the handler a thread has got or creates
    \* histories
    committed,      \* cell -> PCIs that SDN-R has committed
    updated,        \* cells a message has changed in the topology of a handler
    reported,       \* cells SDN-R has changed since, while the flag was set
    changes, commits,
    mishaps         \* what has happened that the agent is not built for: see Mishaps

controller == <<row, started, agentSession, toController>>
memory == <<instance, made, topology, initialized>>
histories == <<committed, updated, reported, changes, commits, mishaps>>
vars == <<controller, toAgent, memory, file, tree, pc, handler, histories>>

\* A second handler was created; an UpdateCell was handled before the main thread had
\* started Honeycomb; and since the last UpdateCell, which repairs both: Honeycomb could
\* not be initialised, or SDN-R's change was written over a file not yet read.
Mishaps == {"second", "overlap", "failed", "crossed"}

TypeOK ==
    /\ row \in [Cells -> Pcis] /\ started \in BOOLEAN
    /\ agentSession \in Handlers \cup {0}
    /\ toAgent \in [Handlers -> Seq(Messages)]
    /\ toController \in [Cells -> Seq(Pcis)]
    /\ instance \in 0 .. made /\ made \in 0 .. MaxHandlers
    /\ topology \in [Handlers -> [Cells -> Pcis] \cup {None}]
    /\ initialized \in [Handlers -> BOOLEAN]
    /\ file \in [Cells -> Pcis \cup {None}]
    /\ tree \in [Cells -> Pcis \cup {None}]
    /\ pc \in [Threads -> {"get", "connect", "assign", "handle", "ignore",
                          "boot", "monitor", "idle"}]
    /\ handler \in [Threads -> 0 .. made]
    /\ committed \in [Cells -> SUBSET Pcis]
    /\ updated \subseteq Cells /\ reported \subseteq Cells
    /\ changes \in 0 .. MaxChanges /\ commits \in 0 .. MaxCommits
    /\ mishaps \subseteq Mishaps

\* The script honeycomb empties the file before it starts the agent.
Empty == [c \in Cells |-> None]

Init ==
    /\ row = InitPci /\ started \in BOOLEAN
    /\ agentSession = 0
    /\ toAgent = [h \in Handlers |-> << >>]
    /\ toController = [c \in Cells |-> << >>]
    /\ instance = 0 /\ made = 0
    /\ topology = [h \in Handlers |-> None]
    /\ initialized = [h \in Handlers |-> FALSE]
    /\ file = Empty /\ tree = Empty
    /\ pc = [t \in Threads |-> IF t = 0 THEN "get" ELSE "idle"]
    /\ handler = [t \in Threads |-> 0]
    /\ committed = [c \in Cells |-> {}] /\ updated = {} /\ reported = {}
    /\ changes = 0 /\ commits = 0
    /\ mishaps = {}

Go(t, label) == pc' = [pc EXCEPT ![t] = label]

SetConfig == [type |-> "set", pcis |-> row]

-----------------------------------------------------------------------------
(* getConfigJsonHandler: the instance is created by the first who asks, and *)
(* whoever finds none creates another.                                      *)

\* The container's thread asks when a message has come.
Asks(t) ==
    \/ pc[t] = "get"
    \/ (t # 0 /\ pc[t] = "idle" /\ toAgent[t] # << >>)

UseHandler(t) ==
    /\ Asks(t) /\ instance # 0
    /\ handler' = [handler EXCEPT ![t] = instance]
    /\ Go(t, IF t = 0 THEN "ignore" ELSE "handle")
    /\ UNCHANGED <<controller, toAgent, memory, file, tree, histories>>

NewHandler(t) ==
    /\ Asks(t) /\ instance = 0 /\ made < MaxHandlers
    /\ made' = made + 1
    /\ handler' = [handler EXCEPT ![t] = made + 1]
    /\ mishaps' = IF made > 0 THEN mishaps \cup {"second"} ELSE mishaps
    /\ Go(t, "connect")
    /\ UNCHANGED <<controller, toAgent, instance, topology, initialized, file, tree,
                   committed, updated, reported, changes, commits>>

\* It connects, and the controller may answer before the constructor returns.
Connect(t) ==
    /\ pc[t] = "connect"
    /\ agentSession' = handler[t]
    /\ toAgent' = IF started THEN [toAgent EXCEPT ![handler[t]] = Append(@, SetConfig)]
                             ELSE toAgent
    /\ Go(t, "assign")
    /\ UNCHANGED <<row, started, toController, memory, file, tree, handler, histories>>

AssignInstance(t) ==
    /\ pc[t] = "assign"
    /\ instance' = handler[t]
    /\ Go(t, "get")
    /\ UNCHANGED <<controller, toAgent, made, topology, initialized,
                   file, tree, handler, histories>>

-----------------------------------------------------------------------------
(* The container's thread: onMessage. *)

Received(t) == Head(toAgent[t])
Done(t) ==
    /\ toAgent' = [toAgent EXCEPT ![t] = Tail(@)]
    /\ Go(t, "idle")

\* writeJsonObject; Honeycomb is not initialised.
HandleSetConfigTopology(t) ==
    /\ pc[t] = "handle" /\ Received(t).type = "set"
    /\ topology' = [topology EXCEPT ![handler[t]] = Received(t).pcis]
    /\ file' = Received(t).pcis
    /\ Done(t)
    /\ UNCHANGED <<controller, instance, made, initialized, tree, handler, histories>>

\* Without a topology there is a NullPointerException, which onMessage catches.
DropUpdateCell(t) ==
    /\ pc[t] = "handle" /\ Received(t).type = "update"
    /\ topology[handler[t]] = None
    /\ Done(t)
    /\ UNCHANGED <<controller, memory, file, tree, handler, histories>>

\* Mutant: the new cell is written to the file, but not put into the topology.
HandleUpdateCell_KeepsTopology(t) ==
    LET m == Received(t)
    IN  /\ pc[t] = "handle" /\ m.type = "update"
        /\ topology[handler[t]] # None
        /\ file' = [topology[handler[t]] EXCEPT ![m.cell] = m.pci]
        /\ updated' = updated \cup {m.cell} /\ reported' = {}
        /\ mishaps' = (mishaps \ {"failed", "crossed"})
                         \cup (IF pc[0] # "idle" THEN {"overlap"} ELSE {})
        /\ Go(t, "ignore")
        /\ UNCHANGED <<controller, toAgent, memory, tree, handler, committed, changes, commits>>

\* updateJsonObject: the cell is replaced in the topology, which is written.
HandleUpdateCell(t) ==
    LET m == Received(t)
    IN  /\ pc[t] = "handle" /\ m.type = "update"
        /\ topology[handler[t]] # None
        /\ topology' = [topology EXCEPT ![handler[t]][m.cell] = m.pci]
        /\ file' = [topology[handler[t]] EXCEPT ![m.cell] = m.pci]
        /\ updated' = updated \cup {m.cell} /\ reported' = {}
        /\ mishaps' = (mishaps \ {"failed", "crossed"})
                         \cup (IF pc[0] # "idle" THEN {"overlap"} ELSE {})
        /\ Go(t, "ignore")
        /\ UNCHANGED <<controller, toAgent, instance, made, initialized,
                       tree, handler, committed, changes, commits>>

-----------------------------------------------------------------------------
(* Initialising Honeycomb: by the main thread and after an UpdateCell. *)

\* Mutant: the flag stays set.
IgnoreEvents_Not(t) ==
    /\ pc[t] = "ignore"
    /\ Go(t, "boot")
    /\ UNCHANGED <<controller, toAgent, memory, file, tree, handler, histories>>

IgnoreEvents(t) ==
    /\ pc[t] = "ignore"
    /\ initialized' = [initialized EXCEPT ![instance] = FALSE]
    /\ Go(t, "boot")
    /\ UNCHANGED <<controller, toAgent, instance, made, topology, file, tree,
                   handler, histories>>

\* Honeycomb puts what the file has into its tree and tells the write services,
\* which report it if the flag of the instance is set.
MainMain(t) ==
    /\ pc[t] = "boot"
    /\ tree' = file
    /\ toController' =
         [c \in Cells |-> IF initialized[instance] /\ file[c] # None
                          THEN Append(toController[c], file[c]) ELSE toController[c]]
    /\ Go(t, "monitor")
    /\ UNCHANGED <<row, started, agentSession, toAgent, memory, file, handler, histories>>

\* It throws: onMessage's thread logs it and goes on.
MainMainFails(t) ==
    /\ pc[t] = "boot" /\ t # 0
    /\ mishaps' = mishaps \cup {"failed"}
    /\ Done(t)
    /\ UNCHANGED <<controller, memory, file, tree, handler, committed, updated,
                   reported, changes, commits>>

\* Mutant: the flag is not set again.
MonitorEvents_AtStartOnly(t) ==
    /\ pc[t] = "monitor"
    /\ initialized' = [initialized EXCEPT ![instance] = (t = 0)]
    /\ IF t = 0 THEN Go(t, "idle") /\ UNCHANGED toAgent ELSE Done(t)
    /\ UNCHANGED <<controller, instance, made, topology, file, tree,
                   handler, histories>>

MonitorEvents(t) ==
    /\ pc[t] = "monitor"
    /\ initialized' = [initialized EXCEPT ![instance] = TRUE]
    /\ IF t = 0 THEN Go(t, "idle") /\ UNCHANGED toAgent ELSE Done(t)
    /\ UNCHANGED <<controller, instance, made, topology, file, tree,
                   handler, histories>>

-----------------------------------------------------------------------------
(* SDN-R. *)

Booting == \E t \in Threads : pc[t] \in {"ignore", "boot"}

\* Mutant: the change is kept, but not reported.
Commit_Silent(c, p) ==
    /\ pc[0] \in {"monitor", "idle"} /\ p # tree[c] /\ commits < MaxCommits
    /\ commits' = commits + 1
    /\ committed' = [committed EXCEPT ![c] = @ \cup {p}]
    /\ tree' = [tree EXCEPT ![c] = p]
    /\ file' = [tree EXCEPT ![c] = p]
    /\ reported' = IF initialized[instance] THEN reported \cup {c} ELSE reported \ {c}
    /\ mishaps' = IF Booting THEN mishaps \cup {"crossed"} ELSE mishaps
    /\ UNCHANGED <<controller, toAgent, memory, pc, handler, updated, changes>>

\* Honeycomb tells the write service of the cell, which reports the change unless
\* the flag is off, and then keeps it in its tree and writes the tree to the file.
Commit(c, p) ==
    /\ pc[0] \in {"monitor", "idle"} /\ p # tree[c] /\ commits < MaxCommits
    /\ commits' = commits + 1
    /\ committed' = [committed EXCEPT ![c] = @ \cup {p}]
    /\ toController' = IF initialized[instance]
                       THEN [toController EXCEPT ![c] = Append(@, p)] ELSE toController
    /\ tree' = [tree EXCEPT ![c] = p]
    /\ file' = [tree EXCEPT ![c] = p]
    /\ reported' = IF initialized[instance] THEN reported \cup {c} ELSE reported \ {c}
    /\ mishaps' = IF Booting THEN mishaps \cup {"crossed"} ELSE mishaps
    /\ UNCHANGED <<row, started, agentSession, toAgent, memory, pc, handler, updated, changes>>

-----------------------------------------------------------------------------
(* The controller. *)

\* startSimulation: an agent that is connected gets the server.
StartSimulation ==
    /\ ~started
    /\ started' = TRUE
    /\ toAgent' = IF agentSession # 0
                  THEN [toAgent EXCEPT ![agentSession] = Append(@, SetConfig)] ELSE toAgent
    /\ UNCHANGED <<row, agentSession, toController, memory, file, tree, pc, handler,
                   histories>>

\* modifyACell: the row, and handleModifyPciFromGui, which tells the agent.
ModifyACell(c, p) ==
    /\ started /\ changes < MaxChanges
    /\ changes' = changes + 1
    /\ row' = [row EXCEPT ![c] = p]
    /\ toAgent' = IF agentSession # 0
                  THEN [toAgent EXCEPT ![agentSession] =
                          Append(@, [type |-> "update", cell |-> c, pci |-> p])]
                  ELSE toAgent
    /\ UNCHANGED <<started, agentSession, toController, memory, file, tree, pc, handler,
                   committed, updated, reported, commits, mishaps>>

\* handleModifyPciFromSdnr: the row, and nobody else is told.
ModifyPci(c) ==
    /\ toController[c] # << >>
    /\ row' = [row EXCEPT ![c] = Head(toController[c])]
    /\ toController' = [toController EXCEPT ![c] = Tail(@)]
    /\ UNCHANGED <<started, agentSession, toAgent, memory, file, tree, pc, handler,
                   histories>>

-----------------------------------------------------------------------------

Next ==
    \/ \E t \in Threads :
         \/ UseHandler(t) \/ NewHandler(t) \/ Connect(t) \/ AssignInstance(t)
         \/ IgnoreEvents(t) \/ MainMain(t) \/ MonitorEvents(t)
    \/ \E t \in Handlers :
         \/ HandleSetConfigTopology(t) \/ DropUpdateCell(t) \/ HandleUpdateCell(t)
         \/ MainMainFails(t)
    \/ \E c \in Cells, p \in Pcis : Commit(c, p) \/ ModifyACell(c, p)
    \/ \E c \in Cells : ModifyPci(c)
    \/ StartSimulation

Spec == Init /\ [][Next]_vars

-----------------------------------------------------------------------------
(* Properties. *)

AtRest ==
    /\ \A t \in Threads : pc[t] = "idle"
    /\ \A h \in Handlers : toAgent[h] = << >>
    /\ \A c \in Cells : toController[c] = << >>

\* What the agent reports, SDN-R has committed: no change that the controller has
\* sent, and nothing Honeycomb reads from the file, comes back to the controller,
\* where it would overwrite a newer row.
NoEcho ==
    mishaps \cap {"second", "overlap"} = {} =>
        \A c \in Cells : \A i \in 1 .. Len(toController[c]) :
            toController[c][i] \in committed[c]

\* When nothing is on its way, a cell that only the controller's user has changed
\* is in Honeycomb's tree what it is in the controller's table, whatever has failed
\* before the last change.
UpdatesArrive ==
    AtRest /\ mishaps = {} =>
        \A c \in updated : committed[c] = {} => tree[c] = row[c]

\* When nothing is on its way, a cell that SDN-R has changed is in the table what
\* it is in the tree, until a change of the controller, of this or of another cell,
\* writes the topology, of which the changes of SDN-R are no part.
CommitsArrive ==
    AtRest /\ "second" \notin mishaps => \A c \in reported : tree[c] = row[c]

\* Whenever no thread is at work the changes of SDN-R are reported, unless the last
\* initialisation has failed.
MonitoringReturns ==
    (\A t \in Threads : pc[t] = "idle") /\ mishaps \cap {"second", "failed"} = {} =>
        initialized[instance]
=============================================================================
