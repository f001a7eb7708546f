--------------------------- MODULE AgentSessions ---------------------------
(***************************************************************************)
(* The RAN simulator controller's registry of simulation agents.           *)
(*                                                                         *)
(* Every agent opens a web socket to the controller under its ip:port.     *)
(* The controller keeps the socket in webSocketSessions, hands the agent a *)
(* netconf server id out of unassignedServerIds (serverIdIpPortMapping),   *)
(* records the address in the NetconfServers row of that id, sends the     *)
(* agent the configuration of that server and mounts it in SDN-R.          *)
(* StartSimulation creates the rows and assigns the ids that no agent has; *)
(* StopSimulation deletes the rows.                                        *)
(*                                                                         *)
(* addWebSocketSessions and removeWebSocketSessions are synchronized on    *)
(* the controller; the REST requests, and the part of onOpen that follows  *)
(* addWebSocketSessions, are not.  A thread is therefore cut at each point *)
(* where what it has read can be changed by another before it is used.     *)
(***************************************************************************)
EXTENDS Naturals, Sequences, SequencesExt

CONSTANTS
    Agents,     \* the ip:port of every agent that may connect
    Servers,    \* netconf server ids (pnf names)
    Sessions,   \* web socket sessions: each is opened once, bounds reconnects
    Dump,       \* the server id of every cell of the topology file, in order
    MaxStops,   \* bound on the StopSimulation requests
    Overlap,    \* may socket callbacks run while a REST request is running?
    LateClose,  \* may an agent be back before the close of its old session
                \* has been handled?
    AgentsFirst,\* may agents connect before a simulation is running?
    None, NoRow, Rest

ASSUME DistinctNames ==
    /\ None \notin Agents \cup Servers \cup Sessions
    /\ NoRow \notin Agents \cup {None}
    /\ Rest \notin Sessions
ASSUME AgentAssumption == IsFiniteSet(Agents)
ASSUME DumpAssumption == Dump \in Seq(Servers) /\ Dump # << >>
ASSUME BoundAssumption == MaxStops \in Nat
ASSUME FlagAssumption ==
    /\ Overlap \in BOOLEAN
    /\ LateClose \in BOOLEAN
    /\ AgentsFirst \in BOOLEAN

VARIABLES
    \* RansimController
    webSocketSessions,      \* agent -> its session, or None
    serverIdIpPortMapping,  \* server id -> agent, or None
    unassignedServerIds,    \* sequence of server ids
    \* database and SDN-R
    rowIp,                  \* server id -> ip of its NetconfServers row, or NoRow
    simRunning,             \* the CellDetails table is not empty
    mounted,                \* server id -> agent SDN-R reaches under that id
    \* the threads: one per session (its callbacks) and the REST request
    pc, serverId, ipPort, readIp,
    todo, next, stops,
    \* the agents
    alive,                  \* agent -> its session as the agent sees it
    agentServer             \* agent -> server id of its last SetConfigTopology

registry == <<webSocketSessions, serverIdIpPortMapping, unassignedServerIds>>
database == <<rowIp, simRunning>>
request  == <<todo, next, stops>>
agents   == <<alive, agentServer>>
locals   == <<serverId, ipPort, readIp>>
vars == <<registry, database, mounted, pc, locals, request, agents>>

Threads == Sessions \cup {Rest}

SessionPcs == {"unused", "onOpen", "addTake", "addPut", "addRow", "addMerge", "greet",
               "configRead", "configSend", "mount", "opened", "rmRow", "rmMerge", "closed"}
RestPcs == {"idle", "genCheck", "genAdd", "genRow", "genMerge", "list", "assign",
            "put", "session", "configRead", "configSend", "mount", "commit"}

TypeOK ==
    /\ webSocketSessions \in [Agents -> Sessions \cup {None}]
    /\ serverIdIpPortMapping \in [Servers -> Agents \cup {None}]
    /\ unassignedServerIds \in Seq(Servers)
    /\ rowIp \in [Servers -> Agents \cup {None, NoRow}]
    /\ simRunning \in BOOLEAN
    /\ mounted \in [Servers -> Agents \cup {None}]
    /\ pc \in [Threads -> SessionPcs \cup RestPcs]
    /\ pc[Rest] \in RestPcs
    /\ \A s \in Sessions : pc[s] \in SessionPcs
    /\ serverId \in [Threads -> Servers \cup {None}]
    /\ ipPort \in [Threads -> Agents \cup {None}]
    /\ readIp \in [Threads -> Agents \cup {None, NoRow}]
    /\ todo \in SUBSET Servers
    /\ next \in 0 .. Len(Dump)
    /\ stops \in Nat
    /\ alive \in [Agents -> Sessions \cup {None}]
    /\ agentServer \in [Agents -> Servers \cup {None}]

Init ==
    /\ webSocketSessions = [a \in Agents |-> None]
    /\ serverIdIpPortMapping = [id \in Servers |-> None]
    /\ unassignedServerIds = << >>
    /\ rowIp = [id \in Servers |-> NoRow]
    /\ simRunning = FALSE
    /\ mounted = [id \in Servers |-> None]
    /\ pc = [t \in Threads |-> IF t = Rest THEN "idle" ELSE "unused"]
    /\ serverId = [t \in Threads |-> None]
    /\ ipPort = [t \in Threads |-> None]
    /\ readIp = [t \in Threads |-> None]
    /\ todo = {}
    /\ next = 0
    /\ stops = 0
    /\ alive = [a \in Agents |-> None]
    /\ agentServer = [a \in Agents |-> None]

-----------------------------------------------------------------------------
Goto(t, label) == pc' = [pc EXCEPT ![t] = label]

\* The server ids the registry has given to agent a.
ServersOf(a) == {id \in Servers : serverIdIpPortMapping[id] = a}

Assigned == {serverIdIpPortMapping[id] : id \in Servers} \ {None}

\* The monitor of the controller: at most one thread is inside
\* addWebSocketSessions or removeWebSocketSessions.
Locked == {s \in Sessions :
             pc[s] \in {"addTake", "addPut", "addRow", "addMerge", "rmRow", "rmMerge"}}

\* generateClusterFromFile is at work.
Generating == pc[Rest] \in {"genCheck", "genAdd", "genRow", "genMerge"}

MayCallBack == Overlap \/ pc[Rest] = "idle"
MayRequest ==
    Overlap \/ \A s \in Sessions : pc[s] \in {"unused", "onOpen", "opened", "closed"}

-----------------------------------------------------------------------------
(* The agents and their connections.                                       *)

\* connectWebsocketClient of the agent: it has no connection of its own view.
Connect(a, s) ==
    /\ pc[s] = "unused"
    /\ alive[a] = None
    /\ AgentsFirst \/ (simRunning /\ pc[Rest] = "idle")
    /\ LateClose \/ \A old \in Sessions : ipPort[old] = a => pc[old] = "closed"
    /\ alive' = [alive EXCEPT ![a] = s]
    /\ ipPort' = [ipPort EXCEPT ![s] = a]
    /\ Goto(s, "onOpen")
    /\ UNCHANGED <<registry, database, mounted, serverId, readIp, request, agentServer>>

ConnectionLost(a) ==
    /\ alive[a] # None
    /\ alive' = [alive EXCEPT ![a] = None]
    /\ UNCHANGED <<registry, database, mounted, pc, locals, request, agentServer>>

\* The agent process is restarted while it is disconnected: it forgets its
\* configuration.
AgentRestart(a) ==
    /\ alive[a] = None
    /\ agentServer[a] # None
    /\ agentServer' = [agentServer EXCEPT ![a] = None]
    /\ UNCHANGED <<registry, database, mounted, pc, locals, request, alive>>

-----------------------------------------------------------------------------
(* onOpen: addWebSocketSessions under the monitor ...                      *)

\* Mutant: a socket that is registered already is kept (putIfAbsent).
AddWebSocketSession_KeepsOld(s) ==
    LET a == ipPort[s] IN
    /\ pc[s] = "onOpen"
    /\ Locked = {}
    /\ MayCallBack
    /\ webSocketSessions' =
         IF webSocketSessions[a] = None THEN [webSocketSessions EXCEPT ![a] = s]
         ELSE webSocketSessions
    /\ \/ \E id \in ServersOf(a) :
            /\ serverId' = [serverId EXCEPT ![s] = id]
            /\ Goto(s, "greet")
       \/ /\ ServersOf(a) = {}
          /\ Goto(s, IF unassignedServerIds = << >> THEN "opened" ELSE "addTake")
          /\ UNCHANGED serverId
    /\ UNCHANGED <<serverIdIpPortMapping, unassignedServerIds, database, mounted,
                   ipPort, readIp, request, agents>>

\* The socket replaces an older one of the agent.
AddWebSocketSession(s) ==
    LET a == ipPort[s] IN
    /\ pc[s] = "onOpen"
    /\ Locked = {}
    /\ MayCallBack
    /\ webSocketSessions' = [webSocketSessions EXCEPT ![a] = s]
    /\ \/ \E id \in ServersOf(a) :            \* the agent has a server id already
            /\ serverId' = [serverId EXCEPT ![s] = id]
            /\ Goto(s, "greet")
       \/ /\ ServersOf(a) = {}
          /\ Goto(s, IF unassignedServerIds = << >> THEN "opened" ELSE "addTake")
          /\ UNCHANGED serverId
    /\ UNCHANGED <<serverIdIpPortMapping, unassignedServerIds, database, mounted,
                   ipPort, readIp, request, agents>>

\* Mutant: the id is read from the list, not removed (get(0)).
TakeServerId_Get(s) ==
    /\ pc[s] = "addTake"
    /\ serverId' = [serverId EXCEPT ![s] = Head(unassignedServerIds)]
    /\ Goto(s, "addPut")
    /\ UNCHANGED <<registry, database, mounted, ipPort, readIp, request, agents>>

\* The id taken out of the list is the first one, or the one that a request has
\* given the agent in the meantime.
TakeServerId(s) ==
    LET a == ipPort[s]
        list == unassignedServerIds
    IN
    /\ pc[s] = "addTake"
    /\ \/ /\ ServersOf(a) = {}
          /\ serverId' = [serverId EXCEPT ![s] = Head(list)]
          /\ unassignedServerIds' = Tail(list)
       \/ \E id \in ServersOf(a) :
            /\ serverId' = [serverId EXCEPT ![s] = id]
            /\ \/ ~Contains(list, id) /\ UNCHANGED unassignedServerIds
               \/ \E i \in 1 .. Len(list) :
                    /\ list[i] = id
                    /\ \A j \in 1 .. (i - 1) : list[j] # id
                    /\ unassignedServerIds' = RemoveAt(list, i)
    /\ Goto(s, "addPut")
    /\ UNCHANGED <<webSocketSessions, serverIdIpPortMapping, database, mounted,
                   ipPort, readIp, request, agents>>

AddPutMapping(s) ==
    /\ pc[s] = "addPut"
    /\ serverIdIpPortMapping' = [serverIdIpPortMapping EXCEPT ![serverId[s]] = ipPort[s]]
    /\ Goto(s, "addRow")
    /\ UNCHANGED <<webSocketSessions, unassignedServerIds, database, mounted,
                   locals, request, agents>>

AddReadRow(s) ==
    /\ pc[s] = "addRow"
    /\ Goto(s, IF rowIp[serverId[s]] = NoRow THEN "greet" ELSE "addMerge")
    /\ UNCHANGED <<registry, database, mounted, locals, request, agents>>

\* Mutant: the new server id is not returned to onOpen.
AddMergeRow_NoResult(s) ==
    /\ pc[s] = "addMerge"
    /\ rowIp' = [rowIp EXCEPT ![serverId[s]] = ipPort[s]]
    /\ Goto(s, "opened")
    /\ UNCHANGED <<registry, simRunning, mounted, locals, request, agents>>

\* mergeNetconfServers writes the whole row: it comes back if it was deleted.
AddMergeRow(s) ==
    /\ pc[s] = "addMerge"
    /\ rowIp' = [rowIp EXCEPT ![serverId[s]] = ipPort[s]]
    /\ Goto(s, "greet")
    /\ UNCHANGED <<registry, simRunning, mounted, locals, request, agents>>

(* ... then sendInitialConfigForNewAgent outside it.                        *)

\* Mutant: nothing is sent to an agent that is registered.
NewAgentSession_Silent(s) ==
    /\ pc[s] = "greet"
    /\ Goto(s, "opened")
    /\ UNCHANGED <<registry, database, mounted, locals, request, agents>>

NewAgentSession(s) ==
    /\ pc[s] = "greet"
    /\ Goto(s, IF webSocketSessions[ipPort[s]] = None THEN "opened" ELSE "configRead")
    /\ UNCHANGED <<registry, database, mounted, locals, request, agents>>

\* sendInitialConfig(serverId[t]): without a row it returns, without a mapping
\* the lookup of its session throws, and so do the cells of a cluster whose
\* neighbors have not been read yet; all is swallowed.
ReadInitialConfig(t) ==
    LET id == serverId[t] IN
    /\ pc[t] = "configRead"
    /\ readIp' = [readIp EXCEPT ![t] = serverIdIpPortMapping[id]]
    /\ \/ rowIp[id] # NoRow /\ serverIdIpPortMapping[id] # None /\ Goto(t, "configSend")
       \/ /\ rowIp[id] = NoRow \/ serverIdIpPortMapping[id] = None \/ Generating
          /\ Goto(t, "mount")
    /\ UNCHANGED <<registry, database, mounted, serverId, ipPort, request, agents>>

\* The message reaches the agent only over a session that is still alive.
SendInitialConfig(t) ==
    LET to == readIp[t] IN
    /\ pc[t] = "configSend"
    /\ agentServer' =
         IF webSocketSessions[to] # None /\ alive[to] = webSocketSessions[to]
         THEN [agentServer EXCEPT ![to] = serverId[t]]
         ELSE agentServer
    /\ Goto(t, "mount")
    /\ UNCHANGED <<registry, database, mounted, locals, request, alive>>

SendMountRequest(t) ==
    /\ pc[t] = "mount"
    /\ mounted' = [mounted EXCEPT ![serverId[t]] = ipPort[t]]
    /\ Goto(t, IF t = Rest THEN "assign" ELSE "opened")
    /\ UNCHANGED <<registry, database, locals, request, agents>>

-----------------------------------------------------------------------------
(* onClose: removeWebSocketSessions under the monitor, by ip:port.         *)

\* Mutants: the server id is not put back in the list; it is put back unchecked.
RemoveWebSocketSession_Forgets(s) ==
    LET a == ipPort[s] IN
    /\ pc[s] = "opened"
    /\ alive[a] # s
    /\ Locked = {}
    /\ MayCallBack
    /\ \/ /\ webSocketSessions[a] # None
          /\ \E id \in ServersOf(a) : serverId' = [serverId EXCEPT ![s] = id]
          /\ Goto(s, "rmRow")
       \/ /\ webSocketSessions[a] = None \/ ServersOf(a) = {}
          /\ Goto(s, "closed")
          /\ UNCHANGED serverId
    /\ UNCHANGED <<registry, database, mounted, ipPort, readIp, request, agents>>

RemoveWebSocketSession_Unchecked(s) ==
    LET a == ipPort[s] IN
    /\ pc[s] = "opened"
    /\ alive[a] # s
    /\ Locked = {}
    /\ MayCallBack
    /\ \/ /\ webSocketSessions[a] # None
          /\ \E id \in ServersOf(a) :
               /\ unassignedServerIds' = Append(unassignedServerIds, id)
               /\ serverId' = [serverId EXCEPT ![s] = id]
          /\ Goto(s, "rmRow")
       \/ /\ webSocketSessions[a] = None \/ ServersOf(a) = {}
          /\ Goto(s, "closed")
          /\ UNCHANGED <<unassignedServerIds, serverId>>
    /\ UNCHANGED <<webSocketSessions, serverIdIpPortMapping, database, mounted,
                   ipPort, readIp, request, agents>>

RemoveWebSocketSession(s) ==
    LET a == ipPort[s] IN
    /\ pc[s] = "opened"
    /\ alive[a] # s
    /\ Locked = {}
    /\ MayCallBack
    /\ \/ /\ webSocketSessions[a] # None
          /\ \E id \in ServersOf(a) :
               /\ unassignedServerIds' =
                    IF Contains(unassignedServerIds, id) THEN unassignedServerIds
                    ELSE Append(unassignedServerIds, id)
               /\ serverId' = [serverId EXCEPT ![s] = id]
          /\ Goto(s, "rmRow")
       \/ \* nothing registered, or remove(null) throws: all is left as it is
          /\ webSocketSessions[a] = None \/ ServersOf(a) = {}
          /\ Goto(s, "closed")
          /\ UNCHANGED <<unassignedServerIds, serverId>>
    /\ UNCHANGED <<webSocketSessions, serverIdIpPortMapping, database, mounted,
                   ipPort, readIp, request, agents>>

\* Without a row setIp throws: the mapping and the session stay.
RemoveReadRow(s) ==
    /\ pc[s] = "rmRow"
    /\ Goto(s, IF rowIp[serverId[s]] = NoRow THEN "closed" ELSE "rmMerge")
    /\ UNCHANGED <<registry, database, mounted, locals, request, agents>>

\* Mutants: the agent keeps its session; the agent keeps its server id.
RemoveMergeRow_KeepsSession(s) ==
    /\ pc[s] = "rmMerge"
    /\ rowIp' = [rowIp EXCEPT ![serverId[s]] = None]
    /\ serverIdIpPortMapping' = [serverIdIpPortMapping EXCEPT ![serverId[s]] = None]
    /\ Goto(s, "closed")
    /\ UNCHANGED <<webSocketSessions, unassignedServerIds, simRunning, mounted, locals,
                   request, agents>>

RemoveMergeRow_KeepsMapping(s) ==
    /\ pc[s] = "rmMerge"
    /\ rowIp' = [rowIp EXCEPT ![serverId[s]] = None]
    /\ webSocketSessions' = [webSocketSessions EXCEPT ![ipPort[s]] = None]
    /\ Goto(s, "closed")
    /\ UNCHANGED <<serverIdIpPortMapping, unassignedServerIds, simRunning, mounted, locals,
                   request, agents>>

RemoveMergeRow(s) ==
    /\ pc[s] = "rmMerge"
    /\ rowIp' = [rowIp EXCEPT ![serverId[s]] = None]
    /\ serverIdIpPortMapping' = [serverIdIpPortMapping EXCEPT ![serverId[s]] = None]
    /\ webSocketSessions' = [webSocketSessions EXCEPT ![ipPort[s]] = None]
    /\ Goto(s, "closed")
    /\ UNCHANGED <<unassignedServerIds, simRunning, mounted, locals, request, agents>>

-----------------------------------------------------------------------------
(* StartSimulation: generateClusterFromFile, then sendInitialConfigAll.    *)

StartSimulation ==
    /\ pc[Rest] = "idle"
    /\ MayRequest
    /\ ~simRunning
    /\ next' = 1
    /\ Goto(Rest, "genCheck")
    /\ UNCHANGED <<registry, database, mounted, locals, todo, stops, agents>>

GenerateCheck ==
    /\ pc[Rest] = "genCheck"
    /\ serverId' = [serverId EXCEPT ![Rest] = Dump[next]]
    /\ Goto(Rest, IF Contains(unassignedServerIds, Dump[next]) THEN "genRow" ELSE "genAdd")
    /\ UNCHANGED <<registry, database, mounted, ipPort, readIp, request, agents>>

GenerateAdd ==
    /\ pc[Rest] = "genAdd"
    /\ unassignedServerIds' = Append(unassignedServerIds, serverId[Rest])
    /\ Goto(Rest, "genRow")
    /\ UNCHANGED <<webSocketSessions, serverIdIpPortMapping, database, mounted,
                   locals, request, agents>>

\* The cell is committed; setNetconfServers reads the row of its server ...
GenerateReadRow ==
    /\ pc[Rest] = "genRow"
    /\ simRunning' = TRUE
    /\ readIp' = [readIp EXCEPT ![Rest] = rowIp[serverId[Rest]]]
    /\ Goto(Rest, "genMerge")
    /\ UNCHANGED <<registry, rowIp, mounted, serverId, ipPort, request, agents>>

\* Mutant: one cell too many is read from the file.
GenerateMergeRow_TooFar ==
    /\ pc[Rest] = "genMerge"
    /\ rowIp' = [rowIp EXCEPT ![serverId[Rest]] =
                    IF readIp[Rest] = NoRow THEN None ELSE readIp[Rest]]
    /\ Goto(Rest, "genCheck")
    /\ next' = next + 1
    /\ UNCHANGED <<registry, simRunning, mounted, locals, todo, stops, agents>>

\* ... and writes it back, with the ip it has read.
GenerateMergeRow ==
    LET ip == readIp[Rest] IN
    /\ pc[Rest] = "genMerge"
    /\ rowIp' = [rowIp EXCEPT ![serverId[Rest]] = IF ip = NoRow THEN None ELSE ip]
    /\ IF next = Len(Dump)
       THEN Goto(Rest, "list") /\ next' = 0
       ELSE Goto(Rest, "genCheck") /\ next' = next + 1
    /\ UNCHANGED <<registry, simRunning, mounted, locals, todo, stops, agents>>

ListServers ==
    /\ pc[Rest] = "list"
    /\ todo' = {id \in Servers : rowIp[id] # NoRow}
    /\ Goto(Rest, "assign")
    /\ UNCHANGED <<registry, database, mounted, locals, next, stops, agents>>

\* A row whose server id has no agent is given one of the agents without a
\* server id, if there is one.
AssignNext ==
    /\ pc[Rest] = "assign"
    /\ \E id \in todo :
         /\ todo' = todo \ {id}
         /\ serverId' = [serverId EXCEPT ![Rest] = id]
         /\ LET free == {a \in Agents : webSocketSessions[a] # None} \ Assigned IN
            \/ /\ serverIdIpPortMapping[id] # None
               /\ ipPort' = [ipPort EXCEPT ![Rest] = serverIdIpPortMapping[id]]
               /\ Goto(Rest, "session")
            \/ /\ serverIdIpPortMapping[id] = None
               /\ \E a \in free : ipPort' = [ipPort EXCEPT ![Rest] = a]
               /\ Goto(Rest, "put")
            \/ /\ serverIdIpPortMapping[id] = None
               /\ free = {}
               /\ UNCHANGED <<ipPort, pc>>
    /\ UNCHANGED <<registry, database, mounted, readIp, next, stops, agents>>

\* unassignedServerIds keeps the id, and the row does not get the ip.
PutMapping ==
    /\ pc[Rest] = "put"
    /\ serverIdIpPortMapping' =
         [serverIdIpPortMapping EXCEPT ![serverId[Rest]] = ipPort[Rest]]
    /\ Goto(Rest, "session")
    /\ UNCHANGED <<webSocketSessions, unassignedServerIds, database, mounted,
                   locals, request, agents>>

AssignSession ==
    /\ pc[Rest] = "session"
    /\ Goto(Rest, IF webSocketSessions[ipPort[Rest]] = None THEN "assign" ELSE "configRead")
    /\ UNCHANGED <<registry, database, mounted, locals, request, agents>>

StartDone ==
    /\ pc[Rest] = "assign"
    /\ todo = {}
    /\ Goto(Rest, "idle")
    /\ UNCHANGED <<registry, database, mounted, locals, request, agents>>

(* StopSimulation: the deletes are committed after stopAllCells.           *)

StopSimulation ==
    /\ pc[Rest] = "idle"
    /\ MayRequest
    /\ stops < MaxStops
    /\ stops' = stops + 1
    /\ mounted' = [id \in Servers |-> IF rowIp[id] = NoRow THEN mounted[id] ELSE None]
    /\ Goto(Rest, "commit")
    /\ UNCHANGED <<registry, database, locals, todo, next, agents>>

StopCommit ==
    /\ pc[Rest] = "commit"
    /\ rowIp' = [id \in Servers |-> NoRow]
    /\ simRunning' = FALSE
    /\ Goto(Rest, "idle")
    /\ UNCHANGED <<registry, mounted, locals, request, agents>>

-----------------------------------------------------------------------------
Environment ==
    \E a \in Agents :
        \/ \E s \in Sessions : Connect(a, s)
        \/ ConnectionLost(a)
        \/ AgentRestart(a)

OnOpen(s) ==
    \/ AddWebSocketSession(s)
    \/ TakeServerId(s)
    \/ AddPutMapping(s)
    \/ AddReadRow(s)
    \/ AddMergeRow(s)
    \/ NewAgentSession(s)

OnClose(s) ==
    \/ RemoveWebSocketSession(s)
    \/ RemoveReadRow(s)
    \/ RemoveMergeRow(s)

Configure(t) ==
    \/ ReadInitialConfig(t)
    \/ SendInitialConfig(t)
    \/ SendMountRequest(t)

Generate ==
    \/ GenerateCheck
    \/ GenerateAdd
    \/ GenerateReadRow
    \/ GenerateMergeRow

SendInitialConfigAll ==
    \/ ListServers
    \/ AssignNext
    \/ PutMapping
    \/ AssignSession
    \/ StartDone

Request ==
    \/ StartSimulation
    \/ Generate
    \/ SendInitialConfigAll
    \/ StopSimulation
    \/ StopCommit

Next ==
    \/ Environment
    \/ \E s \in Sessions : OnOpen(s) \/ OnClose(s)
    \/ \E t \in Threads : Configure(t)
    \/ Request

Spec == Init /\ [][Next]_vars

\* The container runs every callback it has, every thread goes on, and
\* a REST request that has been accepted is finished; nobody has to connect,
\* to send a request or to lose a connection.
Fairness ==
    /\ \A s \in Sessions : WF_vars(OnOpen(s)) /\ WF_vars(OnClose(s))
    /\ \A t \in Threads : WF_vars(Configure(t))
    /\ WF_vars(Generate \/ SendInitialConfigAll \/ StopCommit)

FairSpec == Spec /\ Fairness

-----------------------------------------------------------------------------
(* Properties.                                                             *)

\* No server id is lost: every server of a running simulation has an agent,
\* waits in unassignedServerIds, or is in the hands of an onOpen that is about
\* to map it, at every point of every handler, whatever overlaps
\* (addWebSocketSessions, removeWebSocketSessions, generateClusterFromFile,
\* sendInitialConfigAll).
NoServerLost ==
    \A id \in Servers :
        rowIp[id] # NoRow =>
            \/ serverIdIpPortMapping[id] # None
            \/ Contains(unassignedServerIds, id)
            \/ \E s \in Sessions : pc[s] = "addPut" /\ serverId[s] = id

\* Two server ids are never given to one agent.
OneServerPerAgent ==
    \A id1, id2 \in Servers :
        serverIdIpPortMapping[id1] = serverIdIpPortMapping[id2] =>
            id1 = id2 \/ serverIdIpPortMapping[id1] = None

\* An agent that has a server id has a session in the registry.
AssignedHasSession ==
    \A id \in Servers :
        serverIdIpPortMapping[id] # None =>
            webSocketSessions[serverIdIpPortMapping[id]] # None

NoDuplicates ==
    \A i, j \in 1 .. Len(unassignedServerIds) :
        unassignedServerIds[i] = unassignedServerIds[j] => i = j

\* The address in a row is that of the agent that has the server id.
RowFollowsMapping ==
    \A id \in Servers :
        rowIp[id] \in Agents => serverIdIpPortMapping[id] = rowIp[id]

\* A connected agent whose onOpen has been handled is reachable: its entry in
\* webSocketSessions is the session it is connected by.
ConnectedIsReachable ==
    \A a \in Agents :
        alive[a] # None /\ pc[alive[a]] = "opened" => webSocketSessions[a] = alive[a]

Quiet ==
    /\ pc[Rest] = "idle"
    /\ \A s \in Sessions : pc[s] \in {"unused", "opened", "closed"}

Members == {a \in Agents : webSocketSessions[a] # None}

Registry == INSTANCE AgentRegistry WITH
                members <- Members, owner <- serverIdIpPortMapping

\* The registry implements its abstract specification.
ImplementsRegistry == Registry!Spec

\* Once all handlers are done, a connected agent that has a server of the
\* running simulation has its configuration, and is the agent that SDN-R
\* reaches under that server id.
AssignedIsConfigured ==
    Quiet => \A id \in Servers :
        LET a == serverIdIpPortMapping[id] IN
        rowIp[id] # NoRow /\ a # None /\ webSocketSessions[a] = alive[a] =>
            agentServer[a] = id /\ mounted[id] = a

\* An agent that keeps its connection and its server while the simulation runs
\* is configured for it in the end.
EventuallyConfigured ==
    \A id \in Servers, a \in Agents :
        <>[](/\ serverIdIpPortMapping[id] = a
             /\ alive[a] # None
             /\ webSocketSessions[a] = alive[a]
             /\ rowIp[id] # NoRow) => <>[](agentServer[a] = id)

\* If there is a server for every agent, two connected agents do not take
\* themselves for the same one.  (With fewer servers they may: an agent that
\* finds the list empty keeps the configuration it had.)
OneAgentPerServer ==
    Quiet /\ Cardinality(Agents) <= Cardinality(ToSet(Dump)) =>
        \A a, b \in Agents :
            alive[a] # None /\ alive[b] # None /\ agentServer[a] = agentServer[b] =>
                a = b \/ agentServer[a] = None

\* An id listed as unassigned has no agent.
UnassignedIsFree ==
    Locked = {} => \A id \in Servers :
        Contains(unassignedServerIds, id) => serverIdIpPortMapping[id] = None

-----------------------------------------------------------------------------
(* What holds between the steps of the handlers while callbacks and        *)
(* requests do not overlap: it implies the registry properties above and   *)
(* is inductive.                                                           *)

QuietPcs == {"unused", "onOpen", "opened", "closed"}
Taking == {s \in Sessions : pc[s] = "addTake"}
Putting == {s \in Sessions : pc[s] = "addPut"}
Adding == {s \in Sessions : pc[s] \in {"addPut", "addRow", "addMerge"}}
Removing == {s \in Sessions : pc[s] \in {"rmRow", "rmMerge"}}

MutualExclusion ==
    /\ \A s, t \in Locked : s = t
    /\ pc[Rest] # "idle" => \A s \in Sessions : pc[s] \in QuietPcs

MappingInv ==
    /\ OneServerPerAgent
    /\ AssignedHasSession
    /\ \A s \in Locked \ (Taking \cup Putting) :
         serverIdIpPortMapping[serverId[s]] = ipPort[s]
    /\ \A s \in Taking \cup Putting :
         ServersOf(ipPort[s]) = {} /\ webSocketSessions[ipPort[s]] # None
    /\ pc[Rest] = "put" =>
         /\ serverIdIpPortMapping[serverId[Rest]] = None
         /\ ServersOf(ipPort[Rest]) = {}
         /\ webSocketSessions[ipPort[Rest]] # None

ListInv ==
    /\ NoDuplicates
    /\ pc[Rest] = "genAdd" => ~Contains(unassignedServerIds, serverId[Rest])
    /\ \A s \in Taking : unassignedServerIds # << >>
    /\ \A s \in Adding : ~Contains(unassignedServerIds, serverId[s])
    /\ \A s \in Removing : Contains(unassignedServerIds, serverId[s])

RowInv ==
    /\ RowFollowsMapping
    /\ ~simRunning => \A id \in Servers : rowIp[id] = NoRow
    /\ pc[Rest] = "genMerge" => simRunning /\ readIp[Rest] \notin Agents
    /\ Generating => \A id \in Servers : rowIp[id] \notin Agents
    /\ \A s \in Sessions : pc[s] \in {"addMerge", "rmMerge"} => rowIp[serverId[s]] # NoRow
    /\ \A s \in Putting : rowIp[serverId[s]] \notin Agents
    /\ \A id \in Servers :
         Contains(unassignedServerIds, id) /\ rowIp[id] \in Agents =>
             \E s \in Removing : serverId[s] = id

\* While callbacks and requests do not overlap: the monitor and the request
\* exclude each other; a server has one agent and the agent a session; the
\* list has no duplicates and holds the id a closing handler gives up and not
\* the one an opening handler has taken; and a listed id has no address in its
\* row (addWebSocketSessions, removeWebSocketSessions, sendInitialConfigAll).
SerialInv == MutualExclusion /\ MappingInv /\ ListInv /\ RowInv

=============================================================================
