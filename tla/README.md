# A verification project for ran-sim

The repository simulates a radio access network for the ONAP self-organising
network use cases.  A controller (`RansimController`) keeps the cells of a
topology in a database, serves a GUI over REST, and talks over web sockets to
simulation agents, each of which plays one netconf server (an eNodeB or gNodeB).
The agents expose the cells to SDN-R over netconf and report back what SDN-R
changes.  This directory holds TLA+ models of it, the TLC runs that check them
and TLAPS proofs about them.

Paths: `RC` is
`src/ransim/ransimctrlr/RANSIM-CTRLR/src/main/java/org/onap/ransim/rest/api/controller/RansimController.java`,
`SV` is `RansimControllerServices.java` and `DB` is `RansimControllerDatabase.java`
in the same directory, `WS` is `.../ransim/websocket/server/RansimWebSocketServer.java`,
`EN` is `src/hcsim-content/enodebsim/enodebsim-impl/src/main/java/org/onap/ransim`
and `GN` is `src/hcsim-content/gnbsim/gnbsim-impl/src/main/java/com/wipro/www`.

## 1. Inventory

### Controller

| component | state | operations | hard behaviour |
|---|---|---|---|
| agent session registry (RC 96-406, 2067-2249, WS) | `webSocketSessions`, `serverIdIpPortMapping`, `unassignedServerIds`; the `ip` of the NetconfServers rows; the mounts of SDN-R | `onOpen`/`onClose` of a socket, StartSimulation, StopSimulation | callbacks and requests share three plain collections; the two callbacks hold the controller's monitor, the requests and the second half of `onOpen` do not |
| cell tables (RC 501-573, 1751-2026, 2249-2404, DB) | CellDetails, CellNeighbor, NeighborDetails, OperationLog | ModifyACell, DeleteACell, ModifyPci and ModifyAnr from agents, GetTopology | every DB call is its own transaction; whole rows are read, changed and merged later; steps fail half-way |
| collision/confusion check (RC 1457-1565) | counters of one pass | `setCollisionConfusionFromFile` | counts without looking back; missing rows |
| PM data (RC 605-637, 835-1085, SV 100-250) | `execService`, `isPmDataGenerating`, `next` | GeneratePmData, stopPmData, GetPmDataStatus, the 300 s task | fields overwritten while tasks run, unlocked counter, one failing cell |
| topology generation (RC 1156-1455, 1573-1740) | tables and registry list | `generateClusterFromFile`, sectors, hexagon/square layouts | runs cell by cell while agents connect |
| FM alarms (RC 652-826) | none of its own | `generateFmData`, `sendFmData` | stops at the first cell that cannot be checked |
| keep-alive, operation log, SDN-R mounts, codecs, REST models, GUI | - | - | I/O or data only |

### eNodeB agent (`EN`)

| component | state | operations | hard behaviour |
|---|---|---|---|
| web socket client | `clientSession` | `onOpen`, `onMessage`, `onClose`, `sendMessage`, reconnect thread | the session is read and used apart; a message is dropped after 30 s |
| neighbor changes | `serverCidNbrList`, a list and a timer per cell | `CheckandAdd` (batching for 2 s), `SendToController` | a timer thread and CRUD threads share a list with no lock |
| configuration | `ncServerTopology`, `isConfigTopoInitialized`, `data.json`, Honeycomb's tree | SetConfigTopology, UpdateCell, the start of Honeycomb | the same data in four copies; a singleton made by whoever comes first; events ignored while a change is written; failure half-way |
| CRUD services | a modification cache | write/update/delete/read of YANG nodes | they run on SDN-R's threads while messages of the controller are handled |
| VES events, Honeycomb readers and writers | counters | notifications, PM/FM posts | generated or I/O |

The gNodeB agent (`GN`) has the same parts with about forty CRUD services over
an in-memory tree.  One of them keeps state while it reads: the service of the DU
cells has a flag for each DU function (`hashMapgNBDUFunc`), by which it finds out
whose cells it is asked for.

### How the parts interact

An agent opens `ws://controller/.../RansimAgent/{ip:port}`.  `onOpen` registers
the socket, hands out a server id, sends SetConfigTopology and mounts the agent
in SDN-R.  The GUI's requests change the tables and send UpdateCell, FM and PM
messages down the socket that `serverIdIpPortMapping` and `webSocketSessions`
name.  SDN-R's changes reach an agent over netconf, are batched there and come
back as ModifyPci and ModifyAnr messages, which change the same tables.

### What makes each component correct

* registry: no server id is lost; one agent per id and one id per agent; a
  connected agent is reachable; who has a server is configured for it in the end.
* tables: an answered ModifyACell is done everywhere (tables, log, agent,
  flags, alarms), at the agent if it has a session; no change of a PCI is missing
  from the log; no merge of a stale row undoes another request; lists refer to rows
  that exist.
* check: flags, counts and problem agree with the definition of a conflict.
* PM: the status tells whether a task runs; a run's data is one row of the file;
  every server is served; each neighbor PCI is measured once.
* agents: a change made while the agent is configured reaches the controller,
  once per change, and a change of the controller does not come back; the last word
  of each side reaches the other; a stale session is not used for ever; a cell is
  shown under the function it belongs to.

`PROJECT.json` lists every component with its status, and every hazard at its
line with the properties that watch it.

## 2. Modules

| module | models | code |
|---|---|---|
| `AgentSessions` | registry, callbacks, StartSimulation, StopSimulation, the agents' connections | RC, WS, parts of the agent's client |
| `AgentRegistry` | abstract specification: who is a member, who owns which id | - |
| `PciFlags` | collision and confusion, by definition | RC 1457-1551 |
| `CellTables` | the tables and all requests on them, transaction by transaction | RC, DB |
| `NeighborList` | the list of handover neighbors that check and PM data are given | RC 501-573 |
| `PciCheck` | the loop of `setCollisionConfusionFromFile` | RC 1457-1551 |
| `PmScheduler` | executors, flag, counter, the runs of the tasks | SV, RC 605-637, 835-1085 |
| `PmMeasurement` | the measurements of one cell, element by element | RC 912-1046 |
| `CellReports` | composes `PciCheck` and `PmMeasurement` over one list of neighbors | - |
| `AgentLink` | the web socket client of the eNodeB agent | EN `websocket/client/RansimClientWebSocket.java` |
| `NeighborBatches` | the batches of neighbor changes and their timers | EN `ServerCidNbrListHandler.java`, `LteRanNeighborListInUseLteCellCrudService.java` |
| `AgentConfig` | the configuration of the eNodeB agent between controller and SDN-R | EN `ConfigJsonHandler.java`, `X0005b9LteCrudService.java`, `Main.java`, the script `honeycomb` |
| `GnbCells` | the read of the gNodeB agent's DU functions and cells | GN `GNBDUFunctionNRCellDUCrudService.java`, `NearRTRICGNBDUFunctionCrudService.java`, `ConfigurationHandler.java` |
| `MC*` | values for the constants | - |
| `*Proofs` | theorems | - |

`CellTables` takes the result of the check from `PciFlags`; `PciCheck` shows
that the loop of the code computes it.  `AgentSessions` is shown to implement
`AgentRegistry`.  `AgentConfig` composes the controller's table, the two channels, the
agent and Honeycomb for the configuration of a cell.

### Correspondence of state and actions

Variables keep the Java names.  A thread is cut at each point where what it has
read may be changed before it is used; what it keeps across such a point is in a
per-thread variable (`serverId`, `readIp`, `row`, `seen`, ...) and where it is in
`pc`.  Two reads in a row of the same thread, with no write of anybody's data in
between that the result could tell apart, are one step.

`AgentSessions`.  A session is used once, so the number of sessions bounds the
reconnects.  `onOpen` is AddWebSocketSession ... AddMergeRow inside the monitor
(`Locked`), then NewAgentSession, ReadInitialConfig, SendInitialConfig,
SendMountRequest outside it.  `onClose` is RemoveWebSocketSession ...
RemoveMergeRow.  The request thread `Rest` runs Generate* and the loop of
`sendInitialConfigAll`, or the stop.  Three flags describe the environment:
`Overlap` (callbacks during a request), `LateClose` (the agent is back before its
old close has been handled), `AgentsFirst` (agents may connect before a simulation
runs).  Whatever an iteration order of a Java map or query decides is a
nondeterministic choice.

`CellTables`.  One action per transaction.  A request is used once.
`generateNeighborList` with the loop over its result is one step, between the
read of the cell and the merge of its flags.  `DropCell` may or may not remove the
row: the JPA delete can be rolled back because the row of the netconf server still
refers to the cell, and this is logged and not reported.  `ModifyAnr` comes from an
agent's socket, whose messages are handled one after the other (`AgentOf`).  The
history variable `overlapped` tells whether a request has ever begun while another
was under way; most properties are about what happens before that.
`logged` is the last row of the log: who changed the cell, and the two PCIs of the
message.  `AddLogRow` writes what it is passed, and ModifyPci passes the two the
wrong way round (RC 2265), so `LoggedPci` takes the PCI of the cell from the first
of them there.  `updateCell` is the PCI an agent was last told: UpdateCell is sent
only if the server has an agent and the agent a session (RC 2376-2394), which is a
matter of `AgentSessions`, so both outcomes are possible here, and the request is
answered 200 after either (`NoSession`).  A cell is added to `cellsWithIssues`
(RC 768) before `sendFmData` finds out whether there is a session to send the alarm
through (RC 805).

`PmScheduler`.  One executor per GeneratePmData request.  `next++` is a read and a
write.  The KPI file is there and has `Rows` rows; a server in `Failing` has a cell
for which a handover neighbor is missing.  `Trusting` is the GUI, which asks
GetPmDataStatus before it offers to start or to stop
(`src/ransim/ransimctrlr/RANSIM-GUI/src/main/webapp/controlpanel.html:69`).

`PmMeasurement`.  One action for each turn of each loop of `generatePmData` over a
cell's neighbors; `at` is the loop it is in, `index` is the loop's variable, which
counts neighbors from 1 and array elements from 0.  The kind of data (normal, bad,
poor) is any: it depends on the row of the KPI file that `PmScheduler` takes (RC 874-889);
a cell in both sets is bad.  Neighbors are their position in the list, PCIs are 0 .. `MaxPci`, the array has
`MaxPci` elements as in the code, and one neighbor in `Share` gets the bad value (5 in
the code).  A PCI that is out of the array's bounds and a neighbor that is missing
both end in `failed`.

`CellReports`.  The alarm and the PM data of a cell come from two threads that share
nothing but the list, which each of them reads for itself; while the tables do not change
the two lists are one.  So their order does not matter, and the check goes first.

`AgentLink`.  `clientSession` is the field; `session` is the life of each session,
named by its turn.  Each access to the field is a step of its own, since nothing
guards it.  `connecting` counts the threads in the loop that connects, of which
there may be several; `returned` and `logging` are the two points where such a
thread can be overtaken by a callback.  The controller is external: it takes up
the session whose onOpen it handles, and may drop whichever it has when it handles
any onClose, as `AgentSessions` says in detail.

`NeighborBatches`.  A batch and a timer bear the name of the change that made them,
so that two writers that find no batch make two.  The steps of a writer after
`AddNbr` hold the monitor of the batch (`Inside`), those of a timer's thread do not.
`late` and `mixed` are history variables that only the properties read.

`AgentConfig`.  A PCI stands for all a cell's configuration.  There is a copy of it in
the controller's table (`row`), in the handler's memory (`topology`), in `data.json`
(`file`) and in Honeycomb (`tree`).  Threads are numbered: 0 is the agent's main
thread, the others are the container's threads, one per session; thread and handler
of a session have its number.  `getConfigJsonHandler` is cut at the test of the field,
the connection that the constructor makes, and the assignment, since the controller
may answer in between and a second handler is then made.  UpdateCell is cut at the
write of the file, the two calls that clear and set `isConfigTopoInitialized`, and the
start of Honeycomb, since SDN-R's commits come at any time.  Left out: a write of the
file that fails, a first attempt to connect that fails, the notification of SDN-R, and
`radioAccessObj`, which only answers reads.  The controller's change and its
UpdateCell are one step (`CellTables` has them apart).  What SDN-R commits carries the
pnf-name, so each write is reported by itself.  A restart begins with an empty
`data.json`, as the script does.

`GnbCells`.  A function's id is the pair of its name and the turn of its message,
because the code compares ids by `==` and each message has strings of its own;
`HashMap.put` keeps the key an entry has.  Honeycomb, which is external, reads the
tree depth first: ids of the functions, then for each function its attributes, the
ids of its cells and the cells.  A message has one nearRTRIC (the code takes the first
for each), its ids are distinct, a cell belongs to one function, and the singletons are
there before the first thread asks for them.  Reads of one function alone are left
out: their key comes from outside, so `==` is false and they fail before they change
anything.  `mishaps` is a history of what the service is not built for.

## 3. Runs

`tlc -config X.cfg M` with the modules and files of `PROJECT.json`.  The states are
the distinct ones TLC finds.

| run | module | states | shows |
|---|---|---|---|
| `sessions_serial` | `MCAgentSessions` | 444 000 | when callbacks and requests do not overlap, sessions, mapping, list and rows agree between all steps, and `AgentSessions` implements `AgentRegistry` |
| `sessions_overlap` | `MCAgentSessions` | 670 000 | when they do, no server id is lost and a welcomed agent is reachable |
| `sessions_late_agents` | `MCAgentSessions` | 72 000 | agents that connect to a running simulation each get a server of their own, and are configured and mounted, in the end too |
| `cells` | `MCCellTables` | 674 000 | until requests overlap, a modification that is answered 200 is done in the tables and the log and told to an agent that has a session, flags are fresh, GetTopology is right, no change of a PCI is missing from the log and no neighbor is lost; however they overlap, a listed neighbor has its details row |
| `cell_reports` | `CellReports` | 321 000 | alarm and PM data of every list of up to five neighbors follow the definition and agree with each other |
| `pm_trusting` | `MCPmScheduler` | 82 000 | a user who asks for the status gets the truth; every server before a failing one is served for ever; one row of the file per run if the user waits for the last run |
| `agent_link` | `AgentLink` | 613 000 | the agent never stops trying, loses messages only by lost connections, ends with the right session, and holds no sender for ever |
| `neighbor_batches` | `MCNeighborBatches` | 382 000 | each change that is not added during a timer's run is sent, and sent once while timers and writers do not meet |
| `agent_config` | `MCAgentConfig` | 2 957 000 | no change of the controller comes back to it; the last word of each side reaches the other; the agent reports again after each initialisation that does not fail |
| `gnb_cells` | `MCGnbCells` | 1 950 000 | each DU function has its own cells while reads come one by one and none meets a message; the first read is complete |
| `cells_log_swapped` | `MCCellTables` | - | refuted: the log tells to which PCI a cell was changed |
| `pm_stop_leaks` | `MCPmScheduler` | - | refuted: stopPmData terminates the task |

What the properties say beyond a test of one operation:

* `SerialInv` relates four collections after every step of handlers that change
  them one by one, including a stop and a new start with agents connected;
  `ImplementsRegistry` says that what all of that amounts to is a set of members
  and an owner for each id.
* `NoServerLost` and `ConnectedIsReachable` are what is left of it when
  StartSimulation runs together with the callbacks, which it does in the code.
* `EventuallyConfigured`: onOpen and StartSimulation each configure the agents they
  know of; together they leave none out.
* `ModifyIsDone`, `ModifyLeavesFresh`, `TopologyIsRight`, `NeighborsAreKept`: a
  dozen transactions, any of which may find its row gone, amount to the change
  that was asked for, or to an answer other than 200.
* `PciIsLogged`: ModifyACell logs before it changes the table and ModifyPci after it,
  from rows read earlier; on both ways the PCI of each cell is in its last row of the
  log, if only as the old one after a ModifyPci.
* `ConfusedAreMerged`: two pieces of code that were written apart, the alarm and the
  PM data, treat the same neighbors as confused.
* `EarlyIsSent`: setting a new timer, a thread of a timer that dies of a changed
  list, a timer that is cancelled by the thread of another, and a second batch of a
  cell lose no change; only one that comes while a timer's thread is between its
  reading and the end of its run may be lost.
* `NoEcho`: the flag that is cleared while Honeycomb reads a file keeps the
  controller's change from being reported to the controller as SDN-R's.  That takes
  one handler, and that no UpdateCell comes before Honeycomb has started.
* `UpdatesArrive`, `CommitsArrive`: when all is quiet, the agent has what the
  controller last sent for a cell, and the controller what SDN-R last committed,
  unless the other side, a lost second handler or a failed start is the reason.
* `MonitoringReturns`: the flag is set again on every path that does not fail.
* `OwnCells`: a count of calls, kept in a map that outlives the read, says whose cells
  are meant; it takes a whole read to go wrong.
* `NeverStranded`, `LinkHeals`: an exception in the loop that connects may double it,
  a late thread may put a dead session into the field, the close of another
  session may clear it, and still one connection is used in the end.

### Bounds

* Agents and servers: two of each, so that an id can go to another agent and an
  agent can get another id; three sessions let one agent connect twice while the
  other comes, or three times.  `sessions_overlap` has two sessions and a topology
  of three cells on two servers instead, so that a server occurs twice in the
  file.  One stop and two starts.
* Cells: three, with one that lists two, one that is listed by two, and one that
  lists none; two requests, since every conflict here is between two; PCIs 0 .. 1
  and one above the limit, so that a request can be refused.  A request asks for no
  neighbors or for two of the three cells, which adds, keeps and drops some,
  depending on the cell.
* Neighbors: lists of up to five, PCIs of four values and a missing one: three that
  share a PCI, two pairs, and one in between all occur.  The share of bad values is
  a half instead of a fifth, so that it is 0, 1 and 2 in turn.
* PM: two tasks and two stops; three servers, the last of which fails; two rows,
  so that the index wraps around.
* `agent_link`: three sessions make two overtaken by a third; the loop sleeps twice
  instead of six times; one message, since senders share only the field, which
  they do not write.
* `agent_config`: two cells, so that a message carries another cell's stale PCI; two
  handlers, which is one too many; two changes of the controller and one of SDN-R,
  so that each side can come before, between and after the other.
* `gnb_cells`: functions with two, one and no cells; four messages, of which one adds a
  function, one swaps two, and one has a function without cells; two messages and
  three reads by two readers, so that a read can come before and after each message,
  and beside another one.
* `neighbor_batches`: three changes of one cell: a batch that is made twice, and a
  timer set and set again.  Different cells share nothing but the map.

Sessions are interchangeable (`SessionSymmetry`), and so are requests
(`RequestSymmetry`), in the runs that check no liveness.  Deadlock is not checked
where the bounds make the system stop: no session or request is left.

### Fairness

Only threads that have begun are fair, weakly: the container's threads go on with
a callback, an executor runs a task when its time has come, a timer fires, a
thread sleeps and goes on.  Nothing says that anybody sends a request, writes a
change, connects, or loses a connection.  In `AgentLink` the delivery of
messages is fair since the controller sends one every ten seconds
(`KeepWebsockAliveThread`, RC 2502-2528); that connecting succeeds is not assumed.
`AgentConfig` and `GnbCells` state no fairness: their properties are about states, those
of `AgentConfig` mostly about states in which nothing is under way.

## 4. Proofs

| theorem | for every | argument |
|---|---|---|
| `AgentSessionsProofs!TypeCorrect` | agents, servers, sessions, file, flags | `TypeInv` adds which thread has what in its local variables, and that the monitor has one owner |
| `AgentSessionsProofs!ServersAreKept` | the same, all overlaps | `CoverInv`: an id that is taken out of the list is mapped or in the hands of one thread; one whose owner closes is in the list before it is unmapped (`CoverageIsKept`) |
| `AgentSessionsProofs!AgentsAreReachable` | the same, `~LateClose` | `ReachInv`: of the sessions of one agent one is active, and it is the one registered |
| `AgentSessionsProofs!RegistryIsConsistent` | the same, `~Overlap` | `SerialInv` is inductive with `TypeInv`; one lemma for each of its four parts |
| `AgentSessionsProofs!RegistryIsImplemented` | the same, `~Overlap` | each step maps to a step of `AgentRegistry` or a stutter, by `SerialInv` |
| `AgentSessionsProofs!ListedIsFree`, `AssignedAreConfigured` | agents, servers, sessions, file; `Late`: no overlaps, no stop, no agent before the simulation | `LateInv`: no agent comes before the first request is done (`LateStart`), an id that is listed, taken or mapped has its row (`LateRows`), and a thread that welcomes an agent works on the server the agent is mapped to (`Welcome`) |
| `AgentSessionsProofs!ServersAreNotShared` | agents (finitely many), servers, sessions, file; `Late` | if no fewer servers are in the file than there are agents: all rows of the file are there when the simulation runs (`FileInRows`), so the servers of the file are listed, taken or mapped; were none listed when an onOpen asks, each would have an agent other than this one, and the mapping would be an injection into a smaller set; so each onOpen finds one (`EachIsServed`) |
| `CellTablesProofs!TypeCorrect` | cells, PCIs, lists, requests | a request that will merge a row has read one |
| `CellTablesProofs!ListedDetailed` | the same, all overlaps | `DetailInv`: details rows are never removed, and a list that is about to be merged has them already |
| `CellTablesProofs!PciLogged`, `ModifyDone`, `ModifyFresh`, `TopologyRight`, `NeighborsKept` | the same, until requests overlap | `AloneInv`: one request is busy at a time (`OneBusy`), and what the tables lack is in its hands: a PCI that is not yet logged or merged (`PciInHand`), the rows that make up for the difference between the handover neighbors and those asked for (`NbrsInHand`), the row under check (`RowInHand`), and the cells whose flags are still to be set (`ChecksInHand`); `LogRowTells` says what a row of the log tells of the PCI |
| `CellReportsProofs!CountsExact`, `ProblemRight` | PCIs, length of the list | `Inv`: after `m` neighbors the counters are those of the first `m`; lemmas say what one more neighbor adds to a set of confused ones |
| `CellReportsProofs!ReportsCheck` | the same | each step of `CellReports` is a step of `PciCheck` or leaves its variables alone, so both theorems hold of the reports |
| `CellReportsProofs!PcisAreMeasured`, `FirstFifthIsBad` | PCIs, length of the list, length of the array, share | `PmInv`, one conjunct for each loop: after `m` neighbors the array has the last of the first `m` with each PCI (`OrderedUpTo`); below `k` its elements are measured in order (`ElementsBelow`); the count left over and the values given follow from the number of measurements (`ValuesGiven`) |
| `CellReportsProofs!AlarmsAgreeWithReports` | the same | both invariants, and `MergedCount`: the neighbors that are not the last with their PCI are confused, and the confused ones that are the last map into them one to one |
| `CellReportsProofs!AnswerTellsComplete` | PCIs, length of the list | `CompleteInv`: while neighbors are counted, those counted so far are there (`ThereUpTo`), so the check ends with an answer exactly if none was missing |
| `PmSchedulerProofs!StatusTrue` | requests, servers, rows; `~Overlap`, `Trusting` | `StatusInv`: one request is handled at a time, tasks run only on the executor the field holds, and what the flag tells within a request |
| `PmSchedulerProofs!OneRow` | the same | `PatientInv`: one task is busy at a time, so the rows it has taken follow from the index alone |
| `PmSchedulerProofs!TypeCorrect` | requests, servers, rows; all overlaps | with `Typed`: a row is taken only after the index has been compared with the number of rows (`Bounded`); the index itself has no bound, as tasks that overlap can push it on |
| `AgentLinkProofs!TypeCorrect` | sessions, messages, tries | a thread that sleeps has not used up its tries |
| `AgentLinkProofs!NotStranded` | the same | inductive with the types: each step that takes the last session away leaves a lost one or a thread that connects |
| `AgentLinkProofs!CalmSends` | the same | `CalmIsGood`: as long as a message is undisturbed the field holds an open session, and so do the threads that are about to assign it |
| `NeighborBatchesProofs!TypeCorrect` | cells, changes | `Structure`: who has a batch or a timer in hand at which step, and that the monitor of a batch has one owner |
| `NeighborBatchesProofs!SentOnceAlways` | the same | inductive with `Structure` and `Separate`: as long as a timer and a writer have not met, a timer that will fire is the one that was set last for its batch, only one thread works on a batch, and what a batch still holds has not been sent |
| `NeighborBatchesProofs!EarlyIsNeverLost` | the same, all overlaps | `EarlyInv`: a change that was added early and has not been sent is in the list of its batch, no thread is about to clear that list, one that is about to send has read the change (`NotPassedOver`), and a writer that will set a timer, a timer that is set or a thread of one is there to send it (`HasSender`) |
| `AgentConfigProofs!TypeCorrect` | cells, PCIs, handlers, changes, commits | with what a thread has read when it is at a step (`ThreadsHold`), and that channels of handlers that do not exist are empty |
| `AgentConfigProofs!NothingEchoes` | the same | `BootIsSilent`: while Honeycomb reads the file the flag is off, if there is one handler and the main thread is alone; what else is reported has been committed |
| `AgentConfigProofs!ListensAgain` | the same | `FlagIsOn`: with one handler, the flag is set whenever nobody initialises Honeycomb |
| `AgentConfigProofs!FlowHolds` | the same | `Flow`, inductive with the invariant of the three theorems above: as long as there is one handler, a row that the agent has not got is in a message on its way (`RowIsOnItsWay`), a topology that Honeycomb has not got is in the file or in a thread's hands (`TopologyIsBooted`), and a commit that the table has not got is in a report (`ReportIsOnItsWay`) |
| `AgentConfigProofs!ChangesReachHoneycomb`, `ReportsReachTheTable` | the same | `Flow` in a state in which nothing is on its way |
| `GnbCellsProofs!TypeCorrect` | functions, messages, readers | a reader at a function has one; one that returns cells has found them |
| `GnbCellsProofs!EachHasItsOwn`, `FirstReadShowsAll` | the same, as long as nothing but further messages is amiss | `InStep`: flags and shown cells are those of the functions behind the reader, or of all; so the first unset flag is that of the function the reader is at |
| `GnbCellsProofs!SecondMessageHidesAll` | the same | `KeysAreOld`: the keys are those of the first message, so none equals an id of a later one |

The assumptions are the named `ASSUME`s of the modules: names that stand for
nothing are not names of something (that a topology is not the same as none is one of
these, `NoTopologyAssumption`), bounds are natural numbers, agents are finitely many,
and files refer to the cells and servers there are.  TLC evaluates them in the runs.

Every invariant that a passing run checks is proved, and so are all its action
properties.  Only model-checked: liveness (`EventuallyConfigured`, `ResultIfComplete`,
`KeepsSending`, `LinkHeals`, `SendReturns`, `EarlyIsSent`), since it rests on fairness
and so on ENABLED, which the provers do not handle.
What of these is safety is proved: that a change which is to be sent is never lost
and always has a sender (`EarlyIsNeverLost`, for `EarlyIsSent`), that a complete list
and nothing else gets an answer (`AnswerTellsComplete`, for `ResultIfComplete`), that
somebody is always left to restore the link (`NotStranded`, for `LinkHeals`), and that an
agent with a server is configured when no thread is at work for it
(`AssignedAreConfigured`, for `EventuallyConfigured`).

## 5. Where code and words part

Refuted by a run:

* `cells_log_swapped`: `updatePciOperationsTable` takes the new PCI and then the old
  one (RC 1822) and writes "changed from" the last "to" the first (RC 1833);
  ModifyPci calls it with the old one first (RC 2265), so the log of every change
  that comes from SDN-R reads "from NEW to OLD".  A ModifyACell that asks for the
  PCI the cell has adds no row that would put it right.
* `pm_stop_leaks`: a second GeneratePmData replaces the executor (SV 188) that
  stopPmData should terminate.

Seen while modelling, and part of the models, but without a run of their own:

* A deleted cell stays in the lists of the others, which the comment says it is
  removed from (RC 1744): `deleteCellFunction` asks a set of one type for an element
  of another (RC 1776).  `NeighborsAreKept` holds with deletions for that reason.
* A row that was read before the check is merged after it (RC 1541) and undoes a PCI
  that an agent has changed in between; the last row of the log then has not the PCI
  of the table at all.  `PciIsLogged` holds only until requests overlap.
* StartSimulation gives an id to an agent that is connected already and leaves the id
  in the list of unassigned ones (RC 2102); the next agent that connects takes it.
  `UnassignedIsFree` and `OneAgentPerServer` hold when agents connect late, and not
  with `AgentsFirst`.
* With fewer servers than agents, an agent that connects and finds no free id is not
  told (RC 194): it keeps the configuration it had, and two agents play one server.
  `OneAgentPerServer` asks for enough servers.
* The session of an agent without a server id stays registered after its close
  (RC 265): removing the key null from the mapping throws.
* A ModifyACell whose PCI is refused is still sent to the agent (SV 443), and one
  with an empty list of neighbors is taken for one neighbor without a name (SV 432).
* A neighbor that ModifyAnr adds gets a details row but is not listed (RC 2316).
* A deleted cell comes back by a merge of the row another request has read
  (RC 2264).
* GeneratePmData and stopPmData at the same time leave a status that is not true
  (SV 198, 231): `Trusting` and `~Overlap` are what `StatusIsTrue` needs.
* One cell that fails ends the PM run for the servers that follow (RC 1041).  The
  largest PCI that ModifyACell accepts (RC 1894) is out of the bounds of the
  array (RC 943).
* Two connections of one agent: an exception in the loop that connects
  (`RansimClientWebSocket.java:176`) while onClose starts another one.
  `AgentSessions` assumes that an agent connects only when it has no connection;
  `AgentLink` shows what a second one means for the agent.
* `getConfigJsonHandler` (EN `ConfigJsonHandler.java:80`) makes a second handler if the
  controller answers while the first is being constructed; topology, flag and session
  are then those of different handlers, and changes are reported that came from the
  controller, or none at all.
* If the start of Honeycomb throws (`ConfigJsonHandler.java:262`), the agent reports
  nothing until the next UpdateCell: `MonitoringReturns` excepts it.
* UpdateCell writes the whole topology (`ConfigJsonHandler.java:182`) and undoes in
  file and tree what SDN-R has changed in another cell; a commit of SDN-R between the
  write of the file and its reading undoes the UpdateCell.
* The flag `NoEcho` relies on is set for everybody: what SDN-R commits while it is off is
  never reported (`X0005b9LteCrudService.java:134`).
* gNodeB agent: `readAll` is documented as "Read all nodes of type" (`CrudService.java:60`)
  and returns the cells of one function per call.  After a second INITIAL_CONFIG it
  returns none, since ids are compared by `==`
  (`GNBDUFunctionNRCellDUCrudService.java:236`); a function without cells or one that is
  new gets the cells of another.
* gNodeB agent, not in a module: in `WebsocketClient.java:91-102` PmData falls through to
  FmData and UpdateCell; a message sent while `clientSession` is null throws in the
  line that logs it and is lost.
* `EnodebSimSetup.py`, not in a module: "stop" looks for a java process whose command
  line has the instance's number (line 63), which it has not; the empty answer is
  converted to a number (line 71), which throws, so nothing is stopped or removed.
* A neighbor change that is added between the reading and the clearing of a batch
  is lost (`ServerCidNbrListHandler.java:53-73`).

## 6. Not modelled

`PROJECT.json` has the reasons by component.  In short: data classes, codecs,
registration, HTTP exchange and the GUI have no state to get wrong; sector numbers and
grid layouts are geometry in floating point; the texts of alarms, logs and messages
are not what the properties are about.  The modification cache of the eNodeB agent's
services is used only for data without a pnf-name, which SDN-R does not send.  The
other services of the gNodeB agent read the tree or log what is written.

The implementation is Java.  The only Python files are `get-pip.py`, a vendored
installer whose 20 900 lines are an encoded archive, and `EnodebSimSetup.py`, which
copies directories and starts processes one after the other; neither is modelled.

## 7. What could follow

1. The client of the gNodeB agent as a second instance of `AgentLink`, without the
   repair of a dead session that the eNodeB agent has.
2. Sector assignment of `generateClusterFromFile`, as an algorithm over bearings.
