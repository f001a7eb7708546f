----------------------- MODULE AgentSessionsProofs -----------------------
(* Theorems about the agent registry, for every set of agents, servers and *)
(* sessions, every topology file and every bound: first whatever overlaps, *)
(* then when an agent waits for the close of its old session, then without *)
(* overlap, and last when agents connect late.                             *)
EXTENDS AgentSessions, FiniteSetTheorems, TLAPS

-----------------------------------------------------------------------------
(* Sequences of server ids.                                                *)

LEMMA ContainsAppend ==
    ASSUME NEW S, NEW q \in Seq(S), NEW e \in S, NEW x
    PROVE  Contains(Append(q, e), x) <=> Contains(q, x) \/ x = e
<1>1. Len(Append(q, e)) = Len(q) + 1 /\ Append(q, e)[Len(q) + 1] = e
      /\ \A i \in 1 .. Len(q) : Append(q, e)[i] = q[i] /\ Len(q) \in Nat
  OBVIOUS
<1>2. Len(q) \in Nat
  OBVIOUS
<1> QED
  BY <1>1, <1>2 DEF Contains

LEMMA ContainsTail ==
    ASSUME NEW S, NEW q \in Seq(S), q # << >>, NEW x
    PROVE  /\ Head(q) \in S
           /\ Tail(q) \in Seq(S)
           /\ Contains(q, x) => x = Head(q) \/ Contains(Tail(q), x)
           /\ Contains(Tail(q), x) => Contains(q, x)
<1>1. /\ Len(q) \in Nat \ {0} /\ Tail(q) \in Seq(S) /\ Len(Tail(q)) = Len(q) - 1
      /\ Head(q) = q[1] /\ \A i \in 1 .. Len(Tail(q)) : Tail(q)[i] = q[i + 1]
  OBVIOUS
<1>2. ASSUME Contains(q, x), x # Head(q) PROVE Contains(Tail(q), x)
  <2>1. PICK i \in 1 .. Len(q) : q[i] = x
    BY <1>2 DEF Contains
  <2>2. i - 1 \in 1 .. Len(Tail(q)) /\ Tail(q)[i - 1] = x
    BY <1>1, <1>2, <2>1
  <2> QED
    BY <2>2 DEF Contains
<1>3. ASSUME Contains(Tail(q), x) PROVE Contains(q, x)
  <2>1. PICK i \in 1 .. Len(Tail(q)) : Tail(q)[i] = x
    BY <1>3 DEF Contains
  <2>2. i + 1 \in 1 .. Len(q) /\ q[i + 1] = x
    BY <1>1, <2>1
  <2> QED
    BY <2>2 DEF Contains
<1>4. Head(q) \in S
  BY <1>1
<1> QED
  BY <1>1, <1>2, <1>3, <1>4

LEMMA ContainsRemoveAt ==
    ASSUME NEW S, NEW q \in Seq(S), NEW i \in 1 .. Len(q)
    PROVE  /\ RemoveAt(q, i) \in Seq(S)
           /\ \A x : Contains(q, x) /\ x # q[i] => Contains(RemoveAt(q, i), x)
<1> DEFINE r == RemoveAt(q, i)
<1>1. /\ r \in Seq(S) /\ Len(q) \in Nat /\ Len(r) = Len(q) - 1
      /\ \A j \in 1 .. (i - 1) : r[j] = q[j]
      /\ \A j \in i .. (Len(q) - 1) : r[j] = q[j + 1]
  <2> DEFINE u == SubSeq(q, 1, i - 1)
             v == SubSeq(q, i + 1, Len(q))
  <2>1. Len(q) \in Nat /\ i \in Nat /\ 1 <= i /\ i <= Len(q)
    OBVIOUS
  <2>2. u \in Seq(S) /\ Len(u) = i - 1 /\ \A j \in 1 .. (i - 1) : u[j] = q[j]
    BY <2>1
  <2>3. v \in Seq(S) /\ Len(v) = Len(q) - i
        /\ \A j \in 1 .. (Len(q) - i) : v[j] = q[j + i]
    BY <2>1
  <2>4. r = u \o v
    BY DEF RemoveAt
  <2> HIDE DEF u, v, r
  <2>5. r \in Seq(S) /\ Len(r) = Len(q) - 1
    BY <2>1, <2>2, <2>3, <2>4
  <2>6. \A j \in 1 .. (i - 1) : r[j] = q[j]
    BY <2>1, <2>2, <2>3, <2>4
  <2>7. ASSUME NEW j \in i .. (Len(q) - 1) PROVE r[j] = q[j + 1]
    <3>1. j - (i - 1) \in 1 .. (Len(q) - i) /\ j - (i - 1) + i = j + 1
      BY <2>1, <2>7
    <3>2. r[j] = v[j - (i - 1)]
      BY <2>1, <2>2, <2>3, <2>4, <2>7
    <3> QED
      BY <2>3, <3>1, <3>2
  <2> QED
    BY <2>1, <2>5, <2>6, <2>7
<1>2. ASSUME NEW x, Contains(q, x), x # q[i] PROVE Contains(r, x)
  <2>1. PICK j \in 1 .. Len(q) : q[j] = x
    BY <1>2 DEF Contains
  <2>2. CASE j < i
    <3>1. j \in 1 .. Len(r) /\ r[j] = x
      BY <1>1, <2>1, <2>2
    <3> QED
      BY <3>1 DEF Contains
  <2>3. CASE j > i
    <3>1. (j - 1) \in i .. (Len(q) - 1) /\ j - 1 \in 1 .. Len(r) /\ j - 1 + 1 = j
      BY <1>1, <2>1, <2>3
    <3>2. r[j - 1] = x
      BY <1>1, <2>1, <3>1
    <3> QED
      BY <3>1, <3>2 DEF Contains
  <2> QED
    BY <1>2, <2>1, <2>2, <2>3
<1> QED
  BY <1>1, <1>2

-----------------------------------------------------------------------------
(* Types.                                                                  *)

\* The registry, the tables, the threads and the agents keep their types.
\* A thread that works on a server id has one.
HasServer(t) ==
    pc[t] \in {"addPut", "addRow", "addMerge", "greet", "configRead", "configSend", "mount",
               "rmRow", "rmMerge", "genAdd", "genRow", "genMerge", "put", "session"}

HasAgent(t) ==
    pc[t] \in SessionPcs \ {"unused"} \/ pc[t] \in {"put", "session"}

Locals ==
    /\ \A t \in Threads : HasServer(t) => serverId[t] \in Servers
    /\ \A t \in Threads : HasAgent(t) => ipPort[t] \in Agents
    /\ \A t \in Threads : pc[t] = "configSend" => readIp[t] \in Agents
    /\ pc[Rest] \in {"genCheck", "genAdd", "genRow", "genMerge"} => next \in 1 .. Len(Dump)

\* One thread is inside the monitor, and the list it takes an id from only grows
\* until then.
Monitor ==
    /\ \A s, t \in Locked : s = t
    /\ \A s \in Sessions : pc[s] = "addTake" => unassignedServerIds # << >>

TypeInv == TypeOK /\ Locals /\ Monitor

USE DistinctNames, DumpAssumption, BoundAssumption, FlagAssumption

LEMMA TypeInit == Init => TypeInv
<1> SUFFICES ASSUME Init PROVE TypeInv
  OBVIOUS
<1> USE DEF Init
<1>1. << >> \in Seq(Servers) /\ 0 \in 0 .. Len(Dump)
  OBVIOUS
<1>2. pc[Rest] = "idle" /\ \A s \in Sessions : pc[s] = "unused"
  BY DEF Threads
<1>3. TypeOK
  BY <1>1, <1>2 DEF TypeOK, Threads, SessionPcs, RestPcs
<1>4. Locals /\ Monitor
  BY <1>2 DEF Monitor, Locals, HasServer, HasAgent, Threads, SessionPcs, Locked
<1> QED
  BY <1>3, <1>4 DEF TypeInv

LEMMA TypeStep == TypeInv /\ [Next]_vars => TypeInv'
<1> SUFFICES ASSUME TypeInv, [Next]_vars PROVE TypeInv'
  OBVIOUS
<1> USE DEF TypeInv, TypeOK, Locals, Monitor, HasServer, HasAgent, Threads, SessionPcs, RestPcs,
        Goto, registry, database, request, agents, locals, Locked
<1>1. ASSUME NEW a \in Agents, NEW s \in Sessions, Connect(a, s) PROVE TypeInv'
  BY <1>1 DEF Connect
<1>2. ASSUME NEW a \in Agents, ConnectionLost(a) PROVE TypeInv'
  BY <1>2 DEF ConnectionLost
<1>3. ASSUME NEW a \in Agents, AgentRestart(a) PROVE TypeInv'
  BY <1>3 DEF AgentRestart
<1>4. ASSUME NEW s \in Sessions, AddWebSocketSession(s) PROVE TypeInv'
  <2>1. /\ pc[s] = "onOpen" /\ ipPort[s] \in Agents /\ Locked = {}
        /\ webSocketSessions' = [webSocketSessions EXCEPT ![ipPort[s]] = s]
        /\ UNCHANGED <<serverIdIpPortMapping, unassignedServerIds, database, mounted,
                       ipPort, readIp, request, agents>>
    BY <1>4 DEF AddWebSocketSession
  <2>2. ASSUME NEW id \in ServersOf(ipPort[s]),
               serverId' = [serverId EXCEPT ![s] = id],
               Goto(s, "greet")
        PROVE  TypeInv'
    BY <2>1, <2>2 DEF ServersOf
  <2>3. ASSUME Goto(s, IF unassignedServerIds = << >> THEN "opened" ELSE "addTake"),
               UNCHANGED serverId
        PROVE  TypeInv'
    <3>1. \A r \in Locked' : r = s
      BY <2>1, <2>3
    <3> QED
      BY <2>1, <2>3, <3>1
  <2> QED
    BY <1>4, <2>2, <2>3 DEF AddWebSocketSession
<1>4a. ASSUME NEW s \in Sessions, TakeServerId(s) PROVE TypeInv'
  <2>1. /\ pc[s] = "addTake" /\ ipPort[s] \in Agents /\ s \in Locked
        /\ pc' = [pc EXCEPT ![s] = "addPut"]
        /\ unassignedServerIds # << >>
        /\ UNCHANGED <<webSocketSessions, serverIdIpPortMapping, database, mounted,
                       ipPort, readIp, request, agents>>
    BY <1>4a DEF TakeServerId
  <2>2. PICK id \in Servers : /\ serverId' = [serverId EXCEPT ![s] = id]
                             /\ unassignedServerIds' \in Seq(Servers)
    <3>1. /\ Head(unassignedServerIds) \in Servers
          /\ Tail(unassignedServerIds) \in Seq(Servers)
          /\ \A i \in 1 .. Len(unassignedServerIds) :
               RemoveAt(unassignedServerIds, i) \in Seq(Servers)
      BY <2>1, ContainsTail, ContainsRemoveAt
    <3>2. CASE /\ serverId' = [serverId EXCEPT ![s] = Head(unassignedServerIds)]
               /\ unassignedServerIds' = Tail(unassignedServerIds)
      BY <3>1, <3>2
    <3>3. ASSUME NEW id \in ServersOf(ipPort[s]),
                 serverId' = [serverId EXCEPT ![s] = id],
                 \/ UNCHANGED unassignedServerIds
                 \/ \E i \in 1 .. Len(unassignedServerIds) :
                      unassignedServerIds' = RemoveAt(unassignedServerIds, i)
          PROVE  /\ id \in Servers
                 /\ serverId' = [serverId EXCEPT ![s] = id]
                 /\ unassignedServerIds' \in Seq(Servers)
      BY <3>1, <3>3 DEF ServersOf
    <3> QED
      BY <1>4a, <3>2, <3>3 DEF TakeServerId
  <2>3. Locked' = Locked /\ \A r \in Sessions : pc'[r] # "addTake"
    BY <2>1
  <2> QED
    BY <2>1, <2>2, <2>3
<1>4b. ASSUME NEW s \in Sessions, AddPutMapping(s) PROVE TypeInv'
  BY <1>4b DEF AddPutMapping
<1>5. ASSUME NEW s \in Sessions, AddReadRow(s) PROVE TypeInv'
  BY <1>5 DEF AddReadRow
<1>6. ASSUME NEW s \in Sessions, AddMergeRow(s) PROVE TypeInv'
  BY <1>6 DEF AddMergeRow
<1>7. ASSUME NEW s \in Sessions, NewAgentSession(s) PROVE TypeInv'
  BY <1>7 DEF NewAgentSession
<1>8. ASSUME NEW s \in Sessions, RemoveWebSocketSession(s) PROVE TypeInv'
  <2>1. /\ pc[s] = "opened" /\ ipPort[s] \in Agents
        /\ UNCHANGED <<webSocketSessions, serverIdIpPortMapping, database, mounted,
                       ipPort, readIp, request, agents>>
    BY <1>8 DEF RemoveWebSocketSession
  <2>2. ASSUME NEW id \in ServersOf(ipPort[s]),
               unassignedServerIds' =
                 IF Contains(unassignedServerIds, id) THEN unassignedServerIds
                 ELSE Append(unassignedServerIds, id),
               serverId' = [serverId EXCEPT ![s] = id],
               Goto(s, "rmRow")
        PROVE  TypeInv'
    <3>1. unassignedServerIds' \in Seq(Servers)
      BY <2>2 DEF ServersOf
    <3>2. pc' = [pc EXCEPT ![s] = "rmRow"] /\ Locked = {}
      BY <1>8, <2>2 DEF RemoveWebSocketSession
    <3>3. \A r \in Locked' : r = s
      BY <3>2
    <3>4. \A r \in Sessions : pc'[r] # "addTake"
      BY <3>2
    <3> QED
      BY <2>1, <2>2, <3>1, <3>2, <3>3, <3>4 DEF ServersOf
  <2>3. ASSUME Goto(s, "closed"), UNCHANGED <<unassignedServerIds, serverId>>
        PROVE  TypeInv'
    BY <2>1, <2>3
  <2> QED
    BY <1>8, <2>2, <2>3 DEF RemoveWebSocketSession
<1>9. ASSUME NEW s \in Sessions, RemoveReadRow(s) PROVE TypeInv'
  BY <1>9 DEF RemoveReadRow
<1>10. ASSUME NEW s \in Sessions, RemoveMergeRow(s) PROVE TypeInv'
  BY <1>10 DEF RemoveMergeRow
<1>11. ASSUME NEW t \in Threads, ReadInitialConfig(t) PROVE TypeInv'
  <2>1. /\ pc[t] = "configRead" /\ serverId[t] \in Servers
        /\ readIp' = [readIp EXCEPT ![t] = serverIdIpPortMapping[serverId[t]]]
        /\ UNCHANGED <<registry, database, mounted, serverId, ipPort, request, agents>>
    BY <1>11 DEF ReadInitialConfig
  <2>2. CASE /\ serverIdIpPortMapping[serverId[t]] # None
             /\ pc' = [pc EXCEPT ![t] = "configSend"]
    <3>1. Locked' = Locked
      BY <2>1, <2>2
    <3> QED
      BY <2>1, <2>2, <3>1
  <2>3. CASE pc' = [pc EXCEPT ![t] = "mount"]
    <3>1. Locked' = Locked
      BY <2>1, <2>3
    <3> QED
      BY <2>1, <2>3, <3>1
  <2> QED
    BY <1>11, <2>2, <2>3 DEF ReadInitialConfig
<1>12. ASSUME NEW t \in Threads, SendInitialConfig(t) PROVE TypeInv'
  BY <1>12 DEF SendInitialConfig
<1>13. ASSUME NEW t \in Threads, SendMountRequest(t) PROVE TypeInv'
  BY <1>13 DEF SendMountRequest
<1>14. ASSUME Generate \/ StartSimulation PROVE TypeInv'
  <2>1. CASE StartSimulation
    BY <2>1 DEF StartSimulation
  <2>2. CASE GenerateCheck
    BY <2>2 DEF GenerateCheck
  <2>3. CASE GenerateAdd
    <3>1. /\ unassignedServerIds' \in Seq(Servers) /\ unassignedServerIds' # << >>
          /\ pc' = [pc EXCEPT ![Rest] = "genRow"] /\ UNCHANGED locals
      BY <2>3 DEF GenerateAdd
    <3>2. Locked' = Locked
      BY <3>1
    <3> QED
      BY <2>3, <3>1, <3>2 DEF GenerateAdd
  <2>4. CASE GenerateReadRow
    BY <2>4 DEF GenerateReadRow
  <2>5. CASE GenerateMergeRow
    <3>1. /\ rowIp' \in [Servers -> Agents \cup {None, NoRow}]
          /\ pc'[Rest] \in {"list", "genCheck"} /\ next' \in 0 .. Len(Dump)
          /\ pc'[Rest] = "genCheck" => next' \in 1 .. Len(Dump)
          /\ pc' \in [Threads -> SessionPcs \cup RestPcs]
          /\ \A r \in Sessions : pc'[r] = pc[r]
          /\ UNCHANGED <<registry, simRunning, mounted, locals, todo, stops, agents>>
      BY <2>5 DEF GenerateMergeRow
    <3>2. Locked' = Locked /\ Locals' /\ Monitor'
      BY <3>1
    <3> QED
      BY <3>1, <3>2
  <2> QED
    BY <1>14, <2>1, <2>2, <2>3, <2>4, <2>5 DEF Generate
<1>15. ASSUME SendInitialConfigAll PROVE TypeInv'
  <2>1. CASE ListServers
    BY <2>1 DEF ListServers
  <2>2. CASE AssignNext
    BY <2>2 DEF AssignNext
  <2>3. CASE PutMapping
    BY <2>3 DEF PutMapping
  <2>4. CASE AssignSession
    BY <2>4 DEF AssignSession
  <2>5. CASE StartDone
    BY <2>5 DEF StartDone
  <2> QED
    BY <1>15, <2>1, <2>2, <2>3, <2>4, <2>5 DEF SendInitialConfigAll
<1>16. ASSUME StopSimulation \/ StopCommit PROVE TypeInv'
  <2>1. CASE StopSimulation
    <3>1. mounted' \in [Servers -> Agents \cup {None}]
      BY <2>1 DEF StopSimulation
    <3> QED
      BY <2>1, <3>1 DEF StopSimulation
  <2>2. CASE StopCommit
    BY <2>2 DEF StopCommit
  <2> QED
    BY <1>16, <2>1, <2>2
<1>17. CASE UNCHANGED vars
  BY <1>17 DEF vars
<1> QED
  BY <1>1, <1>2, <1>3, <1>4, <1>4a, <1>4b, <1>5, <1>6, <1>7, <1>8, <1>9, <1>10, <1>11,
     <1>12, <1>13, <1>14, <1>15, <1>16, <1>17
  DEF Next, Environment, OnOpen, OnClose, Configure, Request

THEOREM TypeCorrect == Spec => []TypeOK
<1>1. Spec => []TypeInv
  BY TypeInit, TypeStep, PTL DEF Spec
<1>2. TypeInv => TypeOK
  BY DEF TypeInv
<1> QED
  BY <1>1, <1>2, PTL

-----------------------------------------------------------------------------
(* No server id is lost.                                                   *)

Covered(id) ==
    \/ serverIdIpPortMapping[id] # None
    \/ Contains(unassignedServerIds, id)
    \/ \E s \in Sessions : pc[s] = "addPut" /\ serverId[s] = id

Closing == {s \in Sessions : pc[s] \in {"rmRow", "rmMerge"}}

\* NoServerLost needs, of the threads that are between two steps: an id that a
\* thread is about to write a row for is covered, and an id whose mapping a
\* thread is about to remove is in the list.
CoverInv ==
    /\ NoServerLost
    /\ \A s \in Sessions : pc[s] \in {"addRow", "addMerge"} => Covered(serverId[s])
    /\ \A s \in Sessions :
         pc[s] \in {"rmRow", "rmMerge"} => Contains(unassignedServerIds, serverId[s])
    /\ pc[Rest] \in {"genRow", "genMerge"} => Covered(serverId[Rest])

\* Only addWebSocketSessions takes an id out of the list, and it maps it; only
\* removeWebSocketSessions unmaps one, and it is in the list by then.
LEMMA CoverageIsKept ==
    ASSUME TypeInv, CoverInv, [Next]_vars
    PROVE  /\ \A id \in Servers : Covered(id) => Covered(id)'
           /\ \A id \in Servers :
                Contains(unassignedServerIds, id) /\ Closing # {} =>
                    Contains(unassignedServerIds', id)
<1> USE DEF TypeInv, TypeOK, Locals, Covered, Goto, registry
<1> DEFINE Kept == /\ \A id \in Servers : Covered(id) => Covered(id)'
                   /\ \A id \in Servers :
                        Contains(unassignedServerIds, id) /\ Closing # {} =>
                            Contains(unassignedServerIds', id)
<1>m. /\ None \notin Agents /\ \A s \in Sessions : s \in Threads /\ s # Rest
      /\ \A s \in Sessions : pc[s] \in {"addTake", "addPut"} => Closing = {}
  BY DEF Closing, Monitor, Locked, Threads
<1>p. pc \in [Threads -> SessionPcs \cup RestPcs]
      /\ serverId \in [Threads -> Servers \cup {None}]
  OBVIOUS
<1>1. ASSUME UNCHANGED registry,
             \A s \in Sessions : pc[s] = "addPut" => pc'[s] = pc[s] /\ serverId'[s] = serverId[s]
      PROVE  Kept
  BY <1>1
<1>2. ASSUME NEW s \in Sessions, AddWebSocketSession(s) PROVE Kept
  <2>1. \A r \in Sessions : pc[r] = "addPut" => pc'[r] = pc[r] /\ serverId'[r] = serverId[r]
    BY <1>2, <1>p DEF AddWebSocketSession, Threads
  <2>2. UNCHANGED <<serverIdIpPortMapping, unassignedServerIds>>
    BY <1>2 DEF AddWebSocketSession
  <2> QED
    BY <2>1, <2>2
<1>2a. ASSUME NEW s \in Sessions, TakeServerId(s) PROVE Kept
  <2>1. /\ pc[s] = "addTake" /\ pc' = [pc EXCEPT ![s] = "addPut"]
        /\ unassignedServerIds # << >> /\ UNCHANGED serverIdIpPortMapping
        /\ Closing = {}
    BY <1>2a, <1>m DEF TakeServerId, Monitor, Goto
  <2>2. PICK id \in Servers :
          /\ serverId' = [serverId EXCEPT ![s] = id]
          /\ \A x \in Servers : Contains(unassignedServerIds, x) =>
                x = id \/ Contains(unassignedServerIds', x)
    <3>1. /\ Head(unassignedServerIds) \in Servers
          /\ \A x \in Servers : Contains(unassignedServerIds, x) =>
                x = Head(unassignedServerIds) \/ Contains(Tail(unassignedServerIds), x)
          /\ \A i \in 1 .. Len(unassignedServerIds), x \in Servers :
                Contains(unassignedServerIds, x) /\ x # unassignedServerIds[i] =>
                    Contains(RemoveAt(unassignedServerIds, i), x)
      BY <2>1, ContainsTail, ContainsRemoveAt
    <3>2. CASE /\ serverId' = [serverId EXCEPT ![s] = Head(unassignedServerIds)]
               /\ unassignedServerIds' = Tail(unassignedServerIds)
      BY <3>1, <3>2
    <3>3. ASSUME NEW id \in ServersOf(ipPort[s]),
                 serverId' = [serverId EXCEPT ![s] = id],
                 \/ UNCHANGED unassignedServerIds
                 \/ \E i \in 1 .. Len(unassignedServerIds) :
                      /\ unassignedServerIds[i] = id
                      /\ unassignedServerIds' = RemoveAt(unassignedServerIds, i)
          PROVE  /\ id \in Servers
                 /\ serverId' = [serverId EXCEPT ![s] = id]
                 /\ \A x \in Servers : Contains(unassignedServerIds, x) =>
                       x = id \/ Contains(unassignedServerIds', x)
      BY <3>1, <3>3 DEF ServersOf
    <3> QED
      BY <1>2a, <3>2, <3>3 DEF TakeServerId
  <2>3. pc'[s] = "addPut" /\ serverId'[s] = id
    BY <2>1, <2>2, <1>m
  <2>4. \A r \in Sessions : pc[r] = "addPut" => pc'[r] = pc[r] /\ serverId'[r] = serverId[r]
    BY <2>1, <2>2
  <2> QED
    BY <2>1, <2>2, <2>3, <2>4
<1>2b. ASSUME NEW s \in Sessions, AddPutMapping(s) PROVE Kept
  <2>1. /\ serverId[s] \in Servers /\ ipPort[s] \in Agents /\ Closing = {}
        /\ serverIdIpPortMapping' = [serverIdIpPortMapping EXCEPT ![serverId[s]] = ipPort[s]]
        /\ unassignedServerIds' = unassignedServerIds /\ serverId' = serverId
        /\ \A r \in Sessions \ {s} : pc'[r] = pc[r]
    BY <1>2b, <1>m DEF AddPutMapping, HasServer, HasAgent, SessionPcs, locals
  <2> QED
    BY <2>1, <1>m
<1>3. ASSUME NEW id \in Servers,
             serverIdIpPortMapping' = serverIdIpPortMapping,
             unassignedServerIds' = Append(unassignedServerIds, id),
             \A s \in Sessions : pc[s] = "addPut" => pc'[s] = pc[s] /\ serverId'[s] = serverId[s]
      PROVE  Kept
  <2>1. \A x \in Servers :
          Contains(unassignedServerIds, x) => Contains(unassignedServerIds', x)
    BY <1>3, ContainsAppend
  <2> QED
    BY <1>3, <2>1
<1>4. ASSUME NEW s \in Sessions, RemoveWebSocketSession(s) PROVE Kept
  <2>1. \/ UNCHANGED unassignedServerIds
        \/ \E id \in Servers : unassignedServerIds' = Append(unassignedServerIds, id)
    BY <1>4 DEF RemoveWebSocketSession, ServersOf
  <2>2. /\ UNCHANGED serverIdIpPortMapping /\ UNCHANGED webSocketSessions
        /\ \A r \in Sessions : pc[r] = "addPut" => pc'[r] = pc[r] /\ serverId'[r] = serverId[r]
    <3>1. /\ pc[s] = "opened" /\ (\E l : pc' = [pc EXCEPT ![s] = l])
          /\ \/ UNCHANGED serverId
             \/ \E id : serverId' = [serverId EXCEPT ![s] = id]
          /\ UNCHANGED <<serverIdIpPortMapping, webSocketSessions>>
      BY <1>4 DEF RemoveWebSocketSession
    <3> QED
      BY <3>1, <1>p, <1>m
  <2> QED
    BY <1>1, <1>3, <2>1, <2>2
<1>5. ASSUME NEW s \in Sessions, RemoveMergeRow(s) PROVE Kept
  <2>1. Contains(unassignedServerIds, serverId[s]) /\ serverId[s] \in Servers
    BY <1>5 DEF RemoveMergeRow, CoverInv, HasServer, Threads
  <2>2. /\ serverIdIpPortMapping' = [serverIdIpPortMapping EXCEPT ![serverId[s]] = None]
        /\ unassignedServerIds' = unassignedServerIds
    BY <1>5 DEF RemoveMergeRow
  <2>3. \A r \in Sessions : pc[r] = "addPut" => pc'[r] = pc[r] /\ serverId'[r] = serverId[r]
    BY <1>5 DEF RemoveMergeRow, locals
  <2> QED
    BY <2>1, <2>2, <2>3
<1>6. ASSUME GenerateAdd PROVE Kept
  <2>1. serverId[Rest] \in Servers
    BY <1>6 DEF GenerateAdd, HasServer, Threads
  <2>2. \A r \in Sessions : pc'[r] = pc[r] /\ serverId'[r] = serverId[r]
    BY <1>6 DEF GenerateAdd, locals
  <2> QED
    BY <1>3, <1>6, <2>1, <2>2 DEF GenerateAdd
<1>7. ASSUME PutMapping PROVE Kept
  <2>1. serverId[Rest] \in Servers /\ ipPort[Rest] \in Agents /\ None \notin Agents
    BY <1>7 DEF PutMapping, HasServer, HasAgent, Threads
  <2>2. \A r \in Sessions : pc'[r] = pc[r] /\ serverId'[r] = serverId[r]
    BY <1>7 DEF PutMapping, locals
  <2> QED
    BY <1>7, <2>1, <2>2 DEF PutMapping
<1>8. Next => \/ /\ UNCHANGED registry
                 /\ \A s \in Sessions :
                      pc[s] = "addPut" => pc'[s] = pc[s] /\ serverId'[s] = serverId[s]
              \/ \E s \in Sessions : \/ AddWebSocketSession(s)
                                     \/ TakeServerId(s)
                                     \/ AddPutMapping(s)
                                     \/ RemoveWebSocketSession(s)
                                     \/ RemoveMergeRow(s)
              \/ GenerateAdd \/ PutMapping
  <2> DEFINE Calm == /\ UNCHANGED registry
                     /\ \A s \in Sessions :
                          pc[s] = "addPut" => pc'[s] = pc[s] /\ serverId'[s] = serverId[s]
  <2>1. Environment => Calm
    BY <1>p, <1>m DEF Environment, Connect, ConnectionLost, AgentRestart, locals
  <2>2. ASSUME NEW s \in Sessions,
               \/ AddReadRow(s) \/ AddMergeRow(s) \/ NewAgentSession(s) \/ RemoveReadRow(s)
        PROVE  Calm
    BY <2>2, <1>p, <1>m DEF AddReadRow, AddMergeRow, NewAgentSession, RemoveReadRow, locals
  <2>3. ASSUME NEW t \in Threads, Configure(t) PROVE Calm
    BY <2>3, <1>p, <1>m DEF Configure, ReadInitialConfig, SendInitialConfig,
                            SendMountRequest, locals
  <2>4. Request => Calm \/ GenerateAdd \/ PutMapping
    BY <1>p, <1>m
    DEF Request, StartSimulation, Generate, GenerateCheck, GenerateReadRow,
        GenerateMergeRow, SendInitialConfigAll, ListServers, AssignNext, AssignSession,
        StartDone, StopSimulation, StopCommit, locals
  <2> QED
    BY <2>1, <2>2, <2>3, <2>4 DEF Next, OnOpen, OnClose
<1>9. UNCHANGED vars => UNCHANGED registry /\ UNCHANGED <<pc, serverId>>
  BY DEF vars, locals
<1> QED
  BY <1>1, <1>2, <1>2a, <1>2b, <1>4, <1>5, <1>6, <1>7, <1>8, <1>9

LEMMA CoverStep == TypeInv /\ CoverInv /\ [Next]_vars => CoverInv'
<1> SUFFICES ASSUME TypeInv, CoverInv, [Next]_vars PROVE CoverInv'
  OBVIOUS
<1>k. /\ \A id \in Servers : Covered(id) => Covered(id)'
      /\ \A id \in Servers :
           Contains(unassignedServerIds, id) /\ Closing # {} =>
               Contains(unassignedServerIds', id)
  BY CoverageIsKept
<1>s. /\ \A t \in Threads : HasServer(t) => serverId[t] \in Servers
      /\ \A s \in Sessions : s \in Threads /\ s # Rest
      /\ Rest \in Threads
      /\ pc \in [Threads -> SessionPcs \cup RestPcs]
      /\ serverId \in [Threads -> Servers \cup {None}]
  BY DEF TypeInv, TypeOK, Locals, Threads
\* Rows: a new one belongs to an id that was covered.
<1>1. NoServerLost'
  <2>1. \A id \in Servers : rowIp'[id] # NoRow => rowIp[id] # NoRow \/ Covered(id)
    <3>1. CASE UNCHANGED rowIp
      BY <3>1
    <3>2. ASSUME NEW s \in Sessions, AddMergeRow(s) \/ RemoveMergeRow(s)
          PROVE  \A id \in Servers : rowIp'[id] # NoRow => rowIp[id] # NoRow \/ Covered(id)
      BY <3>2, <1>s DEF AddMergeRow, RemoveMergeRow, CoverInv, Covered, TypeInv, TypeOK
    <3>3. ASSUME GenerateMergeRow
          PROVE  \A id \in Servers : rowIp'[id] # NoRow => rowIp[id] # NoRow \/ Covered(id)
      BY <3>3, <1>s DEF GenerateMergeRow, CoverInv, Covered, TypeInv, TypeOK
    <3>4. ASSUME StopCommit
          PROVE  \A id \in Servers : rowIp'[id] # NoRow => rowIp[id] # NoRow \/ Covered(id)
      BY <3>4 DEF StopCommit
    <3> QED
      BY <3>1, <3>2, <3>3, <3>4
      DEF Next, vars, database, Environment, Connect, ConnectionLost, AgentRestart, OnOpen,
          AddWebSocketSession, TakeServerId, AddPutMapping, AddReadRow, NewAgentSession,
          OnClose, RemoveWebSocketSession, RemoveReadRow, Configure,
          ReadInitialConfig, SendInitialConfig, SendMountRequest, Request,
          StartSimulation, Generate, GenerateCheck, GenerateAdd, GenerateReadRow,
          SendInitialConfigAll, ListServers, AssignNext, PutMapping, AssignSession,
          StartDone, StopSimulation
  <2> QED
    BY <2>1, <1>k DEF NoServerLost, CoverInv, Covered
\* A session thread enters addRow with the id it has just mapped.
<1>2. ASSUME NEW s \in Sessions, pc'[s] \in {"addRow", "addMerge"}
      PROVE  Covered(serverId[s])'
  <2>1. CASE AddPutMapping(s)
    BY <2>1, <1>s DEF AddPutMapping, Covered, TypeInv, TypeOK, Locals, HasAgent, HasServer,
                      SessionPcs, locals
  <2>2. CASE /\ serverId'[s] = serverId[s]
             /\ pc[s] \in {"addRow", "addMerge"}
    BY <2>2, <1>k, <1>s DEF CoverInv, Covered, HasServer
  <2>3. AddPutMapping(s) \/ (/\ serverId'[s] = serverId[s]
                             /\ pc[s] \in {"addRow", "addMerge"})
    <3>1. CASE Environment \/ UNCHANGED vars
      BY <1>2, <1>s, <3>1
      DEF vars, locals, Goto, Environment, Connect, ConnectionLost, AgentRestart
    <3>2. ASSUME NEW r \in Sessions, OnOpen(r) \/ OnClose(r)
          PROVE  \/ AddPutMapping(s)
                 \/ serverId'[s] = serverId[s] /\ pc[s] \in {"addRow", "addMerge"}
      BY <1>2, <1>s, <3>2
      DEF locals, Goto, OnOpen, AddWebSocketSession, TakeServerId, AddPutMapping, AddReadRow,
          AddMergeRow, NewAgentSession, OnClose, RemoveWebSocketSession, RemoveReadRow,
          RemoveMergeRow
    <3>3. ASSUME NEW t \in Threads, Configure(t)
          PROVE  \/ AddPutMapping(s)
                 \/ serverId'[s] = serverId[s] /\ pc[s] \in {"addRow", "addMerge"}
      BY <1>2, <1>s, <3>3
      DEF locals, Goto, Configure, ReadInitialConfig, SendInitialConfig, SendMountRequest
    <3>4. CASE Request
      BY <1>2, <1>s, <3>4
      DEF locals, Goto, Request, StartSimulation, Generate, GenerateCheck, GenerateAdd,
          GenerateReadRow, GenerateMergeRow, SendInitialConfigAll, ListServers, AssignNext,
          PutMapping, AssignSession, StartDone, StopSimulation, StopCommit
    <3> QED
      BY <3>1, <3>2, <3>3, <3>4 DEF Next
  <2> QED
    BY <2>1, <2>2, <2>3
\* ... and rmRow with the id it has just put in the list.
<1>3. ASSUME NEW s \in Sessions, pc'[s] \in {"rmRow", "rmMerge"}
      PROVE  Contains(unassignedServerIds, serverId[s])'
  <2>1. CASE RemoveWebSocketSession(s)
    <3>1. PICK id \in Servers :
            /\ serverId' = [serverId EXCEPT ![s] = id]
            /\ unassignedServerIds' =
                 IF Contains(unassignedServerIds, id) THEN unassignedServerIds
                 ELSE Append(unassignedServerIds, id)
      BY <2>1, <1>3, <1>s DEF RemoveWebSocketSession, Goto, ServersOf
    <3>2. Contains(unassignedServerIds', id)
      BY <3>1, ContainsAppend DEF TypeInv, TypeOK
    <3> QED
      BY <3>1, <3>2, <1>s
  <2>2. CASE serverId'[s] = serverId[s] /\ pc[s] \in {"rmRow", "rmMerge"}
    BY <2>2, <1>k, <1>s DEF CoverInv, HasServer, Closing
  <2>3. RemoveWebSocketSession(s)
          \/ (serverId'[s] = serverId[s] /\ pc[s] \in {"rmRow", "rmMerge"})
    <3>1. CASE Environment \/ UNCHANGED vars
      BY <1>3, <1>s, <3>1
      DEF vars, locals, Goto, Environment, Connect, ConnectionLost, AgentRestart
    <3>2. ASSUME NEW r \in Sessions, OnOpen(r) \/ OnClose(r)
          PROVE  \/ RemoveWebSocketSession(s)
                 \/ serverId'[s] = serverId[s] /\ pc[s] \in {"rmRow", "rmMerge"}
      BY <1>3, <1>s, <3>2
      DEF locals, Goto, OnOpen, AddWebSocketSession, TakeServerId, AddPutMapping, AddReadRow,
          AddMergeRow, NewAgentSession, OnClose, RemoveWebSocketSession, RemoveReadRow,
          RemoveMergeRow
    <3>3. ASSUME NEW t \in Threads, Configure(t)
          PROVE  \/ RemoveWebSocketSession(s)
                 \/ serverId'[s] = serverId[s] /\ pc[s] \in {"rmRow", "rmMerge"}
      BY <1>3, <1>s, <3>3
      DEF locals, Goto, Configure, ReadInitialConfig, SendInitialConfig, SendMountRequest
    <3>4. CASE Request
      BY <1>3, <1>s, <3>4
      DEF locals, Goto, Request, StartSimulation, Generate, GenerateCheck, GenerateAdd,
          GenerateReadRow, GenerateMergeRow, SendInitialConfigAll, ListServers, AssignNext,
          PutMapping, AssignSession, StartDone, StopSimulation, StopCommit
    <3> QED
      BY <3>1, <3>2, <3>3, <3>4 DEF Next
  <2> QED
    BY <2>1, <2>2, <2>3
\* The request reaches genRow with an id that is, or has just been put, there.
<1>4. ASSUME pc'[Rest] \in {"genRow", "genMerge"} PROVE Covered(serverId[Rest])'
  <2>1. CASE GenerateCheck
    <3>1. Dump[next] \in Servers
      BY <2>1 DEF GenerateCheck, TypeInv, Locals
    <3> QED
      BY <2>1, <1>4, <3>1, <1>s DEF GenerateCheck, Goto, Covered, registry
  <2>2. CASE GenerateAdd
    <3>1. serverId[Rest] \in Servers
      BY <2>2, <1>s DEF GenerateAdd, HasServer
    <3> QED
      BY <2>2, <3>1, ContainsAppend DEF GenerateAdd, Covered, TypeInv, TypeOK, locals
  <2>3. CASE serverId'[Rest] = serverId[Rest] /\ pc[Rest] \in {"genRow", "genMerge"}
    BY <2>3, <1>k, <1>s DEF CoverInv, Covered, HasServer
  <2>4. \/ GenerateCheck \/ GenerateAdd
        \/ serverId'[Rest] = serverId[Rest] /\ pc[Rest] \in {"genRow", "genMerge"}
    <3>1. CASE Environment \/ UNCHANGED vars
      BY <1>4, <1>s, <3>1
      DEF vars, locals, Goto, Environment, Connect, ConnectionLost, AgentRestart
    <3>2. ASSUME NEW r \in Sessions, OnOpen(r) \/ OnClose(r)
          PROVE  serverId'[Rest] = serverId[Rest] /\ pc[Rest] \in {"genRow", "genMerge"}
      BY <1>4, <1>s, <3>2
      DEF locals, Goto, OnOpen, AddWebSocketSession, TakeServerId, AddPutMapping, AddReadRow,
          AddMergeRow, NewAgentSession, OnClose, RemoveWebSocketSession, RemoveReadRow,
          RemoveMergeRow
    <3>3. ASSUME NEW t \in Threads, Configure(t)
          PROVE  serverId'[Rest] = serverId[Rest] /\ pc[Rest] \in {"genRow", "genMerge"}
      BY <1>4, <1>s, <3>3
      DEF locals, Goto, Configure, ReadInitialConfig, SendInitialConfig, SendMountRequest
    <3>4. CASE Request
      BY <1>4, <1>s, <3>4
      DEF locals, Goto, Request, StartSimulation, Generate, GenerateCheck, GenerateAdd,
          GenerateReadRow, GenerateMergeRow, SendInitialConfigAll, ListServers, AssignNext,
          PutMapping, AssignSession, StartDone, StopSimulation, StopCommit
    <3> QED
      BY <3>1, <3>2, <3>3, <3>4 DEF Next
  <2> QED
    BY <2>1, <2>2, <2>3, <2>4
<1> QED
  BY <1>1, <1>2, <1>3, <1>4 DEF CoverInv

\* Whatever callbacks and requests overlap, every server of the simulation has
\* an agent or waits for one.
THEOREM ServersAreKept == Spec => []NoServerLost
<1>1. Init => CoverInv
  BY DEF Init, CoverInv, NoServerLost, Threads
<1>2. Spec => []TypeInv
  BY TypeInit, TypeStep, PTL DEF Spec
<1>3. Spec => []CoverInv
  BY <1>1, <1>2, CoverStep, PTL DEF Spec
<1>4. CoverInv => NoServerLost
  BY DEF CoverInv
<1> QED
  BY <1>3, <1>4, PTL

-----------------------------------------------------------------------------
(* A connected agent is reachable.                                         *)

Active(s) == pc[s] \notin {"unused", "closed"}

\* An agent that waits for the close of its old session before it is back has
\* one active session at a time, so no closing handler removes a newer one.
ReachInv ==
    /\ \A s, t \in Sessions : Active(s) /\ Active(t) /\ ipPort[s] = ipPort[t] => s = t
    /\ \A a \in Agents : alive[a] # None => Active(alive[a]) /\ ipPort[alive[a]] = a
    /\ \A s \in Sessions : pc[s] \in {"rmRow", "rmMerge"} => alive[ipPort[s]] # s
    /\ \A a \in Agents :
         alive[a] # None /\ pc[alive[a]] # "onOpen" => webSocketSessions[a] = alive[a]

\* A session that goes on, other than to be closed while its agent is connected
\* by it, changes nothing.
LEMMA ReachGoOn ==
    ASSUME TypeInv, ReachInv, NEW s \in Sessions,
           UNCHANGED <<webSocketSessions, alive, ipPort>>,
           \A r \in Sessions \ {s} : pc'[r] = pc[r],
           Active(s), pc[s] # "onOpen", pc'[s] \notin {"unused", "onOpen"},
           pc'[s] \in {"rmRow", "rmMerge", "closed"} => alive[ipPort[s]] # s
    PROVE  ReachInv'
<1>1. \A r \in Sessions : Active(r)' => Active(r)
  BY DEF Active
<1>2. (\A r, t \in Sessions : Active(r) /\ Active(t) /\ ipPort[r] = ipPort[t] => r = t)'
  BY <1>1 DEF ReachInv
<1>3. (\A a \in Agents : alive[a] # None => Active(alive[a]) /\ ipPort[alive[a]] = a)'
  <2> SUFFICES ASSUME NEW a \in Agents, alive[a] # None
               PROVE  Active(alive[a])' /\ ipPort[alive[a]] = a
    OBVIOUS
  <2>1. alive[a] \in Sessions /\ Active(alive[a]) /\ ipPort[alive[a]] = a
    BY DEF ReachInv, TypeInv, TypeOK
  <2> QED
    BY <2>1 DEF Active
<1>4. (\A r \in Sessions : pc[r] \in {"rmRow", "rmMerge"} => alive[ipPort[r]] # r)'
  BY DEF ReachInv
<1>5. (\A a \in Agents :
         alive[a] # None /\ pc[alive[a]] # "onOpen" => webSocketSessions[a] = alive[a])'
  BY DEF ReachInv, TypeInv, TypeOK
<1> QED
  BY <1>2, <1>3, <1>4, <1>5 DEF ReachInv

LEMMA ReachStep ==
    ASSUME ~LateClose, TypeInv, ReachInv, [Next]_vars
    PROVE  ReachInv'
<1> USE DEF TypeInv, TypeOK, Locals, HasAgent, Threads, SessionPcs, ReachInv, Active, Goto
<1>1. ASSUME NEW a \in Agents, NEW s \in Sessions, Connect(a, s) PROVE ReachInv'
  <2>1. /\ alive[a] = None /\ alive' = [alive EXCEPT ![a] = s]
        /\ ipPort' = [ipPort EXCEPT ![s] = a] /\ pc' = [pc EXCEPT ![s] = "onOpen"]
        /\ pc[s] = "unused" /\ webSocketSessions' = webSocketSessions
        /\ \A old \in Sessions : ipPort[old] = a => pc[old] = "closed"
    BY <1>1 DEF Connect, registry
  <2>2. \A b \in Agents : alive[b] # s
    BY <2>1
  <2> QED
    BY <2>1, <2>2
<1>2. ASSUME NEW a \in Agents, ConnectionLost(a) PROVE ReachInv'
  BY <1>2 DEF ConnectionLost, registry, locals
<1>p. pc \in [Threads -> SessionPcs \cup RestPcs] /\ None \notin Agents \cup Sessions
  OBVIOUS
<1>3. ASSUME NEW s \in Sessions, AddWebSocketSession(s) PROVE ReachInv'
  <2>1. /\ pc[s] = "onOpen" /\ ipPort[s] \in Agents /\ ipPort' = ipPort /\ alive' = alive
        /\ webSocketSessions' = [webSocketSessions EXCEPT ![ipPort[s]] = s]
        /\ pc'[s] \in {"greet", "addTake", "opened"} /\ \A r \in Sessions \ {s} : pc'[r] = pc[r]
    BY <1>3 DEF AddWebSocketSession, agents
  <2>2. \A r \in Sessions : Active(r)' <=> Active(r)
    BY <2>1, <1>p
  <2>3. (\A r \in Sessions : pc[r] \in {"rmRow", "rmMerge"} => alive[ipPort[r]] # r)'
    BY <2>1
  <2>4. (\A a \in Agents :
           alive[a] # None /\ pc[alive[a]] # "onOpen" => webSocketSessions[a] = alive[a])'
    <3> SUFFICES ASSUME NEW a \in Agents, alive[a] # None, pc'[alive[a]] # "onOpen"
                 PROVE  webSocketSessions'[a] = alive[a]
      BY <2>1
    <3>1. alive[a] \in Sessions /\ Active(alive[a]) /\ ipPort[alive[a]] = a
      OBVIOUS
    <3>2. CASE alive[a] = s
      BY <2>1, <3>1, <3>2
    <3>3. CASE alive[a] # s
      <4>1. a # ipPort[s]
        BY <2>1, <3>1, <3>3
      <4> QED
        BY <2>1, <3>1, <3>3, <4>1
    <3> QED
      BY <3>2, <3>3
  <2>5. (\A a \in Agents : alive[a] # None => Active(alive[a]) /\ ipPort[alive[a]] = a)'
    BY <2>1, <2>2
  <2> HIDE DEF Active
  <2>6. (\A r, t \in Sessions : Active(r) /\ Active(t) /\ ipPort[r] = ipPort[t] => r = t)'
    BY <2>1, <2>2
  <2> QED
    BY <2>3, <2>4, <2>5, <2>6
<1>4. ASSUME NEW s \in Sessions, RemoveWebSocketSession(s) \/ RemoveReadRow(s)
      PROVE  ReachInv'
  <2>1. /\ UNCHANGED <<webSocketSessions, alive, ipPort>>
        /\ \A r \in Sessions \ {s} : pc'[r] = pc[r]
        /\ Active(s) /\ pc[s] # "onOpen" /\ pc'[s] \notin {"unused", "onOpen"}
        /\ pc'[s] \in {"rmRow", "rmMerge", "closed"} => alive[ipPort[s]] # s
    BY <1>4 DEF RemoveWebSocketSession, RemoveReadRow, agents, locals, registry
  <2> QED
    BY <2>1, ReachGoOn
<1>5. ASSUME NEW s \in Sessions, RemoveMergeRow(s) PROVE ReachInv'
  <2>1. /\ pc[s] = "rmMerge" /\ ipPort[s] \in Agents
        /\ ipPort' = ipPort /\ alive' = alive
        /\ webSocketSessions' = [webSocketSessions EXCEPT ![ipPort[s]] = None]
        /\ pc' = [pc EXCEPT ![s] = "closed"]
    BY <1>5 DEF RemoveMergeRow, agents, locals
  <2>2. alive[ipPort[s]] = None
    <3>1. \A a \in Agents : alive[a] # None =>
             alive[a] \in Sessions /\ Active(alive[a]) /\ ipPort[alive[a]] = a
      OBVIOUS
    <3>2. Active(s) /\ alive[ipPort[s]] # s
      BY <2>1
    <3> HIDE DEF Active
    <3> QED
      BY <2>1, <3>1, <3>2
  <2>3. \A r \in Sessions : Active(r)' => Active(r) /\ r # s /\ pc'[r] = pc[r]
    BY <2>1, <1>p
  <2>4. (\A r \in Sessions : pc[r] \in {"rmRow", "rmMerge"} => alive[ipPort[r]] # r)'
    BY <2>1, <1>p
  <2>5. (\A a \in Agents : alive[a] # None => Active(alive[a]) /\ ipPort[alive[a]] = a)'
    <3> SUFFICES ASSUME NEW a \in Agents, alive[a] # None
                 PROVE  Active(alive[a])' /\ ipPort[alive[a]] = a
      BY <2>1
    <3>1. alive[a] \in Sessions /\ Active(alive[a]) /\ ipPort[alive[a]] = a /\ alive[a] # s
      BY <2>1, <2>2
    <3> QED
      BY <2>1, <3>1
  <2>6. (\A a \in Agents :
           alive[a] # None /\ pc[alive[a]] # "onOpen" => webSocketSessions[a] = alive[a])'
    <3> SUFFICES ASSUME NEW a \in Agents, alive[a] # None, pc'[alive[a]] # "onOpen"
                 PROVE  webSocketSessions'[a] = alive[a]
      BY <2>1
    <3>1. alive[a] \in Sessions /\ alive[a] # s /\ a # ipPort[s]
      BY <2>1, <2>2
    <3> QED
      BY <2>1, <3>1
  <2>7. (\A r, t \in Sessions : Active(r) /\ Active(t) /\ ipPort[r] = ipPort[t] => r = t)'
    BY <2>1, <2>3
  <2> QED
    BY <2>4, <2>5, <2>6, <2>7
<1>6. ASSUME NEW s \in Sessions,
             \/ TakeServerId(s) \/ AddPutMapping(s) \/ AddReadRow(s) \/ AddMergeRow(s)
             \/ NewAgentSession(s)
      PROVE  ReachInv'
  <2>1. /\ UNCHANGED <<webSocketSessions, alive, ipPort>>
        /\ \A r \in Sessions \ {s} : pc'[r] = pc[r]
        /\ Active(s) /\ pc[s] # "onOpen" /\ pc'[s] \notin {"unused", "onOpen"}
        /\ pc'[s] \in {"rmRow", "rmMerge", "closed"} => alive[ipPort[s]] # s
    BY <1>6 DEF TakeServerId, AddPutMapping, AddReadRow, AddMergeRow, NewAgentSession,
                agents, locals, registry
  <2> QED
    BY <2>1, ReachGoOn
<1>7. ASSUME NEW s \in Sessions, Configure(s)
      PROVE  ReachInv'
  <2>1. /\ UNCHANGED <<webSocketSessions, alive, ipPort>>
        /\ \A r \in Sessions \ {s} : pc'[r] = pc[r]
        /\ Active(s) /\ pc[s] # "onOpen" /\ pc'[s] \notin {"unused", "onOpen"}
        /\ pc'[s] \in {"rmRow", "rmMerge", "closed"} => alive[ipPort[s]] # s
    BY <1>7 DEF Configure, ReadInitialConfig, SendInitialConfig, SendMountRequest, agents, locals, registry
  <2> QED
    BY <2>1, ReachGoOn
<1>9. ASSUME UNCHANGED <<webSocketSessions, alive>>,
             \A s \in Sessions : pc'[s] = pc[s] /\ ipPort'[s] = ipPort[s]
      PROVE  ReachInv'
  BY <1>9
<1>10. ASSUME \/ Request \/ Configure(Rest) \/ UNCHANGED vars
              \/ \E a \in Agents : AgentRestart(a)
       PROVE  /\ UNCHANGED <<webSocketSessions, alive>>
              /\ \A s \in Sessions : pc'[s] = pc[s] /\ ipPort'[s] = ipPort[s]
  BY <1>10
  DEF vars, registry, agents, locals, AgentRestart, Configure, ReadInitialConfig,
      SendInitialConfig, SendMountRequest, Request, StartSimulation, Generate,
      GenerateCheck, GenerateAdd, GenerateReadRow, GenerateMergeRow, SendInitialConfigAll,
      ListServers, AssignNext, PutMapping, AssignSession, StartDone, StopSimulation, StopCommit
<1> QED
  BY <1>1, <1>2, <1>3, <1>4, <1>5, <1>6, <1>7, <1>9, <1>10
  DEF Threads, Next, Environment, OnOpen, OnClose

\* Whatever requests overlap, an agent that comes back only after the close of
\* its old session has been handled is reachable once it has been welcomed.
THEOREM AgentsAreReachable == ~LateClose => (Spec => []ConnectedIsReachable)
<1> SUFFICES ASSUME ~LateClose PROVE Spec => []ConnectedIsReachable
  OBVIOUS
<1>1. Init => ReachInv
  BY DEF Init, ReachInv, Active, Threads
<1>2. Spec => []TypeInv
  BY TypeInit, TypeStep, PTL DEF Spec
<1>3. TypeInv /\ ReachInv /\ [Next]_vars => ReachInv'
  BY ReachStep
<1>4. Spec => []ReachInv
  BY <1>1, <1>2, <1>3, PTL DEF Spec
<1>5. ReachInv => ConnectedIsReachable
  BY DEF ReachInv, ConnectedIsReachable
<1> QED
  BY <1>4, <1>5, PTL

-----------------------------------------------------------------------------
(* While callbacks and requests do not overlap, the controller's registry  *)
(* is consistent and implements AgentRegistry.                             *)

LEMMA NoDuplicatesAppend ==
    ASSUME NEW q \in Seq(Servers), NEW e \in Servers, ~Contains(q, e),
           \A i, j \in 1 .. Len(q) : q[i] = q[j] => i = j
    PROVE  \A i, j \in 1 .. Len(Append(q, e)) :
               Append(q, e)[i] = Append(q, e)[j] => i = j
<1>1. Len(Append(q, e)) = Len(q) + 1 /\ Append(q, e)[Len(q) + 1] = e
      /\ Len(q) \in Nat /\ \A i \in 1 .. Len(q) : Append(q, e)[i] = q[i]
  OBVIOUS
<1>2. \A i \in 1 .. Len(q) : q[i] # e
  BY DEF Contains
<1> QED
  BY <1>1, <1>2

LEMMA NoDuplicatesTail ==
    ASSUME NEW q \in Seq(Servers), q # << >>,
           \A i, j \in 1 .. Len(q) : q[i] = q[j] => i = j
    PROVE  /\ \A i, j \in 1 .. Len(Tail(q)) : Tail(q)[i] = Tail(q)[j] => i = j
           /\ ~Contains(Tail(q), Head(q))
<1>1. /\ Len(q) \in Nat \ {0} /\ Len(Tail(q)) = Len(q) - 1 /\ Head(q) = q[1]
      /\ \A i \in 1 .. Len(Tail(q)) : Tail(q)[i] = q[i + 1]
  OBVIOUS
<1>2. ASSUME NEW i \in 1 .. Len(Tail(q)), NEW j \in 1 .. Len(Tail(q)), Tail(q)[i] = Tail(q)[j]
      PROVE  i = j
  <2>1. i + 1 \in 1 .. Len(q) /\ j + 1 \in 1 .. Len(q) /\ q[i + 1] = q[j + 1]
    BY <1>1, <1>2
  <2>2. i + 1 = j + 1
    BY <2>1
  <2> QED
    BY <1>1, <2>2
<1>3. \A i \in 1 .. Len(Tail(q)) : Tail(q)[i] # Head(q)
  BY <1>1
<1> QED
  BY <1>2, <1>3 DEF Contains

\* No handler is inside the monitor while a request takes a step.
LEMMA RequestIsAlone ==
    ASSUME ~Overlap, TypeInv, SerialInv, Request
    PROVE  /\ Locked = {} /\ Adding = {} /\ Removing = {}
           /\ Locked' = {} /\ Adding' = {} /\ Removing' = {} /\ Putting' = {} /\ Taking' = {}
           /\ \A t \in Sessions : /\ pc'[t] = pc[t] /\ pc[t] \in QuietPcs
                                  /\ serverId'[t] = serverId[t] /\ ipPort'[t] = ipPort[t]
<1>1. \A t \in Sessions : pc'[t] = pc[t] /\ serverId'[t] = serverId[t] /\ ipPort'[t] = ipPort[t]
  BY DEF TypeInv, TypeOK, Threads, Request, Generate, SendInitialConfigAll, StartSimulation,
         GenerateCheck, GenerateAdd, GenerateReadRow, GenerateMergeRow, ListServers,
         AssignNext, PutMapping, AssignSession, StartDone, StopSimulation, StopCommit,
         Goto, locals
<1>2. \A t \in Sessions : pc[t] \in QuietPcs
  BY DEF SerialInv, MutualExclusion, QuietPcs, MayRequest, Request, Generate,
         SendInitialConfigAll, StartSimulation, GenerateCheck, GenerateAdd, GenerateReadRow,
         GenerateMergeRow, ListServers, AssignNext, PutMapping, AssignSession, StartDone,
         StopSimulation, StopCommit
<1> QED
  BY <1>1, <1>2 DEF Locked, Adding, Removing, Taking, Putting, QuietPcs

\* The handler inside the monitor is the only one there, and no request runs.
LEMMA InsideIsAlone ==
    ASSUME TypeInv, SerialInv, NEW s \in Locked
    PROVE  Locked = {s} /\ pc[Rest] = "idle"
  BY DEF SerialInv, MutualExclusion, Locked, QuietPcs

\* The agent that takes an id has none, and takes the first one of the list.
LEMMA TakeIsHead ==
    ASSUME TypeInv, SerialInv, NEW s \in Sessions, TakeServerId(s)
    PROVE  /\ Locked = {s} /\ Taking = {s} /\ pc[Rest] = "idle"
           /\ pc[s] = "addTake" /\ pc' = [pc EXCEPT ![s] = "addPut"]
           /\ unassignedServerIds # << >> /\ ServersOf(ipPort[s]) = {}
           /\ unassignedServerIds' = Tail(unassignedServerIds)
           /\ serverId' = [serverId EXCEPT ![s] = Head(unassignedServerIds)]
           /\ UNCHANGED <<webSocketSessions, serverIdIpPortMapping, database, ipPort, readIp>>
<1>1. /\ pc[s] = "addTake" /\ pc' = [pc EXCEPT ![s] = "addPut"]
      /\ UNCHANGED <<webSocketSessions, serverIdIpPortMapping, database, ipPort, readIp>>
  BY DEF TakeServerId, Goto
<1>2. s \in Locked /\ s \in Taking
  BY <1>1 DEF Locked, Taking
<1>3. Locked = {s} /\ pc[Rest] = "idle"
  BY <1>2, InsideIsAlone
<1>4. Taking = {s}
  BY <1>2, <1>3 DEF Locked, Taking
<1>5. ServersOf(ipPort[s]) = {} /\ unassignedServerIds # << >>
  BY <1>2 DEF SerialInv, MappingInv, ListInv
<1>6. /\ unassignedServerIds' = Tail(unassignedServerIds)
      /\ serverId' = [serverId EXCEPT ![s] = Head(unassignedServerIds)]
  BY <1>5 DEF TakeServerId
<1> QED
  BY <1>1, <1>3, <1>4, <1>5, <1>6

LEMMA PutIsAlone ==
    ASSUME TypeInv, SerialInv, NEW s \in Sessions, AddPutMapping(s)
    PROVE  /\ Locked = {s} /\ s \in Putting /\ s \in Adding /\ pc[Rest] = "idle"
           /\ ipPort[s] \in Agents /\ serverId[s] \in Servers
           /\ ServersOf(ipPort[s]) = {} /\ webSocketSessions[ipPort[s]] # None
           /\ pc' = [pc EXCEPT ![s] = "addRow"]
           /\ serverIdIpPortMapping' =
                [serverIdIpPortMapping EXCEPT ![serverId[s]] = ipPort[s]]
           /\ UNCHANGED <<webSocketSessions, unassignedServerIds, database, locals>>
<1>1. /\ pc[s] = "addPut" /\ pc' = [pc EXCEPT ![s] = "addRow"]
      /\ serverIdIpPortMapping' =
           [serverIdIpPortMapping EXCEPT ![serverId[s]] = ipPort[s]]
      /\ UNCHANGED <<webSocketSessions, unassignedServerIds, database, locals>>
  BY DEF AddPutMapping, Goto
<1>2. s \in Locked /\ s \in Putting /\ s \in Adding
  BY <1>1 DEF Locked, Putting, Adding
<1>3. Locked = {s} /\ pc[Rest] = "idle"
  BY <1>2, InsideIsAlone
<1>4. ServersOf(ipPort[s]) = {} /\ webSocketSessions[ipPort[s]] # None
  BY <1>2 DEF SerialInv, MappingInv
<1>5. ipPort[s] \in Agents /\ serverId[s] \in Servers
  BY <1>1 DEF TypeInv, Locals, HasServer, HasAgent, Threads, SessionPcs
<1> QED
  BY <1>1, <1>2, <1>3, <1>4, <1>5

\* What the reading of a configuration changes.
ReadsConfig(t) ==
    /\ pc[t] = "configRead"
    /\ \E l \in {"configSend", "mount"} : pc' = [pc EXCEPT ![t] = l]
    /\ readIp' = [readIp EXCEPT ![t] = serverIdIpPortMapping[serverId[t]]]
    /\ UNCHANGED <<registry, database, mounted, serverId, ipPort, request, agents>>

LEMMA ConfigIsRead ==
    ASSUME NEW t \in Threads, ReadInitialConfig(t)
    PROVE  ReadsConfig(t)
  BY DEF ReadInitialConfig, ReadsConfig, Goto

-----------------------------------------------------------------------------
(* SerialInv is inductive: one lemma per part, one step per action.        *)

\* A handler starts only when no request runs, and a request only when no handler does.
LEMMA MutualExclusionStep ==
    ASSUME ~Overlap, TypeInv, SerialInv, Next
    PROVE  MutualExclusion'
<1> USE DEF TypeInv, TypeOK, Locals, HasServer, HasAgent, Threads, SessionPcs, RestPcs,
            Goto, registry, database, request, agents, locals, QuietPcs, Locked, Taking,
            Putting, Adding, Removing, Generating, MayCallBack, MayRequest, ServersOf, Assigned, SerialInv,
            MutualExclusion, MappingInv, ListInv, RowInv, OneServerPerAgent,
            AssignedHasSession, NoDuplicates, RowFollowsMapping
<1>1. ASSUME NEW a \in Agents, NEW s \in Sessions, Connect(a, s) PROVE MutualExclusion'
  BY <1>1 DEF Connect
<1>2. ASSUME NEW a \in Agents, ConnectionLost(a) PROVE MutualExclusion'
  BY <1>2 DEF ConnectionLost
<1>3. ASSUME NEW a \in Agents, AgentRestart(a) PROVE MutualExclusion'
  BY <1>3 DEF AgentRestart
<1>4. ASSUME NEW s \in Sessions, AddWebSocketSession(s) PROVE MutualExclusion'
  BY <1>4 DEF AddWebSocketSession
<1>4a. ASSUME NEW s \in Sessions, TakeServerId(s) PROVE MutualExclusion'
  BY <1>4a DEF TakeServerId
<1>4b. ASSUME NEW s \in Sessions, AddPutMapping(s) PROVE MutualExclusion'
  BY <1>4b DEF AddPutMapping
<1>5. ASSUME NEW s \in Sessions, AddReadRow(s) PROVE MutualExclusion'
  BY <1>5 DEF AddReadRow
<1>6. ASSUME NEW s \in Sessions, AddMergeRow(s) PROVE MutualExclusion'
  BY <1>6 DEF AddMergeRow
<1>7. ASSUME NEW s \in Sessions, NewAgentSession(s) PROVE MutualExclusion'
  BY <1>7 DEF NewAgentSession
<1>8. ASSUME NEW s \in Sessions, RemoveWebSocketSession(s) PROVE MutualExclusion'
  BY <1>8 DEF RemoveWebSocketSession
<1>9. ASSUME NEW s \in Sessions, RemoveReadRow(s) PROVE MutualExclusion'
  BY <1>9 DEF RemoveReadRow
<1>10. ASSUME NEW s \in Sessions, RemoveMergeRow(s) PROVE MutualExclusion'
  BY <1>10 DEF RemoveMergeRow
<1>11. ASSUME NEW t \in Threads, ReadInitialConfig(t) PROVE MutualExclusion'
  <2>1. ReadsConfig(t)
    BY <1>11, ConfigIsRead
  <2> QED
    BY <2>1 DEF ReadsConfig
<1>12. ASSUME NEW t \in Threads, SendInitialConfig(t) PROVE MutualExclusion'
  BY <1>12 DEF SendInitialConfig
<1>13. ASSUME NEW t \in Threads, SendMountRequest(t) PROVE MutualExclusion'
  BY <1>13 DEF SendMountRequest
<1>14. ASSUME StartSimulation PROVE MutualExclusion'
  BY <1>14 DEF StartSimulation
<1>15. ASSUME GenerateCheck PROVE MutualExclusion'
  BY <1>15 DEF GenerateCheck
<1>16. ASSUME GenerateAdd PROVE MutualExclusion'
  BY <1>16 DEF GenerateAdd
<1>17. ASSUME GenerateReadRow PROVE MutualExclusion'
  BY <1>17 DEF GenerateReadRow
<1>18. ASSUME GenerateMergeRow PROVE MutualExclusion'
  <2>1. Locked' = Locked /\ \A s \in Sessions : pc'[s] = pc[s]
    BY <1>18 DEF GenerateMergeRow
  <2>2. pc[Rest] = "genMerge"
    BY <1>18 DEF GenerateMergeRow
  <2> QED
    BY <2>1, <2>2
<1>19. ASSUME ListServers PROVE MutualExclusion'
  BY <1>19 DEF ListServers
<1>20. ASSUME AssignNext PROVE MutualExclusion'
  <2>1. pc[Rest] # "idle" /\ pc'[Rest] # "idle"
    BY <1>20 DEF AssignNext
  <2> QED
    BY <1>20, <2>1, RequestIsAlone DEF Request, SendInitialConfigAll
<1>21. ASSUME PutMapping PROVE MutualExclusion'
  BY <1>21 DEF PutMapping
<1>22. ASSUME AssignSession PROVE MutualExclusion'
  BY <1>22 DEF AssignSession
<1>23. ASSUME StartDone PROVE MutualExclusion'
  BY <1>23 DEF StartDone
<1>24. ASSUME StopSimulation PROVE MutualExclusion'
  BY <1>24 DEF StopSimulation
<1>25. ASSUME StopCommit PROVE MutualExclusion'
  BY <1>25 DEF StopCommit
<1> QED
  BY <1>1, <1>2, <1>3, <1>4, <1>4a, <1>4b, <1>5, <1>6, <1>7, <1>8, <1>9, <1>10, <1>11, <1>12, <1>13,
     <1>14, <1>15, <1>16, <1>17, <1>18, <1>19, <1>20, <1>21, <1>22, <1>23, <1>24, <1>25
  DEF Next, Environment, OnOpen, OnClose, Configure, Request, Generate,
      SendInitialConfigAll

\* The mapping changes only for an agent that has no server id, or to none.
LEMMA MappingInvStep ==
    ASSUME ~Overlap, TypeInv, SerialInv, Next
    PROVE  MappingInv'
<1> USE DEF TypeInv, TypeOK, Locals, HasServer, HasAgent, Threads, SessionPcs, RestPcs,
            Goto, registry, database, request, agents, locals, QuietPcs, Locked, Taking,
            Putting, Adding, Removing, Generating, MayCallBack, MayRequest, ServersOf, Assigned, SerialInv,
            MutualExclusion, MappingInv, ListInv, RowInv, OneServerPerAgent,
            AssignedHasSession, NoDuplicates, RowFollowsMapping
<1>1. ASSUME NEW a \in Agents, NEW s \in Sessions, Connect(a, s) PROVE MappingInv'
  BY <1>1 DEF Connect
<1>2. ASSUME NEW a \in Agents, ConnectionLost(a) PROVE MappingInv'
  BY <1>2 DEF ConnectionLost
<1>3. ASSUME NEW a \in Agents, AgentRestart(a) PROVE MappingInv'
  BY <1>3 DEF AgentRestart
<1>4. ASSUME NEW s \in Sessions, AddWebSocketSession(s) PROVE MappingInv'
  <2>1. /\ Locked = {} /\ pc[Rest] = "idle" /\ ipPort[s] \in Agents /\ ipPort' = ipPort
        /\ webSocketSessions' = [webSocketSessions EXCEPT ![ipPort[s]] = s]
        /\ UNCHANGED serverIdIpPortMapping
        /\ None \notin Agents /\ None \notin Sessions
    BY <1>4 DEF AddWebSocketSession
  <2>2. ASSUME Goto(s, "greet") \/ Goto(s, "opened")
        PROVE  MappingInv'
    <3>1. Locked' = {} /\ pc'[Rest] = "idle"
      BY <2>1, <2>2
    <3> QED
      BY <2>1, <2>2, <3>1
  <2>3. ASSUME ServersOf(ipPort[s]) = {}, Goto(s, "addTake")
        PROVE  MappingInv'
    <3>1. Locked' = {s} /\ Taking' = {s} /\ Putting' = {} /\ pc'[Rest] = "idle"
      BY <2>1, <2>3
    <3> QED
      BY <2>1, <2>3, <3>1
  <2> QED
    BY <1>4, <2>2, <2>3 DEF AddWebSocketSession
<1>4a. ASSUME NEW s \in Sessions, TakeServerId(s) PROVE MappingInv'
  <2>1. /\ Locked = {s} /\ Taking = {s} /\ pc[Rest] = "idle"
        /\ pc' = [pc EXCEPT ![s] = "addPut"]
        /\ UNCHANGED <<webSocketSessions, serverIdIpPortMapping, ipPort>>
    BY <1>4a, TakeIsHead
  <2>2. Locked' = {s} /\ Taking' = {} /\ Putting' = {s} /\ pc'[Rest] = "idle"
    BY <2>1
  <2> QED
    BY <2>1, <2>2
<1>4b. ASSUME NEW s \in Sessions, AddPutMapping(s) PROVE MappingInv'
  <2>1. /\ Locked = {s} /\ pc[Rest] = "idle"
        /\ ServersOf(ipPort[s]) = {} /\ webSocketSessions[ipPort[s]] # None
        /\ pc' = [pc EXCEPT ![s] = "addRow"]
        /\ ipPort[s] \in Agents /\ serverId[s] \in Servers /\ None \notin Agents
        /\ serverIdIpPortMapping' = [serverIdIpPortMapping EXCEPT ![serverId[s]] = ipPort[s]]
        /\ UNCHANGED <<webSocketSessions, locals>>
    BY <1>4b, PutIsAlone
  <2>2. Locked' = {s} /\ Taking' = {} /\ Putting' = {} /\ pc'[Rest] = "idle"
    BY <2>1
  <2> QED
    BY <2>1, <2>2
<1>5. ASSUME NEW s \in Sessions, AddReadRow(s) PROVE MappingInv'
  BY <1>5 DEF AddReadRow
<1>6. ASSUME NEW s \in Sessions, AddMergeRow(s) PROVE MappingInv'
  BY <1>6 DEF AddMergeRow
<1>7. ASSUME NEW s \in Sessions, NewAgentSession(s) PROVE MappingInv'
  BY <1>7 DEF NewAgentSession
<1>8. ASSUME NEW s \in Sessions, RemoveWebSocketSession(s) PROVE MappingInv'
  BY <1>8 DEF RemoveWebSocketSession
<1>9. ASSUME NEW s \in Sessions, RemoveReadRow(s) PROVE MappingInv'
  BY <1>9 DEF RemoveReadRow
<1>10. ASSUME NEW s \in Sessions, RemoveMergeRow(s) PROVE MappingInv'
  BY <1>10 DEF RemoveMergeRow
<1>11. ASSUME NEW t \in Threads, ReadInitialConfig(t) PROVE MappingInv'
  BY <1>11 DEF ReadInitialConfig
<1>12. ASSUME NEW t \in Threads, SendInitialConfig(t) PROVE MappingInv'
  BY <1>12 DEF SendInitialConfig
<1>13. ASSUME NEW t \in Threads, SendMountRequest(t) PROVE MappingInv'
  BY <1>13 DEF SendMountRequest
<1>14. ASSUME StartSimulation PROVE MappingInv'
  BY <1>14 DEF StartSimulation
<1>15. ASSUME GenerateCheck PROVE MappingInv'
  BY <1>15 DEF GenerateCheck
<1>16. ASSUME GenerateAdd PROVE MappingInv'
  BY <1>16 DEF GenerateAdd
<1>17. ASSUME GenerateReadRow PROVE MappingInv'
  BY <1>17 DEF GenerateReadRow
<1>18. ASSUME GenerateMergeRow PROVE MappingInv'
  BY <1>18 DEF GenerateMergeRow
<1>19. ASSUME ListServers PROVE MappingInv'
  BY <1>19 DEF ListServers
<1>20. ASSUME AssignNext PROVE MappingInv'
  <2>1. UNCHANGED registry /\ \A s \in Sessions : pc'[s] = pc[s] /\ serverId'[s] = serverId[s]
                              /\ ipPort'[s] = ipPort[s]
    BY <1>20 DEF AssignNext
  <2>2. ASSUME pc'[Rest] = "put"
        PROVE  /\ serverIdIpPortMapping[serverId'[Rest]] = None
               /\ \A id \in Servers : serverIdIpPortMapping[id] # ipPort'[Rest]
               /\ webSocketSessions[ipPort'[Rest]] # None
    <3>1. PICK id \in todo, a \in {b \in Agents : webSocketSessions[b] # None} \ Assigned :
             /\ serverId' = [serverId EXCEPT ![Rest] = id]
             /\ serverIdIpPortMapping[id] = None
             /\ ipPort' = [ipPort EXCEPT ![Rest] = a]
      <4> DEFINE free == {b \in Agents : webSocketSessions[b] # None} \ Assigned
      <4>1. PICK id \in todo :
              /\ serverId' = [serverId EXCEPT ![Rest] = id]
              /\ \/ Goto(Rest, "session")
                 \/ /\ serverIdIpPortMapping[id] = None
                    /\ \E a \in free : ipPort' = [ipPort EXCEPT ![Rest] = a]
                 \/ UNCHANGED pc
        BY <1>20 DEF AssignNext
      <4>2. pc'[Rest] = "put" /\ pc[Rest] = "assign"
        BY <1>20, <2>2 DEF AssignNext
      <4>3. ~Goto(Rest, "session") /\ pc' # pc
        BY <4>2
      <4>4. /\ serverIdIpPortMapping[id] = None
            /\ \E a \in free : ipPort' = [ipPort EXCEPT ![Rest] = a]
        BY <4>1, <4>3
      <4> HIDE DEF free
      <4>5. PICK a \in free : ipPort' = [ipPort EXCEPT ![Rest] = a]
        BY <4>4
      <4> USE DEF free
      <4> QED
        BY <4>1, <4>4, <4>5
    <3> QED
      BY <3>1
  <2> QED
    BY <2>1, <2>2
<1>21. ASSUME PutMapping PROVE MappingInv'
  BY <1>21 DEF PutMapping
<1>22. ASSUME AssignSession PROVE MappingInv'
  BY <1>22 DEF AssignSession
<1>23. ASSUME StartDone PROVE MappingInv'
  BY <1>23 DEF StartDone
<1>24. ASSUME StopSimulation PROVE MappingInv'
  BY <1>24 DEF StopSimulation
<1>25. ASSUME StopCommit PROVE MappingInv'
  BY <1>25 DEF StopCommit
<1> QED
  BY <1>1, <1>2, <1>3, <1>4, <1>4a, <1>4b, <1>5, <1>6, <1>7, <1>8, <1>9, <1>10, <1>11, <1>12, <1>13,
     <1>14, <1>15, <1>16, <1>17, <1>18, <1>19, <1>20, <1>21, <1>22, <1>23, <1>24, <1>25
  DEF Next, Environment, OnOpen, OnClose, Configure, Request, Generate,
      SendInitialConfigAll

\* The list grows only by ids that it does not hold.
LEMMA ListInvStep ==
    ASSUME ~Overlap, TypeInv, SerialInv, Next
    PROVE  ListInv'
<1> USE DEF TypeInv, TypeOK, Locals, HasServer, HasAgent, Threads, SessionPcs, RestPcs,
            Goto, registry, database, request, agents, locals, QuietPcs, Locked, Taking,
            Putting, Adding, Removing, Generating, MayCallBack, MayRequest, ServersOf, Assigned, SerialInv,
            MutualExclusion, MappingInv, ListInv, RowInv, OneServerPerAgent,
            AssignedHasSession, NoDuplicates, RowFollowsMapping
<1>1. ASSUME NEW a \in Agents, NEW s \in Sessions, Connect(a, s) PROVE ListInv'
  BY <1>1 DEF Connect
<1>2. ASSUME NEW a \in Agents, ConnectionLost(a) PROVE ListInv'
  BY <1>2 DEF ConnectionLost
<1>3. ASSUME NEW a \in Agents, AgentRestart(a) PROVE ListInv'
  BY <1>3 DEF AgentRestart
<1>4. ASSUME NEW s \in Sessions, AddWebSocketSession(s) PROVE ListInv'
  <2>1. Locked = {} /\ pc[Rest] = "idle" /\ UNCHANGED unassignedServerIds
    BY <1>4 DEF AddWebSocketSession
  <2>2. /\ Adding' = {} /\ Removing' = {} /\ pc'[Rest] = "idle"
        /\ Taking' # {} => unassignedServerIds # << >>
    BY <1>4, <2>1 DEF AddWebSocketSession
  <2> QED
    BY <2>1, <2>2
<1>4a. ASSUME NEW s \in Sessions, TakeServerId(s) PROVE ListInv'
  <2>1. /\ Locked = {s} /\ pc[Rest] = "idle"
        /\ pc' = [pc EXCEPT ![s] = "addPut"] /\ unassignedServerIds # << >>
        /\ unassignedServerIds' = Tail(unassignedServerIds)
        /\ serverId' = [serverId EXCEPT ![s] = Head(unassignedServerIds)]
    BY <1>4a, TakeIsHead
  <2>2. \A i, j \in 1 .. Len(unassignedServerIds) :
           unassignedServerIds[i] = unassignedServerIds[j] => i = j
    OBVIOUS
  <2>3. unassignedServerIds \in Seq(Servers)
    OBVIOUS
  <2>4. Adding' = {s} /\ Taking' = {} /\ Removing' = {} /\ pc'[Rest] = "idle"
        /\ serverId'[s] = Head(unassignedServerIds)
    BY <2>1
  <2> HIDE DEF NoDuplicates
  <2>5. NoDuplicates' /\ ~Contains(unassignedServerIds', Head(unassignedServerIds))
    BY <2>1, <2>2, <2>3, NoDuplicatesTail DEF NoDuplicates
  <2> QED
    BY <2>4, <2>5
<1>4b. ASSUME NEW s \in Sessions, AddPutMapping(s) PROVE ListInv'
  <2>1. /\ Locked = {s} /\ pc[Rest] = "idle" /\ s \in Adding
        /\ pc' = [pc EXCEPT ![s] = "addRow"]
        /\ UNCHANGED <<unassignedServerIds, serverId>>
    BY <1>4b, PutIsAlone
  <2>2. Adding' = {s} /\ Taking' = {} /\ Removing' = {} /\ pc'[Rest] = "idle"
    BY <2>1
  <2> QED
    BY <2>1, <2>2
<1>5. ASSUME NEW s \in Sessions, AddReadRow(s) PROVE ListInv'
  BY <1>5 DEF AddReadRow
<1>6. ASSUME NEW s \in Sessions, AddMergeRow(s) PROVE ListInv'
  BY <1>6 DEF AddMergeRow
<1>7. ASSUME NEW s \in Sessions, NewAgentSession(s) PROVE ListInv'
  BY <1>7 DEF NewAgentSession
<1>8. ASSUME NEW s \in Sessions, RemoveWebSocketSession(s) PROVE ListInv'
  <2>1. Locked = {} /\ pc[Rest] = "idle"
    BY <1>8 DEF RemoveWebSocketSession
  <2>2. ASSUME Goto(s, "closed"), UNCHANGED unassignedServerIds
        PROVE  ListInv'
    BY <2>1, <2>2
  <2>3. ASSUME NEW id \in Servers,
               unassignedServerIds' =
                 IF Contains(unassignedServerIds, id) THEN unassignedServerIds
                 ELSE Append(unassignedServerIds, id),
               serverId' = [serverId EXCEPT ![s] = id],
               Goto(s, "rmRow")
        PROVE  ListInv'
    <3>1. NoDuplicates' /\ Contains(unassignedServerIds', id)
      BY <2>3, NoDuplicatesAppend, ContainsAppend
    <3>2. /\ Adding' = {} /\ Taking' = {} /\ Removing' = {s} /\ pc'[Rest] = "idle"
          /\ serverId'[s] = id
      BY <2>1, <2>3
    <3> QED
      BY <3>1, <3>2
  <2> QED
    BY <1>8, <2>2, <2>3 DEF RemoveWebSocketSession
<1>9. ASSUME NEW s \in Sessions, RemoveReadRow(s) PROVE ListInv'
  BY <1>9 DEF RemoveReadRow
<1>10. ASSUME NEW s \in Sessions, RemoveMergeRow(s) PROVE ListInv'
  BY <1>10 DEF RemoveMergeRow
<1>11. ASSUME NEW t \in Threads, ReadInitialConfig(t) PROVE ListInv'
  BY <1>11 DEF ReadInitialConfig
<1>12. ASSUME NEW t \in Threads, SendInitialConfig(t) PROVE ListInv'
  BY <1>12 DEF SendInitialConfig
<1>13. ASSUME NEW t \in Threads, SendMountRequest(t) PROVE ListInv'
  BY <1>13 DEF SendMountRequest
<1>14. ASSUME StartSimulation PROVE ListInv'
  BY <1>14 DEF StartSimulation
<1>15. ASSUME GenerateCheck PROVE ListInv'
  BY <1>15 DEF GenerateCheck
<1>16. ASSUME GenerateAdd PROVE ListInv'
  <2>1. serverId[Rest] \in Servers /\ ~Contains(unassignedServerIds, serverId[Rest])
        /\ unassignedServerIds' = Append(unassignedServerIds, serverId[Rest])
        /\ pc'[Rest] = "genRow"
    BY <1>16 DEF GenerateAdd
  <2>2. Adding' = {} /\ Removing' = {} /\ Taking' = {}
    BY <1>16, RequestIsAlone DEF Request, Generate
  <2>3. NoDuplicates'
    <3>1. /\ unassignedServerIds \in Seq(Servers)
          /\ \A i, j \in 1 .. Len(unassignedServerIds) :
               unassignedServerIds[i] = unassignedServerIds[j] => i = j
      OBVIOUS
    <3> HIDE DEF NoDuplicates, TypeInv, TypeOK, SerialInv
    <3> QED
      BY <2>1, <3>1, NoDuplicatesAppend DEF NoDuplicates
  <2> QED
    BY <2>1, <2>2, <2>3
<1>17. ASSUME GenerateReadRow PROVE ListInv'
  BY <1>17 DEF GenerateReadRow
<1>18. ASSUME GenerateMergeRow PROVE ListInv'
  BY <1>18 DEF GenerateMergeRow
<1>19. ASSUME ListServers PROVE ListInv'
  BY <1>19 DEF ListServers
<1>20. ASSUME AssignNext PROVE ListInv'
  BY <1>20 DEF AssignNext
<1>21. ASSUME PutMapping PROVE ListInv'
  BY <1>21 DEF PutMapping
<1>22. ASSUME AssignSession PROVE ListInv'
  BY <1>22 DEF AssignSession
<1>23. ASSUME StartDone PROVE ListInv'
  BY <1>23 DEF StartDone
<1>24. ASSUME StopSimulation PROVE ListInv'
  BY <1>24 DEF StopSimulation
<1>25. ASSUME StopCommit PROVE ListInv'
  BY <1>25 DEF StopCommit
<1> QED
  BY <1>1, <1>2, <1>3, <1>4, <1>4a, <1>4b, <1>5, <1>6, <1>7, <1>8, <1>9, <1>10, <1>11, <1>12, <1>13,
     <1>14, <1>15, <1>16, <1>17, <1>18, <1>19, <1>20, <1>21, <1>22, <1>23, <1>24, <1>25
  DEF Next, Environment, OnOpen, OnClose, Configure, Request, Generate,
      SendInitialConfigAll

\* The address of a row changes together with the mapping of its server id.
LEMMA RowInvStep ==
    ASSUME ~Overlap, TypeInv, SerialInv, Next
    PROVE  RowInv'
<1> USE DEF TypeInv, TypeOK, Locals, HasServer, HasAgent, Threads, SessionPcs, RestPcs,
            Goto, registry, database, request, agents, locals, QuietPcs, Locked, Taking,
            Putting, Adding, Removing, Generating, MayCallBack, MayRequest, ServersOf, Assigned, SerialInv,
            MutualExclusion, MappingInv, ListInv, RowInv, OneServerPerAgent,
            AssignedHasSession, NoDuplicates, RowFollowsMapping
<1>1. ASSUME NEW a \in Agents, NEW s \in Sessions, Connect(a, s) PROVE RowInv'
  BY <1>1 DEF Connect
<1>2. ASSUME NEW a \in Agents, ConnectionLost(a) PROVE RowInv'
  BY <1>2 DEF ConnectionLost
<1>3. ASSUME NEW a \in Agents, AgentRestart(a) PROVE RowInv'
  BY <1>3 DEF AgentRestart
<1>4. ASSUME NEW s \in Sessions, AddWebSocketSession(s) PROVE RowInv'
  <2>1. /\ Locked = {} /\ pc[Rest] = "idle"
        /\ UNCHANGED <<database, serverIdIpPortMapping, unassignedServerIds>>
    BY <1>4 DEF AddWebSocketSession
  <2>2. /\ Removing' = {} /\ Removing = {} /\ Putting' = {}
        /\ (\A t \in Sessions : pc'[t] \notin {"addMerge", "rmMerge"}) /\ pc'[Rest] = "idle"
    BY <1>4, <2>1 DEF AddWebSocketSession
  <2> QED
    BY <2>1, <2>2
<1>4a. ASSUME NEW s \in Sessions, TakeServerId(s) PROVE RowInv'
  <2>1. /\ Locked = {s} /\ pc[Rest] = "idle"
        /\ pc' = [pc EXCEPT ![s] = "addPut"] /\ unassignedServerIds # << >>
        /\ UNCHANGED <<database, serverIdIpPortMapping>>
    BY <1>4a, TakeIsHead
  <2>2. /\ unassignedServerIds' = Tail(unassignedServerIds)
        /\ serverId' = [serverId EXCEPT ![s] = Head(unassignedServerIds)]
    BY <1>4a, TakeIsHead
  <2>3. /\ Head(unassignedServerIds) \in Servers
        /\ Contains(unassignedServerIds, Head(unassignedServerIds))
        /\ \A x \in Servers :
             Contains(Tail(unassignedServerIds), x) => Contains(unassignedServerIds, x)
    <3>1. unassignedServerIds[1] = Head(unassignedServerIds) /\ 1 \in 1 .. Len(unassignedServerIds)
      BY <2>1
    <3> QED
      BY <2>1, <3>1, ContainsTail DEF Contains
  <2>4. /\ Removing' = {} /\ Removing = {} /\ Putting' = {s}
        /\ (\A t \in Sessions : pc'[t] \notin {"addMerge", "rmMerge"}) /\ pc'[Rest] = "idle"
        /\ serverId'[s] = Head(unassignedServerIds)
    <3>1. \A t \in Sessions \ {s} : pc[t] \notin {"addPut", "addMerge", "rmMerge", "rmRow"}
      BY <2>1
    <3>2. pc[s] = "addTake"
      BY <1>4a, TakeIsHead
    <3>3. \A t \in Sessions \ {s} : pc'[t] = pc[t]
      BY <2>1
    <3> QED
      BY <2>1, <2>2, <3>1, <3>2, <3>3
  <2>5. rowIp[Head(unassignedServerIds)] \notin Agents
    BY <2>3, <2>4
  <2>6. \A id \in Servers : Contains(unassignedServerIds', id) => rowIp'[id] \notin Agents
    BY <2>1, <2>2, <2>3, <2>4
  <2> QED
    BY <2>1, <2>4, <2>5, <2>6
<1>4b. ASSUME NEW s \in Sessions, AddPutMapping(s) PROVE RowInv'
  <2>1. /\ Locked = {s} /\ s \in Putting /\ pc[Rest] = "idle"
        /\ pc' = [pc EXCEPT ![s] = "addRow"] /\ serverId[s] \in Servers
        /\ serverIdIpPortMapping' = [serverIdIpPortMapping EXCEPT ![serverId[s]] = ipPort[s]]
        /\ UNCHANGED <<database, unassignedServerIds, serverId>>
    BY <1>4b, PutIsAlone
  <2>2. /\ Removing' = {} /\ Removing = {} /\ Putting' = {}
        /\ (\A t \in Sessions : pc'[t] \notin {"addMerge", "rmMerge"}) /\ pc'[Rest] = "idle"
    BY <2>1
  <2>3. RowFollowsMapping'
    BY <2>1
  <2> QED
    BY <2>1, <2>2, <2>3
<1>5. ASSUME NEW s \in Sessions, AddReadRow(s) PROVE RowInv'
  BY <1>5 DEF AddReadRow
<1>6. ASSUME NEW s \in Sessions, AddMergeRow(s) PROVE RowInv'
  <2>1. /\ s \in Adding /\ s \in Locked /\ pc[Rest] = "idle" /\ serverId[s] \in Servers
        /\ rowIp[serverId[s]] # NoRow /\ ~Contains(unassignedServerIds, serverId[s])
        /\ serverIdIpPortMapping[serverId[s]] = ipPort[s]
        /\ rowIp' = [rowIp EXCEPT ![serverId[s]] = ipPort[s]]
        /\ UNCHANGED <<registry, simRunning, locals>>
    BY <1>6 DEF AddMergeRow
  <2>2. Removing = {} /\ Removing' = {} /\ Putting' = {} /\ pc'[Rest] = "idle"
        /\ \A t \in Sessions : pc'[t] \notin {"addMerge", "rmMerge"}
    BY <1>6, <2>1 DEF AddMergeRow
  <2>3. simRunning
    BY <2>1
  <2>4. RowFollowsMapping'
    BY <2>1
  <2> QED
    BY <2>1, <2>2, <2>3, <2>4
<1>7. ASSUME NEW s \in Sessions, NewAgentSession(s) PROVE RowInv'
  BY <1>7 DEF NewAgentSession
<1>8. ASSUME NEW s \in Sessions, RemoveWebSocketSession(s) PROVE RowInv'
  <2>1. Locked = {} /\ pc[Rest] = "idle" /\ UNCHANGED <<database, serverIdIpPortMapping, readIp>>
        /\ Removing = {}
    BY <1>8 DEF RemoveWebSocketSession
  <2>2. ASSUME Goto(s, "closed"), UNCHANGED unassignedServerIds
        PROVE  RowInv'
    <3>1. Removing' = {} /\ Putting' = {}
          /\ (\A t \in Sessions : pc'[t] \notin {"addMerge", "rmMerge"}) /\ pc'[Rest] = "idle"
      BY <2>1, <2>2
    <3> QED
      BY <2>1, <2>2, <3>1
  <2>3. ASSUME NEW id \in Servers,
               unassignedServerIds' =
                 IF Contains(unassignedServerIds, id) THEN unassignedServerIds
                 ELSE Append(unassignedServerIds, id),
               serverId' = [serverId EXCEPT ![s] = id],
               Goto(s, "rmRow")
        PROVE  RowInv'
    <3>1. \A x \in Servers : Contains(unassignedServerIds', x) =>
            Contains(unassignedServerIds, x) \/ x = id
      BY <2>3, ContainsAppend
    <3>2. Removing' = {s} /\ Putting' = {} /\ serverId'[s] = id
          /\ (\A t \in Sessions : pc'[t] \notin {"addMerge", "rmMerge"}) /\ pc'[Rest] = "idle"
      BY <2>1, <2>3
    <3> QED
      BY <2>1, <3>1, <3>2
  <2> QED
    BY <1>8, <2>2, <2>3 DEF RemoveWebSocketSession
<1>9. ASSUME NEW s \in Sessions, RemoveReadRow(s) PROVE RowInv'
  <2>1. /\ s \in Removing /\ pc[s] = "rmRow" /\ pc[Rest] = "idle"
        /\ UNCHANGED <<registry, database, locals>>
    BY <1>9 DEF RemoveReadRow
  <2>2. CASE rowIp[serverId[s]] = NoRow
    <3>1. Removing = {s} /\ Removing' = {} /\ Putting' = {} /\ pc'[Rest] = "idle"
          /\ \A t \in Sessions : pc'[t] \notin {"addMerge", "rmMerge"}
      BY <1>9, <2>1, <2>2 DEF RemoveReadRow
    <3>2. rowIp[serverId[s]] \notin Agents
      BY <2>2
    <3> QED
      BY <2>1, <3>1, <3>2
  <2>3. CASE rowIp[serverId[s]] # NoRow
    <3>1. Removing = {s} /\ Removing' = {s} /\ Putting' = {} /\ pc'[Rest] = "idle"
          /\ \A t \in Sessions : pc'[t] \in {"addMerge", "rmMerge"} => t = s
      BY <1>9, <2>1, <2>3 DEF RemoveReadRow
    <3> QED
      BY <2>1, <2>3, <3>1
  <2> QED
    BY <2>2, <2>3
<1>10. ASSUME NEW s \in Sessions, RemoveMergeRow(s) PROVE RowInv'
  <2>1. /\ s \in Removing /\ pc[s] = "rmMerge" /\ pc[Rest] = "idle" /\ serverId[s] \in Servers
        /\ rowIp[serverId[s]] # NoRow
        /\ rowIp' = [rowIp EXCEPT ![serverId[s]] = None]
        /\ serverIdIpPortMapping' = [serverIdIpPortMapping EXCEPT ![serverId[s]] = None]
        /\ UNCHANGED <<unassignedServerIds, simRunning, locals>>
        /\ None \notin Agents
    BY <1>10 DEF RemoveMergeRow
  <2>2. Removing = {s} /\ Removing' = {} /\ Putting' = {} /\ pc'[Rest] = "idle"
        /\ \A t \in Sessions : pc'[t] \notin {"addMerge", "rmMerge"}
    BY <1>10, <2>1 DEF RemoveMergeRow
  <2>3. RowFollowsMapping'
    BY <2>1
  <2>4. simRunning
    BY <2>1
  <2> QED
    BY <2>1, <2>2, <2>3, <2>4
<1>11. ASSUME NEW t \in Threads, ReadInitialConfig(t) PROVE RowInv'
  <2>1. ReadsConfig(t)
    BY <1>11, ConfigIsRead
  <2> QED
    BY <2>1 DEF ReadsConfig
<1>12. ASSUME NEW t \in Threads, SendInitialConfig(t) PROVE RowInv'
  BY <1>12 DEF SendInitialConfig
<1>13. ASSUME NEW t \in Threads, SendMountRequest(t) PROVE RowInv'
  BY <1>13 DEF SendMountRequest
<1>14. ASSUME StartSimulation PROVE RowInv'
  <2>1. /\ Removing = {} /\ Removing' = {} /\ Putting' = {}
        /\ \A t \in Sessions : pc'[t] \notin {"addMerge", "rmMerge"}
    BY <1>14, RequestIsAlone DEF Request
  <2>2. /\ ~simRunning /\ UNCHANGED <<registry, database, locals>> /\ pc'[Rest] = "genCheck"
    BY <1>14 DEF StartSimulation
  <2>3. \A id \in Servers : rowIp[id] = NoRow /\ NoRow \notin Agents
    BY <2>2
  <2> QED
    BY <2>1, <2>2, <2>3
<1>15. ASSUME GenerateCheck PROVE RowInv'
  BY <1>15 DEF GenerateCheck
<1>16. ASSUME GenerateAdd PROVE RowInv'
  BY <1>16 DEF GenerateAdd
<1>17. ASSUME GenerateReadRow PROVE RowInv'
  BY <1>17 DEF GenerateReadRow
<1>18. ASSUME GenerateMergeRow PROVE RowInv'
  <2>1. /\ Removing = {} /\ Removing' = {} /\ Putting' = {}
        /\ \A t \in Sessions : pc'[t] \notin {"addMerge", "rmMerge"}
    BY <1>18, RequestIsAlone DEF Request, Generate
  <2>2. /\ pc[Rest] = "genMerge" /\ simRunning /\ UNCHANGED <<registry, simRunning, locals>>
        /\ pc'[Rest] \in {"list", "genCheck"}
    BY <1>18 DEF GenerateMergeRow
  <2>3. \A id \in Servers : rowIp'[id] \notin Agents
    BY <1>18, <2>2 DEF GenerateMergeRow
  <2> QED
    BY <2>1, <2>2, <2>3
<1>19. ASSUME ListServers PROVE RowInv'
  BY <1>19 DEF ListServers
<1>20. ASSUME AssignNext PROVE RowInv'
  <2>1. /\ Removing = {} /\ Removing' = {} /\ Putting' = {}
        /\ \A t \in Sessions : pc'[t] \notin {"addMerge", "rmMerge"}
    BY <1>20, RequestIsAlone DEF Request, SendInitialConfigAll
  <2>2. UNCHANGED <<registry, database, readIp>> /\ pc'[Rest] \in {"session", "put", "assign"}
    BY <1>20 DEF AssignNext
  <2> QED
    BY <2>1, <2>2
<1>21. ASSUME PutMapping PROVE RowInv'
  <2>1. /\ Removing = {} /\ Removing' = {} /\ Putting' = {}
        /\ \A t \in Sessions : pc'[t] \notin {"addMerge", "rmMerge"}
    BY <1>21, RequestIsAlone DEF Request, SendInitialConfigAll
  <2>2. /\ UNCHANGED <<unassignedServerIds, database>> /\ pc'[Rest] = "session"
        /\ serverIdIpPortMapping' =
             [serverIdIpPortMapping EXCEPT ![serverId[Rest]] = ipPort[Rest]]
        /\ serverIdIpPortMapping[serverId[Rest]] = None /\ None \notin Agents
        /\ serverId[Rest] \in Servers
    BY <1>21 DEF PutMapping
  <2>3. RowFollowsMapping'
    BY <2>2
  <2> QED
    BY <2>1, <2>2, <2>3
<1>22. ASSUME AssignSession PROVE RowInv'
  BY <1>22 DEF AssignSession
<1>23. ASSUME StartDone PROVE RowInv'
  BY <1>23 DEF StartDone
<1>24. ASSUME StopSimulation PROVE RowInv'
  BY <1>24 DEF StopSimulation
<1>25. ASSUME StopCommit PROVE RowInv'
  <2>1. /\ Removing = {} /\ Removing' = {} /\ Putting' = {}
        /\ \A t \in Sessions : pc'[t] \notin {"addMerge", "rmMerge"}
    BY <1>25, RequestIsAlone DEF Request
  <2>2. /\ pc'[Rest] = "idle" /\ ~simRunning'
        /\ \A id \in Servers : rowIp'[id] = NoRow
    BY <1>25 DEF StopCommit
  <2>3. NoRow \notin Agents
    OBVIOUS
  <2> QED
    BY <2>1, <2>2, <2>3
<1> QED
  BY <1>1, <1>2, <1>3, <1>4, <1>4a, <1>4b, <1>5, <1>6, <1>7, <1>8, <1>9, <1>10, <1>11, <1>12, <1>13,
     <1>14, <1>15, <1>16, <1>17, <1>18, <1>19, <1>20, <1>21, <1>22, <1>23, <1>24, <1>25
  DEF Next, Environment, OnOpen, OnClose, Configure, Request, Generate,
      SendInitialConfigAll

LEMMA SerialInit == Init => SerialInv
<1> SUFFICES ASSUME Init PROVE SerialInv
  OBVIOUS
<1>1. pc[Rest] = "idle" /\ \A s \in Sessions : pc[s] = "unused"
  BY DEF Init, Threads
<1>2. /\ \A id \in Servers : serverIdIpPortMapping[id] = None /\ rowIp[id] = NoRow
      /\ unassignedServerIds = << >> /\ Len(<< >>) = 0
  BY DEF Init
<1>3. MutualExclusion
  BY <1>1 DEF MutualExclusion, Locked
<1>4. MappingInv
  BY <1>1, <1>2 DEF MappingInv, OneServerPerAgent, AssignedHasSession, Locked, Taking,
                    Putting
<1>5. ListInv
  BY <1>1, <1>2 DEF ListInv, NoDuplicates, Taking, Adding, Removing, Contains
<1>6. RowInv
  BY <1>1, <1>2 DEF RowInv, RowFollowsMapping, Generating, Putting, Removing, Contains
<1> QED
  BY <1>3, <1>4, <1>5, <1>6 DEF SerialInv

LEMMA SerialStutter == SerialInv /\ UNCHANGED vars => SerialInv'
  BY DEF SerialInv, MutualExclusion, MappingInv, ListInv, RowInv, OneServerPerAgent,
         AssignedHasSession, NoDuplicates, RowFollowsMapping, Locked, QuietPcs, Taking, Putting,
         Adding, Removing, Generating, ServersOf, vars, registry, database, locals

\* Without overlap, the registry, its list and the rows of the database agree at
\* every point of every handler and of every request.
THEOREM RegistryIsConsistent == ~Overlap => (Spec => []SerialInv)
<1> SUFFICES ASSUME ~Overlap PROVE Spec => []SerialInv
  OBVIOUS
<1>1. TypeInv /\ SerialInv /\ [Next]_vars => SerialInv'
  BY MutualExclusionStep, MappingInvStep, ListInvStep, RowInvStep, SerialStutter DEF SerialInv
<1>2. Spec => []TypeInv
  BY TypeInit, TypeStep, PTL DEF Spec
<1> QED
  BY <1>1, <1>2, SerialInit, PTL DEF Spec

-----------------------------------------------------------------------------
(* The registry implements AgentRegistry.                                  *)

LEMMA RegistryStep ==
    ASSUME ~Overlap, TypeInv, SerialInv, [Next]_vars
    PROVE  [Registry!Next]_<<Members, serverIdIpPortMapping>>
<1> USE DEF TypeInv, TypeOK, Locals, HasServer, HasAgent, Threads, SessionPcs
<1>1. ASSUME UNCHANGED <<webSocketSessions, serverIdIpPortMapping>>
      PROVE  UNCHANGED <<Members, serverIdIpPortMapping>>
  BY <1>1 DEF Members
<1>2. ASSUME NEW s \in Sessions, AddWebSocketSession(s) PROVE Registry!Join(ipPort[s])
  <2>1. /\ ipPort[s] \in Agents /\ None \notin Sessions
        /\ webSocketSessions' = [webSocketSessions EXCEPT ![ipPort[s]] = s]
    BY <1>2 DEF AddWebSocketSession
  <2>2. Members' = Members \cup {ipPort[s]}
    BY <2>1 DEF Members
  <2>3. UNCHANGED serverIdIpPortMapping
    BY <1>2 DEF AddWebSocketSession
  <2> QED
    BY <2>2, <2>3 DEF Registry!Join
<1>2a. ASSUME NEW s \in Sessions, AddPutMapping(s) PROVE Registry!Join(ipPort[s])
  <2>1. /\ ipPort[s] \in Agents /\ serverId[s] \in Servers
        /\ ServersOf(ipPort[s]) = {} /\ webSocketSessions[ipPort[s]] # None
        /\ serverIdIpPortMapping' = [serverIdIpPortMapping EXCEPT ![serverId[s]] = ipPort[s]]
        /\ UNCHANGED webSocketSessions
    BY <1>2a, PutIsAlone
  <2>2. Members' = Members /\ Members \cup {ipPort[s]} = Members
    BY <2>1 DEF Members
  <2> QED
    BY <2>1, <2>2 DEF Registry!Join, Registry!Give, Registry!Serverless, ServersOf
<1>3. ASSUME NEW s \in Sessions, RemoveMergeRow(s) PROVE Registry!Leave(ipPort[s])
  <2>1. /\ ipPort[s] \in Agents /\ serverId[s] \in Servers /\ None \notin Agents
        /\ webSocketSessions' = [webSocketSessions EXCEPT ![ipPort[s]] = None]
        /\ serverIdIpPortMapping' = [serverIdIpPortMapping EXCEPT ![serverId[s]] = None]
    BY <1>3 DEF RemoveMergeRow
  <2>2. serverIdIpPortMapping[serverId[s]] = ipPort[s]
    BY <1>3 DEF RemoveMergeRow, SerialInv, MappingInv, Locked, Taking, Putting
  <2>3. webSocketSessions[ipPort[s]] # None
    BY <2>1, <2>2 DEF SerialInv, MappingInv, AssignedHasSession
  <2>4. Members' = Members \ {ipPort[s]} /\ ipPort[s] \in Members
    BY <2>1, <2>3 DEF Members
  <2> QED
    BY <2>1, <2>2, <2>4 DEF Registry!Leave
<1>4. ASSUME PutMapping PROVE Registry!Grant(ipPort[Rest])
  <2>1. /\ serverId[Rest] \in Servers /\ ipPort[Rest] \in Agents
        /\ serverIdIpPortMapping[serverId[Rest]] = None
        /\ ServersOf(ipPort[Rest]) = {} /\ webSocketSessions[ipPort[Rest]] # None
        /\ UNCHANGED webSocketSessions
        /\ serverIdIpPortMapping' =
             [serverIdIpPortMapping EXCEPT ![serverId[Rest]] = ipPort[Rest]]
    BY <1>4 DEF PutMapping, SerialInv, MappingInv
  <2> QED
    BY <2>1 DEF Registry!Grant, Registry!Give, Registry!Serverless, ServersOf, Members
<1>5. \A t \in Threads : t \in Sessions /\ pc[t] \in {"onOpen", "addPut", "rmMerge"} => ipPort[t] \in Agents
  OBVIOUS
<1>6. PutMapping => ipPort[Rest] \in Agents
  BY DEF PutMapping
<1>7. \/ UNCHANGED <<webSocketSessions, serverIdIpPortMapping>>
      \/ \E s \in Sessions : AddWebSocketSession(s) \/ AddPutMapping(s) \/ RemoveMergeRow(s)
      \/ PutMapping
  BY DEF vars, registry, Next, Environment, Connect, ConnectionLost, AgentRestart, OnOpen,
         TakeServerId, AddReadRow, AddMergeRow, NewAgentSession, OnClose, RemoveWebSocketSession,
         RemoveReadRow, Configure, ReadInitialConfig, SendInitialConfig, SendMountRequest,
         Request, StartSimulation, Generate, GenerateCheck, GenerateAdd, GenerateReadRow,
         GenerateMergeRow, SendInitialConfigAll, ListServers, AssignNext, AssignSession,
         StartDone, StopSimulation, StopCommit
<1>8. ASSUME NEW s \in Sessions,
             AddWebSocketSession(s) \/ AddPutMapping(s) \/ RemoveMergeRow(s)
      PROVE  Registry!Next
  <2>1. ipPort[s] \in Agents
    BY <1>5, <1>8 DEF AddWebSocketSession, AddPutMapping, RemoveMergeRow
  <2> QED
    BY <1>2, <1>2a, <1>3, <1>8, <2>1 DEF Registry!Next
<1>9. PutMapping => Registry!Next
  BY <1>4, <1>6 DEF Registry!Next
<1> QED
  BY <1>1, <1>7, <1>8, <1>9

\* Without overlap, an agent is registered, given a server id, and unregistered
\* together with its id, in single steps of AgentRegistry.
THEOREM RegistryIsImplemented == ~Overlap => (Spec => ImplementsRegistry)
<1> SUFFICES ASSUME ~Overlap PROVE Spec => ImplementsRegistry
  OBVIOUS
<1>1. Init => Registry!Init
  BY DEF Init, Registry!Init, Members
<1>2. TypeInv /\ SerialInv /\ [Next]_vars
        => [Registry!Next]_<<Members, serverIdIpPortMapping>>
  BY RegistryStep
<1>3. Spec => []TypeInv
  BY TypeInit, TypeStep, PTL DEF Spec
<1>4. Spec => []SerialInv
  BY RegistryIsConsistent
<1> QED
  BY <1>1, <1>2, <1>3, <1>4, PTL DEF Spec, ImplementsRegistry, Registry!Spec

-----------------------------------------------------------------------------
(* What holds when, besides, agents connect only once the simulation is    *)
(* running, and it is not stopped.                                         *)

\* Until the first request is done there is no agent.
NoAgentYet ==
    /\ \A s \in Sessions : pc[s] = "unused"
    /\ \A id \in Servers : serverIdIpPortMapping[id] = None
    /\ \A a \in Agents : webSocketSessions[a] = None

LateStart ==
    /\ pc[Rest] \in {"idle", "genCheck", "genAdd", "genRow", "genMerge", "list", "assign"}
    /\ pc[Rest] # "idle" \/ ~simRunning => NoAgentYet

\* A server id that is listed, taken or mapped has a row; one that is listed and
\* mapped is about to be given up.
LateRows ==
    /\ \A id \in Servers : Contains(unassignedServerIds, id) =>
         rowIp[id] # NoRow \/ (pc[Rest] \in {"genRow", "genMerge"} /\ serverId[Rest] = id)
    /\ \A id \in Servers : serverIdIpPortMapping[id] # None => rowIp[id] # NoRow
    /\ \A s \in Putting :
         rowIp[serverId[s]] # NoRow /\ serverIdIpPortMapping[serverId[s]] = None
    /\ \A id \in Servers :
         Contains(unassignedServerIds, id) /\ serverIdIpPortMapping[id] # None =>
             \E s \in Removing : serverId[s] = id

\* A thread that welcomes an agent works on the server of the agent, and what it
\* has done stays done.
Welcoming(s) == pc[s] \in {"greet", "configRead", "configSend", "mount"}
WelcomeOf(s) ==
    /\ Welcoming(s) => serverIdIpPortMapping[serverId[s]] = ipPort[s]
    /\ pc[s] = "configSend" => readIp[s] = ipPort[s]
    /\ pc[s] = "mount" /\ alive[ipPort[s]] = s => agentServer[ipPort[s]] = serverId[s]
    /\ pc[s] = "opened" /\ alive[ipPort[s]] = s =>
         \A id \in Servers : serverIdIpPortMapping[id] = ipPort[s] =>
             agentServer[ipPort[s]] = id /\ mounted[id] = ipPort[s]
Welcome == \A s \in Sessions : WelcomeOf(s)

LateInv == LateStart /\ LateRows /\ Welcome

\* The conditions, and what is known under them.
Late == ~Overlap /\ ~LateClose /\ ~AgentsFirst /\ MaxStops = 0
Known == TypeInv /\ SerialInv /\ ReachInv /\ LateInv

LEMMA LateInit == Init => LateInv
<1> SUFFICES ASSUME Init PROVE LateInv
  OBVIOUS
<1>1. /\ pc[Rest] = "idle" /\ NoAgentYet
      /\ \A id \in Servers : ~Contains(unassignedServerIds, id)
  <2>1. pc[Rest] = "idle" /\ NoAgentYet
    BY DEF Init, NoAgentYet, Threads
  <2>2. unassignedServerIds = << >>
    BY DEF Init
  <2> QED
    BY <2>1, <2>2 DEF Contains
<1>2. LateStart /\ LateRows
  BY <1>1 DEF LateStart, LateRows, NoAgentYet, Putting
<1>3. Welcome
  BY <1>1 DEF Welcome, WelcomeOf, Welcoming, NoAgentYet
<1> QED
  BY <1>2, <1>3 DEF LateInv

\* A request runs before there is an agent: its effect on the list and the rows.
LEMMA LateRequest ==
    ASSUME Late, Known, Request \/ Configure(Rest)
    PROVE  LateInv'
<1> USE DEF Goto, registry, database, request, agents, locals
<1>1. /\ TypeOK /\ Locals /\ LateStart /\ LateRows /\ MaxStops = 0
  BY DEF Known, TypeInv, LateInv, Late
<1>2. ~Configure(Rest) /\ ~StopSimulation /\ ~StopCommit /\ ~PutMapping /\ ~AssignSession
  BY <1>1 DEF LateStart, Configure, ReadInitialConfig, SendInitialConfig, SendMountRequest,
              StopSimulation, StopCommit, PutMapping, AssignSession, TypeOK
<1>3. NoAgentYet
  BY <1>1, <1>2 DEF LateStart, Request, StartSimulation, Generate, GenerateCheck, GenerateAdd,
         GenerateReadRow, GenerateMergeRow, SendInitialConfigAll, ListServers, AssignNext, StartDone
<1>4. /\ UNCHANGED <<webSocketSessions, serverIdIpPortMapping>>
      /\ \A s \in Sessions : pc'[s] = pc[s]
  <2>1. UNCHANGED <<webSocketSessions, serverIdIpPortMapping>>
    BY <1>2 DEF Request, StartSimulation, Generate, GenerateCheck, GenerateAdd,
         GenerateReadRow, GenerateMergeRow, SendInitialConfigAll, ListServers, AssignNext, StartDone
  <2>2. pc' = pc \/ \E label : pc' = [pc EXCEPT ![Rest] = label]
    BY <1>2, Zenon DEF Request, StartSimulation, Generate, GenerateCheck, GenerateAdd,
         GenerateReadRow, GenerateMergeRow, SendInitialConfigAll, ListServers, AssignNext, StartDone
  <2> QED
    BY <1>1, <2>1, <2>2 DEF TypeOK, Threads
<1>5. NoAgentYet'
  BY <1>3, <1>4 DEF NoAgentYet
<1>6. Rest \in Threads /\ pc \in [Threads -> SessionPcs \cup RestPcs]
  BY <1>1 DEF TypeOK, Threads
<1>7. pc'[Rest] \in {"idle", "genCheck", "genAdd", "genRow", "genMerge", "list", "assign"}
  <2>1. ~ \E a \in Agents : webSocketSessions[a] # None
    BY <1>3 DEF NoAgentYet
  <2>2. ASSUME AssignNext PROVE pc'[Rest] = "assign"
    <3>1. PICK id \in todo :
            LET free == {a \in Agents : webSocketSessions[a] # None} \ Assigned IN
            \/ serverIdIpPortMapping[id] # None
            \/ \E a \in free : ipPort' = [ipPort EXCEPT ![Rest] = a]
            \/ pc' = pc
      BY <2>2 DEF AssignNext
    <3>2. id \in Servers /\ serverIdIpPortMapping[id] = None /\ pc[Rest] = "assign"
      BY <1>1, <1>3, <2>2 DEF AssignNext, NoAgentYet, TypeOK
    <3> QED
      BY <2>1, <3>1, <3>2
  <2> QED
    BY <1>1, <1>2, <1>6, <2>2 DEF Request, StartSimulation, Generate, GenerateCheck, GenerateAdd,
         GenerateReadRow, GenerateMergeRow, SendInitialConfigAll, ListServers, StartDone
<1>8. ASSUME NEW id \in Servers, Contains(unassignedServerIds', id)
      PROVE  rowIp'[id] # NoRow
             \/ (pc'[Rest] \in {"genRow", "genMerge"} /\ serverId'[Rest] = id)
  <2>0. /\ unassignedServerIds \in Seq(Servers) /\ rowIp \in [Servers -> Agents \cup {None, NoRow}]
        /\ serverId \in [Threads -> Servers \cup {None}] /\ None # NoRow
        /\ Contains(unassignedServerIds, id) =>
             rowIp[id] # NoRow \/ (pc[Rest] \in {"genRow", "genMerge"} /\ serverId[Rest] = id)
    <3>1. /\ unassignedServerIds \in Seq(Servers)
          /\ rowIp \in [Servers -> Agents \cup {None, NoRow}]
          /\ serverId \in [Threads -> Servers \cup {None}] /\ None # NoRow
      BY <1>1 DEF TypeOK
    <3>2. Contains(unassignedServerIds, id) =>
             rowIp[id] # NoRow \/ (pc[Rest] \in {"genRow", "genMerge"} /\ serverId[Rest] = id)
      BY <1>1 DEF LateRows
    <3> QED
      BY <3>1, <3>2
  <2>1. CASE GenerateCheck
    BY <1>6, <1>8, <2>0, <2>1 DEF GenerateCheck
  <2>2. CASE GenerateAdd
    <3>1. /\ serverId[Rest] \in Servers /\ pc'[Rest] = "genRow" /\ rowIp' = rowIp
          /\ unassignedServerIds' = Append(unassignedServerIds, serverId[Rest])
          /\ serverId' = serverId /\ pc[Rest] = "genAdd"
      BY <1>1, <1>6, <2>2 DEF GenerateAdd, Locals, HasServer
    <3>2. Contains(unassignedServerIds, id) \/ id = serverId[Rest]
      BY <1>8, <2>0, <3>1, ContainsAppend
    <3> QED
      BY <2>0, <3>1, <3>2
  <2>3. CASE GenerateReadRow
    BY <1>6, <1>8, <2>0, <2>3 DEF GenerateReadRow
  <2>4. CASE GenerateMergeRow
    <3>1. /\ serverId[Rest] \in Servers /\ rowIp'[serverId[Rest]] # NoRow
          /\ \A i \in Servers \ {serverId[Rest]} : rowIp'[i] = rowIp[i]
          /\ unassignedServerIds' = unassignedServerIds
      BY <1>1, <1>6, <2>0, <2>4 DEF GenerateMergeRow, Locals, HasServer
    <3> QED
      BY <1>8, <2>0, <3>1
  <2>5. CASE StartSimulation \/ ListServers \/ AssignNext \/ StartDone
    <3>1. /\ pc[Rest] \notin {"genRow", "genMerge"}
          /\ UNCHANGED <<unassignedServerIds, rowIp>>
      BY <2>5 DEF StartSimulation, ListServers, AssignNext, StartDone
    <3> QED
      BY <1>8, <2>0, <3>1
  <2> QED
    BY <1>2, <2>1, <2>2, <2>3, <2>4, <2>5 DEF Request, Generate, SendInitialConfigAll
<1>9. LateStart' /\ Welcome'
  BY <1>5, <1>7 DEF LateStart, Welcome, WelcomeOf, Welcoming, NoAgentYet
<1>10. LateRows'
  BY <1>5, <1>8 DEF LateRows, NoAgentYet, Putting
<1> QED
  BY <1>9, <1>10 DEF LateInv

\* A step of one session's callback, between requests.
Steps(s) ==
    /\ pc[s] # "unused"
    /\ pc'[Rest] = pc[Rest] /\ simRunning' = simRunning /\ ipPort' = ipPort
    /\ \A r \in Sessions \ {s} :
         pc'[r] = pc[r] /\ serverId'[r] = serverId[r] /\ readIp'[r] = readIp[r]

LEMMA BetweenRequests ==
    ASSUME Known, NEW s \in Sessions, Steps(s)
    PROVE  pc[Rest] = "idle" /\ simRunning /\ LateStart'
BY DEF Known, LateInv, LateStart, NoAgentYet, Steps, TypeInv, TypeOK

\* The sessions of one agent are one.
LEMMA OneActive ==
    ASSUME Known, NEW s \in Sessions, NEW r \in Sessions, ipPort[r] = ipPort[s],
           pc[s] \notin {"unused", "closed"}, pc[r] \notin {"unused", "closed"}
    PROVE  r = s
BY DEF Known, ReachInv, Active

LEMMA RowsKept ==
    ASSUME Known, NEW s \in Sessions, Steps(s),
           UNCHANGED <<unassignedServerIds, serverIdIpPortMapping, rowIp>>,
           pc'[s] # "addPut",
           pc[s] \in {"rmRow", "rmMerge"} =>
               pc'[s] \in {"rmRow", "rmMerge"} /\ serverId'[s] = serverId[s]
    PROVE  LateRows'
<1>1. pc[Rest] = "idle" /\ pc'[Rest] = "idle"
  BY BetweenRequests DEF Steps
<1>2. \A r \in Sessions : r = s \/ (pc'[r] = pc[r] /\ serverId'[r] = serverId[r])
  BY DEF Steps
<1>3. \A r \in Putting' : r \in Putting /\ serverId'[r] = serverId[r]
  BY <1>2 DEF Putting
<1>4. \A r \in Removing : r \in Removing' /\ serverId'[r] = serverId[r]
  BY <1>2 DEF Removing
<1>5. LateRows
  BY DEF Known, LateInv
<1> QED
  BY <1>1, <1>3, <1>4, <1>5 DEF LateRows

LEMMA WelcomeKept ==
    ASSUME Known, NEW s \in Sessions, Steps(s),
           UNCHANGED <<serverIdIpPortMapping, alive, agentServer, mounted>>,
           WelcomeOf(s)'
    PROVE  Welcome'
<1>1. \A r \in Sessions \ {s} : WelcomeOf(r)
  BY DEF Known, LateInv, Welcome
<1>2. \A r \in Sessions \ {s} : WelcomeOf(r)'
  BY <1>1 DEF WelcomeOf, Welcoming, Steps
<1> QED
  BY <1>2 DEF Welcome

\* onOpen, until the monitor is left.
LEMMA LateOpen ==
    ASSUME Late, Known, NEW s \in Sessions, AddWebSocketSession(s) \/ AddReadRow(s)
    PROVE  LateInv'
<1>1. /\ TypeOK /\ Locals /\ LateRows /\ MappingInv
  BY DEF Known, TypeInv, LateInv, SerialInv
<1>2. /\ Steps(s)
      /\ UNCHANGED <<unassignedServerIds, serverIdIpPortMapping, rowIp, alive, agentServer, mounted>>
  BY <1>1 DEF AddWebSocketSession, AddReadRow, Steps, Goto, TypeOK, Threads, database, agents,
              registry, locals
<1>3. pc[s] \in {"onOpen", "addRow"} /\ pc'[s] \in {"greet", "addTake", "addMerge", "opened"}
  BY <1>1 DEF AddWebSocketSession, AddReadRow, Goto, TypeOK, Threads
<1>4. LateStart' /\ LateRows'
  BY <1>2, <1>3, BetweenRequests, RowsKept
<1>5. pc'[s] = "greet" => serverIdIpPortMapping[serverId'[s]] = ipPort[s]
  <2>1. CASE AddWebSocketSession(s)
    BY <1>1, <2>1 DEF AddWebSocketSession, Goto, ServersOf, TypeOK, Threads
  <2>2. CASE AddReadRow(s)
    BY <1>1, <2>2 DEF AddReadRow, locals, MappingInv, Locked, Taking, Putting
  <2> QED
    BY <2>1, <2>2
<1>6. pc'[s] = "opened" => \A id \in Servers : serverIdIpPortMapping[id] # ipPort[s]
  BY <1>1, <1>3 DEF AddWebSocketSession, AddReadRow, Goto, ServersOf, TypeOK, Threads
<1>7. WelcomeOf(s)'
  BY <1>2, <1>3, <1>5, <1>6 DEF WelcomeOf, Welcoming, Steps
<1> QED
  BY <1>2, <1>4, <1>7, WelcomeKept DEF LateInv

LEMMA LateTake ==
    ASSUME Late, Known, NEW s \in Sessions, TakeServerId(s)
    PROVE  LateInv'
<1>1. /\ TypeInv /\ SerialInv /\ TypeOK /\ LateRows
  BY DEF Known, TypeInv, LateInv
<1>2. /\ Locked = {s} /\ pc[Rest] = "idle" /\ pc[s] = "addTake"
      /\ pc' = [pc EXCEPT ![s] = "addPut"]
      /\ unassignedServerIds # << >>
      /\ unassignedServerIds' = Tail(unassignedServerIds)
      /\ serverId' = [serverId EXCEPT ![s] = Head(unassignedServerIds)]
      /\ UNCHANGED <<webSocketSessions, serverIdIpPortMapping, rowIp, simRunning, ipPort, readIp>>
  BY <1>1, TakeIsHead DEF database
<1>3. UNCHANGED <<mounted, alive, agentServer>>
  BY DEF TakeServerId, agents
<1>4. /\ Steps(s) /\ pc'[s] = "addPut" /\ serverId'[s] = Head(unassignedServerIds)
      /\ \A r \in Sessions \ {s} : serverId'[r] = serverId[r]
  BY <1>1, <1>2 DEF Steps, TypeOK, Threads
<1>5. LateStart'
  BY <1>4, BetweenRequests
<1>6. Welcome'
  <2>1. WelcomeOf(s)'
    BY <1>4 DEF WelcomeOf, Welcoming
  <2> QED
    BY <1>2, <1>3, <1>4, <2>1, WelcomeKept
<1>7. /\ Head(unassignedServerIds) \in Servers
      /\ Contains(unassignedServerIds, Head(unassignedServerIds))
      /\ \A id \in Servers : Contains(unassignedServerIds', id) => Contains(unassignedServerIds, id)
  <2>1. unassignedServerIds \in Seq(Servers)
    BY <1>1 DEF TypeOK
  <2>2. Head(unassignedServerIds) \in Servers /\ Head(unassignedServerIds) = unassignedServerIds[1]
        /\ 1 \in 1 .. Len(unassignedServerIds)
    BY <1>2, <2>1
  <2>3. Contains(unassignedServerIds, Head(unassignedServerIds))
    BY <2>2 DEF Contains
  <2>4. \A id \in Servers : Contains(unassignedServerIds', id) => Contains(unassignedServerIds, id)
    BY <1>2, <2>1, ContainsTail
  <2> QED
    BY <2>2, <2>3, <2>4
<1>8. Removing = {} /\ Putting' = {s}
  BY <1>2, <1>4 DEF Removing, Putting, Locked, Steps
<1>9. LateRows'
  <2>1. /\ \A id \in Servers : Contains(unassignedServerIds, id) =>
             rowIp[id] # NoRow /\ serverIdIpPortMapping[id] = None
        /\ \A id \in Servers : serverIdIpPortMapping[id] # None => rowIp[id] # NoRow
    BY <1>1, <1>2, <1>8 DEF LateRows
  <2> QED
    BY <1>2, <1>4, <1>7, <1>8, <2>1 DEF LateRows
<1> QED
  BY <1>5, <1>6, <1>9 DEF LateInv

LEMMA LatePut ==
    ASSUME Late, Known, NEW s \in Sessions, AddPutMapping(s)
    PROVE  LateInv'
<1>1. /\ TypeInv /\ SerialInv /\ TypeOK /\ Locals /\ LateRows /\ Welcome /\ ListInv
  BY DEF Known, TypeInv, LateInv, SerialInv
<1>2. /\ Locked = {s} /\ pc[Rest] = "idle" /\ s \in Putting /\ s \in Adding
      /\ ipPort[s] \in Agents /\ serverId[s] \in Servers
      /\ pc' = [pc EXCEPT ![s] = "addRow"]
      /\ serverIdIpPortMapping' = [serverIdIpPortMapping EXCEPT ![serverId[s]] = ipPort[s]]
      /\ UNCHANGED <<webSocketSessions, unassignedServerIds, rowIp, simRunning, serverId, ipPort, readIp>>
  BY <1>1, PutIsAlone DEF database, locals
<1>3. UNCHANGED <<mounted, alive, agentServer>>
  BY DEF AddPutMapping, agents
<1>4. Steps(s) /\ pc[s] = "addPut" /\ pc'[s] = "addRow"
  BY <1>1, <1>2 DEF Steps, TypeOK, Threads, Putting
<1>5. LateStart'
  BY <1>4, BetweenRequests
<1>6. /\ serverIdIpPortMapping'[serverId[s]] = ipPort[s] /\ ipPort[s] # None
      /\ \A id \in Servers \ {serverId[s]} : serverIdIpPortMapping'[id] = serverIdIpPortMapping[id]
      /\ serverIdIpPortMapping[serverId[s]] = None /\ rowIp[serverId[s]] # NoRow
      /\ ~Contains(unassignedServerIds, serverId[s])
  BY <1>1, <1>2 DEF TypeOK, LateRows, ListInv
<1>7. Putting' = {} /\ Removing = {} /\ Removing' = {}
  BY <1>2, <1>4 DEF Removing, Putting, Locked, Steps
<1>8. LateRows'
  BY <1>1, <1>2, <1>4, <1>6, <1>7 DEF LateRows, Steps
<1>9. Welcome'
  <2> SUFFICES ASSUME NEW r \in Sessions PROVE WelcomeOf(r)'
    BY DEF Welcome
  <2>1. CASE r = s
    BY <1>4, <2>1 DEF WelcomeOf, Welcoming
  <2>2. CASE r # s
    <3>1. WelcomeOf(r) /\ pc'[r] = pc[r] /\ (pc[r] \notin {"unused", "closed"} => ipPort[r] # ipPort[s])
      BY <1>1, <1>4, <2>2, OneActive DEF Welcome, Steps
    <3>2. Welcoming(r) => serverId[r] \in Servers /\ ipPort[r] \in Agents
      BY <1>1 DEF Locals, Welcoming, HasServer, HasAgent, Threads, SessionPcs
    <3>3. pc[r] = "opened" => ipPort[r] \in Agents
      BY <1>1 DEF Locals, HasAgent, Threads, SessionPcs
    <3>4. Welcoming(r) => serverIdIpPortMapping'[serverId[r]] = ipPort[r]
      BY <1>6, <3>1, <3>2 DEF WelcomeOf
    <3>5. pc[r] = "opened" => \A id \in Servers :
             serverIdIpPortMapping'[id] = ipPort[r] => serverIdIpPortMapping[id] = ipPort[r]
      BY <1>6, <3>1, <3>3
    <3> QED
      BY <1>2, <1>3, <3>1, <3>4, <3>5 DEF WelcomeOf, Welcoming
  <2> QED
    BY <2>1, <2>2
<1> QED
  BY <1>5, <1>8, <1>9 DEF LateInv

LEMMA LateMerge ==
    ASSUME Late, Known, NEW s \in Sessions, AddMergeRow(s)
    PROVE  LateInv'
<1>1. /\ TypeInv /\ SerialInv /\ TypeOK /\ Locals /\ LateRows /\ MappingInv
  BY DEF Known, TypeInv, LateInv, SerialInv
<1>2. /\ pc[s] = "addMerge" /\ ipPort[s] \in Agents /\ serverId[s] \in Servers
      /\ rowIp' = [rowIp EXCEPT ![serverId[s]] = ipPort[s]]
      /\ UNCHANGED <<unassignedServerIds, serverIdIpPortMapping, serverId, alive, agentServer, mounted>>
  BY <1>1 DEF AddMergeRow, Locals, HasServer, HasAgent, Threads, SessionPcs, registry, locals, agents
<1>3. Steps(s) /\ pc'[s] = "greet"
  BY <1>1 DEF AddMergeRow, Steps, Goto, TypeOK, Threads, registry, locals
<1>4. LateStart' /\ pc[Rest] = "idle"
  BY <1>3, BetweenRequests
<1>5. \A id \in Servers : rowIp[id] # NoRow => rowIp'[id] # NoRow
  BY <1>1, <1>2 DEF TypeOK
<1>6. /\ \A r \in Putting' : r \in Putting /\ serverId[r] \in Servers
      /\ Removing' = Removing
  BY <1>1, <1>2, <1>3 DEF Putting, Removing, Steps, Locals, HasServer, Threads
<1>7. LateRows'
  BY <1>1, <1>2, <1>4, <1>5, <1>6 DEF LateRows
<1>8. serverIdIpPortMapping[serverId[s]] = ipPort[s]
  BY <1>1, <1>2 DEF MappingInv, Locked, Taking, Putting
<1>9. WelcomeOf(s)'
  BY <1>2, <1>3, <1>8 DEF WelcomeOf, Welcoming, Steps
<1> QED
  BY <1>2, <1>3, <1>4, <1>7, <1>9, WelcomeKept DEF LateInv

\* The welcome of an agent, outside the monitor.
LEMMA LateGreet ==
    ASSUME Late, Known, NEW s \in Sessions,
           NewAgentSession(s) \/ ReadInitialConfig(s)
    PROVE  LateInv'
<1>1. /\ TypeInv /\ SerialInv /\ TypeOK /\ Locals /\ LateRows /\ Welcome
  BY DEF Known, TypeInv, LateInv
<1>2. /\ pc[s] \in {"greet", "configRead"} /\ ipPort[s] \in Agents /\ serverId[s] \in Servers
      /\ UNCHANGED <<unassignedServerIds, serverIdIpPortMapping, rowIp, serverId,
                     alive, agentServer, mounted>>
  BY <1>1 DEF NewAgentSession, ReadInitialConfig, Locals, HasServer, HasAgent, Threads, SessionPcs,
              registry, locals, agents, database
<1>3. serverIdIpPortMapping[serverId[s]] = ipPort[s]
  BY <1>1, <1>2 DEF Welcome, WelcomeOf, Welcoming
<1>4. Steps(s)
  BY <1>1 DEF NewAgentSession, ReadInitialConfig, Steps, Goto, TypeOK, Threads, registry, locals, database
<1>5. LateStart' /\ pc[Rest] = "idle"
  BY <1>4, BetweenRequests
<1>6. webSocketSessions[ipPort[s]] # None /\ rowIp[serverId[s]] # NoRow /\ ~Generating
  BY <1>1, <1>2, <1>3, <1>5 DEF SerialInv, MappingInv, AssignedHasSession, LateRows, Generating
<1>7. /\ pc'[s] \in {"configRead", "configSend"}
      /\ pc'[s] = "configSend" => readIp'[s] = ipPort[s]
  BY <1>1, <1>2, <1>3, <1>6 DEF NewAgentSession, ReadInitialConfig, Goto, TypeOK, Threads
<1>8. LateRows'
  BY <1>2, <1>4, <1>7, RowsKept
<1>9. WelcomeOf(s)'
  BY <1>2, <1>3, <1>4, <1>7 DEF WelcomeOf, Welcoming, Steps
<1> QED
  BY <1>2, <1>4, <1>5, <1>8, <1>9, WelcomeKept DEF LateInv

LEMMA LateSend ==
    ASSUME Late, Known, NEW s \in Sessions, SendInitialConfig(s)
    PROVE  LateInv'
<1>1. /\ TypeInv /\ SerialInv /\ ReachInv /\ TypeOK /\ Locals /\ LateRows /\ Welcome
  BY DEF Known, TypeInv, LateInv
<1>2. /\ pc[s] = "configSend" /\ ipPort[s] \in Agents /\ serverId[s] \in Servers
      /\ UNCHANGED <<unassignedServerIds, serverIdIpPortMapping, rowIp, serverId, readIp, alive,
                     mounted, webSocketSessions>>
  BY <1>1 DEF SendInitialConfig, Locals, HasServer, HasAgent, Threads, SessionPcs,
              registry, locals, agents, database
<1>3. serverIdIpPortMapping[serverId[s]] = ipPort[s] /\ readIp[s] = ipPort[s]
  BY <1>1, <1>2 DEF Welcome, WelcomeOf, Welcoming
<1>4. Steps(s) /\ pc'[s] = "mount"
  BY <1>1 DEF SendInitialConfig, Steps, Goto, TypeOK, Threads, registry, locals, database
<1>5. LateStart'
  BY <1>4, BetweenRequests
<1>6. LateRows'
  BY <1>2, <1>4, RowsKept
<1>7. /\ alive[ipPort[s]] = s => agentServer'[ipPort[s]] = serverId[s]
      /\ \A a \in Agents \ {ipPort[s]} : agentServer'[a] = agentServer[a]
  BY <1>1, <1>2, <1>3 DEF SendInitialConfig, ReachInv, TypeOK
<1>8. ASSUME NEW r \in Sessions PROVE WelcomeOf(r)'
  <2>1. CASE r = s
    BY <1>2, <1>3, <1>4, <1>7, <2>1 DEF WelcomeOf, Welcoming, Steps
  <2>2. CASE r # s
    <3>1. WelcomeOf(r) /\ pc'[r] = pc[r] /\ (pc[r] \notin {"unused", "closed"} => ipPort[r] # ipPort[s])
      BY <1>1, <1>2, <2>2, <1>4, OneActive DEF Welcome, Steps
    <3>2. pc[r] \in {"mount", "opened"} => ipPort[r] \in Agents
      BY <1>1 DEF Locals, HasAgent, Threads, SessionPcs
    <3>3. pc[r] \in {"mount", "opened"} => agentServer'[ipPort[r]] = agentServer[ipPort[r]]
      BY <1>7, <3>1, <3>2
    <3> QED
      BY <1>2, <1>4, <3>1, <3>3 DEF WelcomeOf, Welcoming, Steps
  <2> QED
    BY <2>1, <2>2
<1> QED
  BY <1>5, <1>6, <1>8 DEF LateInv, Welcome

LEMMA LateMount ==
    ASSUME Late, Known, NEW s \in Sessions, SendMountRequest(s)
    PROVE  LateInv'
<1>1. /\ TypeInv /\ SerialInv /\ TypeOK /\ Locals /\ LateRows /\ Welcome /\ OneServerPerAgent
  BY DEF Known, TypeInv, LateInv, SerialInv, MappingInv
<1>2. /\ pc[s] = "mount" /\ ipPort[s] \in Agents /\ serverId[s] \in Servers
      /\ UNCHANGED <<unassignedServerIds, serverIdIpPortMapping, rowIp, serverId, alive, agentServer>>
      /\ mounted' = [mounted EXCEPT ![serverId[s]] = ipPort[s]]
  BY <1>1 DEF SendMountRequest, Locals, HasServer, HasAgent, Threads, SessionPcs,
              registry, locals, agents, database
<1>3. /\ serverIdIpPortMapping[serverId[s]] = ipPort[s]
      /\ (alive[ipPort[s]] = s => agentServer[ipPort[s]] = serverId[s])
  BY <1>1, <1>2 DEF Welcome, WelcomeOf, Welcoming
<1>4. Steps(s) /\ pc'[s] = "opened"
  BY <1>1 DEF SendMountRequest, Steps, Goto, TypeOK, Threads, registry, locals, database
<1>5. LateStart'
  BY <1>4, BetweenRequests
<1>6. LateRows'
  BY <1>2, <1>4, RowsKept
<1>7. /\ mounted'[serverId[s]] = ipPort[s]
      /\ \A id \in Servers \ {serverId[s]} : mounted'[id] = mounted[id]
      /\ \A id \in Servers : serverIdIpPortMapping[id] = ipPort[s] => id = serverId[s]
  BY <1>1, <1>2, <1>3 DEF TypeOK, OneServerPerAgent
<1>8. ASSUME NEW r \in Sessions PROVE WelcomeOf(r)'
  <2>1. CASE r = s
    BY <1>2, <1>3, <1>4, <1>7, <2>1 DEF WelcomeOf, Welcoming, Steps
  <2>2. CASE r # s
    <3>1. WelcomeOf(r) /\ pc'[r] = pc[r] /\ (pc[r] \notin {"unused", "closed"} => ipPort[r] # ipPort[s])
      BY <1>1, <1>2, <2>2, <1>4, OneActive DEF Welcome, Steps
    <3>2. pc[r] = "opened" => \A id \in Servers :
             serverIdIpPortMapping[id] = ipPort[r] => mounted'[id] = mounted[id]
      BY <1>3, <1>7, <3>1
    <3> QED
      BY <1>2, <1>4, <3>1, <3>2 DEF WelcomeOf, Welcoming, Steps
  <2> QED
    BY <2>1, <2>2
<1> QED
  BY <1>5, <1>6, <1>8 DEF LateInv, Welcome

\* onClose.
LEMMA LateClosed ==
    ASSUME Late, Known, NEW s \in Sessions, RemoveWebSocketSession(s)
    PROVE  LateInv'
<1>1. /\ TypeInv /\ SerialInv /\ TypeOK /\ Locals /\ LateRows /\ Welcome
  BY DEF Known, TypeInv, LateInv
<1>2. /\ pc[s] = "opened" /\ Locked = {} /\ ipPort[s] \in Agents
      /\ UNCHANGED <<serverIdIpPortMapping, rowIp, alive, agentServer, mounted>>
  BY <1>1 DEF RemoveWebSocketSession, Locals, HasAgent, Threads, SessionPcs, agents, database
<1>3. Steps(s) /\ pc'[s] \in {"rmRow", "closed"}
  BY <1>1 DEF RemoveWebSocketSession, Steps, Goto, TypeOK, Threads, database
<1>4. LateStart' /\ pc[Rest] = "idle"
  BY <1>3, BetweenRequests
<1>5. Welcome'
  <2>1. WelcomeOf(s)'
    BY <1>3 DEF WelcomeOf, Welcoming
  <2> QED
    BY <1>2, <1>3, <2>1, WelcomeKept
<1>6. CASE UNCHANGED unassignedServerIds /\ pc'[s] = "closed"
  BY <1>2, <1>3, <1>4, <1>5, <1>6, RowsKept DEF LateInv
<1>7. CASE pc'[s] = "rmRow"
  <2>1. PICK id \in ServersOf(ipPort[s]) :
          /\ unassignedServerIds' =
               IF Contains(unassignedServerIds, id) THEN unassignedServerIds
               ELSE Append(unassignedServerIds, id)
          /\ serverId' = [serverId EXCEPT ![s] = id]
    BY <1>1, <1>7 DEF RemoveWebSocketSession, Goto, TypeOK, Threads
  <2>2. id \in Servers /\ serverIdIpPortMapping[id] # None /\ serverId'[s] = id /\ s \in Removing'
    BY <1>1, <1>2, <1>7, <2>1 DEF ServersOf, TypeOK, Threads, Removing
  <2>3. \A i \in Servers : Contains(unassignedServerIds', i) =>
           Contains(unassignedServerIds, i) \/ i = id
    <3>1. unassignedServerIds \in Seq(Servers)
      BY <1>1 DEF TypeOK
    <3> QED
      BY <2>1, <2>2, <3>1, ContainsAppend
  <2>4. Putting' = {} /\ Removing = {}
    BY <1>2, <1>3, <1>7 DEF Putting, Removing, Locked, Steps
  <2>5. /\ \A i \in Servers : Contains(unassignedServerIds, i) =>
             rowIp[i] # NoRow /\ serverIdIpPortMapping[i] = None
        /\ \A i \in Servers : serverIdIpPortMapping[i] # None => rowIp[i] # NoRow
    BY <1>1, <1>4, <2>4 DEF LateRows
  <2>6. LateRows'
    BY <1>2, <2>2, <2>3, <2>4, <2>5 DEF LateRows
  <2> QED
    BY <1>4, <1>5, <2>6 DEF LateInv
<1>8. (UNCHANGED unassignedServerIds /\ pc'[s] = "closed") \/ pc'[s] = "rmRow"
  BY <1>1 DEF RemoveWebSocketSession, Goto, TypeOK, Threads
<1> QED
  BY <1>6, <1>7, <1>8

LEMMA LateReadRow ==
    ASSUME Late, Known, NEW s \in Sessions, RemoveReadRow(s)
    PROVE  LateInv'
<1>1. /\ TypeInv /\ SerialInv /\ TypeOK /\ Locals /\ LateRows /\ Welcome /\ ListInv
  BY DEF Known, TypeInv, LateInv, SerialInv
<1>2. /\ pc[s] = "rmRow" /\ s \in Removing /\ serverId[s] \in Servers
      /\ UNCHANGED <<unassignedServerIds, serverIdIpPortMapping, rowIp, serverId,
                     alive, agentServer, mounted>>
  BY <1>1 DEF RemoveReadRow, Removing, Locals, HasServer, Threads, SessionPcs,
              registry, locals, agents, database
<1>3. Steps(s)
  BY <1>1 DEF RemoveReadRow, Steps, Goto, TypeOK, Threads, registry, locals, database
<1>4. LateStart' /\ pc[Rest] = "idle"
  BY <1>3, BetweenRequests
<1>5. rowIp[serverId[s]] # NoRow
  BY <1>1, <1>2, <1>4 DEF ListInv, LateRows
<1>6. pc'[s] = "rmMerge"
  BY <1>1, <1>5 DEF RemoveReadRow, Goto, TypeOK, Threads
<1>7. LateRows'
  BY <1>2, <1>3, <1>6, RowsKept
<1>8. WelcomeOf(s)'
  BY <1>6 DEF WelcomeOf, Welcoming
<1> QED
  BY <1>2, <1>3, <1>4, <1>7, <1>8, WelcomeKept DEF LateInv

LEMMA LateLeave ==
    ASSUME Late, Known, NEW s \in Sessions, RemoveMergeRow(s)
    PROVE  LateInv'
<1>1. /\ TypeInv /\ SerialInv /\ TypeOK /\ Locals /\ LateRows /\ Welcome /\ MappingInv
  BY DEF Known, TypeInv, LateInv, SerialInv
<1>2. /\ pc[s] = "rmMerge" /\ s \in Locked /\ serverId[s] \in Servers /\ ipPort[s] \in Agents
      /\ rowIp' = [rowIp EXCEPT ![serverId[s]] = None]
      /\ serverIdIpPortMapping' = [serverIdIpPortMapping EXCEPT ![serverId[s]] = None]
      /\ UNCHANGED <<unassignedServerIds, serverId, alive, agentServer, mounted>>
  BY <1>1 DEF RemoveMergeRow, Locked, Locals, HasServer, HasAgent, Threads, SessionPcs, locals, agents
<1>3. Steps(s) /\ pc'[s] = "closed"
  BY <1>1 DEF RemoveMergeRow, Steps, Goto, TypeOK, Threads, locals
<1>4. LateStart' /\ pc[Rest] = "idle" /\ pc'[Rest] = "idle"
  BY <1>3, BetweenRequests DEF Steps
<1>5. Locked = {s} /\ serverIdIpPortMapping[serverId[s]] = ipPort[s]
  BY <1>1, <1>2, InsideIsAlone DEF MappingInv, Taking, Putting
<1>6. /\ serverIdIpPortMapping'[serverId[s]] = None /\ rowIp'[serverId[s]] # NoRow
      /\ \A id \in Servers \ {serverId[s]} :
           serverIdIpPortMapping'[id] = serverIdIpPortMapping[id] /\ rowIp'[id] = rowIp[id]
  BY <1>1, <1>2 DEF TypeOK
<1>7. Removing \subseteq {s} /\ Putting' = {}
  BY <1>3, <1>5 DEF Removing, Putting, Locked, Steps
<1>8. LateRows'
  BY <1>1, <1>2, <1>4, <1>6, <1>7 DEF LateRows
<1>9. ASSUME NEW r \in Sessions PROVE WelcomeOf(r)'
  <2>1. CASE r = s
    BY <1>3, <2>1 DEF WelcomeOf, Welcoming
  <2>2. CASE r # s
    <3>1. WelcomeOf(r) /\ pc'[r] = pc[r] /\ (pc[r] \notin {"unused", "closed"} => ipPort[r] # ipPort[s])
      BY <1>1, <1>2, <2>2, <1>3, OneActive DEF Welcome, Steps
    <3>2. /\ Welcoming(r) => serverId[r] \in Servers
          /\ pc[r] = "opened" => ipPort[r] \in Agents
      BY <1>1 DEF Locals, Welcoming, HasServer, HasAgent, Threads, SessionPcs
    <3>3. Welcoming(r) => serverIdIpPortMapping'[serverId[r]] = ipPort[r]
      BY <1>5, <1>6, <3>1, <3>2 DEF WelcomeOf, Welcoming
    <3>4. pc[r] = "opened" => \A id \in Servers :
             serverIdIpPortMapping'[id] = ipPort[r] => serverIdIpPortMapping[id] = ipPort[r]
      BY <1>6, <3>2
    <3> QED
      BY <1>2, <1>3, <3>1, <3>3, <3>4 DEF WelcomeOf, Welcoming, Steps
  <2> QED
    BY <2>1, <2>2
<1> QED
  BY <1>4, <1>8, <1>9 DEF LateInv, Welcome

\* The agents and their connections.
LEMMA LateEnvironment ==
    ASSUME Late, Known, Environment
    PROVE  LateInv'
<1>1. /\ TypeInv /\ ReachInv /\ TypeOK /\ Locals /\ LateStart /\ LateRows /\ Welcome
  BY DEF Known, TypeInv, LateInv
<1>2. ASSUME NEW a \in Agents, NEW s \in Sessions, Connect(a, s) PROVE LateInv'
  <2>1. /\ pc[s] = "unused" /\ simRunning /\ pc[Rest] = "idle"
        /\ alive' = [alive EXCEPT ![a] = s] /\ ipPort' = [ipPort EXCEPT ![s] = a]
        /\ pc' = [pc EXCEPT ![s] = "onOpen"]
        /\ UNCHANGED <<serverIdIpPortMapping, unassignedServerIds, rowIp, simRunning,
                       mounted, serverId, readIp, agentServer>>
    BY <1>2 DEF Late, Connect, Goto, registry, database
  <2>2. /\ pc'[s] = "onOpen" /\ pc'[Rest] = "idle"
        /\ \A r \in Sessions \ {s} : pc'[r] = pc[r] /\ ipPort'[r] = ipPort[r]
        /\ \A b \in Agents : alive'[b] = alive[b] \/ alive'[b] = s
    BY <1>1, <2>1 DEF TypeOK, Threads
  <2>3. LateStart'
    BY <2>1, <2>2 DEF LateStart
  <2>4. Putting' = Putting /\ Removing' = Removing
    BY <2>1, <2>2 DEF Putting, Removing
  <2>5. LateRows'
    BY <1>1, <2>1, <2>2, <2>4 DEF LateRows
  <2>6. ASSUME NEW r \in Sessions PROVE WelcomeOf(r)'
    <3>1. CASE r = s
      BY <2>2, <3>1 DEF WelcomeOf, Welcoming
    <3>2. CASE r # s
      <4>1. pc[r] \in {"mount", "opened"} => ipPort[r] \in Agents
        BY <1>1 DEF Locals, HasAgent, Threads, SessionPcs
      <4>2. pc[r] \in {"mount", "opened"} /\ alive'[ipPort[r]] = r => alive[ipPort[r]] = r
        BY <2>2, <3>2, <4>1
      <4> QED
        BY <1>1, <2>1, <2>2, <3>2, <4>2 DEF Welcome, WelcomeOf, Welcoming
    <3> QED
      BY <3>1, <3>2
  <2> QED
    BY <2>3, <2>5, <2>6 DEF LateInv, Welcome
<1>3. ASSUME NEW a \in Agents, ConnectionLost(a) \/ AgentRestart(a) PROVE LateInv'
  <2>1. /\ UNCHANGED <<serverIdIpPortMapping, unassignedServerIds, webSocketSessions, rowIp,
                       simRunning, mounted, pc, serverId, ipPort, readIp>>
        /\ \A b \in Agents : alive'[b] \in Sessions =>
             alive'[b] = alive[b] /\ agentServer'[b] = agentServer[b]
    BY <1>1, <1>3 DEF ConnectionLost, AgentRestart, registry, database, locals, TypeOK
  <2>2. LateStart' /\ LateRows'
    BY <1>1, <2>1 DEF LateStart, NoAgentYet, LateRows, Putting, Removing
  <2>3. ASSUME NEW r \in Sessions PROVE WelcomeOf(r)'
    <3>1. pc[r] \in {"mount", "opened"} => ipPort[r] \in Agents
      BY <1>1 DEF Locals, HasAgent, Threads, SessionPcs
    <3>2. pc[r] \in {"mount", "opened"} /\ alive'[ipPort[r]] = r =>
             alive[ipPort[r]] = r /\ agentServer'[ipPort[r]] = agentServer[ipPort[r]]
      BY <2>1, <3>1
    <3> QED
      BY <1>1, <2>1, <3>2 DEF Welcome, WelcomeOf, Welcoming
  <2> QED
    BY <2>2, <2>3 DEF LateInv, Welcome
<1> QED
  BY <1>2, <1>3 DEF Environment

LEMMA LateStep ==
    ASSUME Late, Known, [Next]_vars
    PROVE  LateInv'
<1>1. CASE UNCHANGED vars
  <2>1. UNCHANGED <<webSocketSessions, serverIdIpPortMapping, unassignedServerIds, rowIp, simRunning,
                    mounted, pc, serverId, ipPort, readIp, alive, agentServer>>
    BY <1>1 DEF vars, registry, database, locals, agents
  <2>2. LateStart' /\ LateRows' /\ Welcome'
    BY <2>1 DEF Known, LateInv, LateStart, NoAgentYet, LateRows, Putting, Removing, Welcome,
                WelcomeOf, Welcoming
  <2> QED
    BY <2>2 DEF LateInv
<1>2. ASSUME NEW s \in Sessions, OnOpen(s) \/ OnClose(s) \/ Configure(s) PROVE LateInv'
  BY <1>2, LateOpen, LateTake, LatePut, LateMerge, LateGreet, LateSend, LateMount, LateClosed,
     LateReadRow, LateLeave DEF OnOpen, OnClose, Configure
<1> QED
  BY <1>1, <1>2, LateEnvironment, LateRequest DEF Next, Threads

LEMMA LateInvHolds == Late => (Spec => []Known)
<1> SUFFICES ASSUME Late PROVE Spec => []Known
  OBVIOUS
<1>1. Spec => []TypeInv
  BY TypeInit, TypeStep, PTL DEF Spec
<1>2. Spec => []SerialInv
  BY RegistryIsConsistent DEF Late
<1>3. Init => ReachInv
  BY DEF Init, ReachInv, Active, Threads
<1>4. TypeInv /\ ReachInv /\ [Next]_vars => ReachInv'
  BY ReachStep DEF Late
<1>5. Spec => []ReachInv
  BY <1>1, <1>3, <1>4, PTL DEF Spec
<1>6. TypeInv /\ SerialInv /\ ReachInv /\ LateInv /\ [Next]_vars => LateInv'
  BY LateStep DEF Known
<1>7. Spec => []LateInv
  BY <1>1, <1>2, <1>5, <1>6, LateInit, PTL DEF Spec
<1>8. TypeInv /\ SerialInv /\ ReachInv /\ LateInv => Known
  BY DEF Known
<1> QED
  BY <1>1, <1>2, <1>5, <1>7, <1>8, PTL

\* When agents connect only once the simulation is running, and it is not stopped,
\* an id that is listed has no agent: onOpen and onClose keep the list and the
\* mapping apart.
THEOREM ListedIsFree == Late => (Spec => []UnassignedIsFree)
<1>1. Known => UnassignedIsFree
  <2> SUFFICES ASSUME Known, Locked = {}, NEW id \in Servers, Contains(unassignedServerIds, id)
               PROVE  serverIdIpPortMapping[id] = None
    BY DEF UnassignedIsFree
  <2>1. Removing = {}
    BY DEF Removing, Locked
  <2> QED
    BY <2>1 DEF Known, LateInv, LateRows
<1> QED
  BY LateInvHolds, <1>1, PTL

\* Under the same conditions an agent that has a server is configured for it, and
\* mounted under its id, when no handler is at work, whatever connections broke.
THEOREM AssignedAreConfigured == Late => (Spec => []AssignedIsConfigured)
<1>1. Known => AssignedIsConfigured
  <2> SUFFICES ASSUME Known, Quiet, NEW id \in Servers, serverIdIpPortMapping[id] # None,
                      webSocketSessions[serverIdIpPortMapping[id]] = alive[serverIdIpPortMapping[id]]
               PROVE  /\ agentServer[serverIdIpPortMapping[id]] = id
                      /\ mounted[id] = serverIdIpPortMapping[id]
    BY DEF AssignedIsConfigured
  <2> DEFINE a == serverIdIpPortMapping[id]
  <2>1. a \in Agents /\ webSocketSessions[a] # None
    BY DEF Known, TypeInv, TypeOK, SerialInv, MappingInv, AssignedHasSession
  <2>2. alive[a] \in Sessions /\ ipPort[alive[a]] = a /\ pc[alive[a]] \notin {"unused", "closed"}
    BY <2>1 DEF Known, TypeInv, TypeOK, ReachInv, Active
  <2>3. pc[alive[a]] = "opened"
    BY <2>2 DEF Quiet
  <2> QED
    BY <2>1, <2>2, <2>3 DEF Known, LateInv, Welcome, WelcomeOf
<1> QED
  BY LateInvHolds, <1>1, PTL

-----------------------------------------------------------------------------
(* With a server for every agent, each agent gets one.                     *)

\* The rows of the file: of the cells that have been read, and of all once the
\* simulation runs.
HasRow(i) == rowIp[Dump[i]] # NoRow
FileInRows ==
    /\ Generating => \A i \in 1 .. (next - 1) : HasRow(i)
    /\ pc[Rest] \in {"genAdd", "genRow", "genMerge"} => serverId[Rest] = Dump[next]
    /\ pc[Rest] \in {"list", "assign"} => \A i \in 1 .. Len(Dump) : HasRow(i)
    /\ pc[Rest] = "idle" /\ simRunning => \A i \in 1 .. Len(Dump) : HasRow(i)

\* A connected agent whose onOpen is done has a server.
EachIsServed ==
    \A s \in Sessions : pc[s] = "opened" /\ alive[ipPort[s]] = s => ServersOf(ipPort[s]) # {}

Enough == Cardinality(Agents) <= Cardinality(ToSet(Dump))

LEMMA DumpTypes ==
    /\ Len(Dump) \in Nat \ {0}
    /\ \A i \in 1 .. Len(Dump) : Dump[i] \in Servers
    /\ ToSet(Dump) = {Dump[i] : i \in 1 .. Len(Dump)}
<1>1. Dump \in Seq(Servers) /\ Dump # << >>
  BY DumpAssumption
<1>2. Len(Dump) \in Nat /\ DOMAIN Dump = 1 .. Len(Dump)
  BY <1>1
<1>3. Len(Dump) # 0
  BY <1>1
<1>4. ToSet(Dump) = {Dump[i] : i \in 1 .. Len(Dump)}
  BY <1>2 DEF ToSet
<1> QED
  BY <1>1, <1>2, <1>3, <1>4

LEMMA RowsStay ==
    ASSUME Late, Known, [Next]_vars, NEW id \in Servers, rowIp[id] # NoRow
    PROVE  rowIp'[id] # NoRow
<1>1. TypeOK /\ Locals /\ LateStart
  BY DEF Known, TypeInv, LateInv
<1>2. NoRow # None /\ NoRow \notin Agents
  BY DistinctNames
<1>3. pc[Rest] # "commit"
  BY <1>1 DEF LateStart
<1>4. ASSUME NEW s \in Sessions, AddMergeRow(s) \/ RemoveMergeRow(s)
      PROVE  rowIp'[id] # NoRow
  <2>1. ipPort[s] \in Agents
    BY <1>1, <1>4 DEF AddMergeRow, RemoveMergeRow, Locals, HasAgent, Threads, SessionPcs
  <2> QED
    BY <1>1, <1>2, <1>4, <2>1 DEF AddMergeRow, RemoveMergeRow, TypeOK
<1>5. CASE GenerateMergeRow
  BY <1>1, <1>2, <1>5 DEF GenerateMergeRow, TypeOK
<1>6. CASE UNCHANGED rowIp
  BY <1>6
<1>7. \/ UNCHANGED rowIp \/ GenerateMergeRow \/ StopCommit
      \/ \E s \in Sessions : AddMergeRow(s) \/ RemoveMergeRow(s)
  <2>1. CASE Environment
    BY <2>1 DEF Environment, Connect, ConnectionLost, AgentRestart, database
  <2>2. ASSUME NEW s \in Sessions, OnOpen(s) \/ OnClose(s)
        PROVE  UNCHANGED rowIp \/ AddMergeRow(s) \/ RemoveMergeRow(s)
    BY <2>2 DEF OnOpen, OnClose, AddWebSocketSession, TakeServerId, AddPutMapping, AddReadRow,
                NewAgentSession, RemoveWebSocketSession, RemoveReadRow, database
  <2>3. ASSUME NEW t \in Threads, Configure(t)
        PROVE  UNCHANGED rowIp
    BY <2>3 DEF Configure, ReadInitialConfig, SendInitialConfig, SendMountRequest, database
  <2>4. CASE Request
    BY <2>4 DEF Request, Generate, SendInitialConfigAll, StartSimulation, GenerateCheck, GenerateAdd,
                GenerateReadRow, ListServers, AssignNext, PutMapping, AssignSession, StartDone,
                StopSimulation, database
  <2> QED
    BY <2>1, <2>2, <2>3, <2>4 DEF Next, vars, database
<1> QED
  BY <1>3, <1>4, <1>5, <1>6, <1>7 DEF StopCommit

LEMMA FileInit == Init => FileInRows
BY DEF Init, FileInRows, Generating, Threads

\* The rows of the file are written one after the other by the request, before
\* the simulation runs.
LEMMA FileRequest ==
    ASSUME Late, Known, FileInRows, Request, \A i \in 1 .. Len(Dump) : HasRow(i) => HasRow(i)'
    PROVE  FileInRows'
<1> USE DEF Goto, registry, database, request, agents, locals
<1>1. /\ TypeOK /\ Locals /\ LateStart
  BY DEF Known, TypeInv, LateInv
<1>2. /\ Rest \in Threads /\ pc \in [Threads -> SessionPcs \cup RestPcs]
      /\ serverId \in [Threads -> Servers \cup {None}] /\ next \in 0 .. Len(Dump)
      /\ Len(Dump) \in Nat \ {0}
  BY <1>1, DumpTypes DEF TypeOK, Threads
<1>3. CASE StartSimulation
  <2>1. pc'[Rest] = "genCheck" /\ next' = 1
    BY <1>2, <1>3 DEF StartSimulation
  <2> QED
    BY <2>1 DEF FileInRows, Generating
<1>4. CASE GenerateCheck
  <2>1. /\ pc'[Rest] \in {"genAdd", "genRow"} /\ serverId'[Rest] = Dump[next] /\ next' = next
        /\ \A i \in 1 .. (next - 1) : HasRow(i)
    BY <1>2, <1>4 DEF GenerateCheck, FileInRows, Generating
  <2> QED
    BY <1>2, <2>1 DEF FileInRows, Generating
<1>5. CASE GenerateAdd \/ GenerateReadRow
  <2>1. /\ pc'[Rest] \in {"genRow", "genMerge"} /\ serverId'[Rest] = Dump[next] /\ next' = next
        /\ \A i \in 1 .. (next - 1) : HasRow(i)
    BY <1>2, <1>5 DEF GenerateAdd, GenerateReadRow, FileInRows, Generating
  <2> QED
    BY <1>2, <2>1 DEF FileInRows, Generating
<1>6. CASE GenerateMergeRow
  <2>1. /\ serverId[Rest] = Dump[next] /\ next \in 1 .. Len(Dump)
        /\ \A i \in 1 .. (next - 1) : HasRow(i)
    BY <1>1, <1>6 DEF GenerateMergeRow, FileInRows, Generating, Locals
  <2>2. Dump[next] \in Servers /\ NoRow # None
    BY <2>1, DumpTypes, DistinctNames
  <2>3. rowIp'[Dump[next]] # NoRow
    BY <1>1, <1>6, <2>1, <2>2 DEF GenerateMergeRow, TypeOK
  <2>4. \A i \in 1 .. next : HasRow(i)'
    <3>1. \A i \in 1 .. (next - 1) : HasRow(i)'
      BY <1>2, <2>1
    <3> QED
      BY <2>1, <2>3, <3>1 DEF HasRow
  <2>5. CASE next = Len(Dump)
    <3>1. pc'[Rest] = "list"
      BY <1>2, <1>6, <2>5 DEF GenerateMergeRow
    <3> QED
      BY <2>4, <2>5, <3>1 DEF FileInRows, Generating
  <2>6. CASE next # Len(Dump)
    <3>1. pc'[Rest] = "genCheck" /\ next' = next + 1
      BY <1>2, <1>6, <2>6 DEF GenerateMergeRow
    <3>2. 1 .. (next' - 1) = 1 .. next
      BY <1>2, <3>1
    <3> QED
      BY <2>4, <3>1, <3>2 DEF FileInRows, Generating
  <2> QED
    BY <2>5, <2>6
<1>7. CASE ListServers \/ AssignNext \/ StartDone
  <2>1. \A i \in 1 .. Len(Dump) : HasRow(i)'
    BY <1>7 DEF ListServers, AssignNext, StartDone, FileInRows
  <2>2. pc'[Rest] \notin {"genCheck", "genAdd", "genRow", "genMerge"}
    <3>1. pc'[Rest] \in {"assign", "session", "put", "idle"}
      BY <1>2, <1>7 DEF ListServers, AssignNext, StartDone
    <3> QED
      BY <3>1
  <2> QED
    BY <2>1, <2>2 DEF FileInRows, Generating
<1>8. ~StopSimulation /\ ~StopCommit /\ ~PutMapping /\ ~AssignSession
  BY <1>1 DEF LateStart, StopSimulation, StopCommit, PutMapping, AssignSession, Late, TypeOK
<1> QED
  BY <1>3, <1>4, <1>5, <1>6, <1>7, <1>8 DEF Request, Generate, SendInitialConfigAll

LEMMA FileStep ==
    ASSUME Late, Known, FileInRows, [Next]_vars
    PROVE  FileInRows'
<1>1. \A i \in 1 .. Len(Dump) : HasRow(i) => HasRow(i)'
  BY RowsStay, DumpTypes DEF HasRow
<1>2. TypeOK /\ LateStart
  BY DEF Known, TypeInv, LateInv
<1>3. ASSUME UNCHANGED <<pc[Rest], next, simRunning, serverId[Rest]>>
      PROVE  FileInRows'
  <2>1. Generating => 1 .. (next - 1) \subseteq 1 .. Len(Dump)
    BY <1>2, DumpTypes DEF TypeOK
  <2> QED
    BY <1>1, <1>3, <2>1 DEF FileInRows, Generating
<1>4. CASE Environment
  BY <1>2, <1>3, <1>4 DEF Environment, Connect, ConnectionLost, AgentRestart, Goto, database, request,
     locals, TypeOK, Threads, DistinctNames
<1>5. ASSUME NEW s \in Sessions, OnOpen(s) \/ OnClose(s) \/ Configure(s)
      PROVE  FileInRows'
  <2>1. s # Rest /\ Rest \in Threads /\ pc \in [Threads -> SessionPcs \cup RestPcs]
        /\ serverId \in [Threads -> Servers \cup {None}]
    BY <1>2, DistinctNames DEF TypeOK, Threads
  <2>2. UNCHANGED <<next, simRunning>>
    BY <1>5 DEF OnOpen, OnClose, Configure, AddWebSocketSession, TakeServerId, AddPutMapping,
         AddReadRow, AddMergeRow, NewAgentSession, RemoveWebSocketSession, RemoveReadRow,
         RemoveMergeRow, ReadInitialConfig, SendInitialConfig, SendMountRequest, database, request
  <2>3. pc'[Rest] = pc[Rest]
    BY <1>5, <2>1 DEF OnOpen, OnClose, Configure, AddWebSocketSession, TakeServerId, AddPutMapping,
         AddReadRow, AddMergeRow, NewAgentSession, RemoveWebSocketSession, RemoveReadRow,
         RemoveMergeRow, ReadInitialConfig, SendInitialConfig, SendMountRequest, Goto
  <2>4. serverId'[Rest] = serverId[Rest]
    BY <1>5, <2>1 DEF OnOpen, OnClose, Configure, AddWebSocketSession, TakeServerId, AddPutMapping,
         AddReadRow, AddMergeRow, NewAgentSession, RemoveWebSocketSession, RemoveReadRow,
         RemoveMergeRow, ReadInitialConfig, SendInitialConfig, SendMountRequest, locals
  <2> QED
    BY <1>3, <2>2, <2>3, <2>4
<1>6. ~Configure(Rest)
  BY <1>2 DEF LateStart, Configure, ReadInitialConfig, SendInitialConfig, SendMountRequest
<1>7. CASE UNCHANGED vars
  BY <1>3, <1>7 DEF vars, database, request, locals
<1> QED
  BY <1>1, <1>4, <1>5, <1>6, <1>7, FileRequest DEF Next, Threads

\* If the list is empty and no handler is at work, every id of the file is mapped;
\* an agent that has none would leave too few agents to map them to.
LEMMA NoneIsLeftOut ==
    ASSUME Known, CoverInv, FileInRows, Enough, pc[Rest] = "idle", simRunning,
           unassignedServerIds = << >>, Locked = {}, NEW a \in Agents
    PROVE  ServersOf(a) # {}
<1> SUFFICES ASSUME ServersOf(a) = {}
             PROVE  FALSE
  OBVIOUS
<1>1. /\ TypeOK /\ NoServerLost /\ OneServerPerAgent
  BY DEF Known, TypeInv, CoverInv, SerialInv, MappingInv
<1>2. ToSet(Dump) \subseteq Servers
  BY DumpTypes
<1>3. \A id \in ToSet(Dump) : rowIp[id] # NoRow
  BY DumpTypes DEF FileInRows, HasRow
<1>4. \A id \in Servers : ~Contains(unassignedServerIds, id)
  BY DEF Contains
<1>5. ~ \E s \in Sessions : pc[s] = "addPut"
  BY DEF Locked
<1>6. \A id \in ToSet(Dump) : serverIdIpPortMapping[id] \in Agents \ {a}
  BY <1>1, <1>2, <1>3, <1>4, <1>5 DEF NoServerLost, ServersOf, TypeOK
<1> DEFINE f == [id \in ToSet(Dump) |-> serverIdIpPortMapping[id]]
<1>7. f \in Injection(ToSet(Dump), Agents \ {a})
  <2>1. f \in [ToSet(Dump) -> Agents \ {a}]
    BY <1>6
  <2>2. \A i, j \in ToSet(Dump) : f[i] = f[j] => i = j
    BY <1>1, <1>2, <1>6, DistinctNames DEF OneServerPerAgent
  <2> QED
    BY <2>1, <2>2 DEF Injection, IsInjective
<1>8. /\ IsFiniteSet(Agents \ {a}) /\ Cardinality(Agents \ {a}) = Cardinality(Agents) - 1
      /\ Cardinality(Agents) \in Nat
  BY AgentAssumption, FS_RemoveElement, FS_CardinalityType
<1>9. IsFiniteSet(ToSet(Dump)) /\ Cardinality(ToSet(Dump)) <= Cardinality(Agents \ {a})
  BY <1>7, <1>8, FS_Injection
<1>10. Cardinality(ToSet(Dump)) \in Nat
  BY <1>9, FS_CardinalityType
<1> QED
  BY <1>8, <1>9, <1>10 DEF Enough

\* The steps of one session's callback: no other agent loses its server.
LEMMA OthersAreServed ==
    ASSUME Late, Known, NEW s \in Sessions, OnOpen(s) \/ OnClose(s) \/ Configure(s),
           NEW r \in Sessions \ {s}, pc[r] = "opened", ServersOf(ipPort[r]) # {}
    PROVE  ServersOf(ipPort[r])' # {}
<1>1. /\ TypeInv /\ SerialInv /\ TypeOK /\ Locals /\ LateRows /\ MappingInv
  BY DEF Known, TypeInv, LateInv, SerialInv
<1>2. PICK id \in Servers : serverIdIpPortMapping[id] = ipPort[r]
  BY DEF ServersOf
<1>3. ipPort[r] \in Agents /\ ipPort[r] # None
  BY <1>1, DistinctNames DEF Locals, HasAgent, Threads, SessionPcs
<1>4. UNCHANGED ipPort
  BY DEF OnOpen, OnClose, Configure, AddWebSocketSession, TakeServerId, AddPutMapping,
         AddReadRow, AddMergeRow, NewAgentSession, RemoveWebSocketSession, RemoveReadRow,
         RemoveMergeRow, ReadInitialConfig, SendInitialConfig, SendMountRequest, locals
<1>5. serverIdIpPortMapping'[id] = serverIdIpPortMapping[id]
  <2>1. CASE AddPutMapping(s)
    <3>1. serverIdIpPortMapping[serverId[s]] = None
      BY <1>1, <2>1 DEF AddPutMapping, LateRows, Putting
    <3> QED
      BY <1>1, <1>2, <1>3, <2>1, <3>1 DEF AddPutMapping, TypeOK
  <2>2. CASE RemoveMergeRow(s)
    <3>1. serverIdIpPortMapping[serverId[s]] = ipPort[s]
      BY <1>1, <2>2 DEF RemoveMergeRow, MappingInv, Locked, Taking, Putting
    <3>2. ipPort[s] # ipPort[r]
      BY <2>2, OneActive DEF RemoveMergeRow
    <3> QED
      BY <1>1, <1>2, <2>2, <3>1, <3>2 DEF RemoveMergeRow, TypeOK
  <2>3. CASE UNCHANGED serverIdIpPortMapping
    BY <2>3
  <2> QED
    BY <2>1, <2>2, <2>3 DEF OnOpen, OnClose, Configure, AddWebSocketSession, TakeServerId,
         AddReadRow, AddMergeRow, NewAgentSession, RemoveWebSocketSession, RemoveReadRow,
         ReadInitialConfig, SendInitialConfig, SendMountRequest, registry
<1> QED
  BY <1>2, <1>4, <1>5 DEF ServersOf

\* A callback ends with the agent served: it was welcomed, or found the list empty,
\* and then it had a server already.
LEMMA OpenedIsServed ==
    ASSUME Late, Known, CoverInv, FileInRows, Enough, NEW s \in Sessions,
           OnOpen(s) \/ OnClose(s) \/ Configure(s), pc'[s] = "opened"
    PROVE  ServersOf(ipPort[s])' # {}
<1>1. /\ TypeInv /\ TypeOK /\ Locals /\ LateStart /\ Welcome
  BY DEF Known, TypeInv, LateInv
<1>2. s \in Threads /\ pc \in [Threads -> SessionPcs \cup RestPcs]
  BY <1>1 DEF TypeOK, Threads
<1>3. CASE AddWebSocketSession(s)
  <2>1. /\ pc[s] = "onOpen" /\ Locked = {} /\ ipPort[s] \in Agents
        /\ UNCHANGED <<serverIdIpPortMapping, ipPort>>
    BY <1>1, <1>3 DEF AddWebSocketSession, Locals, HasAgent, Threads, SessionPcs
  <2>2. ServersOf(ipPort[s]) = {} => unassignedServerIds = << >>
    BY <1>2, <1>3 DEF AddWebSocketSession, Goto
  <2>3. pc[Rest] = "idle" /\ simRunning
    BY <1>1, <2>1 DEF LateStart, NoAgentYet
  <2> QED
    BY <2>1, <2>2, <2>3, NoneIsLeftOut DEF ServersOf
<1>4. CASE NewAgentSession(s) \/ SendMountRequest(s)
  <2>1. /\ serverId[s] \in Servers /\ serverIdIpPortMapping[serverId[s]] = ipPort[s]
        /\ UNCHANGED <<serverIdIpPortMapping, ipPort>>
    BY <1>1, <1>2, <1>4 DEF NewAgentSession, SendMountRequest, Locals, HasServer, Welcome, WelcomeOf,
       Welcoming, registry, locals
  <2> QED
    BY <2>1 DEF ServersOf
<1>5. AddWebSocketSession(s) \/ NewAgentSession(s) \/ SendMountRequest(s)
  BY <1>2 DEF OnOpen, OnClose, Configure, TakeServerId, AddPutMapping, AddReadRow, AddMergeRow,
       RemoveWebSocketSession, RemoveReadRow, RemoveMergeRow, ReadInitialConfig, SendInitialConfig,
       Goto
<1> QED
  BY <1>3, <1>4, <1>5

LEMMA ServedStep ==
    ASSUME Late, Known, CoverInv, FileInRows, Enough, EachIsServed, [Next]_vars
    PROVE  EachIsServed'
<1>1. TypeOK /\ Locals /\ LateStart
  BY DEF Known, TypeInv, LateInv
<1> SUFFICES ASSUME NEW r \in Sessions, pc'[r] = "opened", alive'[ipPort'[r]] = r
             PROVE  ServersOf(ipPort[r])' # {}
  BY DEF EachIsServed, ServersOf
<1>2. CASE Environment
  <2>1. ASSUME NEW a \in Agents, NEW s \in Sessions, Connect(a, s)
        PROVE  ServersOf(ipPort[r])' # {}
    <3>1. r # s /\ pc[r] = "opened" /\ ipPort'[r] = ipPort[r] /\ ipPort[r] \in Agents
      BY <1>1, <2>1 DEF Connect, Goto, TypeOK, Locals, HasAgent, Threads, SessionPcs
    <3>2. alive[ipPort[r]] = r /\ UNCHANGED serverIdIpPortMapping
      BY <1>1, <2>1, <3>1 DEF Connect, TypeOK, registry
    <3> QED
      BY <3>1, <3>2 DEF EachIsServed, ServersOf
  <2>2. ASSUME NEW a \in Agents, ConnectionLost(a) \/ AgentRestart(a)
        PROVE  ServersOf(ipPort[r])' # {}
    <3>1. UNCHANGED <<pc, ipPort, serverIdIpPortMapping>> /\ ipPort[r] \in Agents
      BY <1>1, <2>2 DEF ConnectionLost, AgentRestart, registry, locals, Locals, HasAgent, Threads,
         SessionPcs
    <3>2. alive[ipPort[r]] = r
      BY <1>1, <2>2, <3>1, DistinctNames DEF ConnectionLost, AgentRestart, TypeOK
    <3> QED
      BY <3>1, <3>2 DEF EachIsServed, ServersOf
  <2> QED
    BY <1>2, <2>1, <2>2 DEF Environment
<1>3. ASSUME NEW s \in Sessions, OnOpen(s) \/ OnClose(s) \/ Configure(s)
      PROVE  ServersOf(ipPort[r])' # {}
  <2>1. CASE r = s
    BY <1>3, <2>1, OpenedIsServed
  <2>2. CASE r # s
    <3>1. UNCHANGED <<ipPort, alive>>
      BY <1>3 DEF OnOpen, OnClose, Configure, AddWebSocketSession, TakeServerId, AddPutMapping,
         AddReadRow, AddMergeRow, NewAgentSession, RemoveWebSocketSession, RemoveReadRow,
         RemoveMergeRow, ReadInitialConfig, SendInitialConfig, SendMountRequest, locals, agents
    <3>2. pc'[r] = pc[r]
      BY <1>1, <1>3, <2>2 DEF OnOpen, OnClose, Configure, AddWebSocketSession, TakeServerId, AddPutMapping,
         AddReadRow, AddMergeRow, NewAgentSession, RemoveWebSocketSession, RemoveReadRow,
         RemoveMergeRow, ReadInitialConfig, SendInitialConfig, SendMountRequest, Goto, TypeOK, Threads
    <3> QED
      BY <1>3, <2>2, <3>1, <3>2, OthersAreServed DEF EachIsServed
  <2> QED
    BY <2>1, <2>2
<1>4. CASE Request \/ Configure(Rest)
  <2>2. Request
    BY <1>1, <1>4 DEF LateStart, Configure, ReadInitialConfig, SendInitialConfig, SendMountRequest
  <2>3. pc'[r] = pc[r]
    BY <2>2, RequestIsAlone DEF Late, Known
  <2>4. pc[r] = "unused"
    <3>1. pc[Rest] # "idle" \/ ~simRunning
      BY <1>1, <2>2 DEF Late, LateStart, Request, Generate, SendInitialConfigAll, StartSimulation,
         GenerateCheck, GenerateAdd, GenerateReadRow, GenerateMergeRow, ListServers, AssignNext,
         PutMapping, AssignSession, StartDone, StopSimulation, StopCommit, TypeOK
    <3> QED
      BY <1>1, <3>1 DEF LateStart, NoAgentYet
  <2> QED
    BY <2>3, <2>4
<1>5. CASE UNCHANGED vars
  BY <1>5 DEF vars, registry, locals, agents, EachIsServed, ServersOf
<1> QED
  BY <1>2, <1>3, <1>4, <1>5 DEF Next, Threads

\* With at least as many servers in the file as there are agents, connected agents
\* have different configurations when no handler is at work: an onOpen finds a free
\* id whenever its agent has none, since no id is lost and none is given twice.
THEOREM ServersAreNotShared == Late => (Spec => []OneAgentPerServer)
<1> SUFFICES ASSUME Late PROVE Spec => []OneAgentPerServer
  OBVIOUS
<1>1. Spec => []Known
  BY LateInvHolds
<1>2. Spec => []CoverInv
  <2>1. Init => CoverInv
    BY DEF Init, CoverInv, NoServerLost, Threads
  <2> QED
    BY <2>1, TypeInit, TypeStep, CoverStep, PTL DEF Spec
<1>3. Spec => []FileInRows
  BY <1>1, FileInit, FileStep, PTL DEF Spec
<1>4. Init => EachIsServed
  BY DEF Init, EachIsServed, Threads
<1>5. Enough /\ Known /\ CoverInv /\ FileInRows /\ EachIsServed /\ [Next]_vars => EachIsServed'
  BY ServedStep
<1>6. (Enough => EachIsServed) /\ Known /\ CoverInv /\ FileInRows /\ [Next]_vars
        => (Enough => EachIsServed)'
  BY <1>5 DEF Enough
<1>7. Spec => [](Enough => EachIsServed)
  BY <1>1, <1>2, <1>3, <1>4, <1>6, PTL DEF Spec
<1>8. Known /\ (Enough => EachIsServed) => OneAgentPerServer
  <2> SUFFICES ASSUME Known, EachIsServed, Quiet, NEW a \in Agents, NEW b \in Agents,
                      alive[a] # None, alive[b] # None, agentServer[a] = agentServer[b]
               PROVE  a = b
    BY DEF OneAgentPerServer, Enough
  <2>1. ASSUME NEW c \in Agents, alive[c] # None
        PROVE  \E id \in Servers : serverIdIpPortMapping[id] = c /\ agentServer[c] = id
    <3>1. alive[c] \in Sessions /\ ipPort[alive[c]] = c /\ pc[alive[c]] \notin {"unused", "closed"}
      BY <2>1 DEF Known, TypeInv, TypeOK, ReachInv, Active
    <3>2. pc[alive[c]] = "opened"
      BY <3>1 DEF Quiet
    <3>3. PICK id \in Servers : serverIdIpPortMapping[id] = c
      BY <3>1, <3>2 DEF EachIsServed, ServersOf
    <3> QED
      BY <3>1, <3>2, <3>3 DEF Known, LateInv, Welcome, WelcomeOf
  <2> QED
    BY <2>1
<1> QED
  BY <1>1, <1>7, <1>8, PTL

=============================================================================
