-------------------------- MODULE AgentConfigProofs --------------------------
(* What the agent reports, when it reports at all, and that a change of    *)
(* either side arrives at the other, for every set of cells and every      *)
(* number of handlers, changes and commits.                                *)
EXTENDS AgentConfig, TLAPS

-----------------------------------------------------------------------------
(* The invariant.                                                          *)

\* Who initialises Honeycomb: between ignoreEvents and monitorEvents.
Busy(t) == pc[t] \in {"ignore", "boot", "monitor"}

\* A thread has the handler and the message it works with.
ThreadsHold ==
    /\ \A t \in Threads : pc[t] \in {"connect", "assign", "handle"} => handler[t] # 0
    /\ \A t \in Threads : pc[t] \in {"handle", "ignore", "boot", "monitor"} => instance # 0
    /\ pc[0] = "idle" => instance # 0
    /\ \A h \in Handlers : pc[h] # "idle" => toAgent[h] # << >>

\* Nothing is sent over a session that does not exist.
SessionsAreMade ==
    /\ agentSession \in 0 .. made
    /\ \A h \in Handlers : h > made => toAgent[h] = << >>

OneHandler == "second" \notin mishaps => made <= 1

MainIsAlone ==
    "overlap" \notin mishaps => pc[0] = "idle" \/ \A h \in Handlers : ~Busy(h)

\* While Honeycomb reads the file, the flag is off.
BootIsSilent ==
    mishaps \cap {"second", "overlap"} = {} =>
        \A t \in Threads : pc[t] = "boot" => ~initialized[instance]

\* While nobody initialises Honeycomb, it is on.
FlagIsOn ==
    /\ mishaps \cap {"second", "failed"} = {}
    /\ pc[0] = "idle" /\ \A h \in Handlers : ~Busy(h)
    => initialized[instance]

Structure == TypeOK /\ ThreadsHold /\ SessionsAreMade /\ OneHandler /\ MainIsAlone
Inv == Structure /\ BootIsSilent /\ FlagIsOn /\ NoEcho

USE NamesAssumption, BoundsAssumption

LEMMA InitInv == Init => Inv
BY DEF Init, Inv, Structure, TypeOK, ThreadsHold, SessionsAreMade, OneHandler, MainIsAlone,
       BootIsSilent, FlagIsOn, NoEcho, Busy, Handlers, Threads, Empty

-----------------------------------------------------------------------------
(* Lemmas about what is sent to the agent and read by it.                  *)

\* A message keeps the channels well typed, and the last of them not empty.
LEMMA Sending ==
    ASSUME toAgent \in [Handlers -> Seq(Messages)], NEW k \in Handlers, NEW m \in Messages,
           toAgent' = [toAgent EXCEPT ![k] = Append(@, m)]
    PROVE  /\ toAgent' \in [Handlers -> Seq(Messages)]
           /\ \A h \in Handlers : toAgent[h] # << >> => toAgent'[h] # << >>
           /\ \A h \in Handlers : h # k => toAgent'[h] = toAgent[h]
           /\ toAgent'[k] # << >>
<1>1. Append(toAgent[k], m) \in Seq(Messages) /\ Append(toAgent[k], m) # << >>
  OBVIOUS
<1> QED
  BY <1>1

\* The message a thread has received is one of the two kinds.
LEMMA Receiving ==
    ASSUME toAgent \in [Handlers -> Seq(Messages)], NEW t \in Handlers, toAgent[t] # << >>
    PROVE  /\ Received(t) \in Messages
           /\ Tail(toAgent[t]) \in Seq(Messages)
BY DEF Received

LEMMA SetIsTopology ==
    ASSUME NEW m \in Messages, m.type = "set"
    PROVE  m.pcis \in [Cells -> Pcis]
BY DEF Messages

LEMMA UpdateIsCell ==
    ASSUME NEW m \in Messages, m.type = "update"
    PROVE  m.cell \in Cells /\ m.pci \in Pcis
BY DEF Messages

LEMMA SetConfigIsMessage ==
    ASSUME TypeOK
    PROVE  SetConfig \in Messages
BY DEF TypeOK, SetConfig, Messages

-----------------------------------------------------------------------------
(* getConfigJsonHandler. *)

LEMMA UseHandlerInv ==
    ASSUME Inv, NEW t \in Threads, UseHandler(t)
    PROVE  Inv'
<1> USE DEF Inv, Structure, UseHandler, Go, Threads, Handlers
<1>1. TypeOK'
  BY DEF TypeOK, controller, memory, histories
<1>2. ThreadsHold'
  BY DEF ThreadsHold, Busy, TypeOK, Asks, memory
<1>3. SessionsAreMade' /\ OneHandler' /\ MainIsAlone'
  BY DEF TypeOK, ThreadsHold, SessionsAreMade, OneHandler, MainIsAlone, Busy, Asks,
         controller, memory, histories
<1>4. BootIsSilent' /\ FlagIsOn' /\ NoEcho'
  BY DEF TypeOK, BootIsSilent, FlagIsOn, NoEcho, Busy, Asks, controller, memory, histories
<1> QED
  BY <1>1, <1>2, <1>3, <1>4

LEMMA NewHandlerInv ==
    ASSUME Inv, NEW t \in Threads, NewHandler(t)
    PROVE  Inv'
<1> USE DEF Inv, Structure, NewHandler, Go, Threads, Handlers
<1>a. made \in Nat /\ made' = made + 1 /\ made' \in 0 .. MaxHandlers
  BY DEF TypeOK
<1>b. instance' \in 0 .. made' /\ handler' \in [Threads -> 0 .. made']
  BY <1>a DEF TypeOK
<1>1. TypeOK'
  BY <1>a, <1>b DEF TypeOK, controller, Mishaps
<1>2. ThreadsHold'
  BY DEF ThreadsHold, Busy, TypeOK, Asks
<1>3. SessionsAreMade'
  BY <1>a DEF TypeOK, SessionsAreMade, controller
<1>c. OneHandler'
  BY <1>a DEF OneHandler
<1>d. MainIsAlone'
  BY DEF TypeOK, ThreadsHold, MainIsAlone, Busy, Asks
<1>4. BootIsSilent'
  BY DEF TypeOK, ThreadsHold, BootIsSilent, Busy, Asks, controller
<1>5. FlagIsOn'
  BY DEF TypeOK, ThreadsHold, FlagIsOn, Busy, Asks, controller
<1>6. NoEcho'
  BY DEF NoEcho, controller
<1> QED
  BY <1>1, <1>2, <1>3, <1>c, <1>d, <1>4, <1>5, <1>6

LEMMA ConnectInv ==
    ASSUME Inv, NEW t \in Threads, Connect(t)
    PROVE  Inv'
<1> USE DEF Inv, Structure, Connect, Go, Threads, Handlers
<1>1. handler[t] \in Handlers /\ handler[t] <= made
  <2>1. handler[t] \in 0 .. made /\ handler[t] # 0 /\ made \in 0 .. MaxHandlers
    BY DEF TypeOK, ThreadsHold
  <2> QED
    BY <2>1
<1>2. /\ toAgent' \in [Handlers -> Seq(Messages)]
      /\ \A h \in Handlers : toAgent[h] # << >> => toAgent'[h] # << >>
      /\ \A h \in Handlers : h # handler[t] => toAgent'[h] = toAgent[h]
  BY <1>1, Sending, SetConfigIsMessage DEF TypeOK
<1>3. TypeOK'
  BY <1>1, <1>2 DEF TypeOK, memory, histories
<1>4. ThreadsHold'
  <2>1. /\ \A u \in Threads : u # t => pc'[u] = pc[u]
        /\ pc[t] = "connect" /\ pc'[t] = "assign" /\ 0 \in Threads
    BY DEF TypeOK
  <2>2. handler' = handler /\ instance' = instance /\ ThreadsHold
    BY DEF memory
  <2>3. \A u \in Threads : pc'[u] \in {"connect", "assign", "handle"} => handler'[u] # 0
    BY <2>1, <2>2 DEF ThreadsHold
  <2>4. /\ \A u \in Threads : pc'[u] \in {"handle", "ignore", "boot", "monitor"} => instance' # 0
        /\ pc'[0] = "idle" => instance' # 0
    BY <2>1, <2>2 DEF ThreadsHold
  <2>5. ASSUME NEW h \in Handlers, pc'[h] # "idle" PROVE toAgent'[h] # << >>
    <3>1. h \in Threads /\ pc[h] # "idle"
      BY <2>1, <2>5
    <3>2. toAgent[h] # << >>
      BY <2>2, <3>1 DEF ThreadsHold
    <3> QED
      BY <1>2, <3>2
  <2> QED
    BY <2>3, <2>4, <2>5 DEF ThreadsHold
<1>5. SessionsAreMade'
  <2>1. made' = made /\ made \in Nat /\ agentSession' \in 0 .. made
    BY <1>1 DEF TypeOK, memory
  <2> QED
    BY <1>1, <1>2, <2>1 DEF SessionsAreMade
<1>a. /\ \A u \in Threads : u # t => pc'[u] = pc[u]
      /\ pc[t] = "connect" /\ pc'[t] = "assign"
  BY DEF TypeOK
<1>6. OneHandler' /\ MainIsAlone'
  BY <1>a DEF OneHandler, MainIsAlone, Busy, memory, histories
<1>b. BootIsSilent'
  BY <1>a DEF BootIsSilent, memory, histories
<1>7. FlagIsOn'
  BY <1>a DEF FlagIsOn, Busy, memory, histories
<1>8. NoEcho'
  BY DEF NoEcho, histories
<1> QED
  BY <1>3, <1>4, <1>5, <1>6, <1>b, <1>7, <1>8

\* Without a second handler the instance does not change once it is there.
LEMMA AssignInstanceInv ==
    ASSUME Inv, NEW t \in Threads, AssignInstance(t)
    PROVE  Inv'
<1> USE DEF Inv, Structure, AssignInstance, Go, Threads, Handlers
<1>1. handler[t] \in 1 .. made
  <2>1. handler[t] \in 0 .. made /\ handler[t] # 0 /\ made \in Nat
    BY DEF TypeOK, ThreadsHold
  <2> QED
    BY <2>1
<1>2. "second" \notin mishaps /\ instance # 0 => instance' = instance
  BY <1>1 DEF TypeOK, OneHandler
<1>3. TypeOK'
  BY <1>1 DEF TypeOK, controller, histories
<1>4. ThreadsHold'
  BY <1>1 DEF ThreadsHold, Busy, TypeOK
<1>5. SessionsAreMade' /\ OneHandler' /\ MainIsAlone'
  BY DEF TypeOK, SessionsAreMade, OneHandler, MainIsAlone, Busy, controller, histories
<1>6. BootIsSilent'
  <2> SUFFICES ASSUME mishaps \cap {"second", "overlap"} = {}, NEW u \in Threads,
                      pc'[u] = "boot"
               PROVE  ~initialized[instance']
    BY DEF BootIsSilent, histories
  <2>1. pc[u] = "boot" /\ instance # 0
    BY DEF TypeOK, ThreadsHold, Busy
  <2> QED
    BY <1>2, <2>1 DEF BootIsSilent
<1>7. FlagIsOn'
  <2> SUFFICES ASSUME mishaps \cap {"second", "failed"} = {},
                      pc'[0] = "idle", \A h \in Handlers : ~Busy(h)'
               PROVE  initialized[instance']
    BY DEF FlagIsOn, histories
  <2>1. pc[0] = "idle" /\ instance # 0 /\ \A h \in Handlers : ~Busy(h)
    BY DEF TypeOK, ThreadsHold, Busy
  <2> QED
    BY <1>2, <2>1 DEF FlagIsOn
<1>8. NoEcho'
  BY DEF NoEcho, controller, histories
<1> QED
  BY <1>3, <1>4, <1>5, <1>6, <1>7, <1>8

-----------------------------------------------------------------------------
(* The container's thread. *)

\* What a handler that ends leaves: its message is gone, its thread is idle.
LEMMA DoneLeaves ==
    ASSUME Structure, NEW t \in Handlers, pc[t] # "idle", Done(t)
    PROVE  /\ toAgent' \in [Handlers -> Seq(Messages)]
           /\ pc' \in [Threads -> {"get", "connect", "assign", "handle", "ignore",
                                   "boot", "monitor", "idle"}]
           /\ pc'[t] = "idle" /\ \A u \in Threads : u # t => pc'[u] = pc[u]
           /\ t <= made
           /\ \A h \in Handlers : h # t => toAgent'[h] = toAgent[h]
<1> USE DEF Structure, Done, Go, Threads, Handlers
<1>1. toAgent[t] # << >>
  BY DEF ThreadsHold
<1>2. Tail(toAgent[t]) \in Seq(Messages)
  BY <1>1, Receiving DEF TypeOK
<1>3. t <= made
  BY <1>1 DEF SessionsAreMade, TypeOK
<1> QED
  BY <1>2, <1>3 DEF TypeOK

LEMMA HandleSetConfigTopologyInv ==
    ASSUME Inv, NEW t \in Handlers, HandleSetConfigTopology(t)
    PROVE  Inv'
<1> USE DEF Inv, HandleSetConfigTopology
<1>0. Structure /\ pc[t] = "handle" /\ Done(t)
  OBVIOUS
<1>1. /\ toAgent' \in [Handlers -> Seq(Messages)]
      /\ pc' \in [Threads -> {"get", "connect", "assign", "handle", "ignore",
                              "boot", "monitor", "idle"}]
      /\ pc'[t] = "idle" /\ \A u \in Threads : u # t => pc'[u] = pc[u]
      /\ t <= made
      /\ \A h \in Handlers : h # t => toAgent'[h] = toAgent[h]
  BY <1>0, DoneLeaves
<1>2. /\ t \in Threads /\ t # 0 /\ 0 \in Threads /\ Handlers \subseteq Threads
      /\ made \in Nat
  BY DEF Threads, Handlers, Structure, TypeOK
<1>3. Received(t) \in Messages
  BY <1>0, <1>2, Receiving DEF Structure, TypeOK, ThreadsHold
<1>4. Received(t).pcis \in [Cells -> Pcis]
  BY <1>3, SetIsTopology
<1>5. TypeOK'
  BY <1>1, <1>2, <1>4 DEF Structure, TypeOK, controller, histories
<1>6. ThreadsHold'
  BY <1>0, <1>1, <1>2 DEF Structure, ThreadsHold, Busy
<1>7. SessionsAreMade'
  <2>1. agentSession' = agentSession /\ made' = made /\ SessionsAreMade
    BY <1>0 DEF Structure, controller
  <2> QED
    BY <1>1, <1>2, <2>1 DEF SessionsAreMade, Handlers
<1>8. OneHandler' /\ MainIsAlone'
  BY <1>1, <1>2 DEF Structure, OneHandler, MainIsAlone, Busy, histories
<1>9. BootIsSilent' /\ FlagIsOn' /\ NoEcho'
  BY <1>0, <1>1, <1>2 DEF BootIsSilent, FlagIsOn, NoEcho, Busy, controller, histories
<1> QED
  BY <1>5, <1>6, <1>7, <1>8, <1>9 DEF Structure

LEMMA DropUpdateCellInv ==
    ASSUME Inv, NEW t \in Handlers, DropUpdateCell(t)
    PROVE  Inv'
<1> USE DEF Inv, DropUpdateCell
<1>0. Structure /\ pc[t] = "handle" /\ Done(t)
  OBVIOUS
<1>1. /\ toAgent' \in [Handlers -> Seq(Messages)]
      /\ pc' \in [Threads -> {"get", "connect", "assign", "handle", "ignore",
                              "boot", "monitor", "idle"}]
      /\ pc'[t] = "idle" /\ \A u \in Threads : u # t => pc'[u] = pc[u]
      /\ t <= made
      /\ \A h \in Handlers : h # t => toAgent'[h] = toAgent[h]
  BY <1>0, DoneLeaves
<1>2. /\ t \in Threads /\ t # 0 /\ 0 \in Threads /\ Handlers \subseteq Threads
      /\ made \in Nat
  BY DEF Threads, Handlers, Structure, TypeOK
<1>5. TypeOK'
  BY <1>1 DEF Structure, TypeOK, controller, memory, histories
<1>6. ThreadsHold'
  BY <1>0, <1>1, <1>2 DEF Structure, ThreadsHold, Busy, memory
<1>7. SessionsAreMade'
  BY <1>1, <1>2 DEF Structure, SessionsAreMade, controller, memory, Handlers
<1>8. OneHandler' /\ MainIsAlone'
  BY <1>1, <1>2 DEF Structure, OneHandler, MainIsAlone, Busy, memory, histories
<1>9. BootIsSilent' /\ FlagIsOn' /\ NoEcho'
  BY <1>0, <1>1, <1>2 DEF BootIsSilent, FlagIsOn, NoEcho, Busy, controller, memory, histories
<1> QED
  BY <1>5, <1>6, <1>7, <1>8, <1>9 DEF Structure

\* The update makes the thread busy; if the main thread is not done, it overlaps.
LEMMA HandleUpdateCellInv ==
    ASSUME Inv, NEW t \in Handlers, HandleUpdateCell(t)
    PROVE  Inv'
<1> USE DEF Inv, HandleUpdateCell, Go
<1>1. /\ t \in Threads /\ t # 0 /\ 0 \in Threads /\ Handlers \subseteq Threads
      /\ pc \in [Threads -> {"get", "connect", "assign", "handle", "ignore",
                             "boot", "monitor", "idle"}]
  BY DEF Threads, Handlers, Structure, TypeOK
<1>2. /\ pc[t] = "handle" /\ pc'[t] = "ignore"
      /\ \A u \in Threads : u # t => pc'[u] = pc[u]
      /\ toAgent[t] # << >>
      /\ pc' \in [Threads -> {"get", "connect", "assign", "handle", "ignore",
                              "boot", "monitor", "idle"}]
  BY <1>1 DEF Structure, ThreadsHold
<1>3. Received(t) \in Messages
  BY <1>2, Receiving DEF Structure, TypeOK
<1>4. Received(t).cell \in Cells /\ Received(t).pci \in Pcis
  BY <1>3, UpdateIsCell
<1>5. handler[t] \in Handlers /\ handler[t] \in 1 .. made
  <2>1. handler[t] \in 0 .. made /\ handler[t] # 0 /\ made \in 0 .. MaxHandlers
    BY <1>1, <1>2 DEF Structure, TypeOK, ThreadsHold
  <2> QED
    BY <2>1 DEF Handlers
<1>6. topology[handler[t]] \in [Cells -> Pcis]
  BY <1>5 DEF Structure, TypeOK
<1>7. [topology[handler[t]] EXCEPT ![Received(t).cell] = Received(t).pci] \in [Cells -> Pcis]
  BY <1>4, <1>6
<1>8. topology' \in [Handlers -> [Cells -> Pcis] \cup {None}] /\ file' \in [Cells -> Pcis]
  BY <1>5, <1>7 DEF Structure, TypeOK
<1>9. updated' \subseteq Cells /\ mishaps' \subseteq Mishaps /\ reported' = {}
  BY <1>4 DEF Structure, TypeOK, Mishaps
<1>10. TypeOK'
  BY <1>2, <1>8, <1>9 DEF Structure, TypeOK, controller
<1>11. instance # 0 /\ mishaps \cap {"second"} = mishaps' \cap {"second"}
       /\ ("overlap" \notin mishaps' => "overlap" \notin mishaps /\ pc[0] = "idle")
  <2>1. instance # 0
    BY <1>1, <1>2 DEF Structure, ThreadsHold
  <2> QED
    BY <2>1
<1>12. ThreadsHold'
  BY <1>1, <1>2, <1>11 DEF Structure, ThreadsHold, Busy
<1>13. SessionsAreMade' /\ OneHandler'
  BY <1>11 DEF Structure, SessionsAreMade, OneHandler, controller
<1>14. MainIsAlone' /\ BootIsSilent' /\ FlagIsOn'
  BY <1>1, <1>2, <1>11 DEF Structure, MainIsAlone, BootIsSilent, FlagIsOn, Busy
<1>15. NoEcho'
  BY <1>11 DEF NoEcho, controller
<1> QED
  BY <1>10, <1>12, <1>13, <1>14, <1>15 DEF Structure

-----------------------------------------------------------------------------
(* Initialising Honeycomb. *)

\* As long as there is one handler, and no UpdateCell before the main thread is
\* done, one thread at a time initialises Honeycomb.
LEMMA OneIsBusy ==
    ASSUME Structure, mishaps \cap {"second", "overlap"} = {},
           NEW t \in Threads, NEW u \in Threads, Busy(t), Busy(u)
    PROVE  t = u
<1> USE DEF Structure, Threads, Handlers
<1>1. ASSUME NEW h \in Handlers, Busy(h)
      PROVE  h = 1 /\ pc[0] = "idle"
  <2>0. toAgent[h] # << >>
    BY <1>1 DEF ThreadsHold, Busy
  <2>1. h <= made
    BY <2>0 DEF SessionsAreMade, TypeOK
  <2>2. made <= 1 /\ made \in Nat
    BY DEF OneHandler, TypeOK
  <2>3. h = 1
    BY <2>1, <2>2
  <2>4. pc[0] = "idle"
    BY <1>1 DEF MainIsAlone
  <2> QED
    BY <2>3, <2>4
<1>2. CASE t = 0 \/ u = 0
  BY <1>1, <1>2 DEF Busy
<1>3. CASE t # 0 /\ u # 0
  BY <1>1, <1>3
<1> QED
  BY <1>2, <1>3

LEMMA IgnoreEventsInv ==
    ASSUME Inv, NEW t \in Threads, IgnoreEvents(t)
    PROVE  Inv'
<1> USE DEF Inv, IgnoreEvents, Go
<1>1. /\ pc[t] = "ignore" /\ pc'[t] = "boot" /\ 0 \in Threads /\ Handlers \subseteq Threads
      /\ \A u \in Threads : u # t => pc'[u] = pc[u]
      /\ pc' \in [Threads -> {"get", "connect", "assign", "handle", "ignore",
                              "boot", "monitor", "idle"}]
  BY DEF Structure, TypeOK, Threads, Handlers
<1>2. initialized' \in [Handlers -> BOOLEAN]
  BY DEF Structure, TypeOK
<1>3. instance \in Handlers /\ ~initialized'[instance]
  <2>1. instance # 0
    BY <1>1 DEF Structure, ThreadsHold
  <2> QED
    BY <2>1 DEF Structure, TypeOK, Handlers
<1>4. TypeOK'
  BY <1>1, <1>2 DEF Structure, TypeOK, controller, histories
<1>5. ThreadsHold' /\ SessionsAreMade' /\ OneHandler' /\ MainIsAlone'
  BY <1>1, <1>3 DEF Structure, ThreadsHold, SessionsAreMade, OneHandler, MainIsAlone, Busy,
                    controller, histories
<1>6. BootIsSilent'
  BY <1>3 DEF BootIsSilent
<1>7. FlagIsOn'
  <2>1. pc'[0] # "idle" \/ t \in Handlers
    BY <1>1 DEF Threads, Handlers
  <2> QED
    BY <1>1, <2>1 DEF FlagIsOn, Busy
<1>8. NoEcho'
  BY DEF NoEcho, controller, histories
<1> QED
  BY <1>4, <1>5, <1>6, <1>7, <1>8 DEF Structure

\* Nothing is reported from the file, for the flag is off.
LEMMA MainMainInv ==
    ASSUME Inv, NEW t \in Threads, MainMain(t)
    PROVE  Inv'
<1> USE DEF Inv, MainMain, Go
<1>1. /\ pc[t] = "boot" /\ pc'[t] = "monitor" /\ 0 \in Threads /\ Handlers \subseteq Threads
      /\ \A u \in Threads : u # t => pc'[u] = pc[u]
      /\ pc' \in [Threads -> {"get", "connect", "assign", "handle", "ignore",
                              "boot", "monitor", "idle"}]
  BY DEF Structure, TypeOK, Threads, Handlers
<1>2. toController' \in [Cells -> Seq(Pcis)]
  <2> SUFFICES ASSUME NEW c \in Cells
               PROVE  toController'[c] \in Seq(Pcis)
    BY DEF Structure
  <2>1. file[c] # None => file[c] \in Pcis
    BY DEF Structure, TypeOK
  <2>2. toController[c] \in Seq(Pcis)
    BY DEF Structure, TypeOK
  <2> QED
    BY <2>1, <2>2
<1>3. TypeOK'
  BY <1>1, <1>2 DEF Structure, TypeOK, memory, histories
<1>4. ThreadsHold' /\ SessionsAreMade' /\ OneHandler' /\ MainIsAlone'
  BY <1>1 DEF Structure, ThreadsHold, SessionsAreMade, OneHandler, MainIsAlone, Busy,
              memory, histories
<1>5. BootIsSilent'
  BY <1>1 DEF BootIsSilent, memory, histories
<1>6. FlagIsOn'
  <2>1. pc'[0] # "idle" \/ t \in Handlers
    BY <1>1 DEF Threads, Handlers
  <2> QED
    BY <1>1, <2>1 DEF FlagIsOn, Busy
<1>7. NoEcho'
  <2>1. mishaps \cap {"second", "overlap"} = {} => toController' = toController
    BY <1>1 DEF BootIsSilent, Structure, TypeOK
  <2> QED
    BY <2>1 DEF NoEcho, histories
<1> QED
  BY <1>3, <1>4, <1>5, <1>6, <1>7 DEF Structure

LEMMA MainMainFailsInv ==
    ASSUME Inv, NEW t \in Handlers, MainMainFails(t)
    PROVE  Inv'
<1> USE DEF Inv, MainMainFails
<1>0. Structure /\ pc[t] = "boot" /\ Done(t)
  OBVIOUS
<1>1. /\ toAgent' \in [Handlers -> Seq(Messages)]
      /\ pc' \in [Threads -> {"get", "connect", "assign", "handle", "ignore",
                              "boot", "monitor", "idle"}]
      /\ pc'[t] = "idle" /\ \A u \in Threads : u # t => pc'[u] = pc[u]
      /\ t <= made
      /\ \A h \in Handlers : h # t => toAgent'[h] = toAgent[h]
  BY <1>0, DoneLeaves
<1>2. /\ t \in Threads /\ t # 0 /\ 0 \in Threads /\ Handlers \subseteq Threads
      /\ made \in Nat
  BY DEF Threads, Handlers, Structure, TypeOK
<1>3. TypeOK'
  BY <1>1 DEF Structure, TypeOK, controller, memory, Mishaps
<1>4. ThreadsHold'
  BY <1>0, <1>1, <1>2 DEF Structure, ThreadsHold, memory
<1>5. SessionsAreMade'
  <2>1. \A h \in Handlers : h > made => h # t
    BY <1>1, <1>2 DEF Handlers
  <2> QED
    BY <1>1, <2>1 DEF Structure, SessionsAreMade, controller, memory
<1>6. OneHandler' /\ MainIsAlone'
  BY <1>1, <1>2 DEF Structure, OneHandler, MainIsAlone, Busy, memory
<1>7. BootIsSilent' /\ FlagIsOn' /\ NoEcho'
  BY <1>0, <1>1, <1>2 DEF BootIsSilent, FlagIsOn, NoEcho, controller, memory
<1> QED
  BY <1>3, <1>4, <1>5, <1>6, <1>7 DEF Structure

\* The flag is set; nobody else is reading the file.
LEMMA MonitorEventsInv ==
    ASSUME Inv, NEW t \in Threads, MonitorEvents(t)
    PROVE  Inv'
<1> USE DEF Inv, MonitorEvents
<1>0. Structure /\ pc[t] = "monitor" /\ 0 \in Threads /\ Handlers \subseteq Threads
      /\ made \in Nat
  BY DEF Structure, TypeOK, Threads, Handlers
<1>1. /\ pc' \in [Threads -> {"get", "connect", "assign", "handle", "ignore",
                              "boot", "monitor", "idle"}]
      /\ pc'[t] = "idle" /\ \A u \in Threads : u # t => pc'[u] = pc[u]
      /\ toAgent' \in [Handlers -> Seq(Messages)]
      /\ \A h \in Handlers : h # t => toAgent'[h] = toAgent[h]
      /\ \A h \in Handlers : h > made => toAgent'[h] = << >>
  <2>1. CASE t = 0
    <3>1. UNCHANGED toAgent /\ Go(t, "idle")
      BY <2>1
    <3> QED
      BY <3>1 DEF Structure, TypeOK, Go, SessionsAreMade
  <2>2. CASE t # 0
    <3>1. Done(t) /\ t \in Handlers
      BY <2>2 DEF Threads, Handlers
    <3>2. t <= made /\ \A h \in Handlers : h # t => toAgent'[h] = toAgent[h]
      BY <1>0, <3>1, DoneLeaves
    <3>3. \A h \in Handlers : h > made => h # t
      BY <3>2, <1>0 DEF Handlers
    <3> QED
      BY <1>0, <3>1, <3>2, <3>3, DoneLeaves DEF Structure, SessionsAreMade
  <2> QED
    BY <2>1, <2>2
<1>2. instance # 0 /\ instance \in Handlers
  <2>1. instance # 0
    BY <1>0 DEF Structure, ThreadsHold
  <2> QED
    BY <2>1 DEF Structure, TypeOK, Handlers
<1>3. initialized' \in [Handlers -> BOOLEAN] /\ initialized'[instance]
  BY <1>2 DEF Structure, TypeOK
<1>4. TypeOK'
  BY <1>1, <1>3 DEF Structure, TypeOK, controller, histories
<1>5. ThreadsHold'
  BY <1>0, <1>1, <1>2 DEF Structure, ThreadsHold
<1>6. SessionsAreMade' /\ OneHandler' /\ MainIsAlone'
  BY <1>0, <1>1 DEF Structure, SessionsAreMade, OneHandler, MainIsAlone, Busy, controller, histories
<1>7. BootIsSilent'
  <2> SUFFICES ASSUME mishaps \cap {"second", "overlap"} = {}, NEW u \in Threads,
                      pc'[u] = "boot"
               PROVE  FALSE
    BY DEF BootIsSilent, histories
  <2>1. u # t /\ pc[u] = "boot"
    BY <1>1
  <2> QED
    BY <1>0, <2>1, OneIsBusy DEF Busy
<1>8. FlagIsOn' /\ NoEcho'
  BY <1>3 DEF FlagIsOn, NoEcho, controller, histories
<1> QED
  BY <1>4, <1>5, <1>6, <1>7, <1>8 DEF Structure

-----------------------------------------------------------------------------
(* SDN-R and the controller. *)

\* A change of SDN-R is the only thing that is reported.
LEMMA CommitInv ==
    ASSUME Inv, NEW c \in Cells, NEW p \in Pcis, Commit(c, p)
    PROVE  Inv'
<1> USE DEF Inv, Commit
<1>1. commits' \in 0 .. MaxCommits
  BY DEF Structure, TypeOK
<1>2. committed' \in [Cells -> SUBSET Pcis] /\ committed'[c] = committed[c] \cup {p}
      /\ \A d \in Cells : committed[d] \subseteq committed'[d]
  BY DEF Structure, TypeOK
<1>3. /\ toController' \in [Cells -> Seq(Pcis)]
      /\ \A d \in Cells : d # c => toController'[d] = toController[d]
      /\ toController'[c] = toController[c] \/ toController'[c] = Append(toController[c], p)
  BY DEF Structure, TypeOK
<1>4. tree' \in [Cells -> Pcis \cup {None}] /\ file' \in [Cells -> Pcis \cup {None}]
  BY DEF Structure, TypeOK
<1>5. reported' \subseteq Cells /\ mishaps' \subseteq Mishaps
      /\ \A m \in {"second", "overlap", "failed"} : m \in mishaps' <=> m \in mishaps
  BY DEF Structure, TypeOK, Mishaps
<1>6. TypeOK'
  BY <1>1, <1>2, <1>3, <1>4, <1>5 DEF Structure, TypeOK, memory
<1>7. ThreadsHold' /\ SessionsAreMade' /\ OneHandler' /\ MainIsAlone'
  BY <1>5 DEF Structure, ThreadsHold, SessionsAreMade, OneHandler, MainIsAlone, Busy, memory
<1>8. BootIsSilent' /\ FlagIsOn'
  BY <1>5 DEF BootIsSilent, FlagIsOn, Busy, memory
<1>9. NoEcho'
  <2> SUFFICES ASSUME mishaps \cap {"second", "overlap"} = {}, NEW d \in Cells,
                      NEW i \in 1 .. Len(toController'[d])
               PROVE  toController'[d][i] \in committed'[d]
    BY <1>5 DEF NoEcho
  <2>1. CASE toController'[d] = toController[d]
    BY <1>2, <2>1 DEF NoEcho
  <2>2. CASE d = c /\ toController'[c] = Append(toController[c], p)
    <3>1. toController[c] \in Seq(Pcis)
      BY DEF Structure, TypeOK
    <3>2. CASE i = Len(toController[c]) + 1
      BY <1>2, <2>2, <3>1, <3>2
    <3>3. CASE i \in 1 .. Len(toController[c])
      BY <1>2, <2>2, <3>1, <3>3 DEF NoEcho
    <3> QED
      BY <2>2, <3>1, <3>2, <3>3
  <2> QED
    BY <1>3, <2>1, <2>2
<1> QED
  BY <1>6, <1>7, <1>8, <1>9 DEF Structure

LEMMA StartSimulationInv ==
    ASSUME Inv, StartSimulation
    PROVE  Inv'
<1> USE DEF Inv, StartSimulation
<1>1. /\ toAgent' \in [Handlers -> Seq(Messages)]
      /\ \A h \in Handlers : toAgent[h] # << >> => toAgent'[h] # << >>
      /\ \A h \in Handlers : h # agentSession => toAgent'[h] = toAgent[h]
  BY Sending, SetConfigIsMessage DEF Structure, TypeOK
<1>2. TypeOK'
  BY <1>1 DEF Structure, TypeOK, memory, histories
<1>3. ThreadsHold'
  BY <1>1 DEF Structure, ThreadsHold, memory
<1>4. SessionsAreMade'
  <2>1. agentSession \in 0 .. made /\ made \in Nat
    BY DEF Structure, SessionsAreMade, TypeOK
  <2>2. \A h \in Handlers : h > made => h # agentSession
    BY <2>1 DEF Handlers
  <2> QED
    BY <1>1, <2>2 DEF Structure, SessionsAreMade, memory
<1>5. OneHandler' /\ MainIsAlone' /\ BootIsSilent' /\ FlagIsOn' /\ NoEcho'
  BY DEF Structure, OneHandler, MainIsAlone, BootIsSilent, FlagIsOn, NoEcho, Busy, memory,
         histories
<1> QED
  BY <1>2, <1>3, <1>4, <1>5 DEF Structure

LEMMA ModifyACellInv ==
    ASSUME Inv, NEW c \in Cells, NEW p \in Pcis, ModifyACell(c, p)
    PROVE  Inv'
<1> USE DEF Inv, ModifyACell
<1>0. [type |-> "update", cell |-> c, pci |-> p] \in Messages
  BY DEF Messages
<1>1. /\ toAgent' \in [Handlers -> Seq(Messages)]
      /\ \A h \in Handlers : toAgent[h] # << >> => toAgent'[h] # << >>
      /\ \A h \in Handlers : h # agentSession => toAgent'[h] = toAgent[h]
  BY <1>0, Sending DEF Structure, TypeOK
<1>2. changes' \in 0 .. MaxChanges /\ row' \in [Cells -> Pcis]
  BY DEF Structure, TypeOK
<1>3. TypeOK'
  BY <1>1, <1>2 DEF Structure, TypeOK, memory
<1>4. ThreadsHold'
  BY <1>1 DEF Structure, ThreadsHold, memory
<1>5. SessionsAreMade'
  <2>1. agentSession \in 0 .. made /\ made \in Nat
    BY DEF Structure, SessionsAreMade, TypeOK
  <2>2. \A h \in Handlers : h > made => h # agentSession
    BY <2>1 DEF Handlers
  <2> QED
    BY <1>1, <2>2 DEF Structure, SessionsAreMade, memory
<1>6. OneHandler' /\ MainIsAlone' /\ BootIsSilent' /\ FlagIsOn' /\ NoEcho'
  BY DEF Structure, OneHandler, MainIsAlone, BootIsSilent, FlagIsOn, NoEcho, Busy, memory
<1> QED
  BY <1>3, <1>4, <1>5, <1>6 DEF Structure

LEMMA ModifyPciInv ==
    ASSUME Inv, NEW c \in Cells, ModifyPci(c)
    PROVE  Inv'
<1> USE DEF Inv, ModifyPci
<1>1. /\ Head(toController[c]) \in Pcis /\ Tail(toController[c]) \in Seq(Pcis)
      /\ Len(Tail(toController[c])) = Len(toController[c]) - 1
      /\ \A i \in 1 .. Len(Tail(toController[c])) :
           Tail(toController[c])[i] = toController[c][i + 1]
      /\ Len(toController[c]) \in Nat
  BY DEF Structure, TypeOK
<1>2. row' \in [Cells -> Pcis] /\ toController' \in [Cells -> Seq(Pcis)]
      /\ toController'[c] = Tail(toController[c])
      /\ \A d \in Cells : d # c => toController'[d] = toController[d]
  BY <1>1 DEF Structure, TypeOK
<1>3. TypeOK'
  BY <1>2 DEF Structure, TypeOK, memory, histories
<1>4. ThreadsHold' /\ SessionsAreMade' /\ OneHandler' /\ MainIsAlone'
  BY DEF Structure, ThreadsHold, SessionsAreMade, OneHandler, MainIsAlone, Busy, memory,
         histories
<1>5. BootIsSilent' /\ FlagIsOn'
  BY DEF BootIsSilent, FlagIsOn, Busy, memory, histories
<1>6. NoEcho'
  <2> SUFFICES ASSUME mishaps \cap {"second", "overlap"} = {}, NEW d \in Cells,
                      NEW i \in 1 .. Len(toController'[d])
               PROVE  toController'[d][i] \in committed[d]
    BY DEF NoEcho, histories
  <2>1. CASE d # c
    BY <1>2, <2>1 DEF NoEcho
  <2>2. CASE d = c
    <3>1. i + 1 \in 1 .. Len(toController[c]) /\ toController'[c][i] = toController[c][i + 1]
      BY <1>1, <1>2, <2>2
    <3> QED
      BY <2>2, <3>1 DEF NoEcho
  <2> QED
    BY <2>1, <2>2
<1> QED
  BY <1>3, <1>4, <1>5, <1>6 DEF Structure

LEMMA StutterInv ==
    ASSUME Inv, UNCHANGED vars
    PROVE  Inv'
BY DEF Inv, Structure, TypeOK, ThreadsHold, SessionsAreMade, OneHandler, MainIsAlone,
       BootIsSilent, FlagIsOn, NoEcho, Busy, vars, controller, memory, histories

-----------------------------------------------------------------------------
(* The theorems. *)

\* The flag is off while Honeycomb reads the file, and on while nobody does (Inv).
THEOREM InvHolds == Spec => []Inv
<1>1. Init => Inv
  BY InitInv
<1>2. Inv /\ [Next]_vars => Inv'
  <2> SUFFICES ASSUME Inv, [Next]_vars
               PROVE  Inv'
    OBVIOUS
  <2>1. CASE \E t \in Threads :
               \/ UseHandler(t) \/ NewHandler(t) \/ Connect(t) \/ AssignInstance(t)
               \/ IgnoreEvents(t) \/ MainMain(t) \/ MonitorEvents(t)
    BY <2>1, UseHandlerInv, NewHandlerInv, ConnectInv, AssignInstanceInv, IgnoreEventsInv,
       MainMainInv, MonitorEventsInv
  <2>2. CASE \E t \in Handlers :
               \/ HandleSetConfigTopology(t) \/ DropUpdateCell(t) \/ HandleUpdateCell(t)
               \/ MainMainFails(t)
    BY <2>2, HandleSetConfigTopologyInv, DropUpdateCellInv, HandleUpdateCellInv,
       MainMainFailsInv
  <2>3. CASE \E c \in Cells, p \in Pcis : Commit(c, p) \/ ModifyACell(c, p)
    BY <2>3, CommitInv, ModifyACellInv
  <2>4. CASE \E c \in Cells : ModifyPci(c)
    BY <2>4, ModifyPciInv
  <2>5. CASE StartSimulation
    BY <2>5, StartSimulationInv
  <2>6. CASE UNCHANGED vars
    BY <2>6, StutterInv
  <2> QED
    BY <2>1, <2>2, <2>3, <2>4, <2>5, <2>6 DEF Next
<1> QED
  BY <1>1, <1>2, PTL DEF Spec

\* Whatever the threads do, the state is well typed: no message is read from an
\* empty channel, no update is applied without a topology (TypeOK).
THEOREM TypeCorrect == Spec => []TypeOK
<1>1. Inv => TypeOK
  BY DEF Inv, Structure
<1> QED
  BY <1>1, InvHolds, PTL

\* As long as there is one handler and no UpdateCell comes before Honeycomb is up,
\* the agent reports SDN-R's changes and nothing else (NoEcho).
THEOREM NothingEchoes == Spec => []NoEcho
<1>1. Inv => NoEcho
  BY DEF Inv
<1> QED
  BY <1>1, InvHolds, PTL

\* When no thread is at work the agent listens to SDN-R, unless the last
\* initialisation has failed (MonitoringReturns).
THEOREM ListensAgain == Spec => []MonitoringReturns
<1>1. Inv => MonitoringReturns
  BY DEF Inv, FlagIsOn, MonitoringReturns, Busy, Threads, Handlers
<1> QED
  BY <1>1, InvHolds, PTL

-----------------------------------------------------------------------------
(* What is on its way, as long as there is one handler, whose session is 1. *)

\* The messages that wait in the session: without the UpdateCell at work.
Applied == IF Busy(1) THEN 1 ELSE 0
Waiting == Applied + 1 .. Len(toAgent[1])
Concerns(i, c) == toAgent[1][i].type = "set" \/ toAgent[1][i].cell = c
Carries(i, c) ==
    IF toAgent[1][i].type = "set" THEN toAgent[1][i].pcis[c] ELSE toAgent[1][i].pci

\* The main thread opens the session, and the first thread of the container works in it.
FirstSession ==
    /\ instance # 0 \/ pc[0] = "assign" => agentSession # 0
    /\ pc[0] = "connect" => agentSession = 0
    /\ \A h \in Handlers : pc[h] \in {"idle", "handle"} \/ Busy(h)
    /\ Busy(1) \/ updated # {} => topology[1] # None
    /\ agentSession = 0 \/ ~started => toAgent[1] = << >> /\ topology[1] = None

\* The topology is sent once, before any UpdateCell.
SetComesFirst ==
    /\ \A i \in 1 .. Len(toAgent[1]) :
         toAgent[1][i].type = "set" <=> i = 1 /\ topology[1] = None
    /\ agentSession # 0 /\ started /\ topology[1] = None => toAgent[1] # << >>

\* Nothing is reported before the main thread has started Honeycomb.
MainComesFirst ==
    /\ "overlap" \notin mishaps /\ pc[0] # "idle" => updated = {}
    /\ pc[0] \notin {"monitor", "idle"} => reported = {}
    /\ instance = 0 => reported = {}

\* The last message about a cell carries what its row has; without one the
\* topology has it.
LastIsRow(c) ==
    \/ \E i \in Waiting :
         /\ Concerns(i, c) /\ Carries(i, c) = row[c]
         /\ \A j \in Waiting : j > i => ~Concerns(j, c)
    \/ /\ \A i \in Waiting : ~Concerns(i, c)
       /\ topology[1] # None => topology[1][c] = row[c]

RowIsOnItsWay ==
    "overlap" \notin mishaps =>
        \A c \in Cells : committed[c] = {} => LastIsRow(c)

\* The topology is in the file before Honeycomb reads it, and in the tree after.
TopologyIsBooted ==
    mishaps = {} =>
      IF pc[1] \in {"ignore", "boot"}
      THEN \A c \in Cells : file[c] = topology[1][c]
      ELSE \A c \in updated : committed[c] = {} => tree[c] = topology[1][c]

\* The last report about a cell carries what the tree has; without one the row
\* has it.  A change of the controller that waits will write the topology.
NoUpdateWaits == \A i \in Waiting : toAgent[1][i].type # "update"
ReportIsOnItsWay ==
    NoUpdateWaits =>
        \A c \in reported :
          IF toController[c] = << >> THEN row[c] = tree[c]
          ELSE toController[c][Len(toController[c])] = tree[c]

\* Honeycomb, started again, reads from the file what the tree has.
ReportedIsFiled ==
    pc[1] \in {"ignore", "boot"} => \A c \in reported : file[c] = tree[c]

Flow ==
    "second" \notin mishaps =>
      /\ FirstSession /\ SetComesFirst /\ MainComesFirst
      /\ RowIsOnItsWay /\ TopologyIsBooted /\ ReportIsOnItsWay /\ ReportedIsFiled

LEMMA InitFlow == Init => Flow
<1> SUFFICES ASSUME Init PROVE Flow
  OBVIOUS
<1> USE DEF Init, Handlers, Threads
<1>1. 1 \in Handlers /\ 0 \in Threads /\ Handlers \subseteq Threads
  OBVIOUS
<1>2. toAgent[1] = << >> /\ topology[1] = None /\ Waiting = {}
  BY <1>1 DEF Waiting, Applied
<1>3. FirstSession /\ SetComesFirst /\ MainComesFirst
  BY <1>1, <1>2 DEF FirstSession, SetComesFirst, MainComesFirst, Busy
<1>4. RowIsOnItsWay
  BY <1>2 DEF RowIsOnItsWay, LastIsRow
<1>5. TopologyIsBooted /\ ReportIsOnItsWay /\ ReportedIsFiled
  BY <1>1 DEF TopologyIsBooted, ReportIsOnItsWay, ReportedIsFiled
<1> QED
  BY <1>3, <1>4, <1>5 DEF Flow

\* Without a second handler there is one session, and its thread uses the instance.
LEMMA OneSession ==
    ASSUME Structure, FirstSession, "second" \notin mishaps
    PROVE  /\ 1 \in Handlers /\ 0 \in Threads /\ 1 \in Threads /\ Handlers \subseteq Threads
           /\ made \in {0, 1} /\ instance \in {0, 1} /\ agentSession \in {0, 1}
           /\ \A h \in Handlers : h # 1 => pc[h] = "idle" /\ toAgent[h] = << >>
           /\ \A t \in Threads : t \in {0, 1} \/ (pc[t] = "idle" /\ ~Asks(t))
           /\ pc[1] = "handle" => handler[1] = 1
           /\ pc[1] # "idle" => toAgent[1] # << >>
           /\ pc[1] # "idle" \/ Busy(0) \/ pc[0] = "idle" => instance = 1
           /\ pc[0] = "assign" \/ pc[0] = "connect" => handler[0] = 1
<1>1. 1 \in Handlers /\ 0 \in Threads /\ 1 \in Threads /\ Handlers \subseteq Threads
  BY DEF Handlers, Threads
<1>2. made \in {0, 1}
  BY DEF Structure, TypeOK, OneHandler
<1>3. instance \in {0, 1} /\ agentSession \in {0, 1}
  BY <1>2 DEF Structure, TypeOK, SessionsAreMade
<1>4. \A h \in Handlers : h # 1 => pc[h] = "idle" /\ toAgent[h] = << >>
  <2> SUFFICES ASSUME NEW h \in Handlers, h # 1
               PROVE  pc[h] = "idle" /\ toAgent[h] = << >>
    OBVIOUS
  <2>1. h > made
    BY <1>2 DEF Handlers
  <2> QED
    BY <2>1 DEF Structure, SessionsAreMade, ThreadsHold
<1>5. \A t \in Threads : handler[t] \in {0, 1}
  BY <1>2 DEF Structure, TypeOK
<1>6. \A t \in Threads : t \in {0, 1} \/ (pc[t] = "idle" /\ ~Asks(t))
  <2>1. \A t \in Threads : t \in {0, 1} \/ t \in Handlers
    BY DEF Threads, Handlers
  <2> QED
    BY <1>4, <2>1 DEF Asks
<1>7. pc[1] = "handle" => handler[1] = 1
  BY <1>1, <1>5 DEF Structure, ThreadsHold
<1>8. pc[0] = "assign" \/ pc[0] = "connect" => handler[0] = 1
  BY <1>1, <1>5 DEF Structure, ThreadsHold
<1>9. pc[1] # "idle" \/ Busy(0) \/ pc[0] = "idle" => instance = 1
  BY <1>1, <1>3 DEF Structure, ThreadsHold, FirstSession, Busy
<1> QED
  BY <1>1, <1>2, <1>3, <1>4, <1>6, <1>7, <1>8, <1>9 DEF Structure, ThreadsHold

-----------------------------------------------------------------------------
(* What a step leaves alone stays on its way.                              *)

LEMMA SameFlow ==
    ASSUME Flow, "second" \notin mishaps, mishaps \subseteq mishaps',
           UNCHANGED <<toAgent, topology, row, file, tree, toController,
                       reported, updated, committed>>,
           Busy(1)' <=> Busy(1),
           pc'[1] \in {"ignore", "boot"} <=> pc[1] \in {"ignore", "boot"}
    PROVE  RowIsOnItsWay' /\ TopologyIsBooted' /\ ReportIsOnItsWay' /\ ReportedIsFiled'
<1>1. /\ Waiting' = Waiting
      /\ \A i : \A c : Concerns(i, c)' <=> Concerns(i, c)
      /\ \A i : \A c : Carries(i, c)' = Carries(i, c)
  BY DEF Waiting, Applied, Concerns, Carries
<1>2. \A c : LastIsRow(c) => LastIsRow(c)'
  BY <1>1 DEF LastIsRow
<1>3. RowIsOnItsWay'
  BY <1>2 DEF Flow, RowIsOnItsWay
<1>4. TopologyIsBooted'
  BY DEF Flow, TopologyIsBooted
<1>5. ReportIsOnItsWay'
  BY <1>1 DEF Flow, ReportIsOnItsWay, NoUpdateWaits
<1>6. ReportedIsFiled'
  BY DEF Flow, ReportedIsFiled
<1> QED
  BY <1>3, <1>4, <1>5, <1>6

\* The set comes first as long as the channel and the topology are as they were.
LEMMA SameChannel ==
    ASSUME SetComesFirst, UNCHANGED <<toAgent, topology, agentSession, started>>
    PROVE  SetComesFirst'
BY DEF SetComesFirst

LEMMA UseHandlerFlow ==
    ASSUME Inv, Flow, NEW t \in Threads, UseHandler(t)
    PROVE  Flow'
<1> USE DEF UseHandler, controller, memory, histories, Go
<1> SUFFICES ASSUME "second" \notin mishaps
             PROVE  Flow'
  BY DEF Flow
<1>1. /\ 0 \in Threads /\ 1 \in Threads /\ Handlers \subseteq Threads /\ 1 \in Handlers
      /\ t \in {0, 1} /\ (pc[t] = "get" \/ (t = 1 /\ pc[1] = "idle")) /\ instance # 0
  <2>1. /\ 0 \in Threads /\ 1 \in Threads /\ Handlers \subseteq Threads /\ 1 \in Handlers
        /\ t \in {0, 1} /\ Asks(t) /\ instance # 0
    BY OneSession DEF Inv, Flow
  <2> QED
    BY <2>1 DEF Asks
<1>2. /\ \A u \in Threads : u # t => pc'[u] = pc[u]
      /\ pc'[t] = IF t = 0 THEN "ignore" ELSE "handle"
  BY DEF Inv, Structure, TypeOK
<1>3. Busy(1)' <=> Busy(1)
  BY <1>1, <1>2 DEF Busy
<1>4. FirstSession' /\ SetComesFirst' /\ MainComesFirst'
  BY <1>1, <1>2, <1>3, SameChannel DEF Flow, FirstSession, MainComesFirst, Busy
<1>5. RowIsOnItsWay' /\ TopologyIsBooted' /\ ReportIsOnItsWay' /\ ReportedIsFiled'
  BY <1>1, <1>2, <1>3, SameFlow
<1> QED
  BY <1>4, <1>5 DEF Flow

LEMMA NewHandlerFlow ==
    ASSUME Inv, Flow, NEW t \in Threads, NewHandler(t)
    PROVE  Flow'
<1> USE DEF NewHandler, controller, histories, Go
<1> SUFFICES ASSUME "second" \notin mishaps'
             PROVE  Flow'
  BY DEF Flow
<1>0. "second" \notin mishaps /\ made = 0 /\ mishaps' = mishaps /\ agentSession = 0
  BY DEF Inv, Structure, TypeOK, SessionsAreMade
<1>1. /\ 0 \in Threads /\ 1 \in Threads /\ Handlers \subseteq Threads /\ 1 \in Handlers
      /\ t = 0 /\ pc[0] = "get"
  <2>1. toAgent[1] = << >>
    BY <1>0 DEF Flow, FirstSession
  <2> QED
    BY <1>0, <2>1, OneSession DEF Inv, Flow, FirstSession, Asks, Busy
<1>2. /\ \A u \in Threads : u # 0 => pc'[u] = pc[u]
      /\ pc'[0] = "connect"
  BY <1>1 DEF Inv, Structure, TypeOK
<1>3. (Busy(1)' <=> Busy(1)) /\ pc'[1] = pc[1]
  BY <1>1, <1>2 DEF Busy
<1>4. FirstSession' /\ SetComesFirst' /\ MainComesFirst'
  BY <1>0, <1>1, <1>2, <1>3, SameChannel DEF Flow, FirstSession, MainComesFirst, Busy
<1>5. RowIsOnItsWay' /\ TopologyIsBooted' /\ ReportIsOnItsWay' /\ ReportedIsFiled'
  BY <1>0, <1>3, SameFlow
<1> QED
  BY <1>4, <1>5 DEF Flow

LEMMA AssignInstanceFlow ==
    ASSUME Inv, Flow, NEW t \in Threads, AssignInstance(t)
    PROVE  Flow'
<1> USE DEF AssignInstance, controller, histories, Go
<1> SUFFICES ASSUME "second" \notin mishaps
             PROVE  Flow'
  BY DEF Flow
<1>1. /\ 0 \in Threads /\ 1 \in Threads /\ Handlers \subseteq Threads /\ 1 \in Handlers
      /\ t = 0 /\ pc[0] = "assign" /\ handler[0] = 1
  BY OneSession DEF Inv, Flow, FirstSession, Busy
<1>2. /\ \A u \in Threads : u # 0 => pc'[u] = pc[u]
      /\ pc'[0] = "get"
  BY <1>1 DEF Inv, Structure, TypeOK
<1>3. (Busy(1)' <=> Busy(1)) /\ pc'[1] = pc[1]
  BY <1>1, <1>2 DEF Busy
<1>4. FirstSession' /\ SetComesFirst' /\ MainComesFirst'
  BY <1>1, <1>2, <1>3, SameChannel DEF Flow, FirstSession, MainComesFirst, Busy
<1>5. RowIsOnItsWay' /\ TopologyIsBooted' /\ ReportIsOnItsWay' /\ ReportedIsFiled'
  BY <1>3, SameFlow
<1> QED
  BY <1>4, <1>5 DEF Flow

LEMMA IgnoreEventsFlow ==
    ASSUME Inv, Flow, NEW t \in Threads, IgnoreEvents(t)
    PROVE  Flow'
<1> USE DEF IgnoreEvents, controller, histories, Go
<1> SUFFICES ASSUME "second" \notin mishaps
             PROVE  Flow'
  BY DEF Flow
<1>1. /\ 0 \in Threads /\ 1 \in Threads /\ Handlers \subseteq Threads /\ 1 \in Handlers
      /\ t \in {0, 1} /\ pc[t] = "ignore"
  BY OneSession DEF Inv, Flow
<1>2. /\ \A u \in Threads : u # t => pc'[u] = pc[u]
      /\ pc'[t] = "boot"
  BY DEF Inv, Structure, TypeOK
<1>3. \A u \in Threads : Busy(u)' <=> Busy(u)
  BY <1>1, <1>2 DEF Busy
<1>4. FirstSession' /\ SetComesFirst' /\ MainComesFirst'
  BY <1>1, <1>2, <1>3, SameChannel DEF Flow, FirstSession, MainComesFirst, Busy
<1>5. RowIsOnItsWay' /\ TopologyIsBooted' /\ ReportIsOnItsWay' /\ ReportedIsFiled'
  BY <1>1, <1>2, <1>3, SameFlow
<1> QED
  BY <1>4, <1>5 DEF Flow

-----------------------------------------------------------------------------
(* What is sent to the agent.                                              *)

\* A message waits behind those that wait already.
LEMMA OneMoreWaits ==
    ASSUME toAgent \in [Handlers -> Seq(Messages)], 1 \in Handlers, NEW m \in Messages,
           toAgent' = [toAgent EXCEPT ![1] = Append(@, m)], Busy(1)' <=> Busy(1),
           Busy(1) => toAgent[1] # << >>
    PROVE  /\ Len(toAgent[1]) + 1 \in Waiting' /\ Waiting \subseteq Waiting'
           /\ \A i \in Waiting' : i \in Waiting \/ i = Len(toAgent[1]) + 1
           /\ \A i \in 1 .. Len(toAgent'[1]) :
                IF i = Len(toAgent[1]) + 1 THEN toAgent'[1][i] = m
                ELSE i \in 1 .. Len(toAgent[1]) /\ toAgent'[1][i] = toAgent[1][i]
           /\ \A i \in Waiting : /\ i \in 1 .. Len(toAgent'[1])
                                 /\ i \in Nat /\ i < Len(toAgent[1]) + 1
           /\ Len(toAgent[1]) + 1 \in 1 .. Len(toAgent'[1])
<1>1. toAgent'[1] = Append(toAgent[1], m) /\ toAgent[1] \in Seq(Messages)
  OBVIOUS
<1>2. Len(toAgent'[1]) = Len(toAgent[1]) + 1 /\ Len(toAgent[1]) \in Nat
  BY <1>1
<1>3. /\ Applied' = Applied /\ Applied \in {0, 1}
      /\ Applied = 1 => Len(toAgent[1]) # 0
  BY <1>1 DEF Applied
<1> QED
  BY <1>1, <1>2, <1>3 DEF Waiting

\* The topology, when it is sent, is the only message, and it is that of the rows.
LEMMA SetIsSent ==
    ASSUME Inv, Flow, "second" \notin mishaps, agentSession = 0 \/ ~started,
           toAgent' = [toAgent EXCEPT ![1] = Append(@, SetConfig)], pc'[1] = pc[1],
           UNCHANGED <<topology, row, file, tree, toController, reported, updated,
                       committed, mishaps>>
    PROVE  /\ SetComesFirst' /\ toAgent'[1] # << >>
           /\ RowIsOnItsWay' /\ TopologyIsBooted' /\ ReportIsOnItsWay' /\ ReportedIsFiled'
<1>1. 1 \in Handlers /\ toAgent[1] = << >> /\ topology[1] = None /\ ~Busy(1)
      /\ toAgent \in [Handlers -> Seq(Messages)]
  BY OneSession DEF Inv, Structure, TypeOK, Flow, FirstSession
<1>2. toAgent'[1] = <<SetConfig>> /\ ~Busy(1)'
  BY <1>1 DEF Busy
<1>3. Waiting = {} /\ Waiting' = {1} /\ toAgent'[1][1] = SetConfig /\ Len(toAgent'[1]) = 1
  BY <1>1, <1>2 DEF Waiting, Applied
<1>4. SetConfig.type = "set" /\ SetConfig.pcis = row
  BY DEF SetConfig
<1>5. SetComesFirst'
  BY <1>1, <1>3, <1>4, <1>2 DEF SetComesFirst
<1>9. toAgent'[1] # << >>
  BY <1>2
<1>6. RowIsOnItsWay'
  BY <1>3, <1>4 DEF RowIsOnItsWay, LastIsRow, Concerns, Carries
<1>7. TopologyIsBooted' /\ ReportedIsFiled'
  BY DEF Flow, TopologyIsBooted, ReportedIsFiled
<1>8. ReportIsOnItsWay'
  BY <1>3 DEF Flow, ReportIsOnItsWay, NoUpdateWaits
<1> QED
  BY <1>5, <1>6, <1>7, <1>8, <1>9

LEMMA ConnectFlow ==
    ASSUME Inv, Flow, NEW t \in Threads, Connect(t)
    PROVE  Flow'
<1> USE DEF Connect, memory, histories, Go
<1> SUFFICES ASSUME "second" \notin mishaps
             PROVE  Flow'
  BY DEF Flow
<1>1. /\ 0 \in Threads /\ 1 \in Threads /\ Handlers \subseteq Threads /\ 1 \in Handlers
      /\ t = 0 /\ pc[0] = "connect" /\ handler[0] = 1 /\ agentSession = 0
  BY OneSession DEF Inv, Flow, FirstSession, Busy
<1>2. /\ \A u \in Threads : u # 0 => pc'[u] = pc[u]
      /\ pc'[0] = "assign" /\ agentSession' = 1
  BY <1>1 DEF Inv, Structure, TypeOK
<1>3. (Busy(1)' <=> Busy(1)) /\ pc'[1] = pc[1]
  BY <1>1, <1>2 DEF Busy
<1>4. MainComesFirst'
  BY <1>1, <1>2 DEF Flow, MainComesFirst
<1>5. CASE started
  <2>1. /\ SetComesFirst' /\ toAgent'[1] # << >>
        /\ RowIsOnItsWay' /\ TopologyIsBooted' /\ ReportIsOnItsWay' /\ ReportedIsFiled'
    BY <1>1, <1>3, <1>5, SetIsSent
  <2>2. FirstSession'
    BY <1>1, <1>2, <1>3, <1>5 DEF Flow, FirstSession, Busy
  <2> QED
    BY <1>4, <2>1, <2>2 DEF Flow
<1>6. CASE ~started
  <2>1. RowIsOnItsWay' /\ TopologyIsBooted' /\ ReportIsOnItsWay' /\ ReportedIsFiled'
    BY <1>3, <1>6, SameFlow
  <2>2. FirstSession' /\ SetComesFirst'
    BY <1>1, <1>2, <1>3, <1>6 DEF Flow, FirstSession, SetComesFirst, Busy
  <2> QED
    BY <1>4, <2>1, <2>2 DEF Flow
<1> QED
  BY <1>5, <1>6

LEMMA StartSimulationFlow ==
    ASSUME Inv, Flow, StartSimulation
    PROVE  Flow'
<1> USE DEF StartSimulation, memory, histories
<1> SUFFICES ASSUME "second" \notin mishaps
             PROVE  Flow'
  BY DEF Flow
<1>1. 1 \in Handlers /\ agentSession \in {0, 1}
  BY OneSession DEF Inv, Flow
<1>2. MainComesFirst' /\ (Busy(1)' <=> Busy(1))
  BY DEF Flow, MainComesFirst, Busy
<1>3. CASE agentSession = 1
  <2>1. /\ SetComesFirst' /\ toAgent'[1] # << >>
        /\ RowIsOnItsWay' /\ TopologyIsBooted' /\ ReportIsOnItsWay' /\ ReportedIsFiled'
    BY <1>3, SetIsSent
  <2>2. FirstSession'
    BY <1>3 DEF Flow, FirstSession, Busy
  <2> QED
    BY <1>2, <2>1, <2>2 DEF Flow
<1>4. CASE agentSession = 0
  <2>1. RowIsOnItsWay' /\ TopologyIsBooted' /\ ReportIsOnItsWay' /\ ReportedIsFiled'
    BY <1>2, <1>4, SameFlow
  <2>2. FirstSession' /\ SetComesFirst'
    BY <1>4 DEF Flow, FirstSession, SetComesFirst, Busy
  <2> QED
    BY <1>2, <2>1, <2>2 DEF Flow
<1> QED
  BY <1>1, <1>3, <1>4

LEMMA ModifyACellFlow ==
    ASSUME Inv, Flow, NEW c \in Cells, NEW p \in Pcis, ModifyACell(c, p)
    PROVE  Flow'
<1> USE DEF ModifyACell, memory
<1> SUFFICES ASSUME "second" \notin mishaps
             PROVE  Flow'
  BY DEF Flow
<1> DEFINE m == [type |-> "update", cell |-> c, pci |-> p]
<1>n. PICK n : n = Len(toAgent[1])
  OBVIOUS
<1>1. /\ 1 \in Handlers /\ agentSession \in {0, 1} /\ instance \in {0, 1}
      /\ toAgent \in [Handlers -> Seq(Messages)]
      /\ pc[1] # "idle" => toAgent[1] # << >>
      /\ row' \in [Cells -> Pcis] /\ row'[c] = p /\ \A d \in Cells : d # c => row'[d] = row[d]
  BY OneSession DEF Inv, Structure, TypeOK, Flow
<1>2. MainComesFirst' /\ (Busy(1)' <=> Busy(1))
  BY DEF Flow, MainComesFirst, Busy
<1>3. TopologyIsBooted' /\ ReportedIsFiled'
  BY DEF Flow, TopologyIsBooted, ReportedIsFiled
<1>4. CASE agentSession = 0
  <2>1. toAgent' = toAgent /\ toAgent[1] = << >> /\ topology[1] = None /\ reported = {}
    BY <1>1, <1>4 DEF Flow, FirstSession, MainComesFirst
  <2>2. FirstSession' /\ SetComesFirst'
    BY <1>4, <2>1 DEF Flow, FirstSession, SetComesFirst, Busy
  <2>3. Waiting' = {}
    BY <2>1 DEF Waiting, Applied
  <2>4. RowIsOnItsWay'
    BY <2>1, <2>3 DEF RowIsOnItsWay, LastIsRow
  <2>5. ReportIsOnItsWay'
    BY <2>1 DEF ReportIsOnItsWay
  <2> QED
    BY <1>2, <1>3, <2>2, <2>4, <2>5 DEF Flow
<1>5. CASE agentSession = 1
  <2>0. /\ m \in Messages /\ m.type = "update" /\ m.cell = c /\ m.pci = p
        /\ toAgent' = [toAgent EXCEPT ![1] = Append(@, m)]
    BY <1>5 DEF Messages
  <2>1. /\ n + 1 \in Waiting' /\ Waiting \subseteq Waiting'
        /\ \A i \in Waiting' : i \in Waiting \/ i = n + 1
        /\ \A i \in 1 .. Len(toAgent'[1]) :
             IF i = n + 1 THEN toAgent'[1][i] = m
             ELSE i \in 1 .. n /\ toAgent'[1][i] = toAgent[1][i]
        /\ \A i \in Waiting : i \in 1 .. Len(toAgent'[1]) /\ i \in Nat /\ i < n + 1
        /\ n + 1 \in 1 .. Len(toAgent'[1])
    <3>1. Busy(1) => toAgent[1] # << >>
      BY <1>1 DEF Busy
    <3> HIDE DEF m, ModifyACell
    <3> QED
      BY <1>1, <1>2, <1>n, <2>0, <3>1, OneMoreWaits
  <2>2. toAgent[1] # << >> \/ topology[1] # None
    BY <1>1, <1>5 DEF Flow, SetComesFirst
  <2>x. n \in Nat /\ (toAgent[1] # << >> => n # 0)
    BY <1>1, <1>n
  <2>3. toAgent'[1] # << >> /\ (topology[1] = None => n # 0)
    BY <2>1, <2>2, <2>x
  <2>4. FirstSession'
    BY <1>5, <2>3 DEF Flow, FirstSession, Busy
  <2>5. SetComesFirst'
    <3> SUFFICES ASSUME NEW i \in 1 .. Len(toAgent'[1])
                 PROVE  toAgent'[1][i].type = "set" <=> i = 1 /\ topology[1] = None
      BY <2>3 DEF SetComesFirst
    <3>1. CASE i = n + 1
      BY <2>x, <2>0, <2>1, <2>3, <3>1
    <3>2. CASE i # n + 1
      BY <2>1, <3>2 DEF Flow, SetComesFirst
    <3> QED
      BY <3>1, <3>2
  <2>6. ASSUME NEW d \in Cells, d # c, LastIsRow(d) PROVE LastIsRow(d)'
    <3>1. \A i \in Waiting : (Concerns(i, d)' <=> Concerns(i, d)) /\ Carries(i, d)' = Carries(i, d)
      BY <2>1 DEF Concerns, Carries
    <3>2. ~Concerns(n + 1, d)'
      BY <2>0, <2>1, <2>6 DEF Concerns
    <3>3. CASE \E i \in Waiting : /\ Concerns(i, d) /\ Carries(i, d) = row[d]
                                  /\ \A j \in Waiting : j > i => ~Concerns(j, d)
      <4>1. PICK i \in Waiting : /\ Concerns(i, d) /\ Carries(i, d) = row[d]
                                 /\ \A j \in Waiting : j > i => ~Concerns(j, d)
        BY <3>3
      <4>2. /\ i \in Waiting' /\ Concerns(i, d)' /\ Carries(i, d)' = row'[d]
            /\ \A j \in Waiting' : j > i => ~Concerns(j, d)'
        BY <1>1, <2>1, <2>6, <3>1, <3>2, <4>1
      <4> QED
        BY <4>2 DEF LastIsRow
    <3>4. CASE /\ \A i \in Waiting : ~Concerns(i, d)
               /\ topology[1] # None => topology[1][d] = row[d]
      <4>1. \A i \in Waiting' : ~Concerns(i, d)'
        BY <2>1, <3>1, <3>2, <3>4
      <4> QED
        BY <1>1, <2>6, <3>4, <4>1 DEF LastIsRow
    <3> QED
      BY <2>6, <3>3, <3>4 DEF LastIsRow
  <2>7. LastIsRow(c)'
    <3>1. Concerns(n + 1, c)' /\ Carries(n + 1, c)' = row'[c]
      BY <1>1, <2>0, <2>1 DEF Concerns, Carries
    <3>2. \A j \in Waiting' : ~(j > n + 1)
      BY <1>1, <2>1
    <3> QED
      BY <2>1, <3>1, <3>2 DEF LastIsRow
  <2>8. RowIsOnItsWay'
    BY <2>6, <2>7 DEF Flow, RowIsOnItsWay
  <2>9. ReportIsOnItsWay'
    <3>1. ~NoUpdateWaits'
      BY <2>0, <2>1 DEF NoUpdateWaits
    <3> QED
      BY <3>1 DEF ReportIsOnItsWay
  <2> QED
    BY <1>2, <1>3, <2>4, <2>5, <2>8, <2>9 DEF Flow
<1> QED
  BY <1>1, <1>4, <1>5

-----------------------------------------------------------------------------
(* What the container's thread does with it.                               *)

\* When the message at work is gone, those behind it are one place further.
LEMMA OneWaitsLess ==
    ASSUME toAgent \in [Handlers -> Seq(Messages)], 1 \in Handlers, toAgent[1] # << >>,
           toAgent'[1] = Tail(toAgent[1]), ~Busy(1)'
    PROVE  /\ \A i \in 1 .. Len(toAgent'[1]) :
                /\ i + 1 \in 1 .. Len(toAgent[1]) /\ i \in Nat
                /\ toAgent'[1][i] = toAgent[1][i + 1]
           /\ Waiting' = 1 .. Len(toAgent'[1])
           /\ Waiting \subseteq 1 .. Len(toAgent[1])
           /\ 1 \in Waiting <=> ~Busy(1)
           /\ \A i \in Waiting : i # 1 => i - 1 \in Waiting' /\ (i - 1) + 1 = i
           /\ \A i \in Waiting' : i + 1 \in Waiting
           /\ \A i \in Waiting' : \A c \in Cells :
                /\ Concerns(i, c)' <=> Concerns(i + 1, c)
                /\ Carries(i, c)' = Carries(i + 1, c)
<1>1. toAgent[1] \in Seq(Messages) /\ Len(toAgent[1]) \in Nat \ {0}
  OBVIOUS
<1>2. /\ Len(toAgent'[1]) = Len(toAgent[1]) - 1
      /\ \A i \in 1 .. Len(toAgent'[1]) : toAgent'[1][i] = toAgent[1][i + 1]
  BY <1>1
<1>3. Waiting' = 1 .. Len(toAgent'[1])
  BY DEF Waiting, Applied
<1>4. \A i \in Waiting' : \A c \in Cells :
        (Concerns(i, c)' <=> Concerns(i + 1, c)) /\ Carries(i, c)' = Carries(i + 1, c)
  BY <1>2, <1>3 DEF Concerns, Carries
<1>5. \A i \in 1 .. Len(toAgent'[1]) :
        i + 1 \in 1 .. Len(toAgent[1]) /\ i \in Nat /\ toAgent'[1][i] = toAgent[1][i + 1]
  BY <1>1, <1>2
<1>6. /\ Waiting = IF Busy(1) THEN 2 .. Len(toAgent[1]) ELSE 1 .. Len(toAgent[1])
      /\ Len(toAgent'[1]) = Len(toAgent[1]) - 1
  BY <1>2 DEF Waiting, Applied
<1>7. /\ Waiting \subseteq 1 .. Len(toAgent[1]) /\ (1 \in Waiting <=> ~Busy(1))
      /\ \A i \in Waiting : i # 1 => i - 1 \in 1 .. Len(toAgent'[1]) /\ (i - 1) + 1 = i
  BY <1>1, <1>6
<1>8. \A i \in 1 .. Len(toAgent'[1]) : i + 1 \in Waiting
  BY <1>1, <1>6
<1> QED
  BY <1>3, <1>4, <1>5, <1>7, <1>8

\* The UpdateCell at work is gone; it waited no more.
LEMMA DoneFlow ==
    ASSUME Inv, Flow, "second" \notin mishaps, mishaps \subseteq mishaps',
           Busy(1), pc'[1] = "idle", pc[1] = "boot" => mishaps' # {},
           pc[1] = "ignore" => FALSE,
           toAgent'[1] = Tail(toAgent[1]),
           UNCHANGED <<agentSession, started, topology, row, file, tree, toController,
                       reported, updated, committed>>
    PROVE  /\ SetComesFirst' /\ RowIsOnItsWay' /\ TopologyIsBooted'
           /\ ReportIsOnItsWay' /\ ReportedIsFiled'
<1>1. /\ 1 \in Handlers /\ toAgent[1] # << >> /\ topology[1] # None
      /\ toAgent \in [Handlers -> Seq(Messages)]
  BY OneSession DEF Inv, Structure, TypeOK, Flow, FirstSession, Busy
<1>2. ~Busy(1)'
  BY DEF Busy
<1>3. /\ \A i \in 1 .. Len(toAgent'[1]) :
           i + 1 \in 1 .. Len(toAgent[1]) /\ i \in Nat /\ toAgent'[1][i] = toAgent[1][i + 1]
      /\ Waiting' = 1 .. Len(toAgent'[1])
      /\ 1 \notin Waiting
      /\ \A i \in Waiting : i # 1 => i - 1 \in Waiting' /\ (i - 1) + 1 = i
      /\ \A i \in Waiting' : i + 1 \in Waiting
      /\ \A i \in Waiting' : \A c \in Cells :
           (Concerns(i, c)' <=> Concerns(i + 1, c)) /\ Carries(i, c)' = Carries(i + 1, c)
  BY <1>1, <1>2, OneWaitsLess
<1>4. SetComesFirst'
  BY <1>1, <1>3 DEF Flow, SetComesFirst
<1>6. ASSUME NEW c \in Cells, LastIsRow(c) PROVE LastIsRow(c)'
  <2>1. CASE \E i \in Waiting : /\ Concerns(i, c) /\ Carries(i, c) = row[c]
                                /\ \A j \in Waiting : j > i => ~Concerns(j, c)
    <3>1. PICK i \in Waiting : /\ Concerns(i, c) /\ Carries(i, c) = row[c]
                               /\ \A j \in Waiting : j > i => ~Concerns(j, c)
      BY <2>1
    <3>2. PICK k \in Waiting' : k = i - 1 /\ k + 1 = i
      BY <1>3
    <3>3. Concerns(k, c)' /\ Carries(k, c)' = row'[c]
      BY <1>3, <3>1, <3>2
    <3>4. ASSUME NEW j \in Waiting', j > k PROVE ~Concerns(j, c)'
      <4>1. j + 1 \in Waiting /\ j + 1 > i
        BY <1>3, <3>2, <3>4
      <4> QED
        BY <1>3, <3>1, <4>1
    <3> QED
      BY <3>3, <3>4 DEF LastIsRow
  <2>2. CASE /\ \A i \in Waiting : ~Concerns(i, c)
             /\ topology[1] # None => topology[1][c] = row[c]
    <3>1. \A i \in Waiting' : ~Concerns(i, c)'
      BY <1>3, <2>2
    <3> QED
      BY <2>2, <3>1 DEF LastIsRow
  <2> QED
    BY <1>6, <2>1, <2>2 DEF LastIsRow
<1>7. RowIsOnItsWay'
  BY <1>6 DEF Flow, RowIsOnItsWay
<1>8. TopologyIsBooted'
  BY DEF Flow, TopologyIsBooted, Busy
<1>9. ReportIsOnItsWay'
  <2>1. NoUpdateWaits' => NoUpdateWaits
    <3> SUFFICES ASSUME NoUpdateWaits', NEW i \in Waiting PROVE toAgent[1][i].type # "update"
      BY DEF NoUpdateWaits
    <3>1. i - 1 \in Waiting' /\ (i - 1) + 1 = i
      BY <1>3
    <3>2. toAgent'[1][i - 1] = toAgent[1][i]
      BY <1>3, <3>1
    <3> QED
      BY <3>1, <3>2 DEF NoUpdateWaits
  <2> QED
    BY <2>1 DEF Flow, ReportIsOnItsWay
<1>10. ReportedIsFiled'
  BY DEF ReportedIsFiled
<1> QED
  BY <1>4, <1>7, <1>8, <1>9, <1>10

LEMMA MainMainFailsFlow ==
    ASSUME Inv, Flow, NEW t \in Handlers, MainMainFails(t)
    PROVE  Flow'
<1> USE DEF MainMainFails, Done, Go, controller, memory
<1> SUFFICES ASSUME "second" \notin mishaps
             PROVE  Flow'
  BY DEF Flow
<1>1. /\ 0 \in Threads /\ 1 \in Threads /\ Handlers \subseteq Threads /\ 1 \in Handlers
      /\ t = 1 /\ pc[1] = "boot" /\ Busy(1)
  BY OneSession DEF Inv, Flow, Busy
<1>2. /\ \A u \in Threads : u # 1 => pc'[u] = pc[u]
      /\ pc'[1] = "idle" /\ pc'[0] = pc[0] /\ toAgent'[1] = Tail(toAgent[1])
  BY <1>1 DEF Inv, Structure, TypeOK
<1>3. /\ SetComesFirst' /\ RowIsOnItsWay' /\ TopologyIsBooted'
      /\ ReportIsOnItsWay' /\ ReportedIsFiled'
  BY <1>1, <1>2, DoneFlow
<1>4. FirstSession'
  BY <1>1, <1>2 DEF Flow, FirstSession, Busy
<1>5. MainComesFirst'
  BY <1>1, <1>2 DEF Flow, MainComesFirst
<1> QED
  BY <1>3, <1>4, <1>5 DEF Flow

LEMMA MonitorEventsFlow ==
    ASSUME Inv, Flow, NEW t \in Threads, MonitorEvents(t)
    PROVE  Flow'
<1> USE DEF MonitorEvents, controller, histories
<1> SUFFICES ASSUME "second" \notin mishaps
             PROVE  Flow'
  BY DEF Flow
<1>1. /\ 0 \in Threads /\ 1 \in Threads /\ Handlers \subseteq Threads /\ 1 \in Handlers
      /\ t \in {0, 1} /\ pc[t] = "monitor"
  BY OneSession DEF Inv, Flow
<1>2. /\ \A u \in Threads : u # t => pc'[u] = pc[u]
      /\ pc'[t] = "idle" /\ 0 \in Threads
  BY <1>1 DEF Inv, Structure, TypeOK, Go, Done
<1>3. MainComesFirst'
  BY <1>1, <1>2 DEF Flow, MainComesFirst
<1>4. CASE t = 1
  <2>1. toAgent'[1] = Tail(toAgent[1]) /\ agentSession' = agentSession /\ Busy(1) /\ pc[1] = "monitor"
    BY <1>1, <1>4 DEF Done, Inv, Structure, TypeOK, Busy
  <2>2. /\ SetComesFirst' /\ RowIsOnItsWay' /\ TopologyIsBooted'
        /\ ReportIsOnItsWay' /\ ReportedIsFiled'
    BY <1>2, <1>4, <2>1, DoneFlow
  <2>3. FirstSession'
    BY <1>1, <1>2, <1>4, <2>1 DEF Flow, FirstSession, Busy
  <2> QED
    BY <1>3, <2>2, <2>3 DEF Flow
<1>5. CASE t = 0
  <2>1. toAgent' = toAgent /\ pc'[1] = pc[1] /\ (Busy(1)' <=> Busy(1))
    BY <1>1, <1>2, <1>5 DEF Busy
  <2>2. RowIsOnItsWay' /\ TopologyIsBooted' /\ ReportIsOnItsWay' /\ ReportedIsFiled'
    BY <2>1, SameFlow
  <2>3. FirstSession' /\ SetComesFirst'
    BY <1>1, <1>2, <1>5, <2>1, SameChannel DEF Flow, FirstSession, Busy
  <2> QED
    BY <1>3, <2>2, <2>3 DEF Flow
<1> QED
  BY <1>1, <1>4, <1>5

\* The topology that is sent is the first and the last set.
LEMMA HandleSetConfigTopologyFlow ==
    ASSUME Inv, Flow, NEW t \in Handlers, HandleSetConfigTopology(t)
    PROVE  Flow'
<1> USE DEF HandleSetConfigTopology, Done, Go, controller, histories
<1> SUFFICES ASSUME "second" \notin mishaps
             PROVE  Flow'
  BY DEF Flow
<1>1. /\ 0 \in Threads /\ 1 \in Threads /\ Handlers \subseteq Threads /\ 1 \in Handlers
      /\ t = 1 /\ pc[1] = "handle" /\ ~Busy(1) /\ handler[1] = 1 /\ toAgent[1] # << >>
  BY OneSession DEF Inv, Flow, Busy
<1>2. /\ \A u \in Threads : u # 1 => pc'[u] = pc[u]
      /\ pc'[1] = "idle" /\ pc'[0] = pc[0] /\ toAgent'[1] = Tail(toAgent[1])
      /\ toAgent \in [Handlers -> Seq(Messages)] /\ Received(1) = toAgent[1][1]
  BY <1>1 DEF Inv, Structure, TypeOK, Received
<1>3. 1 \in 1 .. Len(toAgent[1]) /\ topology[1] = None /\ toAgent[1][1].type = "set"
  BY <1>1, <1>2 DEF Flow, SetComesFirst
<1>4. topology'[1] = toAgent[1][1].pcis /\ topology'[1] \in [Cells -> Pcis] /\ topology'[1] # None
  <2>1. Received(1) \in Messages
    BY <1>1, <1>2, Receiving
  <2>2. Received(1).pcis \in [Cells -> Pcis]
    BY <1>2, <1>3, <2>1, SetIsTopology
  <2> QED
    BY <1>1, <1>2, <2>2, NoTopologyAssumption DEF Inv, Structure, TypeOK
<1>5. /\ \A i \in 1 .. Len(toAgent'[1]) :
           i + 1 \in 1 .. Len(toAgent[1]) /\ i \in Nat /\ toAgent'[1][i] = toAgent[1][i + 1]
      /\ Waiting' = 1 .. Len(toAgent'[1]) /\ Waiting \subseteq 1 .. Len(toAgent[1])
      /\ 1 \in Waiting
      /\ \A i \in Waiting : i # 1 => i - 1 \in Waiting' /\ (i - 1) + 1 = i
      /\ \A i \in Waiting' : i + 1 \in Waiting
      /\ \A i \in Waiting' : \A c \in Cells :
           (Concerns(i, c)' <=> Concerns(i + 1, c)) /\ Carries(i, c)' = Carries(i + 1, c)
  <2>1. ~Busy(1)'
    BY <1>2 DEF Busy
  <2> QED
    BY <1>1, <1>2, <2>1, OneWaitsLess
<1>6. updated = {} /\ agentSession # 0 /\ started
  BY <1>1, <1>3 DEF Flow, FirstSession
<1>7. FirstSession'
  BY <1>1, <1>2, <1>6 DEF Flow, FirstSession, Busy
<1>8. SetComesFirst'
  <2>1. ASSUME NEW i \in 1 .. Len(toAgent'[1])
        PROVE  toAgent'[1][i].type # "set"
    <3>1. toAgent'[1][i] = toAgent[1][i + 1] /\ i + 1 \in 1 .. Len(toAgent[1]) /\ i + 1 # 1
      BY <1>5
    <3> QED
      BY <3>1 DEF Flow, SetComesFirst
  <2> QED
    BY <1>4, <2>1 DEF SetComesFirst
<1>9. MainComesFirst'
  BY <1>2, <1>6 DEF Flow, MainComesFirst
<1>11. ASSUME NEW c \in Cells, LastIsRow(c) PROVE LastIsRow(c)'
  <2>1. Concerns(1, c) /\ Carries(1, c) = topology'[1][c]
    BY <1>3, <1>4 DEF Concerns, Carries
  <2>2. PICK i \in Waiting : /\ Concerns(i, c) /\ Carries(i, c) = row[c]
                             /\ \A j \in Waiting : j > i => ~Concerns(j, c)
    BY <1>5, <1>11, <2>1 DEF LastIsRow
  <2>3. CASE i = 1
    <3>1. \A j \in Waiting' : ~Concerns(j, c)'
      BY <1>5, <2>2, <2>3
    <3> QED
      BY <2>1, <2>2, <2>3, <3>1 DEF LastIsRow
  <2>4. CASE i # 1
    <3>2. PICK k \in Waiting' : k = i - 1 /\ k + 1 = i
      BY <1>5, <2>4
    <3>3. Concerns(k, c)' /\ Carries(k, c)' = row'[c]
      BY <1>5, <2>2, <3>2
    <3>4. ASSUME NEW j \in Waiting', j > k PROVE ~Concerns(j, c)'
      <4>1. j + 1 \in Waiting /\ j \in Nat /\ k \in Nat
        BY <1>5
      <4>2. j + 1 > i
        BY <3>2, <3>4, <4>1
      <4> QED
        BY <1>5, <2>2, <4>1, <4>2
    <3> QED
      BY <3>3, <3>4 DEF LastIsRow
  <2> QED
    BY <2>3, <2>4
<1>12. RowIsOnItsWay'
  BY <1>11 DEF Flow, RowIsOnItsWay
<1>13. TopologyIsBooted' /\ ReportedIsFiled'
  BY <1>2, <1>6 DEF TopologyIsBooted, ReportedIsFiled
<1>14. ReportIsOnItsWay'
  <2>1. NoUpdateWaits' => NoUpdateWaits
    <3> SUFFICES ASSUME NoUpdateWaits', NEW i \in Waiting PROVE toAgent[1][i].type # "update"
      BY DEF NoUpdateWaits
    <3>1. CASE i # 1
      <4>1. i - 1 \in Waiting' /\ (i - 1) + 1 = i
        BY <1>5, <3>1
      <4>2. toAgent'[1][i - 1] = toAgent[1][i]
        BY <1>5, <4>1
      <4> QED
        BY <4>1, <4>2 DEF NoUpdateWaits
    <3> QED
      BY <1>3, <3>1
  <2> QED
    BY <2>1 DEF Flow, ReportIsOnItsWay
<1> QED
  BY <1>7, <1>8, <1>9, <1>12, <1>13, <1>14 DEF Flow

\* The last of what comes after the head is the last.
LEMMA LastOfTail ==
    ASSUME NEW S, NEW s \in Seq(S), s # << >>
    PROVE  IF Tail(s) = << >> THEN s[1] = s[Len(s)]
           ELSE Tail(s)[Len(Tail(s))] = s[Len(s)]
<1>0. \A q \in Seq(S) : q = << >> <=> Len(q) = 0
  OBVIOUS
<1>1. PICK q \in Seq(S), n \in Nat :
        /\ q = Tail(s) /\ Len(s) = n + 1 /\ Len(q) = n
        /\ \A i \in 1 .. n : q[i] = s[i + 1]
  <2>1. Len(s) - 1 \in Nat /\ Tail(s) \in Seq(S) /\ Len(Tail(s)) = Len(s) - 1
    OBVIOUS
  <2>2. \A i \in 1 .. Len(Tail(s)) : Tail(s)[i] = s[i + 1]
    OBVIOUS
  <2>3. Len(s) = (Len(s) - 1) + 1
    OBVIOUS
  <2> QED
    BY <2>1, <2>2, <2>3
<1>2. q = << >> <=> n = 0
  BY <1>0, <1>1
<1>3. CASE n = 0
  BY <1>1, <1>2, <1>3
<1>4. CASE n # 0
  <2>1. n \in 1 .. n
    BY <1>4
  <2>2. q[n] = s[n + 1]
    BY <1>1, <2>1
  <2> QED
    BY <1>1, <1>2, <1>4, <2>2
<1> QED
  BY <1>3, <1>4

-----------------------------------------------------------------------------
(* What changes a copy.                                                    *)

\* The last message about a cell is the last one, as long as nothing is sent
\* and neither the row nor the topology changes.
LEMMA SameRow ==
    ASSUME NEW c, LastIsRow(c), UNCHANGED <<toAgent, topology>>, row'[c] = row[c],
           Busy(1)' <=> Busy(1)
    PROVE  LastIsRow(c)'
<1>1. /\ Waiting' = Waiting
      /\ \A i : Concerns(i, c)' <=> Concerns(i, c)
      /\ \A i : Carries(i, c)' = Carries(i, c)
  BY DEF Waiting, Applied, Concerns, Carries
<1> QED
  BY <1>1 DEF LastIsRow

LEMMA SameWaiting ==
    ASSUME toAgent' = toAgent, Busy(1)' <=> Busy(1)
    PROVE  NoUpdateWaits' <=> NoUpdateWaits
BY DEF NoUpdateWaits, Waiting, Applied

\* The update that is taken waits no more, and its PCI is in the topology and the file.
LEMMA HandleUpdateCellFlow ==
    ASSUME Inv, Flow, NEW t \in Handlers, HandleUpdateCell(t)
    PROVE  Flow'
<1> SUFFICES ASSUME "second" \notin mishaps'
             PROVE  Flow'
  BY DEF Flow
<1>0. "second" \notin mishaps
  BY DEF HandleUpdateCell
<1>1. /\ 0 \in Threads /\ 1 \in Threads /\ Handlers \subseteq Threads /\ 1 \in Handlers
      /\ t = 1 /\ pc[1] = "handle" /\ ~Busy(1) /\ handler[1] = 1 /\ toAgent[1] # << >>
  BY <1>0, OneSession DEF Inv, Flow, Busy, HandleUpdateCell
<1>2. /\ \A u \in Threads : u # 1 => pc'[u] = pc[u]
      /\ pc'[1] = "ignore" /\ pc'[0] = pc[0] /\ UNCHANGED <<controller, toAgent, instance>>
      /\ toAgent \in [Handlers -> Seq(Messages)] /\ Received(1) = toAgent[1][1]
  BY <1>1 DEF Inv, Structure, TypeOK, Received, HandleUpdateCell, Go
<1>3. /\ 1 \in 1 .. Len(toAgent[1]) /\ topology[1] # None /\ toAgent[1][1].type = "update"
      /\ topology[1] \in [Cells -> Pcis]
      /\ toAgent[1][1].cell \in Cells /\ toAgent[1][1].pci \in Pcis
  <2>1. Received(1) \in Messages /\ Received(1).type = "update" /\ topology[1] # None
    BY <1>1, <1>2, Receiving DEF HandleUpdateCell
  <2> QED
    BY <1>1, <1>2, <2>1, UpdateIsCell DEF Inv, Structure, TypeOK
<1>4. /\ topology'[1] = [topology[1] EXCEPT ![toAgent[1][1].cell] = toAgent[1][1].pci]
      /\ topology'[1] \in [Cells -> Pcis] /\ file' = topology'[1]
      /\ reported' = {} /\ row' = row
      /\ pc[0] # "idle" => "overlap" \in mishaps'
      /\ "overlap" \in mishaps => "overlap" \in mishaps'
  BY <1>1, <1>2, <1>3 DEF Inv, Structure, TypeOK, HandleUpdateCell, controller
<1>5. topology'[1] # None
  BY <1>4, NoTopologyAssumption
<1>6. /\ Waiting = 1 .. Len(toAgent[1]) /\ Waiting' = 2 .. Len(toAgent[1])
      /\ Len(toAgent[1]) \in Nat
      /\ Waiting' \subseteq Waiting /\ 1 \in Waiting /\ \A i \in Waiting : i # 1 => i \in Waiting'
  BY <1>1, <1>2, <1>3 DEF Waiting, Applied, Busy
<1>7. FirstSession'
  BY <1>0, <1>1, <1>2, <1>5 DEF Flow, FirstSession, Busy, controller
<1>8. SetComesFirst'
  BY <1>0, <1>2, <1>3, <1>5 DEF Flow, SetComesFirst, controller
<1>9. MainComesFirst'
  BY <1>2, <1>4 DEF MainComesFirst
<1>10. ASSUME NEW c \in Cells, LastIsRow(c) PROVE LastIsRow(c)'
  <2>1. \A i : (Concerns(i, c)' <=> Concerns(i, c)) /\ Carries(i, c)' = Carries(i, c)
    BY <1>2 DEF Concerns, Carries
  <2>2. Concerns(1, c) <=> toAgent[1][1].cell = c
    BY <1>3 DEF Concerns
  <2>3. CASE \E i \in Waiting : /\ Concerns(i, c) /\ Carries(i, c) = row[c]
                                /\ \A j \in Waiting : j > i => ~Concerns(j, c)
    <3>1. PICK i \in Waiting : /\ Concerns(i, c) /\ Carries(i, c) = row[c]
                               /\ \A j \in Waiting : j > i => ~Concerns(j, c)
      BY <2>3
    <3>2. CASE i = 1
      <4>1. toAgent[1][1].cell = c /\ topology'[1][c] = row[c]
        BY <1>3, <1>4, <2>2, <3>1, <3>2 DEF Carries
      <4>2. \A j \in Waiting' : ~Concerns(j, c)'
        BY <1>6, <2>1, <3>1, <3>2
      <4> QED
        BY <1>4, <4>1, <4>2 DEF LastIsRow
    <3>3. CASE i # 1
      BY <1>4, <1>6, <2>1, <3>1, <3>3 DEF LastIsRow
    <3> QED
      BY <3>2, <3>3
  <2>4. CASE /\ \A i \in Waiting : ~Concerns(i, c)
             /\ topology[1] # None => topology[1][c] = row[c]
    <3>1. topology'[1][c] = row[c]
      BY <1>3, <1>4, <1>6, <2>2, <2>4
    <3>2. \A i \in Waiting' : ~Concerns(i, c)'
      BY <1>6, <2>1, <2>4
    <3> QED
      BY <1>4, <3>1, <3>2 DEF LastIsRow
  <2> QED
    BY <1>10, <2>3, <2>4 DEF LastIsRow
<1>11. committed' = committed
  BY DEF HandleUpdateCell
<1>12. RowIsOnItsWay'
  BY <1>0, <1>4, <1>10, <1>11 DEF Flow, RowIsOnItsWay
<1>13. TopologyIsBooted' /\ ReportIsOnItsWay' /\ ReportedIsFiled'
  BY <1>2, <1>4 DEF TopologyIsBooted, ReportIsOnItsWay, ReportedIsFiled
<1> QED
  BY <1>7, <1>8, <1>9, <1>12, <1>13 DEF Flow

\* There is a topology before an UpdateCell comes.
LEMMA DropUpdateCellFlow ==
    ASSUME Inv, Flow, NEW t \in Handlers, DropUpdateCell(t)
    PROVE  Flow'
<1> SUFFICES ASSUME "second" \notin mishaps
             PROVE  FALSE
  BY DEF Flow, DropUpdateCell, histories
<1>1. /\ t = 1 /\ handler[1] = 1 /\ toAgent[1] # << >> /\ 1 \in Handlers
  BY OneSession DEF Inv, Flow, DropUpdateCell
<1>2. toAgent[1] \in Seq(Messages) /\ Received(1) = toAgent[1][1]
  BY <1>1 DEF Inv, Structure, TypeOK, Received
<1>3. 1 \in 1 .. Len(toAgent[1]) /\ toAgent[1][1].type = "update" /\ topology[1] = None
  BY <1>1, <1>2 DEF DropUpdateCell
<1> QED
  BY <1>3 DEF Flow, SetComesFirst

\* Honeycomb reads the file: the main thread before there are changes, the
\* container's thread what it has written or SDN-R has changed since.
LEMMA MainMainFlow ==
    ASSUME Inv, Flow, NEW t \in Threads, MainMain(t)
    PROVE  Flow'
<1> SUFFICES ASSUME "second" \notin mishaps
             PROVE  Flow'
  BY DEF Flow, MainMain, histories
<1>1. /\ 0 \in Threads /\ 1 \in Threads /\ Handlers \subseteq Threads /\ 1 \in Handlers
      /\ t \in {0, 1} /\ pc[t] = "boot"
  BY OneSession DEF Inv, Flow, MainMain
<1>2. /\ \A u \in Threads : u # t => pc'[u] = pc[u]
      /\ pc'[t] = "monitor"
      /\ UNCHANGED <<row, started, agentSession, toAgent, instance, topology, file, committed,
                     updated, reported, mishaps>>
  BY DEF Inv, Structure, TypeOK, MainMain, Go, memory, histories
<1>3. \A u \in Threads : Busy(u)' <=> Busy(u)
  BY <1>1, <1>2 DEF Busy
<1>4. FirstSession' /\ SetComesFirst' /\ MainComesFirst'
  BY <1>1, <1>2, <1>3, SameChannel DEF Flow, FirstSession, MainComesFirst, Busy
<1>5. RowIsOnItsWay'
  BY <1>1, <1>2, <1>3, SameRow DEF Flow, RowIsOnItsWay
<1>6. tree' = file
  BY DEF MainMain
<1>7. CASE t = 0
  <2>1. reported = {} /\ ("overlap" \notin mishaps => updated = {}) /\ pc'[1] = pc[1]
    BY <1>1, <1>2, <1>7 DEF Flow, MainComesFirst
  <2>2. TopologyIsBooted' /\ ReportIsOnItsWay' /\ ReportedIsFiled'
    BY <1>2, <2>1 DEF Flow, TopologyIsBooted, ReportIsOnItsWay, ReportedIsFiled
  <2> QED
    BY <1>4, <1>5, <2>2 DEF Flow
<1>8. CASE t = 1
  <2>1. TopologyIsBooted' /\ ReportedIsFiled'
    BY <1>1, <1>2, <1>6, <1>8 DEF Flow, TopologyIsBooted, ReportedIsFiled, Inv, Structure, TypeOK
  <2>2. ReportIsOnItsWay'
    <3> SUFFICES ASSUME NoUpdateWaits, NEW c \in reported
                 PROVE  IF toController'[c] = << >> THEN row[c] = tree'[c]
                        ELSE toController'[c][Len(toController'[c])] = tree'[c]
      BY <1>1, <1>2, <1>3, SameWaiting DEF ReportIsOnItsWay
    <3>1. c \in Cells /\ tree'[c] = tree[c] /\ file[c] = tree[c]
      BY <1>1, <1>6, <1>8 DEF Flow, ReportedIsFiled, Inv, Structure, TypeOK
    <3>2. /\ toController[c] \in Seq(Pcis)
          /\ IF toController[c] = << >> THEN row[c] = tree[c]
             ELSE toController[c][Len(toController[c])] = tree[c]
      BY <3>1 DEF Flow, ReportIsOnItsWay, Inv, Structure, TypeOK
    <3>3. \/ toController'[c] = toController[c]
          \/ file[c] \in Pcis /\ toController'[c] = Append(toController[c], file[c])
      BY <3>1 DEF MainMain, Inv, Structure, TypeOK
    <3>4. CASE toController'[c] = toController[c]
      BY <3>1, <3>2, <3>4
    <3>5. CASE file[c] \in Pcis /\ toController'[c] = Append(toController[c], file[c])
      BY <3>1, <3>2, <3>5
    <3> QED
      BY <3>3, <3>4, <3>5
  <2> QED
    BY <1>4, <1>5, <2>1, <2>2 DEF Flow
<1> QED
  BY <1>1, <1>7, <1>8

\* A change of SDN-R is reported with the value the tree gets.
LEMMA CommitFlow ==
    ASSUME Inv, Flow, NEW c \in Cells, NEW p \in Pcis, Commit(c, p)
    PROVE  Flow'
<1> SUFFICES ASSUME "second" \notin mishaps
             PROVE  Flow'
  BY DEF Flow, Commit
<1>1. /\ 0 \in Threads /\ 1 \in Threads /\ pc[0] \in {"monitor", "idle"} /\ instance # 0
  BY OneSession DEF Inv, Structure, ThreadsHold, Flow, Commit
<1>2. UNCHANGED <<row, started, agentSession, toAgent, memory, pc, handler, updated>>
  BY DEF Commit
<1>3. (Busy(1)' <=> Busy(1)) /\ (NoUpdateWaits' <=> NoUpdateWaits)
  BY <1>2, SameWaiting DEF Busy
<1>4. FirstSession' /\ SetComesFirst' /\ MainComesFirst'
  <2>1. "overlap" \in mishaps => "overlap" \in mishaps'
    BY DEF Commit
  <2>2. SetComesFirst'
    BY <1>2, SameChannel DEF Flow, memory
  <2> QED
    BY <1>1, <1>2, <2>1, <2>2 DEF Flow, FirstSession, MainComesFirst, Busy, memory
<1>5. /\ \A d \in Cells : d # c => /\ committed'[d] = committed[d] /\ tree'[d] = tree[d]
                                   /\ toController'[d] = toController[d]
      /\ committed'[c] # {} /\ tree' = file' /\ tree'[c] = p
      /\ mishaps \subseteq mishaps'
      /\ Booting => mishaps' # {}
      /\ reported \subseteq Cells /\ updated \subseteq Cells
      /\ reported' \subseteq reported \cup {c}
  BY DEF Inv, Structure, TypeOK, Commit
<1>6. RowIsOnItsWay'
  BY <1>2, <1>3, <1>5, SameRow DEF Flow, RowIsOnItsWay, memory
<1>7. TopologyIsBooted'
  <2>1. mishaps' = {} => mishaps = {} /\ pc[1] \notin {"ignore", "boot"}
    BY <1>1, <1>5 DEF Booting
  <2> QED
    BY <1>2, <1>5, <2>1 DEF Flow, TopologyIsBooted, memory
<1>8. ReportIsOnItsWay'
  <2> SUFFICES ASSUME NoUpdateWaits, NEW d \in reported'
               PROVE  IF toController'[d] = << >> THEN row[d] = tree'[d]
                      ELSE toController'[d][Len(toController'[d])] = tree'[d]
    BY <1>2, <1>3 DEF ReportIsOnItsWay
  <2>1. CASE d = c
    <3>1. initialized[instance]
      BY <2>1 DEF Commit
    <3>2. toController[c] \in Seq(Pcis) /\ toController'[c] = Append(toController[c], p)
      BY <3>1 DEF Inv, Structure, TypeOK, Commit
    <3> QED
      BY <1>5, <2>1, <3>2
  <2>2. CASE d # c
    <3>1. d \in reported /\ d \in Cells
      BY <1>5, <2>2
    <3> QED
      BY <1>5, <2>2, <3>1 DEF Flow, ReportIsOnItsWay
  <2> QED
    BY <2>1, <2>2
<1>9. ReportedIsFiled'
  BY <1>5 DEF ReportedIsFiled
<1> QED
  BY <1>4, <1>6, <1>7, <1>8, <1>9 DEF Flow

\* Only a cell that SDN-R has changed is reported.
LEMMA ModifyPciFlow ==
    ASSUME Inv, Flow, NEW c \in Cells, ModifyPci(c)
    PROVE  Flow'
<1> SUFFICES ASSUME "second" \notin mishaps
             PROVE  Flow'
  BY DEF Flow, ModifyPci, histories
<1>1. UNCHANGED <<started, agentSession, toAgent, instance, topology, file, tree, pc,
                  committed, updated, reported, mishaps>>
  BY DEF ModifyPci, memory, histories
<1>2. (Busy(1)' <=> Busy(1)) /\ (NoUpdateWaits' <=> NoUpdateWaits)
  BY <1>1, SameWaiting DEF Busy
<1>3. FirstSession' /\ SetComesFirst' /\ MainComesFirst'
  BY <1>1, SameChannel DEF Flow, FirstSession, MainComesFirst, Busy
<1>4. TopologyIsBooted' /\ ReportedIsFiled'
  BY <1>1 DEF Flow, TopologyIsBooted, ReportedIsFiled
<1>5. /\ toController[c] \in Seq(Pcis) /\ toController[c] # << >>
      /\ toController'[c] = Tail(toController[c])
      /\ row'[c] = toController[c][1]
      /\ \A d \in Cells : d # c => row'[d] = row[d] /\ toController'[d] = toController[d]
  BY DEF ModifyPci, Inv, Structure, TypeOK
<1>6. RowIsOnItsWay'
  <2> SUFFICES ASSUME "overlap" \notin mishaps, NEW d \in Cells, committed[d] = {}
               PROVE  LastIsRow(d)'
    BY <1>1 DEF RowIsOnItsWay
  <2>1. d # c
    <3>1. 1 \in 1 .. Len(toController[c])
      BY <1>5
    <3> QED
      BY <3>1 DEF Inv, NoEcho
  <2> QED
    BY <1>1, <1>2, <1>5, <2>1, SameRow DEF Flow, RowIsOnItsWay
<1>7. ReportIsOnItsWay'
  <2> SUFFICES ASSUME NoUpdateWaits, NEW d \in reported
               PROVE  IF toController'[d] = << >> THEN row'[d] = tree[d]
                      ELSE toController'[d][Len(toController'[d])] = tree[d]
    BY <1>1, <1>2 DEF ReportIsOnItsWay
  <2>0. d \in Cells
    BY DEF Inv, Structure, TypeOK
  <2>1. IF toController[d] = << >> THEN row[d] = tree[d]
        ELSE toController[d][Len(toController[d])] = tree[d]
    BY DEF Flow, ReportIsOnItsWay
  <2>2. CASE d = c
    <3>1. toController[c][Len(toController[c])] = tree[c]
      BY <1>5, <2>1, <2>2
    <3>2. IF Tail(toController[c]) = << >> THEN toController[c][1] = tree[c]
          ELSE Tail(toController[c])[Len(Tail(toController[c]))] = tree[c]
      BY <1>5, <3>1, LastOfTail
    <3> QED
      BY <1>5, <2>2, <3>2
  <2>3. CASE d # c
    BY <1>5, <2>0, <2>1, <2>3
  <2> QED
    BY <2>2, <2>3
<1> QED
  BY <1>3, <1>4, <1>6, <1>7 DEF Flow

LEMMA StutterFlow ==
    ASSUME Flow, UNCHANGED vars
    PROVE  Flow'
<1> SUFFICES ASSUME "second" \notin mishaps
             PROVE  Flow'
  BY DEF Flow, vars, histories
<1>1. FirstSession' /\ SetComesFirst' /\ MainComesFirst'
  BY DEF Flow, FirstSession, SetComesFirst, MainComesFirst, Busy, vars, controller, memory,
         histories
<1>2. RowIsOnItsWay' /\ TopologyIsBooted' /\ ReportIsOnItsWay' /\ ReportedIsFiled'
  BY SameFlow DEF Busy, vars, controller, memory, histories
<1> QED
  BY <1>1, <1>2 DEF Flow

\* As long as there is one handler, what each copy lacks is on its way to it (Flow).
THEOREM FlowHolds == Spec => []Flow
<1>1. Init => Flow
  BY InitFlow
<1>2. Inv /\ Flow /\ [Next]_vars => Flow'
  <2> SUFFICES ASSUME Inv, Flow, [Next]_vars
               PROVE  Flow'
    OBVIOUS
  <2>1. CASE \E t \in Threads :
               \/ UseHandler(t) \/ NewHandler(t) \/ Connect(t) \/ AssignInstance(t)
               \/ IgnoreEvents(t) \/ MainMain(t) \/ MonitorEvents(t)
    BY <2>1, UseHandlerFlow, NewHandlerFlow, ConnectFlow, AssignInstanceFlow,
       IgnoreEventsFlow, MainMainFlow, MonitorEventsFlow
  <2>2. CASE \E t \in Handlers :
               \/ HandleSetConfigTopology(t) \/ DropUpdateCell(t) \/ HandleUpdateCell(t)
               \/ MainMainFails(t)
    BY <2>2, HandleSetConfigTopologyFlow, DropUpdateCellFlow, HandleUpdateCellFlow,
       MainMainFailsFlow
  <2>3. CASE \E c \in Cells, p \in Pcis : Commit(c, p) \/ ModifyACell(c, p)
    BY <2>3, CommitFlow, ModifyACellFlow
  <2>4. CASE \E c \in Cells : ModifyPci(c)
    BY <2>4, ModifyPciFlow
  <2>5. CASE StartSimulation
    BY <2>5, StartSimulationFlow
  <2>6. CASE UNCHANGED vars
    BY <2>6, StutterFlow
  <2> QED
    BY <2>1, <2>2, <2>3, <2>4, <2>5, <2>6 DEF Next
<1> QED
  BY <1>1, <1>2, InvHolds, PTL DEF Spec

\* What the controller's user has changed is in Honeycomb's tree when nothing is on
\* its way, whatever has failed before the last change (UpdatesArrive).
THEOREM ChangesReachHoneycomb == Spec => []UpdatesArrive
<1>1. Inv /\ Flow => UpdatesArrive
  <2> SUFFICES ASSUME Inv, Flow, AtRest, mishaps = {}, NEW c \in updated, committed[c] = {}
               PROVE  tree[c] = row[c]
    BY DEF UpdatesArrive
  <2>1. 1 \in Handlers /\ 1 \in Threads /\ c \in Cells /\ topology[1] # None
    BY OneSession DEF Flow, FirstSession, Inv, Structure, TypeOK
  <2>2. pc[1] = "idle" /\ toAgent[1] = << >>
    BY <2>1 DEF AtRest
  <2>3. Waiting = {}
    BY <2>2 DEF Waiting, Applied, Busy
  <2>4. topology[1][c] = row[c]
    BY <2>1, <2>3 DEF Flow, RowIsOnItsWay, LastIsRow
  <2> QED
    BY <2>2, <2>4 DEF Flow, TopologyIsBooted
<1> QED
  BY <1>1, InvHolds, FlowHolds, PTL

\* What SDN-R has changed and the agent has reported is in the controller's table when
\* nothing is on its way (CommitsArrive).
THEOREM ReportsReachTheTable == Spec => []CommitsArrive
<1>1. Inv /\ Flow => CommitsArrive
  <2> SUFFICES ASSUME Inv, Flow, AtRest, "second" \notin mishaps, NEW c \in reported
               PROVE  tree[c] = row[c]
    BY DEF CommitsArrive
  <2>1. 1 \in Handlers /\ 1 \in Threads /\ c \in Cells
    BY OneSession DEF Flow, Inv, Structure, TypeOK
  <2>2. pc[1] = "idle" /\ toAgent[1] = << >> /\ toController[c] = << >>
    BY <2>1 DEF AtRest
  <2>3. NoUpdateWaits
    BY <2>2 DEF NoUpdateWaits, Waiting, Applied, Busy
  <2> QED
    BY <2>2, <2>3 DEF Flow, ReportIsOnItsWay
<1> QED
  BY <1>1, InvHolds, FlowHolds, PTL

=============================================================================
