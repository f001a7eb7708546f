------------------------- MODULE PmSchedulerProofs -------------------------
(* The status that GetPmDataStatus tells is right, and each run sends one  *)
(* row, for every number of requests, servers and rows, if the requests    *)
(* come one at a time and the user asks for the status first.              *)
EXTENDS PmScheduler, TLAPS

-----------------------------------------------------------------------------
(* The invariant. *)

Typed ==
    /\ execService \in Generates \cup {First}
    /\ isPmDataGenerating \in BOOLEAN
    /\ scheduledOn \in [Generates -> Generates \cup {First}]
    /\ pc \in [Requests -> RequestPc]
    /\ run \in [Generates -> RunPc]
    /\ row1 \in [Generates -> Nat] /\ row2 \in [Generates -> Nat]
    /\ seen \in [Generates -> Nat]
    /\ next \in Nat

Handled(r) == pc[r] \notin {"new", "done"}
NoneActive == \A g \in Generates : ~Active(g)

\* One request is handled at a time.
Alone == \A r, s \in Requests : Handled(r) /\ Handled(s) => r = s

\* A task runs only on the executor the field holds; an executor is shut down
\* only when the request that made it has been handled.
OnField == \A g \in Generates : Active(g) => scheduledOn[g] = execService
Fresh ==
    /\ \A g \in Generates : g \in shutdown => pc[g] = "done"
    /\ execService \in Generates => pc[execService] # "new"

\* What the flag tells between requests, and what is so within them.
FlagInv ==
    /\ Quiet => (isPmDataGenerating <=> \E g \in Generates : Active(g))
    /\ \A r \in Requests :
         /\ pc[r] = "schedule" => r \in Generates /\ execService = r /\ NoneActive
         /\ pc[r] = "setFlag" => r \in Generates /\ Active(r)
         /\ pc[r] = "clearFlag" => NoneActive

StatusInv == Typed /\ Alone /\ OnField /\ Fresh /\ FlagInv

\* One task is busy at a time, if the user waits for the last run.
Busy(g) == Running(g) \/ Active(g)
OneTask ==
    /\ \A g, h \in Generates : Busy(g) /\ Busy(h) => g = h
    /\ \A r \in Requests : pc[r] = "schedule" => \A g \in Generates : ~Running(g)

\* The rows a run has taken so far.
RowInv ==
    /\ next <= Rows
    /\ \A g \in Generates :
         /\ run[g] \in {"first", "second", "read", "write"} => next < Rows
         /\ run[g] \in {"second", "read", "write"} => row1[g] = next + 1
         /\ run[g] \in {"read", "write"} => row2[g] = next + 1
         /\ run[g] = "write" => seen[g] = next
         /\ run[g] = "send" => row1[g] # 0 /\ row1[g] = row2[g]

PatientInv == patient => OneTask /\ RowInv

-----------------------------------------------------------------------------
LEMMA StatusInit == Init => StatusInv
<1> SUFFICES ASSUME Init
             PROVE  StatusInv
  OBVIOUS
<1> USE DEF Init
<1>1. Typed
  BY DEF Typed, RequestPc, RunPc
<1>2. NoneActive
  BY DEF NoneActive, Active, Scheduled
<1>3. Alone /\ OnField
  BY <1>2 DEF Alone, Handled, OnField, NoneActive
<1>4. Fresh
  BY NameAssumption DEF Fresh
<1>5. FlagInv
  BY <1>2 DEF FlagInv, NoneActive
<1> QED
  BY <1>1, <1>3, <1>4, <1>5 DEF StatusInv

(* The tasks change nothing the status depends on. *)

LEMMA TaskKeepsRequests ==
    ASSUME NEW g \in Generates, Task(g)
    PROVE  UNCHANGED <<patient, execService, isPmDataGenerating, shutdown, scheduledOn, pc>>
BY DEF Task, StartRun, WrapNext, ResetNext, FirstParameter, SecondParameter, ReadNext,
       WriteNext, SendPmData, EndRun, fields, executors

LEMMA TaskKeepsTyped ==
    ASSUME Typed, NEW g \in Generates, Task(g)
    PROVE  Typed'
<1>1. run' \in [Generates -> RunPc]
  BY DEF Typed, Task, StartRun, WrapNext, ResetNext, FirstParameter, SecondParameter,
         ReadNext, WriteNext, SendPmData, EndRun, RunTo, RunPc
<1> DEFINE Numbers == /\ row1 \in [Generates -> Nat] /\ row2 \in [Generates -> Nat]
                      /\ seen \in [Generates -> Nat] /\ next \in Nat
<1>2. Numbers'
  <2> USE DEF Typed
  <2>1. CASE StartRun(g) \/ FirstParameter(g)
    BY <2>1 DEF StartRun, FirstParameter
  <2>2. CASE SecondParameter(g) \/ ReadNext(g) \/ ResetNext(g)
    BY <2>2 DEF SecondParameter, ReadNext, ResetNext, locals
  <2>3. CASE WriteNext(g)
    BY <2>3 DEF WriteNext, locals
  <2>4. CASE WrapNext(g) \/ SendPmData(g) \/ EndRun(g)
    BY <2>4 DEF WrapNext, SendPmData, EndRun, locals
  <2> QED
    BY <2>1, <2>2, <2>3, <2>4 DEF Task
<1> QED
  BY <1>1, <1>2, TaskKeepsRequests DEF Typed

LEMMA StatusUnchanged ==
    ASSUME StatusInv, Typed',
           UNCHANGED <<execService, isPmDataGenerating, shutdown, scheduledOn, pc>>
    PROVE  StatusInv'
BY DEF StatusInv, Alone, OnField, Fresh, FlagInv, Handled, NoneActive, Active, Scheduled, Quiet

(* The requests. *)

LEMMA RequestKeepsTyped ==
    ASSUME Typed, Request
    PROVE  Typed'
<1>1. UNCHANGED <<run, row1, row2, seen, next>>
  BY DEF Request, GeneratePmData, Schedule, SetFlag, StopPmData, Shutdown, ClearFlag, locals
<1>2. pc' \in [Requests -> RequestPc]
  <2>1. \A r \in Requests, label \in RequestPc : Goto(r, label) => pc' \in [Requests -> RequestPc]
    BY DEF Typed, Goto
  <2>2. /\ Generates \cup Stops = Requests
        /\ {"schedule", "setFlag", "shutdown", "clearFlag", "done"} \subseteq RequestPc
    BY DEF Requests, RequestPc
  <2>3. ASSUME NEW g \in Generates, GeneratePmData(g) \/ Schedule(g) \/ SetFlag(g)
        PROVE  pc' \in [Requests -> RequestPc]
    BY <2>1, <2>2, <2>3 DEF GeneratePmData, Schedule, SetFlag
  <2>4. ASSUME NEW s \in Stops, StopPmData(s) \/ Shutdown(s) \/ ClearFlag(s)
        PROVE  pc' \in [Requests -> RequestPc]
    BY <2>1, <2>2, <2>4 DEF StopPmData, Shutdown, ClearFlag
  <2> QED
    BY <2>3, <2>4 DEF Request
<1>3. /\ execService' \in Generates \cup {First} /\ isPmDataGenerating' \in BOOLEAN
      /\ scheduledOn' \in [Generates -> Generates \cup {First}]
  BY DEF Typed, Request, GeneratePmData, Schedule, SetFlag, StopPmData, Shutdown, ClearFlag,
         fields, executors
<1> QED
  BY <1>1, <1>2, <1>3 DEF Typed

\* Requests come one at a time: the first step of one finds no other handled, and
\* a later one belongs to the only one that is.
LEMMA RequestIsAlone ==
    ASSUME ~Overlap, StatusInv, Request
    PROVE  Alone'
<1> USE DEF StatusInv, Typed, Alone, Handled, Requests
<1>1. ASSUME NEW g \in Generates, GeneratePmData(g) PROVE Alone'
  BY <1>1 DEF GeneratePmData, MayStart, Quiet, Goto
<1>2. ASSUME NEW s \in Stops, StopPmData(s) PROVE Alone'
  BY <1>2 DEF StopPmData, MayStop, Quiet, Goto
<1>3. ASSUME NEW r \in Requests, Handled(r), NEW label, Goto(r, label) PROVE Alone'
  BY <1>3 DEF Goto
<1>4. ASSUME NEW g \in Generates, Schedule(g) \/ SetFlag(g) PROVE Alone'
  BY <1>3, <1>4 DEF Schedule, SetFlag
<1>5. ASSUME NEW s \in Stops, Shutdown(s) \/ ClearFlag(s) PROVE Alone'
  BY <1>3, <1>5 DEF Shutdown, ClearFlag
<1> QED
  BY <1>1, <1>2, <1>4, <1>5 DEF Request

\* The new executor replaces one without a task.
LEMMA GenerateStatus ==
    ASSUME ~Overlap, Trusting, StatusInv, NEW g \in Generates, GeneratePmData(g)
    PROVE  StatusInv'
<1>1. Typed' /\ Alone'
  BY RequestKeepsTyped, RequestIsAlone DEF StatusInv, Request
<1> USE DEF StatusInv, GeneratePmData, MayStart
<1>2. NoneActive /\ Quiet
  BY DEF FlagInv, NoneActive
<1>3. NoneActive'
  BY <1>2 DEF NoneActive, Active, Scheduled, executors
<1>4. pc'[g] = "schedule" /\ \A r \in Requests \ {g} : pc'[r] = pc[r]
  BY DEF Typed, Goto, Requests
<1>5. OnField'
  BY <1>3 DEF OnField, NoneActive
<1>6. Fresh'
  BY <1>4 DEF Fresh, executors, Requests
<1>7. FlagInv'
  BY <1>2, <1>3, <1>4 DEF FlagInv, Quiet, Requests
<1> QED
  BY <1>1, <1>5, <1>6, <1>7

\* The executor is the request's own and is not shut down.
LEMMA ScheduleStatus ==
    ASSUME ~Overlap, StatusInv, NEW g \in Generates, Schedule(g)
    PROVE  StatusInv' /\ scheduledOn' = [scheduledOn EXCEPT ![g] = g] /\ pc'[g] = "setFlag"
<1>1. Typed' /\ Alone'
  BY RequestKeepsTyped, RequestIsAlone DEF StatusInv, Request
<1> USE DEF StatusInv, Schedule
<1>2. execService = g /\ NoneActive /\ g \notin shutdown /\ g \in Requests
  BY DEF FlagInv, Fresh, Requests
<1>3. scheduledOn' = [scheduledOn EXCEPT ![g] = g] /\ Goto(g, "setFlag")
  BY <1>2
<1>4. pc'[g] = "setFlag" /\ \A r \in Requests \ {g} : pc'[r] = pc[r]
  BY <1>2, <1>3 DEF Typed, Goto
<1>5. UNCHANGED <<execService, isPmDataGenerating, shutdown>>
  BY DEF fields
<1>6. Active(g)' /\ \A h \in Generates \ {g} : ~Active(h)'
  BY <1>2, <1>3, <1>5, NameAssumption DEF Typed, NoneActive, Active, Scheduled
<1>7. OnField'
  BY <1>2, <1>3, <1>5, <1>6 DEF Typed, OnField
<1>8. Fresh'
  BY <1>2, <1>4, <1>5 DEF Fresh, Requests
<1>9. \A r \in Requests \ {g} : ~Handled(r)
  BY <1>2 DEF Alone, Handled
<1>10. FlagInv'
  BY <1>2, <1>4, <1>6, <1>9 DEF FlagInv, Quiet, Handled
<1> QED
  BY <1>1, <1>3, <1>4, <1>7, <1>8, <1>10

LEMMA SetFlagStatus ==
    ASSUME ~Overlap, StatusInv, NEW g \in Generates, SetFlag(g)
    PROVE  StatusInv'
<1>1. Typed' /\ Alone'
  BY RequestKeepsTyped, RequestIsAlone DEF StatusInv, Request
<1> USE DEF StatusInv, SetFlag
<1>2. UNCHANGED <<execService, shutdown, scheduledOn>> /\ isPmDataGenerating'
  BY DEF executors
<1>3. g \in Requests /\ pc'[g] = "done" /\ \A r \in Requests \ {g} : pc'[r] = pc[r]
  BY DEF Typed, Goto, Requests
<1>4. Active(g)'
  BY <1>2, <1>3 DEF FlagInv, Active, Scheduled
<1>5. OnField' /\ Fresh'
  BY <1>2, <1>3 DEF OnField, Fresh, Active, Scheduled, Requests
<1>6. \A r \in Requests \ {g} : ~Handled(r)
  BY <1>3 DEF Alone, Handled
<1>7. FlagInv'
  BY <1>2, <1>3, <1>4, <1>6 DEF FlagInv, Handled
<1> QED
  BY <1>1, <1>5, <1>7

\* The status is true, so the executor the field holds has a task and is not
\* terminated: it will be shut down.
LEMMA StopStatus ==
    ASSUME ~Overlap, Trusting, StatusInv, NEW s \in Stops, StopPmData(s)
    PROVE  StatusInv'
<1>1. Typed' /\ Alone'
  BY RequestKeepsTyped, RequestIsAlone DEF StatusInv, Request
<1> USE DEF StatusInv, StopPmData, MayStop
<1>2. UNCHANGED <<execService, isPmDataGenerating, shutdown, scheduledOn>>
  BY DEF fields, executors
<1>3. ~Terminated(execService)
  BY DEF FlagInv, OnField, Terminated, Active
<1>4. s \in Requests /\ pc'[s] = "shutdown" /\ \A r \in Requests \ {s} : pc'[r] = pc[r]
  BY <1>3 DEF Typed, Goto, Requests
<1>5. OnField' /\ Fresh'
  BY <1>2, <1>4, NameAssumption DEF OnField, Fresh, Active, Scheduled, Requests
<1>6. FlagInv'
  BY <1>2, <1>4 DEF FlagInv, Quiet
<1> QED
  BY <1>1, <1>5, <1>6

\* No task is left that runs again.
LEMMA ShutdownStatus ==
    ASSUME ~Overlap, StatusInv, NEW s \in Stops, Shutdown(s)
    PROVE  StatusInv' /\ NoneActive'
<1>1. Typed' /\ Alone'
  BY RequestKeepsTyped, RequestIsAlone DEF StatusInv, Request
<1> USE DEF StatusInv, Shutdown
<1>2. UNCHANGED <<execService, scheduledOn>> /\ shutdown' = shutdown \cup {execService}
  BY DEF fields
<1>3. s \in Requests /\ pc'[s] = "clearFlag" /\ \A r \in Requests \ {s} : pc'[r] = pc[r]
  BY DEF Typed, Goto, Requests
<1>4. NoneActive'
  BY <1>2 DEF NoneActive, OnField, Active, Scheduled
<1>5. \A r \in Requests \ {s} : ~Handled(r)
  BY <1>3 DEF Alone, Handled
<1>6. Fresh'
  BY <1>2, <1>3, <1>5, NameAssumption DEF Fresh, Handled, Requests
<1>7. OnField' /\ FlagInv'
  BY <1>3, <1>4, <1>5 DEF OnField, FlagInv, NoneActive, Quiet, Handled
<1> QED
  BY <1>1, <1>4, <1>6, <1>7

LEMMA ClearFlagStatus ==
    ASSUME ~Overlap, StatusInv, NEW s \in Stops, ClearFlag(s)
    PROVE  StatusInv'
<1>1. Typed' /\ Alone'
  BY RequestKeepsTyped, RequestIsAlone DEF StatusInv, Request
<1> USE DEF StatusInv, ClearFlag
<1>2. UNCHANGED <<execService, shutdown, scheduledOn>> /\ ~isPmDataGenerating'
  BY DEF executors
<1>3. s \in Requests /\ pc'[s] = "done" /\ \A r \in Requests \ {s} : pc'[r] = pc[r]
  BY DEF Typed, Goto, Requests
<1>4. NoneActive'
  BY <1>2, <1>3 DEF FlagInv, NoneActive, Active, Scheduled
<1>5. \A r \in Requests \ {s} : ~Handled(r)
  BY <1>3 DEF Alone, Handled
<1>6. Fresh'
  BY <1>2, <1>3, NameAssumption DEF Fresh, Requests
<1>7. OnField' /\ FlagInv'
  BY <1>2, <1>3, <1>4, <1>5 DEF OnField, FlagInv, NoneActive, Handled
<1> QED
  BY <1>1, <1>6, <1>7

-----------------------------------------------------------------------------
LEMMA StatusStep ==
    ASSUME ~Overlap, Trusting, StatusInv, [Next]_vars
    PROVE  StatusInv'
<1>1. CASE UNCHANGED vars
  <2>1. Typed'
    BY <1>1 DEF StatusInv, Typed, vars, fields, executors, locals
  <2> QED
    BY <1>1, <2>1, StatusUnchanged DEF vars, fields, executors
<1>2. ASSUME NEW g \in Generates, Task(g) PROVE StatusInv'
  BY <1>2, TaskKeepsRequests, TaskKeepsTyped, StatusUnchanged DEF StatusInv
<1>3. CASE Request
  BY <1>3, GenerateStatus, ScheduleStatus, SetFlagStatus, StopStatus, ShutdownStatus,
     ClearFlagStatus DEF Request
<1> QED
  BY <1>1, <1>2, <1>3 DEF Next

\* If requests come one at a time from a user who asks for the status first,
\* GetPmDataStatus tells between them whether a task will run again.
THEOREM StatusTrue == ~Overlap /\ Trusting => (Spec => []StatusIsTrue)
<1> SUFFICES ASSUME ~Overlap, Trusting
             PROVE  Spec => []StatusIsTrue
  OBVIOUS
<1>1. StatusInv /\ [Next]_vars => StatusInv'
  BY StatusStep
<1>2. StatusInv => StatusIsTrue
  BY DEF StatusInv, FlagInv, StatusIsTrue
<1> QED
  BY StatusInit, <1>1, <1>2, PTL DEF Spec

-----------------------------------------------------------------------------
(* One row per run.  A patient user starts a task only when no run is      *)
(* left, so one task has the shared index for itself.                      *)

LEMMA PatientInit == Init => PatientInv
<1> SUFFICES ASSUME Init
             PROVE  OneTask /\ RowInv
  BY DEF PatientInv
<1>1. OneTask
  BY DEF Init, OneTask, Busy, Running, Active, Scheduled, Requests
<1>2. RowInv
  BY RowAssumption DEF Init, RowInv
<1> QED
  BY <1>1, <1>2

LEMMA RequestKeepsRows ==
    ASSUME Request
    PROVE  UNCHANGED <<patient, next, run, row1, row2, seen>>
BY DEF Request, GeneratePmData, Schedule, SetFlag, StopPmData, Shutdown, ClearFlag, locals

LEMMA RequestKeepsOneTask ==
    ASSUME ~Overlap, Trusting, StatusInv, StatusInv', patient, OneTask, Request
    PROVE  OneTask'
<1>1. UNCHANGED run
  BY RequestKeepsRows
<1>2. ASSUME NEW g \in Generates, GeneratePmData(g)
      PROVE  OneTask'
  <2>1. \A h \in Generates : ~Running(h) /\ ~Active(h)
    BY <1>2 DEF GeneratePmData, MayStart, StatusInv, FlagInv
  <2>2. \A h \in Generates : ~Running(h)' /\ ~Active(h)'
    BY <1>1, <1>2, <2>1 DEF GeneratePmData, executors, Running, Active, Scheduled
  <2> QED
    BY <2>2 DEF OneTask, Busy
<1>3. ASSUME NEW g \in Generates, Schedule(g)
      PROVE  OneTask'
  <2>1. pc[g] = "schedule" /\ g \in Requests
    BY <1>3 DEF Schedule, Requests
  <2>2. \A h \in Generates : ~Running(h) /\ ~Active(h)
    BY <2>1 DEF OneTask, StatusInv, FlagInv, NoneActive
  <2>3. scheduledOn' = [scheduledOn EXCEPT ![g] = g] /\ pc'[g] = "setFlag"
    BY <1>3, ScheduleStatus
  <2>4. UNCHANGED shutdown
    BY <1>3 DEF Schedule
  <2>5. \A h \in Generates \ {g} : ~Running(h)' /\ ~Active(h)'
    BY <1>1, <2>2, <2>3, <2>4 DEF StatusInv, Typed, Running, Active, Scheduled
  <2>6. \A h \in Generates : ~Running(h)'
    BY <1>1, <2>2 DEF Running
  <2> QED
    BY <2>5, <2>6 DEF OneTask, Busy
<1>4. ASSUME \/ \E g \in Generates : SetFlag(g)
             \/ \E s \in Stops : StopPmData(s) \/ Shutdown(s) \/ ClearFlag(s)
      PROVE  OneTask'
  <2>1. UNCHANGED scheduledOn /\ shutdown \subseteq shutdown'
    BY <1>4 DEF SetFlag, StopPmData, Shutdown, ClearFlag, executors
  <2>2. \A h \in Generates : Busy(h)' => Busy(h)
    BY <1>1, <2>1 DEF Busy, Running, Active, Scheduled
  <2>3. \A r \in Requests : pc'[r] = "schedule" => pc[r] = "schedule"
    BY <1>4 DEF SetFlag, StopPmData, Shutdown, ClearFlag, Goto, StatusInv, Typed, Requests
  <2> QED
    BY <1>1, <2>2, <2>3 DEF OneTask, Running
<1> QED
  BY <1>2, <1>3, <1>4 DEF Request

LEMMA TaskKeepsOneTask ==
    ASSUME StatusInv, OneTask, NEW g \in Generates, Task(g)
    PROVE  OneTask' /\ \A h \in Generates \ {g} : ~Running(h)
<1>1. Busy(g)
  BY DEF Busy, Running, Task, StartRun, WrapNext, ResetNext, FirstParameter, SecondParameter,
         ReadNext, WriteNext, SendPmData, EndRun
<1>2. \A h \in Generates \ {g} : ~Running(h) /\ ~Active(h)
  BY <1>1 DEF OneTask, Busy
<1>3. \A h \in Generates \ {g} : run'[h] = run[h]
  BY DEF StatusInv, Typed, Task, StartRun, WrapNext, ResetNext, FirstParameter,
         SecondParameter, ReadNext, WriteNext, SendPmData, EndRun, RunTo
<1>4. UNCHANGED <<shutdown, scheduledOn, pc>>
  BY TaskKeepsRequests
<1>5. \A h \in Generates \ {g} : ~Running(h)' /\ ~Active(h)'
  BY <1>2, <1>3, <1>4 DEF Running, Active, Scheduled
<1>6. \A r \in Requests : pc[r] # "schedule"
  BY <1>1 DEF OneTask, StatusInv, FlagInv, NoneActive, Busy
<1> QED
  BY <1>2, <1>4, <1>5, <1>6 DEF OneTask, Busy

\* Only the run that takes a step has taken rows, so the index is its own.
LEMMA TaskKeepsRows ==
    ASSUME StatusInv, RowInv, NEW g \in Generates, Task(g),
           \A h \in Generates \ {g} : ~Running(h)
    PROVE  RowInv'
<1>1. \A h \in Generates \ {g} : run[h] = "idle"
  BY DEF Running
<1> USE <1>1, RowAssumption DEF StatusInv, Typed, RowInv, RunTo
<1>2. CASE StartRun(g)
  BY <1>2 DEF StartRun
<1>3. CASE WrapNext(g)
  BY <1>3 DEF WrapNext, locals
<1>4. CASE ResetNext(g)
  BY <1>4 DEF ResetNext, locals
<1>5. CASE FirstParameter(g)
  BY <1>5 DEF FirstParameter
<1>6. CASE SecondParameter(g)
  BY <1>6 DEF SecondParameter
<1>7. CASE ReadNext(g)
  BY <1>7 DEF ReadNext
<1>8. CASE WriteNext(g)
  BY <1>8 DEF WriteNext, locals
<1>9. CASE SendPmData(g) \/ EndRun(g)
  BY <1>9 DEF SendPmData, EndRun, locals
<1> QED
  BY <1>2, <1>3, <1>4, <1>5, <1>6, <1>7, <1>8, <1>9 DEF Task

LEMMA PatientStep ==
    ASSUME ~Overlap, Trusting, StatusInv, PatientInv, [Next]_vars
    PROVE  PatientInv'
<1>1. StatusInv'
  BY StatusStep
<1>2. UNCHANGED patient
  BY RequestKeepsRows, TaskKeepsRequests DEF Next, vars
<1> SUFFICES ASSUME patient
             PROVE  OneTask' /\ RowInv'
  BY <1>2 DEF PatientInv
<1>3. OneTask /\ RowInv
  BY DEF PatientInv
<1>4. CASE UNCHANGED vars
  BY <1>3, <1>4 DEF OneTask, RowInv, Busy, Running, Active, Scheduled, vars, executors, locals
<1>5. CASE Request
  <2>1. RowInv'
    BY <1>3, <1>5, RequestKeepsRows DEF RowInv
  <2> QED
    BY <1>1, <1>3, <1>5, <2>1, RequestKeepsOneTask
<1>6. ASSUME NEW g \in Generates, Task(g)
      PROVE  OneTask' /\ RowInv'
  BY <1>3, <1>6, TaskKeepsOneTask, TaskKeepsRows
<1> QED
  BY <1>4, <1>5, <1>6 DEF Next

\* If the user waits for the last run as well, each run sends one row of the KPI
\* file, whatever its number of rows.
THEOREM OneRow == ~Overlap /\ Trusting => (Spec => []OneRowPerRun)
<1> SUFFICES ASSUME ~Overlap, Trusting
             PROVE  Spec => []OneRowPerRun
  OBVIOUS
<1>1. StatusInv /\ PatientInv /\ [Next]_vars => StatusInv' /\ PatientInv'
  BY StatusStep, PatientStep
<1>2. PatientInv => OneRowPerRun
  BY DEF PatientInv, RowInv, OneRowPerRun
<1> QED
  BY StatusInit, PatientInit, <1>1, <1>2, PTL DEF Spec

-----------------------------------------------------------------------------
(* The rows that are read are rows of the file, however many tasks move the    *)
(* index, and however the requests come.                                       *)

Bounded ==
    /\ patient \in Patience
    /\ shutdown \subseteq Generates \cup {First}
    /\ row1 \in [Generates -> 0 .. Rows] /\ row2 \in [Generates -> 0 .. Rows]
    /\ sent \in [Generates -> 0 .. Len(Servers)]

LEMMA TypeIsTypedAndBounded == Typed /\ Bounded => TypeOK
BY RowAssumption DEF TypeOK, Typed, Bounded

LEMMA RequestKeepsBounded ==
    ASSUME Typed, Bounded, Request
    PROVE  Bounded'
<1>1. UNCHANGED <<patient, row1, row2, sent>>
  BY DEF Request, GeneratePmData, Schedule, SetFlag, StopPmData, Shutdown, ClearFlag, locals
<1>2. shutdown' \subseteq Generates \cup {First}
  BY DEF Typed, Bounded, Request, GeneratePmData, Schedule, SetFlag, StopPmData, Shutdown,
         ClearFlag, executors
<1> QED
  BY <1>1, <1>2 DEF Bounded

LEMMA TaskKeepsBounded ==
    ASSUME Typed, Bounded, NEW g \in Generates, Task(g)
    PROVE  Bounded'
<1>1. UNCHANGED <<patient, shutdown>>
  BY TaskKeepsRequests
<1>2. Len(Servers) \in Nat /\ Rows \in Nat
  BY ServerAssumption, RowAssumption
<1>3. row1' \in [Generates -> 0 .. Rows] /\ row2' \in [Generates -> 0 .. Rows]
  <2> USE <1>2 DEF Typed, Bounded
  <2>1. CASE StartRun(g)
    BY <2>1 DEF StartRun
  <2>2. next < Rows => next + 1 \in 0 .. Rows
    OBVIOUS
  <2>3. CASE FirstParameter(g)
    <3>1. \/ row1' = row1
          \/ next < Rows /\ row1' = [row1 EXCEPT ![g] = next + 1]
      BY <2>3 DEF FirstParameter
    <3> QED
      BY <2>2, <2>3, <3>1 DEF FirstParameter
  <2>4. CASE SecondParameter(g)
    <3>1. \/ row2' = row2
          \/ next < Rows /\ row2' = [row2 EXCEPT ![g] = next + 1]
      BY <2>4 DEF SecondParameter
    <3> QED
      BY <2>2, <2>4, <3>1 DEF SecondParameter
  <2> QED
    BY <2>1, <2>3, <2>4 DEF Task, WrapNext, ResetNext, ReadNext, WriteNext, SendPmData, EndRun,
       locals
<1>4. sent' \in [Generates -> 0 .. Len(Servers)]
  <2> USE <1>2 DEF Bounded
  <2>1. CASE StartRun(g) \/ SendPmData(g)
    BY <2>1 DEF StartRun, SendPmData
  <2> QED
    BY <2>1 DEF Task, WrapNext, ResetNext, FirstParameter, SecondParameter, ReadNext, WriteNext,
       EndRun
<1> QED
  BY <1>1, <1>3, <1>4 DEF Bounded

\* Every task takes its parameters from rows of the KPI file or sends what it has,
\* and sends to no more servers than there are, however requests and tasks overlap.
THEOREM TypeCorrect == Spec => []TypeOK
<1>1. Init => Typed
  BY StatusInit DEF StatusInv
<1>2. Init => Bounded
  <2>1. Len(Servers) \in Nat /\ Rows \in Nat
    BY ServerAssumption, RowAssumption
  <2> QED
    BY <2>1 DEF Init, Bounded
<1>3. Typed /\ Bounded /\ [Next]_vars => Typed' /\ Bounded'
  <2> SUFFICES ASSUME Typed, Bounded, [Next]_vars
               PROVE  Typed' /\ Bounded'
    OBVIOUS
  <2>1. CASE UNCHANGED vars
    BY <2>1 DEF Typed, Bounded, vars, fields, executors, locals
  <2>2. CASE Request
    BY <2>2, RequestKeepsTyped, RequestKeepsBounded
  <2>3. ASSUME NEW g \in Generates, Task(g)
        PROVE  Typed' /\ Bounded'
    BY <2>3, TaskKeepsTyped, TaskKeepsBounded
  <2> QED
    BY <2>1, <2>2, <2>3 DEF Next
<1>4. Typed /\ Bounded => TypeOK
  BY TypeIsTypedAndBounded
<1> QED
  BY <1>1, <1>2, <1>3, <1>4, PTL DEF Spec

=============================================================================
