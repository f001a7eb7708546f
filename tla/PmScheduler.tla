---------------------------- MODULE PmScheduler ----------------------------
(***************************************************************************)
(* The generation of performance (PM) data: GeneratePmData makes a new     *)
(* scheduled executor, keeps it in the field execService and schedules a   *)
(* task on it; stopPmData shuts the executor down that the field holds;    *)
(* GetPmDataStatus tells the field isPmDataGenerating.                     *)
(*                                                                         *)
(* Every run of a task takes the next row of the KPI file out of a counter *)
(* that all tasks share, and sends the PM data of one netconf server after *)
(* the other.  The fields are plain fields of two singletons; requests and *)
(* tasks run in threads of their own.                                      *)
(***************************************************************************)
EXTENDS Naturals, Sequences, SequencesExt

CONSTANTS
    Generates,  \* GeneratePmData requests: each makes one executor and one task
    Stops,      \* stopPmData requests
    Servers,    \* the netconf servers, in the order of getNetconfServersList
    Failing,    \* servers with a cell for which the PM data cannot be made
    Rows,       \* the number of rows of the KPI file
    Overlap,    \* may a request arrive while another is handled?
    Trusting,   \* does the user ask GetPmDataStatus first, as the GUI does?
    Patience,   \* kinds of users: does one wait until the last run has ended?
    First       \* the executor that is there before the first request

ASSUME ServerAssumption == Servers \in Seq(Range(Servers))
ASSUME RowAssumption == Rows \in Nat \ {0}
ASSUME NameAssumption == First \notin Generates /\ Generates \cap Stops = {}
ASSUME UserAssumption ==
    Overlap \in BOOLEAN /\ Trusting \in BOOLEAN /\ Patience \subseteq BOOLEAN

VARIABLES
    execService,        \* the executor of the last GeneratePmData
    isPmDataGenerating,
    shutdown,           \* the executors that are shut down
    scheduledOn,        \* the executor a task is scheduled on, or First
    patient,            \* the kind of user there is, it never changes
    next,               \* index into pmParameters, from 0
    pc,                 \* of the requests
    run,                \* of the tasks: where a run of generatePmData is
    row1, row2,         \* the rows its parameters were taken from, 0: none
    seen,               \* the value of next that will be incremented
    sent                \* how many servers this run has sent data to

fields == <<execService, isPmDataGenerating>>
executors == <<shutdown, scheduledOn>>
locals == <<row1, row2, seen>>
vars == <<fields, executors, patient, next, pc, run, locals, sent>>

Requests == Generates \cup Stops
RequestPc == {"new", "schedule", "setFlag", "shutdown", "clearFlag", "done"}
RunPc == {"idle", "wrap", "reset", "first", "second", "read", "write", "send"}

TypeOK ==
    /\ execService \in Generates \cup {First}
    /\ isPmDataGenerating \in BOOLEAN
    /\ shutdown \subseteq Generates \cup {First}
    /\ scheduledOn \in [Generates -> Generates \cup {First}]
    /\ patient \in Patience
    /\ next \in Nat
    /\ pc \in [Requests -> RequestPc]
    /\ run \in [Generates -> RunPc]
    /\ row1 \in [Generates -> 0 .. Rows]
    /\ row2 \in [Generates -> 0 .. Rows]
    /\ seen \in [Generates -> Nat]
    /\ sent \in [Generates -> 0 .. Len(Servers)]

Init ==
    /\ execService = First
    /\ isPmDataGenerating = FALSE
    /\ shutdown = {}
    /\ scheduledOn = [g \in Generates |-> First]
    /\ patient \in Patience
    /\ next = 0
    /\ pc = [r \in Requests |-> "new"]
    /\ run = [g \in Generates |-> "idle"]
    /\ row1 = [g \in Generates |-> 0]
    /\ row2 = [g \in Generates |-> 0]
    /\ seen = [g \in Generates |-> 0]
    /\ sent = [g \in Generates |-> 0]

Scheduled(g) == scheduledOn[g] # First
Active(g) == Scheduled(g) /\ scheduledOn[g] \notin shutdown
Running(g) == run[g] # "idle"

\* isTerminated: shut down, and no task of the executor is running.
Terminated(e) == e \in shutdown /\ \A g \in Generates : Running(g) => scheduledOn[g] # e

Quiet == \A r \in Requests : pc[r] \in {"new", "done"}

Goto(r, label) == pc' = [pc EXCEPT ![r] = label]
RunTo(g, label) == run' = [run EXCEPT ![g] = label]

-----------------------------------------------------------------------------
(* The requests. *)

\* When the user starts and stops the generation.
MayStart ==
    /\ Overlap \/ Quiet
    /\ Trusting => ~isPmDataGenerating
    /\ patient => \A g \in Generates : ~Running(g)
MayStop ==
    /\ Overlap \/ Quiet
    /\ Trusting => isPmDataGenerating

\* newScheduledThreadPool: the old executor is not shut down.
GeneratePmData(g) ==
    /\ pc[g] = "new"
    /\ MayStart
    /\ execService' = g
    /\ Goto(g, "schedule")
    /\ UNCHANGED <<patient, isPmDataGenerating, executors, next, run, locals, sent>>

\* scheduleAtFixedRate, on the executor the field holds now: one that is shut
\* down rejects the task, and the request ends with 500.
Schedule(g) ==
    /\ pc[g] = "schedule"
    /\ \/ /\ execService \notin shutdown
          /\ scheduledOn' = [scheduledOn EXCEPT ![g] = execService]
          /\ Goto(g, "setFlag")
       \/ /\ execService \in shutdown
          /\ Goto(g, "done")
          /\ UNCHANGED scheduledOn
    /\ UNCHANGED <<patient, fields, shutdown, next, run, locals, sent>>

SetFlag(g) ==
    /\ pc[g] = "setFlag"
    /\ isPmDataGenerating' = TRUE
    /\ Goto(g, "done")
    /\ UNCHANGED <<patient, execService, executors, next, run, locals, sent>>

StopPmData(s) ==
    /\ pc[s] = "new"
    /\ MayStop
    /\ Goto(s, IF Terminated(execService) THEN "clearFlag" ELSE "shutdown")
    /\ UNCHANGED <<patient, fields, executors, next, run, locals, sent>>

\* Mutant: the first executor is shut down, whatever the field holds.
Shutdown_First(s) ==
    /\ pc[s] = "shutdown"
    /\ shutdown' = shutdown \cup {First}
    /\ Goto(s, "clearFlag")
    /\ UNCHANGED <<patient, fields, scheduledOn, next, run, locals, sent>>

\* shutdown: no run of its tasks starts any more; one that has started goes on.
Shutdown(s) ==
    /\ pc[s] = "shutdown"
    /\ shutdown' = shutdown \cup {execService}
    /\ Goto(s, "clearFlag")
    /\ UNCHANGED <<patient, fields, scheduledOn, next, run, locals, sent>>

ClearFlag(s) ==
    /\ pc[s] = "clearFlag"
    /\ isPmDataGenerating' = FALSE
    /\ Goto(s, "done")
    /\ UNCHANGED <<patient, execService, executors, next, run, locals, sent>>

-----------------------------------------------------------------------------
(* generatePmData of RansimController, run by a task every 300 seconds. *)

StartRun(g) ==
    /\ run[g] = "idle"
    /\ Active(g)
    /\ RunTo(g, "wrap")
    /\ row1' = [row1 EXCEPT ![g] = 0]
    /\ row2' = [row2 EXCEPT ![g] = 0]
    /\ sent' = [sent EXCEPT ![g] = 0]
    /\ UNCHANGED <<patient, fields, executors, next, pc, seen>>

\* Mutant: the test for the end of the file is off by one.
WrapNext_OffByOne(g) ==
    /\ run[g] = "wrap"
    /\ RunTo(g, IF next > Rows THEN "reset" ELSE "first")
    /\ UNCHANGED <<patient, fields, executors, next, pc, locals, sent>>

WrapNext(g) ==
    /\ run[g] = "wrap"
    /\ RunTo(g, IF next >= Rows THEN "reset" ELSE "first")
    /\ UNCHANGED <<patient, fields, executors, next, pc, locals, sent>>

ResetNext(g) ==
    /\ run[g] = "reset"
    /\ next' = 0
    /\ RunTo(g, "first")
    /\ UNCHANGED <<patient, fields, executors, pc, locals, sent>>

\* Mutant: the list of rows is not known to be long enough.
FirstParameter_Unchecked(g) ==
    /\ run[g] = "first"
    /\ row1' = [row1 EXCEPT ![g] = next + 1]
    /\ RunTo(g, "second")
    /\ UNCHANGED <<patient, fields, executors, next, pc, row2, seen, sent>>

\* The first and the second parameter, each with its values: an index out of
\* range is caught, and the data is sent with what has been read so far.
FirstParameter(g) ==
    /\ run[g] = "first"
    /\ IF next < Rows
       THEN row1' = [row1 EXCEPT ![g] = next + 1] /\ RunTo(g, "second")
       ELSE UNCHANGED row1 /\ RunTo(g, "send")
    /\ UNCHANGED <<patient, fields, executors, next, pc, row2, seen, sent>>

SecondParameter(g) ==
    /\ run[g] = "second"
    /\ IF next < Rows
       THEN row2' = [row2 EXCEPT ![g] = next + 1] /\ RunTo(g, "read")
       ELSE UNCHANGED row2 /\ RunTo(g, "send")
    /\ UNCHANGED <<patient, fields, executors, next, pc, row1, seen, sent>>

\* next++ is a read and a write: tasks that increment it one after the other may
\* leave it above Rows, where the next run resets it.
ReadNext(g) ==
    /\ run[g] = "read"
    /\ seen' = [seen EXCEPT ![g] = next]
    /\ RunTo(g, "write")
    /\ UNCHANGED <<patient, fields, executors, next, pc, row1, row2, sent>>

WriteNext(g) ==
    /\ run[g] = "write"
    /\ next' = seen[g] + 1
    /\ RunTo(g, "send")
    /\ UNCHANGED <<patient, fields, executors, pc, locals, sent>>

Target(g) == Servers[sent[g] + 1]

SendPmData(g) ==
    /\ run[g] = "send"
    /\ sent[g] < Len(Servers)
    /\ Target(g) \notin Failing
    /\ sent' = [sent EXCEPT ![g] = @ + 1]
    /\ UNCHANGED <<patient, fields, executors, next, pc, run, locals>>

\* Mutant: the run may end after the first server.
EndRun_AfterOne(g) ==
    /\ run[g] = "send"
    /\ sent[g] > 0 \/ Target(g) \in Failing
    /\ RunTo(g, "idle")
    /\ UNCHANGED <<patient, fields, executors, next, pc, locals, sent>>

\* The run ends after the last server, or with the exception a cell throws.
EndRun(g) ==
    /\ run[g] = "send"
    /\ sent[g] = Len(Servers) \/ Target(g) \in Failing
    /\ RunTo(g, "idle")
    /\ UNCHANGED <<patient, fields, executors, next, pc, locals, sent>>

-----------------------------------------------------------------------------
Request ==
    \/ \E g \in Generates : GeneratePmData(g) \/ Schedule(g) \/ SetFlag(g)
    \/ \E s \in Stops : StopPmData(s) \/ Shutdown(s) \/ ClearFlag(s)

Task(g) ==
    \/ StartRun(g) \/ WrapNext(g) \/ ResetNext(g) \/ FirstParameter(g)
    \/ SecondParameter(g) \/ ReadNext(g) \/ WriteNext(g)
    \/ SendPmData(g) \/ EndRun(g)

Next == Request \/ \E g \in Generates : Task(g)

\* The executor's threads run a task when its time has come and go on with a run
\* that has started; nobody has to send a request.
Fairness == \A g \in Generates : WF_vars(Task(g))

Spec == Init /\ [][Next]_vars /\ Fairness

-----------------------------------------------------------------------------
\* If the user waits for the last run, the data of a run is one row of the KPI
\* file, although the index is tested, used twice and incremented in separate
\* steps without a lock.
OneRowPerRun == patient => \A g \in Generates :
    run[g] = "send" => row1[g] # 0 /\ row1[g] = row2[g]

\* Between requests, GetPmDataStatus tells whether a task will run again.
StatusIsTrue == Quiet => (isPmDataGenerating <=> \E g \in Generates : Active(g))

\* While PM data is generated, every server before the first failing one is sent
\* its data again and again.
KeepsSending == \A g \in Generates : \A i \in 1 .. Len(Servers) :
    (\A j \in 1 .. i : Servers[j] \notin Failing) =>
        [](Active(g) => <>(sent[g] = i \/ ~Active(g)))

\* stopPmData "terminates the ScheduledExecutorService which sends the PM data":
\* when it has been handled, no task runs again.
StopTerminates == [][\A s \in Stops :
    pc[s] = "clearFlag" /\ pc'[s] = "done" => \A g \in Generates : ~Active(g)']_vars

=============================================================================
