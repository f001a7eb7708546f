--------------------------- MODULE NeighborBatches ---------------------------
(***************************************************************************)
(* Neighbor changes in the eNodeB agent.  A change that SDN-R writes over  *)
(* netconf is added to the batch of its cell (WriteVesData), and a timer   *)
(* is set; each later change of the cell sets a new timer.  When a timer   *)
(* fires, its thread sends the batch to the controller as one ModifyAnr    *)
(* message, clears the list and cancels the timer of the batch.            *)
(*                                                                         *)
(* The writers of a batch exclude each other by its monitor; the thread of *)
(* a timer does not take it.  The map of the batches is guarded by a       *)
(* monitor of which every writer has one of its own.                       *)
(*                                                                         *)
(* A batch and a timer have the name of the change that made them.         *)
(***************************************************************************)
EXTENDS Naturals, Sequences, SequencesExt

CONSTANTS
    Changes,    \* the changes that are written, each once
    Cells,
    CellOf,     \* the cell a change is about
    None

ASSUME ChangeAssumption == CellOf \in [Changes -> Cells] /\ None \notin Changes

VARIABLES
    isConfigTopoInitialized,
    serverCidNbrList,   \* cell -> batch, or None
    nbrList,            \* batch -> the changes that wait
    timer,              \* batch -> the timer that was set last, or None
    scheduled, cancelled,
    pc, batch,          \* of the thread that writes a change
    run, topology,      \* of the thread of a timer: the message it makes
    messages,           \* the ModifyAnr messages that were handed to the socket
    late, mixed         \* history, see below

batches == <<serverCidNbrList, nbrList, timer>>
timers == <<scheduled, cancelled>>
writers == <<pc, batch>>
runs == <<run, topology>>
history == <<late, mixed>>
vars == <<isConfigTopoInitialized, batches, timers, writers, runs, messages, history>>

TypeOK ==
    /\ isConfigTopoInitialized \in BOOLEAN
    /\ serverCidNbrList \in [Cells -> Changes \cup {None}]
    /\ nbrList \in [Changes -> Seq(Changes)]
    /\ timer \in [Changes -> Changes \cup {None}]
    /\ scheduled \subseteq Changes /\ cancelled \subseteq Changes
    /\ pc \in [Changes -> {"new", "find", "put", "add", "cancel", "timer", "schedule", "done"}]
    /\ batch \in [Changes -> Changes \cup {None}]
    /\ run \in [Changes -> {"idle", "read", "send", "clear", "cancel", "dead"}]
    /\ topology \in [Changes -> Seq(Changes)]
    /\ messages \in Seq(Seq(Changes))
    /\ late \subseteq Changes /\ mixed \in BOOLEAN

Init ==
    /\ isConfigTopoInitialized = FALSE
    /\ serverCidNbrList = [c \in Cells |-> None]
    /\ nbrList = [b \in Changes |-> << >>]
    /\ timer = [b \in Changes |-> None]
    /\ scheduled = {} /\ cancelled = {}
    /\ pc = [ch \in Changes |-> "new"]
    /\ batch = [ch \in Changes |-> None]
    /\ run = [tm \in Changes |-> "idle"]
    /\ topology = [tm \in Changes |-> << >>]
    /\ messages = << >>
    /\ late = {} /\ mixed = FALSE

Goto(ch, label) == pc' = [pc EXCEPT ![ch] = label]
RunTo(tm, label) == run' = [run EXCEPT ![tm] = label]

\* The writers that hold the monitor of batch b.
Inside(b) == {ch \in Changes : batch[ch] = b /\ pc[ch] \in {"cancel", "timer", "schedule"}}

\* The timers of batch b whose threads are at work, at one of the labels.
At(b, labels) == {tm \in Changes : batch[tm] = b /\ run[tm] \in labels}
AtWork(b) == At(b, {"read", "send", "clear", "cancel"})

-----------------------------------------------------------------------------
(* ignoreEvents and monitorEvents, around a restart of the configuration. *)

IgnoreEvents ==
    /\ isConfigTopoInitialized
    /\ isConfigTopoInitialized' = FALSE
    /\ UNCHANGED <<batches, timers, writers, runs, messages, history>>

MonitorEvents ==
    /\ ~isConfigTopoInitialized
    /\ isConfigTopoInitialized' = TRUE
    /\ UNCHANGED <<batches, timers, writers, runs, messages, history>>

-----------------------------------------------------------------------------
(* writeData and updateData of LteRanNeighborListInUseLteCell, CheckandAdd. *)

WriteData(ch) ==
    /\ pc[ch] = "new"
    /\ Goto(ch, IF isConfigTopoInitialized THEN "find" ELSE "done")
    /\ UNCHANGED <<isConfigTopoInitialized, batches, timers, batch, runs, messages, history>>

FindBatch(ch) ==
    LET b == serverCidNbrList[CellOf[ch]] IN
    /\ pc[ch] = "find"
    /\ \/ b # None /\ batch' = [batch EXCEPT ![ch] = b] /\ Goto(ch, "add")
       \/ b = None /\ batch' = [batch EXCEPT ![ch] = ch] /\ Goto(ch, "put")
    /\ UNCHANGED <<isConfigTopoInitialized, batches, timers, runs, messages, history>>

\* Another batch of the cell that has been put since is replaced.
PutBatch(ch) ==
    /\ pc[ch] = "put"
    /\ serverCidNbrList' = [serverCidNbrList EXCEPT ![CellOf[ch]] = ch]
    /\ Goto(ch, "add")
    /\ UNCHANGED <<isConfigTopoInitialized, nbrList, timer, timers, batch, runs, messages,
                   history>>

\* Mutant: a batch whose timer is set keeps it.
AddNbr_KeepsTimer(ch) ==
    LET b == batch[ch] IN
    /\ pc[ch] = "add" /\ Inside(b) = {}
    /\ nbrList' = [nbrList EXCEPT ![b] = Append(@, ch)]
    /\ Goto(ch, IF timer[b] = None THEN "timer" ELSE "done")
    /\ late' = IF At(b, {"send", "clear", "cancel"}) = {} THEN late ELSE late \cup {ch}
    /\ mixed' = (mixed \/ AtWork(b) # {})
    /\ UNCHANGED <<isConfigTopoInitialized, serverCidNbrList, timer, timers, batch, runs,
                   messages>>

\* Mutant: a timer is cancelled without a test that there is one.
AddNbr_NoTest(ch) ==
    LET b == batch[ch] IN
    /\ pc[ch] = "add" /\ Inside(b) = {}
    /\ nbrList' = [nbrList EXCEPT ![b] = Append(@, ch)]
    /\ Goto(ch, "cancel")
    /\ late' = IF At(b, {"send", "clear", "cancel"}) = {} THEN late ELSE late \cup {ch}
    /\ mixed' = (mixed \/ AtWork(b) # {})
    /\ UNCHANGED <<isConfigTopoInitialized, serverCidNbrList, timer, timers, batch, runs,
                   messages>>

\* The monitor of the batch is taken.  A change is late if the thread of a timer
\* has read the list and not yet finished.
AddNbr(ch) ==
    LET b == batch[ch] IN
    /\ pc[ch] = "add" /\ Inside(b) = {}
    /\ nbrList' = [nbrList EXCEPT ![b] = Append(@, ch)]
    /\ Goto(ch, IF timer[b] = None THEN "timer" ELSE "cancel")
    /\ late' = IF At(b, {"send", "clear", "cancel"}) = {} THEN late ELSE late \cup {ch}
    /\ mixed' = (mixed \/ AtWork(b) # {})
    /\ UNCHANGED <<isConfigTopoInitialized, serverCidNbrList, timer, timers, batch, runs,
                   messages>>

\* Mutant: the old timer goes on.
CancelTimer_Not(ch) ==
    /\ pc[ch] = "cancel"
    /\ Goto(ch, "timer")
    /\ UNCHANGED <<isConfigTopoInitialized, batches, timers, batch, runs, messages, history>>

CancelTimer(ch) ==
    /\ pc[ch] = "cancel"
    /\ cancelled' = cancelled \cup {timer[batch[ch]]}
    /\ Goto(ch, "timer")
    /\ UNCHANGED <<isConfigTopoInitialized, batches, scheduled, batch, runs, messages, history>>

NewTimer(ch) ==
    /\ pc[ch] = "timer"
    /\ timer' = [timer EXCEPT ![batch[ch]] = ch]
    /\ Goto(ch, "schedule")
    /\ UNCHANGED <<isConfigTopoInitialized, serverCidNbrList, nbrList, timers, batch, runs,
                   messages, history>>

\* A timer that has been cancelled before it is scheduled throws.
Schedule(ch) ==
    /\ pc[ch] = "schedule"
    /\ scheduled' = IF ch \in cancelled THEN scheduled ELSE scheduled \cup {ch}
    /\ Goto(ch, "done")
    /\ UNCHANGED <<isConfigTopoInitialized, batches, cancelled, batch, runs, messages, history>>

-----------------------------------------------------------------------------
(* SendToController.run, every two seconds until the timer is cancelled. *)

Fire(tm) ==
    /\ tm \in scheduled \ cancelled
    /\ run[tm] = "idle"
    /\ topology' = [topology EXCEPT ![tm] = nbrList[batch[tm]]]
    /\ RunTo(tm, "read")
    /\ mixed' = (mixed \/ Inside(batch[tm]) # {} \/ AtWork(batch[tm]) # {})
    /\ UNCHANGED <<isConfigTopoInitialized, batches, timers, writers, messages, late>>

\* The iterator throws if the list has changed, and the thread of the timer ends.
ReadList(tm) ==
    /\ run[tm] = "read"
    /\ RunTo(tm, IF nbrList[batch[tm]] = topology[tm] THEN "send" ELSE "dead")
    /\ UNCHANGED <<isConfigTopoInitialized, batches, timers, writers, topology, messages, history>>

\* handleUpdateTopology: the socket may keep the thread waiting.
SendTopology(tm) ==
    /\ run[tm] = "send"
    /\ messages' = Append(messages, topology[tm])
    /\ RunTo(tm, "clear")
    /\ UNCHANGED <<isConfigTopoInitialized, batches, timers, writers, topology, history>>

ClearList(tm) ==
    /\ run[tm] = "clear"
    /\ nbrList' = [nbrList EXCEPT ![batch[tm]] = << >>]
    /\ RunTo(tm, "cancel")
    /\ UNCHANGED <<isConfigTopoInitialized, serverCidNbrList, timer, timers, writers, topology,
                   messages, history>>

\* The timer that was set last is cancelled, whether it is this one or not.
CancelLast(tm) ==
    /\ run[tm] = "cancel"
    /\ cancelled' = cancelled \cup {timer[batch[tm]]}
    /\ RunTo(tm, "idle")
    /\ UNCHANGED <<isConfigTopoInitialized, batches, scheduled, writers, topology, messages,
                   history>>

-----------------------------------------------------------------------------
Write(ch) ==
    \/ FindBatch(ch) \/ PutBatch(ch) \/ AddNbr(ch)
    \/ CancelTimer(ch) \/ NewTimer(ch) \/ Schedule(ch)

Run(tm) ==
    \/ Fire(tm) \/ ReadList(tm) \/ SendTopology(tm)
    \/ ClearList(tm) \/ CancelLast(tm)

Next ==
    \/ IgnoreEvents \/ MonitorEvents
    \/ \E ch \in Changes : WriteData(ch) \/ Write(ch) \/ Run(ch)

\* A writer that has begun goes on, and a timer that is set fires; nobody has to
\* write a change.
Fairness == \A ch \in Changes : WF_vars(Write(ch)) /\ WF_vars(Run(ch))

Spec == Init /\ [][Next]_vars /\ Fairness

-----------------------------------------------------------------------------
Accepted(ch) == pc[ch] # "new" /\ batch[ch] # None
Sent(ch) == \E i \in DOMAIN messages : Contains(messages[i], ch)

\* A change is sent unless it is added while a timer's thread is between the
\* reading of the list and the end of its run: setting a new timer, a thread
\* that dies of a changed list, a timer cancelled by another, and a second batch
\* of the cell lose no other change.
EarlyIsSent == \A ch \in Changes :
    Accepted(ch) /\ pc[ch] = "done" /\ ch \notin late ~> Sent(ch)

\* As long as no thread of a timer and no writer have met in one batch, no change
\* is sent twice and no message is empty, however the writers of several changes
\* interleave.
SentOnce == ~mixed =>
    /\ \A i \in DOMAIN messages : messages[i] # << >>
    /\ \A i, j \in DOMAIN messages :
         i # j => \A k \in DOMAIN messages[i] : ~Contains(messages[j], messages[i][k])

=============================================================================
