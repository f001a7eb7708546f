------------------------------ MODULE AgentLink ------------------------------
(***************************************************************************)
(* The web socket client of the eNodeB agent (RansimClientWebSocket).  It  *)
(* connects until it succeeds, again after each close, and keeps the       *)
(* session in the plain field clientSession, which the thread that         *)
(* connects, the callbacks of the container and the threads that send      *)
(* messages read and write.  The controller keeps the session whose onOpen *)
(* it has handled last, may drop it when it handles any onClose,           *)
(* and sends an empty message over it every ten seconds.                   *)
(***************************************************************************)
EXTENDS Naturals

CONSTANTS
    MaxSessions,\* bounds the reconnects
    Messages,   \* the messages that are sent, each once
    Tries,      \* how often sendMessage sleeps: 6 in the code
    None

ASSUME TriesAssumption == Tries \in Nat \ {0}
ASSUME NameAssumption == MaxSessions \in Nat /\ None \notin 1 .. MaxSessions

\* A session is named by its turn: the first that is opened is 1.
Sessions == 1 .. MaxSessions

VARIABLES
    clientSession,
    session,        \* the life of a session
    connecting,     \* how many threads are in the loop that connects
    returned,       \* sessions connectToServer has returned, not yet assigned
    logging,        \* sessions that are assigned, whose id is not yet logged
    serverSession,  \* the session the controller has for the agent, or None
    atServer,       \* what the controller knows of a session
    pc, retryCount, \* of the threads that send a message
    calm            \* history: the messages nothing has disturbed

link == <<clientSession, session, connecting, returned, logging>>
controller == <<serverSession, atServer>>
vars == <<link, controller, pc, retryCount, calm>>

In(label) == {s \in Sessions : session[s] = label}

TypeOK ==
    /\ clientSession \in Sessions \cup {None}
    /\ session \in [Sessions -> {"unused", "open", "lost", "closed"}]
    /\ connecting \in Nat
    /\ returned \subseteq Sessions /\ logging \subseteq Sessions
    /\ serverSession \in Sessions \cup {None}
    /\ atServer \in [Sessions -> {"unknown", "open", "closed"}]
    /\ pc \in [Messages -> {"new", "wait", "getId", "check", "remote", "sent", "lost"}]
    /\ retryCount \in [Messages -> 0 .. Tries]
    /\ calm \subseteq Messages

\* initWebsocketClient connects, and starts a RetryWebsocket thread if it fails.
Init ==
    /\ clientSession = None
    /\ session = [s \in Sessions |-> "unused"]
    /\ connecting = 1
    /\ returned = {} /\ logging = {}
    /\ serverSession = None
    /\ atServer = [s \in Sessions |-> "unknown"]
    /\ pc = [m \in Messages |-> "new"]
    /\ retryCount = [m \in Messages |-> 0]
    /\ calm = {}

-----------------------------------------------------------------------------
(* connectWebsocketClient. *)

\* Mutant: the session is forgotten before a new one is opened.
ConnectToServer_Resets(s) ==
    /\ connecting > 0
    /\ session[s] = "unused" /\ \A t \in 1 .. s - 1 : session[t] # "unused"
    /\ session' = [session EXCEPT ![s] = "open"]
    /\ connecting' = connecting - 1
    /\ returned' = returned \cup {s}
    /\ clientSession' = None
    /\ UNCHANGED <<logging, controller, pc, retryCount, calm>>

\* A session is opened.  An attempt that fails is repeated after five seconds and
\* changes nothing.
ConnectToServer(s) ==
    /\ connecting > 0
    /\ session[s] = "unused" /\ \A t \in 1 .. s - 1 : session[t] # "unused"
    /\ session' = [session EXCEPT ![s] = "open"]
    /\ connecting' = connecting - 1
    /\ returned' = returned \cup {s}
    /\ UNCHANGED <<clientSession, logging, controller, pc, retryCount, calm>>

AssignSession(s) ==
    /\ s \in returned
    /\ clientSession' = s
    /\ returned' = returned \ {s}
    /\ logging' = logging \cup {s}
    /\ UNCHANGED <<session, connecting, controller, pc, retryCount, calm>>

\* The id of clientSession is logged.  If an onClose has cleared the field, this
\* throws, and the loop that connects goes on: with the thread that this onClose
\* has started, two threads connect.
LogSession(s) ==
    /\ s \in logging
    /\ logging' = logging \ {s}
    /\ connecting' = IF clientSession = None THEN connecting + 1 ELSE connecting
    /\ UNCHANGED <<clientSession, session, returned, controller, pc, retryCount, calm>>

-----------------------------------------------------------------------------
(* The connection and the callbacks. *)

LoseConnection(s) ==
    /\ session[s] = "open"
    /\ session' = [session EXCEPT ![s] = "lost"]
    /\ calm' = {}
    /\ UNCHANGED <<clientSession, connecting, returned, logging, controller, pc, retryCount>>

\* Mutant: it connects again only if the session was the one in the field.
OnClose_IfCurrent(s) ==
    /\ session[s] = "lost"
    /\ session' = [session EXCEPT ![s] = "closed"]
    /\ clientSession' = IF clientSession = s THEN None ELSE clientSession
    /\ connecting' = IF clientSession = s THEN connecting + 1 ELSE connecting
    /\ UNCHANGED <<returned, logging, controller, pc, retryCount, calm>>

\* onClose does not look which session was closed.
OnClose(s) ==
    /\ session[s] = "lost"
    /\ session' = [session EXCEPT ![s] = "closed"]
    /\ clientSession' = None
    /\ connecting' = connecting + 1
    /\ UNCHANGED <<returned, logging, controller, pc, retryCount, calm>>

\* Mutant: the field is not set by an empty message.
OnMessage_NotIfEmpty(s) ==
    /\ s = serverSession /\ session[s] = "open"
    /\ UNCHANGED vars

\* onMessage, of the keep-alive message or any other; that a message is still on
\* its way when the controller takes up another session is not modelled.
OnMessage(s) ==
    /\ s = serverSession /\ session[s] = "open"
    /\ clientSession' = s
    /\ UNCHANGED <<session, connecting, returned, logging, controller, pc, retryCount, calm>>

-----------------------------------------------------------------------------
(* The controller, as far as an agent can tell. *)

\* The session replaces the one the controller had for the agent.
ServerOnOpen(s) ==
    /\ session[s] # "unused" /\ atServer[s] = "unknown"
    /\ atServer' = [atServer EXCEPT ![s] = "open"]
    /\ serverSession' = s
    /\ UNCHANGED <<link, pc, retryCount, calm>>

\* It removes the session of the agent by the agent's address, whichever it is,
\* but keeps it if the agent had no server or no row (AgentSessions).
ServerOnClose(s) ==
    /\ session[s] \in {"lost", "closed"} /\ atServer[s] = "open"
    /\ atServer' = [atServer EXCEPT ![s] = "closed"]
    /\ serverSession' \in {None, serverSession}
    /\ UNCHANGED <<link, pc, retryCount, calm>>

-----------------------------------------------------------------------------
(* sendMessage. *)

Goto(m, label) == pc' = [pc EXCEPT ![m] = label]

\* All is well: the field holds a session that is open, and no thread is about to
\* change it for anything but another open session.
GoodLink ==
    /\ clientSession \in In("open")
    /\ In("lost") = {}
    /\ returned \subseteq In("open")

SendMessage(m) ==
    /\ pc[m] = "new"
    /\ Goto(m, "wait")
    /\ UNCHANGED <<link, controller, retryCount, calm>>

\* Mutant: the loop has no end.
Wait_Forever(m) ==
    /\ pc[m] = "wait"
    /\ clientSession # None
    /\ Goto(m, "getId")
    /\ calm' = IF GoodLink THEN calm \cup {m} ELSE calm
    /\ UNCHANGED <<link, controller, retryCount>>

\* Mutant: the bound is tested before the counter is raised.
Wait_OneMore(m) ==
    /\ pc[m] = "wait"
    /\ \/ /\ clientSession # None
          /\ Goto(m, "getId")
          /\ calm' = IF GoodLink THEN calm \cup {m} ELSE calm
          /\ UNCHANGED retryCount
       \/ /\ clientSession = None
          /\ retryCount' = [retryCount EXCEPT ![m] = @ + 1]
          /\ Goto(m, IF retryCount[m] = Tries THEN "getId" ELSE "wait")
          /\ UNCHANGED calm
    /\ UNCHANGED <<link, controller>>

\* The loop sleeps while there is no session, but not for ever.
Wait(m) ==
    /\ pc[m] = "wait"
    /\ \/ /\ clientSession # None
          /\ Goto(m, "getId")
          /\ calm' = IF GoodLink THEN calm \cup {m} ELSE calm
          /\ UNCHANGED retryCount
       \/ /\ clientSession = None
          /\ retryCount' = [retryCount EXCEPT ![m] = @ + 1]
          /\ Goto(m, IF retryCount[m] + 1 = Tries THEN "getId" ELSE "wait")
          /\ UNCHANGED calm
    /\ UNCHANGED <<link, controller>>

\* The field is read three times more: for its id, which throws if there is no
\* session, for the test, and for the call.
GetId(m) ==
    /\ pc[m] = "getId"
    /\ Goto(m, IF clientSession = None THEN "lost" ELSE "check")
    /\ UNCHANGED <<link, controller, retryCount, calm>>

Check(m) ==
    /\ pc[m] = "check"
    /\ Goto(m, IF clientSession = None THEN "lost" ELSE "remote")
    /\ UNCHANGED <<link, controller, retryCount, calm>>

SendObject(m) ==
    /\ pc[m] = "remote"
    /\ Goto(m, IF clientSession \in In("open") THEN "sent" ELSE "lost")
    /\ UNCHANGED <<link, controller, retryCount, calm>>

-----------------------------------------------------------------------------
Connector(s) == ConnectToServer(s) \/ AssignSession(s) \/ LogSession(s)
Sender(m) == Wait(m) \/ GetId(m) \/ Check(m) \/ SendObject(m)

Next ==
    \/ \E s \in Sessions :
         \/ Connector(s) \/ LoseConnection(s)
         \/ OnClose(s) \/ OnMessage(s)
         \/ ServerOnOpen(s) \/ ServerOnClose(s)
    \/ \E m \in Messages : SendMessage(m) \/ Sender(m)

\* Threads go on, the container calls back, and the controller's keep-alive
\* thread sends its messages; a connection need not be lost, nor be possible.
Fairness ==
    /\ \A s \in Sessions :
         /\ WF_vars(AssignSession(s)) /\ WF_vars(LogSession(s))
         /\ WF_vars(OnClose(s)) /\ WF_vars(OnMessage(s))
    /\ \A m \in Messages : WF_vars(Sender(m))

Spec == Init /\ [][Next]_vars /\ Fairness

-----------------------------------------------------------------------------
\* The agent never gives up: while it has no session, and none whose close it
\* will be told of, a thread connects.  It holds although onClose, the loop that
\* connects and its exception share one field without a lock.
NeverStranded == connecting > 0 \/ In("open") \cup In("lost") # {}

\* A message is lost only if a connection is lost while it is sent, or the link
\* was in disorder when it was tried: reading the field four times, and threads
\* that connect meanwhile, lose none.
CalmIsSent == \A m \in Messages : pc[m] = "lost" => m \notin calm

\* Whatever session the field was left with, by a close handled late or by a
\* thread that assigns a dead session, the agent uses in the end the session the
\* controller has, if that session stays.
LinkHeals == \A s \in Sessions :
    <>[](serverSession = s /\ session[s] = "open") => <>[](clientSession = s)

\* The thread that sends a message, that of a netconf write or of a timer, is not
\* held up for ever, even if no connection can be made.
SendReturns == \A m \in Messages : pc[m] = "wait" ~> pc[m] \in {"sent", "lost"}

=============================================================================
