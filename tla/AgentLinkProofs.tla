-------------------------- MODULE AgentLinkProofs --------------------------
(* The safety of the agent's web socket client, for every number of        *)
(* sessions, of messages and of tries.                                     *)
EXTENDS AgentLink, TLAPS

-----------------------------------------------------------------------------
(* The invariant: what the loop of sendMessage knows of its counter, and   *)
(* that all is well as long as one message is undisturbed.                 *)

CounterIsBounded == \A m \in Messages :
    /\ pc[m] = "new" => retryCount[m] = 0
    /\ pc[m] = "wait" => retryCount[m] < Tries

CalmIsGood == calm # {} => GoodLink

Inv == TypeOK /\ CounterIsBounded /\ NeverStranded /\ CalmIsGood /\ CalmIsSent

LEMMA InitInv == Init => Inv
BY TriesAssumption, NameAssumption
   DEF Init, Inv, TypeOK, CounterIsBounded, NeverStranded, CalmIsGood, CalmIsSent

-----------------------------------------------------------------------------
(* The steps of the connecting threads and the callbacks move no sender.   *)

LEMMA ConnectToServerInv ==
    ASSUME Inv, NEW s \in Sessions, ConnectToServer(s)
    PROVE  Inv'
<1> USE DEF Inv, ConnectToServer
<1>1. TypeOK'
  BY DEF TypeOK, controller
<1>2. CounterIsBounded' /\ CalmIsSent'
  BY DEF CounterIsBounded, CalmIsSent
<1>3. session'[s] = "open"
  BY DEF TypeOK
<1>4. NeverStranded'
  BY <1>3 DEF NeverStranded, In
<1>5. CalmIsGood'
  BY DEF TypeOK, CalmIsGood, GoodLink, In
<1> QED
  BY <1>1, <1>2, <1>4, <1>5

LEMMA AssignSessionInv ==
    ASSUME Inv, NEW s \in Sessions, AssignSession(s)
    PROVE  Inv'
<1> USE DEF Inv, AssignSession
<1>1. TypeOK'
  BY DEF TypeOK, controller
<1>2. CounterIsBounded' /\ CalmIsSent' /\ NeverStranded'
  BY DEF CounterIsBounded, CalmIsSent, NeverStranded, In
<1>3. CalmIsGood'
  BY DEF CalmIsGood, GoodLink, In
<1> QED
  BY <1>1, <1>2, <1>3

LEMMA LogSessionInv ==
    ASSUME Inv, NEW s \in Sessions, LogSession(s)
    PROVE  Inv'
<1> USE DEF Inv, LogSession
<1>1. TypeOK'
  BY DEF TypeOK, controller
<1>2. CounterIsBounded' /\ CalmIsSent' /\ CalmIsGood'
  BY DEF CounterIsBounded, CalmIsSent, CalmIsGood, GoodLink, In
<1>3. NeverStranded'
  BY DEF TypeOK, NeverStranded, In
<1> QED
  BY <1>1, <1>2, <1>3

\* A close takes the last session away, and leaves it to be told of or a thread
\* that connects; no message is undisturbed any more.
LEMMA LoseConnectionInv ==
    ASSUME Inv, NEW s \in Sessions, LoseConnection(s)
    PROVE  Inv'
<1> USE DEF Inv, LoseConnection
<1>1. TypeOK'
  BY DEF TypeOK, controller
<1>2. CounterIsBounded' /\ CalmIsSent' /\ CalmIsGood'
  BY DEF CounterIsBounded, CalmIsSent, CalmIsGood
<1>3. session'[s] = "lost"
  BY DEF TypeOK
<1>4. NeverStranded'
  BY <1>3 DEF NeverStranded, In
<1> QED
  BY <1>1, <1>2, <1>4

LEMMA OnCloseInv ==
    ASSUME Inv, NEW s \in Sessions, OnClose(s)
    PROVE  Inv'
<1> USE DEF Inv, OnClose
<1>1. TypeOK'
  BY DEF TypeOK, controller
<1>2. connecting' > 0
  BY DEF TypeOK
<1>3. calm = {}
  BY DEF CalmIsGood, GoodLink, In
<1>4. CounterIsBounded' /\ CalmIsSent' /\ CalmIsGood' /\ NeverStranded'
  BY <1>2, <1>3 DEF CounterIsBounded, CalmIsSent, CalmIsGood, NeverStranded
<1> QED
  BY <1>1, <1>4

LEMMA OnMessageInv ==
    ASSUME Inv, NEW s \in Sessions, OnMessage(s)
    PROVE  Inv'
<1> USE DEF Inv, OnMessage
<1>1. TypeOK'
  BY DEF TypeOK, controller
<1>2. CounterIsBounded' /\ CalmIsSent' /\ NeverStranded'
  BY DEF CounterIsBounded, CalmIsSent, NeverStranded, In
<1>3. CalmIsGood'
  BY DEF CalmIsGood, GoodLink, In
<1> QED
  BY <1>1, <1>2, <1>3

LEMMA ServerInv ==
    ASSUME Inv, NEW s \in Sessions, ServerOnOpen(s) \/ ServerOnClose(s)
    PROVE  Inv'
<1> USE DEF Inv, ServerOnOpen, ServerOnClose, link
<1>1. TypeOK'
  BY DEF TypeOK
<1>2. CounterIsBounded' /\ CalmIsSent' /\ NeverStranded' /\ CalmIsGood'
  BY DEF CounterIsBounded, CalmIsSent, NeverStranded, CalmIsGood, GoodLink, In
<1> QED
  BY <1>1, <1>2

-----------------------------------------------------------------------------
(* The steps of a thread that sends a message leave the link alone.        *)

LEMMA SenderKeepsLink ==
    ASSUME Inv, UNCHANGED link
    PROVE  NeverStranded' /\ (GoodLink <=> GoodLink')
BY DEF Inv, link, NeverStranded, GoodLink, In

LEMMA WaitInv ==
    ASSUME Inv, NEW m \in Messages, Wait(m)
    PROVE  Inv'
<1> USE DEF Inv, Wait, Goto
<1>1. TypeOK' /\ CounterIsBounded'
  BY TriesAssumption DEF TypeOK, CounterIsBounded, link, controller
<1>2. NeverStranded' /\ (GoodLink <=> GoodLink')
  BY SenderKeepsLink
<1>3. CalmIsGood'
  BY <1>2 DEF CalmIsGood
<1>4. CalmIsSent'
  BY DEF TypeOK, CalmIsSent
<1> QED
  BY <1>1, <1>2, <1>3, <1>4

\* While a message is undisturbed, the field holds an open session at each of
\* the reads.
LEMMA SendInv ==
    ASSUME Inv, NEW m \in Messages,
           SendMessage(m) \/ GetId(m) \/ Check(m) \/ SendObject(m)
    PROVE  Inv'
<1> USE DEF Inv, SendMessage, GetId, Check, SendObject, Goto
<1>1. TypeOK' /\ CounterIsBounded'
  BY TriesAssumption DEF TypeOK, CounterIsBounded, link, controller
<1>2. NeverStranded' /\ (GoodLink <=> GoodLink')
  BY SenderKeepsLink
<1>3. CalmIsGood'
  BY <1>2 DEF CalmIsGood
<1>4. m \in calm => clientSession \in In("open") /\ clientSession # None
  BY NameAssumption DEF CalmIsGood, GoodLink, In, Sessions
<1>5. CalmIsSent'
  BY <1>4 DEF TypeOK, CalmIsSent
<1> QED
  BY <1>1, <1>2, <1>3, <1>5

-----------------------------------------------------------------------------
LEMMA StepInv == Inv /\ [Next]_vars => Inv'
<1> SUFFICES ASSUME Inv, [Next]_vars
             PROVE  Inv'
  OBVIOUS
<1>1. CASE UNCHANGED vars
  BY <1>1 DEF Inv, TypeOK, CounterIsBounded, NeverStranded, CalmIsGood, CalmIsSent,
              GoodLink, In, vars, link, controller
<1>2. ASSUME NEW s \in Sessions, Connector(s)
      PROVE  Inv'
  BY <1>2, ConnectToServerInv, AssignSessionInv, LogSessionInv DEF Connector
<1>3. ASSUME NEW s \in Sessions,
             \/ LoseConnection(s) \/ OnClose(s) \/ OnMessage(s)
             \/ ServerOnOpen(s) \/ ServerOnClose(s)
      PROVE  Inv'
  BY <1>3, LoseConnectionInv, OnCloseInv, OnMessageInv, ServerInv
<1>4. ASSUME NEW m \in Messages, SendMessage(m) \/ Sender(m)
      PROVE  Inv'
  BY <1>4, WaitInv, SendInv DEF Sender
<1> QED
  BY <1>1, <1>2, <1>3, <1>4 DEF Next

LEMMA Invariance == Spec => []Inv
<1> QED
  BY InitInv, StepInv, PTL DEF Spec

\* Every state of the fields, of the sessions and of the senders is well typed;
\* in particular sendMessage never sleeps more often than Tries times.
THEOREM TypeCorrect == Spec => []TypeOK
<1>1. Inv => TypeOK
  BY DEF Inv
<1> QED
  BY <1>1, Invariance, PTL

\* The agent always has a session, a close it will be told of, or a thread that
\* connects, however the unlocked writes of clientSession fall.
THEOREM NotStranded == Spec => []NeverStranded
<1>1. Inv => NeverStranded
  BY DEF Inv
<1> QED
  BY <1>1, Invariance, PTL

\* A message whose sending no lost connection disturbs is sent, however many
\* threads connect meanwhile.
THEOREM CalmSends == Spec => []CalmIsSent
<1>1. Inv => CalmIsSent
  BY DEF Inv
<1> QED
  BY <1>1, Invariance, PTL

=============================================================================
