--------------------------- MODULE AgentRegistry ---------------------------
(***************************************************************************)
(* What the agent registry of the controller promises while callbacks and  *)
(* REST requests do not overlap: an agent is a member from the time its    *)
(* socket is registered; only members own server ids, and at most one      *)
(* each; an id is granted to a member that owns none; a member that leaves *)
(* gives its server id up in the same step.                                *)
(***************************************************************************)
CONSTANTS Agents, Servers, None

VARIABLES members, owner

Serverless(a) == \A id \in Servers : owner[id] # a

Init ==
    /\ members = {}
    /\ owner = [id \in Servers |-> None]

Give(id, a) ==
    /\ Serverless(a)
    /\ owner' = [owner EXCEPT ![id] = a]

\* A (re)connecting agent keeps its server id, or is granted one, which another
\* agent may lose by it, or waits without one.
Join(a) ==
    /\ members' = members \cup {a}
    /\ UNCHANGED owner \/ \E id \in Servers : Give(id, a)

Grant(a) ==
    /\ a \in members
    /\ \E id \in Servers : owner[id] = None /\ Give(id, a)
    /\ UNCHANGED members

Leave(a) ==
    /\ a \in members
    /\ members' = members \ {a}
    /\ \E id \in Servers :
         /\ owner[id] = a
         /\ owner' = [owner EXCEPT ![id] = None]

Next == \E a \in Agents : Join(a) \/ Grant(a) \/ Leave(a)

Spec == Init /\ [][Next]_<<members, owner>>

=============================================================================
