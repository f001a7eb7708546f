-------------------------- MODULE MCAgentSessions --------------------------
EXTENDS AgentSessions, TLC

CONSTANTS a1, a2, s1, s2, s3, s4, srv1, srv2

TwoCells == <<srv1, srv2>>
ThreeCells == <<srv1, srv2, srv1>>

SessionSymmetry == Permutations(Sessions)
=============================================================================
