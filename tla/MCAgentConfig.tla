---------------------------- MODULE MCAgentConfig ----------------------------
(***************************************************************************)
(* AgentConfig on small instances.                                         *)
(***************************************************************************)
EXTENDS AgentConfig, TLC

CONSTANTS c1, c2

AllOnes == [c \in Cells |-> 1]
CellSymmetry == Permutations(Cells)
=============================================================================
