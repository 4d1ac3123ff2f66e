-------------------------- MODULE MCAgentRuntime --------------------------
(* AgentRuntime for TLC.                                                   *)
EXTENDS AgentRuntime, TLC

Symmetry == Permutations(Clients) \cup Permutations(Cells)
=============================================================================
