---------------------------- MODULE MCAgentPool ----------------------------
(* Small instances of AgentPool for TLC.                                   *)
EXTENDS AgentPool, TLC

Symmetry == Permutations(Agents) \cup Permutations(Calls)
=============================================================================
