---------------------------- MODULE MCAgentConfig ----------------------------
(* Small instances of AgentConfig for TLC. *)
EXTENDS AgentConfig, TLC
Symmetry == Permutations(Clients)
=============================================================================
