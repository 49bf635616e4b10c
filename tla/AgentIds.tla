------------------------------ MODULE AgentIds ------------------------------
(***************************************************************************)
(* What the delegation graph of the schemas and the delegated runs have in *)
(* common: the agents one of them relates and the other one runs.          *)
(***************************************************************************)

CONSTANTS
    Agents,     \* ids of agents
    None        \* no agent; NULL in a column

ASSUME NoneAssumption == None \notin Agents
=============================================================================
