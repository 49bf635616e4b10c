---------------------------- MODULE MCSchemaGraph ----------------------------
(* Small instances of SchemaGraph for TLC. *)
EXTENDS SchemaGraph, TLC
Symmetry == Permutations(Agents) \cup Permutations(Clients)
=============================================================================
