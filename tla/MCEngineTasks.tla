--------------------------- MODULE MCEngineTasks ---------------------------
(* Small instances of EngineTasks for TLC. *)
EXTENDS EngineTasks, TLC

Symmetry == Permutations(Requests)
=============================================================================
