--------------------------- MODULE MCModelCatalog ---------------------------
(* Small instances of ModelCatalog for TLC. *)
EXTENDS ModelCatalog, TLC
Symmetry == Permutations(Models) \cup Permutations(Requests)
=============================================================================
