-------------------------- MODULE MCSessionRuntime --------------------------
(* Small instances of SessionRuntime for TLC. *)
EXTENDS SessionRuntime, TLC

ChatSymmetry == Permutations(Chats)
=============================================================================
