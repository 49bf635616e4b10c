--------------------------- MODULE MCMcpTransport ---------------------------
(* Small instances of McpTransport for TLC. *)
EXTENDS McpTransport
=============================================================================
