---------------------------- MODULE MCMcpSession ----------------------------
(* The instance of McpSession for TLC.  No symmetry: the run also checks   *)
(* liveness.                                                               *)
EXTENDS McpSession, TLC
=============================================================================
