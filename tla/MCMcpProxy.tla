----------------------------- MODULE MCMcpProxy -----------------------------
(* Instances of McpProxy for TLC.  Messages of one kind differ by name.    *)
EXTENDS McpProxy, TLC

MessageSymmetry == Permutations(Inits) \cup Permutations(Requests)
=============================================================================
