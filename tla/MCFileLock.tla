----------------------------- MODULE MCFileLock -----------------------------
(* The instance of FileLock for TLC.  No symmetry: the run also checks     *)
(* liveness.                                                               *)
EXTENDS FileLock, TLC
=============================================================================
