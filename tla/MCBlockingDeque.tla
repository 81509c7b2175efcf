--------------------------- MODULE MCBlockingDeque ---------------------------
(***************************************************************************)
(* BlockingDeque for TLC, which is given its constants in the .cfg.  The   *)
(* threads are not declared symmetric, since the run checks liveness.      *)
(***************************************************************************)
EXTENDS BlockingDeque

=============================================================================
