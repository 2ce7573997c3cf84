--------------------------- MODULE MCShutdown ---------------------------
(* Shutdown with a few connections beside the rotator and the pruner. *)
EXTENDS Shutdown
=============================================================================
