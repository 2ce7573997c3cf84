-------------------------- MODULE MCLogRotation --------------------------
(* LogRotation over a few intervals. *)
EXTENDS LogRotation
=============================================================================
