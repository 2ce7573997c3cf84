--------------------------- MODULE MCLifecycle ---------------------------
(* Lifecycle and reads on three containers: the agent's, a protected one,  *)
(* another.                                                                *)
EXTENDS ContainerReads

CONSTANT Other

\* A volume's ID in mountinfo, then the agent's own; or that of the container
\* whose network the agent shares.
MCFinds == {<<Stale, Self>>, <<Other>>}
=============================================================================
