--------------------------- MODULE MCRateLimit ---------------------------
(* RateLimit with fewer buckets than keys. *)
EXTENDS RateLimit, TLC

\* Requests are interchangeable, and so are keys.
Symmetry == Permutations(Requests) \cup Permutations(Keys)
=============================================================================
