------------------------------ MODULE MCLogRead ------------------------------
(* LogRead with lines of at most two bytes and lists of at most two lines. *)
EXTENDS LogRead
=============================================================================
