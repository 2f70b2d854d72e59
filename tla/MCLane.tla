------------------------------- MODULE MCLane -------------------------------
(* Lane for TLC: small sets of threads and lanes. *)
EXTENDS Lane
=============================================================================
