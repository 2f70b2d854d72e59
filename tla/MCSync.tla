------------------------------- MODULE MCSync -------------------------------
(* Sync for TLC: run ids of three bits, so that they wrap on the way.      *)
EXTENDS Sync
=============================================================================
