---------------------------- MODULE MCTxStages ----------------------------
(* Instances of TxStages for TLC. *)
EXTENDS TxStages, TLC

CONSTANTS t1, t2

\* One thread nests, or runs two transactions; the other runs one.
MCBegins == t1 :> 3 @@ t2 :> 1
============================================================================
