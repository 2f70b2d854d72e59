-------------------------------- MODULE MCTx --------------------------------
(* Tx for TLC.  Cells are interchangeable.                                 *)
EXTENDS Tx, TLC

Symmetry == Permutations(Cells)
=============================================================================
