------------------------------- MODULE MCRedo -------------------------------
(* Redo for TLC: two one-bit words and the updates that interact on them.  *)
EXTENDS Redo

CONSTANTS w1, w2

TwoWords == {w1, w2}
OneBit == {1}

U(w, t, v) == [off |-> w, type |-> t, val |-> v]

\* Enough to merge, to refuse to merge, and to write the other word.
MixedUpdates == {U(w1, "AND", {}), U(w1, "OR", {1}), U(w2, "SET", {1})}
=============================================================================
