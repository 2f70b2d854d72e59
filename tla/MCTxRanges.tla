----------------------------- MODULE MCTxRanges -----------------------------
(* TxRanges for TLC.                                                       *)
EXTENDS TxRanges

Object(first, last) == [off |-> first, size |-> last + 1 - first]

\* Objects with a header: their usable bytes are never adjacent.
WithHeaders == {Object(1, 6), Object(8, 9)}

\* Objects of an allocation class without headers.
WithoutHeaders == {Object(1, 2), Object(3, 4)}

Plain == {FALSE}
Mixed == {FALSE, TRUE}
=============================================================================
