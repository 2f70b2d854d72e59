------------------------------- MODULE MCHeap -------------------------------
(* Instance of Heap for TLC. *)
EXTENDS Heap

CONSTANTS t1, t2, a1, a2

MCThreads == {t1, t2}
MCArenas == {a1, a2}
MCArenaOf == (t1 :> a1) @@ (t2 :> a2)
MCDoes == (t1 :> {"small"}) @@ (t2 :> {"small", "free", "huge", "cancel"})
MCActs == (t1 :> 2) @@ (t2 :> 2)

=============================================================================
