------------------------------ MODULE AtomicTx ------------------------------
(***************************************************************************)
(* What a libpmemobj transaction promises: the changes made in it become   *)
(* the contents of the pool all at once, at the commit, or are rolled back *)
(* by an abort, by an error or by the recovery after a crash.              *)
(***************************************************************************)
CONSTANTS Cells, Values, None

VARIABLES
    store,          \* the contents of the pool; None: not allocated
    work,           \* what the open transaction sees
    open

avars == <<store, work, open>>

AInit == /\ store \in [Cells -> Values \cup {None}]
         /\ work = store
         /\ open = FALSE

Begin == ~open /\ open' = TRUE /\ UNCHANGED <<store, work>>

\* A write, an allocation or a free.
Change(c, v) == /\ open
                /\ work' = [work EXCEPT ![c] = v]
                /\ UNCHANGED <<store, open>>

Commit == open /\ store' = work /\ work' = store' /\ open' = FALSE

Rollback == open /\ work' = store /\ open' = FALSE /\ UNCHANGED store

ANext == \/ Begin \/ Commit \/ Rollback
         \/ \E c \in Cells, v \in Values \cup {None} : Change(c, v)

ASpec == AInit /\ [][ANext]_avars
=============================================================================
