--------------------------------- MODULE Tx ---------------------------------
(***************************************************************************)
(* A libpmemobj transaction (tx.c) over the undo log of its lane (ulog.c,  *)
(* memops.c), with crashes and the undo recovery of lane.c.                *)
(*                                                                         *)
(* The objects of the pool are cells: a cell is allocated or not and has a *)
(* value.  A transaction snapshots a cell before it writes it, reserves    *)
(* cells it allocates and remembers cells it frees.  Commit flushes the    *)
(* cells, then publishes allocations, frees and the invalidation of the    *)
(* undo log's first entry through the external redo log, which is one      *)
(* atomic step (module Redo implements AtomicUpdate), then zeroes the undo *)
(* log.                                                                    *)
(*                                                                         *)
(* Persistency is as in Redo: a visible value and a set of possible media  *)
(* values per cell and per undo entry.  An entry carries a checksum of its *)
(* own, so a torn entry is an invalid one.                                 *)
(***************************************************************************)
EXTENDS Integers

CONSTANTS
    Cells,          \* objects
    Values,         \* contents of an object
    None,           \* stands for the contents of a cell that is not allocated
    Invalid,        \* an undo entry with offset zero or a wrong checksum
    Base,           \* entries of the undo log in the lane
    Ext,            \* entries of its extension
    FlushOrdered,   \* copies are cached and the CPU flush is CLFLUSH
    MaxReuse        \* bound: transactions begun on a log with leftover entries

Slots == 1 .. Base + Ext
UndoEntry == [cell : Cells, val : Values]

ASSUME TxAssumption ==
    /\ None \notin Values
    /\ Invalid \notin UndoEntry
    /\ Base \in Nat \ {0} /\ Ext \in Nat
    /\ FlushOrdered \in BOOLEAN
    /\ MaxReuse \in Nat

VARIABLES
    data, dataMay,      \* the cells: visible value, possible media values
    alloc,              \* allocated cells (the heap's metadata, durable)
    undo, undoMay,      \* the entries of the undo log
    ext,                \* the undo log has its extension
    n,                  \* ctx->total_logged, in entries
    ranges,             \* tx->ranges: cells to flush at commit
    fresh, freed,       \* tx->actions: cells reserved, cells to be freed
    pc,                 \* where the thread is
    k,                  \* next entry of ulog_foreach_entry
    before, after,      \* history: contents at begin, contents to commit
    outcome,            \* history: how the last transaction ended
    reuse               \* history: such transactions, up to MaxReuse

pool == <<data, dataMay, alloc, undo, undoMay, ext>>
volatile == <<n, ranges, fresh, freed>>
history == <<before, after, reuse>>
vars == <<pool, volatile, pc, k, history, outcome>>

Init ==
    /\ data \in [Cells -> Values] /\ dataMay = [c \in Cells |-> {data[c]}]
    /\ alloc \in SUBSET Cells
    /\ undo = [i \in Slots |-> Invalid] /\ undoMay = [i \in Slots |-> {Invalid}]
    /\ ext = FALSE
    /\ n = 0 /\ ranges = {} /\ fresh = {} /\ freed = {}
    /\ pc = "idle" /\ k = 1
    /\ before = [c \in Cells |-> IF c \in alloc THEN data[c] ELSE None]
    /\ after = before
    /\ outcome = "none"
    /\ reuse = 0

\* The contents of a pool whose allocated cells are S.
View(S) == [c \in Cells |-> IF c \in S THEN data[c] ELSE None]
-----------------------------------------------------------------------------
\* The work stage.

\* A crash while the log is zeroed leaves entries recovery does not see.
Leftover == \E i \in Slots : undo[i] # Invalid

\* pmemobj_tx_begin, outermost: operation_start of the undo log.
TxBegin ==
    /\ pc = "idle"
    /\ Leftover => reuse < MaxReuse
    /\ reuse' = IF Leftover THEN reuse + 1 ELSE reuse
    /\ pc' = "work"
    /\ n' = 0 /\ ranges' = {} /\ fresh' = {} /\ freed' = {}
    /\ before' = View(alloc) /\ after' = before'
    /\ k' = 1 /\ outcome' = "none"
    /\ UNCHANGED pool

Capacity == IF ext THEN Base + Ext ELSE Base

\* pmemobj_tx_add_common, pmemobj_tx_add_snapshot, operation_add_buffer: the
\* old contents go to the next free entry.  When the lane is full the
\* extension is allocated first; its entries are zeroed and the internal redo
\* log links it in one step.  The copy is not durable yet: a crash finds the
\* old entry, a torn one or the new one.
TxAdd(c) ==
    /\ pc = "work" /\ c \in alloc /\ c \notin ranges \cup freed
    /\ n < Base + Ext
    /\ LET extend == n = Base /\ ~ext
           old(i) == IF extend /\ i > Base THEN {Invalid} ELSE undoMay[i]
           entry == [cell |-> c, val |-> data[c]]
       IN /\ ext' = (ext \/ extend)
          /\ undo' = [i \in Slots |->
                        CASE i = n + 1 -> entry
                          [] i # n + 1 /\ extend /\ i > Base -> Invalid
                          [] OTHER -> undo[i]]
          /\ undoMay' = [i \in Slots |->
                           IF i = n + 1 THEN old(i) \cup {Invalid, entry}
                                        ELSE old(i)]
    /\ n' = n + 1 /\ ranges' = ranges \cup {c}
    /\ pc' = "snap"
    /\ UNCHANGED <<data, dataMay, alloc, fresh, freed, k, history, outcome>>

DrainUndo == undoMay' = [i \in Slots |-> {undo[i]}]

\* Mutant: no drain after the entry is copied.
SnapshotNoDrain ==
    /\ pc = "snap"
    /\ pc' = "work"
    /\ UNCHANGED <<pool, volatile, k, history, outcome>>

\* The drain at the end of ulog_entry_buf_create.
SnapshotDrain ==
    /\ pc = "snap"
    /\ DrainUndo
    /\ pc' = "work"
    /\ UNCHANGED <<data, dataMay, alloc, undo, ext, volatile, k, history,
                   outcome>>

\* The program stores to a cell it added or allocated; the cache may evict
\* the line at any time.
Write(c, v) ==
    /\ data' = [data EXCEPT ![c] = v]
    /\ dataMay' = [dataMay EXCEPT ![c] = @ \cup {v}]

TxWrite(c, v) ==
    /\ pc = "work" /\ c \in ranges
    /\ Write(c, v)
    /\ UNCHANGED <<alloc, undo, undoMay, ext, volatile, pc, k, history,
                   outcome>>

\* tx_alloc_common: a reservation, and a range without a snapshot.  The
\* constructor leaves zeroes, a copy or what was there before.
TxAlloc(c, v) ==
    /\ pc = "work" /\ c \notin alloc \cup fresh
    /\ Write(c, v)
    /\ fresh' = fresh \cup {c} /\ ranges' = ranges \cup {c}
    /\ UNCHANGED <<alloc, undo, undoMay, ext, n, freed, pc, k, history,
                   outcome>>

\* pmemobj_tx_free: a cell allocated by this transaction is just cancelled.
TxFree(c) ==
    /\ pc = "work"
    /\ \/ /\ c \in fresh
          /\ fresh' = fresh \ {c} /\ ranges' = ranges \ {c}
          /\ UNCHANGED freed
       \/ /\ c \in alloc \ freed
          /\ freed' = freed \cup {c}
          /\ UNCHANGED <<fresh, ranges>>
    /\ UNCHANGED <<pool, n, pc, k, history, outcome>>
-----------------------------------------------------------------------------
\* Commit.

\* What the transaction makes of the pool.
Work == View((alloc \cup fresh) \ freed)

\* Mutant: the ranges are dropped without a flush.
TxPreCommitNoFlush ==
    /\ pc = "work"
    /\ after' = Work
    /\ pc' = "flushed"
    /\ UNCHANGED <<pool, volatile, k, before, reuse, outcome>>

\* tx_pre_commit and the drain after it.
TxPreCommit ==
    /\ pc = "work"
    /\ dataMay' = [c \in Cells |-> IF c \in ranges THEN {data[c]} ELSE dataMay[c]]
    /\ after' = Work
    /\ pc' = "flushed"
    /\ UNCHANGED <<data, alloc, undo, undoMay, ext, volatile, k, before, reuse,
                   outcome>>

\* Mutant: the first snapshot registers no action on the undo log.
TxPublishKeepsUndo ==
    /\ pc = "flushed"
    /\ alloc' = (alloc \cup fresh) \ freed
    /\ pc' = IF n > 0 THEN "clobber" ELSE "idle"
    /\ outcome' = "committed"
    /\ UNCHANGED <<data, dataMay, undo, undoMay, ext, volatile, k, history>>

\* palloc_publish: allocations, frees and, if there was a snapshot, the
\* offset of the first undo entry, in one atomic step.  With nothing logged
\* operation_finish of the undo log has nothing to do.
TxPublish ==
    /\ pc = "flushed"
    /\ alloc' = (alloc \cup fresh) \ freed
    /\ undo' = IF n > 0 THEN [undo EXCEPT ![1] = Invalid] ELSE undo
    /\ undoMay' = IF n > 0 THEN [undoMay EXCEPT ![1] = {Invalid}] ELSE undoMay
    /\ pc' = IF n > 0 THEN "clobber" ELSE "idle"
    /\ outcome' = "committed"
    /\ UNCHANGED <<data, dataMay, ext, volatile, k, history>>

\* ulog_clobber_data over entries first..last, not drained.
Zero(first, last) ==
    /\ undo' = [i \in Slots |-> IF i \in first .. last THEN Invalid ELSE undo[i]]
    /\ undoMay' = [i \in Slots |-> IF i \in first .. last
                                     THEN undoMay[i] \cup {Invalid}
                                     ELSE undoMay[i]]

\* ulog_clobber_data, first iteration: the entries in the lane.
ClobberLane ==
    /\ pc = "clobber"
    /\ Zero(1, IF n < Base THEN n ELSE Base)
    /\ pc' = "clobbering"
    /\ UNCHANGED <<data, dataMay, alloc, ext, volatile, k, history, outcome>>

\* The drain of the first iteration, and the memset of the second: the
\* entries in the extension.
ClobberExtension ==
    /\ pc = "clobbering" /\ n > Base
    /\ undo' = [i \in Slots |-> IF i \in Base + 1 .. n THEN Invalid ELSE undo[i]]
    /\ undoMay' = [i \in Slots |-> IF i \in Base + 1 .. n
                                     THEN {undo[i], Invalid} ELSE {undo[i]}]
    /\ pc' = "clobberingExt"
    /\ UNCHANGED <<data, dataMay, alloc, ext, volatile, k, history, outcome>>

\* Mutant: only the part of the log in the lane is zeroed.
ClobberDrainLaneOnly ==
    /\ pc \in {"clobbering", "clobberingExt"}
    /\ DrainUndo
    /\ pc' = "idle"
    /\ UNCHANGED <<data, dataMay, alloc, undo, ext, volatile, k, history, outcome>>

\* The last drain; a drain also orders what the recovery flushed before.
ClobberDrain ==
    /\ \/ pc = "clobbering" /\ n <= Base
       \/ pc = "clobberingExt"
    /\ DrainUndo
    /\ dataMay' = IF outcome = "crashed" THEN [c \in Cells |-> {data[c]}] ELSE dataMay
    /\ pc' = "idle"
    /\ UNCHANGED <<data, alloc, undo, ext, volatile, k, history, outcome>>
-----------------------------------------------------------------------------
\* Abort.

\* pmemobj_tx_abort, and the abort of a call that fails.
TxAbort ==
    /\ pc = "work"
    /\ pc' = "restore" /\ k' = 1
    /\ outcome' = "aborted"
    /\ UNCHANGED <<pool, volatile, history>>

\* ulog_foreach_entry stops at the end of the log or at an invalid entry.
AtEntry == k <= Capacity /\ undo[k] # Invalid

\* Mutant: the copy is not flushed.
RestoreEntryNoFlush ==
    /\ pc = "restore" /\ AtEntry
    /\ Write(undo[k].cell, undo[k].val)
    /\ k' = k + 1
    /\ UNCHANGED <<alloc, undo, undoMay, ext, volatile, pc, history, outcome>>

\* tx_restore_range: copied with flush and drain.
RestoreEntry ==
    /\ pc = "restore" /\ AtEntry
    /\ data' = [data EXCEPT ![undo[k].cell] = undo[k].val]
    /\ dataMay' = [dataMay EXCEPT ![undo[k].cell] = {undo[k].val}]
    /\ k' = k + 1
    /\ UNCHANGED <<alloc, undo, undoMay, ext, volatile, pc, history, outcome>>

\* operation_finish of the undo log; palloc_cancel forgets the reservations.
TxAbortFinish ==
    /\ pc = "restore" /\ ~AtEntry
    /\ pc' = IF n > 0 THEN "clobber" ELSE "idle"
    /\ UNCHANGED <<pool, volatile, k, history, outcome>>
-----------------------------------------------------------------------------
\* Crashes and recovery.

Survivors == {u \in [Slots -> UNION {undoMay[i] : i \in Slots}] :
                 \A i \in Slots : u[i] \in undoMay[i]}

Images == {d \in [Cells -> Values] : \A c \in Cells : d[c] \in dataMay[c]}

Crash ==
    /\ pc # "down"
    /\ undo' \in Survivors
    /\ undoMay' = [i \in Slots |-> {undo'[i]}]
    /\ data' \in Images
    /\ dataMay' = [c \in Cells |-> {data'[c]}]
    /\ pc' = "down" /\ outcome' = "crashed"
    /\ UNCHANGED <<alloc, ext, volatile, k, history>>

\* operation_resume: what is logged is the valid prefix in the lane, and
\* only that.
Logged == {m \in 0 .. Base : /\ \A i \in 1 .. m : undo[i] # Invalid
                             /\ m < Base => undo[m + 1] = Invalid}

\* lane_recover_and_section_boot.  The redo logs come first, which is part
\* of the atomic publish.
Recover ==
    /\ pc = "down"
    /\ n' \in Logged
    /\ pc' = "undo" /\ k' = 1
    /\ ranges' = {} /\ fresh' = {} /\ freed' = {}
    /\ UNCHANGED <<pool, history, outcome>>

\* operation_process_persistent_undo: copied and flushed, with no drain.
UndoEntryApply ==
    /\ pc = "undo" /\ AtEntry
    /\ LET e == undo[k]
       IN /\ data' = [data EXCEPT ![e.cell] = e.val]
          /\ dataMay' = [dataMay EXCEPT ![e.cell] =
                            IF FlushOrdered THEN {e.val} ELSE @ \cup {e.val}]
    /\ k' = k + 1
    /\ UNCHANGED <<alloc, undo, undoMay, ext, volatile, pc, history, outcome>>

RecoverFinish ==
    /\ pc = "undo" /\ ~AtEntry
    /\ pc' = IF n > 0 THEN "clobber" ELSE "idle"
    /\ UNCHANGED <<pool, volatile, k, history, outcome>>

Working == \/ TxBegin \/ SnapshotDrain \/ TxAbort \/ TxPreCommit
           \/ \E c \in Cells : \/ TxAdd(c) \/ TxFree(c)
                               \/ \E v \in Values : TxWrite(c, v) \/ TxAlloc(c, v)

Ending == \/ TxPublish \/ ClobberLane \/ ClobberExtension \/ ClobberDrain
          \/ RestoreEntry \/ TxAbortFinish

Failing == Crash \/ Recover \/ UndoEntryApply \/ RecoverFinish

Next == Working \/ Ending \/ Failing

Spec == Init /\ [][Next]_vars
-----------------------------------------------------------------------------
(* Every variable has its type.                                            *)
TypeOK ==
    /\ data \in [Cells -> Values] /\ dataMay \in [Cells -> SUBSET Values]
    /\ alloc \subseteq Cells
    /\ undo \in [Slots -> UndoEntry \cup {Invalid}]
    /\ undoMay \in [Slots -> SUBSET (UndoEntry \cup {Invalid})]
    /\ ext \in BOOLEAN
    /\ n \in 0 .. Base + Ext /\ k \in 1 .. Base + Ext + 1
    /\ ranges \subseteq Cells /\ fresh \subseteq Cells /\ freed \subseteq Cells
    /\ pc \in {"idle", "work", "snap", "flushed", "clobber", "clobbering",
               "clobberingExt", "restore", "down", "undo"}
    /\ before \in [Cells -> Values \cup {None}]
    /\ after \in [Cells -> Values \cup {None}]
    /\ outcome \in {"none", "committed", "aborted", "crashed"}
    /\ reuse \in 0 .. MaxReuse

\* The contents that survive are the ones the program sees.
Durable == \A c \in alloc : dataMay[c] = {data[c]}

(* pmemobj_tx_commit returns: the pool holds what the transaction wrote,   *)
(* allocated and freed, and holds it durably.                              *)
CommitIsDurable ==
    pc = "idle" /\ outcome = "committed" => View(alloc) = after /\ Durable

(* pmemobj_tx_abort returns: everything is as it was at the begin.         *)
AbortRestores ==
    pc = "idle" /\ outcome = "aborted" => View(alloc) = before /\ Durable

(* The pool is opened after a crash, one in the recovery included: an      *)
(* interrupted transaction happened as a whole or not at all, for its      *)
(* writes and its allocations together.                                    *)
CrashIsAtomic ==
    pc = "idle" /\ outcome = "crashed" => View(alloc) \in {before, after} /\ Durable

(* The lane's undo log at rest: no later recovery finds anything to apply, *)
(* and after a commit or an abort no entry is left at all, in the lane or  *)
(* in the extension.                                                       *)
IdleLogIsEmpty ==
    pc = "idle" =>
        \A i \in Slots : i = 1 \/ outcome \in {"committed", "aborted"} =>
                          undoMay[i] = {Invalid}

\* The contents the pool stands for: an undo log that is to be applied
\* counts as applied.
Open == pc \in {"work", "snap", "flushed"}
Rollback == \/ Open
            \/ pc \in {"restore", "down", "undo"} /\ undo[1] # Invalid
Contents == IF Rollback THEN before ELSE View(alloc)

Abstract == INSTANCE AtomicTx
    WITH store <- Contents, work <- IF Open THEN Work ELSE Contents, open <- Open

(* A transaction implements an atomic one: its writes, allocations and     *)
(* frees become the contents of the pool in one step, or never.            *)
ImplementsAtomicTx == Abstract!ASpec
=============================================================================
