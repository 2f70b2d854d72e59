------------------------------ MODULE TxRanges ------------------------------
(***************************************************************************)
(* The ranges tree of a libpmemobj transaction (tx.c): which bytes were    *)
(* added to the transaction or allocated in it, what is snapshotted for    *)
(* them, and what commit will flush.                                       *)
(*                                                                         *)
(* pmemobj_tx_add_common walks the tree backwards from the end of the      *)
(* requested range, snapshots the gaps and merges neighbours; an iteration *)
(* of its loop is one action.  The tree is a set of ranges with different  *)
(* offsets.  A transaction is private to its thread, so the steps of one   *)
(* call do not interleave with anything.                                   *)
(***************************************************************************)
EXTENDS Integers

CONSTANTS
    Heap,           \* the last byte of the heap; bytes are 1..Heap
    Objects,        \* places of objects: records [off, size]
    Flags,          \* POBJ_XADD_NO_FLUSH / POBJ_XALLOC_NO_FLUSH given: {FALSE}
                    \*   or {TRUE, FALSE}
    None

Bytes == 1 .. Heap
Range == [off : Bytes, size : 0 .. Heap, noflush : BOOLEAN]

\* struct tx_range_def.
RangeDef(off, size, noflush) == [off |-> off, size |-> size, noflush |-> noflush]

End(r) == r.off + r.size
BytesOf(r) == r.off .. End(r) - 1

ASSUME RangesAssumption ==
    /\ Heap \in Nat \ {0} /\ Flags \subseteq BOOLEAN
    /\ \A o \in Objects : /\ o = [off |-> o.off, size |-> o.size]
                          /\ o.off \in Nat \ {0} /\ o.size \in Nat \ {0}
                          /\ BytesOf(o) \subseteq Bytes
    /\ \A o, p \in Objects : o = p \/ BytesOf(o) \cap BytesOf(p) = {}
    /\ None \notin Range

VARIABLES
    tree,           \* tx->ranges
    logged,         \* per byte: snapshots of it in the undo log
    alloc,          \* objects allocated before the transaction
    fresh, freed,   \* tx->actions: reservations and deferred frees
    pc,             \* "work", or "add" inside the loop
    r,              \* pmemobj_tx_add_common: what is left of the request,
    prev,           \*   the range on its right side (nprev),
    least,          \*   the predicate is still RAVL_PREDICATE_LESS_EQUAL
    added,          \* history: bytes asked to be added, to be flushed by
    toflush, quiet  \*   the library, to be left to the program

history == <<added, toflush, quiet>>

actions == <<alloc, fresh, freed>>
vars == <<tree, logged, actions, pc, r, prev, least, history>>

NoRange == RangeDef(1, 0, FALSE)

Init ==
    /\ tree = {} /\ logged = [b \in Bytes |-> 0]
    /\ alloc \in SUBSET Objects /\ fresh = {} /\ freed = {}
    /\ pc = "work" /\ r = NoRange /\ prev = None /\ least = TRUE
    /\ added = {} /\ toflush = {} /\ quiet = {}
-----------------------------------------------------------------------------
\* Objects the program may touch.
Live == (alloc \cup fresh) \ freed

AskFlush(bytes, noflush) ==
    /\ toflush' = IF noflush THEN toflush ELSE toflush \cup bytes
    /\ quiet' = IF noflush THEN quiet \cup bytes ELSE quiet

\* pmemobj_tx_(x)add_range(_direct): a part of an object.
TxAddRange ==
    /\ pc = "work"
    /\ \E o \in Live, noflush \in Flags :
         \E first, last \in BytesOf(o) :
            /\ first <= last
            /\ r' = RangeDef(first, last + 1 - first, noflush)
            /\ added' = added \cup first .. last
            /\ AskFlush(first .. last, noflush)
    /\ pc' = "add" /\ prev' = None /\ least' = TRUE
    /\ UNCHANGED <<tree, logged, actions>>

\* ravl_find with LESS_EQUAL or LESS from the end of the request.
Below == {f \in tree : IF least THEN f.off <= End(r) ELSE f.off < End(r)}
Found(f) == f \in Below /\ \A g \in Below : g.off <= f.off

\* What is left of the request once the range found is taken off its end.
Rest(f) == RangeDef(r.off, (IF f.off > r.off THEN f.off ELSE r.off) - r.off, r.noflush)

\* pmemobj_tx_add_snapshot of bytes first..last.
Snapshot(first, last) ==
    logged' = [b \in Bytes |-> IF b \in first .. last THEN logged[b] + 1
                                                      ELSE logged[b]]

\* Nothing overlaps or touches the left side of what is left of the request:
\* all of it is snapshotted, and its right neighbour is extended or a new
\* range created.
AddWhole ==
    /\ \A f \in Below : Found(f) => End(f) < r.off
    /\ tree' = IF prev = None
                 THEN tree \cup {r}
                 ELSE (tree \ {prev}) \cup
                      {RangeDef(prev.off - r.size, prev.size + r.size, prev.noflush)}
    /\ Snapshot(r.off, End(r) - 1)
    /\ r' = RangeDef(r.off, 0, r.noflush)
    /\ UNCHANGED prev

\* Mutant: the right neighbour stays in the tree.
ExtendFoundKeepRight ==
    \E f \in Below :
        LET right == IF prev = None THEN 0 ELSE prev.size
            new == RangeDef(f.off, End(r) + right - f.off, f.noflush)
        IN /\ Found(f) /\ End(f) >= r.off /\ End(f) <= End(r)
           /\ tree' = (tree \ {f}) \cup {new}
           /\ Snapshot(End(f), End(r) - 1)
           /\ r' = Rest(f)
           /\ prev' = new

\* The range found ends inside the request: the gap on its right is
\* snapshotted, the range grows over it and takes the right neighbour in.
ExtendFound ==
    \E f \in Below :
        LET right == IF prev = None THEN 0 ELSE prev.size
            new == RangeDef(f.off, End(r) + right - f.off, f.noflush)
        IN /\ Found(f) /\ End(f) >= r.off /\ End(f) <= End(r)
           /\ tree' = (tree \ {f, prev}) \cup {new}
           /\ Snapshot(End(f), End(r) - 1)
           /\ r' = Rest(f)
           /\ prev' = new

\* Mutant: the part of the request in front of the range is forgotten too.
SkipFoundDropsRest ==
    \E f \in Below :
        /\ Found(f) /\ End(f) > End(r)
        /\ r' = RangeDef(r.off, 0, r.noflush)
        /\ prev' = f
        /\ UNCHANGED <<tree, logged>>

\* Mutant: the overlap is not subtracted.
SkipFoundNoShrink ==
    \E f \in Below :
        /\ Found(f) /\ End(f) > End(r)
        /\ prev' = f
        /\ UNCHANGED <<tree, logged, r>>

\* The range found ends beyond the request: it is the right neighbour of the
\* part in front of it, if any.
SkipFound ==
    \E f \in Below :
        /\ Found(f) /\ End(f) > End(r)
        /\ r' = Rest(f)
        /\ prev' = f
        /\ UNCHANGED <<tree, logged>>

\* An iteration of pmemobj_tx_add_common, while (r.size != 0).
AddIteration ==
    /\ pc = "add" /\ r.size # 0
    /\ AddWhole \/ ExtendFound \/ SkipFound
    /\ least' = FALSE
    /\ UNCHANGED <<actions, pc, history>>

AddReturns ==
    /\ pc = "add" /\ r.size = 0
    /\ pc' = "work" /\ r' = NoRange /\ prev' = None /\ least' = TRUE
    /\ UNCHANGED <<tree, logged, actions, history>>

\* tx_alloc_common: the object's range goes into the tree as it is.  A range
\* with its offset would be FATAL; TreeSound says that there is none.
TxAlloc(o) ==
    /\ pc = "work" /\ o \notin alloc \cup fresh
    /\ \E noflush \in Flags :
          /\ tree' = tree \cup {RangeDef(o.off, o.size, noflush)}
          /\ AskFlush(BytesOf(o), noflush)
    /\ fresh' = fresh \cup {o}
    /\ UNCHANGED <<logged, alloc, freed, pc, r, prev, least, added>>

\* Mutant: the free is always deferred to the commit.
TxFreeDefers(o) ==
    /\ pc = "work" /\ o \in Live
    /\ freed' = freed \cup {o}
    /\ toflush' = toflush \ BytesOf(o) /\ quiet' = quiet \ BytesOf(o)
    /\ UNCHANGED <<tree, logged, alloc, fresh, pc, r, prev, least, added>>

\* pmemobj_tx_free: a reservation whose range has the object's offset is
\* cancelled together with the range; everything else is freed at commit.
TxFree(o) ==
    /\ pc = "work" /\ o \in Live
    /\ \/ /\ o \in fresh
          /\ \E f \in tree : f.off = o.off /\ tree' = tree \ {f}
          /\ fresh' = fresh \ {o}
          /\ added' = added \ BytesOf(o)
          /\ UNCHANGED freed
       \/ /\ o \in fresh => \A f \in tree : f.off # o.off
          /\ freed' = freed \cup {o}
          /\ UNCHANGED <<tree, fresh, added>>
    /\ toflush' = toflush \ BytesOf(o) /\ quiet' = quiet \ BytesOf(o)
    /\ UNCHANGED <<logged, alloc, pc, r, prev, least>>

\* The transaction ends and another one begins: pmemobj_tx_begin creates a
\* new tree.
Restart ==
    /\ tree' = {} /\ logged' = [b \in Bytes |-> 0]
    /\ fresh' = {} /\ freed' = {}
    /\ pc' = "work" /\ r' = NoRange /\ prev' = None /\ least' = TRUE
    /\ added' = {} /\ toflush' = {} /\ quiet' = {}

\* pmemobj_tx_commit
TxCommit == pc = "work" /\ alloc' = (alloc \cup fresh) \ freed /\ Restart

\* pmemobj_tx_abort, also when an allocation fails in the middle of an add.
TxAbort == UNCHANGED alloc /\ Restart

Next == \/ TxAddRange \/ AddIteration \/ AddReturns \/ TxCommit \/ TxAbort
        \/ \E o \in Objects : TxAlloc(o) \/ TxFree(o)

\* The loop is sequential code: it runs on.
Spec == Init /\ [][Next]_vars /\ WF_vars(AddIteration \/ AddReturns)
-----------------------------------------------------------------------------
(* Every variable has its type; a byte is never snapshotted twice.         *)
TypeOK ==
    /\ tree \subseteq Range /\ logged \in [Bytes -> {0, 1}]
    /\ alloc \subseteq Objects /\ fresh \subseteq Objects /\ freed \subseteq Objects
    /\ pc \in {"work", "add"}
    /\ r \in Range /\ prev \in Range \cup {None} /\ least \in BOOLEAN
    /\ added \subseteq Bytes /\ toflush \subseteq Bytes /\ quiet \subseteq Bytes

FreshBytes == UNION {BytesOf(o) : o \in fresh}

(* When an add returns every byte the program added was snapshotted        *)
(* exactly once, in whatever order and overlap the requests came, and      *)
(* nothing else was, in particular no byte of an object allocated in the   *)
(* transaction: the undo log restores the contents from the begin.         *)
SnapshottedOnce ==
    pc = "work" =>
        \A b \in Bytes : logged[b] = IF b \in added \ FreshBytes THEN 1 ELSE 0

(* The tree of ranges, in the middle of an add included.  The ranges never *)
(* overlap: the tree flushes a byte once.  No range has the offset of an   *)
(* object that may be allocated next: tx_lane_ranges_insert_def, FATAL on  *)
(* a duplicate, cannot meet one.  The assertion of pmemobj_tx_add_common   *)
(* holds: the range remembered as the right neighbour starts where the     *)
(* rest of the request ends, and is still in the tree.  All state keeps    *)
(* its type.                                                               *)
TreeSound ==
    /\ TypeOK
    /\ \A f, g \in tree : f = g \/ End(f) <= g.off \/ End(g) <= f.off
    /\ \A o \in Objects \ (alloc \cup fresh) : \A f \in tree : f.off # o.off
    /\ pc = "add" /\ r.size > 0 /\ prev # None => prev.off = End(r) /\ prev \in tree

(* What commit flushes covers every byte that was added or allocated and   *)
(* whose flush the program never took over.                                *)
FlushCovered ==
    pc = "work" => \A b \in toflush \ quiet :
                      \E f \in tree : ~f.noflush /\ b \in BytesOf(f)

(* An object allocated and freed in one transaction is cancelled, never    *)
(* published and freed in the same commit.                                 *)
FreshFreeCancels == fresh \cap freed = {}

(* An add returns: every iteration shortens the request.                   *)
AddTerminates == pc = "add" ~> pc = "work"
=============================================================================
