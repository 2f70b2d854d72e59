-------------------------------- MODULE Heap --------------------------------
(***************************************************************************)
(* The transient state of the libpmemobj heap and the actions of its       *)
(* allocator (palloc.c, heap.c, recycler.c, bucket.c, memblock.c).         *)
(*                                                                         *)
(* The pool is one zone of chunks of one unit.  A chunk is free, used by   *)
(* one huge object, or a run: Blocks many units of the one small           *)
(* allocation class, with a bitmap.  Only kind and bitmap are persistent.  *)
(* In memory a chunk is                                                    *)
(*   in the default bucket, huge, when it is free;                         *)
(*   the active run of an arena's bucket, with the blocks it offers;       *)
(*   in the recycler, runs, with the free space it was scored with;        *)
(*   pending, when a bucket gave it up with reservations outstanding;      *)
(*   or in the hands of a thread.                                          *)
(* A thread collects actions, reservations and deferred frees, and         *)
(* publishes or cancels them: pmemobj_reserve, pmemobj_defer_free,         *)
(* pmemobj_publish and pmemobj_cancel, and what a transaction does.        *)
(*                                                                         *)
(* Waiting for a mutex is a guard; one that is taken and released with     *)
(* nothing blocking in between is not a variable of its own.  What follows *)
(* a step without waiting for anything, up to the release of a lock, may   *)
(* be part of it.  Publishing is atomic (module Redo).  The counters of    *)
(* unaccounted units only decide when to recalculate scores: any time,     *)
(* here.  Which of several equally fitting blocks is found is left open,   *)
(* and a coalesced free chunk is the set of its units.  Not modelled: more *)
(* than one small class, objects of several units, memory actions (they    *)
(* have no lock and no transient state), failing Mallocs, a growing pool.  *)
(***************************************************************************)
EXTENDS Integers, Sequences, FiniteSets, SequencesExt

CONSTANTS Threads, Arenas, None,
          ArenaOf,      \* the arena of a thread
          NChunk,       \* chunks 1..NChunk
          NBlock,       \* blocks of a run, 1..NBlock
          NLock,        \* run locks: a chunk has lock c % NLock
          Does,         \* what a thread's program does: reserve small blocks, free
                        \* them, reserve and free huge ones, cancel
          EarlyFree,    \* programs free huge objects of zones not scanned yet
          MaxActs       \* bound: actions a thread collects (a function)

ASSUME HeapAssumption ==
    /\ None \notin Threads \cup (1..NChunk)
    /\ ArenaOf \in [Threads -> Arenas]
    /\ NChunk \in Nat /\ NBlock \in Nat \ {0} /\ NLock \in Nat \ {0}
    /\ Does \in [Threads -> SUBSET {"small", "free", "huge", "cancel"}]
    /\ EarlyFree \in BOOLEAN /\ MaxActs \in [Threads -> Nat]

Chunks == 1..NChunk
Blocks == 1..NBlock
RunLocks == 1..NLock

VARIABLES kind, bitmap,                       \* persistent
          populated,                          \* zones_exhausted of the zone
          huge, bucket, runs, pending, nresv, \* where the chunks are
          blk, dlk, rlk, runlock,             \* bucket, default bucket, recycler, runs
          th, acts, left                      \* control, actions, those to finalize

transient == <<populated, huge, bucket, runs, pending, nresv>>
locks == <<blk, dlk, rlk, runlock>>
vars == <<kind, bitmap, transient, locks, th, acts, left>>

\* heap_get_run_lock; zero is the absent lock of a huge block.
RunLock(c) == (c % NLock) + 1
LockOf(a) == IF a.b = 0 THEN 0 ELSE RunLock(a.c)

\* run_calc_free.
FreeBlocks(c) == Blocks \ bitmap[c]
FreeSpace(c) == Cardinality(FreeBlocks(c))

\* The containers hold maximal free extents: blocks next to each other are
\* inserted as one, and what is left of a split one is inserted again.  A unit
\* is the first one of a smallest extent.
Extents(s) == {e \in s \X s : e[1]..e[2] \subseteq s /\ e[1] <= e[2] /\ {e[1] - 1, e[2] + 1} \cap s = {}}
BestFit(s) == {e[1] : e \in {x \in Extents(s) : \A y \in Extents(s) : x[2] - x[1] <= y[2] - y[1]}}

\* recycler_element_new: the score of a run.
Element(c) == [max |-> Max({0} \cup {e[2] - e[1] + 1 : e \in Extents(FreeBlocks(c))}),
               free |-> FreeSpace(c)]

Arena(t) == ArenaOf[t]
NoElement == [max |-> 0, free |-> 0]
Idle == [pc |-> "idle", step |-> 0, c |-> None, e |-> NoElement, pos |-> 0, look |-> {},
         todo |-> <<>>, scan |-> {}, ret |-> "idle"]

\* heap_boot and heap_buckets_init.
Booted ==
    /\ populated' = FALSE
    /\ huge' = {}
    /\ bucket' = [a \in Arenas |-> [run |-> None, free |-> {}]]
    /\ runs' = <<>>
    /\ pending' = <<>>
    /\ nresv' = [c \in Chunks |-> 0]
    /\ blk' = [a \in Arenas |-> None]
    /\ dlk' = None /\ rlk' = None
    /\ runlock' = [l \in RunLocks |-> None]
    /\ th' = [t \in Threads |-> Idle]
    /\ acts' = [t \in Threads |-> {}]
    /\ left' = [t \in Threads |-> {}]

Init ==
    /\ kind = [c \in Chunks |-> "free"]
    /\ bitmap = [c \in Chunks |-> {}]
    /\ populated = FALSE
    /\ huge = {}
    /\ bucket = [a \in Arenas |-> [run |-> None, free |-> {}]]
    /\ runs = <<>>
    /\ pending = <<>>
    /\ nresv = [c \in Chunks |-> 0]
    /\ blk = [a \in Arenas |-> None]
    /\ dlk = None /\ rlk = None
    /\ runlock = [l \in RunLocks |-> None]
    /\ th = [t \in Threads |-> Idle]
    /\ acts = [t \in Threads |-> {}]
    /\ left = [t \in Threads |-> {}]

At(t, p) == th[t].pc = p

\* The thread's control after a step.
Goes(t, p) == th' = [th EXCEPT ![t].pc = p]
Becomes(t, r) == th' = [th EXCEPT ![t] = r]

Unlocked(c) == runlock[RunLock(c)] = None

\* What heap_ensure_run_bucket_filled tries, in order, to find a run.
Plan == <<"get", "recalc", "get", "populate", "get", "recalc", "get", "newrun",
          "get", "recalc", "get">>

\* The step of the plan after this one.
NextTry(r) == [r EXCEPT !.step = @ + 1, !.pc = Plan[r.step + 1]]

\* The elements of the recycler with and without a run.
WithRun(rs, c, e) == [x \in (DOMAIN rs) \cup {c} |-> IF x = c THEN e ELSE rs[x]]
WithoutRun(rs, c) == [x \in (DOMAIN rs) \ {c} |-> rs[x]]

\* recycler_element_cmp, and the first of some runs in that order.
Precedes(rs, c, d) ==
    \/ rs[c].max < rs[d].max
    \/ rs[c].max = rs[d].max /\ rs[c].free < rs[d].free
    \/ rs[c] = rs[d] /\ c < d
FirstRun(rs, s) == CHOOSE c \in s : \A d \in s \ {c} : Precedes(rs, c, d)

----------------------------------------------------------------------------
(* palloc_reservation_create for the small class.                          *)

\* A reservation begins with heap_bucket_acquire, or has filled the bucket.
Reserves(t) ==
    \/ At(t, "take")
    \/ /\ At(t, "idle") /\ "small" \in Does[t] /\ Cardinality(acts[t]) < MaxActs[t]
       /\ blk[Arena(t)] = None

\* The bucket has a block.  A failing constructor drops it; else it is a
\* reservation of the active run.
Take(t) ==
    LET b == bucket[Arena(t)]
    IN /\ Reserves(t)
       /\ \E x \in BestFit(b.free) :
             /\ bucket' = [bucket EXCEPT ![Arena(t)].free = @ \ {x}]
             /\ \/ UNCHANGED <<nresv, acts>>
                \/ /\ nresv' = [nresv EXCEPT ![b.run] = @ + 1]
                   /\ acts' = [acts EXCEPT ![t] = @ \cup {[op |-> "alloc", c |-> b.run, b |-> x]}]
       /\ blk' = [blk EXCEPT ![Arena(t)] = None]
       /\ Becomes(t, Idle)
       /\ UNCHANGED <<kind, bitmap, populated, huge, runs, pending, dlk, rlk, runlock, left>>

\* Mutant: reservations of the run are not looked at.
DetachReserved(t) ==
    LET b == bucket[Arena(t)]
        r == [Idle EXCEPT !.step = 1, !.ret = "fill"]
    IN /\ Reserves(t) /\ b.free = {}
       /\ blk' = [blk EXCEPT ![Arena(t)] = t]
       /\ bucket' = [bucket EXCEPT ![Arena(t)].run = None]
       /\ Becomes(t, IF b.run = None THEN [r EXCEPT !.pc = Plan[1]]
                     ELSE [r EXCEPT !.pc = "score", !.c = b.run])
       /\ UNCHANGED <<kind, bitmap, populated, huge, runs, pending, nresv,
                      dlk, rlk, runlock, acts, left>>

\* It has none: the active run is given up, to the pending runs if there are
\* reservations of it.
Detach(t) ==
    LET b == bucket[Arena(t)]
        r == [Idle EXCEPT !.step = 1, !.ret = "fill"]
    IN /\ Reserves(t) /\ b.free = {}
       /\ blk' = [blk EXCEPT ![Arena(t)] = t]
       /\ bucket' = [bucket EXCEPT ![Arena(t)].run = None]
       /\ Becomes(t, IF b.run = None THEN [r EXCEPT !.pc = Plan[1]]
                     ELSE IF nresv[b.run] # 0 THEN [r EXCEPT !.pc = "pend", !.c = b.run]
                     ELSE [r EXCEPT !.pc = "score", !.c = b.run])
       /\ UNCHANGED <<kind, bitmap, populated, huge, runs, pending, nresv,
                      dlk, rlk, runlock, acts, left>>

\* recycler_pending_put.
Pend(t) ==
    /\ At(t, "pend") /\ rlk = None
    /\ pending' = Append(pending, th[t].c)
    /\ Becomes(t, [th[t] EXCEPT !.c = None, !.pc = Plan[1]])
    /\ UNCHANGED <<kind, bitmap, populated, huge, bucket, runs, nresv, locks, acts, left>>

\* Mutant: the run is entered with its capacity.
ScoreCapacity(t) ==
    LET c == th[t].c
    IN /\ At(t, "score") /\ Unlocked(c)
       /\ Becomes(t, IF FreeSpace(c) = NBlock
                     THEN [th[t] EXCEPT !.c = None, !.todo = <<c>>, !.pc = "dlock"]
                     ELSE [th[t] EXCEPT !.e = [max |-> NBlock, free |-> NBlock], !.pc = "put"])
       /\ UNCHANGED <<kind, bitmap, transient, locks, acts, left>>

\* heap_reclaim_run scores the run: an empty one becomes a free chunk.
Score(t) ==
    LET c == th[t].c
    IN /\ At(t, "score") /\ Unlocked(c)
       /\ Becomes(t, IF FreeSpace(c) = NBlock
                     THEN [th[t] EXCEPT !.c = None, !.todo = <<c>>, !.pc = "dlock"]
                     ELSE [th[t] EXCEPT !.e = Element(c), !.pc = "put"])
       /\ UNCHANGED <<kind, bitmap, transient, locks, acts, left>>

\* Mutant: a full run is not tracked.
PutSome(t) ==
    /\ At(t, "put") /\ rlk = None
    /\ runs' = IF th[t].e.free = 0 THEN runs ELSE WithRun(runs, th[t].c, th[t].e)
    /\ Becomes(t, [th[t] EXCEPT !.c = None, !.e = NoElement, !.scan = @ \ {th[t].c},
                                !.pc = IF dlk = t THEN "scan" ELSE Plan[1]])
    /\ UNCHANGED <<kind, bitmap, populated, huge, bucket, pending, nresv, locks, acts, left>>

\* recycler_put, of a run that was given up or found by a scan.
Put(t) ==
    /\ At(t, "put") /\ rlk = None
    /\ runs' = WithRun(runs, th[t].c, th[t].e)
    /\ Becomes(t, [th[t] EXCEPT !.c = None, !.e = NoElement, !.scan = @ \ {th[t].c},
                                !.pc = IF dlk = t THEN "scan" ELSE Plan[1]])
    /\ UNCHANGED <<kind, bitmap, populated, huge, bucket, pending, nresv, locks, acts, left>>

----------------------------------------------------------------------------
(* The recycler.                                                           *)

\* The end of recycler_get, which has the elements rs: the first run with a free
\* block, or the next try, or at the end of the plan ENOMEM, and the bucket is
\* released.
GetRun(t, rs) ==
    LET fit == {c \in DOMAIN rs : rs[c].max >= 1}
        c == FirstRun(rs, fit)
        r == [th[t] EXCEPT !.pos = 0]
    IN /\ rlk' = None
       /\ \/ /\ fit # {}
             /\ runs' = WithoutRun(rs, c)
             /\ Becomes(t, [r EXCEPT !.c = c, !.pc = "reuse"])
             /\ UNCHANGED blk
          \/ /\ fit = {} /\ r.step < Len(Plan)
             /\ runs' = rs
             /\ Becomes(t, NextTry(r))
             /\ UNCHANGED blk
          \/ /\ fit = {} /\ r.step = Len(Plan)
             /\ runs' = rs
             /\ Becomes(t, Idle)
             /\ blk' = [blk EXCEPT ![Arena(t)] = None]

\* recycler_get takes the lock, and looks at the pending runs if there are any.
Get(t) ==
    /\ At(t, "get") /\ rlk = None
    /\ \/ pending = <<>> /\ GetRun(t, runs)
       \/ /\ pending # <<>>
          /\ rlk' = t
          /\ Becomes(t, [th[t] EXCEPT !.pos = 1, !.pc = "check"])
          /\ UNCHANGED <<runs, blk>>
    /\ UNCHANGED <<kind, bitmap, populated, huge, bucket, pending, nresv, dlk, runlock, acts, left>>

\* VEC_ERASE_BY_POS: the last element takes the place.
Erased(s, i) == Front([s EXCEPT ![i] = Last(s)])

\* recycler_pending_check, one run.  One without reservations is scored, under
\* its lock; the run that takes its place in the vector is passed over.
CheckPending(t) ==
    LET i == th[t].pos
        c == pending[i]
        done == nresv[c] = 0
        rs == IF done THEN WithRun(runs, c, Element(c)) ELSE runs
    IN /\ At(t, "check") /\ (done => Unlocked(c))
       /\ pending' = IF done THEN Erased(pending, i) ELSE pending
       /\ \/ /\ i < Len(pending')
             /\ runs' = rs
             /\ th' = [th EXCEPT ![t].pos = i + 1]
             /\ UNCHANGED <<blk, rlk>>
          \/ i >= Len(pending') /\ GetRun(t, rs)
       /\ UNCHANGED <<kind, bitmap, populated, huge, bucket, nresv, dlk, runlock, acts, left>>

\* heap_run_reuse: the run becomes the active one, with what its bitmap offers.
Reuse(t) ==
    LET c == th[t].c
    IN /\ At(t, "reuse") /\ Unlocked(c)
       /\ bucket' = [bucket EXCEPT ![Arena(t)] = [run |-> c, free |-> FreeBlocks(c)]]
       /\ Becomes(t, [Idle EXCEPT !.pc = "take"])
       /\ UNCHANGED <<kind, bitmap, populated, huge, runs, pending, nresv, locks, acts, left>>

\* The default bucket is left to whoever fills a small one, and kept for who
\* fills it.
Leave(t, r) ==
    IF r.ret = "fill"
    THEN dlk' = None /\ Becomes(t, [r EXCEPT !.pc = Plan[r.step]])
    ELSE UNCHANGED dlk /\ Becomes(t, [r EXCEPT !.pc = r.ret])

\* heap_populate_bucket turns to the zone.  When none is left there is nothing
\* for a small bucket, and ENOMEM for the default one.
PopulateBucket(t, r) ==
    \/ /\ ~populated
       /\ populated' = TRUE /\ dlk' = t
       /\ Becomes(t, [r EXCEPT !.scan = Chunks, !.pc = "scan"])
    \/ populated /\ UNCHANGED populated /\ r.ret = "fill" /\ Leave(t, r)
    \/ /\ populated /\ UNCHANGED populated /\ r.ret # "fill"
       /\ dlk' = None
       /\ Becomes(t, IF r.step = 0 THEN Idle ELSE [NextTry(r) EXCEPT !.ret = "fill"])

\* What follows a recalculation that found no empty run: the next try, or, in
\* heap_ensure_huge_bucket_filled, the next zone.
NoneEmpty(t, r) ==
    IF dlk = t THEN PopulateBucket(t, r)
    ELSE Becomes(t, NextTry(r)) /\ UNCHANGED <<populated, dlk>>

\* A recalculation is due: it is in the plan, or heap_ensure_huge_bucket_filled
\* finds nothing in the default bucket.
Recalculates(t) == At(t, "recalc") \/ (At(t, "htake") /\ huge = {})

\* recycler_recalc with too little to account for, or a recycler in use.
RecalcNot(t) ==
    /\ Recalculates(t)
    /\ NoneEmpty(t, th[t])
    /\ UNCHANGED <<kind, bitmap, huge, bucket, runs, pending, nresv, blk, rlk, runlock, acts, left>>

\* recycler_recalc gets the lock.  Forced, for the default bucket, it looks at
\* all runs; else at those with unaccounted units.
Recalc(t) ==
    /\ Recalculates(t) /\ rlk = None
    /\ \E s \in IF dlk = t THEN {DOMAIN runs} ELSE SUBSET DOMAIN runs :
          s # {} /\ Becomes(t, [th[t] EXCEPT !.look = s, !.pc = "rescore"])
    /\ rlk' = t
    /\ UNCHANGED <<kind, bitmap, transient, blk, dlk, runlock, acts, left>>

\* The end of recycler_recalc.
RecalcDone(t, r) ==
    /\ rlk' = None
    /\ IF r.todo = <<>> THEN NoneEmpty(t, r)
       ELSE /\ Becomes(t, IF dlk = t THEN [r EXCEPT !.pc = "convert"]
                          ELSE [NextTry(r) EXCEPT !.pc = "dlock"])
            /\ UNCHANGED <<populated, dlk>>

\* The next run in the order of the scores, under its lock.  If its free space
\* has grown it gets a new score, or leaves when it is empty; unforced, that may
\* be as much as was looked for.
Rescore(t) ==
    LET c == FirstRun(runs, th[t].look)
        r == [th[t] EXCEPT !.look = @ \ {c}]
        grown == FreeSpace(c) # runs[c].free
        empty == FreeSpace(c) = NBlock
        q == IF grown /\ empty THEN [r EXCEPT !.todo = Append(@, c)] ELSE r
    IN /\ At(t, "rescore") /\ Unlocked(c)
       /\ runs' = IF ~grown THEN runs ELSE IF empty THEN WithoutRun(runs, c) ELSE WithRun(runs, c, Element(c))
       /\ \/ /\ q.look # {}
             /\ Becomes(t, q)
             /\ UNCHANGED <<populated, dlk, rlk>>
          \/ /\ q.look = {} \/ (grown /\ dlk # t)
             /\ RecalcDone(t, [q EXCEPT !.look = {}])
       /\ UNCHANGED <<kind, bitmap, huge, bucket, pending, nresv, blk, runlock, acts, left>>

\* Runs to be converted without the default bucket: it is acquired.
AcquireDefault(t) ==
    /\ At(t, "dlock") /\ dlk = None
    /\ dlk' = t
    /\ Goes(t, "convert")
    /\ UNCHANGED <<kind, bitmap, transient, blk, rlk, runlock, acts, left>>

\* heap_run_into_free_chunk of the next one.
Convert(t) ==
    LET c == Head(th[t].todo)
    IN /\ At(t, "convert") /\ th[t].todo # <<>> /\ Unlocked(c)
       /\ kind' = [kind EXCEPT ![c] = "free"]
       /\ huge' = huge \cup {c}
       /\ th' = [th EXCEPT ![t].todo = Tail(@)]
       /\ UNCHANGED <<bitmap, populated, bucket, runs, pending, nresv, locks, acts, left>>

\* All are converted.
Converted(t) ==
    /\ At(t, "convert") /\ th[t].todo = <<>>
    /\ IF th[t].scan = {} THEN Leave(t, th[t]) ELSE Goes(t, "scan") /\ UNCHANGED dlk
    /\ UNCHANGED <<kind, bitmap, transient, blk, rlk, runlock, acts, left>>

----------------------------------------------------------------------------
(* The default bucket.                                                     *)

\* heap_ensure_run_bucket_filled acquires it to populate a zone.
Populate(t) ==
    /\ At(t, "populate") /\ dlk = None
    /\ PopulateBucket(t, [th[t] EXCEPT !.step = @ + 1])
    /\ UNCHANGED <<kind, bitmap, huge, bucket, runs, pending, nresv, blk, rlk, runlock, acts, left>>

\* heap_reclaim_zone_garbage, one chunk.
Scan(t) ==
    LET c == CHOOSE x \in th[t].scan : \A y \in th[t].scan : x <= y
        r == [th[t] EXCEPT !.scan = @ \ {c}]
    IN /\ At(t, "scan") /\ th[t].scan # {}
       /\ \/ /\ kind[c] = "free"
             /\ huge' = huge \cup {c}
             /\ Becomes(t, r)
          \/ kind[c] = "used" /\ Becomes(t, r) /\ UNCHANGED huge
          \/ /\ kind[c] = "run" /\ Unlocked(c)
             /\ Becomes(t, IF FreeSpace(c) = NBlock
                           THEN [r EXCEPT !.todo = <<c>>, !.pc = "convert"]
                           ELSE [th[t] EXCEPT !.c = c, !.e = Element(c), !.pc = "put"])
             /\ UNCHANGED huge
       /\ UNCHANGED <<kind, bitmap, populated, bucket, runs, pending, nresv, locks, acts, left>>

\* The zone is done.
Scanned(t) ==
    /\ At(t, "scan") /\ th[t].scan = {}
    /\ Leave(t, th[t])
    /\ UNCHANGED <<kind, bitmap, transient, blk, rlk, runlock, acts, left>>

\* heap_bucket_acquire of the default bucket, for a new run or a reservation.
AcquireHuge(t) ==
    /\ dlk = None
    /\ dlk' = t
    /\ Becomes(t, [th[t] EXCEPT !.pc = "htake", !.ret = "htake"])
    /\ UNCHANGED <<kind, bitmap, transient, blk, rlk, runlock, acts, left>>

BeginRun(t) == At(t, "newrun") /\ AcquireHuge(t)

ReserveHuge(t) ==
    /\ At(t, "idle") /\ "huge" \in Does[t] /\ Cardinality(acts[t]) < MaxActs[t]
    /\ AcquireHuge(t)

\* heap_run_create: a free chunk becomes the active run.
NewRun(t) ==
    /\ At(t, "htake") /\ th[t].step # 0
    /\ \E c \in BestFit(huge) :
          /\ huge' = huge \ {c}
          /\ kind' = [kind EXCEPT ![c] = "run"]
          /\ bitmap' = [bitmap EXCEPT ![c] = {}]
          /\ bucket' = [bucket EXCEPT ![Arena(t)] = [run |-> c, free |-> Blocks]]
    /\ dlk' = None
    /\ Becomes(t, [Idle EXCEPT !.pc = "take"])
    /\ UNCHANGED <<populated, runs, pending, nresv, blk, rlk, runlock, acts, left>>

\* A huge reservation.  If the constructor fails the chunk is put back.
TakeHuge(t) ==
    /\ At(t, "htake") /\ th[t].step = 0
    /\ \E c \in BestFit(huge) :
          \/ UNCHANGED <<huge, acts>>
          \/ /\ huge' = huge \ {c}
             /\ acts' = [acts EXCEPT ![t] = @ \cup {[op |-> "alloc", c |-> c, b |-> 0]}]
    /\ dlk' = None
    /\ Becomes(t, Idle)
    /\ UNCHANGED <<kind, bitmap, populated, bucket, runs, pending, nresv, blk, rlk, runlock, left>>

----------------------------------------------------------------------------
(* Deferred frees, palloc_exec_actions and palloc_cancel.                  *)

\* The objects a program may free: allocated, and nobody is freeing them.
InAction(c, b) == \E t \in Threads : \E a \in acts[t] : a.c = c /\ a.b = b
Objects == {o \in Chunks \X (Blocks \cup {0}) :
               /\ ~InAction(o[1], o[2])
               /\ IF o[2] = 0 THEN kind[o[1]] = "used" ELSE kind[o[1]] = "run" /\ o[2] \in bitmap[o[1]]}

\* The transient state knows the chunk: its zone has been scanned that far.
Entered(c) == populated /\ \A t \in Threads : c \notin th[t].scan

\* palloc_defer_free.
DeferFree(t) ==
    /\ At(t, "idle") /\ Cardinality(acts[t]) < MaxActs[t]
    /\ \E o \in Objects :
          /\ IF o[2] = 0 THEN "huge" \in Does[t] /\ (EarlyFree \/ Entered(o[1]))
                         ELSE "free" \in Does[t]
          /\ acts' = [acts EXCEPT ![t] = @ \cup {[op |-> "free", c |-> o[1], b |-> o[2]]}]
    /\ UNCHANGED <<kind, bitmap, transient, locks, th, left>>

\* The locks of a thread's actions that it has still to take.
LocksAhead(t) == {LockOf(a) : a \in acts[t]} \ ({0} \cup {l \in RunLocks : runlock[l] = t})

\* What the actions of a thread do to the bitmap and the header of a chunk.
Marked(t, op, c) == {b \in Blocks \cup {0} : [op |-> op, c |-> c, b |-> b] \in acts[t]}

\* operation_finish, with all locks taken: the metadata of all actions at once.
OperationFinish(t) ==
    /\ bitmap' = [c \in Chunks |-> (bitmap[c] \cup (Marked(t, "alloc", c) \ {0})) \ Marked(t, "free", c)]
    /\ kind' = [c \in Chunks |-> IF 0 \in Marked(t, "alloc", c) THEN "used"
                                 ELSE IF 0 \in Marked(t, "free", c) THEN "free" ELSE kind[c]]
    /\ left' = [left EXCEPT ![t] = acts[t]]
    /\ Goes(t, "process")

\* Mutant: the actions are not sorted.
ExecLockUnsorted(t) ==
    /\ th[t].pc \in {"idle", "exec"}
    /\ \E l \in LocksAhead(t) :
          /\ runlock[l] = None
          /\ runlock' = [runlock EXCEPT ![l] = t]
    /\ IF Cardinality(LocksAhead(t)) = 1 THEN OperationFinish(t)
       ELSE Goes(t, "exec") /\ UNCHANGED <<kind, bitmap, left>>
    /\ UNCHANGED <<transient, blk, dlk, rlk, acts>>

\* palloc_exec_actions: the actions are sorted by lock, and each lock is taken
\* before its first action is executed.
ExecLock(t) ==
    /\ th[t].pc \in {"idle", "exec"}
    /\ \E l \in LocksAhead(t) :
          /\ \A m \in LocksAhead(t) : l <= m
          /\ runlock[l] = None
          /\ runlock' = [runlock EXCEPT ![l] = t]
    /\ IF Cardinality(LocksAhead(t)) = 1 THEN OperationFinish(t)
       ELSE Goes(t, "exec") /\ UNCHANGED <<kind, bitmap, left>>
    /\ UNCHANGED <<transient, blk, dlk, rlk, acts>>

\* Actions on huge blocks only, which have no lock.
ExecHuge(t) ==
    /\ At(t, "idle") /\ acts[t] # {} /\ LocksAhead(t) = {}
    /\ OperationFinish(t)
    /\ UNCHANGED <<transient, locks, acts>>

\* The next actions to finalize, and whether a is the first one with its lock.
FirstLeft(t) == {a \in left[t] : \A x \in left[t] : LockOf(a) <= LockOf(x)}
FirstOfLock(t, a) == \A x \in acts[t] \ left[t] : LockOf(x) # LockOf(a)

\* on_process of one action; the lock is released after the first of its group.
\* Only the free of a huge block has more to do when the locks are dropped.
Process(t) ==
    LET after == {x \in acts[t] : x.op = "free" /\ x.b = 0}
    IN /\ At(t, "process")
       /\ \E a \in FirstLeft(t) :
             /\ nresv' = IF a.op = "alloc" /\ a.b # 0 THEN [nresv EXCEPT ![a.c] = @ - 1] ELSE nresv
             /\ runlock' = IF FirstOfLock(t, a) /\ a.b # 0
                           THEN [runlock EXCEPT ![LockOf(a)] = None] ELSE runlock
             /\ left' = [left EXCEPT ![t] = @ \ {a}]
             /\ IF left[t] # {a} THEN UNCHANGED <<th, acts>>
                ELSE /\ acts' = [acts EXCEPT ![t] = after]
                     /\ Goes(t, IF after = {} THEN "idle" ELSE "unlock")
       /\ UNCHANGED <<kind, bitmap, populated, huge, bucket, runs, pending, blk, dlk, rlk>>

\* An action is finalized; the call goes on, or returns after the last one.
Drop(t, a, p) ==
    /\ acts' = [acts EXCEPT ![t] = @ \ {a}]
    /\ IF acts[t] = {a} THEN Becomes(t, Idle) ELSE Goes(t, p)

\* on_unlock: palloc_restore_free_chunk_state of a freed huge block.
OnUnlock(t) ==
    /\ At(t, "unlock") /\ dlk = None
    /\ \E a \in acts[t] : huge' = huge \cup {a.c} /\ Drop(t, a, "unlock")
    /\ UNCHANGED <<kind, bitmap, populated, bucket, runs, pending, nresv, locks, left>>

\* palloc_cancel, on_cancel of one action: a huge reservation goes back to the
\* default bucket, one of a run is only counted down.
Cancel(t) ==
    /\ At(t, "cancel") \/ (At(t, "idle") /\ "cancel" \in Does[t])
    /\ \E a \in acts[t] :
          /\ IF a.op = "alloc" /\ a.b = 0 THEN dlk = None /\ huge' = huge \cup {a.c} ELSE UNCHANGED huge
          /\ nresv' = IF a.op = "alloc" /\ a.b # 0 THEN [nresv EXCEPT ![a.c] = @ - 1] ELSE nresv
          /\ Drop(t, a, "cancel")
    /\ UNCHANGED <<kind, bitmap, populated, bucket, runs, pending, locks, left>>

\* The process ends, and the pool is opened again.
Crash == Booted /\ UNCHANGED <<kind, bitmap>>

----------------------------------------------------------------------------

\* What a program asks for, and the steps of a call, the first one of some included.
Calls(t) == ReserveHuge(t) \/ DeferFree(t)
Fills(t) == \/ Take(t) \/ Detach(t) \/ Pend(t) \/ Score(t) \/ Put(t)
            \/ Get(t) \/ CheckPending(t) \/ Reuse(t)
            \/ RecalcNot(t) \/ Recalc(t) \/ Rescore(t)
            \/ AcquireDefault(t) \/ Convert(t) \/ Converted(t)
            \/ Populate(t) \/ Scan(t) \/ Scanned(t)
            \/ BeginRun(t) \/ NewRun(t) \/ TakeHuge(t)
Executes(t) == ExecLock(t) \/ ExecHuge(t) \/ Process(t) \/ OnUnlock(t) \/ Cancel(t)
Steps(t) == Fills(t) \/ Executes(t)

Next == Crash \/ \E t \in Threads : Calls(t) \/ Steps(t)

Spec == Init /\ [][Next]_vars

----------------------------------------------------------------------------
(* Properties.                                                             *)

Act == [op : {"alloc", "free"}, c : Chunks, b : Blocks \cup {0}]

\* Types of the heap's persistent and transient state.
TypeOK ==
    /\ kind \in [Chunks -> {"free", "used", "run"}]
    /\ bitmap \in [Chunks -> SUBSET Blocks]
    /\ populated \in BOOLEAN /\ huge \subseteq Chunks /\ ToSet(pending) \subseteq Chunks
    /\ bucket \in [Arenas -> [run : Chunks \cup {None}, free : SUBSET Blocks]]
    /\ DOMAIN runs \subseteq Chunks /\ \A c \in DOMAIN runs : runs[c] \in [max : 0..NBlock, free : 0..NBlock]
    /\ nresv \in [Chunks -> 0..NBlock]
    /\ blk \in [Arenas -> Threads \cup {None}]
    /\ {dlk, rlk} \subseteq Threads \cup {None}
    /\ runlock \in [RunLocks -> Threads \cup {None}]
    /\ \A t \in Threads : /\ th[t].c \in Chunks \cup {None} /\ th[t].step \in 0..Len(Plan)
                          /\ ToSet(th[t].todo) \cup th[t].look \cup th[t].scan \subseteq Chunks
                          /\ left[t] \subseteq acts[t] /\ acts[t] \subseteq Act

\* Who has block b of chunk c: threads and buckets, and the heap itself as part
\* of a free chunk or of an object.
Owners(c, b) ==
    {t \in Threads : /\ th[t].pc \notin {"process", "unlock"}
                     /\ \E a \in acts[t] : a.op = "alloc" /\ a.c = c /\ a.b \in {0, b}}
    \cup {a \in Arenas : bucket[a].run = c /\ b \in bucket[a].free}
    \cup (IF c \in huge THEN {"free"} ELSE {})
    \cup (IF kind[c] = "used" \/ (kind[c] = "run" /\ b \in bitmap[c]) THEN {"object"} ELSE {})

\* alloc_prep_block writes the header of a reserved block, and the constructor its
\* data, trusting that nobody else can: a unit of the heap belongs to at most one
\* of an allocated object, a reservation, and a bucket that offers it.
HandedOnce == \A c \in Chunks, b \in Blocks : Cardinality(Owners(c, b)) <= 1

\* A thread is moving the chunk, has it still to scan, or has it in an action.
InHand(t, c) ==
    \/ c = th[t].c \/ c \in ToSet(th[t].todo)
    \/ c \in th[t].scan /\ kind[c] # "used"
    \/ \E a \in acts[t] : a.c = c /\ a.b = 0

\* How many transient places a chunk is in, and whether it is an object.
Places(c) ==
    Cardinality({x \in Arenas : bucket[x].run = c}) + Cardinality({i \in DOMAIN pending : pending[i] = c})
    + Cardinality({t \in Threads : InHand(t, c)})
    + (IF c \in huge THEN 1 ELSE 0) + (IF c \in DOMAIN runs THEN 1 ELSE 0)
    + (IF kind[c] = "used" /\ ~InAction(c, 0) THEN 1 ELSE 0)

\* heap_populate_bucket enters the chunks of a zone in the transient state, and
\* heap_ensure_run_bucket_filled, the recycler and the frees move them around it:
\* from then on every chunk is in exactly one place, so that no run is lost until
\* the next open and none is the active run of two buckets.  All state keeps its
\* type.
ChunkInOnePlace ==
    /\ TypeOK
    /\ populated => \A c \in Chunks : Places(c) = 1

\* recycler_recalc asserts (e.free_space >= existing_free_space): blocks of a run
\* in the recycler are freed and never allocated, so its score is a lower bound.
ScoreIsLow == \A c \in DOMAIN runs : kind[c] = "run" /\ runs[c].free <= FreeSpace(c)

\* Buckets, the recycler and the runs of several actions are locked in an order
\* without circles (palloc_exec_actions sorts for it): of the threads inside a
\* call, one can go on.
SomeoneMoves ==
    (\E t \in Threads : th[t].pc # "idle") => \E t \in Threads : th[t].pc # "idle" /\ ENABLED Steps(t)

\* on_process is "performed under action-specific lock", and heap_memblock_on_free
\* asserts (hdr->type == CHUNK_TYPE_RUN): a free that is finalized finds the run.
FreedFromRun ==
    \A t \in Threads : \A a \in left[t] : a.op = "free" /\ a.b # 0 => kind[a.c] = "run"

============================================================================
