------------------------------- MODULE PmemLog ------------------------------
(***************************************************************************)
(* The log pool of libpmemlog (log.c): a descriptor with three offsets and *)
(* a data area, under one reader-writer lock.  An append copies its data   *)
(* behind the write offset, makes it durable and then moves the offset and *)
(* makes that durable.                                                     *)
(*                                                                         *)
(* A word or byte of the pool has a value in the caches, which threads     *)
(* see, and one on the medium.  What was stored and not made durable is,   *)
(* after the end of the program, on the medium or not, byte by byte.       *)
(* Offsets and counts are kept modulo OffWrap, as uint64_t is; the buffers *)
(* of a call fit into one address space.  pmem_msync is taken to succeed:  *)
(* the code does not look at its result.                                   *)
(***************************************************************************)
EXTENDS Integers, Sequences

CONSTANTS
    Threads, NoThread,
    Start,          \* roundup(sizeof(*plp), LOG_FORMAT_DATA_ALIGN)
    PoolSize,
    OffWrap,        \* 2^64
    Iovs,           \* what is appended: data, and where its buffers end
    ChunkSizes,     \* the chunk sizes of walks
    MaxCalls, MaxEnds

VARIABLES
    cache,          \* the pool as the program sees it
    media,          \* the pool on the medium
    flushed,        \* the bytes flushed and not drained
    is_pmem,        \* the pool is on persistent memory, not behind a page cache
    pool,           \* absent, creating, closed or open
    rdonly,
    writer, readers,\* of the rwlock
    at,             \* the next step of the call of each thread,
    op,             \*   its arguments
    loc,            \*   and its locals
    calls, ends     \* counters

vars == <<cache, media, flushed, is_pmem, pool, rdonly, writer, readers, at, op,
          loc, calls, ends>>
pmem == <<cache, media, flushed>>
static == <<is_pmem, pool, rdonly, ends>>

\* Where the words of the descriptor are, and the usable log space.
StartOffset == 1
EndOffset == 2
WriteOffset == 3
Words == {StartOffset, EndOffset, WriteOffset}
Area == Start .. PoolSize - 1
Locations == Words \cup Area
Blank == [x \in Locations |-> 0]

ASSUME PmemLogAssumption ==
    /\ Start \in Nat /\ Start > WriteOffset /\ PoolSize \in Start .. OffWrap - 1
    /\ OffWrap \in Nat /\ ChunkSizes \subseteq 0 .. OffWrap - 1
    /\ \A v \in Iovs : /\ v.data \in Seq(Nat) /\ v.ends \subseteq 1 .. Len(v.data)
                       /\ v.data # <<>> => Len(v.data) \in v.ends
                       /\ Len(v.data) < OffWrap
    /\ NoThread \notin Threads

\* The arguments of a call; negative: the count of the iovec is.
Op(kind, data, bufs, negative, chunk) ==
    [kind |-> kind, data |-> data, bufs |-> bufs, negative |-> negative, chunk |-> chunk]
NoOp == Op("none", <<>>, {}, FALSE, 0)

\* left: the buffers still to be copied, by their ends in the data.
Locals(left, old, pos, out, ok) ==
    [left |-> left, old |-> old, pos |-> pos, out |-> out, ok |-> ok]
NoLocals == Locals({}, 0, 0, <<>>, TRUE)

Init ==
    /\ cache = Blank /\ media = Blank /\ flushed = {}
    /\ is_pmem \in BOOLEAN
    /\ pool = "absent" /\ rdonly = FALSE
    /\ writer = NoThread /\ readers = {}
    /\ at = [t \in Threads |-> "idle"]
    /\ op = [t \in Threads |-> NoOp] /\ loc = [t \in Threads |-> NoLocals]
    /\ calls = 0 /\ ends = 0

-----------------------------------------------------------------------------
\* The medium.

\* What is not on the medium yet.
Dirty == {x \in Locations : cache[x] # media[x]}

\* The locations in set are durable.
Durable(set) == [x \in Locations |-> IF x \in set THEN cache[x] ELSE media[x]]

\* pmem_drain makes durable what was flushed, pmem_msync what lies in the range.
Persist(range) ==
    /\ media' = Durable(IF is_pmem THEN flushed ELSE range)
    /\ flushed' = {}

-----------------------------------------------------------------------------
\* The pool.

\* log_descr_create, the stores; the pool header is on the medium already.
Create ==
    /\ pool = "absent"
    /\ pool' = "creating"
    /\ cache' = [x \in Locations |-> CASE x = StartOffset -> Start
                                       [] x = EndOffset -> PoolSize
                                       [] x = WriteOffset -> Start
                                       [] OTHER -> cache[x]]
    /\ UNCHANGED <<media, flushed, is_pmem, rdonly, writer, readers, at, op, loc, calls, ends>>

\* Mutant: the descriptor is not persisted.
CreatedUnpersisted ==
    /\ pool = "creating" /\ pool' = "open"
    /\ UNCHANGED <<pmem, is_pmem, rdonly, writer, readers, at, op, loc, calls, ends>>

\* log_descr_create, util_persist; log_runtime_init then succeeds or fails, and
\* on failure the file is deleted.
Created ==
    /\ pool = "creating"
    /\ \/ pool' = "open" /\ media' = Durable(Words) /\ UNCHANGED cache
       \/ pool' = "absent" /\ media' = Blank /\ cache' = Blank
    /\ UNCHANGED <<flushed, is_pmem, rdonly, writer, readers, at, op, loc, calls, ends>>

\* log_descr_check.
DescrCheck(m) ==
    /\ m[StartOffset] = Start /\ m[EndOffset] = PoolSize
    /\ m[WriteOffset] \in m[StartOffset] .. m[EndOffset]

\* log_open_common.  A pool that is refused, or a failing log_runtime_init,
\* leaves everything as it is.
Open ==
    /\ pool = "closed" /\ DescrCheck(cache)
    /\ pool' = "open" /\ rdonly' \in BOOLEAN
    /\ UNCHANGED <<pmem, is_pmem, writer, readers, at, op, loc, calls, ends>>

\* pmemlog_close.
Close ==
    /\ pool = "open" /\ \A t \in Threads : at[t] = "idle"
    /\ pool' = "closed"
    /\ UNCHANGED <<pmem, is_pmem, rdonly, writer, readers, at, op, loc, calls, ends>>

\* The program or the machine fails.
Crash ==
    /\ pool \in {"creating", "open"}
    /\ ends < MaxEnds /\ ends' = ends + 1
    /\ \E kept \in SUBSET Dirty :
           media' = Durable(kept) /\ cache' = Durable(kept)
    /\ flushed' = {} /\ pool' = "closed"
    /\ writer' = NoThread /\ readers' = {}
    /\ at' = [t \in Threads |-> "idle"]
    /\ op' = [t \in Threads |-> NoOp] /\ loc' = [t \in Threads |-> NoLocals]
    /\ UNCHANGED <<is_pmem, rdonly, calls>>

-----------------------------------------------------------------------------
\* The calls.

Goto(t, step) == at' = [at EXCEPT ![t] = step]

Set(t, locals) == loc' = [loc EXCEPT ![t] = locals]

Call(t) ==
    /\ pool = "open" /\ at[t] = "idle"
    /\ calls < MaxCalls /\ calls' = calls + 1
    /\ \E c \in {Op("append", v.data, v.ends, FALSE, 0) : v \in Iovs}
             \cup {Op("append", <<>>, {}, TRUE, 0)}
             \cup {Op(k, <<>>, {}, FALSE, 0) : k \in {"rewind", "tell", "nbyte"}}
             \cup {Op("walk", <<>>, {}, FALSE, n) : n \in ChunkSizes} :
           op' = [op EXCEPT ![t] = c]
    /\ Goto(t, "lock")
    /\ UNCHANGED <<pmem, static, writer, readers, loc>>

Writes(t) == op[t].kind \in {"append", "rewind"}

\* The call ends without the lock: it must, for a negative count and a
\* read-only pool,
Refused(t) == Writes(t) /\ (op[t].negative \/ rdonly)

GiveUp(t) ==
    /\ at[t] = "lock"
    /\ Set(t, Locals({}, 0, 0, <<>>, FALSE))
    /\ Goto(t, "return")
    /\ UNCHANGED <<pmem, static, writer, readers, op, calls>>

Refuse(t) == Refused(t) /\ GiveUp(t)

\* and it may, for an error of the rwlock.
LockFails(t) == ~Refused(t) /\ GiveUp(t)

\* Mutant: a writer does not wait for readers.
LockIgnoresReaders(t) ==
    /\ at[t] = "lock" /\ ~Refused(t)
    /\ writer = NoThread
    /\ IF Writes(t)
       THEN writer' = t /\ UNCHANGED readers
       ELSE readers' = readers \cup {t} /\ UNCHANGED writer
    /\ Goto(t, op[t].kind)
    /\ UNCHANGED <<pmem, static, op, loc, calls>>

\* os_rwlock_wrlock and os_rwlock_rdlock.
Lock(t) ==
    /\ at[t] = "lock" /\ ~Refused(t)
    /\ writer = NoThread
    /\ IF Writes(t)
       THEN readers = {} /\ writer' = t /\ UNCHANGED readers
       ELSE readers' = readers \cup {t} /\ UNCHANGED writer
    /\ Goto(t, op[t].kind)
    /\ UNCHANGED <<pmem, static, op, loc, calls>>

\* util_rwlock_unlock.
Unlock(t) ==
    /\ at[t] = "unlock"
    /\ writer' = IF writer = t THEN NoThread ELSE writer
    /\ readers' = readers \ {t}
    /\ Goto(t, "return")
    /\ UNCHANGED <<pmem, static, op, loc, calls>>

Return(t) ==
    /\ at[t] = "return"
    /\ Goto(t, "idle")
    /\ op' = [op EXCEPT ![t] = NoOp] /\ Set(t, NoLocals)
    /\ UNCHANGED <<pmem, static, writer, readers, calls>>

\* pmemlog_append and pmemlog_appendv: is there room?  The count is a uint64_t.
Room(t) ==
    /\ cache[WriteOffset] < cache[EndOffset]
    /\ Len(op[t].data) % OffWrap <= cache[EndOffset] - cache[WriteOffset]

\* Mutant: a full log is reported without releasing the lock.
CheckKeepsLock(t) ==
    /\ at[t] = "append"
    /\ Set(t, Locals(op[t].bufs, cache[WriteOffset], cache[WriteOffset], <<>>, Room(t)))
    /\ Goto(t, IF Room(t) THEN "copy" ELSE "return")
    /\ UNCHANGED <<pmem, static, writer, readers, op, calls>>

Check(t) ==
    /\ at[t] = "append"
    /\ Set(t, Locals(op[t].bufs, cache[WriteOffset], cache[WriteOffset], <<>>, Room(t)))
    /\ Goto(t, IF Room(t) THEN "copy" ELSE "unlock")
    /\ UNCHANGED <<pmem, static, writer, readers, op, calls>>

\* pmem_memcpy_nodrain or memcpy of the next buffer.
Copy(t) ==
    /\ at[t] = "copy"
    /\ \E end \in loc[t].left :
         LET old == loc[t].old
             range == loc[t].pos .. old + end - 1
         IN  /\ \A e \in loc[t].left : end <= e
             /\ cache' = [x \in Locations |->
                            IF x \in range THEN op[t].data[x - old + 1] ELSE cache[x]]
             /\ flushed' = IF is_pmem THEN flushed \cup range ELSE flushed
             /\ Set(t, Locals(loc[t].left \ {end}, old, old + end, <<>>, TRUE))
    /\ UNCHANGED <<media, static, writer, readers, at, op, calls>>

\* Mutant: the offset is moved before the data is durable.
PersistDataLater(t) ==
    /\ at[t] = "copy" /\ loc[t].left = {}
    /\ Goto(t, "offset")
    /\ UNCHANGED <<pmem, static, writer, readers, op, loc, calls>>

\* log_persist: the data,
PersistData(t) ==
    /\ at[t] = "copy" /\ loc[t].left = {}
    /\ Persist(loc[t].old .. loc[t].pos - 1)
    /\ Goto(t, "offset")
    /\ UNCHANGED <<cache, static, writer, readers, op, loc, calls>>

\* the store of the write offset,
SetOffset(t) ==
    /\ at[t] = "offset"
    /\ cache' = [cache EXCEPT ![WriteOffset] = loc[t].pos]
    /\ Goto(t, "meta")
    /\ UNCHANGED <<media, flushed, static, writer, readers, op, loc, calls>>

\* pmemlog_rewind, the store.
Rewind(t) ==
    /\ at[t] = "rewind"
    /\ cache' = [cache EXCEPT ![WriteOffset] = cache[StartOffset]]
    /\ Goto(t, "meta")
    /\ UNCHANGED <<media, flushed, static, writer, readers, op, loc, calls>>

\* and pmem_persist or pmem_msync of the write offset.
PersistOffset(t) ==
    /\ at[t] = "meta"
    /\ media' = Durable({WriteOffset})
    /\ Goto(t, "unlock")
    /\ UNCHANGED <<cache, flushed, static, writer, readers, op, loc, calls>>

\* pmemlog_tell and pmemlog_nbyte.
Tell(t) ==
    /\ at[t] \in {"tell", "nbyte"}
    /\ LET end == IF at[t] = "tell" THEN cache[WriteOffset] ELSE cache[EndOffset]
       IN  Set(t, Locals({}, 0, end - cache[StartOffset], <<>>, TRUE))
    /\ Goto(t, "unlock")
    /\ UNCHANGED <<pmem, static, writer, readers, op, calls>>

\* pmemlog_walk.
Walk(t) ==
    /\ at[t] = "walk"
    /\ Set(t, Locals({}, cache[WriteOffset], cache[StartOffset], <<>>, TRUE))
    /\ Goto(t, "chunk")
    /\ UNCHANGED <<pmem, static, writer, readers, op, calls>>

\* What lies at pos.
Bytes(pos, len) == [i \in 1 .. len |-> cache[pos + i - 1]]

\* One call of process_chunk, which may end the walk.
Chunk(t) ==
    LET l == loc[t]
        size == op[t].chunk
        rest == l.old - l.pos
        len == IF size = 0 \/ rest < size THEN rest ELSE size
    IN  /\ at[t] = "chunk" /\ (l.pos < l.old \/ size = 0)
        /\ Set(t, Locals({}, l.old, (l.pos + size) % OffWrap, l.out \o Bytes(l.pos, len), TRUE))
        /\ \/ size # 0 /\ UNCHANGED at
           \/ Goto(t, "unlock")
        /\ UNCHANGED <<pmem, static, writer, readers, op, calls>>

Walked(t) ==
    /\ at[t] = "chunk" /\ op[t].chunk # 0 /\ loc[t].pos >= loc[t].old
    /\ Goto(t, "unlock")
    /\ UNCHANGED <<pmem, static, writer, readers, op, loc, calls>>

Step(t) == \/ Refuse(t) \/ Lock(t) \/ Unlock(t) \/ Return(t) \/ Check(t) \/ Copy(t)
           \/ PersistData(t) \/ SetOffset(t) \/ Rewind(t) \/ PersistOffset(t)
           \/ Tell(t) \/ Walk(t) \/ Chunk(t) \/ Walked(t)

LogNext ==
    \/ Create \/ Created \/ Open \/ Close \/ Crash
    \/ \E t \in Threads : Call(t) \/ LockFails(t) \/ Step(t)

\* A thread in a call keeps running.
Spec == Init /\ [][LogNext]_vars /\ \A t \in Threads : WF_vars(Step(t))

-----------------------------------------------------------------------------
\* What the pool m holds between the start and the write offset.
Contents(m) ==
    IF DescrCheck(m) THEN [i \in 1 .. m[WriteOffset] - Start |-> m[Start + i - 1]] ELSE <<>>

\* Types, and who may be where in a call.
TypeOK ==
    /\ cache \in [Locations -> Nat] /\ media \in [Locations -> Nat]
    /\ flushed \subseteq Area
    /\ pool \in {"absent", "creating", "closed", "open"}
    /\ \A t \in Threads : at[t] # "idle" => pool = "open"
    /\ \A t \in Threads :
         at[t] \in {"copy", "offset", "meta"} => writer = t /\ ~rdonly

\* At no moment can a failure leave an open pool, whose creation was completed,
\* in a state that the next open refuses (log_descr_check); a pool whose creation
\* was cut short (log_descr_create) is refused or opens as an empty log.  All state
\* keeps its type, and only the holder of the write lock is inside an append.
Openable ==
    /\ TypeOK
    /\ pool = "open" => \A kept \in SUBSET Dirty : DescrCheck(Durable(kept))
    /\ pool = "creating" => \A kept \in SUBSET Dirty :
          DescrCheck(Durable(kept)) => Durable(kept)[WriteOffset] = Start

\* A reader is given the log as it is, from the beginning and without gaps, and
\* all of it unless the callback ends the walk (pmemlog_walk, pmemlog_tell).
ReadersSeeLog ==
    \A t \in readers :
        /\ op[t].kind = "walk" =>
              /\ Len(loc[t].out) <= Len(Contents(media))
              /\ loc[t].out = SubSeq(Contents(media), 1, Len(loc[t].out))
        /\ op[t].kind = "walk" /\ at[t] = "chunk" /\ loc[t].pos >= loc[t].old
               => loc[t].out = Contents(media)
        /\ op[t].kind = "tell" /\ at[t] = "unlock" => loc[t].pos = Len(Contents(media))

\* Every call returns: no step of it repeats for ever and the lock is always
\* released (util_rwlock_unlock on every path, the loops of pmemlog_appendv
\* and pmemlog_walk).
CallsReturn == \A t \in Threads : at[t] # "idle" ~> at[t] = "idle"

\* What the caller knows of a call at this step.
StatusOf(step, ok) == CASE step = "idle" -> "none"
                        [] step \in {"unlock", "return"} -> IF ok THEN "done" ELSE "failed"
                        [] OTHER -> "pending"

\* Through crashes and interleavings the pool is a log to which an append adds
\* all of its data or none (pmemlog_append, pmemlog_rewind, log_persist).
Abstract == INSTANCE AtomicLog WITH
    Capacity <- PoolSize - Start,
    log <- Contents(media),
    status <- [t \in Threads |-> StatusOf(at[t], loc[t].ok)],
    calls <- op
ImplementsAtomicLog == Abstract!LSpec
=============================================================================
