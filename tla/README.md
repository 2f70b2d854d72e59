# A verification of the persistent-memory libraries of PMDK-IC

The repository holds PMDK 1.5 (libpmem, libpmemobj, libpmemblk, libpmemlog and
tools) with changes that allow a build without logging, the MOD immutable data
structures with their allocator nvm_malloc, and the programs that compare the
two.  This directory holds TLA+ models of the parts whose correctness depends on
interleavings, on crashes and on the order in which stores reach the media,
together with TLC configurations and TLAPS proofs.

What is modelled is the default build, in which `PMDK_NO_TX` is not defined, on
x86-64, without remote replicas.  Paths below are relative to
`src/pmdk-1.5/src/` unless they start with another directory.

## 1. The system

| Part | State | Operations | What is hard about it |
|---|---|---|---|
| Lanes, `libpmemobj/lane.c` | lock word per lane, counter for first primaries; per thread: lane index, nesting, primary, attempts | hold, release, detach, attach, recovery at open | compare-and-swap scan by many threads, hand-over, indices beyond the lane count |
| Operation contexts, `memops.c` | shadow log, merge queue, capacity, extensions | start, add, reserve, process, finish, cancel, resume | reordering by the merge queue, reallocation, capacity |
| Logs, `ulog.c` | header with checksum and link, entries | store, process, clobber, clobber data, recover | torn stores, order of flushes, crash in the recovery |
| Transactions, `tx.c` | stage, ranges, actions, undo log of the lane, locks | begin, add, alloc, free, commit, abort, end | crash between flush, publish and clear; nesting; failing steps |
| Ranges of a transaction, `tx.c`, `ravl.c` | ordered set of ranges with flags | add, alloc, free, flush at commit | overlap and adjacency at byte boundaries, merging of flags |
| Allocator, `palloc.c`, `pmalloc.c`, `heap.c`, `bucket.c`, `recycler.c`, `memblock.c` | chunks and run bitmaps, buckets, reservations | reserve, publish, cancel, free, boot | locks per run, volatile state that follows persistent state |
| Persistent locks, `sync.c` | lock with run id | lock, unlock, wait | first use after restart by several threads |
| Lists, `list.c` | doubly linked list | insert, remove, move | several words in one redo log |
| libpmemblk, `btt.c` | map, flog pairs, free blocks, read table | read, write, set zero or error, recovery | two flog halves, reads against writes |
| libpmemlog, `log.c` | write offset | append, rewind, walk | order of data and offset |
| libpmem, `pmem.c`, `x86_64/` | the flush instruction chosen | flush, drain, persist, copies | CLFLUSH is ordered, CLFLUSHOPT and CLWB are not |
| nvm_malloc, `src/nvm_malloc/src/` | chunks, blocks, runs, object table | reserve, activate, free, recovery | link pointers and states, slot buffer |
| MOD, `src/Immutable-Datastructure-c++/immer/` | versions, set of lines to flush | update, flush, publish | a line that is never flushed |

A thread takes a lane; the lane owns three logs.  The internal redo log serves
single allocations and links extensions to the other two.  The external redo log
publishes a collection of changes.  The undo log holds the snapshots of a
transaction.  Commit flushes the data, publishes the allocations and frees
together with the invalidation of the undo log's first entry through the external
redo log, and zeroes the undo log.  Opening a pool recovers the redo logs of all
lanes, boots the heap, then applies and clears the undo logs.

`PROJECT.json` lists every part with its status, and every hazard with the line
where it bites and the properties that would catch it.

## 2. Modules

| Module | Models | Lines |
|---|---|---|
| `Lane` | lane table and thread records | `lane.c` |
| `WordOps` | what a log entry does to a word | `ulog.c` |
| `AtomicUpdate` | abstract: several words updated in one step or not at all | |
| `Redo` | operation context and redo log, crashes, recovery | `memops.c`, `ulog.c`, `lane.c` |
| `AtomicTx` | abstract: a transaction that commits in one step or not at all | |
| `Tx` | outermost transaction over the undo log, crashes, recovery | `tx.c`, `ulog.c`, `memops.c`, `lane.c` |
| `TxRanges` | the tree of ranges of a transaction | `tx.c` |
| `TxStages` | stages of nested transactions of several threads, lane, locks, callback | `tx.c` |
| `Heap` | transient state of the heap, reservations and deferred frees, all locks, restarts | `palloc.c`, `heap.c`, `recycler.c`, `bucket.c`, `memblock.c` |
| `Sync` | locks and condition variables in the pool, run ids, restarts | `sync.c`, `obj.c` |
| `AtomicList` | abstract: lists that a successful call changes in one step, as asked | |
| `List` | atomic lists over mutexes, lanes and the redo log, failures, crashes | `list.c` |
| `BlockDevice` | abstract: an array of blocks, each written atomically | |
| `Btt` | block translation table: concurrent reads and writes, layout, crashes, recovery | `libpmemblk/btt.c`, `blk.c` |
| `BttDevice` | the refinement mapping from `Btt` to `BlockDevice` | |
| `AtomicLog` | abstract: an append-only log | |
| `PmemLog` | log pool: appends, rewinds, walks by several threads, crashes | `libpmemlog/log.c` |
| `MC*` | constants for TLC | |
| `*_proofs` | inductive invariant, lemmas and theorems of the module named | |

**Composition.**  `Redo` implements `AtomicUpdate`, checked by TLC and proved.
`Tx` uses that: its `TxPublish` is one atomic step and its `ext` appears in one
step, because both go through a redo log.  `Tx` implements `AtomicTx`.
`TxRanges` refines the part of `Tx` that says which bytes are snapshotted and
flushed; in `Tx` a snapshot is one cell.  `TxStages` puts the threads and levels
around it: it takes a lane as one of `NLanes` (what `Lane` shows), a lock as usable
(what `Sync` shows), and commit and undo as one step (what `Tx` shows).  `Heap`
publishes in one step and `List` applies its changes, with the allocation of a new
object, in one step: both go through a redo log.  `Btt` and `PmemLog` stand on
libpmem alone.

**Lane.**  An atomic step is one compare-and-swap (or the fetch-and-add of the
counter) with the thread-local assignments around it.  `lane_idx`, `nest_count`,
`primary` and `primary_attempts` are the fields of `struct lane_info`; `pc` says
whether the thread is inside the loop of `get_lane`.  `holds` bounds a behaviour.
Nothing in the repository calls `lane_detach` and `lane_attach`; they are modelled as
`lane.h` offers them.

**Persistency in Redo and Tx.**  Each line has the value the CPU sees and the set
of values the media may hold.  A store adds to the set, a drain after a flush
leaves the visible value, a crash picks a member of each set independently.
`FlushOrdered = TRUE` is a machine where the library uses cached copies and
CLFLUSH; `FALSE` is CLFLUSHOPT or CLWB, which only a drain orders.  In this
repository `libpmem/x86_64/init.c` selects CLFLUSHOPT, or CLWB where there is one,
unless `PMEM_NO_CLFLUSHOPT` and `PMEM_NO_CLWB` are set: the passing runs and the
theorems that need `FlushOrdered` speak of a process started with both.

**Redo.**  Sizes count 16-byte entries; a cache line holds `PerLine` of them.
`shadow`, `n`, `cap` are the shadow log, `ring`, `front`, `back` the merge queue,
`slot` and `hdr` the persistent log.  A checksum is the record of what it covers,
so two checksums are equal exactly when the data are.  `ulog_store` is the
actions `StoreExtension`, `ExtensionDrain`, `StoreBase`, `StoreDrain`;
`ulog_process` is one `ProcessEntry` per entry; `ulog_clobber` is `Clobber` and
its drain.  A crash may come between any two, also in the recovery.  Callers
reserve room before they add.  The new part of a reallocated shadow log holds
one arbitrary entry or zeroes.

**Tx.**  A cell is an object that may be allocated.  `undo` is the log, the first
`Base` entries in the lane and `Ext` in an extension.  An entry has its own
checksum, so a torn one is `Invalid`.  Abort restores with a drain for each
entry; the recovery of `lane.c` restores with flushes only and counts what is
logged in the lane alone.  Left out: buffers larger than what is left of a log are
split over two entries, logs past the first extension are freed, and a restored
entry that is torn inside one cell (the entry stays in the log and is applied
again).

**TxRanges.**  One iteration of the loop in `pmemobj_tx_add_common` is one action
(`AddWhole`, `ExtendFound`, `SkipFound` are its branches).  `logged` counts the
snapshots of each byte.  The tree is the set of ranges that `ravl_find` searches.
`tx_lane_ranges_insert_def` ends the process when an allocation's range is in the tree
already; `TreeSound` says that this is never met.

**TxStages.**  `tx[t]` is the thread's `struct tx`: stage, number of entries, error,
lane, list of locks.  `begin` and `lock` take their locks one by one and may wait
between them; `EndOuter` is followed by one `Release` per lock, since another
thread may run between two.  A cell stands for the data under a lock, `dirty`
for an uncommitted write in it.  The caller ends what it began, also a begin that
failed.

**Heap.**  A chunk is free, one huge object, or a run with a bitmap; these are
persistent.  The rest is where the chunk is in memory: default bucket, active run
of an arena, recycler, pending, in the hands of a thread.  The search of
`heap_ensure_run_bucket_filled` is the sequence of tries `Plan`; each is an action of
its own because it takes and releases locks.  The recycler takes the lock of a run
while it has its own: one run at a time when it looks through the pending runs
(`CheckPending`) and when it recalculates scores (`Rescore`), and a thread that waits
there keeps the recycler locked.  `ExecLock`, `OperationFinish`, `Process` and
`OnUnlock` are `palloc_exec_actions`: the locks of the runs are taken one by one in
the order of the sort, the last one in the step that finishes the operation.  A
restart forgets everything but chunks and bitmaps.

**Sync.**  `runid` is the word next to an object, `mem` the object: which run
initialised it and who holds it.  `Get` is `_get_value`: look, claim with a
compare-and-swap, initialise or fail, publish.  A crash keeps `mem`, as memory in
a pool is kept.

**List.**  A field is an offset and whether its uuid is that of the pool; the
first is written through the redo log, the second directly.  A call is a path
through lane, mutexes, construction of the log, finish and leave, and may fail
where the code does.  The links are followed when the log is built, under the
mutexes.  The construction is translated word by word from `list_insert_before`,
`list_insert_after`, `list_remove_single`, `list_update_head` and `list_move`.
`AtomicList` says what each call asked for; a call that succeeds makes that change
once, one that fails none.

**Btt.**  One arena.  A block is written in two steps, torn in between; a map entry
is visible in one step and durable in the next; a flog entry is written in two
halves, of which the second makes it count.  `rtt` is the read tracking table.
Recovery goes through the flog pairs one by one and may crash itself.  The map that
`write_layout` zeroes is taken to be durable when `nszero` returns, as it is on
persistent memory; elsewhere `nszero` (`blk.c:264`) leaves it in the page cache, where
`nswrite` would call `msync`, and such layouts are not modelled.  The error flag of
the arena is not modelled: failing I/O sets it, and a flog pair with equal sequence
numbers (`btt.c:418`), which `flog_update` and `write_layout` never leave.

**PmemLog.**  Each byte and each word of the descriptor has a value in the caches
and one on the medium.  On persistent memory an append copies, flushes and drains;
behind a page cache it copies and calls `msync`, and whatever was not yet made
durable may be on the medium or not, byte by byte.  `op[t]` are the arguments of a
thread's call and `loc[t]` its locals; what is appended is one sequence of bytes
together with the places where the buffers of the iovec end, and `left` are those
still to be copied.  A walk is one action per callback.  Offsets and the count of an
append are kept modulo 2^64; the buffers of a call are in one address space, so the
count does not wrap.  `msync` is taken to succeed: `log_persist` does not look at its
result (`log.c:440`, `456`), and a failing one would let the offset reach the medium
before the data.

## 3. Runs

| Run | Constants | Result |
|---|---|---|
| `lane` | 3 threads, 2 lanes, counter wraps at 5, 1 attempt | `LaneExclusive`, `WaiterServed` hold |
| `redo` | 2 words, 3 updates, lane of 2 slots, extension of 2, up to 3 entries, 1 torn store | `FinishedAsAsked`, `RecoveredAllOrNothing`, `ImplementsAtomicUpdate` hold |
| `tx` | 3 cells, 2 values, 2 entries in the lane, 1 in the extension | `CommitIsDurable`, `AbortRestores`, `CrashIsAtomic`, `IdleLogIsEmpty`, `ImplementsAtomicTx` hold |
| `tx_ranges` | 9 bytes, 2 objects with a gap | `SnapshottedOnce`, `TreeSound`, `FlushCovered`, `FreshFreeCancels`, `AddTerminates` hold |
| `tx_stages` | 2 threads, 1 lane, 2 locks, up to 3 levels, 1 failure of each kind | `LaneWhileOpen`, `Isolation`, `AbortReachesOutermost`, `CallbackInOrder`, `TransactionsEnd` hold |
| `heap` | 2 threads in 2 arenas, each collecting up to 2 actions, 2 chunks of 2 blocks, 2 run locks, restarts at any time | `HandedOnce`, `ChunkInOnePlace`, `ScoreIsLow`, `SomeoneMoves` hold |
| `sync` | 2 threads, a lock and a condition, 2 opens, ids of 3 bits that wrap, 1 failing initialiser | `UsedIsInitialised`, `Exclusion`, `HeldByTheLiving`, `GetReturns` hold |
| `list` | 2 threads, 3 lists of which two share an entry, 3 objects, crashes at any time | `RingsSound`, `OidsComplete`, `NobodyStuck`, `ImplementsAtomicList` hold |
| `btt` | 2 lanes, 2 block numbers on 4 blocks, 2 operations per lane, 1 crash | `ArenaConsistent`, `NoWriteUnderRead`, `ImplementsBlockDevice`, `CallsReturn` hold |
| `pmemlog` | 2 threads, 3 bytes of log, appends of 0, 1 and 3 bytes, 4 calls, 1 crash or close | `Openable`, `ReadersSeeLog`, `ImplementsAtomicLog`, `CallsReturn` hold |
| `tx_leftover` | one transaction on a log with leftover entries | `CrashIsAtomic` fails |
| `heap_unlock` | as `heap` | `FreedFromRun` fails |

The type invariant of a module is the first conjunct of one of its invariants; those
of all modules but `Heap` and `List`, and that lock words match the owners of lanes
(`LockWordsMatchOwners`), are proved (section 4).

**Why the bounds suffice.**  Two lanes and three threads make threads wait while a
third holds or hands over; the counter reaches values at and beyond the lane
count and wraps to a value that is not a multiple of it.  Three entries over a
lane of two slots make the log spill, the terminator fall into the extension,
the shadow log grow and updates merge, be refused and stay separate.  Two words
make half-applied visible.  Three cells over two entries make the undo log spill
and leave a cell untouched.  Six bytes in one object make every overlap of three
ranges, the second object is another right neighbour.

Three levels have a middle one, through which an abort passes both ways; one lane
for two threads makes one wait, and two locks let one be taken at an outer and
one at an inner level.  Two chunks of two blocks make a run full, partly used,
empty and turned back into a free chunk, and two arenas make a run pass from one
to the other through the recycler.  Two run locks and two actions for each thread let
two publishes have one lock each and want the other's, which only the sort of the
actions excludes, while the other thread may be in the recycler waiting for a run.
One thread of `heap` reserves small blocks and publishes, the other also frees,
reserves huge blocks and cancels (`MCDoes`).  Two opens and a wrap are what it takes for an id to come up that is zero
or belongs to a run before.  Three objects are the smallest ring in which a
neighbour on the left and on the right differ; the third list uses another entry,
so an object is on two lists at once.  One thread of `list` calls everything on the
first list, the other moves objects out of it (`MCMay`): this has both orders of
mutexes and changes the neighbours under a waiting call.  An instance nine times
as large, in which the second thread calls more, passes too.  In `btt` each lane
ends up owning a block the other has read or written, and each flog pair is used
more than once, in both halves; the zero and error flags are set on one block
number, which differs from the other in nothing.  In `pmemlog` an
append fits exactly, fits not at all, and is empty; a crash finds it at each step.

**What a failing run says.**  It states what a comment, an assertion or a manual page
says; `PROJECT.json` quotes it.

* `tx_leftover`: commit invalidates only the first undo entry in the step that
  publishes; entries that survive behind it after a crash are applied by the
  recovery of a later, shorter transaction (`tx.c:1088`).
* `heap_unlock`: the lock of a run is released after the first action of its group is
  processed (`palloc.c:533`); another thread may turn the empty run into a free
  chunk before the others are.

**Variants.**  Each of these configurations changes a constant or asks for another
property of a module above, and shows where a premise is needed.

| Configuration | Change | Shows |
|---|---|---|
| `MCRedoInternal` | lane of 4 slots, no extension | the internal redo log: `TypeOK` and `RecoveredAllOrNothing` hold |
| `MCRedoRelaxed` | `FlushOrdered = FALSE` | `RecoveredAllOrNothing` fails: nothing drains the applied data before the log is invalidated (`memops.c:434-437`, `ulog.c:714-715`).  It needs a crash in a window of one copy.  The undo recovery has the same gap (`lane.c:420-421`) |
| `MCRedoTorn` | 2 torn stores | `RecoveredAllOrNothing` fails: recovery does not clear a torn log, and a later torn store with an equal prefix can complete it |
| `MCRedoWindow` | merge queue of 2 | `FinishedAsAsked` fails: `VECQ_FOREACH_REVERSE` ignores the front of the queue; in the code this needs more than 64 entries in one operation |
| `MCTxExtension` | one entry in the lane, leftovers | `AbortRestores` fails: recovery leaves the entries of the extension, and a later abort applies them (`memops.c:514`) |
| `MCTxRangesNoFlush` | adds with and without flush | `FlushCovered` fails: a merged range has one flag (`tx.c:1214`) |
| `MCTxRangesTwice` | 4 bytes, 2 adjacent objects | `SnapshottedOnce` fails, for allocation classes without object headers.  `FreshFreeCancels` fails too: the range of a new object may be merged into its neighbour's and is then not found by offset |
| `MCTxStagesRelease` | as `tx_stages` | `ReleasesOwnLocks` fails: a lock that could not be taken is on the list and is released at the end (`tx.c:528`) |
| `MCHeapEarly` | huge objects of zones not scanned yet are freed | `HandedOnce` fails: the chunk is in the default bucket, is reserved again, and the scan of its zone enters it a second time (`heap.c:492`) |
| `MCBttStale` | 3 operations per lane, no crash | `WaitsOnlyForReaders` fails: a read that retries and then finds a zero or error entry leaves its announcement (`btt.c:1563`), and a write may wait for a read that is over.  `CallsReturn` excepts this |

Two more constants are premises.  With `NLanes = 1` in `MCList.cfg` `NobodyStuck`
fails: `list_insert_new_user` and `list_remove_free_user` wait for a lane while they
have the mutex, the other calls for the mutex while they have a lane.  With
`ChunkSizes = {15}` in `MCPmemLog.cfg` `ReadersSeeLog` fails: the position of a walk
grows by the chunk size and wraps (`log.c:720`).

**Other observations.**

* A log filled to its capacity has no room for the terminator's cache line, and
  `ulog_store` then reads an extension that does not exist (`ulog.c:325`);
  `StoreNoRoom` stops the process there.
* A thread that draws a primary lane beyond the last one never elects another
  (`lane.c:483` compares a reduced index with an unreduced one), which costs
  spreading over the lanes but neither exclusion nor progress.
* A failing `pmemobj_tx_lock` leaves the stage at WORK (`tx.c:789`), though
  `pmemobj_tx_begin(3)` says that it becomes ONABORT.  A begin that fails before it
  has made its entry (`tx.c:690-692`, `717-722`) leaves one end too many to the
  caller; `LaneWhileOpen` is stated for threads to which this did not happen.
* `pmemobj_publish` returns without giving its lane back when the log cannot be
  extended (`obj.c:3074-3077`).
* `write_layout` looks for zeroes at `info.mapoff` without the offset of the arena
  (`btt.c:1181-1182`), which matters from the second arena on.
* An append of no bytes to a full log fails with ENOSPC.

**Fairness.**  `Lane` assumes weak fairness of the loop of `get_lane`, of the
release and of the attach of each thread: the loop is plain code that the
scheduler runs on, every `lane_hold` of the library is followed by a
`lane_release` on each path of the modelled code, and a detached lane is
attached by the thread it is meant for (nothing in the repository detaches one).  Nothing is assumed about a thread
starting another hold; `MaxHolds` makes the number of holds finite, without which
a thread could be overtaken for ever, as in the code.  `TxRanges` assumes weak
fairness of the loop's steps, `Sync` of the steps of `_get_value`, `Btt` and
`PmemLog` of the steps inside a call (and of an open in progress): these are plain
code as well.  `TxStages` assumes that a thread inside a transaction goes on and
ends it.  Calls start freely and are never assumed to.  Their number is bounded,
and the liveness properties of `Btt`, `PmemLog` and `TxStages` rest on that where a
mutex or a retry is involved: the code has no queue, and a thread that is
overtaken for ever never gets through.

Deadlock is checked except in `Lane`, `TxStages`, `Sync`, `Btt` and `PmemLog`, whose
threads may all have used up their calls; there the liveness properties say that
no call is left hanging.  In `Heap` and `List` calls never run out, and
`SomeoneMoves` and `NobodyStuck` say more: a thread inside a call can go on.

## 4. Proofs

The theorems hold for every value of the constants that the named `ASSUME`
allows; where a failing run or variant shows that more is needed, this is a premise.

**Lane_proofs.**  `LaneInvariant`, `LanesAreExclusive`: any threads and lanes.
The inductive invariant adds to the type invariant and the two properties that
the index of an owner lies below the lane count (`IndexInRange`), since the scan
lets it run past the end.

**Redo_proofs.**  Premises: `FlushOrdered`, at most one torn store, no more
entries than the merge queue holds; without any one of them a variant above fails.
The central idea is `ToCome(shadow, n, mem, post, k)`: applying entries `k..n` to
what a word holds now gives what was asked for, bit by bit: the last entry that
decides a bit decides its value.  It makes repeated and interrupted processing
harmless and needs no induction over the log.  `RInv` adds which log is valid
in which phase (`QuietInv`, `StoreInv`), that what is not being copied is durable
(`DurableInv`) and that the checksum in the header belongs to the link there
(`HeaderInv`, which excludes an old header after an extension is linked).
`FinishIsExact`, `RecoveryIsAtomic` and `RedoTypes` follow, and `RedoRefines`
shows that each step is a step of `AtomicUpdate` or a stutter: the update
commits with the drain of the single entry or when a complete log is durable.

**Tx_proofs.**  Premises: `FlushOrdered`, and no transaction begins on a log with
leftover entries; types need neither.  `Undoable(m, k)` says that each
allocated cell either still has its old contents, on the media too, or has an
entry among those from `k` to `m`; `Faithful` that an entry, on the media too,
holds the old contents of its cell.  With `Member` (the visible values are among
the possible ones) and one predicate per phase these make `TInv`, from which
`CommitsAreDurable`, `AbortsRestore`, `CrashesAreAtomic`, `IdleLogsAreEmpty` and
the refinement `TxRefines` follow.

**TxRanges_proofs.**  Premise: `Spaced`, two objects never touch, which object headers
give; `MCTxRangesTwice` shows that it is needed.  The inductive invariant relates
the tree, the undo log and the history in the middle of the loop too: the ranges are
disjoint parts of objects and an object allocated in the transaction is exactly one
range (`TreeInv`), a byte has one snapshot exactly if a range covers it and it is not
of a new object (`LoggedInv`), what was asked for is covered but for what is left of
the request (`CoverInv`), and the right neighbour starts where that ends (`AddInv`).
Two facts carry the loop: no range has a byte between the range found and the end of
the request (`NothingBetween`, `NothingReaches`; that the search finds one at all is
`SearchFinds`, from the well-foundedness of the natural numbers), and whatever touches
the request is of the same object (`SameObject`), so a new object's range never grows.
`AddWhole` and `ExtendFound` replace some ranges by one over them and over a gap, and
share the lemma `Grow`.  `RangesNeverOverlap`, with it that no allocation meets the
fatal error of an equal range, `AddedSnapshottedOnce` and `FreshNeverFreed` follow.  `CommitFlushesAll` has the further premise that a program
asks for no flush always or never; `MCTxRangesNoFlush` shows that it is needed.

**TxStages_proofs.**  Any threads, locks, lanes and depth.  `Nested` says how stage,
number of entries, error and lane of a `struct tx` fit the ends its caller owes, which
is one too many after a begin that made no entry; `Heard` what its callback has been
called with; `WritersOpen` and `ListsOwned` tie uncommitted writes to open
transactions and lists of locks to their owners.  `WritesIsolated`,
`AbortNeverCommitted` and `CallbackCalledInOrder` follow, and with a count of the
holders `LaneHeldWhileOpen`.

**Sync_proofs.**  Any threads, locks and conditions, and as many opens as the id word
can count without coming back to an id (`IdsInv`).  An initialiser has the word at
`run_id - 1` for itself (`WordOf`, `OneInitialiser`), a ready object was initialised in
this run (`ReadyIsInitialised`), and the memory of a ready lock names exactly the
threads that were granted it (`MemoryNamesHolders`), whatever a crash left there.
`ReadyObjectsOnly`, `LocksExclude` and `LocksOfTheLiving` follow.

**Btt_proofs.**  Any lanes, blocks, operations and crashes.  `Owned` is the heart:
map entries show distinct blocks, lanes own distinct blocks, and a block found in
both places belongs to an exchange that the flog records and the map has not seen.
It is stated of a map and of the current flog entries, so that it speaks of the media
at a crash, of every step of the recovery, and of the running arena alike.  The rest
of `BttInv` says what each lane knows at each step: its copy of the map entry while it
has the map lock, which half of its flog pair is current, and which blocks a writer
that has passed a reader in the read tracking table cannot have.
`ArenaStaysConsistent` and `WritersAvoidReaders` follow.

**PmemLog_proofs.**  Any threads, buffers and pool size.  `LogInv` says who has the
lock and which step of a call needs it (`LockInv`), that caches and medium agree
unless an append or a rewind is between two steps (`PoolInv`), and for the one that
is, where they differ (`AppendAt`): while it copies only behind the write offset, and
all of that is flushed or in the range to be synced; after it has moved the offset
only in the offset.  Hence a crash, which keeps any part of what is not durable,
leaves a descriptor that the next open accepts, and one in the middle of the creation a
descriptor that is refused or that of an empty log (`AlwaysOpenable`), and the contents
between start and write offset change only when a crash or `PersistOffset` makes the
new offset durable.  That step is the append or the rewind of `AtomicLog`; every
other step is a call, a return, a failure or a stutter (`LogRefinement`).
`ReadersGivenLog` needs in addition what a walk has delivered so far (`WalkInv`) and
has the premise `ShortWalks`: the end of the pool and one chunk more do not exceed
the width of an offset.  `ChunkSizes = {15}` shows that it is needed.

**Only model-checked:** the liveness properties (fairness is beyond the prover's
reach), everything about `Heap` and `List`, the refinement of `Btt`, and the failing
runs and variants.  `List` follows links with a
recursive operator and `Heap` uses ENABLED, which the prover does not handle.

## 5. Not modelled

* Of the modelled parts: transient log entries and more than one extension;
  buffers split over two undo entries; several small allocation classes, objects
  of several units, reallocation and a growing pool; several arenas of a block pool
  and failing I/O of its namespace (`blk.c` fails only on offsets outside the data
  area); the error paths of booting lanes; failures of `Malloc`
  outside transactions and lists.
* nvm_malloc.  Its crash protocol is not there to be modelled: `clflush` and
  `clflushopt` in `util.c` flush the line of the pointer variable and not of its
  target, the fences are commented out, frees are not logged, and the recovery does
  not restore the counts of free slots.  A model would show what these lines show.
* The MOD structures: purely functional templates of the immer library; their own
  part is the list of lines to flush, without concurrent state
  (`nvm_utils.hpp:41` sets its flag once per call and not once per line).
* The hash table and the balanced tree under `Lane` and `TxRanges`: volatile and
  sequential, used as a map and as an ordered set.
* Pool management and the API layer: file handling and dispatch.
* Remote replication: needs a model of RDMA ordering of its own.
* Pool-set files, check and repair: offline I/O over headers.
* libvmem and libvmmalloc: nothing survives a crash.
* The C++ headers: wrappers of the modelled calls.
* Benchmarks, applications and vendored code.
