-------------------------------- MODULE Btt --------------------------------
(***************************************************************************)
(* The block translation table under libpmemblk (libpmemblk/btt.c), for    *)
(* one arena, with the lanes and the namespace callbacks of blk.c.         *)
(*                                                                         *)
(* A map sends block numbers (pre-map LBAs) to blocks of the data area.    *)
(* Each lane owns one free block.  A write fills the free block, logs the  *)
(* exchange of the two blocks in the lane's flog pair, updates the map,    *)
(* and owns the replaced block from then on.  A reader announces the block *)
(* it reads in the read tracking table, so that a writer that has come to  *)
(* own the block waits.  There is no lock between readers and writers.     *)
(*                                                                         *)
(* nswrite returns when the data is durable.  A data block is written in   *)
(* two steps with the block torn in between; a map entry becomes visible   *)
(* in one step and durable in the next; the 8-byte writes of flog_update   *)
(* are atomic.  Writing the layout zeroes the map with nszero, which is    *)
(* durable when it returns on persistent memory only (pmem_memset_persist  *)
(* without msync): layouts are of such pools.                              *)
(*                                                                         *)
(* Left out is the error flag of the arena, with the guards of btt_write   *)
(* and map_entry_setf that refuse an arena that has it.  Failing calls of  *)
(* nsread and nswrite set it, and those of blk.c fail only on an offset    *)
(* outside the data area; so does a flog pair with equal sequence numbers, *)
(* which no crash leaves: flog_update writes the successor of the current  *)
(* number, and the first pair has 1 and 0.                                 *)
(***************************************************************************)
EXTENDS Naturals, FiniteSets

CONSTANTS
    NLane,          \* bttp->nlane = nfree: lanes, flog pairs, map locks
    NLba,           \* external_nlba
    LbasPerLock,    \* BTT_MAP_LOCK_ALIGN / BTT_MAP_ENTRY_SIZE, 16
    NsIsZeroed,     \* ns_is_zeroed: the namespace was created zeroed
    Zero, Error,    \* a block of zeros; a read that fails with EIO
    Junk,           \* unwritten or torn contents
    Kinds,          \* the operations used on each lane, and on which blocks
    MaxOps,         \* bound: operations on a lane
    MaxCrashes      \* bound: crashes of an open pool in a behaviour

ASSUME BttAssumption ==
    /\ NLane \in Nat \ {0} /\ NLba \in Nat /\ LbasPerLock \in Nat \ {0}
    /\ NLane <= NLba        \* btt_info_set_params
    /\ NsIsZeroed \in BOOLEAN
    /\ Kinds \in [0 .. NLane - 1 ->
                   SUBSET ({"read", "write", "zero", "error"} \X (0 .. NLba - 1))]
    /\ MaxOps \in Nat /\ MaxCrashes \in Nat

Lanes == 0 .. NLane - 1
Lba == 0 .. NLba - 1
Blocks == 0 .. NLba + NLane - 1

\* Contents callers write: every write writes contents of its own, which
\* tells apart whatever two writes could get mixed up.
Values == 1 .. NLane * MaxOps

VARIABLES
    \* the namespace
    data,           \* the data area: contents of each block
    map,            \* map entries
    flog,           \* per lane, the pair of btt_flog
    info,           \* the info block at the start of the arena is valid
    \* run-time state
    phase,          \* "down", "recover" inside read_flogs, "up"
    rlane,          \* the flog pair read_flogs comes to next
    laidout,        \* bttp->laidout
    layout_lock,    \* layout_write_mutex: its holder, or NoLane
    rt,             \* flog_runtime: next, and the fields used of flog
    rtt,            \* read tracking table; None is BTT_MAP_ENTRY_ERROR
    map_locks,      \* holder of each map lock, or NoLane
    pc, loc,        \* per lane: position and locals of the operation
    out,            \* per lane: what the last read returned
    ops, crashes    \* bound counters

media == <<data, map, flog, info>>
run == <<phase, rlane, laidout, layout_lock, rt, rtt, map_locks>>
vars == <<media, run, pc, loc, out, ops, crashes>>

NoLane == NLane
None == [blk |-> 0, st |-> "error"]

-----------------------------------------------------------------------------
(* Map entries: a block with the flag bits of BTT_MAP_ENTRY_*.             *)

Entry(b, s) == [blk |-> b, st |-> s]
Initial == Entry(0, "initial")

\* A map entry that has never been written stands for the identity.
Norm(l, e) == IF e.st = "initial" THEN Entry(l, "normal") ELSE e

ZeroOrInitial(e) == e.st \in {"zero", "initial"}

\* get_map_lock_num
MapLock(l) == (l \div LbasPerLock) % NLane

-----------------------------------------------------------------------------
(* The flog.                                                               *)

Flog(l, o, n, s) == [lba |-> l, old |-> o, new |-> n, seq |-> s]
Zflog == Flog(0, Initial, Initial, 0)

\* NSEQ
Nseq(s) == CASE s = 1 -> 2 [] s = 2 -> 3 [] s = 3 -> 1 [] OTHER -> 0

\* btt_flog_get_valid: the slot to write next; the other one is current.
\* The numbers of a pair that was laid out differ.
NextSlot(pair) ==
    IF pair[0].seq = 0 THEN 0
    ELSE IF pair[1].seq = 0 THEN 1
    ELSE IF Nseq(pair[0].seq) = pair[1].seq THEN 0 ELSE 1

Current(pair) == pair[1 - NextSlot(pair)]

\* The entries write_layout gives lane n: a free block, nothing to complete.
FirstFlog(n) ==
    LET free == Entry(NLba + n, "zero")
    IN [i \in 0 .. 1 |-> IF i = 0 THEN Flog(n, free, free, 1) ELSE Zflog]

-----------------------------------------------------------------------------
Operation(k, l, v) ==
    [kind |-> k, lba |-> l, val |-> v, scan |-> 0,
     entry |-> Initial, new |-> Initial]

NoOp == Operation("idle", 0, Zero)

\* The kinds of operation that need the layout to be there.
NeedsLayout(k) == k \in {"write", "error"}

Init ==
    /\ data = [b \in Blocks |-> Junk]
    /\ map = [l \in Lba |-> IF NsIsZeroed THEN Initial ELSE Entry(0, "normal")]
    /\ flog = [n \in Lanes |-> [i \in 0 .. 1 |-> Zflog]]
    /\ info = FALSE
    /\ phase = "up" /\ rlane = 0 /\ laidout = FALSE
    /\ layout_lock = NoLane
    /\ rt = [n \in Lanes |-> [next |-> 0, old |-> Initial, seq |-> 0]]
    /\ rtt = [n \in Lanes |-> None]
    /\ map_locks = [k \in Lanes |-> NoLane]
    /\ pc = [n \in Lanes |-> "idle"]
    /\ loc = [n \in Lanes |-> NoOp]
    /\ out = [n \in Lanes |-> Zero]
    /\ ops = [n \in Lanes |-> 0] /\ crashes = 0

Goto(n, p) == pc' = [pc EXCEPT ![n] = p]
At(n, p) == phase = "up" /\ pc[n] = p

\* A call that enters a free lane (lane_enter).
Call(n, k, l, v) ==
    /\ At(n, "idle") /\ ops[n] < MaxOps
    /\ ops' = [ops EXCEPT ![n] = @ + 1]
    /\ loc' = [loc EXCEPT ![n] = Operation(k, l, v)]
    /\ Goto(n, "begin")
    /\ UNCHANGED <<media, run, out, crashes>>

\* The call returns and leaves its lane (lane_exit).
Leave(n) == /\ loc' = [loc EXCEPT ![n] = NoOp]
            /\ Goto(n, "idle")
            /\ UNCHANGED <<ops, crashes>>

\* btt_read without a layout returns zeros, btt_set_zero has nothing to do.
WithoutLayout(n) ==
    /\ At(n, "begin") /\ ~laidout /\ ~NeedsLayout(loc[n].kind)
    /\ loc' = [loc EXCEPT ![n].val = Zero]
    /\ Goto(n, "return")
    /\ UNCHANGED <<media, run, out, ops, crashes>>

(* The return of a read, with the contents it found.                       *)
Return(n) ==
    /\ At(n, "return")
    /\ out' = IF loc[n].kind = "read" THEN [out EXCEPT ![n] = loc[n].val] ELSE out
    /\ Leave(n)
    /\ UNCHANGED <<media, run>>

-----------------------------------------------------------------------------
(* write_layout, under layout_write_mutex, by the first operation that     *)
(* needs it; it looks at laidout again inside the lock.  The map and the   *)
(* flogs come first, the info block makes them valid, and read_arenas      *)
(* loads them.  Until the info block is there nothing else reads the rest. *)

\* The first look at laidout, without the lock.
LayoutMissing(n) ==
    /\ At(n, "begin") /\ ~laidout /\ NeedsLayout(loc[n].kind)
    /\ Goto(n, "wait")
    /\ UNCHANGED <<media, run, loc, out, ops, crashes>>

LayoutLock(n) ==
    /\ At(n, "wait") /\ layout_lock = NoLane
    /\ layout_lock' = n
    /\ Goto(n, "layout")
    /\ UNCHANGED <<media, phase, rlane, laidout, rt, rtt, map_locks, loc, out,
                   ops, crashes>>

LayoutBody(n) ==
    /\ At(n, "layout") /\ ~laidout
    /\ map' = IF NsIsZeroed THEN map ELSE [l \in Lba |-> Initial]
    /\ flog' = [m \in Lanes |-> FirstFlog(m)]
    /\ Goto(n, "info")
    /\ UNCHANGED <<data, info, run, loc, out, ops, crashes>>

LayoutInfo(n) ==
    /\ At(n, "info")
    /\ info' = TRUE
    /\ Goto(n, "arenas")
    /\ UNCHANGED <<data, map, flog, run, loc, out, ops, crashes>>

\* The run-time state of a flog pair.
Runtime(pair) == [next |-> NextSlot(pair), old |-> Current(pair).old,
                  seq |-> Current(pair).seq]

\* read_arenas on the layout just written: no flog needs completing.
LayoutDone(n) ==
    /\ At(n, "arenas")
    /\ rt' = [m \in Lanes |-> Runtime(flog[m])]
    /\ rtt' = [m \in Lanes |-> None]
    /\ map_locks' = [k \in Lanes |-> NoLane]
    /\ laidout' = TRUE
    /\ layout_lock' = NoLane
    /\ Goto(n, "begin")
    /\ UNCHANGED <<media, phase, rlane, loc, out, ops, crashes>>

\* Somebody else wrote the layout while this lane waited for the mutex.
LayoutThere(n) ==
    /\ At(n, "layout") /\ laidout
    /\ layout_lock' = NoLane
    /\ Goto(n, "begin")
    /\ UNCHANGED <<media, phase, rlane, laidout, rt, rtt, map_locks, loc, out,
                   ops, crashes>>

-----------------------------------------------------------------------------
(* btt_read.                                                               *)

\* The first look at the map.
ReadEntry(n) ==
    /\ At(n, "begin") /\ laidout /\ loc[n].kind = "read"
    /\ loc' = [loc EXCEPT ![n].entry = map[loc[n].lba]]
    /\ Goto(n, "check")
    /\ UNCHANGED <<media, run, out, ops, crashes>>

\* An entry with the error or zero flag, or never written, ends the read
\* at once.  The table is not touched: after a retry it keeps the block of
\* the round before.
ReadFlagged(n) ==
    /\ At(n, "check") /\ loc[n].entry.st # "normal"
    /\ loc' = [loc EXCEPT ![n].val =
                  IF loc[n].entry.st = "error" THEN Error ELSE Zero]
    /\ Goto(n, "return")
    /\ UNCHANGED <<media, run, out, ops, crashes>>

\* The block is announced, ...
ReadTrack(n) ==
    /\ At(n, "check") /\ loc[n].entry.st = "normal"
    /\ rtt' = [rtt EXCEPT ![n] = loc[n].entry]
    /\ Goto(n, "again")
    /\ UNCHANGED <<media, phase, rlane, laidout, layout_lock, rt, map_locks, loc,
                   out, ops, crashes>>

\* Mutant of btt_read: a retry keeps the entry of the round before.
ReadAgainOldEntry(n) ==
    /\ At(n, "again")
    /\ Goto(n, IF map[loc[n].lba] = loc[n].entry THEN "block" ELSE "check")
    /\ UNCHANGED <<media, run, loc, out, ops, crashes>>

\* ... and the map is looked at again; a change starts another round.
ReadAgain(n) ==
    LET latest == map[loc[n].lba]
    IN /\ At(n, "again")
       /\ loc' = [loc EXCEPT ![n].entry = latest]
       /\ Goto(n, IF latest = loc[n].entry THEN "block" ELSE "check")
       /\ UNCHANGED <<media, run, out, ops, crashes>>

\* The block is read while the table protects it.
ReadBlock(n) ==
    /\ At(n, "block")
    /\ loc' = [loc EXCEPT ![n].val = data[loc[n].entry.blk]]
    /\ Goto(n, "clear")
    /\ UNCHANGED <<media, run, out, ops, crashes>>

\* Done with the block: the entry is cleared and the read returns.
ReadClear(n) ==
    /\ At(n, "clear")
    /\ rtt' = [rtt EXCEPT ![n] = None]
    /\ out' = [out EXCEPT ![n] = loc[n].val]
    /\ Leave(n)
    /\ UNCHANGED <<media, phase, rlane, laidout, layout_lock, rt, map_locks>>

-----------------------------------------------------------------------------
(* btt_write.                                                              *)

\* free_entry: the block the lane owns, as a map entry; the arena has no
\* error flag.
WriteBegin(n) ==
    /\ At(n, "begin") /\ laidout /\ loc[n].kind = "write"
    /\ loc' = [loc EXCEPT ![n].new = Entry(rt[n].old.blk, "normal")]
    /\ Goto(n, "scan")
    /\ UNCHANGED <<media, run, out, ops, crashes>>

\* The loop over the read tracking table, one lane at a time; it spins
\* while that lane tracks the free block.
WriteScan(n) ==
    /\ At(n, "scan") /\ loc[n].scan < NLane
    /\ rtt[loc[n].scan] # loc[n].new
    /\ loc' = [loc EXCEPT ![n].scan = @ + 1]
    /\ UNCHANGED <<media, run, pc, out, ops, crashes>>

\* Mutant of btt_write: the write does not wait for the table.
WriteFillNoWait(n) ==
    /\ At(n, "scan")
    /\ data' = [data EXCEPT ![loc[n].new.blk] = Junk]
    /\ Goto(n, "fill")
    /\ UNCHANGED <<map, flog, info, run, loc, out, ops, crashes>>

\* nswrite of the data: torn while it lasts.
WriteFill(n) ==
    /\ At(n, "scan") /\ loc[n].scan = NLane
    /\ data' = [data EXCEPT ![loc[n].new.blk] = Junk]
    /\ Goto(n, "fill")
    /\ UNCHANGED <<map, flog, info, run, loc, out, ops, crashes>>

WriteFilled(n) ==
    /\ At(n, "fill")
    /\ data' = [data EXCEPT ![loc[n].new.blk] = loc[n].val]
    /\ Goto(n, "lock")
    /\ UNCHANGED <<map, flog, info, run, loc, out, ops, crashes>>

\* map_lock: takes the lock and reads the entry.  An entry never written
\* is converted where it is used (Norm).
LockMap(n) ==
    /\ At(n, "lock") /\ map_locks[MapLock(loc[n].lba)] = NoLane
    /\ map_locks' = [map_locks EXCEPT ![MapLock(loc[n].lba)] = n]
    /\ loc' = [loc EXCEPT ![n].entry = map[loc[n].lba]]
    /\ Goto(n, IF loc[n].kind = "write" THEN "flog" ELSE "set")
    /\ UNCHANGED <<media, phase, rlane, laidout, layout_lock, rt, rtt, out, ops, crashes>>

\* Mutant of flog_update: the slot in use is overwritten.
FlogFirstInPlace(n) ==
    LET slot == 1 - rt[n].next
        was == flog[n][slot]
    IN /\ At(n, "flog")
       /\ flog' = [flog EXCEPT ![n][slot] = Flog(loc[n].lba, Norm(loc[n].lba, loc[n].entry),
                                                 was.new, was.seq)]
       /\ Goto(n, "seq")
       /\ UNCHANGED <<data, map, info, run, loc, out, ops, crashes>>

\* flog_update, first write: lba and old_map of the slot not in use.
FlogFirst(n) ==
    LET slot == rt[n].next
        was == flog[n][slot]
    IN /\ At(n, "flog")
       /\ flog' = [flog EXCEPT ![n][slot] = Flog(loc[n].lba, Norm(loc[n].lba, loc[n].entry),
                                                 was.new, was.seq)]
       /\ Goto(n, "seq")
       /\ UNCHANGED <<data, map, info, run, loc, out, ops, crashes>>

\* flog_update, second write: new_map and the sequence number that makes
\* the slot current, then the run-time state: the lane owns the old block.
FlogSecond(n) ==
    LET slot == rt[n].next
        was == flog[n][slot]
    IN /\ At(n, "seq")
       /\ flog' = [flog EXCEPT ![n][slot] = Flog(was.lba, was.old, loc[n].new,
                                                 Nseq(rt[n].seq))]
       /\ rt' = [rt EXCEPT ![n] = [next |-> 1 - slot,
                                    old |-> Norm(loc[n].lba, loc[n].entry),
                                    seq |-> Nseq(rt[n].seq)]]
       /\ Goto(n, "map")
       /\ UNCHANGED <<data, map, info, phase, rlane, laidout, layout_lock, rtt,
                      map_locks, loc, out, ops, crashes>>

\* map_unlock: the new entry becomes visible, ...
StoreMap(n) ==
    /\ At(n, "map")
    /\ map' = [map EXCEPT ![loc[n].lba] = loc[n].new]
    /\ Goto(n, "unlock")
    /\ UNCHANGED <<data, flog, info, run, loc, out, ops, crashes>>

\* ... then durable, the lock is dropped and the call returns.
UnlockMap(n) ==
    /\ At(n, "unlock")
    /\ map_locks' = [map_locks EXCEPT ![MapLock(loc[n].lba)] = NoLane]
    /\ Leave(n)
    /\ UNCHANGED <<media, phase, rlane, laidout, layout_lock, rt, rtt, out>>

-----------------------------------------------------------------------------
(* map_entry_setf: btt_set_zero and btt_set_error.                         *)

SetBegin(n) ==
    /\ At(n, "begin") /\ laidout /\ loc[n].kind \in {"zero", "error"}
    /\ Goto(n, "lock")
    /\ UNCHANGED <<media, run, loc, out, ops, crashes>>

\* A block that is zero already: map_abort.  The entry was converted by
\* map_lock, so one never written does not count as zero here.
AlreadyZero(n) == /\ loc[n].kind = "zero"
                  /\ ZeroOrInitial(Norm(loc[n].lba, loc[n].entry))

SetAbort(n) ==
    /\ At(n, "set") /\ AlreadyZero(n)
    /\ map_locks' = [map_locks EXCEPT ![MapLock(loc[n].lba)] = NoLane]
    /\ Leave(n)
    /\ UNCHANGED <<media, phase, rlane, laidout, layout_lock, rt, rtt, out>>

\* The flag is set on the entry, which keeps its block; the end is that
\* of map_unlock above.
SetFlag(n) ==
    LET old == Norm(loc[n].lba, loc[n].entry)
    IN /\ At(n, "set") /\ ~AlreadyZero(n)
       /\ map' = [map EXCEPT ![loc[n].lba] = Entry(old.blk, loc[n].kind)]
       /\ Goto(n, "unlock")
       /\ UNCHANGED <<data, flog, info, run, loc, out, ops, crashes>>

-----------------------------------------------------------------------------
(* Power failure: what was visible and not yet durable may be lost, and    *)
(* the run-time state is.                                                  *)
Crash ==
    /\ \/ phase = "up" /\ crashes < MaxCrashes /\ crashes' = crashes + 1
       \/ phase = "recover" /\ UNCHANGED crashes
    /\ \E lost \in SUBSET {n \in Lanes : pc[n] = "unlock"} :
          map' = [l \in Lba |->
                    IF \E n \in lost : loc[n].lba = l
                      THEN loc[CHOOSE n \in lost : loc[n].lba = l].entry
                      ELSE map[l]]
    /\ phase' = "down"
    /\ rlane' = 0 /\ laidout' = FALSE /\ layout_lock' = NoLane
    /\ rt' = [n \in Lanes |-> [next |-> 0, old |-> Initial, seq |-> 0]]
    /\ rtt' = [n \in Lanes |-> None]
    /\ map_locks' = [k \in Lanes |-> NoLane]
    /\ pc' = [n \in Lanes |-> "idle"]
    /\ loc' = [n \in Lanes |-> NoOp]
    /\ out' = [n \in Lanes |-> Zero]
    /\ UNCHANGED <<data, flog, info, ops>>

\* read_layout: without a valid info block the namespace has no layout.
OpenFresh ==
    /\ phase = "down" /\ ~info
    /\ phase' = "up"
    /\ UNCHANGED <<media, rlane, laidout, layout_lock, rt, rtt, map_locks, pc, loc,
                   out, ops, crashes>>

OpenLaidOut ==
    /\ phase = "down" /\ info
    /\ phase' = "recover"
    /\ UNCHANGED <<media, rlane, laidout, layout_lock, rt, rtt, map_locks, pc, loc,
                   out, ops, crashes>>

\* The exchange logged in f has not reached the map.
Incomplete(f) == /\ f.old # f.new
                 /\ Norm(f.lba, map[f.lba]) = f.old

\* Mutant of read_flog_pair: an incomplete exchange is left alone.
RecoverFlogNoReplay ==
    /\ phase = "recover" /\ rlane < NLane
    /\ rt' = [rt EXCEPT ![rlane] = Runtime(flog[rlane])]
    /\ rlane' = rlane + 1
    /\ UNCHANGED <<media, phase, laidout, layout_lock, rtt, map_locks, pc,
                   loc, out, ops, crashes>>

\* read_flog_pair for the next lane: loads the current entry and completes
\* the exchange if the map still shows the old block.
RecoverFlog ==
    LET f == Current(flog[rlane])
    IN /\ phase = "recover" /\ rlane < NLane
       /\ rt' = [rt EXCEPT ![rlane] = Runtime(flog[rlane])]
       /\ map' = IF Incomplete(f) THEN [map EXCEPT ![f.lba] = f.new] ELSE map
       /\ rlane' = rlane + 1
       /\ UNCHANGED <<data, flog, info, phase, laidout, layout_lock, rtt, map_locks,
                      pc, loc, out, ops, crashes>>

OpenDone ==
    /\ phase = "recover" /\ rlane = NLane
    /\ phase' = "up" /\ laidout' = TRUE
    /\ UNCHANGED <<media, rlane, layout_lock, rt, rtt, map_locks, pc, loc, out, ops, crashes>>

-----------------------------------------------------------------------------
Steps(n) ==
    \/ WithoutLayout(n) \/ Return(n)
    \/ LayoutMissing(n) \/ LayoutLock(n) \/ LayoutBody(n) \/ LayoutInfo(n) \/ LayoutDone(n)
    \/ LayoutThere(n)
    \/ ReadEntry(n) \/ ReadFlagged(n) \/ ReadTrack(n) \/ ReadAgain(n)
    \/ ReadBlock(n) \/ ReadClear(n)
    \/ WriteBegin(n) \/ WriteScan(n) \/ WriteFill(n) \/ WriteFilled(n)
    \/ LockMap(n) \/ FlogFirst(n) \/ FlogSecond(n) \/ StoreMap(n) \/ UnlockMap(n)
    \/ SetBegin(n) \/ SetAbort(n) \/ SetFlag(n)

Calls(n) ==
    \E c \in Kinds[n] :
        Call(n, c[1], c[2], IF c[1] = "write" THEN n * MaxOps + ops[n] + 1 ELSE Zero)

Open == OpenFresh \/ OpenLaidOut \/ RecoverFlog \/ OpenDone

Next == \/ \E n \in Lanes : Calls(n) \/ Steps(n)
        \/ Crash \/ Open

(* A thread inside btt.c keeps running (its mutexes are released after     *)
(* finitely many steps), and an open in progress ends.                     *)
Fairness == (\A n \in Lanes : WF_vars(Steps(n))) /\ WF_vars(Open)

Spec == Init /\ [][Next]_vars /\ Fairness

-----------------------------------------------------------------------------
Entries == [blk : Blocks, st : {"initial", "normal", "zero", "error"}]
FlogEntries == [lba : Lba, old : Entries, new : Entries, seq : 0 .. 3]
Runtimes == [next : 0 .. 1, old : Entries, seq : 0 .. 3]
Contents == Values \cup {Zero, Error}
Positions == {"idle", "begin", "return", "wait", "layout", "info", "arenas",
              "check", "again", "block", "clear", "scan", "fill",
              "lock", "flog", "seq", "map", "unlock", "set"}
Operations == [kind : {"idle", "read", "write", "zero", "error"}, lba : Lba,
               val : Contents \cup {Junk}, scan : 0 .. NLane,
               entry : Entries, new : Entries]

(* Every variable has its type.                                            *)
TypeOK ==
    /\ data \in [Blocks -> Values \cup {Junk}]
    /\ map \in [Lba -> Entries]
    /\ flog \in [Lanes -> [0 .. 1 -> FlogEntries]]
    /\ info \in BOOLEAN
    /\ phase \in {"down", "recover", "up"} /\ rlane \in 0 .. NLane
    /\ laidout \in BOOLEAN
    /\ layout_lock \in Lanes \cup {NoLane}
    /\ rt \in [Lanes -> Runtimes]
    /\ rtt \in [Lanes -> Entries]
    /\ map_locks \in [Lanes -> Lanes \cup {NoLane}]
    /\ pc \in [Lanes -> Positions]
    /\ loc \in [Lanes -> Operations]
    /\ out \in [Lanes -> Contents \cup {Junk}]
    /\ ops \in [Lanes -> Nat] /\ crashes \in Nat

\* The map as read_flogs would leave it if the pool were opened now.
Recovered(l) ==
    LET todo == {n \in Lanes : /\ Current(flog[n]).lba = l
                               /\ Incomplete(Current(flog[n]))}
    IN IF todo = {} THEN Norm(l, map[l])
       ELSE Current(flog[CHOOSE n \in todo : TRUE]).new

FreeBlock(n) == Current(flog[n]).old.blk

(* At every moment of every write, set_zero, set_error and recovery the    *)
(* media pass check_arena once recovered: no two block numbers map to the  *)
(* same block, no lane owns a mapped block or another lane's, and since    *)
(* there are as many blocks as owners no block is unreferenced.  No        *)
(* exchange of blocks is ever torn between map and flog, and all state     *)
(* keeps its type.                                                         *)
ArenaConsistent ==
    /\ TypeOK
    /\ info =>
         /\ \A l, k \in Lba : l # k => Recovered(l).blk # Recovered(k).blk
         /\ \A n, m \in Lanes : n # m => FreeBlock(n) # FreeBlock(m)
         /\ \A l \in Lba, n \in Lanes : Recovered(l).blk # FreeBlock(n)

(* A write never touches a block that somebody is reading, nor one that    *)
(* the map shows: the scan of the read tracking table and the second look  *)
(* of btt_read at the map are enough without a lock between them.          *)
NoWriteUnderRead ==
    \A n \in Lanes : pc[n] = "fill" =>
        /\ \A m \in Lanes : pc[m] = "block" => loc[m].entry.blk # loc[n].new.blk
        /\ \A l \in Lba : map[l].st = "normal" => map[l].blk # loc[n].new.blk

\* A table entry that no read is using: a read that ended on a flagged
\* entry after a retry left it.
Stale(m) == rtt[m] # None /\ loc[m].kind # "read"

(* Every call returns (or is cut short by a crash): a reader is not sent   *)
(* round its loop for ever, a writer that finds its free block in the read *)
(* tracking table gets past it, the map locks and the layout mutex are     *)
(* given back.  Only an entry left over in the table can hold a writer up. *)
CallsReturn ==
    \A n \in Lanes :
        pc[n] # "idle" ~> (pc[n] = "idle" \/ \E m \in Lanes : Stale(m))

(* btt_write waits "for other threads to finish any reads on free block"   *)
(* (btt.c:1754): whom it waits for is reading.                             *)
WaitsOnlyForReaders ==
    \A n \in Lanes :
        /\ pc[n] = "scan" /\ loc[n].scan < NLane
        /\ rtt[loc[n].scan] = loc[n].new
        => ~Stale(loc[n].scan)
=============================================================================
