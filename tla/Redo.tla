-------------------------------- MODULE Redo --------------------------------
(***************************************************************************)
(* The redo log of a lane: the operation context of memops.c over a        *)
(* persistent log of ulog.c, with crashes and recovery.                    *)
(*                                                                         *)
(* A caller collects word updates in a volatile shadow log                 *)
(* (operation_add_entry); operation_finish copies the shadow to the        *)
(* persistent log (ulog_store), applies it (ulog_process) and invalidates  *)
(* it (ulog_clobber).  After a crash ulog_recover applies a log whose      *)
(* checksum matches.                                                       *)
(*                                                                         *)
(* Persistency.  Every line of persistent memory (a word, a log slot, the  *)
(* log header) has the value the CPU sees and the set of values the media  *)
(* may hold: a store adds to the set, a drain that follows a flush leaves  *)
(* only the visible value, a crash picks a member.  FlushOrdered says      *)
(* which flush libpmem selected: CLFLUSH is ordered, so a flushed line is  *)
(* durable at once; CLFLUSHOPT and CLWB are ordered only by a drain.       *)
(*                                                                         *)
(* Sizes count 16-byte entries; a cache line holds PerLine of them.        *)
(***************************************************************************)
EXTENDS Integers, WordOps

CONSTANTS
    Updates,        \* the updates callers submit
    Zero,           \* a slot whose offset is zero: the end of a log
    NoSum,          \* the header of an invalid log
    Base,           \* ulog_base_nbytes: slots in the lane
    Ext,            \* slots of the one extension that can be allocated
    PerLine,        \* slots per cache line (4)
    MergeSearch,    \* OP_MERGE_SEARCH, and the capacity of merge_entries
    ShadowStep,     \* ULOG_BASE_SIZE: growth of the shadow log
    MaxEntries,     \* bound: entries of an operation
    FlushOrdered,   \* the CPU flush is CLFLUSH
    MaxTornStores   \* bound: crashes inside ulog_store

\* Slots copied by ulog_store for n entries: one more offset is written
\* after the last entry, and whole cache lines are copied.
CopySlots(n) == PerLine * (n \div PerLine + 1)

LogSlots == 1 .. Base + Ext
ShadowSlots == 1 .. CopySlots(MaxEntries)

\* The checksum covers the header and the entries in the lane.
Sums == [next : BOOLEAN,
         entries : UNION {[1 .. m -> Entry] : m \in 1 .. Base}]

ASSUME RedoAssumption ==
    /\ Updates \subseteq Entry
    /\ Zero \notin Entry
    /\ Base \in Nat \ {0} /\ Ext \in Nat /\ PerLine \in Nat \ {0}
    /\ MergeSearch \in Nat \ {0} /\ ShadowStep \in Nat \ {0}
    /\ MaxEntries \in Nat \ {0} /\ MaxTornStores \in Nat
    /\ CopySlots(MaxEntries) <= Base + Ext
    /\ FlushOrdered \in BOOLEAN
    /\ NoSum \notin Sums

VARIABLES
    mem, may,           \* the words: visible value, possible media values
    slot, slotMay,      \* the slots of the persistent log
    hdr, hdrMay,        \* its header: extension present, checksum
    shadow, n, cap,     \* pshadow_ops: the array, its offset and capacity
    ring, front, back,  \* merge_entries
    pc,                 \* where the owner of the lane is
    k,                  \* next slot of ulog_foreach_entry
    pre, post,          \* history: contents before, contents asked for
    outcome,            \* history: how the last operation ended
    torn                \* bound counter: crashes inside ulog_store

pmem == <<mem, may, slot, slotMay, hdr, hdrMay>>
context == <<shadow, n, cap, ring, front, back>>
history == <<pre, post, outcome>>
vars == <<pmem, context, pc, k, history, torn>>

Init ==
    /\ mem = [w \in Words |-> {}] /\ may = [w \in Words |-> {{}}]
    /\ slot = [i \in LogSlots |-> Zero]
    /\ slotMay = [i \in LogSlots |-> {Zero}]
    /\ hdr = [next |-> FALSE, sum |-> NoSum] /\ hdrMay = {hdr}
    /\ shadow = [i \in ShadowSlots |-> Zero] /\ n = 0 /\ cap = ShadowStep
    /\ ring = [i \in 0 .. MergeSearch - 1 |-> 0] /\ front = 0 /\ back = 0
    /\ pc = "idle" /\ k = 1
    /\ pre = mem /\ post = mem /\ outcome = "none"
    /\ torn = 0
-----------------------------------------------------------------------------
\* Slots the log has room for: ctx->ulog_capacity.
Capacity == IF hdr.next THEN Base + Ext ELSE Base

\* operation_start, operation_init: the arrays keep their old contents.
OperationStart ==
    /\ pc = "idle"
    /\ pc' = "build"
    /\ n' = 0 /\ front' = 0 /\ back' = 0
    /\ ring' = [i \in 0 .. MergeSearch - 1 |-> 0]
    /\ pre' = mem /\ post' = mem
    /\ k' = 1 /\ outcome' = "none"
    /\ UNCHANGED <<pmem, shadow, cap, torn>>

\* operation_reserve, ulog_reserve: the callers ask for room for one entry
\* per update before they add it.  The extension is constructed zeroed and
\* linked by the lane's other redo log, so it appears in one step.
OperationReserve ==
    /\ pc = "build" /\ n = Capacity /\ ~hdr.next /\ Ext > 0
    /\ hdr' = [next |-> TRUE, sum |-> hdr.sum] /\ hdrMay' = {hdr'}
    /\ slot' = [i \in LogSlots |-> IF i > Base THEN Zero ELSE slot[i]]
    /\ slotMay' = [i \in LogSlots |-> IF i > Base THEN {Zero} ELSE slotMay[i]]
    /\ UNCHANGED <<mem, may, context, pc, k, history, torn>>

\* operation_cancel, also what follows when no extension can be allocated.
OperationCancel ==
    /\ pc = "build"
    /\ pc' = "idle" /\ outcome' = "cancelled"
    /\ UNCHANGED <<pmem, context, k, pre, post, torn>>

\* VECQ_FOREACH_REVERSE over merge_entries: position i of the queue, i from
\* the number of elements down to 1.  The front of the queue is not added.
Tracked(i) == ring[(i - 1) % MergeSearch]

Hits(w) == {i \in 1 .. back - front : shadow[Tracked(i)].off = w}

\* operation_try_merge_entry: the first hit, if it has the entry's type.
MergeSlots(u) ==
    {Tracked(i) : i \in {j \in Hits(u.off) :
                           /\ \A m \in Hits(u.off) : m <= j
                           /\ shadow[Tracked(j)].type = u.type}}

\* operation_merge
MergedEntry(e, u) == [off |-> e.off, type |-> e.type,
                      val |-> CASE u.type = "AND" -> e.val \cap u.val
                                [] u.type = "OR"  -> e.val \cup u.val
                                [] u.type = "SET" -> u.val]

\* The update goes into an entry that is already in the shadow log.
MergeEntry(u) ==
    \E i \in MergeSlots(u) :
        /\ shadow' = [shadow EXCEPT ![i] = MergedEntry(shadow[i], u)]
        /\ UNCHANGED <<n, cap, ring, front, back>>

\* Mutant: no zero offset is written after the new entry.
CreateEntryNoTerminator(u) ==
    /\ MergeSlots(u) = {}
    /\ n < Capacity /\ n < MaxEntries
    /\ n' = n + 1
    /\ shadow' = [shadow EXCEPT ![n + 1] = u]
    /\ ring' = [ring EXCEPT ![back % MergeSearch] = n + 1]
    /\ back' = back + 1
    /\ front' = IF back - front = MergeSearch THEN front + 1 ELSE front
    /\ UNCHANGED cap

\* ulog_entry_val_create, operation_merge_entry_add: the entry and a zero
\* offset after it; the queue drops its oldest element when it is full.
CreateEntry(u) ==
    /\ MergeSlots(u) = {}
    /\ n < Capacity /\ n < MaxEntries
    /\ n' = n + 1
    /\ shadow' = [shadow EXCEPT ![n + 1] = u, ![n + 2] = Zero]
    /\ ring' = [ring EXCEPT ![back % MergeSearch] = n + 1]
    /\ back' = back + 1
    /\ front' = IF back - front = MergeSearch THEN front + 1 ELSE front
    /\ UNCHANGED cap

\* operation_add_entry.  When the shadow log is one cache line from full it
\* is reallocated first: the new slots hold whatever the heap held, and the
\* queue is cleared because its pointers are dangling.
OperationAddEntry(u) ==
    /\ pc = "build"
    /\ post' = [post EXCEPT ![u.off] = Effect(u, post[u.off])]
    /\ UNCHANGED <<pmem, pc, k, pre, outcome, torn>>
    /\ \/ n + PerLine # cap /\ (MergeEntry(u) \/ CreateEntry(u))
       \/ /\ n + PerLine = cap /\ n < Capacity /\ n < MaxEntries
          /\ cap' = cap + ShadowStep
          /\ n' = n + 1
          /\ \E junk \in Updates \cup {Zero} :
                shadow' = [i \in ShadowSlots |->
                             CASE i = n + 1 -> u
                               [] i = n + 2 -> Zero
                               [] i > cap /\ i # n + 1 /\ i # n + 2 -> junk
                               [] OTHER -> shadow[i]]
          /\ ring' = [ring EXCEPT ![0] = n + 1]
          /\ front' = 0 /\ back' = 1

-----------------------------------------------------------------------------
\* operation_finish and operation_process.

\* A line that was stored and flushed, before the drain that orders it.
Stored(possible, x) == IF FlushOrdered THEN {x} ELSE possible \cup {x}

\* ulog_entry_apply on the word an entry names, with flush.
Apply(e) ==
    LET x == Effect(e, mem[e.off])
    IN /\ mem' = [mem EXCEPT ![e.off] = x]
       /\ may' = [may EXCEPT ![e.off] = Stored(may[e.off], x)]

\* Drains: every line flushed so far is durable.
DrainWords == may' = [w \in Words |-> {mem[w]}]
DrainSlots == slotMay' = [i \in LogSlots |-> {slot[i]}]

\* Nothing persistent was registered: nothing is processed.
FinishEmpty ==
    /\ pc = "build" /\ n = 0
    /\ pc' = "idle" /\ outcome' = "done"
    /\ UNCHANGED <<pmem, context, k, pre, post, torn>>

\* Exactly one entry: it is applied and persisted without the log.
FinishSingle ==
    /\ pc = "build" /\ n = 1
    /\ Apply(shadow[1])
    /\ pc' = "single"
    /\ UNCHANGED <<slot, slotMay, hdr, hdrMay, context, k, history, torn>>

SingleDrain ==
    /\ pc = "single"
    /\ DrainWords
    /\ pc' = "idle" /\ outcome' = "done"
    /\ UNCHANGED <<mem, slot, slotMay, hdr, hdrMay, context, k, pre, post, torn>>

\* ulog_store takes the terminator's cache line along, so it needs more room
\* than the entries do.
HasRoom == CopySlots(n) <= Capacity

\* Stores of slots first..last, not yet drained: a crash may find each of
\* them old or new.
CopyToLog(first, last) ==
    /\ slot' = [i \in LogSlots |->
                  IF i \in first .. last THEN shadow[i] ELSE slot[i]]
    /\ slotMay' = [i \in LogSlots |->
                     IF i \in first .. last THEN slotMay[i] \cup {shadow[i]}
                                            ELSE slotMay[i]]

\* ulog_store, first part: the entries beyond the lane go to the extension.
StoreExtension ==
    /\ pc = "build" /\ n > 1 /\ HasRoom /\ CopySlots(n) > Base
    /\ CopyToLog(Base + 1, CopySlots(n))
    /\ pc' = "ext"
    /\ UNCHANGED <<mem, may, hdr, hdrMay, context, k, history, torn>>

ExtensionDrain ==
    /\ pc = "ext"
    /\ DrainSlots
    /\ pc' = "base"
    /\ UNCHANGED <<mem, may, slot, hdr, hdrMay, context, k, history, torn>>

\* ulog_checksum over the entries that fit in the lane.
Sum(next, entries, len) ==
    [next |-> next, entries |-> [i \in 1 .. len |-> entries[i]]]

\* ulog_store, second part: header and entries in one copy.
StoreBase ==
    /\ \/ pc = "build" /\ n > 1 /\ CopySlots(n) <= Base
       \/ pc = "base"
    /\ CopyToLog(1, IF CopySlots(n) < Base THEN CopySlots(n) ELSE Base)
    /\ hdr' = [next |-> hdr.next,
               sum |-> Sum(hdr.next, shadow, IF n < Base THEN n ELSE Base)]
    /\ hdrMay' = hdrMay \cup {hdr'}
    /\ pc' = "stored"
    /\ UNCHANGED <<mem, may, context, k, history, torn>>

\* Mutant: the log is applied before the copy is durable.
StoreNoDrain ==
    /\ pc = "stored"
    /\ pc' = "apply" /\ k' = 1
    /\ UNCHANGED <<pmem, context, history, torn>>

StoreDrain ==
    /\ pc = "stored"
    /\ DrainSlots /\ hdrMay' = {hdr}
    /\ pc' = "apply" /\ k' = 1
    /\ UNCHANGED <<mem, may, slot, hdr, context, history, torn>>

\* ulog_foreach_entry of ulog_process: the shadow log has the lane's
\* capacity and the extension as its next log; ulog_recover walks the
\* persistent log itself.
CurrentEntry ==
    IF k > Capacity THEN Zero
    ELSE IF pc = "apply" /\ k <= Base THEN shadow[k] ELSE slot[k]

ProcessEntry ==
    /\ pc \in {"apply", "recover"} /\ CurrentEntry # Zero
    /\ Apply(CurrentEntry)
    /\ k' = k + 1
    /\ UNCHANGED <<slot, slotMay, hdr, hdrMay, context, pc, history, torn>>

\* ulog_clobber: the header is zeroed, except for the extension.
Clobber ==
    /\ pc \in {"apply", "recover"} /\ CurrentEntry = Zero
    /\ hdr' = [next |-> hdr.next, sum |-> NoSum]
    /\ hdrMay' = hdrMay \cup {hdr'}
    /\ pc' = IF pc = "apply" THEN "clobber" ELSE "reclobber"
    /\ UNCHANGED <<mem, may, slot, slotMay, context, k, history, torn>>

ClobberDrain ==
    /\ pc = "clobber"
    /\ DrainWords /\ hdrMay' = {hdr}
    /\ pc' = "idle" /\ outcome' = "done"
    /\ UNCHANGED <<mem, slot, slotMay, hdr, context, k, pre, post, torn>>
-----------------------------------------------------------------------------
\* Crashes and recovery.

\* The media contents a crash may leave.
Pick(possible) ==
    {f \in [DOMAIN possible -> UNION {possible[x] : x \in DOMAIN possible}] :
        \A x \in DOMAIN possible : f[x] \in possible[x]}

\* The process or the machine stops; the volatile state is not looked at
\* again (OpenPool resets it).
Die ==
    /\ mem' \in Pick(may) /\ slot' \in Pick(slotMay) /\ hdr' \in hdrMay
    /\ may' = [w \in Words |-> {mem'[w]}]
    /\ slotMay' = [i \in LogSlots |-> {slot'[i]}]
    /\ hdrMay' = {hdr'}
    /\ pc' = "down"
    /\ UNCHANGED <<context, k, history>>

Crash ==
    /\ pc # "down"
    /\ pc = "stored" => torn < MaxTornStores
    /\ torn' = IF pc = "stored" THEN torn + 1 ELSE torn
    /\ Die

\* ulog_store with no extension to hold the terminator's line: the empty
\* vector of extensions is read and its null buffer stops the process.
StoreNoRoom ==
    /\ pc = "build" /\ n > 1 /\ ~HasRoom
    /\ Die
    /\ UNCHANGED torn

\* lane_boot, operation_new: fresh contexts.
OpenPool ==
    /\ pc' = "idle" /\ outcome' = "crashed"
    /\ shadow' = [i \in ShadowSlots |-> Zero] /\ n' = 0 /\ cap' = ShadowStep
    /\ front' = 0 /\ back' = 0
    /\ UNCHANGED <<ring, k, pre, post, torn>>

\* Mutant: a log with entries and a non-zero header is taken without a look
\* at its checksum.
ValidUnchecked(header, entries) ==
    header.sum # NoSum /\ entries[1] # Zero

\* ulog_recovery_needed: the lane holds valid entries up to a zero offset or
\* its end, and the checksum of header and entries matches.
Valid(header, entries) ==
    \E len \in 1 .. Base :
        /\ \A i \in 1 .. len : entries[i] # Zero
        /\ len < Base => entries[len + 1] = Zero
        /\ header.sum = Sum(header.next, entries, len)

RecoveryNeeded == Valid(hdr, slot)

\* lane_recover_and_section_boot, ulog_recover
Recover ==
    /\ pc = "down" /\ RecoveryNeeded
    /\ pc' = "recover" /\ k' = 1
    /\ UNCHANGED <<pmem, context, history, torn>>

RecoverNothing ==
    /\ pc = "down" /\ ~RecoveryNeeded
    /\ OpenPool
    /\ UNCHANGED pmem

ReclobberDrain ==
    /\ pc = "reclobber"
    /\ DrainWords /\ hdrMay' = {hdr}
    /\ OpenPool
    /\ UNCHANGED <<mem, slot, slotMay, hdr>>

Build == \/ OperationStart \/ OperationReserve \/ OperationCancel
         \/ \E u \in Updates : OperationAddEntry(u)

Finish == \/ FinishEmpty \/ FinishSingle \/ SingleDrain
          \/ StoreExtension \/ ExtensionDrain \/ StoreBase \/ StoreDrain
          \/ ProcessEntry \/ Clobber \/ ClobberDrain

Fail == Crash \/ StoreNoRoom \/ Recover \/ RecoverNothing \/ ReclobberDrain

Next == Build \/ Finish \/ Fail

Spec == Init /\ [][Next]_vars

-----------------------------------------------------------------------------
Slot == Entry \cup {Zero}
Header == [next : BOOLEAN, sum : Sums \cup {NoSum}]

(* Every variable has its type.                                            *)
TypeOK ==
    /\ mem \in [Words -> Value] /\ may \in [Words -> SUBSET Value]
    /\ slot \in [LogSlots -> Slot] /\ slotMay \in [LogSlots -> SUBSET Slot]
    /\ hdr \in Header /\ hdrMay \subseteq Header
    /\ shadow \in [ShadowSlots -> Slot]
    /\ n \in 0 .. MaxEntries /\ cap \in Nat
    /\ ring \in [0 .. MergeSearch - 1 -> 0 .. MaxEntries]
    /\ front \in Nat /\ back \in Nat
    /\ pc \in {"idle", "build", "single", "ext", "base", "stored", "apply",
               "clobber", "down", "recover", "reclobber"}
    /\ k \in 1 .. Base + Ext + 1
    /\ pre \in [Words -> Value] /\ post \in [Words -> Value]
    /\ outcome \in {"none", "done", "cancelled", "crashed"}
    /\ torn \in 0 .. MaxTornStores

(* When operation_finish returns, the words hold what the updates, taken   *)
(* one after the other, ask for, and they hold it durably: entries merged  *)
(* in the shadow log, the single-entry shortcut, leftovers of earlier and  *)
(* longer logs and the extension change nothing about the result.          *)
FinishedAsAsked ==
    pc = "idle" /\ outcome = "done" =>
        mem = post /\ \A w \in Words : may[w] = {mem[w]}

(* After a crash anywhere, crashes inside the recovery included, the       *)
(* opened pool holds the contents from before the interrupted operation or *)
(* all of its updates, never a part of them.                               *)
RecoveredAllOrNothing ==
    pc = "idle" /\ outcome = "crashed" =>
        mem \in {pre, post} /\ \A w \in Words : may[w] = {mem[w]}

\* The contents the pool stands for: a log that will be applied counts as
\* applied.
Contents ==
    IF pc \in {"apply", "recover"} \/ (pc = "down" /\ RecoveryNeeded)
      THEN post
      ELSE IF pc = "single" THEN pre ELSE mem

Abstract == INSTANCE AtomicUpdate
    WITH image <- Contents, target <- post,
         open <- pc \in {"build", "single", "ext", "base", "stored"}

(* The operation context implements an atomic batch of updates: the        *)
(* contents of the pool change only in one step, from what was there to    *)
(* all that the updates ask for, at the drain of ulog_store, at a crash    *)
(* that finds the log complete, or at the one store of the shortcut.       *)
ImplementsAtomicUpdate == Abstract!ASpec
=============================================================================
