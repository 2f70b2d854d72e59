-------------------------------- MODULE List --------------------------------
(***************************************************************************)
(* The persistent atomic lists of libpmemobj (list.c): circular, doubly    *)
(* linked, each guarded by a mutex in its head.  A call holds a lane and   *)
(* the mutexes of its lists, computes from the links as they are in memory *)
(* which words have to change, collects the changes in the redo log of the *)
(* lane and applies them with operation_finish, or together with the       *)
(* allocation in palloc_publish.  That a redo log takes effect as a whole  *)
(* or not at all, through crashes too, is what Redo shows; here it is one  *)
(* step.  That a lane has one owner is what Lane shows; here the lanes in  *)
(* use are counted.                                                        *)
(*                                                                         *)
(* Callers name objects that are where they say they are, and no two       *)
(* running calls name the same object; the neighbours of an object may     *)
(* change under other calls at any time until the mutex is taken.          *)
(***************************************************************************)
EXTENDS Naturals, FiniteSets, SequencesExt

CONSTANTS
    Threads,
    NoThread,
    Heads,          \* the addresses of the list heads
    PeOffset,       \* the offset of the list_entry the lists use
    Objects,        \* the memory blocks objects are made of
    Null,           \* offset 0
    Uses,           \* the objects the program puts on each list
    NLanes,
    May(_, _)       \* the calls each thread makes

ASSUME ListAssumption ==
    /\ Heads \subseteq Nat
    /\ NLanes \in Nat \ {0}
    /\ NoThread \notin Threads /\ Null \notin Objects

Offsets == {PeOffset[h] : h \in Heads}

\* The fields that hold a PMEMoid: pe_first of a head, pe_next and pe_prev of
\* the entry of an object at an offset.
PeFirst(h) == <<"first", h>>
PeNext(o, e) == <<"next", o, e>>
PePrev(o, e) == <<"prev", o, e>>

Fields == {PeFirst(h) : h \in Heads}
          \cup {PeNext(o, e) : o \in Objects, e \in Offsets}
          \cup {PePrev(o, e) : o \in Objects, e \in Offsets}

VARIABLES
    mem,            \* the offset part of each field
    uuid,           \* the fields whose pool_uuid_lo part is that of the pool
    live,           \* the allocated objects
    lanes,          \* the threads that hold a lane
    owner,          \* the owner of the mutex of each head
    op,             \* the arguments of the call each thread is in
    todo,           \* what the call still has to do
    redo            \* the updates in the external redo log of the lane

vars == <<mem, uuid, live, lanes, owner, op, todo, redo>>
store == <<mem, uuid, live>>

-----------------------------------------------------------------------------
\* What the links say.

\* The n objects from o on, or fewer if the ring closes before.
RECURSIVE Chain(_, _, _)
Chain(h, o, n) ==
    LET next == mem[PeNext(o, PeOffset[h])]
    IN  <<o>> \o IF n = 1 \/ next \in {mem[PeFirst(h)], Null} THEN <<>>
                 ELSE Chain(h, next, n - 1)

\* The list as its readers see it who follow pe_next from pe_first.
ListOf(h) == IF mem[PeFirst(h)] = Null THEN <<>>
             ELSE Chain(h, mem[PeFirst(h)], Cardinality(Objects))

On(h) == ToSet(ListOf(h))

\* The lists whose entries lie at the same offset as those of h.
Sharing(h) == {g \in Heads : PeOffset[g] = PeOffset[h]}

-----------------------------------------------------------------------------
\* The changes of a call, as entries of the redo log.

Set(f, o) == [field |-> f, off |-> o, uuid |-> FALSE]

\* Mutant: the uuid of the head is set only for a list that had an element.
UpdateHeadLate(h, o) == <<[field |-> PeFirst(h), off |-> o,
                           uuid |-> mem[PeFirst(h)] # Null]>>

\* list_update_head: the uuid is set together with the offset, once.
UpdateHead(h, o) == <<[field |-> PeFirst(h), off |-> o,
                       uuid |-> PeFirst(h) \notin uuid]>>

\* list_get_dest.
GetDest(h, dest, before) ==
    IF dest # Null THEN dest
    ELSE IF mem[PeFirst(h)] = Null \/ before THEN mem[PeFirst(h)]
    ELSE mem[PePrev(mem[PeFirst(h)], PeOffset[h])]

\* list_remove_single.
RemoveSingle(h, o) ==
    LET e == PeOffset[h]
        next == mem[PeNext(o, e)]
        prev == mem[PePrev(o, e)]
    IN  IF next = o THEN UpdateHead(h, Null)
        ELSE <<Set(PePrev(next, e), prev), Set(PeNext(prev, e), next)>>
             \o (IF mem[PeFirst(h)] = o THEN UpdateHead(h, next) ELSE <<>>)

\* list_insert_before.
InsertBefore(h, o, dest) ==
    LET e == PeOffset[h]
        prev == mem[PePrev(dest, e)]
    IN  [next |-> dest, prev |-> prev,
         log |-> <<Set(PePrev(dest, e), o), Set(PeNext(prev, e), o)>>]

\* list_insert_after.
InsertAfter(h, o, dest) ==
    LET e == PeOffset[h]
        next == mem[PeNext(dest, e)]
    IN  [next |-> next, prev |-> dest,
         log |-> <<Set(PeNext(dest, e), o), Set(PePrev(next, e), o)>>]

\* Mutant: an object put before the first one does not become the first.
InsertUserKeepsHead(h, o, dest, before) ==
    IF dest = Null THEN [next |-> o, prev |-> o, log |-> UpdateHead(h, o)]
    ELSE IF before THEN InsertBefore(h, o, dest)
    ELSE InsertAfter(h, o, dest)

\* list_insert_user: the log, and what the links of the object are to be.
InsertUser(h, o, dest, before) ==
    IF dest = Null THEN [next |-> o, prev |-> o, log |-> UpdateHead(h, o)]
    ELSE IF ~before THEN InsertAfter(h, o, dest)
    ELSE LET i == InsertBefore(h, o, dest)
         IN  IF dest = mem[PeFirst(h)]
             THEN [i EXCEPT !.log = @ \o UpdateHead(h, o)]
             ELSE i

\* list_fill_entry_redo_log: the part that goes through the log.
FillEntry(o, e, next, prev) == <<Set(PeNext(o, e), next), Set(PePrev(o, e), prev)>>

\* Mutant: only the case before the destination is recognised.
StaysInPlaceBefore(c, dest) ==
    /\ c.old = c.head
    /\ \/ dest = c.oid
       \/ c.before /\ mem[PePrev(dest, PeOffset[c.head])] = c.oid

\* list_move within one list, when the object is next to its destination
\* already: at most the head changes.
StaysInPlace(c, dest) ==
    /\ c.old = c.head
    /\ \/ dest = c.oid
       \/ c.before /\ mem[PePrev(dest, PeOffset[c.head])] = c.oid
       \/ ~c.before /\ mem[PeNext(dest, PeOffset[c.head])] = c.oid

HeadOnly(c, dest) ==
    CASE dest = c.oid -> <<>>
      [] dest # c.oid /\ c.before ->
            IF mem[PeFirst(c.head)] = dest THEN UpdateHead(c.head, c.oid) ELSE <<>>
      [] dest # c.oid /\ ~c.before ->
            IF mem[PeFirst(c.head)] = c.oid
            THEN UpdateHead(c.head, mem[PeNext(c.oid, PeOffset[c.head])]) ELSE <<>>

-----------------------------------------------------------------------------
\* The calls.

\* Whether the lane or the mutex comes first depends on the call.
Path(c) ==
    LET lock == [i \in 1..Cardinality({c.old, c.head}) |-> "lock"]
    IN  IF c.kind \in {"new", "free"}
        THEN <<"lock", "lane", "build", "finish", "leave">>
        ELSE <<"lane">> \o lock \o <<"build", "finish", "leave">>

Idle == [kind |-> "idle", head |-> Min(Heads), old |-> Min(Heads),
         dest |-> Null, before |-> FALSE, oid |-> Null]

Init ==
    /\ mem = [f \in Fields |-> Null]
    /\ uuid = {}
    /\ live = {}
    /\ lanes = {}
    /\ owner = [h \in Heads |-> NoThread]
    /\ op = [t \in Threads |-> Idle]
    /\ todo = [t \in Threads |-> <<>>]
    /\ redo = [t \in Threads |-> <<>>]

Named(t) == {op[t].oid, op[t].dest} \ {Null}

Calls == [kind : {"insert", "new", "remove", "free", "move"}, head : Heads,
          old : Heads, dest : Objects \cup {Null}, before : BOOLEAN,
          oid : Objects \cup {Null}]

\* A thread enters a call.
Enter(t, c) ==
    /\ May(t, c)
    /\ \A u \in Threads \ {t} : ({c.oid, c.dest} \ {Null}) \cap Named(u) = {}
    /\ op' = [op EXCEPT ![t] = c]
    /\ todo' = [todo EXCEPT ![t] = Path(c)]
    /\ UNCHANGED <<store, lanes, owner, redo>>

\* The objects whose entry for the list h is in no ring.
Unlinked(h) == (live \cap Uses[h]) \ UNION {On(g) : g \in Sharing(h)}

\* pmemobj_list_insert and pmemobj_list_insert_new.
CallInsert(t) ==
    /\ todo[t] = <<>>
    /\ \E h \in Heads, before \in BOOLEAN :
       \E dest \in On(h) \cup {Null}, o \in Unlinked(h) \cup {Null} :
        Enter(t, [kind |-> IF o = Null THEN "new" ELSE "insert", head |-> h,
                  old |-> h, dest |-> dest, before |-> before, oid |-> o])

\* pmemobj_list_remove; an object that is freed is on no other list.
CallRemove(t) ==
    /\ todo[t] = <<>>
    /\ \E h \in Heads, kind \in {"remove", "free"} : \E o \in On(h) :
        /\ kind = "free" => \A g \in Heads \ {h} : o \notin On(g)
        /\ Enter(t, [kind |-> kind, head |-> h, old |-> h, dest |-> Null,
                     before |-> FALSE, oid |-> o])

\* pmemobj_list_move.
CallMove(t) ==
    /\ todo[t] = <<>>
    /\ \E h, old \in Heads, before \in BOOLEAN :
       \E dest \in On(h) \cup {Null}, o \in On(old) :
        /\ o \in Uses[h]
        /\ \A g \in Sharing(h) \ {old} : o \notin On(g)
        /\ Enter(t, [kind |-> "move", head |-> h, old |-> old, dest |-> dest,
                     before |-> before, oid |-> o])

At(t, step) == todo[t] # <<>> /\ todo[t][1] = step

\* The rest of the call; after the last step the thread is out of it.
Then(t, rest) ==
    /\ todo' = [todo EXCEPT ![t] = rest]
    /\ op' = IF rest = <<>> THEN [op EXCEPT ![t] = Idle] ELSE op

Pop(t) == Then(t, Tail(todo[t]))

\* lane_hold.
HoldLane(t) ==
    /\ At(t, "lane")
    /\ Cardinality(lanes) < NLanes
    /\ lanes' = lanes \cup {t}
    /\ Pop(t)
    /\ UNCHANGED <<store, owner, redo>>

Held(t) == {h \in Heads : owner[h] = t}

\* Mutant: the mutex of the new list first.
NextLockNewFirst(t) == IF op[t].head \in Held(t) THEN op[t].old ELSE op[t].head

\* list_mutexes_lock: the next mutex in ascending address order.
NextLock(t) == Min({op[t].head, op[t].old} \ Held(t))

Lock(t) ==
    /\ At(t, "lock")
    /\ owner[NextLock(t)] = NoThread
    /\ owner' = [owner EXCEPT ![NextLock(t)] = t]
    /\ Pop(t)
    /\ UNCHANGED <<store, lanes, redo>>

\* pmemobj_mutex_lock returns an error.
LockFails(t) ==
    /\ At(t, "lock")
    /\ Then(t, <<"fail">>)
    /\ UNCHANGED <<store, lanes, owner, redo>>

\* list_mutexes_unlock and lane_release: what is held, nothing more.  Nothing waits
\* between the two and their order cannot be told apart.
Leave(t) ==
    /\ At(t, "leave") \/ At(t, "fail")
    /\ owner' = [h \in Heads |-> IF owner[h] = t THEN NoThread ELSE owner[h]]
    /\ lanes' = lanes \ {t}
    /\ Pop(t)
    /\ UNCHANGED <<store, redo>>

-----------------------------------------------------------------------------
\* Filling the redo log, one action per call.

\* list_insert: the uuids of the entry are written and persisted directly.
BuildInsert(t) ==
    LET c == op[t]
        e == PeOffset[c.head]
        i == InsertUser(c.head, c.oid, GetDest(c.head, c.dest, c.before), c.before)
    IN  /\ At(t, "build") /\ c.kind = "insert"
        /\ redo' = [redo EXCEPT ![t] = i.log \o FillEntry(c.oid, e, i.next, i.prev)]
        /\ uuid' = uuid \cup {PeNext(c.oid, e), PePrev(c.oid, e)}
        /\ Pop(t)
        /\ UNCHANGED <<mem, live, lanes, owner>>

\* What palloc_reserve can return.
Available == Objects \ (live \cup {op[t].oid : t \in Threads})

\* list_insert_new: the entry of the reserved object is written directly.
BuildNew(t) ==
    LET c == op[t]
        e == PeOffset[c.head]
        dest == GetDest(c.head, c.dest, c.before)
    IN  /\ At(t, "build") /\ c.kind = "new"
        /\ \E o \in Available \cap Uses[c.head] :
             LET i == InsertUser(c.head, o, dest, c.before)
             IN  /\ op' = [op EXCEPT ![t].oid = o]
                 /\ redo' = [redo EXCEPT ![t] = i.log]
                 /\ mem' = [mem EXCEPT ![PeNext(o, e)] = i.next, ![PePrev(o, e)] = i.prev]
                 /\ uuid' = uuid \cup {PeNext(o, e), PePrev(o, e)}
        /\ todo' = [todo EXCEPT ![t] = Tail(@)]
        /\ UNCHANGED <<live, lanes, owner>>

\* palloc_reserve finds no memory, or the constructor fails.
ReserveFails(t) ==
    /\ At(t, "build") /\ op[t].kind = "new"
    /\ Then(t, <<"fail">>)
    /\ UNCHANGED <<store, lanes, owner, redo>>

\* list_remove: the links of the object are cleared.
BuildRemove(t) ==
    LET c == op[t]
    IN  /\ At(t, "build") /\ c.kind = "remove"
        /\ redo' = [redo EXCEPT ![t] =
                      RemoveSingle(c.head, c.oid)
                      \o FillEntry(c.oid, PeOffset[c.head], Null, Null)]
        /\ Pop(t)
        /\ UNCHANGED <<store, lanes, owner>>

\* list_remove_free.
BuildFree(t) ==
    /\ At(t, "build") /\ op[t].kind = "free"
    /\ redo' = [redo EXCEPT ![t] = RemoveSingle(op[t].head, op[t].oid)]
    /\ Pop(t)
    /\ UNCHANGED <<store, lanes, owner>>

\* list_move.
BuildMove(t) ==
    LET c == op[t]
        e == PeOffset[c.head]
        dest == GetDest(c.head, c.dest, c.before)
        i == InsertUser(c.head, c.oid, dest, c.before)
    IN  /\ At(t, "build") /\ c.kind = "move"
        /\ IF StaysInPlace(c, dest)
           THEN /\ redo' = [redo EXCEPT ![t] = HeadOnly(c, dest)]
                /\ UNCHANGED uuid
           ELSE /\ redo' = [redo EXCEPT ![t] = RemoveSingle(c.old, c.oid) \o i.log
                                \o FillEntry(c.oid, e, i.next, i.prev)]
                /\ uuid' = IF PeOffset[c.old] # e
                           THEN uuid \cup {PeNext(c.oid, e), PePrev(c.oid, e)}
                           ELSE uuid
        /\ Pop(t)
        /\ UNCHANGED <<mem, live, lanes, owner>>

\* The entries of memory that belongs to nobody: nothing reads them before they
\* are written again, and they are taken to be zero.
Dead(objects) == {PeNext(o, e) : o \in objects, e \in Offsets}
                 \cup {PePrev(o, e) : o \in objects, e \in Offsets}

\* operation_finish or palloc_publish: the log and the state of the object.
Finish(t) ==
    /\ At(t, "finish")
    /\ LET dead == IF op[t].kind = "free" THEN Dead({op[t].oid}) ELSE {}
           set == {redo[t][i].field : i \in {j \in DOMAIN redo[t] : redo[t][j].uuid}}
           new == FoldLeft(LAMBDA m, u : [m EXCEPT ![u.field] = u.off], mem, redo[t])
       IN  /\ mem' = [f \in Fields |-> IF f \in dead THEN Null ELSE new[f]]
           /\ uuid' = (uuid \cup set) \ dead
    /\ live' = CASE op[t].kind = "new"  -> live \cup {op[t].oid}
                 [] op[t].kind = "free" -> live \ {op[t].oid}
                 [] OTHER -> live
    /\ redo' = [redo EXCEPT ![t] = <<>>]
    /\ Pop(t)
    /\ UNCHANGED <<lanes, owner>>

\* The program stops and opens the pool again: calls, lanes, mutexes and
\* reservations are gone, and so is a log that was not finished.
Crash ==
    /\ lanes' = {}
    /\ owner' = [h \in Heads |-> NoThread]
    /\ op' = [t \in Threads |-> Idle]
    /\ todo' = [t \in Threads |-> <<>>]
    /\ redo' = [t \in Threads |-> <<>>]
    /\ mem' = [f \in Fields |-> IF f \in Dead(Objects \ live) THEN Null ELSE mem[f]]
    /\ uuid' = uuid \ Dead(Objects \ live)
    /\ UNCHANGED live

Build(t) == \/ BuildInsert(t) \/ BuildNew(t) \/ BuildRemove(t)
            \/ BuildFree(t) \/ BuildMove(t)

Step(t) == \/ HoldLane(t) \/ Lock(t) \/ Leave(t)
           \/ Build(t) \/ Finish(t)

ListNext ==
    \/ \E t \in Threads :
         \/ CallInsert(t) \/ CallRemove(t) \/ CallMove(t)
         \/ Step(t) \/ LockFails(t) \/ ReserveFails(t)
    \/ Crash

Spec == Init /\ [][ListNext]_vars
-----------------------------------------------------------------------------
\* Types, and the mutexes and lanes a call holds between its steps.
TypeOK ==
    /\ mem \in [Fields -> Objects \cup {Null}]
    /\ uuid \subseteq Fields
    /\ live \subseteq Objects
    /\ lanes \subseteq {t \in Threads : todo[t] # <<>>} /\ Cardinality(lanes) <= NLanes
    /\ owner \in [Heads -> Threads \cup {NoThread}]
    /\ \A t \in Threads : op[t] \in Calls \cup {Idle}
    /\ \A t \in Threads : redo[t] # <<>> => At(t, "finish")

\* Every list is a ring that pe_next and pe_prev follow in opposite
\* directions, of allocated objects, and an entry is in one ring only
\* (list_insert_user, list_remove_single, list_move).  All state keeps its type.
RingsSound ==
    /\ TypeOK
    /\ \A h \in Heads :
        LET e == PeOffset[h]
            s == ListOf(h)
            after(i) == IF i = Len(s) THEN 1 ELSE i + 1
        IN  /\ \A i \in DOMAIN s : /\ s[i] \in live
                                   /\ mem[PeNext(s[i], e)] = s[after(i)]
                                   /\ mem[PePrev(s[after(i)], e)] = s[i]
            /\ \A g \in Sharing(h) \ {h} : On(g) \cap On(h) = {}

\* An object handle with an offset has the uuid of the pool too, at every
\* moment the program may stop: the uuids of an entry are written before the
\* log with its offsets, that of a head with it (list_fill_entry_redo_log,
\* list_update_head).
OidsComplete == \A f \in Fields : mem[f] # Null => f \in uuid

\* Some thread that is in a call can take its next step: lanes and mutexes
\* are never waited for in a circle (list_mutexes_lock).
CanStep(t) ==
    /\ todo[t] # <<>>
    /\ At(t, "lane") => Cardinality(lanes) < NLanes
    /\ At(t, "lock") => owner[NextLock(t)] = NoThread

NobodyStuck == (\E t \in Threads : todo[t] # <<>>) => \E t \in Threads : CanStep(t)

\* Through all interleavings, failures and crashes the lists behave as
\* sequences that a call which succeeds changes in one step as asked, together
\* with the allocation, and that no other call changes (list.c).
Abstract == INSTANCE AtomicList WITH
    lists <- [h \in Heads |-> ListOf(h)],
    status <- [t \in Threads |-> CASE todo[t] = <<>>          -> "none"
                                   [] todo[t] = <<"leave">>   -> "done"
                                   [] todo[t] = <<"fail">>    -> "failed"
                                   [] Len(todo[t]) > 1        -> "pending"],
    calls <- op
ImplementsAtomicList == Abstract!LSpec
=============================================================================
