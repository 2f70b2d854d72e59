-------------------------------- MODULE Sync --------------------------------
(***************************************************************************)
(* Locks and condition variables that live in the pool                     *)
(* (pmdk-1.5/src/libpmemobj/sync.c).                                       *)
(*                                                                         *)
(* The memory of a lock survives a crash, its meaning does not.  Next to   *)
(* it the pool keeps the id of the run that initialised it; every open of  *)
(* the pool gets a new id (obj_runtime_init), and the first thread to use  *)
(* a lock whose id is another run's initialises it again (_get_value).     *)
(* Threads meet in the id word by compare-and-swap only.                   *)
(*                                                                         *)
(* A lock here is a PMEMmutex (used in mode "wr") or a PMEMrwlock.  The    *)
(* primitives underneath, os_mutex, os_rwlock and os_cond, are POSIX's     *)
(* and external; a timed or try variant may give up.                       *)
(***************************************************************************)
EXTENDS Naturals

CONSTANTS
    Threads,
    Locks, Conds,       \* the objects: mutexes and rwlocks; conditions
    NoThread,
    IdWrap,             \* 2^64 in the code: run ids are uint64
    FirstRun,           \* run_id the pool has when first opened here
    MaxOpens,           \* bound: opens of the pool
    MaxOps,             \* bound: calls of a thread
    MaxFails            \* bound: failures of an init_value

Objects == Locks \cup Conds
Modes == {"rd", "wr"}

ASSUME SyncAssumption ==
    /\ Locks \cap Conds = {} /\ NoThread \notin Threads
    /\ IdWrap \in Nat /\ FirstRun \in 0 .. IdWrap - 1
    /\ FirstRun % 2 = 0 /\ IdWrap % 2 = 0       \* obj_descr_check
    /\ MaxOpens \in Nat /\ 2 * MaxOpens + 2 < IdWrap
    /\ MaxOps \in Nat /\ MaxFails \in Nat

VARIABLES
    run_id,         \* pop->run_id
    up,             \* the pool is open
    opens,          \* bound counter: opens so far
    runid,          \* the id word next to each object
    media,          \* values of it a power failure can leave
    mem,            \* the object: gen, the open it was initialised in, and
                    \*   the state POSIX keeps in it: writer, readers, waiters
    pc, op, tmp,    \* per thread: position, call, tmp_runid
    hold,           \* per thread: the locks it has been granted
    ops, fails      \* bound counters

objects == <<runid, media, mem>>
vars == <<run_id, up, opens, objects, pc, op, tmp, hold, ops, fails>>

Fresh == [gen |-> opens, w |-> NoThread, r |-> {}, q |-> {}]

\* A call: what it does, the object it asks for, and for a wait the mutex.
Operation(k, o, m, x) == [kind |-> k, obj |-> o, mode |-> m, mutex |-> x]
NoOp == Operation("none", NoThread, "wr", NoThread)

Goto(t, p) == pc' = [pc EXCEPT ![t] = p]
At(t, p) == up /\ pc[t] = p

\* The word takes a new value, which may reach the media at any time.
SetRunid(o, v) == /\ runid' = [runid EXCEPT ![o] = v]
                  /\ media' = [media EXCEPT ![o] = @ \cup {v}]

Init ==
    /\ run_id = FirstRun
    /\ up = FALSE /\ opens = 0
    /\ runid = [o \in Objects |-> 0]
    /\ media = [o \in Objects |-> {0}]
    /\ mem = [o \in Objects |-> [gen |-> 0, w |-> NoThread, r |-> {}, q |-> {}]]
    /\ pc = [t \in Threads |-> "idle"]
    /\ op = [t \in Threads |-> NoOp]
    /\ tmp = [t \in Threads |-> 0]
    /\ hold = [t \in Threads |-> {}]
    /\ ops = [t \in Threads |-> 0]
    /\ fails = 0

\* Mutant of obj_runtime_init: the id 0 of a zeroed lock is not skipped.
NextRunNoSkip == (run_id + 2) % IdWrap

\* The new id: unique by counting, and never the 0 of a zeroed lock.
NextRun == LET n == (run_id + 2) % IdWrap IN IF n = 0 THEN 2 ELSE n

OpenPool ==
    /\ ~up /\ opens < MaxOpens
    /\ up' = TRUE /\ opens' = opens + 1
    /\ run_id' = NextRun
    /\ UNCHANGED <<objects, pc, op, tmp, hold, ops, fails>>

(* The process ends or the power fails: a lock keeps what was in memory,   *)
(* with whichever of its id values had reached the media.                  *)
Crash ==
    /\ up /\ up' = FALSE
    /\ runid' \in [Objects -> UNION {media[o] : o \in Objects}]
    /\ \A o \in Objects : runid'[o] \in media[o]
    /\ media' = [o \in Objects |-> {runid'[o]}]
    /\ pc' = [t \in Threads |-> "idle"]
    /\ op' = [t \in Threads |-> NoOp]
    /\ tmp' = [t \in Threads |-> 0]
    /\ hold' = [t \in Threads |-> {}]
    /\ UNCHANGED <<run_id, opens, mem, ops, fails>>

-----------------------------------------------------------------------------
(* The calls.  A thread unlocks what it was granted, waits on a condition  *)
(* with a mutex it was granted, and does not take a lock twice.            *)

Holds(t, o) == \E m \in Modes : <<o, m>> \in hold[t]

CallsOf(t) ==
    {Operation(k, l, m, l) : k \in {"lock", "try"}, m \in Modes,
                             l \in {x \in Locks : ~Holds(t, x)}}
    \cup {Operation("assert", l, "wr", l) : l \in Locks}
    \cup {Operation("unlock", h[1], h[2], h[1]) : h \in hold[t]}
    \cup {Operation("wait", c, "wr", l) :
            c \in Conds, l \in {x \in Locks : <<x, "wr">> \in hold[t]}}
    \cup {Operation("signal", c, "wr", c) : c \in Conds}

Call(t) ==
    /\ At(t, "idle") /\ ops[t] < MaxOps
    /\ \E c \in CallsOf(t) : op' = [op EXCEPT ![t] = c]
    /\ ops' = [ops EXCEPT ![t] = @ + 1]
    /\ Goto(t, "get")
    /\ UNCHANGED <<run_id, up, opens, objects, tmp, hold, fails>>

\* pmemobj_mutex_zero, pmemobj_rwlock_zero and pmemobj_cond_zero, which
\* are not thread-safe: nobody is using the object.
ZeroObject(o) ==
    /\ up /\ runid[o] # 0
    /\ \A t \in Threads :
          /\ o \in Locks => ~Holds(t, o)
          /\ op[t].obj # o /\ op[t].mutex # o
    /\ runid' = [runid EXCEPT ![o] = 0]
    /\ media' = [media EXCEPT ![o] = {0}]
    /\ UNCHANGED <<run_id, up, opens, mem, pc, op, tmp, hold, ops, fails>>

-----------------------------------------------------------------------------
(* _get_value, on the object op[t].obj.                                    *)

\* The id word is this run's: the object is ready, and the call goes on.
GetReady(t) ==
    /\ At(t, "get") /\ runid[op[t].obj] = run_id
    /\ Goto(t, "got")
    /\ UNCHANGED <<run_id, up, opens, objects, op, tmp, hold, ops, fails>>

\* It is another run's.  While it is run_id - 1 somebody is initialising
\* the object and the loop spins.
GetOld(t) ==
    /\ At(t, "get") /\ runid[op[t].obj] \notin {run_id, run_id - 1}
    /\ tmp' = [tmp EXCEPT ![t] = runid[op[t].obj]]
    /\ Goto(t, "cas")
    /\ UNCHANGED <<run_id, up, opens, objects, op, hold, ops, fails>>

\* Mutant of _get_value: a plain store instead of the compare-and-swap.
ClaimNoCas(t) ==
    /\ At(t, "cas")
    /\ SetRunid(op[t].obj, run_id - 1)
    /\ tmp' = [tmp EXCEPT ![t] = 0]
    /\ Goto(t, "init")
    /\ UNCHANGED <<run_id, up, opens, mem, op, hold, ops, fails>>

\* The compare-and-swap to run_id - 1 makes the thread the initialiser.
Claim(t) ==
    /\ At(t, "cas") /\ runid[op[t].obj] = tmp[t]
    /\ SetRunid(op[t].obj, run_id - 1)
    /\ tmp' = [tmp EXCEPT ![t] = 0]
    /\ Goto(t, "init")
    /\ UNCHANGED <<run_id, up, opens, mem, op, hold, ops, fails>>

ClaimLost(t) ==
    /\ At(t, "cas") /\ runid[op[t].obj] # tmp[t]
    /\ tmp' = [tmp EXCEPT ![t] = 0]
    /\ Goto(t, "get")
    /\ UNCHANGED <<run_id, up, opens, objects, op, hold, ops, fails>>

\* init_value succeeds, ...
InitValue(t) ==
    /\ At(t, "init")
    /\ mem' = [mem EXCEPT ![op[t].obj] = Fresh]
    /\ Goto(t, "publish")
    /\ UNCHANGED <<run_id, up, opens, runid, media, op, tmp, hold, ops, fails>>

\* Mutant of _get_value: the failure leaves the word claimed.
InitFailsClaimed(t) ==
    /\ At(t, "init") /\ fails < MaxFails
    /\ fails' = fails + 1
    /\ op' = [op EXCEPT ![t] = NoOp]
    /\ Goto(t, "idle")
    /\ UNCHANGED <<run_id, up, opens, objects, tmp, hold, ops>>

\* ... or fails: the word goes back to 0 and the call returns EINVAL.
InitFails(t) ==
    /\ At(t, "init") /\ fails < MaxFails
    /\ fails' = fails + 1
    /\ SetRunid(op[t].obj, 0)
    /\ op' = [op EXCEPT ![t] = NoOp]
    /\ Goto(t, "idle")
    /\ UNCHANGED <<run_id, up, opens, mem, tmp, hold, ops>>

\* The compare-and-swap to run_id lets the spinning threads go on.  Had
\* somebody interfered with the word the call would return EINVAL.
Publish(t) ==
    LET mine == runid[op[t].obj] = run_id - 1
    IN /\ At(t, "publish")
       /\ IF mine THEN SetRunid(op[t].obj, run_id) ELSE UNCHANGED <<runid, media>>
       /\ op' = IF mine THEN op ELSE [op EXCEPT ![t] = NoOp]
       /\ Goto(t, IF mine THEN "get" ELSE "idle")
       /\ UNCHANGED <<run_id, up, opens, mem, tmp, hold, ops, fails>>

-----------------------------------------------------------------------------
(* The POSIX call at the end.                                              *)

Finish(t) == /\ op' = [op EXCEPT ![t] = NoOp]
             /\ Goto(t, "idle")
             /\ UNCHANGED <<run_id, up, opens, runid, media, tmp, ops, fails>>

Free(l, m) == mem[l].w = NoThread /\ (m = "wr" => mem[l].r = {})

Taken(t, l, m) == IF m = "wr" THEN [mem EXCEPT ![l].w = t]
                  ELSE [mem EXCEPT ![l].r = @ \cup {t}]
Released(t, l, m) == IF m = "wr" THEN [mem EXCEPT ![l].w = NoThread]
                     ELSE [mem EXCEPT ![l].r = @ \ {t}]

\* lock, rdlock, wrlock, and the try variants when the lock is free.
Grant(t) ==
    LET l == op[t].obj  m == op[t].mode
    IN /\ At(t, "got") /\ op[t].kind \in {"lock", "try"} /\ Free(l, m)
       /\ mem' = Taken(t, l, m)
       /\ hold' = [hold EXCEPT ![t] = @ \cup {<<l, m>>}]
       /\ Finish(t)

\* A try variant on a lock that is not free; also a timed one that gives up.
Refuse(t) ==
    /\ At(t, "got") /\ op[t].kind = "try" /\ ~Free(op[t].obj, op[t].mode)
    /\ Finish(t)
    /\ UNCHANGED <<mem, hold>>

Unlock(t) ==
    /\ At(t, "got") /\ op[t].kind = "unlock"
    /\ mem' = Released(t, op[t].obj, op[t].mode)
    /\ hold' = [hold EXCEPT ![t] = @ \ {<<op[t].obj, op[t].mode>>}]
    /\ Finish(t)

\* pmemobj_mutex_assert_locked takes a mutex that is free and gives it
\* back.
AssertBusy(t) ==
    /\ At(t, "got") /\ op[t].kind = "assert" /\ ~Free(op[t].obj, "wr")
    /\ Finish(t)
    /\ UNCHANGED <<mem, hold>>

\* Mutant of pmemobj_mutex_assert_locked: the mutex is not given back.
AssertTakesKeeps(t) ==
    /\ At(t, "got") /\ op[t].kind = "assert" /\ Free(op[t].obj, "wr")
    /\ mem' = Taken(t, op[t].obj, "wr")
    /\ Finish(t)
    /\ UNCHANGED hold

AssertTakes(t) ==
    /\ At(t, "got") /\ op[t].kind = "assert" /\ Free(op[t].obj, "wr")
    /\ mem' = Taken(t, op[t].obj, "wr")
    /\ hold' = [hold EXCEPT ![t] = @ \cup {<<op[t].obj, "wr">>}]
    /\ op' = [op EXCEPT ![t].kind = "unlock"]
    /\ UNCHANGED <<run_id, up, opens, runid, media, pc, tmp, ops, fails>>

\* pmemobj_cond_wait and timedwait: get_cond, then get_mutex, then the
\* wait, which gives the mutex up, and takes it again when it ends.
WaitMutex(t) ==
    /\ At(t, "got") /\ op[t].kind = "wait" /\ op[t].obj \in Conds
    /\ op' = [op EXCEPT ![t] = Operation("wait", op[t].mutex, "wr", op[t].obj)]
    /\ Goto(t, "get")
    /\ UNCHANGED <<run_id, up, opens, objects, tmp, hold, ops, fails>>

Wait(t) ==
    LET l == op[t].obj  c == op[t].mutex
    IN /\ At(t, "got") /\ op[t].kind = "wait" /\ l \in Locks
       /\ mem' = [Released(t, l, "wr") EXCEPT ![c].q = @ \cup {t}]
       /\ hold' = [hold EXCEPT ![t] = @ \ {<<l, "wr">>}]
       /\ Goto(t, "wait")
       /\ UNCHANGED <<run_id, up, opens, runid, media, op, tmp, ops, fails>>

\* A timeout or a wake-up without a signal.
Wake(t) ==
    /\ At(t, "wait") /\ t \in mem[op[t].mutex].q
    /\ mem' = [mem EXCEPT ![op[t].mutex].q = @ \ {t}]
    /\ UNCHANGED <<run_id, up, opens, runid, media, pc, op, tmp, hold, ops, fails>>

Relock(t) ==
    /\ At(t, "wait") /\ t \notin mem[op[t].mutex].q /\ Free(op[t].obj, "wr")
    /\ mem' = Taken(t, op[t].obj, "wr")
    /\ hold' = [hold EXCEPT ![t] = @ \cup {<<op[t].obj, "wr">>}]
    /\ Finish(t)

\* signal wakes at least one waiter, broadcast all.
Signal(t) ==
    LET c == op[t].obj
    IN /\ At(t, "got") /\ op[t].kind = "signal"
       /\ \E woken \in SUBSET mem[c].q :
             /\ mem[c].q # {} => woken # {}
             /\ mem' = [mem EXCEPT ![c].q = @ \ woken]
       /\ Finish(t)
       /\ UNCHANGED hold

-----------------------------------------------------------------------------
Get(t) == \/ GetReady(t) \/ GetOld(t) \/ Claim(t) \/ ClaimLost(t)
          \/ InitValue(t) \/ InitFails(t) \/ Publish(t)

Posix(t) == \/ Grant(t) \/ Refuse(t) \/ Unlock(t) \/ AssertBusy(t)
            \/ AssertTakes(t) \/ WaitMutex(t) \/ Wait(t) \/ Wake(t)
            \/ Relock(t) \/ Signal(t)

Next == \/ OpenPool \/ Crash
        \/ \E t \in Threads : Call(t) \/ Get(t) \/ Posix(t)
        \/ \E o \in Objects : ZeroObject(o)

(* A thread inside _get_value keeps running.                               *)
Fairness == \A t \in Threads : WF_vars(Get(t))

Spec == Init /\ [][Next]_vars /\ Fairness

-----------------------------------------------------------------------------
Memory == [gen : 0 .. MaxOpens, w : Threads \cup {NoThread},
           r : SUBSET Threads, q : SUBSET Threads]
Operations == [kind : {"none", "lock", "try", "assert", "unlock", "wait", "signal"},
               obj : Objects \cup {NoThread}, mode : Modes,
               mutex : Objects \cup {NoThread}]

(* Every variable has its type.                                            *)
TypeOK ==
    /\ run_id \in 0 .. IdWrap - 1 /\ up \in BOOLEAN /\ opens \in 0 .. MaxOpens
    /\ runid \in [Objects -> 0 .. IdWrap - 1]
    /\ media \in [Objects -> SUBSET (0 .. IdWrap - 1)]
    /\ mem \in [Objects -> Memory]
    /\ pc \in [Threads -> {"idle", "get", "cas", "init", "publish", "got", "wait"}]
    /\ op \in [Threads -> Operations]
    /\ tmp \in [Threads -> 0 .. IdWrap - 1]
    /\ hold \in [Threads -> SUBSET (Locks \X Modes)]
    /\ ops \in [Threads -> Nat] /\ fails \in Nat

(* A thread that gets past _get_value finds an object that this run, and   *)
(* no earlier one, has initialised, whatever ids the crashes before left;  *)
(* the ids stay within their word.                                         *)
UsedIsInitialised ==
    /\ TypeOK
    /\ \A t \in Threads :
         pc[t] \in {"got", "wait"} => mem[op[t].obj].gen = opens

(* Mutual exclusion among the threads of a run: a writer is alone with the *)
(* lock.  An object initialised a second time while in use, or used while  *)
(* being initialised, would admit a second holder.                         *)
Exclusion ==
    \A t, u \in Threads, l \in Locks :
        t # u /\ <<l, "wr">> \in hold[t] => ~Holds(u, l)

(* A lock that is ready is held by nobody but threads of this run that     *)
(* were granted it: what a crash left in its memory never blocks anybody.  *)
HeldByTheLiving ==
    up => \A l \in Locks : runid[l] = run_id =>
            /\ mem[l].w # NoThread => <<l, "wr">> \in hold[mem[l].w]
            /\ \A t \in mem[l].r : <<l, "rd">> \in hold[t]

(* A thread in _get_value comes out of it: the id word does not stay       *)
(* claimed, and the losers of a race do not spin for ever.                 *)
GetReturns ==
    \A t \in Threads :
        pc[t] \in {"get", "cas", "init", "publish"} ~> pc[t] \in {"got", "idle", "wait"}
=============================================================================
