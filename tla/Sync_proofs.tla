----------------------------- MODULE Sync_proofs -----------------------------
(***************************************************************************)
(* Proofs that the run ids next to the locks and conditions of a pool tell *)
(* the run that initialised them, and that locks taken through them        *)
(* exclude each other, for any threads and objects, any number of opens    *)
(* that the id word can count, and crashes at any point.                   *)
(***************************************************************************)
EXTENDS Sync, TLAPS

(* The id of the k-th open: two more than the one before, without the 0.   *)
Id(k) == IF FirstRun + 2 * k < IdWrap THEN FirstRun + 2 * k
         ELSE FirstRun + 2 * k + 2 - IdWrap

(* What the id words can hold, in memory and on media: 0, or the id of     *)
(* some open so far, or the number before it of an initialisation that a   *)
(* crash interrupted.                                                      *)
IdsInv ==
    /\ run_id = Id(opens)
    /\ up => opens > 0
    /\ \A o \in Objects :
          /\ runid[o] \in media[o]
          /\ \A v \in media[o] : v = 0 \/ \E k \in 1 .. opens : v \in {Id(k), Id(k) - 1}

(* A call asks for an object of its kind, and an unlock or a wait for a    *)
(* lock that the thread has.                                               *)
Asks(t) ==
    /\ pc[t] = "idle" => op[t] = NoOp
    /\ pc[t] = "wait" => /\ op[t].kind = "wait"
                         /\ op[t].obj \in Locks /\ op[t].mutex \in Conds
    /\ pc[t] \notin {"idle", "wait"} =>
          \/ op[t].kind \in {"lock", "try"} /\ op[t].obj \in Locks
          \/ op[t].kind = "assert" /\ op[t].obj \in Locks /\ op[t].mode = "wr"
          \/ /\ op[t].kind = "unlock" /\ op[t].obj \in Locks
             /\ <<op[t].obj, op[t].mode>> \in hold[t]
          \/ /\ op[t].kind = "wait" /\ op[t].obj \in Conds /\ op[t].mutex \in Locks
             /\ <<op[t].mutex, "wr">> \in hold[t]
          \/ /\ op[t].kind = "wait" /\ op[t].obj \in Locks /\ op[t].mutex \in Conds
             /\ <<op[t].obj, "wr">> \in hold[t]
          \/ op[t].kind = "signal" /\ op[t].obj \in Conds

(* The id word of the object it is at tells what a thread may be doing     *)
(* with it: initialising it needs a claimed word, using it a ready one.    *)
WordOf(t) ==
    /\ pc[t] = "cas" => tmp[t] # run_id /\ tmp[t] # run_id - 1
    /\ pc[t] \in {"init", "publish"} => runid[op[t].obj] = run_id - 1
    /\ pc[t] = "publish" => mem[op[t].obj] = Fresh
    /\ pc[t] \in {"got", "wait"} => runid[op[t].obj] = run_id
    /\ pc[t] # "idle" /\ op[t].kind = "wait" /\ op[t].mutex \in Conds
          => runid[op[t].mutex] = run_id

(* Nobody is inside a closed pool.                                         *)
Quiet == ~up => \A t \in Threads : pc[t] = "idle" /\ hold[t] = {}

(* The threads that initialise are at different objects.                   *)
Initialising(t) == pc[t] \in {"init", "publish"}
OneInitialiser ==
    \A t, u \in Threads :
        Initialising(t) /\ Initialising(u) /\ op[t].obj = op[u].obj => t = u

(* A ready object was initialised in this run.                             *)
ReadyIsInitialised ==
    up => \A o \in Objects : runid[o] = run_id => mem[o].gen = opens

(* Only a ready lock is held, ...                                          *)
HeldIsReady ==
    \A t \in Threads, l \in Locks, m \in Modes :
        <<l, m>> \in hold[t] => runid[l] = run_id

(* ... and the memory of a ready lock names its holders, a writer alone.   *)
MemoryNamesHolders ==
    up => \A l \in Locks : runid[l] = run_id =>
            /\ \A t \in Threads : mem[l].w = t <=> <<l, "wr">> \in hold[t]
            /\ \A t \in Threads : t \in mem[l].r <=> <<l, "rd">> \in hold[t]
            /\ mem[l].w # NoThread => mem[l].r = {}

SyncInv ==
    /\ TypeOK /\ IdsInv /\ Quiet
    /\ \A t \in Threads : Asks(t) /\ WordOf(t)
    /\ OneInitialiser /\ ReadyIsInitialised
    /\ HeldIsReady /\ MemoryNamesHolders

-----------------------------------------------------------------------------
(* A thread outside any call asks for nothing.                             *)
LEMMA NoOpIsOperation == NoOp \in Operations
BY Zenon DEF NoOp, Operation, Operations, Modes

(* The id of an open is an even number of the id word's range, and not 0.  *)
LEMMA IdRange ==
    ASSUME NEW k \in 0 .. MaxOpens
    PROVE  /\ Id(k) \in 0 .. IdWrap - 1 /\ Id(k) % 2 = 0
           /\ k > 0 => Id(k) >= 2
BY SyncAssumption DEF Id

(* Two opens have different ids, also across the wrap of the id word, and  *)
(* none the number before another's.                                       *)
LEMMA IdsDiffer ==
    ASSUME NEW j \in 0 .. MaxOpens, NEW k \in 0 .. MaxOpens, j < k
    PROVE  /\ Id(j) # Id(k) /\ Id(j) # Id(k) - 1
           /\ Id(j) - 1 # Id(k) /\ Id(j) - 1 # Id(k) - 1
<1>1. Id(j) # Id(k)
  BY SyncAssumption DEF Id
<1> QED
  BY <1>1, IdRange

(* obj_runtime_init counts to the id of the next open.                     *)
LEMMA NextRunIsNextId ==
    ASSUME NEW k \in 0 .. MaxOpens - 1, run_id = Id(k)
    PROVE  NextRun = Id(k + 1)
<1>1. Id(k) \in 0 .. IdWrap - 1 /\ Id(k) % 2 = 0 /\ IdWrap % 2 = 0 /\ IdWrap \in Nat
  BY IdRange, SyncAssumption
<1>2. Id(k) + 2 <= IdWrap
  BY <1>1
<1>3. (Id(k) + 2) % IdWrap = IF Id(k) + 2 = IdWrap THEN 0 ELSE Id(k) + 2
  <2>1. CASE Id(k) + 2 = IdWrap
    BY <1>1, <2>1
  <2>2. CASE Id(k) + 2 < IdWrap
    BY <1>1, <2>2
  <2> QED BY <1>1, <1>2, <2>1, <2>2
<1>4. Id(k + 1) = IF Id(k) + 2 = IdWrap THEN 2 ELSE Id(k) + 2
  BY SyncAssumption, <1>1 DEF Id
<1> QED
  BY <1>3, <1>4, <1>1 DEF NextRun

-----------------------------------------------------------------------------
(* A pool that is closed for the first time: zeroed words, nobody inside.  *)
LEMMA InitEstablishesSyncInv == Init => SyncInv
<1> SUFFICES ASSUME Init PROVE SyncInv
  BY Zenon
<1> USE SyncAssumption DEF Init
<1>1. TypeOK
  <2>1. [gen |-> 0, w |-> NoThread, r |-> {}, q |-> {}]
            \in Memory
    BY DEF Memory
  <2>2. mem \in [Objects -> Memory]
    BY <2>1, Zenon
  <2>3. op \in [Threads -> Operations]
    BY NoOpIsOperation, Zenon
  <2>4. /\ runid \in [Objects -> 0 .. IdWrap - 1]
        /\ media \in [Objects -> SUBSET (0 .. IdWrap - 1)]
        /\ tmp \in [Threads -> 0 .. IdWrap - 1]
    OBVIOUS
  <2> QED
    <3>1. run_id \in 0 .. IdWrap - 1 /\ opens \in 0 .. MaxOpens
      OBVIOUS
    <3>2. up \in BOOLEAN
      BY Zenon
    <3>3. /\ pc \in [Threads -> {"idle", "get", "cas", "init", "publish", "got", "wait"}]
          /\ hold \in [Threads -> SUBSET (Locks \X Modes)]
          /\ ops \in [Threads -> Nat] /\ fails \in Nat
      BY Zenon
    <3> QED BY <2>2, <2>3, <2>4, <3>1, <3>2, <3>3, Zenon DEF TypeOK
<1>2. IdsInv
  BY DEF IdsInv, Id
<1>3. \A t \in Threads : Asks(t) /\ WordOf(t)
  BY Zenon DEF Asks, WordOf
<1>4. Quiet /\ OneInitialiser /\ ReadyIsInitialised
  BY Zenon DEF Quiet, OneInitialiser, Initialising, ReadyIsInitialised
<1>5. HeldIsReady /\ MemoryNamesHolders
  BY Zenon DEF HeldIsReady, MemoryNamesHolders
<1> QED
  BY <1>1, <1>2, <1>3, <1>4, <1>5, Zenon DEF SyncInv

(* After an open no word has the new id or the number before it, so every  *)
(* object is one that its first user will initialise.                      *)
LEMMA OpenKeepsSyncInv == SyncInv /\ OpenPool => SyncInv'
<1> SUFFICES ASSUME SyncInv, OpenPool PROVE SyncInv'
  BY Zenon
<1> USE SyncAssumption
<1>1. opens \in 0 .. MaxOpens - 1 /\ opens' = opens + 1 /\ run_id = Id(opens)
  BY DEF SyncInv, TypeOK, IdsInv, OpenPool
<1>2. run_id' = Id(opens + 1)
  BY <1>1, NextRunIsNextId, Zenon DEF OpenPool
<1>3. Id(opens + 1) \in 0 .. IdWrap - 1 /\ Id(opens + 1) >= 2
  BY <1>1, IdRange
<1>4. ASSUME NEW o \in Objects
      PROVE  runid[o] # run_id' /\ runid[o] # run_id' - 1
  <2>1. runid[o] = 0 \/ \E k \in 1 .. opens : runid[o] \in {Id(k), Id(k) - 1}
    BY Zenon DEF SyncInv, IdsInv
  <2>2. ASSUME NEW k \in 1 .. opens
        PROVE  /\ Id(k) # Id(opens + 1) /\ Id(k) # Id(opens + 1) - 1
               /\ Id(k) - 1 # Id(opens + 1) /\ Id(k) - 1 # Id(opens + 1) - 1
    BY <1>1, IdsDiffer
  <2> QED
    BY <2>1, <2>2, <1>2, <1>3
<1>5. TypeOK'
  BY <1>1, <1>2, <1>3 DEF SyncInv, TypeOK, OpenPool, objects
<1>6. IdsInv'
  <2>1. ASSUME NEW v, v = 0 \/ \E k \in 1 .. opens : v \in {Id(k), Id(k) - 1}
        PROVE  v = 0 \/ \E k \in 1 .. opens + 1 : v \in {Id(k), Id(k) - 1}
    BY <1>1, <2>1
  <2> QED
    BY <1>1, <1>2, <2>1 DEF SyncInv, IdsInv, OpenPool, objects
<1>7. (\A t \in Threads : Asks(t) /\ WordOf(t))'
  BY Zenon DEF SyncInv, Quiet, Asks, WordOf, OpenPool, objects
<1>8. (Quiet /\ OneInitialiser /\ ReadyIsInitialised)'
  BY <1>4 DEF SyncInv, Quiet, OneInitialiser, Initialising, ReadyIsInitialised,
              OpenPool, objects
<1>9. (HeldIsReady /\ MemoryNamesHolders)'
  BY <1>4, Zenon DEF SyncInv, Quiet, HeldIsReady, MemoryNamesHolders, OpenPool, objects, Objects
<1> QED
  BY <1>5, <1>6, <1>7, <1>8, <1>9, Zenon DEF SyncInv

(* A crash leaves in each word a value it has had, and no thread inside.   *)
LEMMA CrashKeepsSyncInv == SyncInv /\ Crash => SyncInv'
<1> SUFFICES ASSUME SyncInv, Crash PROVE SyncInv'
  BY Zenon
<1> USE SyncAssumption DEF Crash
<1>1. TypeOK'
  <2>1. /\ runid' \in [Objects -> 0 .. IdWrap - 1]
        /\ media' \in [Objects -> SUBSET (0 .. IdWrap - 1)]
    BY Zenon DEF SyncInv, TypeOK
  <2>2. op' \in [Threads -> Operations]
    BY NoOpIsOperation, Zenon
  <2>3. tmp' \in [Threads -> 0 .. IdWrap - 1] /\ hold' \in [Threads -> SUBSET (Locks \X Modes)]
    OBVIOUS
  <2> QED
    BY <2>1, <2>2, <2>3, Zenon DEF SyncInv, TypeOK
<1>2. IdsInv'
  BY DEF SyncInv, IdsInv, Id
<1>3. (\A t \in Threads : Asks(t) /\ WordOf(t))'
  BY Zenon DEF Asks, WordOf
<1>4. (Quiet /\ OneInitialiser /\ ReadyIsInitialised)'
  BY Zenon DEF Quiet, OneInitialiser, Initialising, ReadyIsInitialised
<1>5. (HeldIsReady /\ MemoryNamesHolders)'
  BY Zenon DEF HeldIsReady, MemoryNamesHolders
<1> QED
  BY <1>1, <1>2, <1>3, <1>4, <1>5, Zenon DEF SyncInv

(* The id of an open pool is none that a zeroed word has.                  *)
LEMMA OpenHasId ==
    ASSUME SyncInv, up
    PROVE  opens \in 1 .. MaxOpens /\ run_id = Id(opens) /\ run_id \in 2 .. IdWrap - 1
<1>1. opens \in 0 .. MaxOpens /\ opens > 0 /\ run_id = Id(opens) /\ run_id \in 0 .. IdWrap - 1
  BY Zenon DEF SyncInv, IdsInv, TypeOK
<1>2. Id(opens) >= 2
  BY <1>1, IdRange, Zenon
<1> QED
  BY <1>1, <1>2, SyncAssumption

-----------------------------------------------------------------------------
(* What the steps of one thread leave alone.                               *)

(* While a thread is in a call its object is one of the pool's, and while  *)
(* the pool is open its id is neither 0 nor 1.                             *)
LEMMA InCall ==
    ASSUME SyncInv, NEW t \in Threads, up, pc[t] # "idle"
    PROVE  /\ op[t].obj \in Objects /\ run_id \in 2 .. IdWrap - 1
           /\ op[t].kind = "wait" => op[t].mutex \in Objects
<1>1. run_id \in 2 .. IdWrap - 1
  BY OpenHasId, Zenon
<1>2. Asks(t)
  BY Zenon DEF SyncInv
<1> QED
  BY <1>1, <1>2, Zenon DEF Asks, Objects

(* What a step of one thread leaves alone when it writes no id word: the   *)
(* other threads, the initialised objects, and the object a thread is      *)
(* about to publish.                                                       *)
OthersKeep(t) ==
    \A u \in Threads \ {t} :
        pc'[u] = pc[u] /\ op'[u] = op[u] /\ tmp'[u] = tmp[u] /\ hold'[u] = hold[u]
ObjectsKeep(t) ==
    /\ \A o \in Objects : runid[o] # run_id - 1 => mem'[o].gen = mem[o].gen
    /\ \A u \in Threads \ {t} : pc[u] = "publish" => mem'[op[u].obj] = mem[op[u].obj]

\* A step of one thread that leaves the runid words alone.
LEMMA ThreadStep ==
    ASSUME SyncInv, up, NEW t \in Threads,
           UNCHANGED <<run_id, up, opens, runid, media>>, TypeOK',
           OthersKeep(t), ObjectsKeep(t), Asks(t)', WordOf(t)',
           Initialising(t)' => Initialising(t) /\ op'[t] = op[t],
           \A l \in Locks, m \in Modes : <<l, m>> \in hold'[t] => runid[l] = run_id,
           MemoryNamesHolders'
    PROVE  SyncInv'
<1>1. IdsInv'
  BY Zenon DEF SyncInv, IdsInv
<1>2. Quiet'
  BY Zenon DEF Quiet
<1>3. ASSUME NEW u \in Threads \ {t} PROVE (Asks(u) /\ WordOf(u))'
  <2>1. Asks(u) /\ WordOf(u)
    BY Zenon DEF SyncInv
  <2>2. Asks(u)'
    BY <2>1, Zenon DEF Asks, OthersKeep
  <2>3. WordOf(u)'
    BY <2>1 DEF WordOf, Fresh, OthersKeep, ObjectsKeep
  <2> QED BY <2>2, <2>3, Zenon
<1>4. OneInitialiser'
  BY DEF SyncInv, OneInitialiser, Initialising, OthersKeep
<1>5. ReadyIsInitialised'
  <2>1. run_id - 1 # run_id
    BY OpenHasId
  <2> QED BY <2>1, Zenon DEF SyncInv, ReadyIsInitialised, ObjectsKeep
<1>6. HeldIsReady'
  BY Zenon DEF SyncInv, HeldIsReady, OthersKeep
<1> QED
  BY <1>1, <1>2, <1>3, <1>4, <1>5, <1>6, Zenon DEF SyncInv

(* A step of one thread that changes neither memory nor holders.           *)
LEMMA LookingStep ==
    ASSUME SyncInv, up, NEW t \in Threads,
           UNCHANGED <<run_id, up, opens, runid, media, mem, hold>>, TypeOK',
           OthersKeep(t), Asks(t)', WordOf(t)', ~Initialising(t)'
    PROVE  SyncInv'
<1>1. MemoryNamesHolders' /\ HeldIsReady'
  BY Zenon DEF SyncInv, MemoryNamesHolders, HeldIsReady
<1>2. ObjectsKeep(t)
  BY Zenon DEF ObjectsKeep
<1> QED
  BY <1>1, <1>2, ThreadStep, Zenon DEF HeldIsReady

(* A thread calls: what it asks for is of the right kind.                  *)
LEMMA CallKeepsSyncInv ==
    ASSUME SyncInv, NEW t \in Threads, Call(t)
    PROVE  SyncInv'
<1>1. PICK c \in CallsOf(t) : op' = [op EXCEPT ![t] = c]
  BY Zenon DEF Call
<1>2. /\ c \in Operations
      /\ \/ c.kind \in {"lock", "try"} /\ c.obj \in Locks
         \/ c.kind = "assert" /\ c.obj \in Locks /\ c.mode = "wr"
         \/ /\ c.kind = "unlock" /\ c.obj \in Locks
            /\ <<c.obj, c.mode>> \in hold[t]
         \/ /\ c.kind = "wait" /\ c.obj \in Conds /\ c.mutex \in Locks
            /\ <<c.mutex, "wr">> \in hold[t]
         \/ c.kind = "signal" /\ c.obj \in Conds
  <2>1. hold[t] \subseteq Locks \X Modes
    BY Zenon DEF SyncInv, TypeOK
  <2> DEFINE A == {Operation(k, l, m, l) : k \in {"lock", "try"}, m \in Modes,
                                           l \in {x \in Locks : ~Holds(t, x)}}
             B == {Operation("assert", l, "wr", l) : l \in Locks}
             C == {Operation("unlock", h[1], h[2], h[1]) : h \in hold[t]}
             D == {Operation("wait", d, "wr", l) :
                     d \in Conds, l \in {x \in Locks : <<x, "wr">> \in hold[t]}}
             E == {Operation("signal", d, "wr", d) : d \in Conds}
  <2>2. c \in A \cup B \cup C \cup D \cup E
    BY <1>1, SMTT(20) DEF CallsOf
  <2> HIDE DEF A, B, C, D, E
  <2>3. CASE c \in A
    BY <2>3 DEF A, Operation, Operations, Objects
  <2>4. CASE c \in B
    BY <2>4 DEF B, Operation, Operations, Objects, Modes
  <2>5. CASE c \in C
    BY <2>1, <2>5 DEF C, Operation, Operations, Objects, Modes
  <2>6. CASE c \in D
    <3>1. PICK d \in Conds, l \in {x \in Locks : <<x, "wr">> \in hold[t]} :
                 c = Operation("wait", d, "wr", l)
      BY <2>6, SMTT(20) DEF D
    <3> QED
      BY <3>1, Zenon DEF Operation, Operations, Objects, Modes
  <2>7. CASE c \in E
    BY <2>7 DEF E, Operation, Operations, Objects, Modes
  <2> QED
    BY <2>2, <2>3, <2>4, <2>5, <2>6, <2>7, Zenon
<1>3. /\ pc' = [pc EXCEPT ![t] = "get"] /\ ops' = [ops EXCEPT ![t] = @ + 1]
      /\ UNCHANGED <<run_id, up, opens, runid, media, mem, tmp, hold, fails>>
      /\ up
  BY Zenon DEF Call, Goto, At, objects
<1>4. TypeOK'
  BY <1>1, <1>2, <1>3 DEF SyncInv, TypeOK
<1>5. /\ pc'[t] = "get" /\ op'[t] = c /\ hold' = hold
      /\ OthersKeep(t)
  BY <1>1, <1>3, Zenon DEF SyncInv, TypeOK, OthersKeep
<1>6. Asks(t)' /\ WordOf(t)' /\ ~Initialising(t)'
  BY <1>2, <1>5, SyncAssumption, Zenon DEF Asks, WordOf, Initialising
<1> QED
  BY <1>3, <1>4, <1>5, <1>6, LookingStep, Zenon

(* pmemobj_mutex_zero and its like: nobody is at the object.               *)
LEMMA ZeroKeepsSyncInv ==
    ASSUME SyncInv, NEW z \in Objects, ZeroObject(z)
    PROVE  SyncInv'
<1>1. /\ runid' = [runid EXCEPT ![z] = 0] /\ media' = [media EXCEPT ![z] = {0}]
      /\ UNCHANGED <<run_id, up, opens, mem, pc, op, tmp, hold, ops, fails>>
      /\ \A t \in Threads : /\ op[t].obj # z /\ op[t].mutex # z
                            /\ z \in Locks => ~Holds(t, z)
      /\ up
  BY Zenon DEF ZeroObject
<1>2. run_id \in 2 .. IdWrap - 1
  BY <1>1, OpenHasId, Zenon
<1>3. TypeOK'
  BY <1>1, SyncAssumption DEF SyncInv, TypeOK
<1>4. IdsInv'
  BY <1>1, Zenon DEF SyncInv, TypeOK, IdsInv
<1>5. runid[z]' # run_id /\ \A o \in Objects \ {z} : runid'[o] = runid[o]
  BY <1>1, <1>2 DEF SyncInv, TypeOK
<1>6. ASSUME NEW t \in Threads PROVE (Asks(t) /\ WordOf(t))'
  <2>1. Asks(t) /\ WordOf(t) /\ op[t].obj # z /\ op[t].mutex # z
    BY <1>1, Zenon DEF SyncInv
  <2>2. Asks(t)'
    BY <1>1, <2>1, Zenon DEF Asks
  <2>3. /\ pc[t] # "idle" => runid'[op[t].obj] = runid[op[t].obj]
        /\ op[t].mutex \in Conds => runid'[op[t].mutex] = runid[op[t].mutex]
    BY <1>1, <1>5, <2>1, InCall, Zenon DEF Objects
  <2>4. WordOf(t)'
    BY <1>1, <2>1, <2>3, Zenon DEF WordOf, Fresh
  <2> QED BY <2>2, <2>4, Zenon
<1>7. (Quiet /\ OneInitialiser)'
  BY <1>1, Zenon DEF SyncInv, Quiet, OneInitialiser, Initialising
<1>8. ReadyIsInitialised'
  BY <1>1, <1>5, Zenon DEF SyncInv, ReadyIsInitialised
<1>9. HeldIsReady'
  BY <1>1, <1>5, Zenon DEF SyncInv, HeldIsReady, Holds, Objects
<1>10. MemoryNamesHolders'
  BY <1>1, <1>5, Zenon DEF SyncInv, MemoryNamesHolders, Objects
<1> QED
  BY <1>3, <1>4, <1>6, <1>7, <1>8, <1>9, <1>10, Zenon DEF SyncInv

-----------------------------------------------------------------------------
(* _get_value.                                                             *)

(* The steps that only look at the word.                                   *)
LEMMA LookKeepsSyncInv ==
    ASSUME SyncInv, NEW t \in Threads, GetReady(t) \/ GetOld(t) \/ ClaimLost(t)
    PROVE  SyncInv'
<1>1. op[t].obj \in Objects /\ up /\ pc[t] \in {"get", "cas"}
  BY InCall, Zenon DEF GetReady, GetOld, ClaimLost, At
<1>2. /\ UNCHANGED <<run_id, up, opens, runid, media, mem, op, hold, ops, fails>>
      /\ \/ /\ pc' = [pc EXCEPT ![t] = "got"] /\ tmp' = tmp
            /\ runid[op[t].obj] = run_id
         \/ /\ pc' = [pc EXCEPT ![t] = "cas"]
            /\ tmp' = [tmp EXCEPT ![t] = runid[op[t].obj]]
            /\ runid[op[t].obj] # run_id /\ runid[op[t].obj] # run_id - 1
         \/ pc' = [pc EXCEPT ![t] = "get"] /\ tmp' = [tmp EXCEPT ![t] = 0]
  BY Zenon DEF GetReady, GetOld, ClaimLost, At, Goto, objects
<1>3. TypeOK'
  BY <1>1, <1>2, SyncAssumption DEF SyncInv, TypeOK
<1>4. /\ \/ pc'[t] = "got" /\ runid[op[t].obj] = run_id
         \/ /\ pc'[t] = "cas" /\ tmp'[t] = runid[op[t].obj]
            /\ runid[op[t].obj] # run_id /\ runid[op[t].obj] # run_id - 1
         \/ pc'[t] = "get"
      /\ OthersKeep(t)
  BY <1>2, Zenon DEF SyncInv, TypeOK, OthersKeep
<1>5. Asks(t) /\ WordOf(t)
  BY Zenon DEF SyncInv
<1>6. Asks(t)' /\ WordOf(t)' /\ ~Initialising(t)'
  BY <1>1, <1>2, <1>4, <1>5, Zenon DEF Asks, WordOf, Initialising
<1> QED
  BY <1>1, <1>2, <1>3, <1>4, <1>6, LookingStep, Zenon

(* A thread writes the id word of an object that is not ready and that no  *)
(* other thread initialises; who makes it ready has initialised it.        *)
WordChanges(o, v) ==
    /\ runid'[o] = v /\ media'[o] = media[o] \cup {v}
    /\ \A x \in Objects \ {o} : runid'[x] = runid[x] /\ media'[x] = media[x]
NoOtherAt(t, o) == \A u \in Threads \ {t} : Initialising(u) => op[u].obj # o

\* A step of one thread on the runid word of one object (_get_value).
LEMMA WordStep ==
    ASSUME SyncInv, up, NEW t \in Threads, NEW o \in Objects,
           NEW v \in {0, run_id, run_id - 1},
           UNCHANGED <<run_id, up, opens, mem, hold>>, TypeOK',
           runid[o] # run_id, WordChanges(o, v), OthersKeep(t), NoOtherAt(t, o),
           Asks(t)', WordOf(t)', Initialising(t)' => op'[t].obj = o,
           v = run_id => mem[o] = Fresh
    PROVE  SyncInv'
<1>1. opens \in 1 .. MaxOpens /\ run_id = Id(opens) /\ run_id \in 2 .. IdWrap - 1
  BY OpenHasId, Zenon
<1>4. IdsInv'
  <2>1. ASSUME NEW x \in Objects, NEW w \in media'[x]
        PROVE  w = 0 \/ \E k \in 1 .. opens : w \in {Id(k), Id(k) - 1}
    <3>1. CASE w \in media[x]
      BY <3>1, Zenon DEF SyncInv, IdsInv
    <3>2. CASE w = v
      BY <3>2, <1>1
    <3> QED BY <3>1, <3>2, Zenon DEF WordChanges
  <2>2. \A x \in Objects : runid'[x] \in media'[x]
    BY Zenon DEF SyncInv, IdsInv, WordChanges
  <2> QED BY <1>1, <2>1, <2>2 DEF IdsInv
<1>5. Quiet'
  BY Zenon DEF Quiet
<1>6. ASSUME NEW u \in Threads \ {t} PROVE (Asks(u) /\ WordOf(u))'
  <2>1. Asks(u) /\ WordOf(u)
    BY Zenon DEF SyncInv
  <2>2. Asks(u)'
    BY <2>1, ZenonT(30) DEF Asks, OthersKeep
  <2>3. /\ pc[u] \in {"init", "publish", "got", "wait"} => op[u].obj \in Objects \ {o}
        /\ pc[u] # "idle" /\ op[u].kind = "wait" /\ op[u].mutex \in Conds
              => op[u].mutex \in Objects \ {o}
    BY <2>1, InCall, Zenon DEF Initialising, WordOf, NoOtherAt
  <2>4. WordOf(u)'
    BY SMTT(20), <2>1, <2>3 DEF WordOf, Fresh, WordChanges, OthersKeep
  <2> QED BY <2>2, <2>4, Zenon
<1>7. OneInitialiser'
  BY DEF SyncInv, OneInitialiser, Initialising, OthersKeep, NoOtherAt
<1>8. ReadyIsInitialised'
  <2>1. v = run_id => mem[o].gen = opens
    BY DEF Fresh
  <2> QED BY <2>1, Zenon DEF SyncInv, ReadyIsInitialised, WordChanges
<1>9. HeldIsReady'
  BY ZenonT(30) DEF SyncInv, HeldIsReady, Objects, WordChanges
<1>10. MemoryNamesHolders'
  <2>1. ASSUME NEW l \in Locks, runid'[l] = run_id, NEW u \in Threads
        PROVE  /\ mem[l].w = u <=> <<l, "wr">> \in hold[u]
               /\ u \in mem[l].r <=> <<l, "rd">> \in hold[u]
               /\ mem[l].w # NoThread => mem[l].r = {}
    <3>1. CASE l = o
      <4>1. mem[l].w = NoThread /\ mem[l].r = {}
        BY <2>1, <3>1 DEF Fresh, WordChanges
      <4>2. <<l, "wr">> \notin hold[u] /\ <<l, "rd">> \notin hold[u]
        BY <3>1, Zenon DEF SyncInv, HeldIsReady, Modes
      <4> QED BY <4>1, <4>2, SyncAssumption, Zenon
    <3>2. CASE l # o
      BY <2>1, <3>2, Zenon DEF SyncInv, MemoryNamesHolders, Objects, WordChanges
    <3> QED BY <3>1, <3>2, Zenon
  <2>2. ASSUME NEW l \in Locks, runid'[l] = run_id
        PROVE  mem[l].w # NoThread => mem[l].r = {}
    <3>1. CASE l = o
      BY <2>2, <3>1 DEF Fresh, WordChanges
    <3>2. CASE l # o
      BY <2>2, <3>2, Zenon DEF SyncInv, MemoryNamesHolders, Objects, WordChanges
    <3> QED BY <3>1, <3>2, Zenon
  <2> QED BY <2>1, <2>2, Zenon DEF MemoryNamesHolders
<1> QED
  BY <1>4, <1>5, <1>6, <1>7, <1>8, <1>9, <1>10, Zenon DEF SyncInv

(* The compare-and-swap makes one initialiser of an object that nobody     *)
(* uses or initialises.                                                    *)
LEMMA ClaimKeepsSyncInv ==
    ASSUME SyncInv, NEW t \in Threads, Claim(t)
    PROVE  SyncInv'
<1> DEFINE o == op[t].obj
<1>1. o \in Objects /\ run_id \in 2 .. IdWrap - 1 /\ up /\ pc[t] = "cas"
  BY InCall, Zenon DEF Claim, At
<1>2. /\ UNCHANGED <<run_id, up, opens, mem, op, hold, ops, fails>>
      /\ pc' = [pc EXCEPT ![t] = "init"] /\ tmp' = [tmp EXCEPT ![t] = 0]
      /\ runid' = [runid EXCEPT ![o] = run_id - 1]
      /\ media' = [media EXCEPT ![o] = @ \cup {run_id - 1}]
      /\ runid[o] = tmp[t]
  BY Zenon DEF Claim, Goto, SetRunid
<1>3. Asks(t) /\ WordOf(t)
  BY Zenon DEF SyncInv
<1>4. runid[o] # run_id /\ runid[o] # run_id - 1
  BY <1>1, <1>2, <1>3, Zenon DEF WordOf
<1>5. TypeOK'
  BY <1>1, <1>2, SyncAssumption DEF SyncInv, TypeOK
<1>6. /\ pc'[t] = "init" /\ runid'[o] = run_id - 1
      /\ OthersKeep(t)
  BY <1>1, <1>2, Zenon DEF SyncInv, TypeOK, OthersKeep
<1>7. Asks(t)' /\ WordOf(t)'
  <2>1. op[t].mutex \in Conds /\ op[t].mutex # o => runid'[op[t].mutex] = runid[op[t].mutex]
    BY <1>2, Zenon DEF SyncInv, TypeOK, Objects
  <2> QED
    BY <1>1, <1>2, <1>3, <1>4, <1>6, <2>1, Zenon DEF Asks, WordOf
<1>8. WordChanges(o, run_id - 1)
  BY <1>1, <1>2, Zenon DEF SyncInv, TypeOK, WordChanges
<1>9. NoOtherAt(t, o)
  BY <1>4, Zenon DEF SyncInv, WordOf, Initialising, NoOtherAt
<1>10. op'[t].obj = o /\ run_id - 1 \in {0, run_id, run_id - 1} /\ run_id - 1 # run_id
  BY <1>1, <1>2
<1> HIDE DEF o
<1> QED
  BY <1>1, <1>2, <1>4, <1>5, <1>6, <1>7, <1>8, <1>9, <1>10, WordStep, Zenon

(* A failed init_value gives the claim back.                               *)
LEMMA InitFailsKeepsSyncInv ==
    ASSUME SyncInv, NEW t \in Threads, InitFails(t)
    PROVE  SyncInv'
<1> DEFINE o == op[t].obj
<1>1. o \in Objects /\ run_id \in 2 .. IdWrap - 1 /\ up /\ pc[t] = "init"
  BY InCall, Zenon DEF InitFails, At
<1>2. /\ UNCHANGED <<run_id, up, opens, mem, tmp, hold, ops>>
      /\ pc' = [pc EXCEPT ![t] = "idle"] /\ op' = [op EXCEPT ![t] = NoOp]
      /\ runid' = [runid EXCEPT ![o] = 0] /\ media' = [media EXCEPT ![o] = @ \cup {0}]
      /\ fails' = fails + 1
  BY Zenon DEF InitFails, Goto, SetRunid
<1>3. runid[o] = run_id - 1
  BY <1>1, Zenon DEF SyncInv, WordOf
<1>4. TypeOK'
  BY <1>1, <1>2, NoOpIsOperation, SyncAssumption DEF SyncInv, TypeOK
<1>5. /\ pc'[t] = "idle" /\ op'[t] = NoOp
      /\ OthersKeep(t)
  BY <1>2, Zenon DEF SyncInv, TypeOK, OthersKeep
<1>6. NoOtherAt(t, o)
  BY <1>1, Zenon DEF SyncInv, OneInitialiser, Initialising, NoOtherAt
<1>7. Asks(t)' /\ WordOf(t)' /\ ~Initialising(t)'
  BY <1>5, Zenon DEF Asks, WordOf, Initialising
<1>8. 0 \in {0, run_id, run_id - 1} /\ 0 # run_id /\ runid[o] # run_id
  BY <1>1, <1>3
<1>9. WordChanges(o, 0)
  BY <1>1, <1>2, Zenon DEF SyncInv, TypeOK, WordChanges
<1> HIDE DEF o
<1> QED
  BY <1>1, <1>2, <1>4, <1>5, <1>6, <1>7, <1>8, <1>9, WordStep, Zenon

(* init_value makes the memory new while nobody uses the object.           *)
LEMMA InitValueKeepsSyncInv ==
    ASSUME SyncInv, NEW t \in Threads, InitValue(t)
    PROVE  SyncInv'
<1> DEFINE o == op[t].obj
<1>1. o \in Objects /\ run_id \in 2 .. IdWrap - 1 /\ up /\ pc[t] = "init"
  BY InCall, Zenon DEF InitValue, At
<1>2. /\ UNCHANGED <<run_id, up, opens, runid, media, op, tmp, hold, ops, fails>>
      /\ pc' = [pc EXCEPT ![t] = "publish"] /\ mem' = [mem EXCEPT ![o] = Fresh]
  BY Zenon DEF InitValue, Goto
<1>3. runid[o] = run_id - 1 /\ Asks(t) /\ WordOf(t)
  BY <1>1, Zenon DEF SyncInv, WordOf
<1>4. Fresh \in Memory
  BY Zenon DEF SyncInv, TypeOK, Fresh, Memory
<1>5. TypeOK'
  BY <1>1, <1>2, <1>4, Zenon DEF SyncInv, TypeOK
<1>6. /\ pc'[t] = "publish" /\ mem'[o] = Fresh /\ \A x \in Objects \ {o} : mem'[x] = mem[x]
      /\ OthersKeep(t)
  BY <1>1, <1>2, Zenon DEF SyncInv, TypeOK, OthersKeep
<1>7. \A u \in Threads \ {t} : pc[u] = "publish" => op[u].obj \in Objects \ {o}
  BY <1>1, InCall, Zenon DEF SyncInv, OneInitialiser, Initialising
<1>8. Asks(t)'
  BY <1>1, <1>2, <1>3, <1>6, Zenon DEF Asks
<1>9. WordOf(t)'
  BY <1>1, <1>2, <1>3, <1>6, Zenon DEF WordOf, Fresh
<1>10. Initialising(t) /\ op'[t] = op[t]
  BY <1>1, <1>2, Zenon DEF Initialising
<1>11. MemoryNamesHolders'
  <2>1. \A l \in Locks : runid[l] = run_id => mem'[l] = mem[l]
    BY <1>1, <1>3, <1>6 DEF Objects
  <2>2. MemoryNamesHolders
    BY Zenon DEF SyncInv
  <2>3. ASSUME NEW l \in Locks, runid[l] = run_id
        PROVE  /\ \A u \in Threads : /\ mem'[l].w = u <=> <<l, "wr">> \in hold[u]
                                     /\ u \in mem'[l].r <=> <<l, "rd">> \in hold[u]
               /\ mem'[l].w # NoThread => mem'[l].r = {}
    BY <1>1, <2>1, <2>2, <2>3 DEF MemoryNamesHolders
  <2> QED BY <1>2, <2>3, Zenon DEF MemoryNamesHolders
<1>12. \A l \in Locks, m \in Modes : <<l, m>> \in hold'[t] => runid[l] = run_id
  BY <1>2, Zenon DEF SyncInv, HeldIsReady
<1>13. ObjectsKeep(t)
  BY <1>3, <1>6, <1>7, Zenon DEF ObjectsKeep
<1> HIDE DEF o
<1> QED
  BY <1>1, <1>2, <1>5, <1>6, <1>8, <1>9, <1>10, <1>11, <1>12, <1>13, ThreadStep, Zenon

(* The second compare-and-swap finds the claim and makes the object ready. *)
LEMMA PublishKeepsSyncInv ==
    ASSUME SyncInv, NEW t \in Threads, Publish(t)
    PROVE  SyncInv'
<1> DEFINE o == op[t].obj
<1>1. o \in Objects /\ run_id \in 2 .. IdWrap - 1 /\ up /\ pc[t] = "publish"
  BY InCall, Zenon DEF Publish, At
<1>2. runid[o] = run_id - 1 /\ mem[o] = Fresh /\ Asks(t) /\ WordOf(t)
  BY <1>1, Zenon DEF SyncInv, WordOf
<1>3. /\ UNCHANGED <<run_id, up, opens, mem, op, tmp, hold, ops, fails>>
      /\ pc' = [pc EXCEPT ![t] = "get"]
      /\ runid' = [runid EXCEPT ![o] = run_id]
      /\ media' = [media EXCEPT ![o] = @ \cup {run_id}]
  BY <1>2, Zenon DEF Publish, Goto, SetRunid
<1>4. TypeOK'
  BY <1>1, <1>3, Zenon DEF SyncInv, TypeOK
<1>5. /\ pc'[t] = "get"
      /\ OthersKeep(t)
  BY <1>3, Zenon DEF SyncInv, TypeOK, OthersKeep
<1>6. NoOtherAt(t, o)
  BY <1>1, Zenon DEF SyncInv, OneInitialiser, Initialising, NoOtherAt
<1>7. Asks(t)' /\ WordOf(t)' /\ ~Initialising(t)'
  <2>1. op[t].mutex \in Conds /\ op[t].mutex # o => runid'[op[t].mutex] = runid[op[t].mutex]
    BY <1>3, Zenon DEF SyncInv, TypeOK, Objects
  <2>2. run_id # run_id - 1
    BY <1>1
  <2> QED
    BY <1>1, <1>2, <1>3, <1>5, <2>1, <2>2, Zenon DEF Asks, WordOf, Initialising
<1>8. run_id \in {0, run_id, run_id - 1} /\ runid[o] # run_id
  BY <1>1, <1>2
<1>9. runid'[o] = run_id /\ WordChanges(o, run_id)
  BY <1>1, <1>3, Zenon DEF SyncInv, TypeOK, WordChanges
<1> HIDE DEF o
<1> QED
  BY <1>1, <1>2, <1>3, <1>4, <1>5, <1>6, <1>7, <1>8, <1>9, WordStep, Zenon

-----------------------------------------------------------------------------
(* The POSIX calls.                                                        *)

(* Taking a free lock keeps its memory and its holders in step.            *)
LEMMA TakeNames ==
    ASSUME SyncInv, up, NEW t \in Threads, NEW l \in Locks, NEW m \in Modes,
           runid[l] = run_id, Free(l, m), mem' = Taken(t, l, m),
           hold' = [hold EXCEPT ![t] = @ \cup {<<l, m>>}],
           UNCHANGED <<run_id, up, runid>>
    PROVE  /\ mem' \in [Objects -> Memory] /\ hold' \in [Threads -> SUBSET (Locks \X Modes)]
           /\ \A x \in Objects : mem'[x].gen = mem[x].gen /\ (x # l => mem'[x] = mem[x])
           /\ \A u \in Threads \ {t} : hold'[u] = hold[u]
           /\ \A k \in Locks, n \in Modes : <<k, n>> \in hold'[t] => runid[k] = run_id
           /\ MemoryNamesHolders'
<1>1. /\ mem \in [Objects -> Memory] /\ hold \in [Threads -> SUBSET (Locks \X Modes)]
      /\ l \in Objects /\ mem[l] \in Memory
  BY Zenon DEF SyncInv, TypeOK, Objects
<1> DEFINE new == IF m = "wr" THEN [mem[l] EXCEPT !.w = t]
                  ELSE [mem[l] EXCEPT !.r = @ \cup {t}]
<1>2. mem' = [mem EXCEPT ![l] = new]
  <2>1. CASE m = "wr"
    BY <2>1, Zenon DEF Taken
  <2>2. CASE m = "rd"
    BY <2>2, Zenon DEF Taken
  <2> QED BY <2>1, <2>2, Zenon DEF Modes
<1>3. /\ new \in Memory /\ new.gen = mem[l].gen
      /\ m = "wr" => new.w = t /\ new.r = mem[l].r
      /\ m = "rd" => new.w = mem[l].w /\ new.r = mem[l].r \cup {t}
  BY <1>1, Zenon DEF Memory
<1> HIDE DEF new
<1>4. /\ mem' \in [Objects -> Memory] /\ mem'[l] = new
      /\ \A x \in Objects : x # l => mem'[x] = mem[x]
  BY <1>1, <1>2, <1>3, Zenon
<1>5. /\ hold' \in [Threads -> SUBSET (Locks \X Modes)]
      /\ \A u \in Threads \ {t} : hold'[u] = hold[u]
      /\ hold'[t] = hold[t] \cup {<<l, m>>}
  BY <1>1
<1>6. \A k \in Locks, n \in Modes : <<k, n>> \in hold'[t] => runid[k] = run_id
  BY <1>5, Zenon DEF SyncInv, HeldIsReady
<1>7. /\ mem[l].w = NoThread /\ (m = "wr" => mem[l].r = {})
      /\ \A u \in Threads : /\ mem[l].w = u <=> <<l, "wr">> \in hold[u]
                            /\ u \in mem[l].r <=> <<l, "rd">> \in hold[u]
  BY Zenon DEF Free, SyncInv, MemoryNamesHolders
<1>8. MemoryNamesHolders'
  <2>1. ASSUME NEW k \in Locks, runid[k] = run_id, k # l, NEW u \in Threads
        PROVE  /\ mem'[k].w = u <=> <<k, "wr">> \in hold'[u]
               /\ u \in mem'[k].r <=> <<k, "rd">> \in hold'[u]
    <3>1. mem'[k] = mem[k]
      BY <1>4, <2>1, Zenon DEF Objects
    <3>2. \A n \in Modes : <<k, n>> \in hold'[u] <=> <<k, n>> \in hold[u]
      BY <1>5, <2>1, Zenon
    <3> QED BY <2>1, <3>1, <3>2 DEF SyncInv, MemoryNamesHolders, Modes
  <2>2. ASSUME NEW u \in Threads
        PROVE  /\ mem'[l].w = u <=> <<l, "wr">> \in hold'[u]
               /\ u \in mem'[l].r <=> <<l, "rd">> \in hold'[u]
    <3>1. CASE m = "wr"
      BY <1>3, <1>4, <1>5, <1>7, <3>1, SyncAssumption
    <3>2. CASE m = "rd"
      BY <1>3, <1>4, <1>5, <1>7, <3>2, SyncAssumption
    <3> QED BY <3>1, <3>2, Zenon DEF Modes
  <2>3. mem'[l].w # NoThread => mem'[l].r = {}
    BY <1>3, <1>4, <1>7, Zenon DEF Modes
  <2>4. ASSUME NEW k \in Locks, runid[k] = run_id, k # l
        PROVE  mem'[k].w # NoThread => mem'[k].r = {}
    BY <1>4, <2>4, Zenon DEF SyncInv, MemoryNamesHolders, Objects
  <2>5. ASSUME NEW k \in Locks, runid[k] = run_id
        PROVE  /\ \A u \in Threads : /\ mem'[k].w = u <=> <<k, "wr">> \in hold'[u]
                                     /\ u \in mem'[k].r <=> <<k, "rd">> \in hold'[u]
               /\ mem'[k].w # NoThread => mem'[k].r = {}
    BY <2>1, <2>2, <2>3, <2>4, <2>5
  <2> QED BY <2>5, Zenon DEF MemoryNamesHolders
<1> QED
  BY <1>3, <1>4, <1>5, <1>6, <1>8, Zenon

(* Giving back a lock that the thread has keeps them in step, too.         *)
LEMMA GiveBackNames ==
    ASSUME SyncInv, up, NEW t \in Threads, NEW l \in Locks, NEW m \in Modes,
           <<l, m>> \in hold[t], hold' = [hold EXCEPT ![t] = @ \ {<<l, m>>}],
           m = "wr" => mem'[l].w = NoThread /\ mem'[l].r = mem[l].r,
           m = "rd" => mem'[l].w = mem[l].w /\ mem'[l].r = mem[l].r \ {t},
           \A k \in Locks \ {l} : mem'[k] = mem[k],
           UNCHANGED <<run_id, up, runid>>
    PROVE  /\ hold' \in [Threads -> SUBSET (Locks \X Modes)]
           /\ \A u \in Threads \ {t} : hold'[u] = hold[u]
           /\ hold'[t] = hold[t] \ {<<l, m>>}
           /\ \A k \in Locks, n \in Modes : <<k, n>> \in hold'[t] => runid[k] = run_id
           /\ MemoryNamesHolders'
<1>1. /\ hold' \in [Threads -> SUBSET (Locks \X Modes)]
      /\ \A u \in Threads \ {t} : hold'[u] = hold[u]
      /\ hold'[t] = hold[t] \ {<<l, m>>}
  BY Zenon DEF SyncInv, TypeOK
<1>2. \A k \in Locks, n \in Modes : <<k, n>> \in hold'[t] => runid[k] = run_id
  BY <1>1, Zenon DEF SyncInv, HeldIsReady
<1>3. /\ \A u \in Threads : /\ mem[l].w = u <=> <<l, "wr">> \in hold[u]
                            /\ u \in mem[l].r <=> <<l, "rd">> \in hold[u]
      /\ mem[l].w # NoThread => mem[l].r = {}
  BY DEF SyncInv, HeldIsReady, MemoryNamesHolders
<1>4. ASSUME NEW k \in Locks, runid[k] = run_id
      PROVE  /\ \A u \in Threads : /\ mem'[k].w = u <=> <<k, "wr">> \in hold'[u]
                                   /\ u \in mem'[k].r <=> <<k, "rd">> \in hold'[u]
             /\ mem'[k].w # NoThread => mem'[k].r = {}
  <2>1. CASE k # l
    <3>1. mem'[k] = mem[k]
      BY <2>1, Zenon
    <3>2. \A u \in Threads, n \in Modes : <<k, n>> \in hold'[u] <=> <<k, n>> \in hold[u]
      BY <1>1, <2>1, Zenon
    <3> QED BY <1>4, <3>1, <3>2 DEF SyncInv, MemoryNamesHolders, Modes
  <2>2. CASE k = l /\ m = "wr"
    BY <1>1, <1>3, <2>2, SyncAssumption
  <2>3. CASE k = l /\ m = "rd"
    BY <1>1, <1>3, <2>3, SyncAssumption
  <2> QED BY <2>1, <2>2, <2>3, Zenon DEF Modes
<1>5. MemoryNamesHolders'
  BY <1>4, Zenon DEF MemoryNamesHolders
<1> QED
  BY <1>1, <1>2, <1>5, Zenon

(* What a thread at its POSIX call knows: the object is ready, and nobody  *)
(* is about to publish it.                                                 *)
LEMMA AtCall ==
    ASSUME SyncInv, NEW t \in Threads, up, pc[t] \in {"got", "wait"}
    PROVE  /\ op[t].obj \in Objects /\ runid[op[t].obj] = run_id
           /\ run_id \in 2 .. IdWrap - 1 /\ Asks(t) /\ WordOf(t)
           /\ \A u \in Threads, o \in Objects :
                 pc[u] = "publish" /\ runid[o] = run_id => op[u].obj # o
<1>1. op[t].obj \in Objects /\ run_id \in 2 .. IdWrap - 1 /\ Asks(t) /\ WordOf(t)
  BY InCall, Zenon DEF SyncInv
<1>2. \A u \in Threads : pc[u] = "publish" => runid[op[u].obj] = run_id - 1
  BY Zenon DEF SyncInv, WordOf
<1> QED
  BY <1>1, <1>2 DEF WordOf

(* A call that ends with its lock granted: lock, try, or the wait's end.   *)
LEMMA GrantKeepsSyncInv ==
    ASSUME SyncInv, NEW t \in Threads, Grant(t) \/ Relock(t)
    PROVE  SyncInv'
<1>1. up /\ pc[t] \in {"got", "wait"}
  BY Zenon DEF Grant, Relock, At
<1>2. PICK l \in Locks, m \in Modes :
        /\ l = op[t].obj /\ Free(l, m) /\ mem' = Taken(t, l, m)
        /\ hold' = [hold EXCEPT ![t] = @ \cup {<<l, m>>}]
  <2>1. op[t] \in Operations
    BY Zenon DEF SyncInv, TypeOK
  <2>2. CASE Grant(t)
    <3>1. op[t].obj \in Locks /\ op[t].mode \in Modes
      BY <1>1, <2>1, <2>2, AtCall, Zenon DEF Grant, At, Asks, Operations
    <3> QED
      BY <2>2, <3>1, Zenon DEF Grant
  <2>3. CASE Relock(t)
    <3>1. op[t].obj \in Locks /\ "wr" \in Modes
      BY <1>1, <2>3, AtCall, Zenon DEF Relock, At, Asks, Modes
    <3> QED
      BY <2>3, <3>1, Zenon DEF Relock
  <2> QED BY <2>2, <2>3, Zenon
<1>3. /\ UNCHANGED <<run_id, up, opens, runid, media, tmp, ops, fails>>
      /\ pc' = [pc EXCEPT ![t] = "idle"] /\ op' = [op EXCEPT ![t] = NoOp]
  BY Zenon DEF Grant, Relock, Finish, Goto
<1>4. runid[l] = run_id
  BY <1>1, <1>2, AtCall, Zenon
<1>5. /\ mem' \in [Objects -> Memory] /\ hold' \in [Threads -> SUBSET (Locks \X Modes)]
      /\ \A x \in Objects : mem'[x].gen = mem[x].gen /\ (x # l => mem'[x] = mem[x])
      /\ \A u \in Threads \ {t} : hold'[u] = hold[u]
      /\ \A k \in Locks, n \in Modes : <<k, n>> \in hold'[t] => runid[k] = run_id
      /\ MemoryNamesHolders'
  BY <1>1, <1>2, <1>3, <1>4, TakeNames, Zenon
<1>6. TypeOK'
  BY <1>3, <1>5, NoOpIsOperation, Zenon DEF SyncInv, TypeOK
<1>7. /\ pc'[t] = "idle" /\ op'[t] = NoOp
      /\ OthersKeep(t)
  BY <1>3, <1>5, Zenon DEF SyncInv, TypeOK, OthersKeep
<1>8. Asks(t)' /\ WordOf(t)' /\ ~Initialising(t)'
  BY <1>7, Zenon DEF Asks, WordOf, Initialising
<1>9. ObjectsKeep(t)
  BY <1>1, <1>4, <1>5, AtCall, InCall, Zenon DEF Objects, ObjectsKeep
<1> QED
  BY <1>1, <1>3, <1>5, <1>6, <1>7, <1>8, <1>9, ThreadStep, Zenon

(* pmemobj_mutex_assert_locked takes a free mutex, to unlock it next.      *)
LEMMA AssertTakesKeepsSyncInv ==
    ASSUME SyncInv, NEW t \in Threads, AssertTakes(t)
    PROVE  SyncInv'
<1> DEFINE l == op[t].obj
<1>1. up /\ pc[t] = "got" /\ op[t].kind = "assert" /\ Free(l, "wr")
  BY Zenon DEF AssertTakes, At
<1>2. /\ UNCHANGED <<run_id, up, opens, runid, media, pc, tmp, ops, fails>>
      /\ op' = [op EXCEPT ![t].kind = "unlock"]
      /\ mem' = Taken(t, l, "wr") /\ hold' = [hold EXCEPT ![t] = @ \cup {<<l, "wr">>}]
  BY Zenon DEF AssertTakes
<1>3. l \in Locks /\ "wr" \in Modes /\ op[t].mode = "wr" /\ runid[l] = run_id /\ WordOf(t)
  BY <1>1, AtCall, Zenon DEF Asks, Modes
<1>4. /\ mem' \in [Objects -> Memory] /\ hold' \in [Threads -> SUBSET (Locks \X Modes)]
      /\ \A x \in Objects : mem'[x].gen = mem[x].gen /\ (x # l => mem'[x] = mem[x])
      /\ \A u \in Threads \ {t} : hold'[u] = hold[u]
      /\ \A k \in Locks, n \in Modes : <<k, n>> \in hold'[t] => runid[k] = run_id
      /\ MemoryNamesHolders'
  BY <1>1, <1>2, <1>3, TakeNames, Zenon
<1>5. /\ op' \in [Threads -> Operations] /\ op'[t].kind = "unlock" /\ op'[t].obj = l
      /\ op'[t].mode = "wr" /\ \A u \in Threads \ {t} : op'[u] = op[u]
  BY SMTT(20), <1>2, <1>3 DEF SyncInv, TypeOK, Operations
<1>6. TypeOK'
  BY <1>2, <1>4, <1>5, Zenon DEF SyncInv, TypeOK
<1>7. <<l, "wr">> \in hold'[t]
  BY <1>2, Zenon DEF SyncInv, TypeOK
<1>8. Asks(t)' /\ WordOf(t)' /\ ~Initialising(t)'
  BY <1>1, <1>2, <1>3, <1>5, <1>7, Zenon DEF Asks, WordOf, Initialising
<1>9. ObjectsKeep(t)
  BY <1>1, <1>3, <1>4, AtCall, InCall, Zenon DEF Objects, ObjectsKeep
<1>10. OthersKeep(t)
  BY <1>2, <1>4, <1>5, Zenon DEF OthersKeep
<1> HIDE DEF l
<1> QED
  BY <1>1, <1>2, <1>4, <1>5, <1>6, <1>8, <1>9, <1>10, ThreadStep, Zenon

(* A thread unlocks a lock that it has.                                    *)
LEMMA UnlockKeepsSyncInv ==
    ASSUME SyncInv, NEW t \in Threads, Unlock(t)
    PROVE  SyncInv'
<1> DEFINE l == op[t].obj  m == op[t].mode
<1>1. up /\ pc[t] = "got" /\ op[t].kind = "unlock"
  BY Zenon DEF Unlock, At
<1>2. /\ UNCHANGED <<run_id, up, opens, runid, media, tmp, ops, fails>>
      /\ pc' = [pc EXCEPT ![t] = "idle"] /\ op' = [op EXCEPT ![t] = NoOp]
      /\ mem' = Released(t, l, m) /\ hold' = [hold EXCEPT ![t] = @ \ {<<l, m>>}]
  BY Zenon DEF Unlock, Finish, Goto
<1>3. l \in Locks /\ m \in Modes /\ <<l, m>> \in hold[t] /\ runid[l] = run_id
  <2>1. op[t] \in Operations
    BY Zenon DEF SyncInv, TypeOK
  <2> QED BY <1>1, <2>1, AtCall, Zenon DEF Asks, Operations
<1> HIDE DEF l, m
<1>4. /\ mem' \in [Objects -> Memory]
      /\ m = "wr" => mem'[l].w = NoThread /\ mem'[l].r = mem[l].r
      /\ m = "rd" => mem'[l].w = mem[l].w /\ mem'[l].r = mem[l].r \ {t}
      /\ \A x \in Objects : mem'[x].gen = mem[x].gen /\ (x # l => mem'[x] = mem[x])
  <2>1. mem \in [Objects -> Memory] /\ l \in Objects
    BY <1>3, Zenon DEF SyncInv, TypeOK, Objects
  <2> DEFINE new == IF m = "wr" THEN [mem[l] EXCEPT !.w = NoThread]
                    ELSE [mem[l] EXCEPT !.r = @ \ {t}]
  <2>2. mem' = [mem EXCEPT ![l] = new]
    <3>1. CASE m = "wr"
      BY <1>2, <3>1, Zenon DEF Released
    <3>2. CASE m = "rd"
      BY <1>2, <3>2, Zenon DEF Released
    <3> QED BY <1>3, <3>1, <3>2, Zenon DEF Modes
  <2>3. /\ new \in Memory /\ new.gen = mem[l].gen
        /\ m = "wr" => new.w = NoThread /\ new.r = mem[l].r
        /\ m = "rd" => new.w = mem[l].w /\ new.r = mem[l].r \ {t}
    BY <2>1, Zenon DEF Memory
  <2> HIDE DEF new
  <2> QED BY <2>1, <2>2, <2>3, Zenon
<1>5. /\ hold' \in [Threads -> SUBSET (Locks \X Modes)]
      /\ \A u \in Threads \ {t} : hold'[u] = hold[u]
      /\ \A k \in Locks, n \in Modes : <<k, n>> \in hold'[t] => runid[k] = run_id
      /\ MemoryNamesHolders'
  <2>1. \A k \in Locks \ {l} : mem'[k] = mem[k]
    BY <1>4, Zenon DEF Objects
  <2> QED BY <1>1, <1>2, <1>3, <1>4, <2>1, GiveBackNames, Zenon
<1>6. TypeOK'
  BY <1>2, <1>4, <1>5, NoOpIsOperation, Zenon DEF SyncInv, TypeOK
<1>7. /\ pc'[t] = "idle" /\ op'[t] = NoOp
      /\ OthersKeep(t)
  BY <1>2, <1>5, Zenon DEF SyncInv, TypeOK, OthersKeep
<1>8. Asks(t)' /\ WordOf(t)' /\ ~Initialising(t)'
  BY <1>7, Zenon DEF Asks, WordOf, Initialising
<1>9. ObjectsKeep(t)
  BY <1>1, <1>3, <1>4, AtCall, InCall, Zenon DEF Objects, ObjectsKeep
<1> QED
  BY <1>1, <1>2, <1>4, <1>5, <1>6, <1>7, <1>8, <1>9, ThreadStep, Zenon

(* A wait gives the mutex up and queues the thread at the condition.       *)
LEMMA WaitKeepsSyncInv ==
    ASSUME SyncInv, NEW t \in Threads, Wait(t)
    PROVE  SyncInv'
<1> DEFINE l == op[t].obj  c == op[t].mutex
<1>1. up /\ pc[t] = "got" /\ op[t].kind = "wait" /\ l \in Locks
  BY Zenon DEF Wait, At
<1>2. /\ UNCHANGED <<run_id, up, opens, runid, media, op, tmp, ops, fails>>
      /\ pc' = [pc EXCEPT ![t] = "wait"]
      /\ mem' = [Released(t, l, "wr") EXCEPT ![c].q = @ \cup {t}]
      /\ hold' = [hold EXCEPT ![t] = @ \ {<<l, "wr">>}]
  BY Zenon DEF Wait, Goto
<1>3. /\ c \in Conds /\ "wr" \in Modes /\ <<l, "wr">> \in hold[t]
      /\ runid[l] = run_id /\ runid[c] = run_id /\ WordOf(t)
  BY <1>1, AtCall, Zenon, SyncAssumption DEF Asks, WordOf, Modes
<1>4. op'[t].obj = l /\ op'[t].mutex = c /\ op'[t].kind = "wait"
  BY <1>1, <1>2, Zenon
<1> HIDE DEF l, c
<1>5. /\ mem' \in [Objects -> Memory]
      /\ mem'[l].w = NoThread /\ mem'[l].r = mem[l].r
      /\ \A x \in Objects : /\ mem'[x].gen = mem[x].gen
                            /\ x # l /\ x # c => mem'[x] = mem[x]
  <2>1. mem \in [Objects -> Memory] /\ l \in Objects /\ c \in Objects /\ l # c
    BY <1>1, <1>3, SyncAssumption, Zenon DEF SyncInv, TypeOK, Objects
  <2>2. mem' = [[mem EXCEPT ![l].w = NoThread] EXCEPT ![c].q = @ \cup {t}]
    BY <1>2, Zenon DEF Released
  <2> QED BY SMTT(20), <2>1, <2>2 DEF Memory
<1>6. /\ hold' \in [Threads -> SUBSET (Locks \X Modes)]
      /\ \A u \in Threads \ {t} : hold'[u] = hold[u]
      /\ \A k \in Locks, n \in Modes : <<k, n>> \in hold'[t] => runid[k] = run_id
      /\ MemoryNamesHolders'
  <2>1. \A k \in Locks \ {l} : mem'[k] = mem[k]
    BY <1>3, <1>5, SyncAssumption, Zenon DEF Objects
  <2> QED BY <1>1, <1>2, <1>3, <1>5, <2>1, GiveBackNames, Zenon
<1>7. TypeOK'
  BY <1>2, <1>5, <1>6, Zenon DEF SyncInv, TypeOK
<1>8. pc'[t] = "wait" /\ OthersKeep(t)
  BY <1>2, <1>6, Zenon DEF SyncInv, TypeOK, OthersKeep
<1>9. Asks(t)' /\ WordOf(t)' /\ ~Initialising(t)'
  BY <1>1, <1>2, <1>3, <1>4, <1>8, Zenon DEF Asks, WordOf, Initialising
<1>10. ObjectsKeep(t)
  BY <1>1, <1>3, <1>5, AtCall, InCall DEF Objects, ObjectsKeep
<1> QED
  BY <1>1, <1>2, <1>5, <1>6, <1>7, <1>8, <1>9, <1>10, ThreadStep, Zenon

(* Waiters leave the queue of a condition: signalled, timed out or woken   *)
(* without cause.                                                          *)
LEMMA WakeKeepsSyncInv ==
    ASSUME SyncInv, NEW t \in Threads, Wake(t) \/ Signal(t)
    PROVE  SyncInv'
<1>1. up /\ pc[t] \in {"got", "wait"}
  BY Zenon DEF Wake, Signal, At
<1>2. /\ UNCHANGED <<run_id, up, opens, runid, media, tmp, hold, ops, fails>>
      /\ \/ UNCHANGED <<pc, op>>
         \/ pc' = [pc EXCEPT ![t] = "idle"] /\ op' = [op EXCEPT ![t] = NoOp]
  BY Zenon DEF Wake, Signal, Finish, Goto
<1>3. PICK c \in Conds, woken \in SUBSET Threads :
          runid[c] = run_id /\ mem' = [mem EXCEPT ![c].q = @ \ woken]
  <2>1. CASE Wake(t)
    <3>1. op[t].mutex \in Conds /\ runid[op[t].mutex] = run_id
      BY <1>1, <2>1, AtCall, Zenon DEF Wake, At, Asks, WordOf
    <3> QED BY <2>1, <3>1, Zenon DEF Wake
  <2>2. CASE Signal(t)
    <3>1. op[t].obj \in Conds /\ runid[op[t].obj] = run_id
      BY <1>1, <2>2, AtCall, Zenon DEF Signal, At, Asks
    <3>2. mem[op[t].obj] \in Memory
      BY <3>1, Zenon DEF SyncInv, TypeOK, Objects
    <3>3. mem[op[t].obj].q \subseteq Threads
      BY <3>2, Zenon DEF Memory
    <3> QED BY <2>2, <3>1, <3>3, Zenon DEF Signal
  <2> QED BY <2>1, <2>2, Zenon
<1>4. /\ mem' \in [Objects -> Memory]
      /\ \A x \in Objects : mem'[x].gen = mem[x].gen /\ (x # c => mem'[x] = mem[x])
  <2>1. mem \in [Objects -> Memory] /\ c \in Objects
    BY Zenon DEF SyncInv, TypeOK, Objects
  <2> QED BY <1>3, <2>1 DEF Memory
<1>5. TypeOK'
  BY <1>2, <1>4, NoOpIsOperation DEF SyncInv, TypeOK
<1>6. /\ \/ pc'[t] = pc[t] /\ op'[t] = op[t]
         \/ pc'[t] = "idle" /\ op'[t] = NoOp
      /\ OthersKeep(t)
  BY <1>2, Zenon DEF SyncInv, TypeOK, OthersKeep
<1>7. Asks(t)' /\ WordOf(t)' /\ ~Initialising(t)'
  <2>1. Asks(t) /\ WordOf(t)
    BY Zenon DEF SyncInv
  <2> QED BY <1>1, <1>2, <1>6, <2>1, Zenon DEF Asks, WordOf, Initialising
<1>8. ObjectsKeep(t)
  BY <1>1, <1>3, <1>4, AtCall, InCall, Zenon DEF Objects, ObjectsKeep
<1>9. \A l \in Locks, m \in Modes : <<l, m>> \in hold'[t] => runid[l] = run_id
  BY <1>2, Zenon DEF SyncInv, HeldIsReady
<1>10. MemoryNamesHolders'
  <2>1. \A l \in Locks : mem'[l] = mem[l]
    BY <1>4, SyncAssumption, Zenon DEF Objects
  <2>2. MemoryNamesHolders
    BY Zenon DEF SyncInv
  <2>3. ASSUME NEW l \in Locks, runid[l] = run_id
        PROVE  /\ \A u \in Threads : /\ mem'[l].w = u <=> <<l, "wr">> \in hold[u]
                                     /\ u \in mem'[l].r <=> <<l, "rd">> \in hold[u]
               /\ mem'[l].w # NoThread => mem'[l].r = {}
    BY <1>1, <2>1, <2>2, <2>3 DEF MemoryNamesHolders
  <2> QED BY <1>2, <2>3, Zenon DEF MemoryNamesHolders
<1> QED
  BY <1>1, <1>2, <1>4, <1>5, <1>6, <1>7, <1>8, <1>9, <1>10, ThreadStep, Zenon

(* A try on a busy lock and an assert on a locked mutex return; a wait     *)
(* that has its condition asks for the mutex.                              *)
LEMMA PassKeepsSyncInv ==
    ASSUME SyncInv, NEW t \in Threads, Refuse(t) \/ AssertBusy(t) \/ WaitMutex(t)
    PROVE  SyncInv'
<1>1. up /\ pc[t] = "got"
  BY Zenon DEF Refuse, AssertBusy, WaitMutex, At
<1>2. /\ UNCHANGED <<run_id, up, opens, runid, media, mem, tmp, hold, ops, fails>>
      /\ \/ pc' = [pc EXCEPT ![t] = "idle"] /\ op' = [op EXCEPT ![t] = NoOp]
         \/ /\ op[t].kind = "wait" /\ op[t].obj \in Conds
            /\ pc' = [pc EXCEPT ![t] = "get"]
            /\ op' = [op EXCEPT ![t] = Operation("wait", op[t].mutex, "wr", op[t].obj)]
  BY Zenon DEF Refuse, AssertBusy, WaitMutex, Finish, Goto, objects
<1>3. Asks(t) /\ WordOf(t) /\ runid[op[t].obj] = run_id
  BY <1>1, AtCall, Zenon
<1>4. op[t].kind = "wait" /\ op[t].obj \in Conds =>
          /\ op[t].mutex \in Locks /\ <<op[t].mutex, "wr">> \in hold[t]
          /\ Operation("wait", op[t].mutex, "wr", op[t].obj) \in Operations
  BY <1>1, <1>3, SyncAssumption, Zenon DEF Asks, Operation, Operations, Objects, Modes
<1>5. TypeOK'
  BY <1>2, <1>4, NoOpIsOperation DEF SyncInv, TypeOK
<1>6. /\ \/ pc'[t] = "idle" /\ op'[t] = NoOp
         \/ /\ op[t].kind = "wait" /\ op[t].obj \in Conds /\ pc'[t] = "get"
            /\ op'[t] = Operation("wait", op[t].mutex, "wr", op[t].obj)
      /\ OthersKeep(t)
  BY <1>2, Zenon DEF SyncInv, TypeOK, OthersKeep
<1>7. Asks(t)' /\ WordOf(t)' /\ ~Initialising(t)'
  BY <1>2, <1>3, <1>4, <1>6 DEF Asks, WordOf, Initialising, Operation
<1> QED
  BY <1>1, <1>2, <1>5, <1>6, <1>7, LookingStep, Zenon

-----------------------------------------------------------------------------
(* The inductive invariant holds at every moment of every run of the pool. *)
THEOREM SyncInvariant == Spec => []SyncInv
<1>1. SyncInv /\ UNCHANGED vars => SyncInv'
  <2> SUFFICES ASSUME SyncInv, UNCHANGED vars PROVE SyncInv'
    BY Zenon
  <2> USE DEF vars, objects
  <2>1. (TypeOK /\ IdsInv)'
    BY Zenon DEF SyncInv, TypeOK, IdsInv
  <2>2. ASSUME NEW t \in Threads PROVE (Asks(t) /\ WordOf(t))'
    <3>1. Asks(t) /\ WordOf(t)
      BY Zenon DEF SyncInv
    <3> QED BY <3>1, Zenon DEF Asks, WordOf, Fresh
  <2>3. (Quiet /\ OneInitialiser /\ ReadyIsInitialised)'
    BY Zenon DEF SyncInv, Quiet, OneInitialiser, Initialising, ReadyIsInitialised
  <2>4. (HeldIsReady /\ MemoryNamesHolders)'
    BY Zenon DEF SyncInv, HeldIsReady, MemoryNamesHolders
  <2> QED BY <2>1, <2>2, <2>3, <2>4, Zenon DEF SyncInv
<1>2. ASSUME SyncInv, NEW t \in Threads, Call(t) \/ Get(t) \/ Posix(t)
      PROVE  SyncInv'
  BY <1>2, CallKeepsSyncInv, LookKeepsSyncInv, ClaimKeepsSyncInv,
     InitValueKeepsSyncInv, InitFailsKeepsSyncInv, PublishKeepsSyncInv,
     GrantKeepsSyncInv, PassKeepsSyncInv, UnlockKeepsSyncInv,
     AssertTakesKeepsSyncInv, WaitKeepsSyncInv, WakeKeepsSyncInv
     DEF Get, Posix
<1>3. SyncInv /\ [Next]_vars => SyncInv'
  BY <1>1, <1>2, OpenKeepsSyncInv, CrashKeepsSyncInv, ZeroKeepsSyncInv, Zenon DEF Next
<1> QED
  BY <1>3, InitEstablishesSyncInv, PTL DEF Spec

(* A thread that gets past _get_value finds an object this run has         *)
(* initialised, however many runs and crashes came before.                 *)
THEOREM ReadyObjectsOnly == Spec => []UsedIsInitialised
<1>1. SyncInv => UsedIsInitialised
  <2> SUFFICES ASSUME SyncInv, NEW t \in Threads, pc[t] \in {"got", "wait"}
               PROVE  mem[op[t].obj].gen = opens
    BY Zenon DEF SyncInv, UsedIsInitialised
  <2>1. up
    BY Zenon DEF SyncInv, Quiet
  <2>2. op[t].obj \in Objects /\ runid[op[t].obj] = run_id
    BY <2>1, AtCall, Zenon
  <2> QED
    BY <2>1, <2>2, Zenon DEF SyncInv, ReadyIsInitialised
<1> QED
  BY <1>1, SyncInvariant, PTL

(* A thread that was granted a mutex, or a read-write lock for writing, is *)
(* alone with it: _get_value never hands the object out half initialised   *)
(* or initialises it again under its holder.                               *)
THEOREM LocksExclude == Spec => []Exclusion
<1>1. SyncInv => Exclusion
  <2> SUFFICES ASSUME SyncInv, NEW t \in Threads, NEW u \in Threads, NEW l \in Locks,
                      t # u, <<l, "wr">> \in hold[t], NEW m \in Modes,
                      <<l, m>> \in hold[u]
               PROVE  FALSE
    BY Zenon DEF Exclusion, Holds
  <2>1. up /\ runid[l] = run_id
    BY Zenon DEF SyncInv, Quiet, HeldIsReady, Modes
  <2>2. /\ mem[l].w = t /\ (m = "wr" => mem[l].w = u) /\ (m = "rd" => u \in mem[l].r)
        /\ mem[l].w # NoThread => mem[l].r = {}
    BY <2>1, Zenon DEF SyncInv, MemoryNamesHolders
  <2> QED
    BY <2>2, SyncAssumption, Zenon DEF Modes
<1> QED
  BY <1>1, SyncInvariant, PTL

(* No lock is blocked by a holder that is not a thread of this run, though *)
(* a crash leaves the memory of a held lock in the pool.                   *)
THEOREM LocksOfTheLiving == Spec => []HeldByTheLiving
<1>1. SyncInv => HeldByTheLiving
  <2> SUFFICES ASSUME SyncInv, up, NEW l \in Locks, runid[l] = run_id
               PROVE  /\ mem[l].w # NoThread => <<l, "wr">> \in hold[mem[l].w]
                      /\ \A t \in mem[l].r : <<l, "rd">> \in hold[t]
    BY Zenon DEF HeldByTheLiving
  <2>1. mem[l] \in Memory
    BY Zenon DEF SyncInv, TypeOK, Objects
  <2> QED
    BY <2>1, Zenon DEF SyncInv, MemoryNamesHolders, Memory
<1> QED
  BY <1>1, SyncInvariant, PTL
=============================================================================
