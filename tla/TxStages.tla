------------------------------ MODULE TxStages ------------------------------
(***************************************************************************)
(* The stage machine of libpmemobj transactions (tx.c): nested             *)
(* transactions of several threads, the lane they hold, the locks they     *)
(* collect, the abort that falls through every level, and the stage        *)
(* callback.                                                               *)
(*                                                                         *)
(* tx[t] is the thread's struct tx.  Of the list tx_entries only its       *)
(* length counts, level: whether an entry has a jump buffer is asked at    *)
(* most once, and chosen then.  The error code is a Boolean: obj_tx_abort  *)
(* turns zero into ECANCELED.  The data is one cell per lock: dirty[l] is  *)
(* the thread whose uncommitted write is in the cell.  What the logs do    *)
(* with it is the subject of module Tx; which lane is found that of module *)
(* Lane; how a lock becomes usable that of module Sync.                    *)
(*                                                                         *)
(* The callers behave as pmemobj_tx_begin(3) asks: they take locks in      *)
(* ascending order, write a cell in a transaction that has its lock, and   *)
(* call pmemobj_tx_end once per pmemobj_tx_begin, also for one that        *)
(* failed, before they begin anything else; calls[t] counts what is owed.  *)
(* A longjmp to the environment of a level drops the levels inside it.     *)
(***************************************************************************)
EXTENDS Integers, Sequences, FiniteSets, Functions

CONSTANTS Threads, NoThread,
          NLocks,       \* locks 1..NLocks, each protecting one cell
          NLanes,       \* lanes of the pool
          Observed,     \* threads whose transactions may have a callback
          MaxDepth,     \* bound: nesting of transactions
          MaxBegins,    \* bound: begins of each thread
          MaxFails      \* bound: failing calls, of each of the two kinds

ASSUME StagesAssumption ==
    /\ NoThread \notin Threads
    /\ NLocks \in Nat
    /\ NLanes \in Nat \ {0}
    /\ Observed \subseteq Threads
    /\ MaxDepth \in Nat \ {0} /\ MaxBegins \in [Threads -> Nat] /\ MaxFails \in Nat

VARIABLES tx,       \* the struct tx of every thread
          pc, todo, \* "run", "begin"/"lock" taking the locks todo, "release"
          owner,    \* who holds a lock
          dirty,    \* whose uncommitted write a cell has
          calls,    \* begins the caller has still to end
          begins,   \* begins so far
          fails,    \* lock calls that failed
          lost,     \* begins that failed before they made an entry
          dead,     \* the process was terminated in pmemobj_tx_end
          seen,     \* stages the callback of this transaction was called with
          aborted   \* some level of this transaction was aborted

vars == <<tx, pc, todo, owner, dirty, calls, begins, fails, lost, dead, seen, aborted>>

Locks == 1..NLocks
Stages == {"NONE", "WORK", "ONCOMMIT", "ONABORT", "FINALLY"}

Idle == [stage |-> "NONE", level |-> 0, lane |-> FALSE, err |-> FALSE,
         locks |-> <<>>, cb |-> FALSE]

Init ==
    /\ tx = [t \in Threads |-> Idle]
    /\ pc = [t \in Threads |-> "run"]
    /\ todo = [t \in Threads |-> <<>>]
    /\ owner = [l \in Locks |-> NoThread]
    /\ dirty = [l \in Locks |-> NoThread]
    /\ calls = [t \in Threads |-> 0]
    /\ begins = [t \in Threads |-> 0]
    /\ fails = 0 /\ lost = 0 /\ dead = FALSE
    /\ seen = [t \in Threads |-> <<>>]
    /\ aborted = [t \in Threads |-> FALSE]

Running(t) == pc[t] = "run" /\ ~dead

\* SLIST_NEXT of the first entry is NULL.
Outermost(x) == x.level = 1

\* obj_tx_callback: what the callback has been called with, after stage st.
Called(x, s, st) == IF x.cb /\ Outermost(x) THEN Append(s, st) ELSE s

\* New locks for the caller to take: above all it has taken.
NewLocks(t) == {l \in Locks : \A k \in Range(tx[t].locks) : k < l}

\* The locks a begin names, in ascending order; it may name some again that an
\* outer level has taken.
Params(t) ==
    LET named == NewLocks(t) \cup Range(tx[t].locks)
    IN {<<>>} \cup {<<l>> : l \in named}
              \cup {p \in named \X named : p[1] < p[2]}

\* Mutant of AbortLevel: the undo log is not processed.
AbortLevelNoUndo(t, x, s) ==
    /\ tx' = [tx EXCEPT ![t] = [x EXCEPT !.stage = "ONABORT", !.err = TRUE,
                                         !.lane = x.lane /\ ~Outermost(x)]]
    /\ seen' = [seen EXCEPT ![t] = Called(x, s, "ONABORT")]
    /\ aborted' = [aborted EXCEPT ![t] = TRUE]
    /\ UNCHANGED dirty

\* obj_tx_abort on the struct x: the outermost level rolls back, then gives
\* the lane away; the callback follows.
AbortLevel(t, x, s) ==
    /\ tx' = [tx EXCEPT ![t] = [x EXCEPT !.stage = "ONABORT", !.err = TRUE,
                                         !.lane = x.lane /\ ~Outermost(x)]]
    /\ dirty' = IF Outermost(x)
                THEN [l \in Locks |-> IF dirty[l] = t THEN NoThread ELSE dirty[l]]
                ELSE dirty
    /\ seen' = [seen EXCEPT ![t] = Called(x, s, "ONABORT")]
    /\ aborted' = [aborted EXCEPT ![t] = TRUE]

\* lane_hold finds a free lane.
LaneFree == Cardinality({t \in Threads : tx[t].lane}) < NLanes

----------------------------------------------------------------------------
(* pmemobj_tx_begin.                                                       *)

\* The outermost begin: a lane, fresh lists, the first entry.
BeginOuter(t) ==
    /\ Running(t) /\ calls[t] = 0 /\ tx[t].stage = "NONE"
    /\ begins[t] < MaxBegins[t] /\ LaneFree
    /\ \E cb \in BOOLEAN, ps \in Params(t) :
          /\ tx' = [tx EXCEPT ![t] = [Idle EXCEPT !.stage = "WORK", !.lane = TRUE,
                                       !.level = 1, !.cb = cb /\ t \in Observed]]
          /\ todo' = [todo EXCEPT ![t] = ps]
    /\ pc' = [pc EXCEPT ![t] = "begin"]
    /\ calls' = [calls EXCEPT ![t] = 1]
    /\ begins' = [begins EXCEPT ![t] = @ + 1]
    /\ seen' = [seen EXCEPT ![t] = <<>>]
    /\ aborted' = [aborted EXCEPT ![t] = FALSE]
    /\ UNCHANGED <<owner, dirty, fails, lost, dead>>

\* No memory for the first entry: the stage alone is set.
BeginOuterFails(t) ==
    /\ Running(t) /\ calls[t] = 0 /\ tx[t].stage = "NONE"
    /\ begins[t] < MaxBegins[t] /\ LaneFree /\ lost < MaxFails
    /\ tx' = [tx EXCEPT ![t] = [Idle EXCEPT !.stage = "ONABORT", !.lane = TRUE,
                                            !.err = tx[t].err]]
    /\ calls' = [calls EXCEPT ![t] = 1]
    /\ begins' = [begins EXCEPT ![t] = @ + 1]
    /\ lost' = lost + 1
    /\ seen' = [seen EXCEPT ![t] = <<>>]
    /\ aborted' = [aborted EXCEPT ![t] = FALSE]
    /\ UNCHANGED <<pc, todo, owner, dirty, fails, dead>>

\* A begin in stage WORK: another entry, and the error code is forgotten.  A
\* callback may be registered, by one of the levels.
BeginInner(t) ==
    /\ Running(t) /\ tx[t].stage = "WORK"
    /\ begins[t] < MaxBegins[t] /\ tx[t].level < MaxDepth
    /\ \E cb \in BOOLEAN, ps \in Params(t) :
          /\ tx' = [tx EXCEPT ![t].level = @ + 1, ![t].err = FALSE,
                              ![t].cb = @ \/ (cb /\ t \in Observed)]
          /\ todo' = [todo EXCEPT ![t] = ps]
    /\ pc' = [pc EXCEPT ![t] = "begin"]
    /\ calls' = [calls EXCEPT ![t] = @ + 1]
    /\ begins' = [begins EXCEPT ![t] = @ + 1]
    /\ UNCHANGED <<owner, dirty, fails, lost, dead, seen, aborted>>

\* A begin for another pool, or without memory for its entry: the level
\* around it is aborted.  If that has a jump buffer the caller goes on there;
\* else the call returns an error, and the caller owes an end for it too.
BeginInnerFails(t) ==
    /\ Running(t) /\ tx[t].stage = "WORK"
    /\ begins[t] < MaxBegins[t] /\ lost < MaxFails
    /\ AbortLevel(t, tx[t], seen[t])
    /\ \E env \in BOOLEAN : calls' = [calls EXCEPT ![t] = IF env THEN @ ELSE @ + 1]
    /\ begins' = [begins EXCEPT ![t] = @ + 1]
    /\ lost' = lost + 1
    /\ UNCHANGED <<pc, todo, owner, fails, dead>>

----------------------------------------------------------------------------
(* add_to_tx_and_lock, for the parameters of a begin and pmemobj_tx_lock.  *)

\* pmemobj_tx_lock is called.
TxLock(t) ==
    /\ Running(t) /\ tx[t].stage = "WORK"
    /\ \E l \in NewLocks(t) : todo' = [todo EXCEPT ![t] = <<l>>]
    /\ pc' = [pc EXCEPT ![t] = "lock"]
    /\ UNCHANGED <<tx, owner, dirty, calls, begins, fails, lost, dead, seen, aborted>>

Locking(t) == pc[t] \in {"begin", "lock"} /\ ~dead

\* The head of todo is no lock of the transaction yet.
NextIsNew(t) == todo[t] # <<>> /\ Head(todo[t]) \notin Range(tx[t].locks)

\* A lock that is on the list already is passed over.
SkipLock(t) ==
    /\ Locking(t) /\ todo[t] # <<>> /\ ~NextIsNew(t)
    /\ todo' = [todo EXCEPT ![t] = Tail(@)]
    /\ UNCHANGED <<tx, pc, owner, dirty, calls, begins, fails, lost, dead, seen, aborted>>

\* The lock is taken and put on the list.  The caller waits while another has it.
TakeLock(t) ==
    /\ Locking(t) /\ NextIsNew(t)
    /\ owner[Head(todo[t])] = NoThread
    /\ owner' = [owner EXCEPT ![Head(todo[t])] = t]
    /\ tx' = [tx EXCEPT ![t].locks = <<Head(todo[t])>> \o @]
    /\ todo' = [todo EXCEPT ![t] = Tail(@)]
    /\ UNCHANGED <<pc, dirty, calls, begins, fails, lost, dead, seen, aborted>>

\* An error of add_to_tx_and_lock: a begin aborts its level, pmemobj_tx_lock
\* returns.  x is the struct with the list as the error left it.
LockError(t, x) ==
    /\ fails < MaxFails
    /\ fails' = fails + 1
    /\ todo' = [todo EXCEPT ![t] = <<>>]
    /\ pc' = [pc EXCEPT ![t] = "run"]
    /\ IF pc[t] = "begin"
       THEN AbortLevel(t, x, seen[t])
       ELSE tx' = [tx EXCEPT ![t] = x] /\ UNCHANGED <<dirty, seen, aborted>>
    /\ UNCHANGED <<owner, calls, begins, lost, dead>>

\* No memory for the list element.
LockNoMemory(t) == Locking(t) /\ NextIsNew(t) /\ LockError(t, tx[t])

\* pmemobj_mutex_lock or pmemobj_rwlock_wrlock fails: the element goes on the
\* list all the same.
LockFails(t) ==
    /\ Locking(t) /\ NextIsNew(t)
    /\ LockError(t, [tx[t] EXCEPT !.locks = <<Head(todo[t])>> \o tx[t].locks])

\* All locks are taken: the call returns.
Locked(t) ==
    /\ Locking(t) /\ todo[t] = <<>>
    /\ pc' = [pc EXCEPT ![t] = "run"]
    /\ UNCHANGED <<tx, todo, owner, dirty, calls, begins, fails, lost, dead, seen, aborted>>

----------------------------------------------------------------------------
(* The work, and the ends of a level.                                      *)

\* The caller changes a cell whose lock the transaction has.
Write(t) ==
    /\ Running(t) /\ tx[t].stage = "WORK"
    /\ \E l \in Range(tx[t].locks) : dirty[l] # t /\ dirty' = [dirty EXCEPT ![l] = t]
    /\ UNCHANGED <<tx, pc, todo, owner, calls, begins, fails, lost, dead, seen, aborted>>

\* pmemobj_tx_abort, also from the failing calls of tx.c.
Abort(t) ==
    /\ Running(t) /\ tx[t].stage = "WORK"
    /\ AbortLevel(t, tx[t], seen[t])
    /\ UNCHANGED <<pc, todo, owner, calls, begins, fails, lost, dead>>

\* Mutant of Commit: every level gives the lane away.
CommitEveryLane(t) ==
    /\ Running(t) /\ tx[t].stage = "WORK"
    /\ tx' = [tx EXCEPT ![t].stage = "ONCOMMIT", ![t].lane = FALSE]
    /\ dirty' = IF Outermost(tx[t])
                THEN [l \in Locks |-> IF dirty[l] = t THEN NoThread ELSE dirty[l]]
                ELSE dirty
    /\ seen' = [seen EXCEPT ![t] = Called(tx[t], Called(tx[t], @, "WORK"), "ONCOMMIT")]
    /\ UNCHANGED <<pc, todo, owner, calls, begins, fails, lost, dead, aborted>>

\* pmemobj_tx_commit: the callback sees WORK; the outermost level makes the
\* writes permanent and gives the lane away; the callback sees ONCOMMIT.
Commit(t) ==
    /\ Running(t) /\ tx[t].stage = "WORK"
    /\ tx' = [tx EXCEPT ![t].stage = "ONCOMMIT", ![t].lane = @ /\ ~Outermost(tx[t])]
    /\ dirty' = IF Outermost(tx[t])
                THEN [l \in Locks |-> IF dirty[l] = t THEN NoThread ELSE dirty[l]]
                ELSE dirty
    /\ seen' = [seen EXCEPT ![t] = Called(tx[t], Called(tx[t], @, "WORK"), "ONCOMMIT")]
    /\ UNCHANGED <<pc, todo, owner, calls, begins, fails, lost, dead, aborted>>

\* pmemobj_tx_process after the work: to FINALLY, then to NONE.
Process(t) ==
    /\ Running(t)
    /\ \/ /\ tx[t].stage \in {"ONCOMMIT", "ONABORT"}
          /\ tx' = [tx EXCEPT ![t].stage = "FINALLY"]
          /\ seen' = [seen EXCEPT ![t] = Called(tx[t], @, "FINALLY")]
       \/ /\ tx[t].stage = "FINALLY"
          /\ tx' = [tx EXCEPT ![t].stage = "NONE"]
          /\ UNCHANGED seen
    /\ UNCHANGED <<pc, todo, owner, dirty, calls, begins, fails, lost, dead, aborted>>

\* Mutant of Finally: whatever stage the transaction is in.
FinallyAlways(t) == Called(tx[t], seen[t], "FINALLY")

\* The first lines of pmemobj_tx_end: a callback sees FINALLY unless
\* pmemobj_tx_process has shown it that stage already.
Finally(t) ==
    IF tx[t].cb /\ tx[t].stage \in {"ONCOMMIT", "ONABORT"}
    THEN Called(tx[t], seen[t], "FINALLY") ELSE seen[t]

Ending(t) == Running(t) /\ calls[t] > 0 /\ tx[t].stage # "WORK"

\* Mutant of EndInner: the error stays with the inner level.
EndInnerNoError(t) ==
    /\ Ending(t) /\ tx[t].level > 1
    /\ calls' = [calls EXCEPT ![t] = @ - 1]
    /\ tx' = [tx EXCEPT ![t].stage = "WORK", ![t].level = @ - 1]
    /\ seen' = [seen EXCEPT ![t] = Finally(t)]
    /\ UNCHANGED <<dirty, aborted, pc, todo, owner, begins, fails, lost, dead>>

\* pmemobj_tx_end of an inner level resumes the level around it, and aborts
\* that if there is an error code.
EndInner(t) ==
    LET x == [tx[t] EXCEPT !.stage = "WORK", !.level = tx[t].level - 1]
    IN /\ Ending(t) /\ tx[t].level > 1
       /\ calls' = [calls EXCEPT ![t] = @ - 1]
       /\ IF x.err
          THEN AbortLevel(t, x, Finally(t))
          ELSE /\ tx' = [tx EXCEPT ![t] = x]
               /\ seen' = [seen EXCEPT ![t] = Finally(t)]
               /\ UNCHANGED <<dirty, aborted>>
       /\ UNCHANGED <<pc, todo, owner, begins, fails, lost, dead>>

\* pmemobj_tx_end of the outermost level turns to the locks.
EndOuter(t) ==
    /\ Ending(t) /\ tx[t].level = 1
    /\ tx' = [tx EXCEPT ![t].level = 0]
    /\ seen' = [seen EXCEPT ![t] = Finally(t)]
    /\ pc' = [pc EXCEPT ![t] = "release"]
    /\ UNCHANGED <<todo, owner, dirty, calls, begins, fails, lost, dead, aborted>>

\* Mutant of Release: the element is freed, the lock kept.
ReleaseKeeps(t) ==
    /\ pc[t] = "release" /\ tx[t].locks # <<>> /\ ~dead
    /\ tx' = [tx EXCEPT ![t].locks = Tail(@)]
    /\ UNCHANGED <<pc, owner, todo, dirty, calls, begins, fails, lost, dead, seen, aborted>>

\* release_and_free_tx_locks unlocks the first of the list, whoever has it.
Release(t) ==
    /\ pc[t] = "release" /\ tx[t].locks # <<>> /\ ~dead
    /\ owner' = [owner EXCEPT ![Head(tx[t].locks)] = NoThread]
    /\ tx' = [tx EXCEPT ![t].locks = Tail(@)]
    /\ UNCHANGED <<pc, todo, dirty, calls, begins, fails, lost, dead, seen, aborted>>

\* The rest of pmemobj_tx_end: the callback is forgotten, and called with NONE.
Ended(t) ==
    /\ pc[t] = "release" /\ tx[t].locks = <<>> /\ ~dead
    /\ tx' = [tx EXCEPT ![t].stage = "NONE", ![t].cb = FALSE]
    /\ seen' = [seen EXCEPT ![t] = IF tx[t].cb THEN Append(@, "NONE") ELSE @]
    /\ pc' = [pc EXCEPT ![t] = "run"]
    /\ calls' = [calls EXCEPT ![t] = @ - 1]
    /\ UNCHANGED <<todo, owner, dirty, begins, fails, lost, dead, aborted>>

\* pmemobj_tx_end finds no entry: it is fatal without a pool, and takes the
\* first element of an empty list with one.
EndDies(t) ==
    /\ Ending(t) /\ tx[t].level = 0
    /\ dead' = TRUE
    /\ UNCHANGED <<tx, pc, todo, owner, dirty, calls, begins, fails, lost, seen, aborted>>

----------------------------------------------------------------------------

Inside(t) ==
    \/ SkipLock(t) \/ TakeLock(t) \/ Locked(t)
    \/ Commit(t) \/ Abort(t) \/ Process(t)
    \/ EndInner(t) \/ EndOuter(t) \/ Release(t) \/ Ended(t) \/ EndDies(t)

Next == \E t \in Threads :
    \/ BeginOuter(t) \/ BeginOuterFails(t) \/ BeginInner(t) \/ BeginInnerFails(t)
    \/ TxLock(t) \/ LockNoMemory(t) \/ LockFails(t) \/ Write(t)
    \/ Inside(t)

\* A thread in a transaction goes on: it does not stop for ever in the middle
\* of a call of the library, and ends the transaction it has begun.
Fairness == \A t \in Threads : WF_vars(Inside(t))

Spec == Init /\ [][Next]_vars /\ Fairness

----------------------------------------------------------------------------
(* Properties.                                                             *)

Structs == [stage : Stages, level : 0..MaxDepth, lane : BOOLEAN,
            err : BOOLEAN, locks : Seq(Locks), cb : BOOLEAN]

\* Every variable has its type; the list of a transaction names a lock once.
TypeOK ==
    /\ tx \in [Threads -> Structs]
    /\ \A t \in Threads : IsInjective(tx[t].locks)
    /\ pc \in [Threads -> {"run", "begin", "lock", "release"}]
    /\ todo \in [Threads -> Seq(Locks)]
    /\ owner \in [Locks -> Threads \cup {NoThread}]
    /\ dirty \in [Locks -> Threads \cup {NoThread}]
    /\ calls \in [Threads -> 0..MaxDepth + 1]
    /\ begins \in [Threads -> Nat] /\ \A t \in Threads : begins[t] <= MaxBegins[t]
    /\ fails \in 0..MaxFails /\ lost \in 0..MaxFails /\ dead \in BOOLEAN
    /\ seen \in [Threads -> Seq(Stages)]
    /\ aborted \in [Threads -> BOOLEAN]

\* The begin of every transaction the caller still has to end made an entry.
Paired(t) == calls[t] = tx[t].level + (IF pc[t] = "release" THEN 1 ELSE 0)

\* A transaction holds its lane from the first begin until its outermost level
\* is committed or aborted: the ASSERTs on tx->lane in obj_tx_abort,
\* pmemobj_tx_commit and pmemobj_tx_end hold, no lane is kept by a finished
\* transaction, and there are never more transactions than lanes.  It holds for
\* a thread whose begins all made their entry.  All state keeps its type.
LaneWhileOpen ==
    /\ TypeOK
    /\ \A t \in Threads : Paired(t) =>
          (tx[t].lane <=> (tx[t].stage = "WORK" \/ tx[t].level > 1))
    /\ Cardinality({t \in Threads : tx[t].lane}) <= NLanes

\* Writes of a transaction are seen by nobody else before it is committed or
\* rolled back: while no lock call has failed, a cell that is dirty is locked by
\* the thread that made it so, because pmemobj_tx_end unlocks after
\* pmemobj_tx_commit or the outermost obj_tx_abort, and inner levels keep the
\* locks.
Isolation ==
    fails = 0 => \A l \in Locks : dirty[l] # NoThread => owner[l] = dirty[l]

\* A transaction of which some level was aborted is never committed as a whole:
\* the error code of the inner level survives until pmemobj_tx_end hands it to
\* the level around it, whatever begins, commits and ends come between.
AbortReachesOutermost ==
    \A t \in Threads :
        tx[t].stage = "ONCOMMIT" /\ Outermost(tx[t]) => ~aborted[t]

\* What the callback is called with, over a whole transaction.
CallbackRuns == {<<"WORK", "ONCOMMIT", "FINALLY", "NONE">>,
                 <<"ONABORT", "FINALLY", "NONE">>}

\* The stage callback is called once for every stage of the outermost level, in
\* order, whichever level registered it and whichever of pmemobj_tx_process and
\* pmemobj_tx_end makes the transition; it has seen all stages when the
\* transaction is over.
CallbackInOrder ==
    \A t \in Threads :
        /\ \E r \in CallbackRuns : \E n \in 0 .. Len(r) : seen[t] = SubSeq(r, 1, n)
        /\ calls[t] = 0 => seen[t] \in CallbackRuns \cup {<<>>}

\* A transaction ends, although it may wait for locks while it holds one of too
\* few lanes: who has a lock never waits for a lane.  A process that
\* pmemobj_tx_end terminates is excepted.
TransactionsEnd ==
    \A t \in Threads : calls[t] > 0 ~> (calls[t] = 0 \/ dead)

\* pmemobj_tx_end "releases all the locks acquired by pmemobj_tx_begin() for
\* outer and nested transactions": the lock it is about to release is one this
\* thread has.
ReleasesOwnLocks ==
    \A t \in Threads :
        pc[t] = "release" /\ tx[t].locks # <<>> => owner[Head(tx[t].locks)] = t

============================================================================
