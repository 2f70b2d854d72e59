-------------------------------- MODULE Lane --------------------------------
(***************************************************************************)
(* Lanes of a libpmemobj pool (pmdk-1.5/src/libpmemobj/lane.c).            *)
(*                                                                         *)
(* A lane is a slot of the pool that owns three persistent logs.  A thread *)
(* takes one with lane_hold and gives it back with lane_release; nested    *)
(* holds of the same thread share the lane of the outermost one.  The      *)
(* lane table is an array of lock words taken by compare-and-swap, so the  *)
(* atomic step of this module is one compare-and-swap (or the one          *)
(* fetch-and-add) together with the thread-local assignments around it.    *)
(* lane_detach and lane_attach are modelled as lane.h offers them; nothing *)
(* in the repository calls them.                                           *)
(***************************************************************************)
EXTENDS Integers

CONSTANTS
    Threads,            \* threads that use the pool
    NLanes,             \* lanes_desc.runtime_nlanes
    LaneJump,           \* LANE_JUMP: distance between first primary lanes
    IdxWrap,            \* 2^32 in the code: next_lane_idx is a uint32
    PrimaryAttempts,    \* LANE_PRIMARY_ATTEMPTS
    MaxNest,            \* bound: depth of nested holds of a thread
    MaxHolds            \* bound: holds and detaches a thread performs

ASSUME LaneAssumption ==
    /\ NLanes \in Nat \ {0}
    /\ LaneJump \in Nat
    /\ IdxWrap \in Nat \ {0}
    /\ PrimaryAttempts \in Nat
    /\ MaxNest \in Nat \ {0}
    /\ MaxHolds \in Nat

VARIABLES
    lane_locks,         \* the lock words: 0 free, 1 taken
    next_lane_idx,      \* round-robin counter for first primary lanes
    lane_idx,           \* struct lane_info of each thread: the lane held,
    nest_count,         \*   or the position of the scan in get_lane, ...
    primary,
    primary_attempts,
    pc,                 \* "idle", or "get" inside the loop of get_lane
    detached,           \* lanes between lane_detach and lane_attach
    holds               \* bound counter: holds and detaches performed

record == <<lane_idx, nest_count, primary, primary_attempts>>
vars == <<lane_locks, next_lane_idx, record, pc, detached, holds>>

Lanes == 0 .. NLanes - 1

\* lane_idx == UINT64_MAX in a fresh record
Unset == -1

\* The thread owns the lane its record names.
Owns(t, l) == pc[t] = "idle" /\ nest_count[t] > 0 /\ lane_idx[t] = l

Init ==
    /\ lane_locks = [l \in Lanes |-> 0]
    /\ next_lane_idx = 0
    /\ lane_idx = [t \in Threads |-> Unset]
    /\ nest_count = [t \in Threads |-> 0]
    /\ primary = [t \in Threads |-> 0]
    /\ primary_attempts = [t \in Threads |-> PrimaryAttempts]
    /\ pc = [t \in Threads |-> "idle"]
    /\ detached = {}
    /\ holds = [t \in Threads |-> 0]

-----------------------------------------------------------------------------
(* lane_hold, outermost: a thread that never held a lane of this pool      *)
(* first draws its primary lane from next_lane_idx; get_lane starts at the *)
(* primary.                                                                *)
DrawPrimary(t) ==
    /\ lane_idx[t] = Unset
    /\ primary' = [primary EXCEPT ![t] = next_lane_idx]
    /\ lane_idx' = [lane_idx EXCEPT ![t] = next_lane_idx]
    /\ next_lane_idx' = (next_lane_idx + LaneJump) % IdxWrap

KeepPrimary(t) ==
    /\ lane_idx[t] # Unset
    /\ lane_idx' = [lane_idx EXCEPT ![t] = primary[t]]
    /\ UNCHANGED <<primary, next_lane_idx>>

LaneHold(t) ==
    /\ pc[t] = "idle" /\ nest_count[t] = 0 /\ holds[t] < MaxHolds
    /\ DrawPrimary(t) \/ KeepPrimary(t)
    /\ nest_count' = [nest_count EXCEPT ![t] = 1]
    /\ pc' = [pc EXCEPT ![t] = "get"]
    /\ holds' = [holds EXCEPT ![t] = @ + 1]
    /\ UNCHANGED <<lane_locks, primary_attempts, detached>>

(* lane_hold, nested: only the counter changes.                            *)
LaneHoldNested(t) ==
    /\ pc[t] = "idle" /\ nest_count[t] \in 1 .. MaxNest - 1
    /\ holds[t] < MaxHolds
    /\ nest_count' = [nest_count EXCEPT ![t] = @ + 1]
    /\ holds' = [holds EXCEPT ![t] = @ + 1]
    /\ UNCHANGED <<lane_locks, next_lane_idx, lane_idx, primary,
                   primary_attempts, pc, detached>>

(* Mutant of get_lane: the lock word is read and written in two steps      *)
(* instead of by one compare-and-swap, so a taken word may be taken again. *)
GetLaneTakenNoCas(t) ==
    LET idx == lane_idx[t] % NLanes
    IN /\ pc[t] = "get"
       /\ lane_locks' = [lane_locks EXCEPT ![idx] = 1]
       /\ lane_idx' = [lane_idx EXCEPT ![t] = idx]
       /\ pc' = [pc EXCEPT ![t] = "idle"]
       /\ UNCHANGED <<next_lane_idx, nest_count, primary, primary_attempts,
                      detached, holds>>

(* One iteration of get_lane that finds the lock word free and takes it.   *)
(* The index is reduced modulo the lane count, the primary is not.         *)
GetLaneTaken(t) ==
    LET idx == lane_idx[t] % NLanes
        reelect == idx # primary[t] /\ primary_attempts[t] = 0
    IN /\ pc[t] = "get" /\ lane_locks[idx] = 0
       /\ lane_locks' = [lane_locks EXCEPT ![idx] = 1]
       /\ lane_idx' = [lane_idx EXCEPT ![t] = idx]
       /\ primary' = IF reelect THEN [primary EXCEPT ![t] = idx] ELSE primary
       /\ primary_attempts' =
             IF reelect \/ idx = primary[t]
               THEN [primary_attempts EXCEPT ![t] = PrimaryAttempts]
               ELSE primary_attempts
       /\ pc' = [pc EXCEPT ![t] = "idle"]
       /\ UNCHANGED <<next_lane_idx, nest_count, detached, holds>>

(* One iteration that finds the lock word taken: the next lane is tried,   *)
(* after the last one the thread yields and the index wraps to lane 0.     *)
GetLaneBusy(t) ==
    LET idx == lane_idx[t] % NLanes
    IN /\ pc[t] = "get" /\ lane_locks[idx] = 1
       /\ lane_idx' = [lane_idx EXCEPT ![t] = idx + 1]
       /\ primary_attempts' =
             IF idx = primary[t] /\ primary_attempts[t] > 0
               THEN [primary_attempts EXCEPT ![t] = @ - 1]
               ELSE primary_attempts
       /\ UNCHANGED <<lane_locks, next_lane_idx, nest_count, primary, pc,
                      detached, holds>>

(* Mutant of lane_release: the unlock is forgotten.                        *)
LaneReleaseNoUnlock(t) ==
    /\ pc[t] = "idle" /\ nest_count[t] > 0
    /\ nest_count' = [nest_count EXCEPT ![t] = @ - 1]
    /\ UNCHANGED <<lane_locks, next_lane_idx, lane_idx, primary,
                   primary_attempts, pc, detached, holds>>

(* lane_release: the outermost level gives the lock word back.             *)
LaneRelease(t) ==
    /\ pc[t] = "idle" /\ nest_count[t] > 0
    /\ nest_count' = [nest_count EXCEPT ![t] = @ - 1]
    /\ lane_locks' = IF nest_count[t] = 1
                       THEN [lane_locks EXCEPT ![lane_idx[t]] = 0]
                       ELSE lane_locks
    /\ UNCHANGED <<next_lane_idx, lane_idx, primary, primary_attempts, pc,
                   detached, holds>>

(* lane_detach leaves the lock word taken and hands the index to the       *)
(* caller; lane_attach makes another (or the same) thread its owner.       *)
LaneDetach(t) ==
    /\ pc[t] = "idle" /\ nest_count[t] = 1 /\ holds[t] < MaxHolds
    /\ nest_count' = [nest_count EXCEPT ![t] = 0]
    /\ detached' = detached \cup {lane_idx[t]}
    /\ holds' = [holds EXCEPT ![t] = @ + 1]
    /\ UNCHANGED <<lane_locks, next_lane_idx, lane_idx, primary,
                   primary_attempts, pc>>

LaneAttach(t) ==
    /\ pc[t] = "idle" /\ nest_count[t] = 0
    /\ \E l \in detached :
          /\ lane_idx' = [lane_idx EXCEPT ![t] = l]
          /\ detached' = detached \ {l}
    /\ nest_count' = [nest_count EXCEPT ![t] = 1]
    /\ UNCHANGED <<lane_locks, next_lane_idx, primary, primary_attempts, pc,
                   holds>>

(* A thread that holds no lane exits and lane_info_cleanup frees its       *)
(* record; a new thread in its place starts with a fresh one               *)
(* (get_lane_info_record).                                                 *)
ThreadExit(t) ==
    /\ pc[t] = "idle" /\ nest_count[t] = 0 /\ lane_idx[t] # Unset
    /\ lane_idx' = [lane_idx EXCEPT ![t] = Unset]
    /\ primary' = [primary EXCEPT ![t] = 0]
    /\ primary_attempts' = [primary_attempts EXCEPT ![t] = PrimaryAttempts]
    /\ UNCHANGED <<lane_locks, next_lane_idx, nest_count, pc, detached, holds>>

Step(t) == \/ LaneHold(t) \/ LaneHoldNested(t)
           \/ GetLaneTaken(t) \/ GetLaneBusy(t)
           \/ LaneRelease(t)
           \/ LaneDetach(t) \/ LaneAttach(t)
           \/ ThreadExit(t)

Next == \E t \in Threads : Step(t)

(* A thread inside get_lane keeps trying, an owner finishes its operation  *)
(* (every lane_hold of the library is paired with a lane_release), and a   *)
(* detached lane is attached by somebody.                                  *)
Fairness == \A t \in Threads : /\ WF_vars(GetLaneTaken(t) \/ GetLaneBusy(t))
                               /\ WF_vars(LaneRelease(t))
                               /\ WF_vars(LaneAttach(t))

Spec == Init /\ [][Next]_vars /\ Fairness

-----------------------------------------------------------------------------
(* Every variable has its type.                                            *)
TypeOK ==
    /\ lane_locks \in [Lanes -> {0, 1}]
    /\ next_lane_idx \in Nat
    /\ lane_idx \in [Threads -> Nat \cup {Unset}]
    /\ nest_count \in [Threads -> Nat]
    /\ primary \in [Threads -> Nat]
    /\ primary_attempts \in [Threads -> Nat]
    /\ pc \in [Threads -> {"idle", "get"}]
    /\ detached \subseteq Lanes
    /\ holds \in [Threads -> Nat]

(* Two threads never own the same lane, and nobody owns a detached one:    *)
(* the logs of a lane have a single writer (get_lane's compare-and-swap,   *)
(* lane_release's unlock, the hand-over of lane_detach and lane_attach).   *)
LaneExclusive ==
    \A t \in Threads, l \in Lanes :
        Owns(t, l) => /\ l \notin detached
                      /\ \A u \in Threads : Owns(u, l) => u = t

(* A lock word is taken exactly while the lane has an owner or is being    *)
(* handed over: no lane leaks, and the compare-and-swap of lane_release,   *)
(* whose failure is FATAL, always finds the word taken.                    *)
LockWordsMatchOwners ==
    \A l \in Lanes :
        lane_locks[l] = 1 <=> l \in detached \/ \E t \in Threads : Owns(t, l)

(* With finitely many holds in the system a thread looping in get_lane     *)
(* gets a lane: no lane is lost and the scan visits every lock word, even  *)
(* when the first primary lies beyond the last lane.                       *)
WaiterServed ==
    \A t \in Threads : pc[t] = "get" ~> pc[t] = "idle"
=============================================================================
