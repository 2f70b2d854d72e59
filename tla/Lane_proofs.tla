----------------------------- MODULE Lane_proofs -----------------------------
(***************************************************************************)
(* Proofs that a lane of the pool has a single owner and that its lock     *)
(* word is taken exactly while it has one, for any number of threads and   *)
(* lanes and any jump, wrap and attempt constants.                         *)
(***************************************************************************)
EXTENDS Lane, TLAPS

(* What is needed beside LaneExclusive and LockWordsMatchOwners: the index *)
(* a thread scans with is a number, its hold is already counted, and an    *)
(* owner's index is a lane.                                                *)
IndexInRange ==
    \A t \in Threads :
        /\ pc[t] = "get" => lane_idx[t] \in Nat /\ nest_count[t] > 0
        /\ pc[t] = "idle" /\ nest_count[t] > 0 => lane_idx[t] \in Lanes

LaneInv == TypeOK /\ IndexInRange /\ LaneExclusive /\ LockWordsMatchOwners

(* The reduction of get_lane, lane_idx %= nlocks, yields a lane.           *)
LEMMA ReducedIndexIsLane ==
    \A i \in Nat : i % NLanes \in Lanes /\ i % NLanes \in Nat
BY LaneAssumption DEF Lanes

(* The pool starts with all lock words free and no owner.                  *)
LEMMA InitEstablishesLaneInv == Init => LaneInv
BY LaneAssumption DEF Init, LaneInv, TypeOK, IndexInRange, LaneExclusive,
    LockWordsMatchOwners, Unset, Owns

(* Every step of lane_hold, get_lane, lane_release, lane_detach,           *)
(* lane_attach and of a thread's end keeps types and index ranges.         *)
LEMMA StepKeepsTypes ==
    ASSUME LaneInv, NEW t \in Threads, Step(t)
    PROVE  TypeOK' /\ IndexInRange'
<1> USE LaneAssumption DEF LaneInv, TypeOK, IndexInRange
<1>1. CASE LaneHold(t)
  BY <1>1 DEF LaneHold, DrawPrimary, KeepPrimary, Unset
<1>2. CASE LaneHoldNested(t)
  BY <1>2 DEF LaneHoldNested
<1>3. CASE GetLaneTaken(t)
  <2> DEFINE idx == lane_idx[t] % NLanes
  <2>0. lane_idx[t] \in Nat
    BY <1>3 DEF GetLaneTaken
  <2>1. idx \in Lanes /\ idx \in Nat
    BY <2>0, ReducedIndexIsLane
  <2>2. /\ lane_idx' = [lane_idx EXCEPT ![t] = idx]
        /\ lane_locks' = [lane_locks EXCEPT ![idx] = 1]
        /\ primary' = primary \/ primary' = [primary EXCEPT ![t] = idx]
        /\ \/ primary_attempts' = primary_attempts
           \/ primary_attempts' = [primary_attempts EXCEPT ![t] = PrimaryAttempts]
    BY <1>3 DEF GetLaneTaken
  <2> HIDE DEF idx
  <2> QED
    BY <1>3, <2>1, <2>2 DEF GetLaneTaken
<1>4. CASE GetLaneBusy(t)
  <2> DEFINE idx == lane_idx[t] % NLanes
  <2>0. lane_idx[t] \in Nat
    BY <1>4 DEF GetLaneBusy
  <2>1. idx \in Lanes /\ idx + 1 \in Nat
    BY <2>0, ReducedIndexIsLane
  <2>2. /\ lane_idx' = [lane_idx EXCEPT ![t] = idx + 1]
        /\ \/ primary_attempts' = primary_attempts
           \/ /\ primary_attempts[t] > 0
              /\ primary_attempts' = [primary_attempts EXCEPT ![t] = @ - 1]
    BY <1>4 DEF GetLaneBusy
  <2> HIDE DEF idx
  <2> QED
    BY <1>4, <2>1, <2>2 DEF GetLaneBusy
<1>5. CASE LaneRelease(t)
  BY <1>5 DEF LaneRelease
<1>6. CASE LaneDetach(t)
  BY <1>6 DEF LaneDetach
<1>7. CASE LaneAttach(t)
  BY <1>7 DEF LaneAttach, Lanes
<1>8. CASE ThreadExit(t)
  BY <1>8 DEF ThreadExit
<1> QED
  BY <1>1, <1>2, <1>3, <1>4, <1>5, <1>6, <1>7, <1>8 DEF Step

(* Every step keeps the single ownership: a lane is only taken when its    *)
(* lock word is free, hence when it has no owner and is not handed over.   *)
LEMMA StepKeepsExclusion ==
    ASSUME LaneInv, NEW t \in Threads, Step(t)
    PROVE  LaneExclusive' /\ LockWordsMatchOwners'
<1> USE LaneAssumption DEF LaneInv, TypeOK, IndexInRange, LaneExclusive,
        LockWordsMatchOwners, Owns
<1>1. CASE LaneHold(t)
  <2>1. \A u \in Threads, l \in Lanes : Owns(u, l)' <=> Owns(u, l)
    BY <1>1 DEF LaneHold, DrawPrimary, KeepPrimary
  <2> QED
    BY <1>1, <2>1 DEF LaneHold
<1>2. CASE LaneHoldNested(t)
  <2>1. \A u \in Threads, l \in Lanes : Owns(u, l)' <=> Owns(u, l)
    BY <1>2 DEF LaneHoldNested
  <2> QED
    BY <1>2, <2>1 DEF LaneHoldNested
<1>3. CASE GetLaneTaken(t)
  <2> DEFINE idx == lane_idx[t] % NLanes
  <2>0. lane_idx[t] \in Nat
    BY <1>3 DEF GetLaneTaken
  <2>1. idx \in Lanes
    BY <2>0, ReducedIndexIsLane
  <2>2. /\ lane_locks[idx] = 0
        /\ lane_idx' = [lane_idx EXCEPT ![t] = idx]
        /\ lane_locks' = [lane_locks EXCEPT ![idx] = 1]
    BY <1>3 DEF GetLaneTaken
  <2> HIDE DEF idx
  <2>3. LaneExclusive'
    BY <1>3, <2>1, <2>2 DEF GetLaneTaken
  <2>4. ASSUME NEW l \in Lanes
        PROVE  (lane_locks[l] = 1
                  <=> l \in detached \/ \E u \in Threads : Owns(u, l))'
    <3>1. CASE l = idx
      BY <1>3, <2>1, <2>2, <3>1 DEF GetLaneTaken
    <3>2. CASE l # idx
      BY <1>3, <2>1, <2>2, <3>2 DEF GetLaneTaken
    <3> QED BY <3>1, <3>2
  <2> QED
    BY <2>3, <2>4
<1>4. CASE GetLaneBusy(t)
  BY <1>4 DEF GetLaneBusy
<1>5. CASE LaneRelease(t)
  BY <1>5 DEF LaneRelease
<1>6. CASE LaneDetach(t)
  BY <1>6 DEF LaneDetach
<1>7. CASE LaneAttach(t)
  BY <1>7 DEF LaneAttach
<1>8. CASE ThreadExit(t)
  BY <1>8 DEF ThreadExit
<1> QED
  BY <1>1, <1>2, <1>3, <1>4, <1>5, <1>6, <1>7, <1>8 DEF Step

(* The inductive invariant holds in every state of every pool: types,      *)
(* index ranges, single ownership and the meaning of the lock words.       *)
THEOREM LaneInvariant == Spec => []LaneInv
<1>1. LaneInv /\ UNCHANGED vars => LaneInv'
  BY DEF LaneInv, TypeOK, IndexInRange, LaneExclusive, LockWordsMatchOwners,
         Owns, vars, record
<1>2. LaneInv /\ [Next]_vars => LaneInv'
  BY <1>1, StepKeepsTypes, StepKeepsExclusion DEF Next, LaneInv
<1> QED
  BY <1>2, InitEstablishesLaneInv, PTL DEF Spec

(* The lane table never has two owners for one lane, and lane_release      *)
(* always finds the lock word of the lane it gives back taken.             *)
THEOREM LanesAreExclusive == Spec => [](LaneExclusive /\ LockWordsMatchOwners)
<1>1. LaneInv => LaneExclusive /\ LockWordsMatchOwners
  BY DEF LaneInv
<1> QED
  BY <1>1, LaneInvariant, PTL
=============================================================================
