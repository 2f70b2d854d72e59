----------------------------- MODULE Tx_proofs -----------------------------
(***************************************************************************)
(* Proofs about transactions (module Tx), for every set of cells and every *)
(* size of the undo log, under the premises of the passing run: flushes    *)
(* are ordered, and no transaction begins on a log with leftover entries.  *)
(*                                                                         *)
(* The inductive invariant TInv says, for each place the thread can be at, *)
(* how the durable undo log and the cells relate: every allocated cell     *)
(* holds durably what it held at the begin, or a valid entry with that     *)
(* contents is still ahead of the walk over the log.  There is one lemma   *)
(* per action, crashes and recovery last.                                  *)
(***************************************************************************)
EXTENDS Tx, TLAPS

Premises == FlushOrdered = TRUE /\ MaxReuse = 0

Member == /\ \A i \in Slots : undo[i] \in undoMay[i]
          /\ \A c \in Cells : data[c] \in dataMay[c]

\* The contents at the begin, and no other, are what entries can bring back.
Matches == \A c \in Cells : IF c \in alloc THEN before[c] \in Values
                                           ELSE before[c] = None
Faithful == \A i \in Slots : \A e \in undoMay[i] :
                e = Invalid \/ (e.cell \in alloc /\ e.val = before[e.cell])

Intact(c) == data[c] = before[c] /\ dataMay[c] = {data[c]}

\* Entries 1..m are durable and the walk reaches them.
Prefix(m) == /\ m \in 0 .. Capacity
             /\ \A i \in 1 .. m : undoMay[i] = {undo[i]} /\ undo[i] # Invalid

Saved(c, from, m) == \E i \in from .. m : undo[i].cell = c

Undoable(m, from) == /\ Matches /\ Faithful /\ Prefix(m)
                     /\ \A c \in alloc : Intact(c) \/ Saved(c, from, m)

Restored == Matches /\ Faithful /\ \A c \in alloc : Intact(c)

CleanFrom(j) == \A i \in Slots : i >= j => undoMay[i] = {Invalid}
Drained == \A i \in Slots : undoMay[i] = {undo[i]}
Settled == View(alloc) \in {before, after}

InTx == /\ n <= Capacity /\ CleanFrom(n + 1)
        /\ fresh \cap alloc = {} /\ fresh \subseteq ranges
        /\ \A c \in ranges \cap alloc : Saved(c, 1, n)
        /\ \A i \in 1 .. n : undo[i] # Invalid /\ undo[i].cell \in ranges
        /\ outcome = "none"

IdleInv ==
    /\ Settled /\ Durable /\ Drained /\ undo[1] = Invalid
    /\ outcome = "committed" => View(alloc) = after /\ CleanFrom(1)
    /\ outcome = "aborted" => View(alloc) = before /\ CleanFrom(1)

WorkInv == InTx /\ after = before /\ Undoable(n, 1)

SnapInv == InTx /\ after = before /\ n >= 1 /\ Undoable(n - 1, 1)

FlushedInv ==
    /\ InTx /\ after = Work /\ Undoable(n, 1)
    /\ \A c \in (alloc \cup fresh) \ freed : dataMay[c] = {data[c]}

RestoreInv == outcome = "aborted" /\ Undoable(n, k) /\ CleanFrom(n + 1)

ClobberInv ==
    /\ n >= 1
    /\ \/ /\ outcome = "committed" /\ View(alloc) = after /\ Durable
          /\ undoMay[1] = {Invalid} /\ CleanFrom(n + 1)
       \/ outcome = "aborted" /\ Restored /\ CleanFrom(n + 1)
       \/ outcome = "crashed" /\ Restored /\ n <= Base
    /\ pc \in {"clobbering", "clobberingExt"} =>
          \A i \in Slots : i <= n /\ i <= Base => undo[i] = Invalid
    /\ pc = "clobberingExt" => \A i \in Slots : i <= n => undo[i] = Invalid

DownInv ==
    /\ outcome = "crashed" /\ Drained
    /\ \A c \in Cells : dataMay[c] = {data[c]}
    /\ \/ undo[1] = Invalid /\ Settled
       \/ undo[1] # Invalid /\ \E m \in Nat : Undoable(m, 1)

UndoInv ==
    /\ outcome = "crashed" /\ Drained
    /\ \A c \in Cells : dataMay[c] = {data[c]}
    /\ \/ undo[1] = Invalid /\ Settled /\ n = 0 /\ k = 1
       \/ undo[1] # Invalid /\ n \in 1 .. Base /\ \E m \in Nat : Undoable(m, k)

Phase == /\ pc = "idle" => IdleInv
         /\ pc = "work" => WorkInv
         /\ pc = "snap" => SnapInv
         /\ pc = "flushed" => FlushedInv
         /\ pc = "restore" => RestoreInv
         /\ pc \in {"clobber", "clobbering", "clobberingExt"} => ClobberInv
         /\ pc = "down" => DownInv
         /\ pc = "undo" => UndoInv

TInv == TypeOK /\ Member /\ Phase

-----------------------------------------------------------------------------
(* The undo log of the lane has at least one entry.                        *)
LEMMA SlotFacts == 1 \in Slots /\ Base + Ext \in Nat /\ Base \in Nat /\ Slots \subseteq Nat
BY TxAssumption DEF Slots

(* The log never has more entries than its lane and its extension.       *)
LEMMA CapacityFact == ASSUME TypeOK PROVE Capacity \in Nat /\ Capacity <= Base + Ext
BY TxAssumption DEF Capacity, TypeOK

(* Types are preserved by every step of the transaction's code.            *)
LEMMA TypeStep == TypeOK /\ [Next]_vars => TypeOK'
<1> SUFFICES ASSUME TypeOK, [Next]_vars PROVE TypeOK'
  BY Zenon
<1> USE SlotFacts, CapacityFact, TxAssumption
<1>1. CASE UNCHANGED vars
  BY <1>1, Zenon DEF TypeOK, vars, pool, volatile, history
<1>2. CASE TxBegin
  BY <1>2 DEF TypeOK, TxBegin, pool, View
<1>3. ASSUME NEW c \in Cells, TxAdd(c) PROVE TypeOK'
  <2> DEFINE extend == n = Base /\ ~ext
             entry == [cell |-> c, val |-> data[c]]
             old(i) == IF extend /\ i > Base THEN {Invalid} ELSE undoMay[i]
  <2>1. entry \in UndoEntry
    BY Zenon DEF TypeOK, UndoEntry
  <2>2. undo' = [i \in Slots |->
                        CASE i = n + 1 -> entry
                          [] i # n + 1 /\ extend /\ i > Base -> Invalid
                          [] OTHER -> undo[i]]
    BY <1>3, Zenon DEF TxAdd
  <2>3. undoMay' = [i \in Slots |->
                           IF i = n + 1 THEN old(i) \cup {Invalid, entry}
                                        ELSE old(i)]
    BY <1>3, Zenon DEF TxAdd
  <2>4. undo' \in [Slots -> UndoEntry \cup {Invalid}]
    <3> HIDE DEF entry, extend
    <3> QED BY <2>1, <2>2, Zenon DEF TypeOK
  <2>5. undoMay' \in [Slots -> SUBSET (UndoEntry \cup {Invalid})]
    <3> HIDE DEF entry, extend
    <3> QED BY <2>1, <2>3, Zenon DEF TypeOK
  <2>6. n' \in 0 .. Base + Ext
    BY <1>3 DEF TxAdd, TypeOK
  <2>7. ext' \in BOOLEAN /\ pc' = "snap"
    BY <1>3, Zenon DEF TxAdd, TypeOK
  <2>8. UNCHANGED <<data, dataMay, alloc, fresh, freed, k, history, outcome>> /\ ranges' \subseteq Cells
    BY <1>3, Zenon DEF TxAdd, TypeOK
  <2> QED
    BY <2>4, <2>5, <2>6, <2>7, <2>8, Zenon DEF TypeOK, history
<1>4. CASE SnapshotDrain
  BY <1>4, Zenon DEF TypeOK, SnapshotDrain, DrainUndo, volatile, history
<1>5. ASSUME NEW c \in Cells, NEW v \in Values, TxWrite(c, v) PROVE TypeOK'
  BY <1>5, Zenon DEF TypeOK, TxWrite, Write, volatile, history
<1>6. ASSUME NEW c \in Cells, NEW v \in Values, TxAlloc(c, v) PROVE TypeOK'
  BY <1>6, Zenon DEF TypeOK, TxAlloc, Write, history
<1>7. ASSUME NEW c \in Cells, TxFree(c) PROVE TypeOK'
  BY <1>7, Zenon DEF TypeOK, TxFree, pool, history
<1>8. CASE TxPreCommit
  BY <1>8 DEF TypeOK, TxPreCommit, volatile, Work, View
<1>9. CASE TxPublish
  BY <1>9, Zenon DEF TypeOK, TxPublish, volatile, history
<1>10. CASE ClobberLane
  BY <1>10, Zenon DEF TypeOK, ClobberLane, Zero, volatile, history
<1>11. CASE ClobberExtension
  BY <1>11 DEF TypeOK, ClobberExtension, volatile, history
<1>12. CASE ClobberDrain
  BY <1>12 DEF TypeOK, ClobberDrain, DrainUndo, volatile, history
<1>13. CASE TxAbort
  BY <1>13 DEF TypeOK, TxAbort, pool, volatile, history
<1>14. CASE RestoreEntry
  <2>1. undo[k] \in UndoEntry
    BY <1>14 DEF RestoreEntry, AtEntry, TypeOK, Slots
  <2> QED
    BY <2>1, <1>14 DEF TypeOK, RestoreEntry, AtEntry, UndoEntry, volatile, history
<1>15. CASE TxAbortFinish
  BY <1>15, Zenon DEF TypeOK, TxAbortFinish, pool, volatile, history
<1>16. CASE Crash
  <2>1. undo' \in [Slots -> UndoEntry \cup {Invalid}]
    BY <1>16, Zenon DEF Crash, Survivors, TypeOK
  <2>2. data' \in [Cells -> Values]
    BY <1>16, Zenon DEF Crash, Images, TypeOK
  <2> QED
    BY <2>1, <2>2, <1>16 DEF Crash, TypeOK, volatile, history
<1>17. CASE Recover
  BY <1>17 DEF TypeOK, Recover, Logged, pool, history
<1>18. CASE UndoEntryApply
  <2>1. undo[k] \in UndoEntry
    BY <1>18 DEF UndoEntryApply, AtEntry, TypeOK, Slots
  <2> QED
    BY <2>1, <1>18 DEF TypeOK, UndoEntryApply, AtEntry, UndoEntry, volatile, history
<1>19. CASE RecoverFinish
  BY <1>19, Zenon DEF TypeOK, RecoverFinish, pool, volatile, history
<1> QED
  BY <1>1, <1>2, <1>3, <1>4, <1>5, <1>6, <1>7, <1>8, <1>9, <1>10, <1>11, <1>12,
     <1>13, <1>14, <1>15, <1>16, <1>17, <1>18, <1>19
     DEF Next, Working, Ending, Failing

(* What the program sees is among what the media may hold.                 *)
LEMMA MemberStep == TypeOK /\ Member /\ [Next]_vars => Member'
<1> SUFFICES ASSUME TypeOK, Member, [Next]_vars PROVE Member'
  BY Zenon
<1> USE SlotFacts, CapacityFact DEF Member
<1>1. CASE UNCHANGED <<data, dataMay, undo, undoMay>>
  BY <1>1, Zenon
<1>2. ASSUME NEW c \in Cells, TxAdd(c) PROVE Member'
  <2>1. \A i \in Slots : undo'[i] \in undoMay'[i]
    BY <1>2, Zenon DEF TxAdd
  <2> QED
    BY <2>1, <1>2, Zenon DEF TxAdd
<1>3. CASE SnapshotDrain
  BY <1>3, Zenon DEF SnapshotDrain, DrainUndo
<1>4. ASSUME NEW c \in Cells, NEW v \in Values, Write(c, v), UNCHANGED <<undo, undoMay>>
      PROVE Member'
  BY <1>4, Zenon DEF Write, TypeOK
<1>5. CASE TxPreCommit
  BY <1>5, Zenon DEF TxPreCommit
<1>6. CASE TxPublish
  BY <1>6, Zenon DEF TxPublish, TypeOK
<1>7. CASE ClobberLane
  BY <1>7, Zenon DEF ClobberLane, Zero
<1>8. CASE ClobberExtension
  BY <1>8, Zenon DEF ClobberExtension
<1>9. CASE ClobberDrain
  BY <1>9, Zenon DEF ClobberDrain, DrainUndo
<1>10. CASE RestoreEntry
  BY <1>10, Zenon DEF RestoreEntry, TypeOK
<1>11. CASE Crash
  BY <1>11, Zenon DEF Crash
<1>12. CASE UndoEntryApply
  BY <1>12, Zenon DEF UndoEntryApply, TypeOK
<1>13. CASE TxBegin \/ TxAbort \/ TxAbortFinish \/ Recover \/ RecoverFinish \/ UNCHANGED vars
  BY <1>1, <1>13, Zenon DEF TxBegin, TxAbort, TxAbortFinish, Recover, RecoverFinish, pool, vars
<1>14. ASSUME NEW c \in Cells, NEW v \in Values, TxWrite(c, v) \/ TxAlloc(c, v)
       PROVE Member'
  BY <1>4, <1>14, Zenon DEF TxWrite, TxAlloc
<1>15. ASSUME NEW c \in Cells, TxFree(c) PROVE Member'
  BY <1>1, <1>15, Zenon DEF TxFree, pool
<1> HIDE DEF Member
<1> QED
  BY <1>2, <1>3, <1>5, <1>6, <1>7, <1>8, <1>9, <1>10, <1>11, <1>12, <1>13, <1>14, <1>15, Zenon
     DEF Next, Working, Ending, Failing

(* A pool just created: empty log, durable cells.                         *)
LEMMA TInit == Init => TInv
<1> SUFFICES ASSUME Init PROVE TInv
  BY Zenon
<1> USE SlotFacts, TxAssumption
<1>1. TypeOK
  <2>1. before \in [Cells -> Values \cup {None}] /\ after \in [Cells -> Values \cup {None}]
    BY Zenon DEF Init
  <2>2. data \in [Cells -> Values] /\ dataMay \in [Cells -> SUBSET Values] /\ alloc \subseteq Cells
    BY Zenon DEF Init
  <2>3. /\ undo \in [Slots -> UndoEntry \cup {Invalid}]
        /\ undoMay \in [Slots -> SUBSET (UndoEntry \cup {Invalid})]
    BY Zenon DEF Init
  <2>4. n \in 0 .. Base + Ext /\ k \in 1 .. Base + Ext + 1 /\ reuse \in 0 .. MaxReuse
    BY DEF Init
  <2>5. /\ ext = FALSE /\ ranges = {} /\ fresh = {} /\ freed = {}
        /\ pc = "idle" /\ outcome = "none"
    BY Zenon DEF Init
  <2> QED
    BY <2>1, <2>2, <2>3, <2>4, <2>5, Zenon DEF TypeOK
<1>2. Member
  <2>1. \A i \in Slots : undo[i] \in undoMay[i]
    BY Zenon DEF Init
  <2>2. \A c \in Cells : data[c] \in dataMay[c]
    BY Zenon DEF Init
  <2> QED
    BY <2>1, <2>2, Zenon DEF Member
<1>3. pc = "idle" /\ outcome = "none" /\ Drained /\ undo[1] = Invalid /\ Durable
  BY Zenon DEF Init, Drained, Durable
<1>4. View(alloc) = before
  BY Zenon DEF Init, View
<1>5. Phase
  BY <1>3, <1>4, Zenon DEF Phase, IdleInv, Settled
<1> QED
  BY <1>1, <1>2, <1>5, Zenon DEF TInv

-----------------------------------------------------------------------------
\* The phases, one lemma per action.

(* A transaction begins on an empty log and on durable contents.           *)
LEMMA BeginPhase == ASSUME Premises, TInv, TxBegin PROVE Phase'
<1> USE SlotFacts
<1>1. IdleInv /\ TypeOK
  BY Zenon DEF TInv, TxBegin, Phase
<1>2. \A i \in Slots : undo[i] = Invalid
  BY <1>1 DEF TxBegin, Leftover, Premises, TypeOK
<1>3. \A i \in Slots : undoMay[i] = {Invalid}
  BY <1>1, <1>2, Zenon DEF IdleInv, Drained
<1>4. before' = [c \in Cells |-> IF c \in alloc THEN data[c] ELSE None] /\ after' = before'
  BY Zenon DEF TxBegin, View
<1>5. /\ n' = 0 /\ ranges' = {} /\ fresh' = {} /\ pc' = "work" /\ outcome' = "none"
      /\ UNCHANGED <<data, dataMay, alloc, undo, undoMay, ext>>
  BY Zenon DEF TxBegin, pool
<1>6. (n <= Capacity)'
  BY <1>1, <1>5, CapacityFact DEF Capacity, TypeOK
<1>7. InTx'
  BY <1>3, <1>5, <1>6 DEF InTx, CleanFrom
<1>8. Matches'
  BY <1>1, <1>4, <1>5, Zenon DEF Matches, TypeOK
<1>9. Faithful'
  BY <1>3, <1>5, Zenon DEF Faithful
<1>10. Prefix(n)'
  BY <1>1, <1>5, CapacityFact DEF Prefix, Capacity
<1>11. \A c \in alloc' : Intact(c)'
  BY <1>1, <1>4, <1>5, Zenon DEF Intact, IdleInv, Durable, TypeOK
<1>12. WorkInv'
  BY <1>4, <1>7, <1>8, <1>9, <1>10, <1>11, Zenon DEF WorkInv, Undoable
<1> QED
  BY <1>5, <1>12, Zenon DEF Phase

(* An added entry carries the contents from the begin: a cell that is not  *)
(* in ranges was not written.                                              *)
LEMMA AddPhase == ASSUME TInv, NEW c \in Cells, TxAdd(c) PROVE Phase'
<1> USE SlotFacts, TxAssumption
<1> DEFINE entry == [cell |-> c, val |-> data[c]]
           extend == n = Base /\ ~ext
<1>1. WorkInv /\ TypeOK /\ Member
  BY Zenon DEF TInv, TxAdd, Phase
<1>2. /\ n \in Nat /\ n < Base + Ext /\ n' = n + 1 /\ n + 1 \in Slots
      /\ ranges' = ranges \cup {c} /\ c \in alloc /\ c \notin ranges /\ pc' = "snap"
      /\ UNCHANGED <<data, dataMay, alloc, fresh, freed, before, after, outcome>>
      /\ ext' = (ext \/ extend)
  BY <1>1 DEF TxAdd, TypeOK, Slots, history
<1>3. CleanFrom(n + 1) /\ n <= Capacity
  BY <1>1, Zenon DEF WorkInv, InTx
<1>4. \A i \in Slots : i # n + 1 => undo'[i] = undo[i] /\ undoMay'[i] = undoMay[i]
  <2> SUFFICES ASSUME NEW i \in Slots, i # n + 1
               PROVE  undo'[i] = undo[i] /\ undoMay'[i] = undoMay[i]
    BY Zenon
  <2>1. extend /\ i > Base => undoMay[i] = {Invalid} /\ undo[i] = Invalid
    BY <1>1, <1>2, <1>3 DEF CleanFrom, Member
  <2>2. undo'[i] = IF extend /\ i > Base THEN Invalid ELSE undo[i]
    BY Zenon DEF TxAdd
  <2>3. undoMay'[i] = IF extend /\ i > Base THEN {Invalid} ELSE undoMay[i]
    BY Zenon DEF TxAdd
  <2> QED
    BY <2>1, <2>2, <2>3, Zenon
<1>5. undo'[n + 1] = entry
  BY <1>2, Zenon DEF TxAdd
<1>6. undoMay'[n + 1] = {Invalid, entry}
  <2>1. undoMay[n + 1] = {Invalid}
    BY <1>2, <1>3 DEF CleanFrom
  <2>2. undoMay'[n + 1] = (IF extend /\ n + 1 > Base THEN {Invalid} ELSE undoMay[n + 1])
                             \cup {Invalid, entry}
    BY <1>2, Zenon DEF TxAdd
  <2> QED
    BY <2>1, <2>2, Zenon
<1>7. ~Saved(c, 1, n)
  BY <1>1, <1>2, Zenon DEF WorkInv, InTx, Saved
<1>8. Intact(c)
  BY <1>1, <1>2, <1>7, Zenon DEF WorkInv, Undoable
<1>9. entry \in UndoEntry /\ entry # Invalid /\ entry.cell = c /\ entry.val = before[c]
  BY <1>1, <1>8 DEF UndoEntry, TypeOK, Intact
<1> HIDE DEF entry
<1>10. (n <= Capacity)' /\ Capacity \in Nat /\ Capacity <= Capacity' /\ Capacity' \in Nat
  <2>1. CASE ext
    <3>1. ext'
      BY <1>2, <2>1, Zenon
    <3>2. Capacity = Base + Ext /\ Capacity' = Base + Ext
      BY <2>1, <3>1, Zenon DEF Capacity
    <3> QED
      BY <1>2, <3>2
  <2>2. CASE ~ext /\ n = Base
    <3>1. ext'
      BY <1>2, <2>2, Zenon
    <3>2. Capacity = Base /\ Capacity' = Base + Ext
      BY <2>2, <3>1, Zenon DEF Capacity
    <3> QED
      BY <1>2, <2>2, <3>2
  <2>3. CASE ~ext /\ n # Base
    <3>1. ~ext'
      BY <1>2, <2>3, Zenon
    <3>2. Capacity = Base /\ Capacity' = Base
      BY <2>3, <3>1, Zenon DEF Capacity
    <3> QED
      BY <1>2, <1>3, <2>3, <3>2
  <2> QED
    BY <2>1, <2>2, <2>3, Zenon
<1> HIDE DEF extend
<1>11. \A i \in 1 .. n : i \in Slots /\ i # n + 1
  BY <1>2 DEF Slots
<1>12. InTx'
  <2>1. CleanFrom(n + 1)'
    BY <1>2, <1>3, <1>4 DEF CleanFrom
  <2>2. (fresh \cap alloc = {} /\ fresh \subseteq ranges /\ outcome = "none")'
    BY <1>1, <1>2, Zenon DEF WorkInv, InTx
  <2>3. \A d \in ranges' \cap alloc' : Saved(d, 1, n)'
    <3> SUFFICES ASSUME NEW d \in ranges \cup {c}, d \in alloc
                 PROVE  \E i \in 1 .. n + 1 : undo'[i].cell = d
      BY <1>2, Zenon DEF Saved
    <3>1. CASE d = c
      BY <1>2, <1>5, <1>9, <3>1
    <3>2. CASE d \in ranges
      <4>1. PICK i \in 1 .. n : undo[i].cell = d
        BY <1>1, <3>2, Zenon DEF WorkInv, InTx, Saved
      <4>2. undo'[i].cell = d /\ i \in 1 .. n + 1
        BY <4>1, <1>2, <1>4, <1>11
      <4> QED
        BY <4>2, Zenon
    <3> QED
      BY <3>1, <3>2, Zenon
  <2>4. \A i \in 1 .. n + 1 : undo'[i] # Invalid /\ undo'[i].cell \in ranges'
    <3> SUFFICES ASSUME NEW i \in 1 .. n + 1
                 PROVE  undo'[i] # Invalid /\ undo'[i].cell \in ranges'
      BY Zenon
    <3>1. CASE i = n + 1
      BY <1>2, <1>5, <1>9, <3>1, Zenon
    <3>2. CASE i \in 1 .. n
      BY <1>1, <1>2, <1>4, <1>11, <3>2, Zenon DEF WorkInv, InTx
    <3> QED
      BY <1>2, <3>1, <3>2
  <2> QED
    BY <1>2, <1>10, <2>1, <2>2, <2>3, <2>4, Zenon DEF InTx
<1>13. Matches'
  BY <1>1, <1>2, Zenon DEF WorkInv, Undoable, Matches
<1>14. Faithful'
  <2> SUFFICES ASSUME NEW i \in Slots, NEW e \in undoMay'[i]
               PROVE  e = Invalid \/ (e.cell \in alloc /\ e.val = before[e.cell])
    BY <1>2, Zenon DEF Faithful
  <2>1. CASE i = n + 1
    BY <1>2, <1>6, <1>9, <2>1, Zenon
  <2>2. CASE i # n + 1
    BY <1>1, <1>4, <2>2, Zenon DEF WorkInv, Undoable, Faithful
  <2> QED
    BY <2>1, <2>2, Zenon
<1>15. Prefix(n)
  BY <1>1, Zenon DEF WorkInv, Undoable
<1>16. Prefix(n - 1)'
  BY <1>2, <1>4, <1>10, <1>11, <1>15 DEF Prefix
<1>17. \A d \in alloc' : Intact(d)' \/ Saved(d, 1, n - 1)'
  BY <1>1, <1>2, <1>4, <1>11 DEF WorkInv, Undoable, Intact, Saved
<1>18. SnapInv'
  <2>1. Undoable(n - 1, 1)'
    BY <1>13, <1>14, <1>16, <1>17, Zenon DEF Undoable
  <2> QED
    BY <1>1, <1>2, <1>12, <2>1 DEF SnapInv, WorkInv
<1> QED
  BY <1>2, <1>18, Zenon DEF Phase

(* After the drain of ulog_entry_buf_create the new entry counts.          *)
LEMMA SnapshotPhase == ASSUME TInv, SnapshotDrain PROVE Phase'
<1> USE SlotFacts
<1>1. SnapInv /\ TypeOK /\ Member
  BY Zenon DEF TInv, SnapshotDrain, Phase
<1>2. /\ pc' = "work"
      /\ \A i \in Slots : undoMay'[i] = {undo[i]}
      /\ UNCHANGED <<data, dataMay, alloc, undo, ext, n, ranges, fresh, freed, before,
                     after, outcome>>
  BY Zenon DEF SnapshotDrain, DrainUndo, volatile, history
<1>3. n \in Nat /\ Capacity' = Capacity /\ \A i \in 1 .. n : i \in Slots
  BY <1>1, <1>2 DEF Capacity, TypeOK, Slots
<1>4. InTx'
  BY <1>1, <1>2, <1>3, Zenon DEF SnapInv, InTx, CleanFrom, Saved, Member
<1>5. Matches'
  BY <1>1, <1>2, Zenon DEF SnapInv, Undoable, Matches
<1>6. Faithful'
  BY <1>1, <1>2 DEF SnapInv, Undoable, Faithful, Member
<1>7. Prefix(n)'
  BY <1>1, <1>2, <1>3, CapacityFact DEF SnapInv, InTx, Prefix
<1>8. \A d \in alloc' : Intact(d)' \/ Saved(d, 1, n)'
  <2> SUFFICES ASSUME NEW d \in alloc, ~Intact(d) PROVE Saved(d, 1, n)
    BY <1>2, Zenon DEF Intact, Saved
  <2>1. PICK i \in 1 .. n - 1 : undo[i].cell = d
    BY <1>1, Zenon DEF SnapInv, Undoable, Saved
  <2>2. i \in 1 .. n
    BY <1>3, <2>1
  <2> QED
    BY <2>1, <2>2, Zenon DEF Saved
<1>9. WorkInv'
  BY <1>1, <1>2, <1>4, <1>5, <1>6, <1>7, <1>8, Zenon DEF WorkInv, SnapInv, Undoable
<1> QED
  BY <1>2, <1>9, Zenon DEF Phase

(* The program writes only cells it added, whose contents an entry saves,  *)
(* and cells it allocated, which a rollback gives back.                    *)
LEMMA WritePhase ==
    ASSUME TInv, pc = "work", pc' = "work",
           NEW c \in Cells, NEW v \in Values, Write(c, v),
           c \in ranges \/ c \notin alloc,
           ranges' = ranges \/ (ranges' = ranges \cup {c} /\ c \notin alloc),
           fresh' = fresh \/ (fresh' = fresh \cup {c} /\ c \notin alloc /\ c \in ranges'),
           UNCHANGED <<alloc, undo, undoMay, ext, n, before, after, outcome>>
    PROVE  Phase'
<1> USE SlotFacts
<1>1. WorkInv /\ TypeOK
  BY Zenon DEF TInv, Phase
<1>2. Capacity' = Capacity
  BY Zenon DEF Capacity
<1>3. InTx'
  BY <1>1, <1>2, Zenon DEF WorkInv, InTx, CleanFrom, Saved
<1>4. Matches' /\ Faithful'
  BY <1>1, Zenon DEF WorkInv, Undoable, Matches, Faithful
<1>5. Prefix(n)'
  BY <1>1, <1>2, Zenon DEF WorkInv, Undoable, Prefix
<1>6. \A d \in alloc : Intact(d)' \/ Saved(d, 1, n)
  <2> SUFFICES ASSUME NEW d \in alloc, ~Saved(d, 1, n) PROVE Intact(d)'
    BY Zenon
  <2>1. d # c /\ Intact(d)
    BY <1>1, Zenon DEF WorkInv, InTx, Undoable
  <2> QED
    BY <1>1, <2>1, Zenon DEF Write, Intact, TypeOK
<1>7. \A d \in alloc' : Intact(d)' \/ Saved(d, 1, n)'
  BY <1>6, Zenon DEF Saved
<1>8. WorkInv'
  BY <1>1, <1>3, <1>4, <1>5, <1>7, Zenon DEF WorkInv, Undoable
<1> QED
  BY <1>8, Zenon DEF Phase

(* Deferring a free changes no cell; cancelling a reservation drops the    *)
(* range of a cell that is not allocated.                                  *)
LEMMA FreePhase == ASSUME TInv, NEW c \in Cells, TxFree(c) PROVE Phase'
<1> USE SlotFacts
<1>1. WorkInv /\ TypeOK /\ pc' = "work"
  BY Zenon DEF TInv, TxFree, Phase
<1>2. UNCHANGED <<data, dataMay, alloc, undo, undoMay, ext, n, before, after, outcome>>
  BY Zenon DEF TxFree, pool, history
<1>3. Capacity' = Capacity
  BY <1>2, Zenon DEF Capacity
<1>4. /\ fresh' \subseteq ranges' /\ fresh' \cap alloc = {}
      /\ ranges' \cap alloc \subseteq ranges /\ ranges \cap alloc \subseteq ranges'
  BY <1>1, Zenon DEF TxFree, WorkInv, InTx
<1>5. \A i \in 1 .. n : undo[i].cell \in ranges \cap alloc
  <2> SUFFICES ASSUME NEW i \in 1 .. n PROVE undo[i].cell \in ranges \cap alloc
    BY Zenon
  <2>1. i \in Slots /\ undo[i] # Invalid /\ undo[i] \in undoMay[i] /\ undo[i].cell \in ranges
    BY <1>1 DEF TypeOK, Slots, WorkInv, InTx, TInv, Member
  <2> QED
    BY <1>1, <2>1, Zenon DEF WorkInv, Undoable, Faithful
<1>6. InTx'
  BY <1>1, <1>2, <1>3, <1>4, <1>5, Zenon DEF WorkInv, InTx, CleanFrom, Saved
<1>7. Undoable(n, 1)'
  BY <1>1, <1>2, <1>3, Zenon
     DEF WorkInv, Undoable, Matches, Faithful, Prefix, Intact, Saved
<1> QED
  BY <1>1, <1>2, <1>6, <1>7, Zenon DEF Phase, WorkInv

(* The abort starts at the first entry.                                    *)
LEMMA AbortPhase == ASSUME TInv, TxAbort PROVE Phase'
<1>1. WorkInv
  BY Zenon DEF TInv, TxAbort, Phase
<1>2. /\ pc' = "restore" /\ outcome' = "aborted" /\ k' = 1
      /\ UNCHANGED <<data, dataMay, alloc, undo, undoMay, ext, n, before>>
  BY Zenon DEF TxAbort, pool, volatile, history
<1>3. RestoreInv'
  BY <1>1, <1>2 DEF RestoreInv, WorkInv, InTx, Undoable, CleanFrom, Matches, Faithful,
     Prefix, Capacity, Intact, Saved
<1> QED
  BY <1>2, <1>3, Zenon DEF Phase

(* tx_pre_commit leaves every cell of the committed pool durable: a cell   *)
(* outside ranges was never written.                                       *)
LEMMA PreCommitPhase == ASSUME TInv, TxPreCommit PROVE Phase'
<1> USE SlotFacts
<1>1. WorkInv /\ TypeOK /\ Member
  BY Zenon DEF TInv, TxPreCommit, Phase
<1>2. /\ pc' = "flushed" /\ after' = Work
      /\ UNCHANGED <<data, alloc, undo, undoMay, ext, n, ranges, fresh, freed, before,
                     outcome>>
      /\ \A c \in Cells : dataMay'[c] = IF c \in ranges THEN {data[c]} ELSE dataMay[c]
  BY Zenon DEF TxPreCommit, volatile
<1>3. Work' = Work
  BY <1>2, Zenon DEF Work, View
<1>4. InTx'
  BY <1>1, <1>2, Zenon DEF WorkInv, InTx, CleanFrom, Saved, Capacity
<1>5. \A c \in alloc : Intact(c) => Intact(c)'
  BY <1>1, <1>2, Zenon DEF Intact, TypeOK
<1>6. Matches' /\ Faithful' /\ Prefix(n)'
  BY <1>1, <1>2, Zenon DEF WorkInv, Undoable, Matches, Faithful, Prefix, Capacity
<1>7. Undoable(n, 1)'
  BY <1>1, <1>2, <1>5, <1>6, Zenon DEF WorkInv, Undoable, Saved
<1>8. \A c \in (alloc \cup fresh) \ freed : dataMay'[c] = {data[c]}
  <2> SUFFICES ASSUME NEW c \in alloc \cup fresh PROVE dataMay'[c] = {data[c]}
    BY Zenon
  <2>1. CASE c \in ranges
    BY <1>1, <1>2, <2>1, Zenon DEF TypeOK
  <2>2. CASE c \notin ranges
    <3>1. c \in alloc /\ ~Saved(c, 1, n)
      BY <1>1, <2>2, Zenon DEF WorkInv, InTx, Saved
    <3>2. Intact(c)
      BY <1>1, <3>1, Zenon DEF WorkInv, Undoable
    <3> QED
      BY <1>1, <1>2, <2>2, <3>1, <3>2, Zenon DEF Intact, TypeOK
  <2> QED
    BY <2>1, <2>2, Zenon
<1>9. FlushedInv'
  BY <1>2, <1>3, <1>4, <1>7, <1>8, Zenon DEF FlushedInv
<1> QED
  BY <1>2, <1>9, Zenon DEF Phase

(* Facts about a pool at rest that several actions establish.              *)
LEMMA CleanFacts ==
    ASSUME TypeOK, Member, NEW j \in Nat, CleanFrom(j)
    PROVE  \A i \in Slots : i >= j => undo[i] = Invalid
BY Zenon DEF CleanFrom, Member, TypeOK

(* Once every allocated cell is intact the pool is what it was.            *)
LEMMA RestoredFacts ==
    ASSUME TypeOK, Restored PROVE View(alloc) = before /\ Durable
<1>1. \A c \in Cells : before[c] = IF c \in alloc THEN data[c] ELSE None
  BY Zenon DEF Restored, Matches, Intact, TypeOK
<1>2. before \in [Cells -> Values \cup {None}]
  BY Zenon DEF TypeOK
<1>3. View(alloc) = before
  BY <1>1, <1>2, Zenon DEF View
<1> QED
  BY <1>3, Zenon DEF Restored, Intact, Durable, TypeOK

(* palloc_publish makes the flushed contents the pool's and invalidates    *)
(* the first entry.                                                        *)
LEMMA PublishPhase == ASSUME TInv, TxPublish PROVE Phase'
<1> USE SlotFacts
<1>1. FlushedInv /\ TypeOK /\ Member
  BY Zenon DEF TInv, TxPublish, Phase
<1>2. /\ alloc' = (alloc \cup fresh) \ freed /\ outcome' = "committed"
      /\ UNCHANGED <<data, dataMay, ext, n, before, after>>
  BY Zenon DEF TxPublish, volatile, history
<1>3. View(alloc)' = after'
  BY <1>1, <1>2, Zenon DEF FlushedInv, Work, View
<1>4. Durable'
  BY <1>1, <1>2, Zenon DEF FlushedInv, Durable
<1>5. n \in Nat /\ CleanFrom(n + 1)
  BY <1>1 DEF FlushedInv, InTx, TypeOK
<1>6. CASE n = 0
  <2>1. pc' = "idle" /\ UNCHANGED <<undo, undoMay>>
    BY <1>6 DEF TxPublish
  <2>2. \A i \in Slots : undoMay[i] = {Invalid} /\ undo[i] = Invalid
    BY <1>1, <1>5, <1>6 DEF CleanFrom, Member, Slots
  <2>3. IdleInv'
    BY <1>2, <1>3, <1>4, <2>1, <2>2, Zenon DEF IdleInv, Settled, Drained, CleanFrom
  <2> QED
    BY <2>1, <2>3, Zenon DEF Phase
<1>7. CASE n > 0
  <2>1. /\ pc' = "clobber"
        /\ undoMay' = [undoMay EXCEPT ![1] = {Invalid}]
    BY <1>7, Zenon DEF TxPublish
  <2>2. undoMay'[1] = {Invalid} /\ \A i \in Slots : i # 1 => undoMay'[i] = undoMay[i]
    BY <1>1, <2>1, Zenon DEF TypeOK
  <2>3. CleanFrom(n + 1)'
    BY <1>2, <1>5, <1>7, <2>2, Zenon DEF CleanFrom
  <2>4. ClobberInv'
    BY <1>2, <1>3, <1>4, <1>5, <1>7, <2>1, <2>2, <2>3 DEF ClobberInv
  <2> QED
    BY <2>1, <2>4, Zenon DEF Phase
<1> QED
  BY <1>5, <1>6, <1>7

(* ulog_clobber_data in the lane: no cell changes.                         *)
LEMMA ClobberLanePhase == ASSUME TInv, ClobberLane PROVE Phase'
<1> USE SlotFacts
<1> DEFINE last == IF n < Base THEN n ELSE Base
<1>1. ClobberInv /\ TypeOK /\ Member
  BY Zenon DEF TInv, ClobberLane, Phase
<1>2. /\ pc' = "clobbering"
      /\ UNCHANGED <<data, dataMay, alloc, ext, n, before, after, outcome>>
      /\ Zero(1, last)
  BY Zenon DEF ClobberLane, volatile, history
<1>3. n \in Nat /\ n >= 1
  BY <1>1 DEF ClobberInv, TypeOK
<1>4. \A i \in Slots : i \in 1 .. last <=> i <= n /\ i <= Base
  BY <1>3 DEF Slots
<1>5. \A i \in Slots :
         /\ undo'[i] = IF i \in 1 .. last THEN Invalid ELSE undo[i]
         /\ undoMay'[i] = IF i \in 1 .. last THEN undoMay[i] \cup {Invalid} ELSE undoMay[i]
  BY <1>2, Zenon DEF Zero
<1> HIDE DEF last
<1>6. \A i \in Slots : i <= n /\ i <= Base => undo'[i] = Invalid
  BY <1>4, <1>5, Zenon
<1>7. Restored => Restored'
  <2>1. \A i \in Slots : undoMay'[i] \subseteq undoMay[i] \cup {Invalid}
    BY <1>5, Zenon
  <2> QED
    BY <1>2, <2>1 DEF Restored, Matches, Faithful, Intact
<1>8. CleanFrom(n + 1) => CleanFrom(n + 1)'
  BY <1>2, <1>3, <1>4, <1>5, Zenon DEF CleanFrom
<1>9. undoMay[1] = {Invalid} => undoMay'[1] = {Invalid}
  BY <1>5, Zenon
<1>10. View(alloc)' = View(alloc) /\ (Durable => Durable')
  BY <1>2, Zenon DEF View, Durable
<1>11. ClobberInv'
  BY <1>1, <1>2, <1>3, <1>6, <1>7, <1>8, <1>9, <1>10, Zenon DEF ClobberInv
<1> QED
  BY <1>2, <1>11, Zenon DEF Phase

(* ulog_clobber_data in the extension.                                     *)
LEMMA ClobberExtensionPhase == ASSUME TInv, ClobberExtension PROVE Phase'
<1> USE SlotFacts
<1>1. ClobberInv /\ TypeOK /\ Member
  BY Zenon DEF TInv, ClobberExtension, Phase
<1>2. /\ pc = "clobbering" /\ n > Base /\ pc' = "clobberingExt"
      /\ UNCHANGED <<data, dataMay, alloc, ext, n, before, after, outcome>>
  BY Zenon DEF ClobberExtension, volatile, history
<1>3. n \in Nat /\ n >= 1
  BY <1>1 DEF ClobberInv, TypeOK
<1>4. \A i \in Slots :
         /\ undo'[i] = IF i \in Base + 1 .. n THEN Invalid ELSE undo[i]
         /\ undoMay'[i] = IF i \in Base + 1 .. n THEN {undo[i], Invalid} ELSE {undo[i]}
  BY Zenon DEF ClobberExtension
<1>5. \A i \in Slots : i <= n /\ i <= Base => undo[i] = Invalid
  BY <1>1, <1>2, Zenon DEF ClobberInv
<1>6. \A i \in Slots : i <= n => undo'[i] = Invalid
  <2> SUFFICES ASSUME NEW i \in Slots, i <= n PROVE undo'[i] = Invalid
    BY Zenon
  <2>1. i \in Base + 1 .. n \/ i <= Base
    BY <1>3
  <2> QED
    BY <1>4, <1>5, <2>1, Zenon
<1>7. Restored => Restored'
  <2>1. \A i \in Slots : undoMay'[i] \subseteq undoMay[i] \cup {Invalid}
    <3> SUFFICES ASSUME NEW i \in Slots
                 PROVE  undoMay'[i] \subseteq undoMay[i] \cup {Invalid}
      BY Zenon
    <3>1. undo[i] \in undoMay[i]
      BY <1>1, Zenon DEF Member
    <3>2. undoMay'[i] = {undo[i], Invalid} \/ undoMay'[i] = {undo[i]}
      BY <1>4, Zenon
    <3> QED
      BY <3>1, <3>2, Zenon
  <2> QED
    BY <1>2, <2>1 DEF Restored, Matches, Faithful, Intact
<1>8. CleanFrom(n + 1) => CleanFrom(n + 1)'
  BY <1>1, <1>2, <1>3, <1>4, Zenon DEF CleanFrom, Member
<1>9. undoMay'[1] = {Invalid}
  <2>1. 1 \notin Base + 1 .. n /\ 1 <= Base
    BY <1>3, TxAssumption
  <2> QED
    BY <1>3, <1>4, <1>5, <2>1, Zenon
<1>10. View(alloc)' = View(alloc) /\ (Durable => Durable')
  BY <1>2, Zenon DEF View, Durable
<1>11. ClobberInv'
  BY <1>1, <1>2, <1>3, <1>6, <1>7, <1>8, <1>9, <1>10, Zenon DEF ClobberInv
<1> QED
  BY <1>2, <1>11, Zenon DEF Phase

(* The last drain: the log is empty and the pool durable.                  *)
LEMMA ClobberDrainPhase == ASSUME TInv, ClobberDrain PROVE Phase'
<1> USE SlotFacts
<1>1. ClobberInv /\ TypeOK /\ Member
  BY Zenon DEF TInv, ClobberDrain, Phase
<1>2. /\ pc' = "idle"
      /\ UNCHANGED <<data, alloc, undo, n, before, after, outcome>>
      /\ \A i \in Slots : undoMay'[i] = {undo[i]}
  BY Zenon DEF ClobberDrain, DrainUndo, volatile, history
<1>3. dataMay' = IF outcome = "crashed" THEN [c \in Cells |-> {data[c]}] ELSE dataMay
  BY Zenon DEF ClobberDrain
<1>4. n \in Nat /\ n >= 1
  BY <1>1 DEF ClobberInv, TypeOK
<1>5. \A i \in Slots : i <= n => undo[i] = Invalid
  BY <1>1, <1>4 DEF ClobberDrain, ClobberInv
<1>6. Durable => Durable'
  BY <1>1, <1>2, <1>3, Zenon DEF Durable, TypeOK
<1>7. View(alloc)' = View(alloc)
  BY <1>2, Zenon DEF View
<1>8. CleanFrom(n + 1) => CleanFrom(1)'
  <2> SUFFICES ASSUME CleanFrom(n + 1), NEW i \in Slots PROVE undo[i] = Invalid
    BY <1>2, Zenon DEF CleanFrom
  <2>1. i <= n \/ i >= n + 1
    BY <1>4
  <2> QED
    BY <1>1, <1>4, <1>5, <2>1, CleanFacts
<1>9. undo'[1] = Invalid /\ Drained'
  BY <1>2, <1>4, <1>5, Zenon DEF Drained
<1>10. CASE outcome = "committed"
  <2>1. View(alloc) = after /\ Durable /\ CleanFrom(n + 1)
    BY <1>1, <1>10, Zenon DEF ClobberInv
  <2>2. IdleInv'
    BY <1>2, <1>6, <1>7, <1>8, <1>9, <1>10, <2>1, Zenon DEF IdleInv, Settled
  <2> QED
    BY <1>2, <2>2, Zenon DEF Phase
<1>11. CASE outcome = "aborted"
  <2>1. Restored /\ CleanFrom(n + 1)
    BY <1>1, <1>11, Zenon DEF ClobberInv
  <2>2. IdleInv'
    BY <1>1, <1>2, <1>6, <1>7, <1>8, <1>9, <1>11, <2>1, RestoredFacts, Zenon DEF IdleInv, Settled
  <2> QED
    BY <1>2, <2>2, Zenon DEF Phase
<1>12. CASE outcome = "crashed"
  <2>1. Restored
    BY <1>1, <1>12, Zenon DEF ClobberInv
  <2>2. IdleInv'
    BY <1>1, <1>2, <1>6, <1>7, <1>9, <1>12, <2>1, RestoredFacts, Zenon DEF IdleInv, Settled
  <2> QED
    BY <1>2, <2>2, Zenon DEF Phase
<1> QED
  BY <1>1, <1>10, <1>11, <1>12, Zenon DEF ClobberInv

(* Applying entry k makes its cell intact, so only the entries after it    *)
(* are needed: for the abort and for the recovery alike.                   *)
LEMMA ApplyUndoable ==
    ASSUME TypeOK, Member, NEW m \in Nat, Undoable(m, k), AtEntry,
           data' = [data EXCEPT ![undo[k].cell] = undo[k].val],
           dataMay' = [dataMay EXCEPT ![undo[k].cell] = {undo[k].val}],
           k' = k + 1,
           UNCHANGED <<alloc, undo, undoMay, ext, before>>
    PROVE  Undoable(m, k)'
<1> USE SlotFacts
<1>1. k \in Nat /\ k \in Slots
  BY CapacityFact DEF AtEntry, TypeOK, Slots
<1>2. undo[k].cell \in alloc /\ undo[k].val = before[undo[k].cell]
  BY <1>1, Zenon DEF Undoable, Faithful, Member, AtEntry
<1>3. Matches' /\ Faithful' /\ Prefix(m)'
  BY Zenon DEF Undoable, Matches, Faithful, Prefix, Capacity
<1>4. ASSUME NEW d \in alloc PROVE Intact(d)' \/ Saved(d, k + 1, m)
  <2>1. CASE d = undo[k].cell
    BY <1>2, <2>1, Zenon DEF Intact, TypeOK
  <2>2. CASE d # undo[k].cell /\ Intact(d)
    BY <2>2, Zenon DEF Intact, TypeOK
  <2>3. CASE d # undo[k].cell /\ Saved(d, k, m)
    <3>1. PICK i \in k .. m : undo[i].cell = d
      BY <2>3, Zenon DEF Saved
    <3>2. i \in k + 1 .. m
      BY <1>1, <2>3, <3>1
    <3> QED
      BY <3>1, <3>2, Zenon DEF Saved
  <2> QED
    BY <2>1, <2>2, <2>3, Zenon DEF Undoable
<1>5. \A d \in alloc' : Intact(d)' \/ Saved(d, k, m)'
  BY <1>4, Zenon DEF Saved
<1> QED
  BY <1>3, <1>5, Zenon DEF Undoable

(* The walk over the log ends behind the last entry that is needed.        *)
LEMMA WalkEnds ==
    ASSUME TypeOK, NEW m \in Nat, Undoable(m, k), ~AtEntry PROVE Restored
<1>1. k \in Nat /\ k >= 1 /\ Capacity \in Nat
  BY CapacityFact, SlotFacts DEF TypeOK
<1>2. k > m
  <2> SUFFICES ASSUME k <= m PROVE FALSE
    BY <1>1
  <2>1. k <= Capacity /\ undo[k] # Invalid
    BY <1>1 DEF Undoable, Prefix
  <2> QED
    BY <2>1, Zenon DEF AtEntry
<1>3. \A c : ~Saved(c, k, m)
  BY <1>1, <1>2 DEF Saved
<1> QED
  BY <1>3, Zenon DEF Undoable, Restored

(* tx_restore_range.                                                       *)
LEMMA RestorePhase == ASSUME TInv, RestoreEntry PROVE Phase'
<1>1. RestoreInv /\ TypeOK /\ Member
  BY Zenon DEF TInv, RestoreEntry, Phase
<1>2. /\ pc' = "restore" /\ k' = k + 1 /\ AtEntry
      /\ data' = [data EXCEPT ![undo[k].cell] = undo[k].val]
      /\ dataMay' = [dataMay EXCEPT ![undo[k].cell] = {undo[k].val}]
      /\ UNCHANGED <<alloc, undo, undoMay, ext, n, before, outcome>>
  BY Zenon DEF RestoreEntry, volatile, history
<1>3. n \in Nat
  BY <1>1, SlotFacts DEF TypeOK
<1>4. Undoable(n, k)'
  <2>1. ASSUME NEW m \in Nat, m = n PROVE Undoable(m, k)'
    BY <1>1, <1>2, <2>1, ApplyUndoable, Zenon DEF RestoreInv
  <2> QED
    BY <1>2, <1>3, <2>1, Zenon DEF Undoable, Prefix, Saved
<1>5. RestoreInv'
  BY <1>1, <1>2, <1>4, Zenon DEF RestoreInv, CleanFrom
<1> QED
  BY <1>2, <1>5, Zenon DEF Phase

(* The abort's walk is over: everything is as it was.                      *)
LEMMA AbortFinishPhase == ASSUME TInv, TxAbortFinish PROVE Phase'
<1> USE SlotFacts
<1>1. RestoreInv /\ TypeOK /\ Member
  BY Zenon DEF TInv, TxAbortFinish, Phase
<1>2. /\ pc' = IF n > 0 THEN "clobber" ELSE "idle"
      /\ UNCHANGED <<data, dataMay, alloc, undo, undoMay, ext, n, before, after, outcome>>
      /\ ~AtEntry
  BY Zenon DEF TxAbortFinish, pool, volatile, history
<1>3. n \in Nat
  BY <1>1 DEF TypeOK
<1>4. Restored
  BY <1>1, <1>2, <1>3, WalkEnds, Zenon DEF RestoreInv
<1>5. outcome = "aborted" /\ CleanFrom(n + 1)
  BY <1>1, Zenon DEF RestoreInv
<1>6. CASE n = 0
  <2>1. \A i \in Slots : undoMay[i] = {Invalid} /\ undo[i] = Invalid
    BY <1>1, <1>5, <1>6 DEF CleanFrom, Member, Slots
  <2>2. View(alloc) = before /\ Durable
    BY <1>1, <1>4, RestoredFacts, Zenon
  <2>3. IdleInv'
    BY <1>2, <1>5, <2>1, <2>2, Zenon DEF IdleInv, Settled, Drained, CleanFrom, View, Durable
  <2> QED
    BY <1>2, <1>6, <2>3 DEF Phase
<1>7. CASE n > 0
  <2>1. ClobberInv'
    BY <1>2, <1>3, <1>4, <1>5, <1>7
       DEF ClobberInv, Restored, Matches, Faithful, Intact, CleanFrom
  <2> QED
    BY <1>2, <1>7, <2>1, Zenon DEF Phase
<1> QED
  BY <1>3, <1>6, <1>7

(* What a crash leaves: for each cell and entry one of the values that may *)
(* be on the media, and nothing pending.                                   *)
LEMMA CrashFacts ==
    ASSUME Crash
    PROVE  /\ outcome' = "crashed" /\ pc' = "down" /\ Drained'
           /\ \A i \in Slots : undo'[i] \in undoMay[i] /\ undoMay'[i] = {undo'[i]}
           /\ \A c \in Cells : data'[c] \in dataMay[c] /\ dataMay'[c] = {data'[c]}
           /\ data' \in [Cells -> Values]
           /\ UNCHANGED <<alloc, ext, before, after>>
BY Zenon DEF Crash, Survivors, Images, Drained, history

(* A crash while every allocated cell is intact or saved: the recovery     *)
(* finds the entries it needs, or needs none.                              *)
LEMMA CrashUndoable ==
    ASSUME TypeOK, Member, Crash, NEW m \in Nat, Undoable(m, 1) PROVE DownInv'
<1> USE SlotFacts, CrashFacts
<1>1. \A i \in 1 .. m : i \in Slots /\ undo'[i] = undo[i]
  <2> SUFFICES ASSUME NEW i \in 1 .. m PROVE i \in Slots /\ undo'[i] = undo[i]
    BY Zenon
  <2>1. m <= Base + Ext
    BY CapacityFact DEF Undoable, Prefix
  <2>2. i \in Slots
    BY <2>1 DEF Slots
  <2> QED
    BY <2>2, Zenon DEF Undoable, Prefix
<1>2. \A c \in alloc : Intact(c) => Intact(c)'
  <2> SUFFICES ASSUME NEW c \in alloc, Intact(c) PROVE Intact(c)'
    BY Zenon
  <2>1. c \in Cells
    BY Zenon DEF TypeOK
  <2> QED
    BY <2>1, Zenon DEF Intact
<1>3. Matches'
  BY Zenon DEF Undoable, Matches
<1>4. Faithful'
  BY DEF Undoable, Faithful
<1>5. Prefix(m)'
  BY <1>1 DEF Undoable, Prefix, Capacity
<1>6. \A c \in alloc' : Intact(c)' \/ Saved(c, 1, m)'
  BY <1>1, <1>2, Zenon DEF Undoable, Saved
<1>7. Undoable(m, 1)'
  BY <1>3, <1>4, <1>5, <1>6, Zenon DEF Undoable
<1>8. CASE undo'[1] # Invalid
  BY <1>7, <1>8, Zenon DEF DownInv
<1>9. CASE undo'[1] = Invalid
  <2>1. m = 0
    BY <1>1, <1>9 DEF Undoable, Prefix
  <2>2. \A c : ~Saved(c, 1, m)
    BY <2>1 DEF Saved
  <2>3. \A c \in alloc : Intact(c)'
    BY <1>2, <2>2, Zenon DEF Undoable
  <2>4. \A c \in Cells : before[c] = IF c \in alloc THEN data'[c] ELSE None
    BY <2>3, Zenon DEF Undoable, Matches, Intact
  <2>5. View(alloc)' = before'
    BY <2>4, Zenon DEF View, TypeOK
  <2> QED
    BY <1>9, <2>5, Zenon DEF DownInv, Settled
<1> QED
  BY <1>8, <1>9, Zenon

(* A crash of a settled pool whose first entry is invalid changes nothing. *)
LEMMA CrashSettled ==
    ASSUME TypeOK, Crash, undoMay[1] = {Invalid}, Durable, Settled PROVE DownInv'
<1> USE SlotFacts, CrashFacts
<1>1. \A c \in Cells : c \in alloc => data'[c] = data[c]
  BY Zenon DEF Durable
<1>2. View(alloc)' = View(alloc)
  BY <1>1, Zenon DEF View
<1> QED
  BY <1>2, Zenon DEF DownInv, Settled

(* Entries from a later place on are entries from the first on.            *)
LEMMA UndoableFromFirst ==
    ASSUME NEW m \in Nat, NEW j \in Nat, j >= 1, Undoable(m, j) PROVE Undoable(m, 1)
BY DEF Undoable, Saved

(* An intact pool needs no entry.                                          *)
LEMMA RestoredUndoable == ASSUME TypeOK, Restored PROVE Undoable(0, 1)
BY CapacityFact DEF Restored, Undoable, Prefix

(* A crash anywhere.                                                       *)
LEMMA CrashPhase == ASSUME TInv, Crash PROVE Phase'
<1> SUFFICES DownInv'
  BY CrashFacts, Zenon DEF Phase
<1> USE SlotFacts
<1>1. TypeOK /\ Member /\ Phase /\ n \in Nat /\ k \in Nat /\ k >= 1
  BY DEF TInv, TypeOK
<1>2. CASE pc = "idle"
  BY <1>1, <1>2, CrashSettled, Zenon DEF Phase, IdleInv, Drained
<1>3. CASE pc = "work"
  BY <1>1, <1>3, CrashUndoable, Zenon DEF Phase, WorkInv
<1>4. CASE pc = "snap"
  <2>1. n - 1 \in Nat /\ Undoable(n - 1, 1)
    BY <1>1, <1>4 DEF Phase, SnapInv
  <2> QED
    BY <1>1, <2>1, CrashUndoable, Zenon
<1>5. CASE pc = "flushed"
  BY <1>1, <1>5, CrashUndoable, Zenon DEF Phase, FlushedInv
<1>6. CASE pc = "restore"
  <2>1. Undoable(n, 1)
    BY <1>1, <1>6, UndoableFromFirst, Zenon DEF Phase, RestoreInv
  <2> QED
    BY <1>1, <2>1, CrashUndoable, Zenon
<1>7. CASE pc \in {"clobber", "clobbering", "clobberingExt"}
  <2>1. ClobberInv
    BY <1>1, <1>7, Zenon DEF Phase
  <2>2. CASE Restored
    BY <1>1, <2>2, RestoredUndoable, CrashUndoable, Zenon
  <2>3. CASE View(alloc) = after /\ Durable /\ undoMay[1] = {Invalid}
    BY <1>1, <2>3, CrashSettled, Zenon DEF Settled
  <2> QED
    BY <2>1, <2>2, <2>3, Zenon DEF ClobberInv
<1>8. CASE pc = "undo"
  <2>1. UndoInv
    BY <1>1, <1>8, Zenon DEF Phase
  <2>2. CASE undo[1] = Invalid
    <3>1. Durable
      BY <1>1, <2>1, Zenon DEF UndoInv, Durable, TypeOK
    <3> QED
      BY <1>1, <2>1, <2>2, <3>1, CrashSettled, Zenon DEF UndoInv, Drained
  <2>3. CASE undo[1] # Invalid
    <3>1. PICK m \in Nat : Undoable(m, k)
      BY <2>1, <2>3, Zenon DEF UndoInv
    <3> QED
      BY <1>1, <3>1, UndoableFromFirst, CrashUndoable, Zenon
  <2> QED
    BY <2>2, <2>3, Zenon
<1>9. pc # "down"
  BY Zenon DEF Crash
<1> QED
  BY <1>1, <1>2, <1>3, <1>4, <1>5, <1>6, <1>7, <1>8, <1>9, Zenon DEF TypeOK

(* lane_recover_and_section_boot: entries are resumed only from a log      *)
(* whose first entry is valid.                                             *)
LEMMA RecoverPhase == ASSUME TInv, Recover PROVE Phase'
<1> USE SlotFacts, TxAssumption
<1>1. DownInv /\ TypeOK
  BY Zenon DEF TInv, Recover, Phase
<1>2. /\ pc' = "undo" /\ k' = 1 /\ n' \in Logged
      /\ UNCHANGED <<data, dataMay, alloc, undo, undoMay, ext, before, after, outcome>>
  BY Zenon DEF Recover, pool, history
<1>3. n' \in 0 .. Base /\ (undo[1] = Invalid <=> n' = 0)
  BY <1>2 DEF Logged
<1>4. /\ outcome' = "crashed" /\ Drained'
      /\ \A c \in Cells : dataMay'[c] = {data'[c]}
  BY <1>1, <1>2, Zenon DEF DownInv, Drained
<1>5. Settled => Settled'
  BY <1>2, Zenon DEF Settled, View
<1>6. \A m \in Nat : Undoable(m, 1) => Undoable(m, k)'
  BY <1>2, Zenon DEF Undoable, Matches, Faithful, Prefix, Capacity, Intact, Saved
<1>7. CASE undo[1] = Invalid
  <2>1. UndoInv'
    BY <1>1, <1>2, <1>3, <1>4, <1>5, <1>7, Zenon DEF UndoInv, DownInv
  <2> QED
    BY <1>2, <2>1, Zenon DEF Phase
<1>8. CASE undo[1] # Invalid
  <2>1. n' \in 1 .. Base
    BY <1>3, <1>8
  <2>2. \E m \in Nat : Undoable(m, k)'
    BY <1>1, <1>6, <1>8, Zenon DEF DownInv
  <2>3. UndoInv'
    BY <1>2, <1>4, <1>8, <2>1, <2>2, Zenon DEF UndoInv
  <2> QED
    BY <1>2, <2>3, Zenon DEF Phase
<1> QED
  BY <1>7, <1>8, Zenon

(* operation_process_persistent_undo, with ordered flushes.                *)
LEMMA UndoPhase == ASSUME Premises, TInv, UndoEntryApply PROVE Phase'
<1> USE SlotFacts
<1>1. UndoInv /\ TypeOK /\ Member
  BY Zenon DEF TInv, UndoEntryApply, Phase
<1>2. /\ pc' = "undo" /\ k' = k + 1 /\ AtEntry
      /\ data' = [data EXCEPT ![undo[k].cell] = undo[k].val]
      /\ dataMay' = [dataMay EXCEPT ![undo[k].cell] = {undo[k].val}]
      /\ UNCHANGED <<alloc, undo, undoMay, ext, n, before, after, outcome>>
  BY Zenon DEF UndoEntryApply, volatile, history, Premises
<1>3. undo[1] # Invalid
  BY <1>1, <1>2, Zenon DEF UndoInv, AtEntry
<1>4. PICK m \in Nat : Undoable(m, k)
  BY <1>1, <1>3, Zenon DEF UndoInv
<1>5. Undoable(m, k)'
  BY <1>1, <1>2, <1>4, ApplyUndoable, Zenon
<1>6. \A c \in Cells : dataMay'[c] = {data'[c]}
  BY <1>1, <1>2, Zenon DEF UndoInv, TypeOK
<1>7. Drained'
  BY <1>1, <1>2, Zenon DEF UndoInv, Drained
<1>8. UndoInv'
  BY <1>1, <1>2, <1>3, <1>5, <1>6, <1>7, Zenon DEF UndoInv
<1> QED
  BY <1>2, <1>8, Zenon DEF Phase

(* The recovery's walk is over.                                            *)
LEMMA RecoverFinishPhase == ASSUME TInv, RecoverFinish PROVE Phase'
<1> USE SlotFacts
<1>1. UndoInv /\ TypeOK
  BY Zenon DEF TInv, RecoverFinish, Phase
<1>2. /\ pc' = IF n > 0 THEN "clobber" ELSE "idle"
      /\ UNCHANGED <<data, dataMay, alloc, undo, undoMay, ext, n, before, after, outcome>>
      /\ ~AtEntry
  BY Zenon DEF RecoverFinish, pool, volatile, history
<1>3. Durable /\ Drained /\ outcome = "crashed"
  BY <1>1, Zenon DEF UndoInv, Durable, TypeOK
<1>4. CASE undo[1] = Invalid
  <2>1. Settled /\ pc' = "idle"
    BY <1>1, <1>2, <1>4 DEF UndoInv
  <2>2. IdleInv'
    BY <1>2, <1>3, <1>4, <2>1, Zenon DEF IdleInv, Settled, View, Durable, Drained
  <2> QED
    BY <2>1, <2>2, Zenon DEF Phase
<1>5. CASE undo[1] # Invalid
  <2>1. n \in 1 .. Base /\ pc' = "clobber"
    BY <1>1, <1>2, <1>5 DEF UndoInv
  <2>2. PICK m \in Nat : Undoable(m, k)
    BY <1>1, <1>5, Zenon DEF UndoInv
  <2>3. Restored
    BY <1>1, <1>2, <2>2, WalkEnds, Zenon
  <2>4. Restored'
    BY <1>2, <2>3, Zenon DEF Restored, Matches, Faithful, Intact
  <2>5. ClobberInv'
    BY <1>2, <1>3, <2>1, <2>4 DEF ClobberInv
  <2> QED
    BY <2>1, <2>5, Zenon DEF Phase
<1> QED
  BY <1>4, <1>5, Zenon

(* The phases are preserved by every step.                                 *)
LEMMA PhaseStep == ASSUME Premises, TInv, [Next]_vars PROVE Phase'
<1>1. CASE UNCHANGED vars
  <2>1. UNCHANGED <<data, dataMay, alloc, undo, undoMay, ext, n, ranges, fresh, freed,
                    pc, k, before, after, outcome>>
    BY <1>1, Zenon DEF vars, pool, volatile, history
  <2>2. /\ Capacity' = Capacity /\ View(alloc)' = View(alloc) /\ Work' = Work
        /\ Matches' = Matches /\ Faithful' = Faithful /\ Durable' = Durable
        /\ Drained' = Drained
    BY <2>1, Zenon DEF Capacity, View, Work, Matches, Faithful, Durable, Drained
  <2>3. /\ Settled' = Settled /\ Restored' = Restored
        /\ \A j : CleanFrom(j)' = CleanFrom(j)
        /\ \A m, j : Undoable(m, j)' = Undoable(m, j)
    BY <2>1, <2>2, Zenon DEF Settled, Restored, CleanFrom, Undoable, Prefix, Intact, Saved
  <2>4. InTx' = InTx
    BY <2>1, <2>2, <2>3, Zenon DEF InTx, CleanFrom, Saved
  <2>5. (IdleInv => IdleInv') /\ (WorkInv => WorkInv') /\ (SnapInv => SnapInv')
    BY <2>1, <2>2, <2>3, <2>4, Zenon
       DEF IdleInv, WorkInv, SnapInv, Undoable, Prefix, Saved, Intact, CleanFrom
  <2>6. (FlushedInv => FlushedInv') /\ (RestoreInv => RestoreInv')
    BY <2>1, <2>2, <2>3, <2>4, Zenon
       DEF FlushedInv, RestoreInv, Undoable, Prefix, Saved, Intact, CleanFrom
  <2>7. ClobberInv => ClobberInv'
    BY <2>1, <2>2, <2>3, Zenon DEF ClobberInv, CleanFrom
  <2>8. (DownInv => DownInv') /\ (UndoInv => UndoInv')
    BY <2>1, <2>2, <2>3 DEF DownInv, UndoInv, Undoable, Prefix, Saved, Intact
  <2> QED
    BY <2>1, <2>5, <2>6, <2>7, <2>8, Zenon DEF TInv, Phase
<1>2. CASE Working
  <2>1. ASSUME NEW c \in Cells, NEW v \in Values, TxWrite(c, v) PROVE Phase'
    BY <2>1, WritePhase, Zenon DEF TxWrite, volatile, history
  <2>2. ASSUME NEW c \in Cells, NEW v \in Values, TxAlloc(c, v) PROVE Phase'
    BY <2>2, WritePhase, Zenon DEF TxAlloc, history
  <2> QED
    BY <1>2, <2>1, <2>2, BeginPhase, SnapshotPhase, AbortPhase, PreCommitPhase, AddPhase,
       FreePhase DEF Working
<1>3. CASE Ending
  BY <1>3, PublishPhase, ClobberLanePhase, ClobberExtensionPhase, ClobberDrainPhase,
     RestorePhase, AbortFinishPhase DEF Ending
<1>4. CASE Failing
  BY <1>4, CrashPhase, RecoverPhase, UndoPhase, RecoverFinishPhase, Zenon DEF Failing
<1> QED
  BY <1>1, <1>2, <1>3, <1>4, Zenon DEF Next

-----------------------------------------------------------------------------
(* The inductive invariant of a transaction over its undo log, for every   *)
(* pool and log size.                                                      *)
THEOREM TxInvariant == ASSUME Premises PROVE Spec => []TInv
<1>1. Init => TInv
  BY TInit, Zenon
<1>2. TInv /\ [Next]_vars => TInv'
  BY TypeStep, MemberStep, PhaseStep, Zenon DEF TInv
<1> QED
  BY <1>1, <1>2, PTL DEF Spec

(* Every variable keeps its type: total_logged and the walk stay inside    *)
(* the log.                                                                *)
THEOREM TxTypes == Spec => []TypeOK
<1>1. Init => TypeOK
  BY TInit, Zenon DEF TInv
<1>2. TypeOK /\ [Next]_vars => TypeOK'
  BY TypeStep, Zenon
<1> QED
  BY <1>1, <1>2, PTL DEF Spec

(* pmemobj_tx_commit returns with the transaction's contents durable.      *)
THEOREM CommitsAreDurable == ASSUME Premises PROVE Spec => []CommitIsDurable
<1>1. TInv => CommitIsDurable
  BY Zenon DEF TInv, Phase, IdleInv, CommitIsDurable
<1> QED
  BY <1>1, TxInvariant, PTL

(* pmemobj_tx_abort returns with the contents from the begin.              *)
THEOREM AbortsRestore == ASSUME Premises PROVE Spec => []AbortRestores
<1>1. TInv => AbortRestores
  BY Zenon DEF TInv, Phase, IdleInv, AbortRestores
<1> QED
  BY <1>1, TxInvariant, PTL

(* A crash at any step, in the recovery too, leaves a transaction done or  *)
(* undone as a whole.                                                      *)
THEOREM CrashesAreAtomic == ASSUME Premises PROVE Spec => []CrashIsAtomic
<1>1. TInv => CrashIsAtomic
  BY Zenon DEF TInv, Phase, IdleInv, Settled, CrashIsAtomic
<1> QED
  BY <1>1, TxInvariant, PTL

(* The undo log is empty between transactions.                             *)
THEOREM IdleLogsAreEmpty == ASSUME Premises PROVE Spec => []IdleLogIsEmpty
<1>1. TInv => IdleLogIsEmpty
  BY SlotFacts DEF TInv, Phase, IdleInv, Drained, CleanFrom, Slots, IdleLogIsEmpty
<1> QED
  BY <1>1, TxInvariant, PTL

-----------------------------------------------------------------------------
\* The steps of the atomic transaction, in terms of the mapping.

Seen == IF Open THEN Work ELSE Contents
Stutter == Contents' = Contents /\ Seen' = Seen /\ Open' = Open
BeginA == ~Open /\ Open' = TRUE /\ Contents' = Contents /\ Seen' = Seen
ChangeA(c, v) == /\ Open /\ Seen' = [Seen EXCEPT ![c] = v]
                 /\ Contents' = Contents /\ Open' = Open
CommitA == Open /\ Contents' = Seen /\ Seen' = Contents' /\ Open' = FALSE
RollbackA == Open /\ Seen' = Contents /\ Open' = FALSE /\ Contents' = Contents
Implemented == \/ Stutter \/ BeginA \/ CommitA \/ RollbackA
               \/ \E c \in Cells, v \in Values \cup {None} : ChangeA(c, v)

(* Outside a transaction a step that keeps the contents is a stutter.      *)
LEMMA ClosedStutter ==
    ASSUME ~Open, ~Open', Contents' = Contents PROVE Implemented
BY DEF Implemented, Stutter, Seen, Open

(* With no valid first entry there is nothing to undo, and the pool is     *)
(* what it was at the begin.                                               *)
LEMMA NothingToUndo ==
    ASSUME TypeOK, NEW m \in Nat, NEW j \in Nat, j >= 1, Undoable(m, j),
           undo[1] = Invalid
    PROVE  m = 0 /\ View(alloc) = before
<1>1. m = 0
  BY DEF Undoable, Prefix
<1>2. \A c : ~Saved(c, j, m)
  BY <1>1 DEF Saved
<1>3. Restored
  BY <1>2, Zenon DEF Undoable, Restored
<1> QED
  BY <1>1, <1>3, RestoredFacts, Zenon

(* A step inside the transaction changes one cell of what the program      *)
(* sees, or none, and never the contents of the pool.                      *)
LEMMA OpenSteps ==
    ASSUME TInv, Open, Open', before' = before,
           \/ Work' = Work
           \/ \E c \in Cells, v \in Values \cup {None} : Work' = [Work EXCEPT ![c] = v]
    PROVE  Implemented
<1>1. Contents = before /\ Contents' = before'
  BY Zenon DEF Contents, Rollback
<1>2. Seen = Work /\ Seen' = Work'
  BY Zenon DEF Seen
<1>3. Open' = Open
  BY DEF Open
<1> QED
  BY <1>1, <1>2, <1>3, Zenon DEF Implemented, Stutter, ChangeA

(* The work stage implements the atomic transaction.                       *)
LEMMA WorkingImplements ==
    ASSUME TInv, TInv', Working PROVE Implemented
<1> USE DEF Open
<1>1. TypeOK /\ TypeOK' /\ Phase
  BY Zenon DEF TInv
<1>2. CASE TxBegin
  <2>1. Contents = View(alloc) /\ Contents' = before'
    BY <1>2, Zenon DEF TxBegin, Contents, Rollback
  <2>2. before' = View(alloc) /\ UNCHANGED <<data, alloc>> /\ fresh' = {} /\ freed' = {}
    BY <1>2, Zenon DEF TxBegin, pool
  <2>3. Work' = View(alloc)
    BY <2>2, Zenon DEF Work, View
  <2> QED
    BY <1>2, <2>1, <2>2, <2>3, Zenon DEF TxBegin, Implemented, BeginA, Seen
<1>3. CASE SnapshotDrain
  BY <1>3, OpenSteps, Zenon DEF SnapshotDrain, volatile, history, Work, View
<1>4. CASE TxAbort
  <2>1. WorkInv
    BY <1>1, <1>4, Zenon DEF TxAbort, Phase
  <2>2. UNCHANGED <<data, alloc, undo, before>> /\ pc' = "restore" /\ pc = "work"
    BY <1>4, Zenon DEF TxAbort, pool, history
  <2>3. undo[1] = Invalid => View(alloc) = before
    BY <1>1, <2>1, NothingToUndo, SlotFacts DEF WorkInv, TypeOK
  <2>4. Contents = before /\ Contents' = before
    BY <2>2, <2>3, Zenon DEF Contents, Rollback, View
  <2> QED
    BY <2>2, <2>4 DEF Implemented, RollbackA, Seen
<1>5. CASE TxPreCommit
  BY <1>5, OpenSteps, Zenon DEF TxPreCommit, volatile, Work, View
<1>6. ASSUME NEW c \in Cells, TxAdd(c) PROVE Implemented
  BY <1>6, OpenSteps, Zenon DEF TxAdd, history, Work, View
<1>7. ASSUME NEW c \in Cells, TxFree(c) PROVE Implemented
  <2>1. /\ UNCHANGED <<data, alloc, before>> /\ Open /\ Open'
        /\ \/ fresh' = fresh \ {c} /\ freed' = freed /\ c \in fresh
           \/ fresh' = fresh /\ freed' = freed \cup {c}
    BY <1>7, Zenon DEF TxFree, pool, history
  <2>2. fresh \cap alloc = {}
    BY <1>1, <1>7, Zenon DEF TxFree, Phase, WorkInv, InTx
  <2>3. (alloc \cup fresh') \ freed' = ((alloc \cup fresh) \ freed) \ {c}
    BY <2>1, <2>2, Zenon
  <2>4. Work' = [Work EXCEPT ![c] = None]
    BY <2>1, <2>3, Zenon DEF Work, View
  <2> QED
    BY <2>1, <2>4, OpenSteps, Zenon
<1>8. ASSUME NEW c \in Cells, NEW v \in Values, TxWrite(c, v) PROVE Implemented
  <2>1. UNCHANGED <<alloc, fresh, freed, before>> /\ Open /\ Open' /\ Write(c, v)
    BY <1>8, Zenon DEF TxWrite, volatile, history
  <2>2. CASE c \in (alloc \cup fresh) \ freed
    <3>1. Work' = [Work EXCEPT ![c] = v]
      BY Zenon, <1>1, <2>1, <2>2 DEF Work, View, Write, TypeOK
    <3> QED
      BY <2>1, <3>1, OpenSteps, Zenon
  <2>3. CASE c \notin (alloc \cup fresh) \ freed
    <3>1. Work' = Work
      BY <1>1, <2>1, <2>3 DEF Work, View, Write, TypeOK
    <3> QED
      BY <2>1, <3>1, OpenSteps, Zenon
  <2> QED
    BY <2>2, <2>3, Zenon
<1>9. ASSUME NEW c \in Cells, NEW v \in Values, TxAlloc(c, v) PROVE Implemented
  <2>1. /\ UNCHANGED <<alloc, freed, before>> /\ Open /\ Open' /\ Write(c, v)
        /\ fresh' = fresh \cup {c} /\ c \notin alloc \cup fresh
    BY <1>9, Zenon DEF TxAlloc, history
  <2>2. CASE c \notin freed
    <3>1. (alloc' \cup fresh') \ freed' = ((alloc \cup fresh) \ freed) \cup {c}
      BY <2>1, <2>2, Zenon
    <3>2. data' = [data EXCEPT ![c] = v] /\ data \in [Cells -> Values]
      BY <1>1, <2>1, Zenon DEF Write, TypeOK
    <3>3. Work' = [Work EXCEPT ![c] = v]
      <4>1. /\ Work = [d \in Cells |-> IF d \in (alloc \cup fresh) \ freed THEN data[d] ELSE None]
            /\ Work' = [d \in Cells |-> IF d \in (alloc' \cup fresh') \ freed' THEN data'[d] ELSE None]
        BY Zenon DEF Work, View
      <4>2. \A d \in Cells : Work'[d] = IF d = c THEN v ELSE Work[d]
        BY <3>1, <3>2, <4>1, Zenon
      <4> HIDE DEF Work
      <4> QED
        BY <4>1, <4>2, Zenon
    <3> QED
      BY <2>1, <3>3, OpenSteps, Zenon
  <2>3. CASE c \in freed
    <3>1. Work' = Work
      BY <1>1, <2>1, <2>3 DEF Work, View, Write, TypeOK
    <3> QED
      BY <2>1, <3>1, OpenSteps, Zenon
  <2> QED
    BY <2>2, <2>3, Zenon
<1> QED
  BY <1>2, <1>3, <1>4, <1>5, <1>6, <1>7, <1>8, <1>9, Zenon DEF Working

(* The end of a transaction: palloc_publish is the commit, everything      *)
(* after it and after an abort is invisible.                               *)
LEMMA EndingImplements == ASSUME TInv, TInv', Ending PROVE Implemented
<1> USE SlotFacts
<1>1. TypeOK /\ Member /\ Phase /\ n \in Nat /\ k \in Nat /\ k >= 1
  BY DEF TInv, TypeOK
<1>2. CASE TxPublish
  <2>1. /\ Open /\ pc' \in {"clobber", "idle"}
        /\ alloc' = (alloc \cup fresh) \ freed /\ data' = data
    BY <1>2, Zenon DEF TxPublish, Open
  <2>2. ~Open' /\ Contents' = View(alloc)'
    BY <2>1, Zenon DEF Contents, Rollback, Open
  <2>3. View(alloc)' = Work
    BY <2>1, Zenon DEF Work, View
  <2> QED
    BY <2>1, <2>2, <2>3 DEF Implemented, CommitA, Seen, Open
<1>3. CASE ClobberLane \/ ClobberExtension \/ ClobberDrain
  <2>1. /\ pc \in {"clobber", "clobbering", "clobberingExt"}
        /\ pc' \in {"clobbering", "clobberingExt", "idle"}
        /\ UNCHANGED <<data, alloc>>
    BY <1>3, Zenon DEF ClobberLane, ClobberExtension, ClobberDrain
  <2>2. Contents' = Contents /\ ~Open /\ ~Open'
    BY <2>1, Zenon DEF Contents, Rollback, Open, View
  <2> QED
    BY <2>2, ClosedStutter, Zenon
<1>4. CASE RestoreEntry
  <2>1. RestoreInv /\ AtEntry /\ UNCHANGED <<undo, before>> /\ pc = "restore" /\ pc' = "restore"
    BY <1>1, <1>4, Zenon DEF RestoreEntry, Phase, history
  <2>2. undo[1] # Invalid
    <3> SUFFICES ASSUME undo[1] = Invalid PROVE FALSE
      BY Zenon
    <3>1. n = 0 /\ CleanFrom(n + 1)
      BY <1>1, <2>1, NothingToUndo, Zenon DEF RestoreInv
    <3>2. k \in Slots
      BY <1>1, <2>1, CapacityFact DEF AtEntry, Slots
    <3> QED
      BY <1>1, <2>1, <3>1, <3>2, CleanFacts DEF AtEntry
  <2>3. Contents = before /\ Contents' = before /\ ~Open /\ ~Open'
    BY <2>1, <2>2, Zenon DEF Contents, Rollback, Open
  <2> QED
    BY <2>3, ClosedStutter, Zenon
<1>5. CASE TxAbortFinish
  <2>1. /\ RestoreInv /\ ~AtEntry /\ UNCHANGED <<undo, before, data, alloc>>
        /\ pc = "restore" /\ pc' \in {"clobber", "idle"}
    BY <1>1, <1>5, Zenon DEF TxAbortFinish, Phase, history, pool
  <2>2. Restored
    BY <1>1, <2>1, WalkEnds, Zenon DEF RestoreInv
  <2>3. View(alloc) = before
    BY <1>1, <2>2, RestoredFacts, Zenon
  <2>4. Contents = before /\ Contents' = before /\ ~Open /\ ~Open'
    BY <2>1, <2>3, Zenon DEF Contents, Rollback, Open, View
  <2> QED
    BY <2>4, ClosedStutter, Zenon
<1> QED
  BY <1>2, <1>3, <1>4, <1>5, Zenon DEF Ending

(* A crash with something to undo, or with everything intact, rolls back.  *)
LEMMA CrashContents ==
    ASSUME TypeOK, Member, Crash, NEW m \in Nat, Undoable(m, 1)
    PROVE  Contents' = before
<1> USE SlotFacts, CrashFacts
<1>1. CASE undo'[1] # Invalid
  BY <1>1, Zenon DEF Contents, Rollback
<1>2. CASE undo'[1] = Invalid
  <2>1. m = 0
    <3> SUFFICES ASSUME m >= 1 PROVE FALSE
      OBVIOUS
    <3>1. undoMay[1] = {undo[1]} /\ undo[1] # Invalid
      BY SMTT(20) DEF Undoable, Prefix
    <3> QED
      BY <1>2, <3>1, Zenon
  <2>2. \A c : ~Saved(c, 1, m)
    BY <2>1 DEF Saved
  <2>3. \A c \in alloc : data'[c] = before[c]
    BY <2>2 DEF Undoable, Intact, TypeOK
  <2>4. \A c \in Cells : before[c] = IF c \in alloc THEN data'[c] ELSE None
    BY <2>3, Zenon DEF Undoable, Matches
  <2>5. View(alloc)' = before
    BY <2>4, Zenon DEF View, TypeOK
  <2> QED
    BY <1>2, <2>5, Zenon DEF Contents, Rollback, Open
<1> QED
  BY <1>1, <1>2, Zenon

(* A crash of a settled pool keeps its contents.                           *)
LEMMA CrashKeeps ==
    ASSUME TypeOK, Crash, undoMay[1] = {Invalid}, Durable PROVE Contents' = View(alloc)
<1> USE SlotFacts, CrashFacts
<1>1. \A c \in Cells : c \in alloc => data'[c] = data[c]
  BY Zenon DEF Durable
<1>2. View(alloc)' = View(alloc)
  BY <1>1, Zenon DEF View
<1>3. undo'[1] = Invalid
  BY Zenon
<1> QED
  BY <1>2, <1>3, Zenon DEF Contents, Rollback, Open

(* A crash rolls an open transaction back; otherwise it is invisible.      *)
LEMMA CrashImplements == ASSUME TInv, Crash PROVE Implemented
<1> USE SlotFacts
<1>1. TypeOK /\ Member /\ Phase /\ n \in Nat /\ k \in Nat /\ k >= 1
  BY DEF TInv, TypeOK
<1>2. ~Open' /\ pc # "down"
  BY CrashFacts, Zenon DEF Open, Crash
<1>3. CASE Open
  <2>1. \E m \in Nat : Undoable(m, 1)
    <3>1. CASE pc = "snap"
      BY <1>1, <3>1 DEF Phase, SnapInv
    <3>2. CASE pc \in {"work", "flushed"}
      BY <1>1, <3>2, Zenon DEF Phase, WorkInv, FlushedInv
    <3> QED
      BY <1>3, <3>1, <3>2, Zenon DEF Open
  <2>2. Contents' = before /\ Contents = before
    BY <1>1, <1>3, <2>1, CrashContents, Zenon DEF Contents, Rollback
  <2> QED
    BY <1>2, <1>3, <2>2 DEF Implemented, RollbackA, Seen, Open
<1>4. CASE pc = "idle"
  <2>1. Contents' = View(alloc)
    BY <1>1, <1>4, CrashKeeps, Zenon DEF Phase, IdleInv, Drained
  <2> QED
    BY <1>2, <1>4, <2>1, ClosedStutter, Zenon DEF Contents, Rollback, Open
<1>5. CASE pc = "restore"
  <2>1. Undoable(n, k) /\ Undoable(n, 1)
    BY <1>1, <1>5, UndoableFromFirst, Zenon DEF Phase, RestoreInv
  <2>2. Contents' = before
    BY <1>1, <2>1, CrashContents, Zenon
  <2>3. Contents = before
    BY <1>1, <1>5, <2>1, NothingToUndo, Zenon DEF Contents, Rollback
  <2> QED
    BY <1>2, <1>5, <2>2, <2>3, ClosedStutter, Zenon DEF Open
<1>6. CASE pc \in {"clobber", "clobbering", "clobberingExt"}
  <2>1. ClobberInv /\ Contents = View(alloc) /\ ~Open
    BY <1>1, <1>6, Zenon DEF Phase, Contents, Rollback, Open
  <2>2. CASE Restored
    <3>1. Contents' = before
      BY <1>1, <2>2, RestoredUndoable, CrashContents, Zenon
    <3>2. View(alloc) = before
      BY <1>1, <2>2, RestoredFacts, Zenon
    <3> QED
      BY <1>2, <2>1, <3>1, <3>2, ClosedStutter, Zenon
  <2>3. CASE Durable /\ undoMay[1] = {Invalid}
    BY <1>1, <1>2, <2>1, <2>3, CrashKeeps, ClosedStutter, Zenon
  <2> QED
    BY <2>1, <2>2, <2>3, Zenon DEF ClobberInv
<1>7. CASE pc = "undo"
  <2>1. UndoInv /\ ~Open
    BY <1>1, <1>7, Zenon DEF Phase, Open
  <2>2. CASE undo[1] = Invalid
    <3>1. Durable /\ undoMay[1] = {Invalid}
      BY <1>1, <2>1, <2>2, Zenon DEF UndoInv, Durable, Drained, TypeOK
    <3>2. Contents = View(alloc)
      BY <1>7, <2>2, Zenon DEF Contents, Rollback, Open
    <3> QED
      BY <1>1, <1>2, <2>1, <3>1, <3>2, CrashKeeps, ClosedStutter, Zenon
  <2>3. CASE undo[1] # Invalid
    <3>1. PICK m \in Nat : Undoable(m, k)
      BY <2>1, <2>3, Zenon DEF UndoInv
    <3>2. Contents' = before
      BY <1>1, <3>1, UndoableFromFirst, CrashContents, Zenon
    <3>3. Contents = before
      BY <1>7, <2>3, Zenon DEF Contents, Rollback
    <3> QED
      BY <1>2, <2>1, <3>2, <3>3, ClosedStutter, Zenon
  <2> QED
    BY <2>2, <2>3, Zenon
<1> QED
  BY <1>1, <1>2, <1>3, <1>4, <1>5, <1>6, <1>7, Zenon DEF TypeOK, Open

(* The recovery is invisible: what it will undo counts as undone.          *)
LEMMA RecoveryImplements ==
    ASSUME TInv, Recover \/ UndoEntryApply \/ RecoverFinish PROVE Implemented
<1>1. TypeOK /\ Phase
  BY Zenon DEF TInv
<1>2. CASE Recover
  BY <1>2, ClosedStutter, Zenon DEF Recover, Contents, Rollback, Open, View, pool, history
<1>3. CASE UndoEntryApply
  <2>1. UndoInv /\ AtEntry /\ UNCHANGED <<undo, before>> /\ pc = "undo" /\ pc' = "undo"
    BY <1>1, <1>3, Zenon DEF UndoEntryApply, Phase, history
  <2>2. undo[1] # Invalid
    BY <2>1, Zenon DEF UndoInv, AtEntry
  <2> QED
    BY <2>1, <2>2, ClosedStutter, Zenon DEF Contents, Rollback, Open
<1>4. CASE RecoverFinish
  <2>1. /\ UndoInv /\ ~AtEntry /\ UNCHANGED <<undo, before, data, alloc>>
        /\ pc = "undo" /\ pc' \in {"clobber", "idle"}
    BY <1>1, <1>4, Zenon DEF RecoverFinish, Phase, history, pool
  <2>2. undo[1] # Invalid => View(alloc) = before
    BY <1>1, <2>1, WalkEnds, RestoredFacts, Zenon DEF UndoInv
  <2>3. Contents' = Contents /\ ~Open /\ ~Open'
    BY <2>1, <2>2, Zenon DEF Contents, Rollback, Open, View
  <2> QED
    BY <2>3, ClosedStutter, Zenon
<1> QED
  BY <1>2, <1>3, <1>4, Zenon

(* A transaction over its undo log, with crashes at every step and a       *)
(* recovery that may crash too, implements the atomic transaction.         *)
THEOREM TxRefines == ASSUME Premises PROVE Spec => ImplementsAtomicTx
<1>1. Init => Abstract!AInit
  <2> SUFFICES ASSUME Init PROVE Abstract!AInit
    BY Zenon
  <2>1. ~Open /\ ~Rollback
    BY Zenon DEF Init, Open, Rollback
  <2>2. View(alloc) \in [Cells -> Values \cup {None}]
    BY Zenon DEF Init, View
  <2> QED
    BY <2>1, <2>2 DEF Abstract!AInit, Contents, Open
<1>2. ASSUME TInv, TInv', [Next]_vars PROVE [Abstract!ANext]_(Abstract!avars)
  <2>1. Implemented
    <3>1. CASE UNCHANGED vars
      BY <3>1 DEF vars, pool, volatile, history, Implemented, Stutter, Contents, Seen, Open,
         Rollback, Work, View
    <3>2. CASE Next
      BY <1>2, <3>2, WorkingImplements, EndingImplements, CrashImplements,
         RecoveryImplements DEF Next, Failing
    <3> QED
      BY <1>2, <3>1, <3>2, Zenon
  <2>2. CASE Stutter
    BY <2>2, Zenon DEF Stutter, Seen, Open, Abstract!avars
  <2>3. CASE BeginA
    BY <2>3, Zenon DEF BeginA, Seen, Open, Abstract!ANext, Abstract!Begin
  <2>4. CASE CommitA
    BY <2>4, Zenon DEF CommitA, Seen, Open, Abstract!ANext, Abstract!Commit
  <2>5. CASE RollbackA
    BY <2>5, Zenon DEF RollbackA, Seen, Open, Abstract!ANext, Abstract!Rollback
  <2>6. CASE \E c \in Cells, v \in Values \cup {None} : ChangeA(c, v)
    BY <2>6, Zenon DEF ChangeA, Seen, Open, Abstract!ANext, Abstract!Change
  <2> QED
    BY <2>1, <2>2, <2>3, <2>4, <2>5, <2>6, Zenon DEF Implemented
<1> QED
  BY <1>1, <1>2, TxInvariant, PTL DEF Spec, ImplementsAtomicTx, Abstract!ASpec

=============================================================================
