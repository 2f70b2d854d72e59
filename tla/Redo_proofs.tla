---------------------------- MODULE Redo_proofs ----------------------------
(***************************************************************************)
(* Atomicity of the redo log for every number of words, bits, entries and  *)
(* crashes, on a CPU whose flush is CLFLUSH, for operations of at most     *)
(* OP_MERGE_SEARCH entries, and with at most one crash that interrupts     *)
(* ulog_store.                                                             *)
(*                                                                         *)
(* The argument.  Look at one bit of one word.  An entry decides the bit   *)
(* when its effect does not depend on the bit's old value.  The last entry *)
(* of the log that decides a bit agrees with what the updates ask for      *)
(* (LastDecides), and a bit nobody decides is as before (Undecided).  When *)
(* the log is walked, every bit is right or is still to be decided         *)
(* (ToCome); this survives a restart of the walk from a half-applied       *)
(* image, which is why recovery may be interrupted and repeated.           *)
(***************************************************************************)
EXTENDS Redo, TLAPS

Premises == /\ FlushOrdered = TRUE
            /\ MaxTornStores <= 1
            /\ MaxEntries <= MergeSearch

-----------------------------------------------------------------------------
\* One bit at a time: s is a log of m entries, p the contents asked for.

Decides(e, b) == \/ e.type = "SET"
                 \/ e.type = "AND" /\ b \notin e.val
                 \/ e.type = "OR" /\ b \in e.val

\* Entry i of s decides bit b of word w.
On(s, i, w, b) == s[i].off = w /\ Decides(s[i], b)

LastDecides(s, m, p) ==
    \A w \in Words, b \in Bits, i \in 1 .. m :
        On(s, i, w, b) /\ (\A j \in i + 1 .. m : ~On(s, j, w, b))
        => (b \in p[w] <=> b \in s[i].val)

Undecided(s, m, x, p) ==
    \A w \in Words, b \in Bits :
        (\A i \in 1 .. m : ~On(s, i, w, b)) => (b \in x[w] <=> b \in p[w])

\* Walking s from entry i on makes x what is asked for.
ToCome(s, m, x, p, i) ==
    \A w \in Words, b \in Bits :
        (b \in x[w] <=> b \in p[w]) \/ \E j \in i .. m : On(s, j, w, b)

(* A bit of the word an entry names becomes the entry's bit if the entry   *)
(* decides it and stays as it is otherwise (ulog_entry_apply).             *)
LEMMA EffectBit ==
    ASSUME NEW e \in Entry, NEW x \in Value
    PROVE  /\ Effect(e, x) \in Value
           /\ \A b \in Bits : b \in Effect(e, x)
                                <=> IF Decides(e, b) THEN b \in e.val ELSE b \in x
<1>1. e.type \in {"SET", "AND", "OR"} /\ e.val \in SUBSET Bits
  BY Zenon DEF Entry, Value
<1>2. x \in SUBSET Bits
  BY Zenon DEF Value
<1>3. CASE e.type = "SET"
  BY <1>1, <1>2, <1>3, Zenon DEF Effect, Decides, Value
<1>4. CASE e.type = "AND"
  BY <1>1, <1>2, <1>4, Zenon DEF Effect, Decides, Value
<1>5. CASE e.type = "OR"
  BY <1>1, <1>2, <1>5, Zenon DEF Effect, Decides, Value
<1> QED
  BY <1>1, <1>3, <1>4, <1>5, Zenon

(* Merging u into an entry of the same type and word leaves one entry that *)
(* decides what either decided, u's choice first (operation_merge).        *)
LEMMA MergedBit ==
    ASSUME NEW e \in Entry, NEW u \in Entry, e.type = u.type
    PROVE  /\ MergedEntry(e, u) \in Entry
           /\ MergedEntry(e, u).off = e.off
           /\ \A b \in Bits :
                 /\ Decides(MergedEntry(e, u), b) <=> Decides(e, b) \/ Decides(u, b)
                 /\ Decides(u, b) =>
                      (b \in MergedEntry(e, u).val <=> b \in u.val)
                 /\ ~Decides(u, b) =>
                      (b \in MergedEntry(e, u).val <=> b \in e.val)
<1> DEFINE m == MergedEntry(e, u)
<1>1. /\ e.off \in Words /\ e.type \in {"SET", "AND", "OR"}
      /\ e.val \in SUBSET Bits /\ u.val \in SUBSET Bits
  BY Zenon DEF Entry, Value
<1>2. m.off = e.off /\ m.type = e.type
  BY Zenon DEF MergedEntry
<1>3. CASE u.type = "SET"
  <2>1. m.val = u.val
    BY <1>3, Zenon DEF MergedEntry
  <2> QED
    BY <1>1, <1>2, <1>3, <2>1, Zenon DEF Decides, Entry, Value, MergedEntry
<1>4. CASE u.type = "AND"
  <2>1. m.val = e.val \cap u.val
    BY <1>4, Zenon DEF MergedEntry
  <2> QED
    BY <1>1, <1>2, <1>4, <2>1, Zenon DEF Decides, Entry, Value, MergedEntry
<1>5. CASE u.type = "OR"
  <2>1. m.val = e.val \cup u.val
    BY <1>5, Zenon DEF MergedEntry
  <2> QED
    BY <1>1, <1>2, <1>5, <2>1, Zenon DEF Decides, Entry, Value, MergedEntry
<1> QED
  BY <1>1, <1>3, <1>4, <1>5, Zenon

\* The log t is s with entry u after entry m; q asks for u in addition to p.
Appended(s, t, m, u, x, p, q) ==
    /\ m \in Nat /\ u \in Entry /\ p \in [Words -> Value]
    /\ \A i \in 1 .. m : s[i] \in Entry /\ t[i] = s[i]
    /\ t[m + 1] = u
    /\ LastDecides(s, m, p) /\ Undecided(s, m, x, p)
    /\ q = [p EXCEPT ![u.off] = Effect(u, p[u.off])]

(* A new entry at the end of the log keeps the two facts                   *)
(* (ulog_entry_val_create).                                                *)
LEMMA AppendKeeps ==
    ASSUME NEW s, NEW t, NEW m, NEW u, NEW x, NEW p, NEW q,
           Appended(s, t, m, u, x, p, q)
    PROVE  /\ q \in [Words -> Value]
           /\ LastDecides(t, m + 1, q) /\ Undecided(t, m + 1, x, q)
<1> USE DEF Appended
<1>1. u.off \in Words /\ p[u.off] \in Value
  BY Zenon DEF Entry
<1>2. q \in [Words -> Value]
  BY <1>1, EffectBit, Zenon
<1>3. ASSUME NEW w \in Words, NEW b \in Bits
      PROVE  b \in q[w] <=> IF On(t, m + 1, w, b) THEN b \in u.val ELSE b \in p[w]
  BY <1>1, EffectBit, Zenon DEF On
<1>4. \A i \in 1 .. m, w \in Words, b \in Bits : On(t, i, w, b) <=> On(s, i, w, b)
  BY Zenon DEF On
<1>5. ASSUME NEW w \in Words, NEW b \in Bits, NEW i \in 1 .. m + 1,
             On(t, i, w, b), \A j \in i + 1 .. m + 1 : ~On(t, j, w, b)
      PROVE  b \in q[w] <=> b \in t[i].val
  <2>1. CASE i = m + 1
    BY <1>3, <1>5, <2>1, Zenon
  <2>2. CASE i # m + 1
    <3>1. i \in 1 .. m /\ m + 1 \in i + 1 .. m + 1
      BY <2>2
    <3>2. \A j \in i + 1 .. m : j \in i + 1 .. m + 1 /\ j \in 1 .. m
      BY <3>1
    <3>3. On(s, i, w, b) /\ \A j \in i + 1 .. m : ~On(s, j, w, b)
      BY <1>4, <1>5, <3>1, <3>2, Zenon
    <3>4. b \in p[w] <=> b \in s[i].val
      BY <3>1, <3>3, Zenon DEF LastDecides
    <3> QED
      BY <1>3, <1>5, <3>1, <3>4, Zenon
  <2> QED
    BY <2>1, <2>2, Zenon
<1>6. ASSUME NEW w \in Words, NEW b \in Bits,
             \A i \in 1 .. m + 1 : ~On(t, i, w, b)
      PROVE  b \in x[w] <=> b \in q[w]
  <2>1. m + 1 \in 1 .. m + 1 /\ \A i \in 1 .. m : i \in 1 .. m + 1
    OBVIOUS
  <2>2. \A i \in 1 .. m : ~On(s, i, w, b)
    BY <1>4, <1>6, <2>1, Zenon
  <2>3. b \in x[w] <=> b \in p[w]
    BY <2>2, Zenon DEF Undecided
  <2> QED
    BY <1>3, <1>6, <2>1, <2>3, Zenon
<1>7. LastDecides(t, m + 1, q) /\ Undecided(t, m + 1, x, q)
  BY <1>5, <1>6, Zenon DEF LastDecides, Undecided
<1> QED
  BY <1>2, <1>7, Zenon

\* The log t is s with u merged into entry h, the latest of u's word.
Merged(s, t, m, h, u, x, p, q) ==
    /\ m \in Nat /\ u \in Entry /\ h \in 1 .. m /\ p \in [Words -> Value]
    /\ \A i \in 1 .. m : s[i] \in Entry /\ (i # h => t[i] = s[i])
    /\ t[h] = MergedEntry(s[h], u)
    /\ s[h].off = u.off /\ s[h].type = u.type
    /\ \A j \in h + 1 .. m : s[j].off # u.off
    /\ LastDecides(s, m, p) /\ Undecided(s, m, x, p)
    /\ q = [p EXCEPT ![u.off] = Effect(u, p[u.off])]

(* Merging into the latest entry of the word keeps them too                *)
(* (operation_try_merge_entry).                                            *)
LEMMA MergeKeeps ==
    ASSUME NEW s, NEW t, NEW m, NEW h, NEW u, NEW x, NEW p, NEW q,
           Merged(s, t, m, h, u, x, p, q)
    PROVE  /\ q \in [Words -> Value]
           /\ LastDecides(t, m, q) /\ Undecided(t, m, x, q)
<1> USE DEF Merged
<1>1. u.off \in Words /\ p[u.off] \in Value /\ s[h] \in Entry
  BY Zenon DEF Entry
<1>2. q \in [Words -> Value]
  BY <1>1, EffectBit, Zenon
<1>3. \A w \in Words, b \in Bits :
         b \in q[w] <=> IF w = u.off /\ Decides(u, b) THEN b \in u.val
                                                      ELSE b \in p[w]
  BY <1>1, EffectBit, Zenon
<1>4. \A i \in 1 .. m, w \in Words, b \in Bits :
         i # h => (On(t, i, w, b) <=> On(s, i, w, b))
  BY Zenon DEF On
<1>5. \A w \in Words, b \in Bits :
         On(t, h, w, b) <=> On(s, h, w, b) \/ (w = u.off /\ Decides(u, b))
  BY <1>1, MergedBit DEF On
<1>6. \A b \in Bits : /\ Decides(u, b) => (b \in t[h].val <=> b \in u.val)
                      /\ ~Decides(u, b) => (b \in t[h].val <=> b \in s[h].val)
  BY <1>1, MergedBit
<1>7. \A i \in 1 .. m, w \in Words, b \in Bits :
         On(s, i, w, b) => On(t, i, w, b)
  BY <1>4, <1>5, Zenon
<1>8. ASSUME NEW w \in Words, NEW b \in Bits, NEW i \in 1 .. m,
             On(t, i, w, b), \A j \in i + 1 .. m : ~On(t, j, w, b)
      PROVE  b \in q[w] <=> b \in t[i].val
  <2>1. \A j \in i + 1 .. m : ~On(s, j, w, b)
    BY <1>7, <1>8
  <2>2. CASE i = h /\ w = u.off /\ Decides(u, b)
    BY <1>3, <1>6, <2>2, Zenon
  <2>3. CASE i = h /\ ~(w = u.off /\ Decides(u, b))
    <3>1. On(s, h, w, b)
      BY <1>5, <1>8, <2>3, Zenon
    <3>2. w = u.off
      BY <3>1, Zenon DEF On
    <3>3. b \in p[w] <=> b \in s[h].val
      BY <2>1, <2>3, <3>1, Zenon DEF LastDecides
    <3> QED
      BY <1>3, <1>6, <2>3, <3>2, <3>3, Zenon
  <2>4. CASE i # h
    <3>1. On(s, i, w, b)
      BY <1>4, <1>8, <2>4, Zenon
    <3>2. b \in p[w] <=> b \in s[i].val
      BY <2>1, <3>1, Zenon DEF LastDecides
    <3>3. ~(w = u.off /\ Decides(u, b))
      <4>1. CASE i < h
        <5>1. h \in i + 1 .. m
          BY <4>1
        <5> QED
          BY <1>5, <1>8, <5>1, Zenon
      <4>2. CASE i > h
        <5>1. i \in h + 1 .. m
          BY <4>2
        <5> QED
          BY <3>1, <5>1, Zenon DEF On
      <4> QED
        BY <2>4, <4>1, <4>2
    <3> QED
      BY <1>3, <2>4, <3>2, <3>3, Zenon
  <2> QED
    BY <2>2, <2>3, <2>4, Zenon
<1>9. ASSUME NEW w \in Words, NEW b \in Bits, \A i \in 1 .. m : ~On(t, i, w, b)
      PROVE  b \in x[w] <=> b \in q[w]
  <2>1. \A i \in 1 .. m : ~On(s, i, w, b)
    BY <1>7, <1>9, Zenon
  <2>2. ~(w = u.off /\ Decides(u, b))
    BY <1>5, <1>9, Zenon
  <2> QED
    BY <1>3, <2>1, <2>2, Zenon DEF Undecided
<1>10. LastDecides(t, m, q) /\ Undecided(t, m, x, q)
  BY <1>8, <1>9, Zenon DEF LastDecides, Undecided
<1> QED
  BY <1>2, <1>10, Zenon

\* The image y is x after entry i of the log s.
Applied(s, m, i, x, p, y) ==
    /\ m \in Nat /\ i \in 1 .. m /\ x \in [Words -> Value]
    /\ \A j \in 1 .. m : s[j] \in Entry
    /\ LastDecides(s, m, p) /\ Undecided(s, m, x, p) /\ ToCome(s, m, x, p, i)
    /\ y = [x EXCEPT ![s[i].off] = Effect(s[i], x[s[i].off])]

(* Applying entry i advances the walk (ulog_process_entry).                *)
LEMMA ApplyKeeps ==
    ASSUME NEW s, NEW m, NEW i, NEW x, NEW p, NEW y, Applied(s, m, i, x, p, y)
    PROVE  /\ y \in [Words -> Value]
           /\ Undecided(s, m, y, p) /\ ToCome(s, m, y, p, i + 1)
<1> USE DEF Applied
<1>1. s[i] \in Entry /\ s[i].off \in Words /\ x[s[i].off] \in Value
  BY Zenon DEF Entry
<1>2. y \in [Words -> Value]
  BY <1>1, EffectBit, Zenon
<1>3. \A w \in Words, b \in Bits :
         b \in y[w] <=> IF On(s, i, w, b) THEN b \in s[i].val ELSE b \in x[w]
  BY <1>1, EffectBit, Zenon DEF On
<1>4. Undecided(s, m, y, p)
  BY <1>3, Zenon DEF Undecided
<1>5. ASSUME NEW w \in Words, NEW b \in Bits, \A j \in i + 1 .. m : ~On(s, j, w, b)
      PROVE  b \in y[w] <=> b \in p[w]
  <2>1. CASE On(s, i, w, b)
    BY <1>3, <1>5, <2>1, Zenon DEF LastDecides
  <2>2. CASE ~On(s, i, w, b)
    <3>1. \A j \in i .. m : ~On(s, j, w, b)
      BY <1>5, <2>2
    <3> QED
      BY <1>3, <2>2, <3>1, Zenon DEF ToCome
  <2> QED
    BY <2>1, <2>2, Zenon
<1>6. ToCome(s, m, y, p, i + 1)
  BY <1>5, Zenon DEF ToCome
<1> QED
  BY <1>2, <1>4, <1>6, Zenon

(* A walk may start on any image that has the undecided bits right, and    *)
(* ends with what is asked for.                                            *)
LEMMA WalkStarts ==
    ASSUME NEW s, NEW m \in Nat, NEW x, NEW p, Undecided(s, m, x, p)
    PROVE  ToCome(s, m, x, p, 1)
BY Zenon DEF Undecided, ToCome

(* The walk over the log ends behind the last valid entry.                 *)
LEMMA WalkEnds ==
    ASSUME NEW s, NEW m \in Nat, NEW x \in [Words -> Value],
           NEW p \in [Words -> Value], ToCome(s, m, x, p, m + 1)
    PROVE  x = p
<1>1. \A w \in Words, b \in Bits : b \in x[w] <=> b \in p[w]
  BY DEF ToCome
<1>2. \A w \in Words : x[w] \in SUBSET Bits /\ p[w] \in SUBSET Bits
  BY Zenon DEF Value
<1>3. \A w \in Words : x[w] = p[w]
  BY <1>1, <1>2, Zenon
<1> QED
  BY <1>3

(* ulog_store copies more slots than there are entries, and more for more  *)
(* entries.                                                                *)
LEMMA CopySlotsFacts ==
    /\ \A m \in Nat : CopySlots(m) \in Nat /\ m + 1 <= CopySlots(m)
    /\ \A m, j \in Nat : m <= j => CopySlots(m) <= CopySlots(j)
<1>1. PerLine \in Nat /\ PerLine > 0
  BY RedoAssumption
<1>2. \A m \in Nat : /\ m \div PerLine \in Nat
                     /\ PerLine * (m \div PerLine) <= m
                     /\ m < PerLine * (m \div PerLine) + PerLine
  BY <1>1
<1>3. \A q \in Nat : PerLine * (q + 1) = PerLine * q + PerLine /\ PerLine * q \in Nat
  BY <1>1
<1>4. ASSUME NEW m \in Nat PROVE CopySlots(m) \in Nat /\ m + 1 <= CopySlots(m)
  BY <1>1, <1>2, <1>3 DEF CopySlots
<1>5. ASSUME NEW m \in Nat, NEW j \in Nat, m <= j PROVE CopySlots(m) <= CopySlots(j)
  <2>1. m \div PerLine <= j \div PerLine
    <3> DEFINE a == m \div PerLine
               b == j \div PerLine
    <3>1. a \in Nat /\ b \in Nat /\ PerLine * a <= j /\ j < PerLine * b + PerLine
      <4>1. /\ a \in Nat /\ b \in Nat /\ PerLine * a \in Nat
            /\ PerLine * a <= m /\ j < PerLine * b + PerLine
        BY <1>2, <1>3, Zenon
      <4> HIDE DEF a, b
      <4> QED
        BY <1>5, <4>1
    <3>2. ASSUME b + 1 <= a PROVE FALSE
      <4>1. PICK d \in Nat : a = b + 1 + d
        <5>1. a - (b + 1) \in Nat /\ a = b + 1 + (a - (b + 1))
          BY <3>1, <3>2
        <5> QED
          BY <5>1, Zenon
      <4>2. PerLine * a = PerLine * b + PerLine + PerLine * d /\ PerLine * d >= 0
        BY <1>1, <3>1, <4>1
      <4> HIDE DEF a, b
      <4> QED
        BY <1>1, <1>3, <3>1, <4>2
    <3> HIDE DEF a, b
    <3>3. a <= b
      BY <3>1, <3>2
    <3> QED
      BY <3>3, Zenon DEF a, b
  <2>2. PerLine * (m \div PerLine) <= PerLine * (j \div PerLine)
    BY <1>1, <1>2, <2>1
  <2> QED
    BY <1>1, <1>2, <1>3, <2>2 DEF CopySlots
<1> QED
  BY <1>4, <1>5, Zenon

(* The shadow log has a slot for every entry and for the terminator.       *)
LEMMA ShadowRange == \A i \in 1 .. MaxEntries + 1 : i \in ShadowSlots
<1>1. MaxEntries \in Nat /\ CopySlots(MaxEntries) \in Nat
        /\ MaxEntries + 1 <= CopySlots(MaxEntries)
  BY RedoAssumption, CopySlotsFacts, Zenon
<1> HIDE DEF CopySlots
<1> QED
  BY <1>1 DEF ShadowSlots

(* The capacity is the lane's entries, with or without the extension's.    *)
LEMMA CapacityFacts == TypeOK => Capacity \in Nat /\ Base <= Capacity /\ Capacity <= Base + Ext
BY RedoAssumption DEF Capacity, TypeOK

-----------------------------------------------------------------------------
\* The persistent log.

(* An invalidated header is never taken for a log.                         *)
LEMMA NoSumIsInvalid ==
    ASSUME NEW h \in Header, NEW s \in [LogSlots -> Slot], h.sum = NoSum
    PROVE  ~Valid(h, s)
<1> SUFFICES ASSUME NEW len \in 1 .. Base, \A i \in 1 .. len : s[i] # Zero,
                    NoSum = Sum(h.next, s, len)
             PROVE  FALSE
  BY Zenon DEF Valid
<1>1. \A i \in 1 .. len : s[i] \in Entry
  BY RedoAssumption DEF LogSlots, Slot
<1>2. [i \in 1 .. len |-> s[i]] \in [1 .. len -> Entry]
  BY <1>1, Zenon
<1>3. Sum(h.next, s, len) \in Sums
  <2>1. h.next \in BOOLEAN
    BY Zenon DEF Header
  <2> QED
    BY <1>2, <2>1, Zenon DEF Sum, Sums
<1> QED
  BY <1>3, RedoAssumption, Zenon

(* Validity depends on the slots in the lane only.                         *)
LEMMA ValidInLane ==
    ASSUME NEW h, NEW s, NEW t, \A i \in 1 .. Base : s[i] = t[i]
    PROVE  Valid(h, s) <=> Valid(h, t)
<1>1. \A len \in 1 .. Base : Sum(h.next, s, len) = Sum(h.next, t, len)
  <2> TAKE len \in 1 .. Base
  <2>1. \A i \in 1 .. len : i \in 1 .. Base
    BY RedoAssumption
  <2>2. [i \in 1 .. len |-> s[i]] = [i \in 1 .. len |-> t[i]]
    BY <2>1, Zenon
  <2> QED
    BY <2>2, Zenon DEF Sum
<1>2. \A len \in 1 .. Base : \A i \in 1 .. len : s[i] = t[i]
  BY RedoAssumption
<1>3. \A len \in 1 .. Base : len < Base => s[len + 1] = t[len + 1]
  BY RedoAssumption
<1> QED
  BY <1>1, <1>2, <1>3, Zenon DEF Valid

(* A checksum of entries 1..m of a log s that matches the slots t means    *)
(* that t holds these entries and no more in the lane.                     *)
LEMMA ValidHolds ==
    ASSUME NEW h, NEW s, NEW t, NEW m \in 1 .. Base,
           h.sum = Sum(h.next, s, m), Valid(h, t)
    PROVE  /\ \A i \in 1 .. m : t[i] = s[i]
           /\ m < Base => t[m + 1] = Zero
<1>1. PICK len \in 1 .. Base : /\ len < Base => t[len + 1] = Zero
                               /\ Sum(h.next, s, m) = Sum(h.next, t, len)
  BY Zenon DEF Valid
<1>2. [i \in 1 .. m |-> s[i]] = [i \in 1 .. len |-> t[i]]
  BY <1>1, Zenon DEF Sum
<1>3. 1 .. m = 1 .. len
  <2>1. DOMAIN [i \in 1 .. m |-> s[i]] = DOMAIN [i \in 1 .. len |-> t[i]]
    BY <1>2, Zenon
  <2> QED
    BY <2>1, Zenon
<1>4. m = len
  <2>1. m \in 1 .. len /\ len \in 1 .. m
    BY <1>3, RedoAssumption
  <2> QED
    BY <2>1, RedoAssumption
<1>5. \A i \in 1 .. m : [j \in 1 .. m |-> s[j]][i] = [j \in 1 .. len |-> t[j]][i]
  BY <1>2, Zenon
<1> QED
  BY <1>1, <1>4, <1>5, Zenon

(* Conversely a complete log is valid.                                     *)
LEMMA HoldsValid ==
    ASSUME NEW h, NEW s, NEW t, NEW m \in 1 .. Base,
           h.sum = Sum(h.next, s, m),
           \A i \in 1 .. m : t[i] = s[i] /\ t[i] # Zero,
           m < Base => t[m + 1] = Zero
    PROVE  Valid(h, t)
<1>1. [i \in 1 .. m |-> s[i]] = [i \in 1 .. m |-> t[i]]
  BY Zenon
<1>2. h.sum = Sum(h.next, t, m)
  BY <1>1, Zenon DEF Sum
<1> QED
  BY <1>2, Zenon DEF Valid

(* What a crash leaves of a line that is durable is what was visible.      *)
LEMMA PickDurable ==
    ASSUME NEW S, NEW T, NEW f \in [S -> T], NEW g, DOMAIN g = S,
           \A x \in S : g[x] = {f[x]}, NEW y \in Pick(g)
    PROVE  y = f
<1>1. y \in [S -> UNION {g[x] : x \in S}] /\ \A x \in S : y[x] = f[x]
  BY Zenon DEF Pick
<1> QED
  BY <1>1

(* What a crash picks for a word is one of its possible media values.      *)
LEMMA PickMember ==
    ASSUME NEW S, NEW T, NEW g \in [S -> SUBSET T], NEW y \in Pick(g)
    PROVE  y \in [S -> T] /\ \A x \in S : y[x] \in g[x]
<1>1. y \in [S -> UNION {g[x] : x \in S}] /\ \A x \in S : y[x] \in g[x]
  BY Zenon DEF Pick
<1>2. \A x \in S : y[x] \in T
  BY <1>1, Zenon
<1> QED
  BY <1>1, <1>2, Zenon

-----------------------------------------------------------------------------
\* The inductive invariant.

\* The shadow log is n entries and a terminator that stand for the updates.
ShadowOK ==
    /\ \A i \in 1 .. n : shadow[i] \in Entry
    /\ n > 0 => shadow[n + 1] = Zero
    /\ n <= Capacity
    /\ LastDecides(shadow, n, post)
    /\ Undecided(shadow, n, mem, post)

\* merge_entries holds the last entries, oldest first.
QueueOK ==
    /\ front = 0 /\ back <= n
    /\ \A p \in 0 .. back - 1 : ring[p] = n - back + 1 + p

InLane == IF n < Base THEN n ELSE Base

\* With header h the persistent log is the shadow log, complete.
LogIs(h) ==
    /\ n > 0 /\ n + 1 <= Capacity
    /\ \A i \in 1 .. n : slot[i] = shadow[i]
    /\ slot[n + 1] = Zero
    /\ h.sum = Sum(h.next, shadow, InLane)

Quiet == {"idle", "build", "single", "ext", "base"}

\* Media headers agree on the extension; one that claims it is not early.
HeaderInv ==
    \A h \in hdrMay : /\ h.next = hdr.next
                      /\ h.sum # NoSum /\ ~h.next => ~h.sum.next

\* What is durable where.
DurableInv ==
    /\ \A w \in Words : may[w] = {mem[w]}
    /\ hdr \in hdrMay
    /\ pc \notin {"stored", "clobber", "reclobber"} => hdrMay = {hdr}
    /\ \A i \in LogSlots :
          /\ i <= Base /\ pc # "stored" => slotMay[i] = {slot[i]}
          /\ i > Base /\ pc # "ext" => slotMay[i] = {slot[i]}

\* No operation is under way in the log: it is not taken for one.
QuietInv ==
    pc \in Quiet => ~RecoveryNeeded /\ (torn = 0 => hdr.sum = NoSum)

StoreInv ==
    /\ pc \in {"ext", "base"} =>
          /\ n > 1 /\ HasRoom
          /\ \A i \in LogSlots :
                i > Base /\ i <= CopySlots(n) => slot[i] = shadow[i]
    /\ pc = "stored" =>
          /\ LogIs(hdr)
          /\ torn = 0 => \A h \in hdrMay : h = hdr \/ h.sum = NoSum

ContentsInv ==
    /\ pc \in {"build", "ext", "base", "stored"} => mem = pre
    /\ pc \notin {"idle", "single", "down"} => ShadowOK
    /\ pc = "build" => QueueOK
    /\ pc \in {"apply", "recover"} =>
          LogIs(hdr) /\ k <= n + 1 /\ ToCome(shadow, n, mem, post, k)
    /\ pc \in {"single", "clobber", "reclobber"} => mem = post
    /\ pc \in {"clobber", "reclobber"} =>
          /\ hdr.sum = NoSum
          /\ \A h \in hdrMay : h.sum # NoSum => LogIs(h)
    /\ pc = "down" => \/ RecoveryNeeded /\ LogIs(hdr) /\ ShadowOK
                      \/ /\ ~RecoveryNeeded /\ mem \in {pre, post}
                         /\ torn = 0 => hdr.sum = NoSum
    /\ pc = "idle" => mem \in {pre, post} /\ (outcome = "done" => mem = post)

RInv == TypeOK /\ HeaderInv /\ DurableInv /\ QuietInv /\ StoreInv /\ ContentsInv

(* The invariant holds in a pool that was just created.                    *)
LEMMA InitRInv == Init => RInv
<1> SUFFICES ASSUME Init PROVE RInv
  BY Zenon
<1> USE RedoAssumption DEF Init
<1>1. TypeOK
  BY CopySlotsFacts DEF TypeOK, Value, Slot, Header, LogSlots, ShadowSlots
<1>2. ~RecoveryNeeded
  BY <1>1, NoSumIsInvalid, Zenon DEF RecoveryNeeded, TypeOK
<1> QED
  BY <1>1, <1>2 DEF RInv, HeaderInv, DurableInv, QuietInv, StoreInv, ContentsInv

-----------------------------------------------------------------------------
\* The steps that build an operation keep the invariant.

(* operation_start keeps the invariant.                                    *)
LEMMA StartKeeps == RInv /\ OperationStart => RInv'
<1> SUFFICES ASSUME RInv, OperationStart PROVE RInv'
  BY Zenon
<1> USE RedoAssumption DEF OperationStart, pmem
<1>1. TypeOK'
  BY DEF RInv, TypeOK
<1>2. ShadowOK'
  BY DEF RInv, TypeOK, ShadowOK, LastDecides, Undecided, Capacity
<1>3. QueueOK'
  BY DEF QueueOK
<1>4. ~RecoveryNeeded' /\ (torn' = 0 => hdr'.sum = NoSum)
  BY Zenon DEF RInv, QuietInv, Quiet, RecoveryNeeded
<1>5. HeaderInv' /\ DurableInv'
  BY Zenon DEF RInv, HeaderInv, DurableInv
<1> QED
  BY <1>1, <1>2, <1>3, <1>4, <1>5, Zenon DEF RInv, QuietInv, StoreInv, ContentsInv

(* operation_reserve keeps the invariant: an empty extension is linked.    *)
LEMMA ReserveKeeps == RInv /\ OperationReserve => RInv'
<1> SUFFICES ASSUME RInv, OperationReserve PROVE RInv'
  BY Zenon
<1> USE RedoAssumption DEF OperationReserve, context, history
<1>1. TypeOK'
  BY DEF RInv, TypeOK, Header, Slot
<1>2. ShadowOK'
  BY DEF RInv, TypeOK, ContentsInv, ShadowOK, Capacity
<1>3. hdrMay = {hdr}
  BY Zenon DEF RInv, DurableInv
<1>4. ~RecoveryNeeded'
  <2> SUFFICES ASSUME Valid(hdr', slot') PROVE FALSE
    BY Zenon DEF RecoveryNeeded
  <2>1. PICK len \in 1 .. Base : hdr'.sum = Sum(hdr'.next, slot', len)
    BY Zenon DEF Valid
  <2>2. hdr.sum = Sum(TRUE, slot', len)
    BY <2>1, Zenon
  <2>3. hdr.sum.next = TRUE
    BY <2>2 DEF Sum
  <2>4. hdr.sum # NoSum
    <3>1. hdr' \in Header /\ slot' \in [LogSlots -> Slot]
      BY <1>1, Zenon DEF TypeOK
    <3>2. hdr'.sum # NoSum
      BY <3>1, NoSumIsInvalid, Zenon
    <3> QED
      BY <3>2, Zenon
  <2> QED
    BY <1>3, <2>3, <2>4, Zenon DEF RInv, HeaderInv
<1>5. HeaderInv' /\ DurableInv'
  BY <1>3 DEF RInv, HeaderInv, DurableInv, TypeOK
<1>6. torn' = 0 => hdr'.sum = NoSum
  BY Zenon DEF RInv, QuietInv, Quiet
<1>7. mem' = pre' /\ QueueOK'
  BY Zenon DEF RInv, ContentsInv, QueueOK
<1> QED
  BY <1>1, <1>2, <1>4, <1>5, <1>6, <1>7, Zenon DEF RInv, QuietInv, StoreInv, ContentsInv

(* operation_cancel keeps the invariant: the pool was not touched.         *)
LEMMA CancelKeeps == RInv /\ OperationCancel => RInv'
<1> SUFFICES ASSUME RInv, OperationCancel PROVE RInv'
  BY Zenon
<1> USE DEF OperationCancel, pmem, context
<1>1. TypeOK' /\ HeaderInv' /\ DurableInv'
  BY Zenon DEF RInv, TypeOK, HeaderInv, DurableInv
<1>2. ~RecoveryNeeded' /\ (torn' = 0 => hdr'.sum = NoSum)
  BY Zenon DEF RInv, QuietInv, Quiet, RecoveryNeeded
<1> QED
  BY <1>1, <1>2, Zenon DEF RInv, QuietInv, StoreInv, ContentsInv

(* While an operation fits in merge_entries, the entry an update is merged *)
(* into is the latest one of its word.                                     *)
LEMMA MergeHitsLatest ==
    ASSUME Premises, TypeOK, QueueOK, NEW u, NEW h \in MergeSlots(u)
    PROVE  /\ h \in 1 .. n
           /\ shadow[h].off = u.off /\ shadow[h].type = u.type
           /\ \A j \in h + 1 .. n : shadow[j].off # u.off
<1> USE RedoAssumption
<1>1. back \in Nat /\ front = 0 /\ back <= n /\ n \in Nat /\ n <= MergeSearch
  BY DEF Premises, TypeOK, QueueOK
<1>2. ASSUME NEW i \in 1 .. back PROVE Tracked(i) = n - back + i
  <2>1. i - 1 \in 0 .. back - 1 /\ i - 1 < MergeSearch
    BY <1>1
  <2>2. (i - 1) % MergeSearch = i - 1
    BY <2>1
  <2> QED
    BY <1>1, <2>1, <2>2 DEF Tracked, QueueOK
<1>3. PICK i \in Hits(u.off) : /\ h = Tracked(i)
                               /\ \A m \in Hits(u.off) : m <= i
                               /\ shadow[Tracked(i)].type = u.type
  BY Zenon DEF MergeSlots
<1>4. i \in 1 .. back /\ shadow[Tracked(i)].off = u.off
  BY <1>1, <1>3 DEF Hits
<1>5. h = n - back + i
  BY <1>2, <1>3, <1>4, Zenon
<1>6. ASSUME NEW j \in h + 1 .. n, shadow[j].off = u.off PROVE FALSE
  <2>1. j - (n - back) \in 1 .. back /\ j - (n - back) > i
    BY <1>1, <1>4, <1>5
  <2>2. Tracked(j - (n - back)) = j
    BY <1>1, <1>2, <2>1
  <2>3. j - (n - back) \in Hits(u.off)
    BY <1>1, <1>6, <2>1, <2>2 DEF Hits
  <2> QED
    BY <1>1, <1>3, <1>4, <2>1, <2>3
<1> QED
  BY <1>1, <1>3, <1>4, <1>5, <1>6

(* The update goes into the shadow log: into an entry, as a new entry, or  *)
(* as a new entry of a reallocated log.                                    *)
LEMMA ShadowMerge ==
    ASSUME Premises, TypeOK, ShadowOK, QueueOK, NEW u \in Updates, MergeEntry(u),
           post' = [post EXCEPT ![u.off] = Effect(u, post[u.off])],
           UNCHANGED <<mem, hdr>>
    PROVE  /\ shadow' \in [ShadowSlots -> Slot] /\ post' \in [Words -> Value]
           /\ ShadowOK' /\ QueueOK'
<1> USE RedoAssumption
<1>1. PICK h \in MergeSlots(u) :
         /\ shadow' = [shadow EXCEPT ![h] = MergedEntry(shadow[h], u)]
         /\ UNCHANGED <<n, cap, ring, front, back>>
  BY Zenon DEF MergeEntry
<1>2. /\ h \in 1 .. n
      /\ shadow[h].off = u.off /\ shadow[h].type = u.type
      /\ \A j \in h + 1 .. n : shadow[j].off # u.off
  BY MergeHitsLatest, Zenon
<1>3. n \in Nat /\ n <= MaxEntries /\ \A i \in 1 .. n + 1 : i \in ShadowSlots
  BY ShadowRange DEF TypeOK
<1>4. u \in Entry /\ shadow[h] \in Entry /\ \A i \in 1 .. n : shadow[i] \in Entry
  BY <1>2, Zenon DEF ShadowOK
<1>5. /\ MergedEntry(shadow[h], u) \in Entry
      /\ shadow' \in [ShadowSlots -> Slot]
      /\ shadow'[h] = MergedEntry(shadow[h], u)
      /\ \A i \in 1 .. n + 1 : i # h => shadow'[i] = shadow[i]
  BY <1>1, <1>2, <1>3, <1>4, MergedBit DEF TypeOK, Slot
<1>6. /\ post' \in [Words -> Value]
      /\ LastDecides(shadow', n, post') /\ Undecided(shadow', n, mem, post')
  <2>1. LastDecides(shadow, n, post) /\ Undecided(shadow, n, mem, post)
    BY Zenon DEF ShadowOK
  <2>2. post \in [Words -> Value] /\ \A i \in 1 .. n : i # h => shadow'[i] = shadow[i]
    BY <1>3, <1>5 DEF TypeOK
  <2> QED
    <3>1. Merged(shadow, shadow', n, h, u, mem, post, post')
      BY <1>2, <1>3, <1>4, <1>5, <2>1, <2>2, Zenon DEF Merged
    <3> QED
      BY <3>1, MergeKeeps, Zenon
<1>7. QueueOK'
  BY <1>1, Zenon DEF QueueOK
<1>8. \A i \in 1 .. n : shadow'[i] \in Entry
  BY <1>3, <1>4, <1>5
<1>9. n > 0 => shadow'[n + 1] = Zero
  BY <1>2, <1>3, <1>5 DEF ShadowOK
<1> QED
  BY <1>1, <1>5, <1>6, <1>7, <1>8, <1>9, Zenon DEF ShadowOK, Capacity

(* An appended entry acts after all entries of the shadow log.             *)
LEMMA ShadowAppend ==
    ASSUME Premises, TypeOK, ShadowOK, NEW u \in Updates,
           n < Capacity, n < MaxEntries, n' = n + 1,
           shadow'[n + 1] = u, shadow'[n + 2] = Zero,
           \A i \in 1 .. n : shadow'[i] = shadow[i],
           post' = [post EXCEPT ![u.off] = Effect(u, post[u.off])],
           UNCHANGED <<mem, hdr>>
    PROVE  post' \in [Words -> Value] /\ ShadowOK'
<1> USE RedoAssumption
<1>1. n \in Nat
  BY DEF TypeOK
<1>0. u \in Entry /\ \A i \in 1 .. n : shadow[i] \in Entry
  BY Zenon DEF ShadowOK
<1>2. /\ post' \in [Words -> Value]
      /\ LastDecides(shadow', n + 1, post') /\ Undecided(shadow', n + 1, mem, post')
  <2>1. LastDecides(shadow, n, post) /\ Undecided(shadow, n, mem, post)
    BY Zenon DEF ShadowOK
  <2>2. post \in [Words -> Value]
    BY Zenon DEF TypeOK
  <2> QED
    <3>1. Appended(shadow, shadow', n, u, mem, post, post')
      BY <1>0, <1>1, <2>1, <2>2, Zenon DEF Appended
    <3> QED
      BY <3>1, AppendKeeps, Zenon
<1>3. Capacity' = Capacity /\ Capacity \in Nat
  BY DEF Capacity, TypeOK
<1>4. \A i \in 1 .. n + 1 : shadow'[i] \in Entry
  BY <1>0, <1>1
<1>5. n + 1 <= Capacity /\ (n + 1) + 1 = n + 2
  BY <1>1, <1>3
<1> QED
  BY <1>2, <1>3, <1>4, <1>5, Zenon DEF ShadowOK

(* operation_add_entry keeps the invariant, merged or appended.            *)
LEMMA AddKeeps ==
    ASSUME Premises, RInv, NEW u \in Updates, OperationAddEntry(u)
    PROVE  RInv'
<1> USE RedoAssumption
<1>1. /\ pc = "build" /\ pc' = "build"
      /\ post' = [post EXCEPT ![u.off] = Effect(u, post[u.off])]
      /\ UNCHANGED <<mem, may, slot, slotMay, hdr, hdrMay, k, pre, outcome, torn>>
  BY Zenon DEF OperationAddEntry, pmem
<1>2. TypeOK /\ ShadowOK /\ QueueOK /\ mem = pre
  BY <1>1, Zenon DEF RInv, ContentsInv
<1>3. n \in Nat /\ cap \in Nat
  BY <1>2 DEF TypeOK
<1>4. u \in Slot /\ Zero \in Slot
  BY Zenon DEF Slot
<1>5. /\ shadow' \in [ShadowSlots -> Slot] /\ post' \in [Words -> Value]
      /\ n' \in 0 .. MaxEntries /\ cap' \in Nat
      /\ ring' \in [0 .. MergeSearch - 1 -> 0 .. MaxEntries]
      /\ front' \in Nat /\ back' \in Nat
      /\ ShadowOK' /\ QueueOK'
  <2>1. CASE MergeEntry(u)
    <3>1. UNCHANGED <<n, cap, ring, front, back>>
      BY <2>1, Zenon DEF MergeEntry
    <3>2. /\ shadow' \in [ShadowSlots -> Slot] /\ post' \in [Words -> Value]
          /\ ShadowOK' /\ QueueOK'
      BY <1>1, <1>2, <2>1, ShadowMerge, Zenon
    <3> QED
      BY <1>2, <3>1, <3>2, Zenon DEF TypeOK
  <2>2. CASE CreateEntry(u)
    <3> USE <2>2 DEF CreateEntry
    <3>0. shadow \in [ShadowSlots -> Slot] /\ \A i \in 1 .. n + 2 : i \in ShadowSlots
      BY <1>2, <1>3, ShadowRange DEF TypeOK
    <3>1. shadow' \in [ShadowSlots -> Slot] /\ shadow'[n + 1] = u /\ shadow'[n + 2] = Zero
      BY <1>3, <1>4, <3>0
    <3>2. \A i \in 1 .. n : shadow'[i] = shadow[i]
      BY <1>3, <3>0
    <3>3. post' \in [Words -> Value] /\ ShadowOK'
      BY <1>1, <1>2, <3>1, <3>2, ShadowAppend, Zenon
    <3>4. back \in Nat /\ front = 0 /\ back <= n /\ back < MergeSearch
      BY <1>2, <1>3 DEF TypeOK, QueueOK, Premises
    <3>5. back % MergeSearch = back /\ front' = 0 /\ back' = back + 1
      BY <3>4
    <3>6. /\ ring' \in [0 .. MergeSearch - 1 -> 0 .. MaxEntries]
          /\ \A p \in 0 .. back : ring'[p] = IF p = back THEN n + 1 ELSE ring[p]
      BY <1>2, <1>3, <3>4, <3>5 DEF TypeOK
    <3>7. QueueOK'
      <4>1. back' <= n'
        BY <1>3, <3>4, <3>5
      <4>2. ASSUME NEW p \in 0 .. back' - 1 PROVE ring'[p] = n' - back' + 1 + p
        <5>1. p \in 0 .. back /\ (p # back => p \in 0 .. back - 1)
          BY <3>4, <3>5, <4>2
        <5>2. p # back => ring[p] = n - back + 1 + p
          BY <1>2, <5>1, Zenon DEF QueueOK
        <5>3. ring'[p] = IF p = back THEN n + 1 ELSE ring[p]
          BY <3>6, <5>1, Zenon
        <5>4. n' = n + 1 /\ back' = back + 1 /\ p \in Int
          BY <3>5, <5>1
        <5> HIDE <2>2
        <5>5. CASE p = back
          BY <1>3, <3>4, <5>3, <5>4, <5>5
        <5>6. CASE p # back
          BY <1>3, <3>4, <5>2, <5>3, <5>4, <5>6
        <5> QED
          BY <5>5, <5>6, Zenon
      <4> QED
        BY <3>5, <4>1, <4>2, Zenon DEF QueueOK
    <3> QED
      BY SMTT(20), <1>3, <3>1, <3>3, <3>4, <3>5, <3>6, <3>7
  <2>3. CASE /\ n < Capacity /\ n < MaxEntries /\ cap' = cap + ShadowStep
             /\ n' = n + 1 /\ n + PerLine = cap
             /\ ring' = [ring EXCEPT ![0] = n + 1] /\ front' = 0 /\ back' = 1
             /\ \E junk \in Updates \cup {Zero} :
                   shadow' = [i \in ShadowSlots |->
                                CASE i = n + 1 -> u
                                  [] i = n + 2 -> Zero
                                  [] i > cap /\ i # n + 1 /\ i # n + 2 -> junk
                                  [] OTHER -> shadow[i]]
    <3>1. PICK junk \in Updates \cup {Zero} :
             shadow' = [i \in ShadowSlots |->
                          CASE i = n + 1 -> u
                            [] i = n + 2 -> Zero
                            [] i > cap /\ i # n + 1 /\ i # n + 2 -> junk
                            [] OTHER -> shadow[i]]
      BY <2>3, Zenon
    <3>2. junk \in Slot
      BY Zenon DEF Slot
    <3>3. ASSUME NEW i \in ShadowSlots
          PROVE  /\ i = n + 1 => shadow'[i] = u
                 /\ i = n + 2 => shadow'[i] = Zero
                 /\ i # n + 1 /\ i # n + 2 /\ i > cap => shadow'[i] = junk
                 /\ i # n + 1 /\ i # n + 2 /\ ~(i > cap) => shadow'[i] = shadow[i]
      BY SMTT(20), <1>3, <3>1 DEF ShadowSlots
    <3>4. \A i \in ShadowSlots : shadow'[i] \in Slot
      BY <1>2, <1>4, <3>2, <3>3, Zenon DEF TypeOK
    <3>5. shadow' \in [ShadowSlots -> Slot]
      BY <3>1, <3>4, Zenon
    <3>6. \A i \in 1 .. n + 2 : i \in ShadowSlots
      BY <1>3, <2>3, ShadowRange
    <3>7. \A i \in 1 .. n : i \in ShadowSlots /\ i # n + 1 /\ i # n + 2 /\ ~(i > cap)
      BY <1>3, <2>3, <3>6
    <3>8. /\ shadow'[n + 1] = u /\ shadow'[n + 2] = Zero
          /\ \A i \in 1 .. n : shadow'[i] = shadow[i]
      BY <1>3, <3>3, <3>6, <3>7
    <3>9. post' \in [Words -> Value] /\ ShadowOK'
      BY <1>1, <1>2, <2>3, <3>8, ShadowAppend, Zenon
    <3>10. ring' \in [0 .. MergeSearch - 1 -> 0 .. MaxEntries] /\ ring'[0] = n + 1
      <4>1. /\ ring \in [0 .. MergeSearch - 1 -> 0 .. MaxEntries]
            /\ ring' = [ring EXCEPT ![0] = n + 1]
        BY <1>2, <2>3, Zenon DEF TypeOK
      <4>2. n + 1 \in 0 .. MaxEntries /\ 0 \in 0 .. MergeSearch - 1
        BY <1>3, <2>3
      <4> QED
        BY <4>1, <4>2, Zenon
    <3>11. /\ n' = n + 1 /\ n < MaxEntries /\ front' = 0 /\ back' = 1
           /\ cap' = cap + ShadowStep
      BY <2>3, Zenon
    <3> HIDE <2>3
    <3>12. QueueOK'
      BY <1>3, <3>10, <3>11 DEF QueueOK
    <3> QED
      BY <1>3, <3>5, <3>9, <3>10, <3>11, <3>12
  <2> QED
    BY <2>1, <2>2, <2>3, Zenon DEF OperationAddEntry
<1>6. TypeOK'
  BY <1>1, <1>2, <1>5, Zenon DEF TypeOK
<1>7. ~RecoveryNeeded' /\ (torn' = 0 => hdr'.sum = NoSum)
  BY <1>1, Zenon DEF RInv, QuietInv, Quiet, RecoveryNeeded
<1>8. HeaderInv' /\ DurableInv'
  BY <1>1, Zenon DEF RInv, HeaderInv, DurableInv
<1> QED
  BY <1>1, <1>2, <1>5, <1>6, <1>7, <1>8, Zenon DEF RInv, QuietInv, StoreInv, ContentsInv

-----------------------------------------------------------------------------
\* operation_finish and ulog_process.

(* With CLFLUSH an entry that was applied and flushed is durable.          *)
LEMMA ApplyDurable ==
    ASSUME Premises, TypeOK, \A w \in Words : may[w] = {mem[w]},
           NEW e \in Entry, Apply(e)
    PROVE  /\ mem' = [mem EXCEPT ![e.off] = Effect(e, mem[e.off])]
           /\ mem' \in [Words -> Value] /\ may' \in [Words -> SUBSET Value]
           /\ \A w \in Words : may'[w] = {mem'[w]}
<1> DEFINE x == Effect(e, mem[e.off])
<1>1. mem \in [Words -> Value] /\ may \in [Words -> SUBSET Value]
  BY Zenon DEF TypeOK
<1>2. e.off \in Words /\ x \in Value
  BY <1>1, EffectBit, Zenon DEF Entry
<1>3. mem' = [mem EXCEPT ![e.off] = x] /\ may' = [may EXCEPT ![e.off] = {x}]
  BY Zenon DEF Apply, Stored, Premises
<1> HIDE DEF x
<1>4. /\ mem' \in [Words -> Value] /\ may' \in [Words -> SUBSET Value]
      /\ \A w \in Words : may'[w] = {mem'[w]}
  BY <1>1, <1>2, <1>3, Zenon
<1> QED
  BY <1>3, <1>4, Zenon DEF x

(* operation_finish of an empty context keeps the invariant.               *)
LEMMA EmptyKeeps == RInv /\ FinishEmpty => RInv'
<1> SUFFICES ASSUME RInv, FinishEmpty PROVE RInv'
  BY Zenon
<1> USE DEF FinishEmpty, pmem, context
<1>1. TypeOK' /\ HeaderInv' /\ DurableInv'
  BY Zenon DEF RInv, TypeOK, HeaderInv, DurableInv
<1>2. ~RecoveryNeeded' /\ (torn' = 0 => hdr'.sum = NoSum)
  BY Zenon DEF RInv, QuietInv, Quiet, RecoveryNeeded
<1>3. mem = post
  <2>1. Undecided(shadow, 0, mem, post)
    BY Zenon DEF RInv, ContentsInv, ShadowOK
  <2>2. ToCome(shadow, 0, mem, post, 0 + 1)
    BY <2>1, WalkStarts
  <2> QED
    BY <2>2, WalkEnds, Zenon DEF RInv, TypeOK
<1> QED
  BY <1>1, <1>2, <1>3, Zenon DEF RInv, QuietInv, StoreInv, ContentsInv

(* The shortcut for one entry keeps the invariant: one word, applied       *)
(* directly.                                                               *)
LEMMA SingleKeeps == Premises /\ RInv /\ FinishSingle => RInv'
<1> SUFFICES ASSUME Premises, RInv, FinishSingle PROVE RInv'
  BY Zenon
<1> USE DEF FinishSingle, context, history
<1>1. TypeOK /\ ShadowOK /\ shadow[1] \in Entry /\ \A w \in Words : may[w] = {mem[w]}
  BY DEF RInv, ContentsInv, ShadowOK, DurableInv
<1>2. /\ mem' = [mem EXCEPT ![shadow[1].off] = Effect(shadow[1], mem[shadow[1].off])]
      /\ mem' \in [Words -> Value] /\ may' \in [Words -> SUBSET Value]
      /\ \A w \in Words : may'[w] = {mem'[w]}
  BY <1>1, ApplyDurable, Zenon
<1>3. mem' = post'
  <2>1. Undecided(shadow, 1, mem, post) /\ LastDecides(shadow, 1, post)
    BY <1>1, Zenon DEF ShadowOK
  <2>2. ToCome(shadow, 1, mem, post, 1)
    BY <2>1, WalkStarts, Zenon
  <2>3. Applied(shadow, 1, 1, mem, post, mem')
    BY <1>1, <1>2, <2>1, <2>2 DEF Applied, TypeOK
  <2>4. ToCome(shadow, 1, mem', post, 1 + 1)
    BY <2>3, ApplyKeeps, Zenon
  <2>5. post \in [Words -> Value]
    BY <1>1, Zenon DEF TypeOK
  <2>6. mem' = post
    BY <1>2, <2>4, <2>5, WalkEnds, Zenon
  <2> QED
    BY <2>6, Zenon
<1>4. TypeOK' /\ HeaderInv' /\ DurableInv'
  BY <1>1, <1>2, Zenon DEF RInv, TypeOK, HeaderInv, DurableInv
<1>5. ~RecoveryNeeded' /\ (torn' = 0 => hdr'.sum = NoSum)
  BY Zenon DEF RInv, QuietInv, Quiet, RecoveryNeeded
<1> QED
  BY <1>3, <1>4, <1>5, Zenon DEF RInv, QuietInv, StoreInv, ContentsInv

(* The drain of the one word applied directly keeps the invariant.         *)
LEMMA SingleDrainKeeps == RInv /\ SingleDrain => RInv'
<1> SUFFICES ASSUME RInv, SingleDrain PROVE RInv'
  BY Zenon
<1> USE DEF SingleDrain, context, DrainWords
<1>1. TypeOK' /\ HeaderInv' /\ DurableInv'
  BY Zenon DEF RInv, TypeOK, HeaderInv, DurableInv
<1>2. ~RecoveryNeeded' /\ (torn' = 0 => hdr'.sum = NoSum)
  BY Zenon DEF RInv, QuietInv, Quiet, RecoveryNeeded
<1> QED
  BY <1>1, <1>2, Zenon DEF RInv, QuietInv, StoreInv, ContentsInv

(* The copies of ulog_store keep the log's types and touch only their      *)
(* range.                                                                  *)
LEMMA CopyFacts ==
    ASSUME TypeOK, NEW first \in Int, NEW last \in Int,
           last <= CopySlots(MaxEntries), CopyToLog(first, last)
    PROVE  /\ slot' \in [LogSlots -> Slot] /\ slotMay' \in [LogSlots -> SUBSET Slot]
           /\ \A i \in LogSlots :
                 IF i \in first .. last
                   THEN slot'[i] = shadow[i]
                   ELSE slot'[i] = slot[i] /\ slotMay'[i] = slotMay[i]
<1>1. CopySlots(MaxEntries) \in Nat /\ Base \in Nat /\ Ext \in Nat
  BY RedoAssumption, CopySlotsFacts, Zenon
<1> HIDE DEF CopySlots
<1>2. /\ slot \in [LogSlots -> Slot] /\ slotMay \in [LogSlots -> SUBSET Slot]
      /\ shadow \in [ShadowSlots -> Slot]
  BY Zenon DEF TypeOK
<1>3. \A i \in LogSlots : i \in first .. last => shadow[i] \in Slot
  BY <1>1, <1>2 DEF LogSlots, ShadowSlots
<1> QED
  BY <1>2, <1>3, Zenon DEF CopyToLog

(* More entries take more slots, and all of them fit in the shadow log.    *)
LEMMA CopyRange ==
    ASSUME TypeOK
    PROVE  /\ CopySlots(n) \in Nat /\ n + 1 <= CopySlots(n)
           /\ CopySlots(n) <= CopySlots(MaxEntries) /\ CopySlots(MaxEntries) \in Nat
<1>1. n \in Nat /\ MaxEntries \in Nat /\ n <= MaxEntries
  BY RedoAssumption DEF TypeOK
<1> QED
  BY <1>1, CopySlotsFacts, Zenon

(* The copy to the extension keeps the invariant: the lane's log is still  *)
(* invalid.                                                                *)
LEMMA ExtensionKeeps == RInv /\ StoreExtension => RInv'
<1> SUFFICES ASSUME RInv, StoreExtension PROVE RInv'
  BY Zenon
<1> USE RedoAssumption DEF StoreExtension, context, history
<1> HIDE DEF CopySlots
<1>1. TypeOK /\ ShadowOK /\ mem = pre
  BY Zenon DEF RInv, ContentsInv
<1>2. /\ CopySlots(n) \in Nat /\ n + 1 <= CopySlots(n)
      /\ CopySlots(n) <= CopySlots(MaxEntries) /\ CopySlots(MaxEntries) \in Nat
  BY <1>1, CopyRange, Zenon
<1>3. /\ slot' \in [LogSlots -> Slot] /\ slotMay' \in [LogSlots -> SUBSET Slot]
      /\ \A i \in LogSlots :
            IF i \in Base + 1 .. CopySlots(n)
              THEN slot'[i] = shadow[i]
              ELSE slot'[i] = slot[i] /\ slotMay'[i] = slotMay[i]
  <2>1. Base + 1 \in Int /\ CopySlots(n) \in Int /\ CopyToLog(Base + 1, CopySlots(n))
    BY <1>2
  <2> QED
    BY <1>1, <1>2, <2>1, CopyFacts, Zenon
<1>4. TypeOK'
  BY <1>1, <1>3, Zenon DEF TypeOK
<1>5. HeaderInv'
  BY Zenon DEF RInv, HeaderInv
<1>6. DurableInv'
  BY <1>3 DEF RInv, DurableInv, LogSlots
<1>7. ~RecoveryNeeded' /\ (torn' = 0 => hdr'.sum = NoSum)
  <2>1. \A i \in 1 .. Base : slot'[i] = slot[i]
    BY <1>3 DEF LogSlots
  <2>2. ~Valid(hdr, slot) /\ (torn = 0 => hdr.sum = NoSum)
    BY Zenon DEF RInv, QuietInv, Quiet, RecoveryNeeded
  <2>3. ~Valid(hdr, slot')
    BY <2>1, <2>2, ValidInLane, Zenon
  <2> QED
    BY <2>2, <2>3, Zenon DEF RecoveryNeeded
<1>8. StoreInv'
  BY <1>2, <1>3 DEF StoreInv, HasRoom, Capacity, LogSlots
<1>9. ShadowOK'
  BY <1>1, Zenon DEF ShadowOK, Capacity
<1> QED
  BY <1>1, <1>4, <1>5, <1>6, <1>7, <1>8, <1>9, Zenon DEF RInv, QuietInv, ContentsInv

(* The drain of the extension keeps the invariant.                         *)
LEMMA ExtensionDrainKeeps == RInv /\ ExtensionDrain => RInv'
<1> SUFFICES ASSUME RInv, ExtensionDrain PROVE RInv'
  BY Zenon
<1> USE DEF ExtensionDrain, context, history, DrainSlots
<1>1. TypeOK' /\ HeaderInv' /\ DurableInv'
  BY DEF RInv, TypeOK, HeaderInv, DurableInv
<1>2. ~RecoveryNeeded' /\ (torn' = 0 => hdr'.sum = NoSum)
  BY Zenon DEF RInv, QuietInv, Quiet, RecoveryNeeded
<1>3. StoreInv'
  BY Zenon DEF RInv, StoreInv, HasRoom, Capacity
<1>4. ShadowOK' /\ mem' = pre'
  BY Zenon DEF RInv, ContentsInv, ShadowOK, Capacity
<1> QED
  BY <1>1, <1>2, <1>3, <1>4, Zenon DEF RInv, QuietInv, ContentsInv

(* Header and entries go to the lane: the log is complete once this copy   *)
(* is durable.                                                             *)
LEMMA StoreBaseKeeps == RInv /\ StoreBase => RInv'
<1> SUFFICES ASSUME RInv, StoreBase PROVE RInv'
  BY Zenon
<1> USE RedoAssumption
<1> HIDE DEF CopySlots
<1> DEFINE last == IF CopySlots(n) < Base THEN CopySlots(n) ELSE Base
<1>1. /\ pc \in {"build", "base"} /\ pc' = "stored" /\ n > 1
      /\ CopySlots(n) <= Capacity
      /\ pc = "build" => CopySlots(n) <= Base
      /\ CopyToLog(1, last)
      /\ hdr' = [next |-> hdr.next, sum |-> Sum(hdr.next, shadow, InLane)]
      /\ hdrMay' = hdrMay \cup {hdr'}
      /\ UNCHANGED <<mem, may, shadow, n, cap, ring, front, back, k, pre, post, outcome, torn>>
  <2>1. TypeOK /\ CopySlots(n) \in Nat /\ Base <= Capacity /\ Capacity \in Nat
    BY CopyRange, CapacityFacts, Zenon DEF RInv
  <2>2. pc = "base" => n > 1 /\ CopySlots(n) <= Capacity
    BY Zenon DEF RInv, StoreInv, HasRoom
  <2> QED
    BY <2>1, <2>2 DEF StoreBase, context, history, InLane
<1>2. TypeOK /\ ShadowOK /\ mem = pre /\ hdrMay = {hdr}
  BY <1>1, Zenon DEF RInv, ContentsInv, DurableInv
<1>3. /\ CopySlots(n) \in Nat /\ n + 1 <= CopySlots(n) /\ n \in Nat
      /\ CopySlots(n) <= CopySlots(MaxEntries) /\ CopySlots(MaxEntries) \in Nat
  BY <1>2, CopyRange DEF TypeOK
<1>4. last \in Int /\ last <= CopySlots(MaxEntries) /\ last <= Base /\ last <= CopySlots(n)
  BY <1>3
<1>5. /\ slot' \in [LogSlots -> Slot] /\ slotMay' \in [LogSlots -> SUBSET Slot]
      /\ \A i \in LogSlots :
            IF i \in 1 .. last
              THEN slot'[i] = shadow[i]
              ELSE slot'[i] = slot[i] /\ slotMay'[i] = slotMay[i]
  <2>1. CopyToLog(1, last)
    BY <1>1, Zenon
  <2> HIDE DEF last
  <2> QED
    BY <1>2, <1>4, <2>1, CopyFacts
<1>6. InLane \in 1 .. Base /\ InLane <= n
  BY <1>1, <1>3 DEF InLane
<1>7. hdr' \in Header
  <2>1. \A i \in 1 .. InLane : shadow[i] \in Entry
    BY <1>2, <1>3, <1>6 DEF ShadowOK
  <2>2. [i \in 1 .. InLane |-> shadow[i]] \in [1 .. InLane -> Entry]
    BY <2>1, Zenon
  <2>3. hdr.next \in BOOLEAN
    BY <1>2, Zenon DEF TypeOK, Header
  <2>4. Sum(hdr.next, shadow, InLane) \in Sums
    BY <1>6, <2>2, <2>3, Zenon DEF Sum, Sums
  <2> QED
    BY <1>1, <2>3, <2>4, Zenon DEF Header
<1>8. TypeOK'
  BY <1>1, <1>2, <1>5, <1>7, Zenon DEF TypeOK
<1>9. HeaderInv'
  <2>1. hdr'.next = hdr.next /\ hdr'.sum.next = hdr.next
    BY <1>1, Zenon DEF Sum
  <2> QED
    BY <1>1, <1>2, <2>1, Zenon DEF RInv, HeaderInv
<1>10. DurableInv'
  <2>1. \A i \in LogSlots : i > Base => slotMay'[i] = {slot'[i]}
    <3>1. \A i \in LogSlots : i > Base => slotMay[i] = {slot[i]}
      BY <1>1, Zenon DEF RInv, DurableInv
    <3> QED
      BY <1>1, <1>4, <1>5, <3>1 DEF LogSlots
  <2> QED
    BY <1>1, <1>2, <2>1, Zenon DEF RInv, DurableInv
<1>11. \A i \in 1 .. n + 1 : slot'[i] = shadow[i]
  <2> TAKE i \in 1 .. n + 1
  <2>1. i <= CopySlots(n) /\ i \in Nat /\ i >= 1 /\ Capacity <= Base + Ext /\ Capacity \in Nat
    BY <1>2, <1>3, CapacityFacts
  <2>2. i \in LogSlots
    BY <1>1, <1>3, <2>1 DEF LogSlots
  <2>3. CASE i <= Base
    BY <1>5, <2>1, <2>2, <2>3
  <2>4. CASE i > Base
    <3>1. pc = "base" /\ i \notin 1 .. last
      BY SMTT(20), <1>1, <1>3, <1>4, <2>1, <2>4
    <3> QED
      BY <1>5, <2>1, <2>2, <2>4, <3>1, Zenon DEF RInv, StoreInv
  <2> QED
    BY <2>1, <2>3, <2>4
<1>12. LogIs(hdr)'
  <2>1. n + 1 <= Capacity
    BY <1>1, <1>2, <1>3, CapacityFacts
  <2>2. shadow[n + 1] = Zero
    BY <1>1, <1>2, <1>3 DEF ShadowOK
  <2>3. \A i \in 1 .. n : slot'[i] = shadow[i]
    BY <1>3, <1>11
  <2>4. slot'[n + 1] = Zero
    BY <1>3, <1>11, <2>2
  <2>5. hdr'.sum = Sum(hdr'.next, shadow, InLane) /\ Capacity' = Capacity /\ InLane' = InLane
    BY <1>1, Zenon DEF Capacity, InLane
  <2> QED
    BY <1>1, <1>3, <2>1, <2>3, <2>4, <2>5 DEF LogIs
<1>13. StoreInv'
  <2>1. torn = 0 => hdr.sum = NoSum
    BY <1>1, Zenon DEF RInv, QuietInv, Quiet
  <2> QED
    BY <1>1, <1>2, <1>12, <2>1, Zenon DEF StoreInv
<1>14. ShadowOK'
  BY <1>1, <1>2, Zenon DEF ShadowOK, Capacity
<1> QED
  BY <1>1, <1>2, <1>8, <1>9, <1>10, <1>13, <1>14, Zenon DEF RInv, QuietInv, Quiet, ContentsInv

(* The drain of the lane's log makes the whole log durable and valid.      *)
LEMMA StoreDrainKeeps == RInv /\ StoreDrain => RInv'
<1> SUFFICES ASSUME RInv, StoreDrain PROVE RInv'
  BY Zenon
<1> USE RedoAssumption DEF StoreDrain, context, history, DrainSlots
<1>1. TypeOK'
  BY DEF RInv, TypeOK
<1>2. HeaderInv' /\ DurableInv'
  BY Zenon DEF RInv, HeaderInv, DurableInv
<1>3. ShadowOK'
  BY Zenon DEF RInv, ContentsInv, ShadowOK, Capacity
<1>4. LogIs(hdr)'
  BY Zenon DEF RInv, StoreInv, LogIs, Capacity, InLane
<1>5. k' <= n' + 1
  BY DEF RInv, TypeOK
<1>6. ToCome(shadow, n, mem, post, 1)
  BY WalkStarts DEF RInv, ContentsInv, ShadowOK, TypeOK
<1> QED
  BY <1>1, <1>2, <1>3, <1>4, <1>5, <1>6, Zenon DEF RInv, QuietInv, Quiet, StoreInv, ContentsInv

(* The walk sees the shadow log's entries, in the lane and beyond.         *)
LEMMA WalkSees ==
    ASSUME RInv, pc \in {"apply", "recover"}
    PROVE  /\ n \in Nat /\ n > 0 /\ k \in Nat /\ 1 <= k /\ k <= n + 1
           /\ CurrentEntry = shadow[k]
           /\ CurrentEntry = Zero <=> k = n + 1
           /\ k <= n => shadow[k] \in Entry
<1> USE RedoAssumption
<1>1. TypeOK /\ ShadowOK /\ LogIs(hdr) /\ k <= n + 1
  BY Zenon DEF RInv, ContentsInv
<1>2. n \in Nat /\ n > 0 /\ k \in Nat /\ 1 <= k /\ n + 1 <= Capacity /\ Capacity \in Nat
  BY <1>1, CapacityFacts DEF TypeOK, LogIs
<1>3. shadow[n + 1] = Zero /\ slot[n + 1] = Zero /\ \A i \in 1 .. n : slot[i] = shadow[i]
  BY <1>1, <1>2, Zenon DEF ShadowOK, LogIs
<1>4. slot[k] = shadow[k]
  BY <1>1, <1>2, <1>3
<1>5. CurrentEntry = shadow[k]
  <2>1. ~(k > Capacity)
    BY <1>1, <1>2
  <2> QED
    BY <1>4, <2>1, Zenon DEF CurrentEntry
<1>6. k <= n => shadow[k] \in Entry
  BY <1>1, <1>2 DEF ShadowOK
<1> QED
  BY <1>1, <1>2, <1>3, <1>5, <1>6

(* Applying the next entry keeps the invariant: the log stays valid.       *)
LEMMA ProcessKeeps == Premises /\ RInv /\ ProcessEntry => RInv'
<1> SUFFICES ASSUME Premises, RInv, ProcessEntry PROVE RInv'
  BY Zenon
<1>0. /\ pc \in {"apply", "recover"} /\ CurrentEntry # Zero /\ Apply(CurrentEntry)
      /\ k' = k + 1 /\ slot' = slot /\ slotMay' = slotMay /\ hdr' = hdr
      /\ hdrMay' = hdrMay /\ shadow' = shadow /\ n' = n /\ cap' = cap /\ ring' = ring
      /\ front' = front /\ back' = back /\ pc' = pc /\ pre' = pre /\ post' = post
      /\ outcome' = outcome /\ torn' = torn
  BY Zenon DEF ProcessEntry, context, history
<1>1. /\ n \in Nat /\ n > 0 /\ k \in 1 .. n
      /\ CurrentEntry = shadow[k] /\ shadow[k] \in Entry
  BY <1>0, WalkSees
<1>2. /\ TypeOK /\ ShadowOK /\ LogIs(hdr) /\ ToCome(shadow, n, mem, post, k)
      /\ \A w \in Words : may[w] = {mem[w]}
  BY <1>0, Zenon DEF RInv, ContentsInv, DurableInv
<1>3. /\ mem' = [mem EXCEPT ![shadow[k].off] = Effect(shadow[k], mem[shadow[k].off])]
      /\ mem' \in [Words -> Value] /\ may' \in [Words -> SUBSET Value]
      /\ \A w \in Words : may'[w] = {mem'[w]}
  BY <1>0, <1>1, <1>2, ApplyDurable, Zenon
<1>4. Undecided(shadow, n, mem', post) /\ ToCome(shadow, n, mem', post, k + 1)
  <2>1. Applied(shadow, n, k, mem, post, mem')
    BY <1>1, <1>2, <1>3, Zenon DEF Applied, TypeOK, ShadowOK
  <2> QED
    BY <2>1, ApplyKeeps, Zenon
<1>5. k' \in 1 .. Base + Ext + 1 /\ k' <= n' + 1
  BY <1>0, <1>1, <1>2, CapacityFacts, RedoAssumption DEF LogIs
<1>6. TypeOK'
  BY <1>0, <1>2, <1>3, <1>5, Zenon DEF TypeOK
<1>7. HeaderInv' /\ DurableInv'
  BY <1>0, <1>3, Zenon DEF RInv, HeaderInv, DurableInv
<1>8. ShadowOK' /\ LogIs(hdr)'
  BY <1>0, <1>2, <1>4, Zenon DEF ShadowOK, LogIs, Capacity, InLane
<1> QED
  BY <1>0, <1>4, <1>5, <1>6, <1>7, <1>8, Zenon DEF RInv, QuietInv, Quiet, StoreInv, ContentsInv

(* ulog_clobber keeps the invariant: all entries are applied by then.      *)
LEMMA ClobberKeeps == RInv /\ Clobber => RInv'
<1> SUFFICES ASSUME RInv, Clobber PROVE RInv'
  BY Zenon
<1> USE RedoAssumption DEF Clobber, context, history
<1>1. n \in Nat /\ k = n + 1
  BY WalkSees, Zenon
<1>2. TypeOK /\ ShadowOK /\ LogIs(hdr) /\ ToCome(shadow, n, mem, post, n + 1)
  BY <1>1, Zenon DEF RInv, ContentsInv
<1>3. mem = post
  BY <1>1, <1>2, WalkEnds, Zenon DEF TypeOK
<1>4. hdr' \in Header /\ hdr'.sum = NoSum /\ hdr'.next = hdr.next /\ hdrMay = {hdr}
  BY <1>2, Zenon DEF TypeOK, Header, RInv, DurableInv
<1>5. TypeOK'
  BY <1>2, <1>4, Zenon DEF TypeOK
<1>6. HeaderInv' /\ DurableInv'
  BY <1>4, Zenon DEF RInv, HeaderInv, DurableInv
<1>7. ShadowOK'
  BY <1>2, <1>4, Zenon DEF ShadowOK, Capacity
<1>8. \A h \in hdrMay' : h.sum # NoSum => LogIs(h)'
  <2>1. \A h \in hdrMay' : h.sum # NoSum => h = hdr
    BY <1>4, Zenon
  <2>2. Capacity' = Capacity /\ InLane' = InLane
    BY <1>4, Zenon DEF Capacity, InLane
  <2> QED
    BY <1>2, <2>1, <2>2, Zenon DEF LogIs
<1> QED
  BY <1>3, <1>4, <1>5, <1>6, <1>7, <1>8, Zenon DEF RInv, QuietInv, Quiet, StoreInv, ContentsInv

(* The drain of the clobbered header ends the operation.                   *)
LEMMA ClobberDrainKeeps == RInv /\ ClobberDrain => RInv'
<1> SUFFICES ASSUME RInv, ClobberDrain PROVE RInv'
  BY Zenon
<1> USE DEF ClobberDrain, context, DrainWords
<1>1. TypeOK' /\ HeaderInv' /\ DurableInv'
  BY Zenon DEF RInv, TypeOK, HeaderInv, DurableInv
<1>2. mem' = post' /\ hdr'.sum = NoSum
  BY Zenon DEF RInv, ContentsInv
<1>3. ~RecoveryNeeded'
  BY <1>1, <1>2, NoSumIsInvalid, Zenon DEF RecoveryNeeded, TypeOK
<1> QED
  BY <1>1, <1>2, <1>3, Zenon DEF RInv, QuietInv, StoreInv, ContentsInv

\* Crashes and recovery.

(* Whatever a crash interrupts, the words are as the program last saw them *)
(* and what is left is durable.                                            *)
LEMMA DieFacts ==
    ASSUME Premises, RInv, Die, torn' \in 0 .. MaxTornStores
    PROVE  /\ TypeOK' /\ HeaderInv' /\ DurableInv'
           /\ pc' = "down" /\ mem' = mem /\ UNCHANGED <<context, k, history>>
           /\ hdr' \in hdrMay /\ hdr'.next = hdr.next
           /\ \A i \in LogSlots :
                 /\ slot'[i] \in slotMay[i]
                 /\ i <= Base /\ pc # "stored" => slot'[i] = slot[i]
                 /\ i > Base /\ pc # "ext" => slot'[i] = slot[i]
<1> USE RedoAssumption
<1>1. /\ mem \in [Words -> Value] /\ may \in [Words -> SUBSET Value]
      /\ slotMay \in [LogSlots -> SUBSET Slot] /\ hdrMay \subseteq Header
  BY Zenon DEF RInv, TypeOK
<1>2. mem' = mem
  <2>1. DOMAIN may = Words /\ \A w \in Words : may[w] = {mem[w]}
    BY <1>1, Zenon DEF RInv, DurableInv
  <2>2. mem' \in Pick(may)
    BY Zenon DEF Die
  <2> QED
    BY <1>1, <2>1, <2>2, PickDurable, Zenon
<1>3. slot' \in [LogSlots -> Slot] /\ \A i \in LogSlots : slot'[i] \in slotMay[i]
  <2>1. slot' \in Pick(slotMay)
    BY Zenon DEF Die
  <2> QED
    BY <1>1, <2>1, PickMember, Zenon
<1>4. \A i \in LogSlots : /\ i <= Base /\ pc # "stored" => slot'[i] = slot[i]
                          /\ i > Base /\ pc # "ext" => slot'[i] = slot[i]
  BY <1>3, Zenon DEF RInv, DurableInv
<1>5. hdr' \in hdrMay /\ hdr' \in Header /\ hdr'.next = hdr.next
  BY <1>1, Zenon DEF Die, RInv, HeaderInv
<1>6. TypeOK'
  BY <1>1, <1>2, <1>3, <1>5, Zenon DEF Die, RInv, TypeOK, context, history
<1>7. HeaderInv'
  BY <1>5, Zenon DEF Die, RInv, HeaderInv
<1>8. DurableInv'
  BY Zenon DEF Die, DurableInv
<1> QED
  BY <1>2, <1>3, <1>4, <1>5, <1>6, <1>7, <1>8, Zenon DEF Die

(* A complete log is found by the recovery.                                *)
LEMMA CompleteIsValid ==
    ASSUME TypeOK, ShadowOK, NEW h, LogIs(h)
    PROVE  Valid(h, slot)
<1> USE RedoAssumption
<1>1. InLane \in 1 .. Base /\ InLane <= n /\ n \in Nat
  BY DEF TypeOK, LogIs, InLane
<1>2. h.sum = Sum(h.next, shadow, InLane)
  BY Zenon DEF LogIs
<1>3. \A i \in 1 .. InLane : slot[i] = shadow[i] /\ slot[i] # Zero
  BY <1>1 DEF LogIs, ShadowOK
<1>4. InLane < Base => slot[InLane + 1] = Zero
  BY <1>1 DEF LogIs, InLane
<1> QED
  BY <1>1, <1>2, <1>3, <1>4, HoldsValid

(* A crash while the log is not in use leaves no log.                      *)
LEMMA QuietCrash ==
    ASSUME Premises, RInv, pc \in Quiet, Die, torn' = torn
    PROVE  RInv' /\ ~RecoveryNeeded' /\ mem' = mem
<1>1. torn' \in 0 .. MaxTornStores
  BY Zenon DEF RInv, TypeOK
<1>2. /\ TypeOK' /\ HeaderInv' /\ DurableInv'
      /\ pc' = "down" /\ mem' = mem /\ UNCHANGED <<context, k, history>>
      /\ hdr' \in hdrMay
      /\ \A i \in LogSlots : i <= Base /\ pc # "stored" => slot'[i] = slot[i]
  BY <1>1, DieFacts, Zenon
<1>3. hdr' = hdr
  BY <1>2, Zenon DEF RInv, DurableInv, Quiet
<1>4. \A i \in 1 .. Base : slot'[i] = slot[i]
  BY <1>2, RedoAssumption DEF LogSlots, Quiet
<1>5. ~Valid(hdr, slot) /\ (torn = 0 => hdr.sum = NoSum)
  BY Zenon DEF RInv, QuietInv, RecoveryNeeded
<1>6. ~Valid(hdr, slot')
  BY <1>4, <1>5, ValidInLane, Zenon
<1>7. ~RecoveryNeeded' /\ (torn' = 0 => hdr'.sum = NoSum)
  BY <1>3, <1>5, <1>6, Zenon DEF RecoveryNeeded
<1>8. mem' \in {pre', post'}
  <2>1. mem \in {pre, post}
    BY Zenon DEF RInv, ContentsInv, Quiet
  <2> QED
    BY <1>2, <2>1, Zenon DEF history
<1> QED
  BY <1>2, <1>7, <1>8, Zenon DEF RInv, QuietInv, Quiet, StoreInv, ContentsInv

(* A crash in ulog_store leaves the whole log or none, because the header  *)
(* that is not the new one is an invalidated one.                          *)
LEMMA StoreCrash ==
    ASSUME Premises, RInv, pc = "stored", Crash
    PROVE  RInv' /\ mem' = mem
<1> USE RedoAssumption
<1>1. torn = 0 /\ torn' = 1 /\ torn' \in 0 .. MaxTornStores /\ Die
  BY DEF Crash, Premises, RInv, TypeOK
<1>2. /\ TypeOK' /\ HeaderInv' /\ DurableInv'
      /\ pc' = "down" /\ mem' = mem /\ UNCHANGED <<context, k, history>>
      /\ hdr' \in hdrMay /\ hdr'.next = hdr.next
      /\ \A i \in LogSlots : i > Base => slot'[i] = slot[i]
  BY <1>1, DieFacts, Zenon
<1>3. TypeOK /\ ShadowOK /\ LogIs(hdr) /\ mem = pre
  BY Zenon DEF RInv, StoreInv, ContentsInv
<1>4. ShadowOK'
  BY <1>2, <1>3, Zenon DEF ShadowOK, Capacity, context, history
<1>5. ASSUME RecoveryNeeded' PROVE LogIs(hdr)'
  <2>1. hdr'.sum # NoSum
    BY <1>2, <1>5, NoSumIsInvalid, Zenon DEF TypeOK, RecoveryNeeded
  <2>2. hdr' = hdr
    BY <1>1, <1>2, <2>1, Zenon DEF RInv, StoreInv
  <2>3. InLane \in 1 .. Base /\ n \in Nat /\ n > 0 /\ n + 1 <= Capacity
          /\ Capacity \in Nat /\ Capacity <= Base + Ext
    BY SMTT(20), <1>3, CapacityFacts DEF TypeOK, LogIs, InLane
  <2>4. hdr.sum = Sum(hdr.next, shadow, InLane) /\ Valid(hdr, slot')
    BY <1>3, <1>5, <2>2, Zenon DEF LogIs, RecoveryNeeded
  <2>5. /\ \A i \in 1 .. InLane : slot'[i] = shadow[i]
        /\ InLane < Base => slot'[InLane + 1] = Zero
    BY <2>3, <2>4, ValidHolds
  <2>6. \A i \in 1 .. n : slot'[i] = shadow[i]
    <3> TAKE i \in 1 .. n
    <3>1. CASE i <= Base
      BY <2>3, <2>5, <3>1 DEF InLane
    <3>2. CASE i > Base
      BY <1>2, <1>3, <2>3, <3>2 DEF LogIs, LogSlots
    <3> QED
      BY <2>3, <3>1, <3>2
  <2>7. slot'[n + 1] = Zero
    <3>1. CASE n < Base
      BY <2>3, <2>5, <3>1, Zenon DEF InLane
    <3>2. CASE n >= Base
      BY <1>2, <1>3, <2>3, <3>2 DEF LogIs, LogSlots
    <3> QED
      BY <2>3, <3>1, <3>2
  <2>8. Capacity' = Capacity /\ InLane' = InLane /\ shadow' = shadow /\ n' = n
    BY <1>2, Zenon DEF Capacity, InLane, context
  <2> QED
    BY <2>2, <2>3, <2>4, <2>6, <2>7, <2>8, Zenon DEF LogIs
<1>6. mem' = pre'
  BY <1>2, <1>3, Zenon DEF history
<1>7. QuietInv' /\ StoreInv'
  BY <1>2, Zenon DEF QuietInv, Quiet, StoreInv
<1>8. ContentsInv'
  <2>1. torn' # 0
    BY <1>1
  <2> QED
    BY <1>2, <1>4, <1>5, <1>6, <2>1, Zenon DEF ContentsInv
<1> QED
  BY <1>2, <1>7, <1>8, Zenon DEF RInv

(* A crash while the log is applied or invalidated leaves the log, or an   *)
(* invalid one and all of the updates.                                     *)
LEMMA ApplyCrash ==
    ASSUME Premises, RInv, pc \in {"apply", "recover", "clobber", "reclobber"}, Crash
    PROVE  RInv' /\ (RecoveryNeeded' \/ mem' = post')
<1> USE RedoAssumption
<1>1. torn' = torn /\ torn' \in 0 .. MaxTornStores /\ Die
  BY Zenon DEF Crash, RInv, TypeOK
<1>2. /\ TypeOK' /\ HeaderInv' /\ DurableInv'
      /\ pc' = "down" /\ mem' = mem /\ UNCHANGED <<context, k, history>>
      /\ hdr' \in hdrMay /\ hdr'.next = hdr.next
      /\ \A i \in LogSlots : slot'[i] = slot[i]
  <2>1. ASSUME NEW i \in LogSlots PROVE slot'[i] = slot[i]
    <3>1. i \in Int /\ (i <= Base \/ i > Base)
      BY DEF LogSlots
    <3> QED
      BY <1>1, <3>1, DieFacts, Zenon
  <2> QED
    BY <1>1, <2>1, DieFacts, Zenon
<1>3. TypeOK /\ ShadowOK
  BY Zenon DEF RInv, ContentsInv
<1>4. slot' = slot
  <2>1. slot \in [LogSlots -> Slot] /\ slot' \in [LogSlots -> Slot]
    BY <1>2, <1>3, Zenon DEF TypeOK
  <2> QED
    BY <1>2, <2>1
<1>5. ShadowOK'
  BY <1>2, <1>3, Zenon DEF ShadowOK, Capacity, context, history
<1>6. hdr'.sum = NoSum => mem = post
  <2>1. CASE pc \in {"apply", "recover"}
    <3>1. hdr' = hdr /\ LogIs(hdr)
      BY <1>2, <2>1 DEF RInv, DurableInv, ContentsInv
    <3>2. Valid(hdr, slot)
      BY <1>3, <3>1, CompleteIsValid, Zenon
    <3>3. hdr \in Header /\ slot \in [LogSlots -> Slot]
      BY <1>3, Zenon DEF TypeOK
    <3> QED
      BY <3>1, <3>2, <3>3, NoSumIsInvalid, Zenon
  <2>2. CASE pc \in {"clobber", "reclobber"}
    BY <2>2, Zenon DEF RInv, ContentsInv
  <2> QED
    BY <2>1, <2>2, Zenon
<1>7. hdr'.sum # NoSum => LogIs(hdr')
  BY <1>2 DEF RInv, DurableInv, ContentsInv
<1>8. CASE hdr'.sum = NoSum
  <2>1. ~RecoveryNeeded'
    BY <1>2, <1>8, NoSumIsInvalid, Zenon DEF TypeOK, RecoveryNeeded
  <2>2. mem' = post'
    BY <1>2, <1>6, <1>8, Zenon DEF history
  <2> QED
    BY <1>2, <1>8, <2>1, <2>2, Zenon DEF RInv, QuietInv, Quiet, StoreInv, ContentsInv
<1>9. CASE hdr'.sum # NoSum
  <2>1. Valid(hdr', slot)
    BY <1>3, <1>7, <1>9, CompleteIsValid, Zenon
  <2>2. RecoveryNeeded'
    BY <1>4, <2>1, Zenon DEF RecoveryNeeded
  <2>3. LogIs(hdr)'
    BY <1>2, <1>4, <1>7, <1>9, Zenon DEF LogIs, Capacity, InLane, context
  <2> QED
    BY <1>2, <1>5, <2>2, <2>3, Zenon DEF RInv, QuietInv, Quiet, StoreInv, ContentsInv
<1> QED
  BY <1>8, <1>9, Zenon

(* A crash at any step keeps the invariant.                                *)
LEMMA CrashKeeps == Premises /\ RInv /\ Crash => RInv'
<1> SUFFICES ASSUME Premises, RInv, Crash PROVE RInv'
  BY Zenon
<1>1. CASE pc \in Quiet
  <2>1. Die /\ torn' = torn
    BY <1>1, Zenon DEF Crash, Quiet
  <2> QED
    BY <1>1, <2>1, QuietCrash, Zenon
<1>2. CASE pc = "stored"
  BY <1>2, StoreCrash, Zenon
<1>3. CASE pc \in {"apply", "recover", "clobber", "reclobber"}
  BY <1>3, ApplyCrash, Zenon
<1> QED
  BY <1>1, <1>2, <1>3, Zenon DEF Crash, RInv, TypeOK, Quiet

(* A store that finds no room stops the process before it writes anything. *)
LEMMA NoRoomKeeps == Premises /\ RInv /\ StoreNoRoom => RInv'
BY QuietCrash, Zenon DEF StoreNoRoom, Quiet

(* ulog_recover starts again from the first entry of a valid log.          *)
LEMMA RecoverKeeps == RInv /\ Recover => RInv'
<1> SUFFICES ASSUME RInv, Recover PROVE RInv'
  BY Zenon
<1> USE DEF Recover, pmem, context, history
<1>1. LogIs(hdr) /\ ShadowOK /\ n \in Nat
  <2>1. TypeOK /\ LogIs(hdr) /\ ShadowOK
    BY Zenon DEF RInv, ContentsInv
  <2> QED
    BY <2>1 DEF TypeOK
<1>2. TypeOK' /\ HeaderInv' /\ DurableInv'
  BY RedoAssumption DEF RInv, TypeOK, HeaderInv, DurableInv
<1>3. ShadowOK' /\ LogIs(hdr)'
  BY <1>1, Zenon DEF ShadowOK, LogIs, Capacity, InLane
<1>4. k' <= n' + 1 /\ ToCome(shadow, n, mem, post, 1)
  BY <1>1, WalkStarts DEF ShadowOK
<1> QED
  BY <1>2, <1>3, <1>4, Zenon DEF RInv, QuietInv, Quiet, StoreInv, ContentsInv

(* Opening the pool resets the context.                                    *)
LEMMA OpenTypes ==
    ASSUME TypeOK, OpenPool, UNCHANGED <<mem, slot, hdr>>,
           may' \in [Words -> SUBSET Value], slotMay' = slotMay, hdrMay' \subseteq Header
    PROVE  TypeOK'
BY RedoAssumption DEF OpenPool, TypeOK, Slot

(* A log that fails its check is left alone.                               *)
LEMMA RecoverNothingKeeps == RInv /\ RecoverNothing => RInv'
<1> SUFFICES ASSUME RInv, RecoverNothing PROVE RInv'
  BY Zenon
<1> USE DEF RecoverNothing, pmem
<1>1. TypeOK'
  BY OpenTypes, Zenon DEF RInv, TypeOK
<1>2. HeaderInv' /\ DurableInv'
  BY Zenon DEF RInv, HeaderInv, DurableInv, OpenPool
<1>3. ~RecoveryNeeded' /\ (torn' = 0 => hdr'.sum = NoSum) /\ mem' \in {pre', post'}
  BY Zenon DEF RInv, ContentsInv, RecoveryNeeded, OpenPool
<1> QED
  BY <1>1, <1>2, <1>3, Zenon DEF RInv, QuietInv, StoreInv, ContentsInv, OpenPool

(* The drain of the clobber in the recovery opens the pool.                *)
LEMMA ReclobberDrainKeeps == RInv /\ ReclobberDrain => RInv'
<1> SUFFICES ASSUME RInv, ReclobberDrain PROVE RInv'
  BY Zenon
<1> USE DEF ReclobberDrain, DrainWords
<1>1. TypeOK'
  <2>1. TypeOK /\ may' \in [Words -> SUBSET Value] /\ hdrMay' \subseteq Header
    BY Zenon DEF RInv, TypeOK
  <2> QED
    BY <2>1, OpenTypes, Zenon
<1>2. HeaderInv' /\ DurableInv'
  BY Zenon DEF RInv, HeaderInv, DurableInv, OpenPool
<1>3. mem' = post' /\ hdr'.sum = NoSum
  BY Zenon DEF RInv, ContentsInv, OpenPool
<1>4. ~RecoveryNeeded'
  BY <1>1, <1>3, NoSumIsInvalid, Zenon DEF RecoveryNeeded, TypeOK
<1> QED
  BY <1>1, <1>2, <1>3, <1>4, Zenon DEF RInv, QuietInv, StoreInv, ContentsInv, OpenPool

-----------------------------------------------------------------------------
\* The theorems.

(* Every step keeps the inductive invariant.                               *)
LEMMA StepKeepsRInv == Premises /\ RInv /\ [Next]_vars => RInv'
<1> SUFFICES ASSUME Premises, RInv, [Next]_vars PROVE RInv'
  BY Zenon
<1>1. CASE Build
  BY <1>1, StartKeeps, ReserveKeeps, CancelKeeps, AddKeeps, Zenon DEF Build
<1>2. CASE Finish
  BY <1>2, EmptyKeeps, SingleKeeps, SingleDrainKeeps, ExtensionKeeps,
     ExtensionDrainKeeps, StoreBaseKeeps, StoreDrainKeeps, ProcessKeeps,
     ClobberKeeps, ClobberDrainKeeps DEF Finish
<1>3. CASE Fail
  BY <1>3, CrashKeeps, NoRoomKeeps, RecoverKeeps, RecoverNothingKeeps,
     ReclobberDrainKeeps DEF Fail
<1>4. CASE UNCHANGED vars
  <2>1. TypeOK' /\ HeaderInv' /\ DurableInv'
    BY <1>4, Zenon DEF vars, pmem, context, history, RInv, TypeOK, HeaderInv, DurableInv
  <2>2. /\ mem' = mem /\ slot' = slot /\ hdr' = hdr /\ hdrMay' = hdrMay
        /\ shadow' = shadow /\ n' = n /\ ring' = ring /\ front' = front /\ back' = back
        /\ pc' = pc /\ k' = k /\ pre' = pre /\ post' = post /\ outcome' = outcome
        /\ torn' = torn /\ Capacity' = Capacity /\ InLane' = InLane
    BY <1>4, Zenon DEF vars, pmem, context, history, Capacity, InLane
  <2>3. /\ ShadowOK' = ShadowOK /\ QueueOK' = QueueOK
        /\ RecoveryNeeded' = RecoveryNeeded /\ HasRoom' = HasRoom
    BY <2>2, Zenon DEF ShadowOK, QueueOK, RecoveryNeeded, HasRoom
  <2>4. QuietInv'
    BY <2>2, <2>3, Zenon DEF RInv, QuietInv
  <2>5. LogIs(hdr)' = LogIs(hdr) /\ \A h : LogIs(h)' = LogIs(h)
    BY <2>2, Zenon DEF LogIs
  <2>6. StoreInv'
    BY <2>2, <2>3, <2>5, Zenon DEF RInv, StoreInv
  <2>7. ContentsInv'
    BY <2>2, <2>3, <2>5, Zenon DEF RInv, ContentsInv
  <2> QED
    BY <2>1, <2>4, <2>6, <2>7, Zenon DEF RInv
<1> QED
  BY <1>1, <1>2, <1>3, <1>4, Zenon DEF Next

(* The inductive invariant holds in every reachable state.                 *)
THEOREM RedoInvariant == ASSUME Premises PROVE Spec => []RInv
<1>1. Init => RInv
  BY InitRInv, Zenon
<1>2. RInv /\ [Next]_vars => RInv'
  BY StepKeepsRInv, Zenon
<1> QED
  BY <1>1, <1>2, PTL DEF Spec

(* operation_finish returns with exactly what the updates ask for, durably *)
(* in the words, for every set of words, updates and bounds.               *)
THEOREM FinishIsExact == ASSUME Premises PROVE Spec => []FinishedAsAsked
<1>1. RInv => FinishedAsAsked
  BY Zenon DEF RInv, ContentsInv, DurableInv, FinishedAsAsked
<1> QED
  BY <1>1, RedoInvariant, PTL

(* After any number of crashes, in the recovery too, an opened pool holds  *)
(* the contents before the interrupted operation or all of its updates.    *)
THEOREM RecoveryIsAtomic == ASSUME Premises PROVE Spec => []RecoveredAllOrNothing
<1>1. RInv => RecoveredAllOrNothing
  BY Zenon DEF RInv, ContentsInv, DurableInv, RecoveredAllOrNothing
<1> QED
  BY <1>1, RedoInvariant, PTL

(* Every variable keeps its type.                                          *)
THEOREM RedoTypes == ASSUME Premises PROVE Spec => []TypeOK
<1>1. RInv => TypeOK
  BY Zenon DEF RInv
<1> QED
  BY <1>1, RedoInvariant, PTL

-----------------------------------------------------------------------------
\* The operation context implements AtomicUpdate.

Open == pc \in {"build", "single", "ext", "base", "stored"}

\* The abstract steps, over the contents the pool stands for.
Stutter == Contents' = Contents /\ post' = post /\ Open' = Open
StartA == ~Open /\ Open' /\ post' = Contents /\ Contents' = Contents
CommitA == Open /\ ~Open' /\ Contents' = post /\ post' = post
DropA == Open /\ ~Open' /\ Contents' = Contents /\ post' = post
UpdateA(u) == /\ Open /\ Open' /\ Contents' = Contents
              /\ post' = [post EXCEPT ![u.off] = Effect(u, post[u.off])]

(* Building an operation leaves the contents alone.                        *)
LEMMA BuildImplements ==
    ASSUME RInv, Build
    PROVE  Stutter \/ StartA \/ DropA \/ \E u \in Updates : UpdateA(u)
<1> USE DEF Contents, Open, pmem, context, history
<1>1. CASE OperationStart
  BY <1>1, Zenon DEF OperationStart, StartA
<1>2. CASE OperationReserve
  BY <1>2, Zenon DEF OperationReserve, Stutter
<1>3. CASE OperationCancel
  BY <1>3, Zenon DEF OperationCancel, DropA
<1>4. ASSUME NEW u \in Updates, OperationAddEntry(u) PROVE UpdateA(u)
  BY <1>4, Zenon DEF OperationAddEntry, UpdateA
<1> QED
  BY <1>1, <1>2, <1>3, <1>4, Zenon DEF Build

(* Finishing it takes effect at the shortcut's drain or at ulog_store's.   *)
LEMMA FinishImplements ==
    ASSUME RInv, Finish
    PROVE  Stutter \/ CommitA \/ DropA
<1> USE DEF Contents, Open, context, history
<1>1. CASE FinishEmpty
  BY <1>1, Zenon DEF FinishEmpty, pmem, DropA
<1>2. CASE FinishSingle
  BY <1>2 DEF FinishSingle, Stutter, RInv, ContentsInv
<1>3. CASE SingleDrain
  BY <1>3, Zenon DEF SingleDrain, CommitA, RInv, ContentsInv
<1>4. CASE StoreExtension \/ ExtensionDrain \/ StoreBase
  BY <1>4 DEF StoreExtension, ExtensionDrain, StoreBase, Stutter
<1>5. CASE StoreDrain
  BY <1>5, Zenon DEF StoreDrain, CommitA
<1>6. CASE ProcessEntry
  BY <1>6, Zenon DEF ProcessEntry, Stutter
<1>7. CASE Clobber
  <2>1. n \in Nat /\ k = n + 1
    BY <1>7, WalkSees, Zenon DEF Clobber
  <2>2. ToCome(shadow, n, mem, post, n + 1)
    BY <1>7, <2>1, Zenon DEF RInv, ContentsInv, Clobber
  <2>3. mem = post
    BY <2>1, <2>2, WalkEnds, Zenon DEF RInv, TypeOK
  <2> QED
    BY <1>7, <2>3 DEF Clobber, Stutter
<1>8. CASE ClobberDrain
  BY <1>8 DEF ClobberDrain, Stutter
<1> QED
  BY <1>1, <1>2, <1>3, <1>4, <1>5, <1>6, <1>7, <1>8, Zenon DEF Finish

(* A crash drops the operation, or finds that it has taken effect; the     *)
(* recovery changes nothing that was not decided by the crash.             *)
LEMMA FailImplements ==
    ASSUME Premises, RInv, Fail
    PROVE  Stutter \/ CommitA \/ DropA
<1>1. CASE pc \in Quiet /\ Die /\ torn' = torn
  <2>1. ~RecoveryNeeded' /\ mem' = mem /\ pc' = "down" /\ post' = post
    BY <1>1, QuietCrash, Zenon DEF Die, history
  <2>2. CASE pc = "single"
    BY <2>1, <2>2, Zenon DEF CommitA, Open, Contents, RInv, ContentsInv
  <2>3. CASE pc = "idle"
    BY <2>1, <2>3 DEF Stutter, Open, Contents
  <2>4. CASE pc \in {"build", "ext", "base"}
    BY <2>1, <2>4, Zenon DEF DropA, Open, Contents
  <2> QED
    BY <1>1, <2>2, <2>3, <2>4, Zenon DEF Quiet
<1>2. CASE pc = "stored" /\ Crash
  <2>1. mem' = mem /\ pc' = "down" /\ post' = post
    BY <1>2, StoreCrash, Zenon DEF Crash, Die, history
  <2>2. CASE RecoveryNeeded'
    BY <1>2, <2>1, <2>2, Zenon DEF CommitA, Open, Contents
  <2>3. CASE ~RecoveryNeeded'
    BY <1>2, <2>1, <2>3, Zenon DEF DropA, Open, Contents
  <2> QED
    BY <2>2, <2>3, Zenon
<1>3. CASE pc \in {"apply", "recover", "clobber", "reclobber"} /\ Crash
  <2>1. (RecoveryNeeded' \/ mem' = post') /\ pc' = "down" /\ post' = post
    BY <1>3, ApplyCrash, Zenon DEF Crash, Die, history
  <2>2. Contents = post
    BY <1>3, Zenon DEF Contents, RInv, ContentsInv
  <2>3. Contents' = post'
    BY <2>1, Zenon DEF Contents
  <2> QED
    BY <1>3, <2>1, <2>2, <2>3 DEF Stutter, Open
<1>4. CASE Recover
  BY <1>4 DEF Recover, Stutter, Open, Contents, history, pmem
<1>5. CASE RecoverNothing
  BY <1>5 DEF RecoverNothing, OpenPool, Stutter, Open, Contents, pmem
<1>6. CASE ReclobberDrain
  BY <1>6 DEF ReclobberDrain, OpenPool, Stutter, Open, Contents
<1>7. CASE Crash
  <2>1. pc \in Quiet => Die /\ torn' = torn
    BY <1>7, Zenon DEF Crash, Quiet
  <2> QED
    BY <1>1, <1>2, <1>3, <1>7, <2>1, Zenon DEF Crash, RInv, TypeOK, Quiet
<1>8. CASE StoreNoRoom
  BY <1>1, <1>8, Zenon DEF StoreNoRoom, Quiet
<1> QED
  BY <1>4, <1>5, <1>6, <1>7, <1>8, Zenon DEF Fail

(* Every step of the redo log is a step of the atomic batch, or no step    *)
(* of it: the contents of the pool change in one step, to all that the     *)
(* updates ask for.                                                        *)
THEOREM RedoRefines == ASSUME Premises PROVE Spec => ImplementsAtomicUpdate
<1>1. Init => Abstract!AInit
  BY DEF Init, Abstract!AInit, Contents
<1>2. ASSUME RInv, [Next]_vars PROVE [Abstract!ANext]_(Abstract!avars)
  <2>1. \/ Stutter \/ StartA \/ CommitA \/ DropA
        \/ \E u \in Updates : UpdateA(u)
    <3>1. CASE UNCHANGED vars
      BY <3>1, Zenon DEF vars, pmem, context, history, Stutter, Contents, Open, RecoveryNeeded
    <3>2. CASE Next
      BY <1>2, <3>2, BuildImplements, FinishImplements, FailImplements, Zenon DEF Next
    <3> QED
      BY <1>2, <3>1, <3>2, Zenon
  <2>2. CASE Stutter
    BY <2>2, Zenon DEF Stutter, Open, Abstract!avars
  <2>3. CASE StartA
    BY <2>3, Zenon DEF StartA, Open, Abstract!ANext, Abstract!Start
  <2>4. CASE CommitA
    BY <2>4 DEF CommitA, Open, Abstract!ANext, Abstract!Commit
  <2>5. CASE DropA
    BY <2>5 DEF DropA, Open, Abstract!ANext, Abstract!Drop
  <2>6. CASE \E u \in Updates : UpdateA(u)
    BY <2>6, Zenon DEF UpdateA, Open, Abstract!ANext, Abstract!Update, Abstract!Effect, Effect
  <2> QED
    BY <2>1, <2>2, <2>3, <2>4, <2>5, <2>6, Zenon
<1> QED
  BY <1>1, <1>2, RedoInvariant, PTL DEF Spec, ImplementsAtomicUpdate, Abstract!ASpec

=============================================================================
