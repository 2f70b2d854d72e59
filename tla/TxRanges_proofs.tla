-------------------------- MODULE TxRanges_proofs --------------------------
(***************************************************************************)
(* The tree of ranges of a transaction, for every heap, every set of       *)
(* objects and every sequence of requests: the ranges never overlap, and   *)
(* every byte the program added is snapshotted exactly once.               *)
(*                                                                         *)
(* The premise is Spaced: two objects never touch.  A heap object has a    *)
(* header in front of it, so a range never has a neighbour that belongs to *)
(* another object.                                                         *)
(***************************************************************************)
EXTENDS TxRanges, WellFoundedInduction, TLAPS

Spaced == \A o, p \in Objects : o = p \/ End(o) < p.off \/ End(p) < o.off

Inside(f, o) == o.off <= f.off /\ End(f) <= End(o)
Covered(b) == \E f \in tree : b \in BytesOf(f)
Fresh(b) == \E o \in fresh : b \in BytesOf(o)

\* The ranges are parts of objects and do not overlap; an object allocated
\* in the transaction is one range.
TreeInv ==
    /\ \A f \in tree : f.size > 0 /\ \E o \in alloc \cup fresh : Inside(f, o)
    /\ \A f, g \in tree : f = g \/ End(f) <= g.off \/ End(g) <= f.off
    /\ \A o \in fresh : \E f \in tree : f.off = o.off /\ f.size = o.size

\* In the middle of an add included.
LoggedInv ==
    \A b \in Bytes : logged[b] = IF Covered(b) /\ ~Fresh(b) THEN 1 ELSE 0

ActionsInv == alloc \cap fresh = {} /\ freed \subseteq alloc

\* What is left of the request is a part of a live object, and its right
\* neighbour starts where it ends.
AddInv ==
    /\ pc = "add" => \E o \in Live : Inside(r, o)
    /\ pc = "add" /\ r.size > 0 /\ prev # None => prev \in tree /\ prev.off = End(r)
    /\ pc = "add" /\ least => prev = None
    /\ pc = "work" => r.size = 0

\* The tree covers what was added, but for what is left of the request.
CoverInv ==
    /\ \A b \in Bytes : Covered(b) => b \in added \/ Fresh(b)
    /\ \A b \in added : Covered(b) \/ b \in BytesOf(r)
    /\ \A b \in BytesOf(r) : b \in added

FlushInv ==
    /\ \A f \in tree : f.noflush \in Flags
    /\ r.size > 0 => r.noflush \in Flags
    /\ \A b \in toflush : Covered(b) \/ b \in BytesOf(r)
    /\ toflush # {} => FALSE \in Flags

RangesInv ==
    TypeOK /\ TreeInv /\ LoggedInv /\ ActionsInv /\ AddInv /\ CoverInv /\ FlushInv
-----------------------------------------------------------------------------
\* The least of some natural numbers.
LEMMA Least ==
  ASSUME NEW T \in SUBSET Nat, T # {}
  PROVE  \E x \in T : \A y \in T : x <= y
<1> DEFINE R == OpToRel(<, Nat)
<1>1. IsWellFoundedOn(R, Nat)
  BY Zenon, NatLessThanWellFounded
<1>2. \A x, y \in Nat : x < y => <<x, y>> \in R
  BY DEF OpToRel
<1> HIDE DEF R
<1>3. PICK x \in T : \A y \in T : <<y, x>> \notin R
  BY Zenon, <1>1, WFMin
<1>4. ASSUME NEW y \in T PROVE x <= y
  <2>1. x \in Nat /\ y \in Nat /\ ~(y < x)
    BY Zenon, <1>2, <1>3
  <2> QED BY <2>1
<1> QED BY <1>4

\* The greatest of some natural numbers with a bound.
LEMMA Greatest ==
  ASSUME NEW m \in Nat, NEW T \in SUBSET (0 .. m), T # {}
  PROVE  \E x \in T : \A y \in T : y <= x
<1> DEFINE U == {m - x : x \in T}
<1>1. U \in SUBSET Nat
  <2>1. \A x \in T : x \in 0 .. m
    OBVIOUS
  <2>2. \A x \in T : m - x \in Nat
    BY <2>1
  <2> QED BY <2>2
<1>2. U # {}
  BY Zenon
<1>3. PICK u \in U : \A v \in U : u <= v
  <2> HIDE DEF U
  <2> QED BY <1>1, <1>2, Least
<1>4. PICK x \in T : u = m - x
  OBVIOUS
<1>5. ASSUME NEW y \in T PROVE y <= x
  <2>1. m - x <= m - y
    BY Zenon, <1>3, <1>4
  <2>2. x \in 0 .. m /\ y \in 0 .. m
    OBVIOUS
  <2> HIDE DEF U
  <2> QED BY <2>1, <2>2
<1> QED BY <1>5
-----------------------------------------------------------------------------
\* The bounds of a range.
LEMMA RangeFields ==
  ASSUME NEW f \in Range
  PROVE  /\ f.off \in Int /\ f.size \in Int /\ f.off >= 1 /\ f.size >= 0
         /\ f.off <= Heap /\ f.noflush \in BOOLEAN
         /\ End(f) \in Int /\ End(f) = f.off + f.size
         /\ \A b : b \in BytesOf(f) <=> b \in Int /\ f.off <= b /\ b < End(f)
BY RangesAssumption DEF Range, Bytes, End, BytesOf

\* The bounds of an object.
LEMMA ObjectFields ==
  ASSUME NEW o \in Objects
  PROVE  /\ o.off \in Int /\ o.size \in Int /\ o.off >= 1 /\ o.size >= 1
         /\ End(o) \in Int /\ End(o) = o.off + o.size /\ End(o) - 1 <= Heap
         /\ \A b : b \in BytesOf(o) <=> b \in Int /\ o.off <= b /\ b < End(o)
<1>1. o.off \in Nat \ {0} /\ o.size \in Nat \ {0} /\ BytesOf(o) \subseteq Bytes
  BY RangesAssumption
<1>2. End(o) - 1 \in BytesOf(o)
  BY <1>1 DEF End, BytesOf
<1>3. End(o) - 1 <= Heap
  BY <1>1, <1>2, RangesAssumption DEF Bytes
<1> QED BY <1>1, <1>3 DEF End, BytesOf

\* The fields of a range.
LEMMA RangeDefFields ==
  ASSUME NEW off, NEW size, NEW noflush
  PROVE  LET d == RangeDef(off, size, noflush)
         IN  d.off = off /\ d.size = size /\ d.noflush = noflush
BY DEF RangeDef

\* A part of an object is a range of the heap.
LEMMA PartIsRange ==
  ASSUME NEW off \in Int, NEW size \in Int, NEW noflush \in BOOLEAN, NEW o \in Objects,
         0 <= size, o.off <= off, off + size <= End(o), off < End(o)
  PROVE  RangeDef(off, size, noflush) \in Range
<1>1. off \in Bytes /\ size \in 0 .. Heap
  BY ObjectFields, RangesAssumption DEF Bytes
<1> QED BY <1>1 DEF RangeDef, Range

\* Two ranges that overlap or touch are parts of one object.
LEMMA SameObject ==
  ASSUME Spaced, NEW f, NEW g, NEW o \in Objects, NEW p \in Objects,
         f.off \in Int, g.off \in Int, End(f) \in Int, End(g) \in Int,
         Inside(f, o), Inside(g, p), f.off <= End(g), g.off <= End(f)
  PROVE  o = p
BY ObjectFields DEF Spaced, Inside
-----------------------------------------------------------------------------
\* A part S of the tree is replaced by one range over it and over the bytes
\* of gap, which were in no range and are snapshotted.
Grows(S, new, gap) ==
    /\ S \in SUBSET tree /\ gap \in SUBSET Bytes
    /\ new \in Range /\ new.size > 0 /\ \E o \in alloc \cup fresh : Inside(new, o)
    /\ \A g \in tree \ S : End(g) <= new.off \/ End(new) <= g.off
    /\ \A b : b \in BytesOf(new) <=> b \in gap \/ \E s \in S : b \in BytesOf(s)
    /\ \A b \in gap : ~Covered(b)
    /\ \A q \in fresh, s \in S : s.off = q.off /\ s.size = q.size
                                  => new.off = q.off /\ new.size = q.size
    /\ tree' = (tree \ S) \cup {new}
    /\ logged' = [b \in Bytes |-> IF b \in gap THEN logged[b] + 1 ELSE logged[b]]
    /\ alloc' = alloc /\ fresh' = fresh

\* The tree grows by a range that is free in it, next to what it replaces.
LEMMA Grow ==
  ASSUME TypeOK, TreeInv, LoggedInv, NEW S, NEW new, NEW gap, Grows(S, new, gap)
  PROVE  /\ TreeInv' /\ LoggedInv'
         /\ tree' \subseteq Range /\ logged' \in [Bytes -> {0, 1}]
         /\ \A b : Covered(b)' <=> Covered(b) \/ b \in gap
<1> USE DEF Grows
<1>1. tree' \subseteq Range
  BY DEF TypeOK
<1>2. \A b : Covered(b)' <=> Covered(b) \/ b \in gap
  BY Zenon DEF Covered
<1>3. \A b : Fresh(b)' <=> Fresh(b)
  BY Zenon DEF Fresh
<1>4. \A b \in gap : ~Fresh(b)
  <2> SUFFICES ASSUME NEW b \in gap, NEW o \in fresh, b \in BytesOf(o) PROVE FALSE
    BY Zenon DEF Fresh
  <2>1. PICK f \in tree : f.off = o.off /\ f.size = o.size
    BY Zenon DEF TreeInv
  <2>2. BytesOf(f) = BytesOf(o)
    BY Zenon, <2>1 DEF BytesOf, End
  <2> QED BY Zenon, <2>2 DEF Covered
<1>5. LoggedInv' /\ logged' \in [Bytes -> {0, 1}]
  <2> SUFFICES ASSUME NEW b \in Bytes
               PROVE  /\ logged'[b] = IF Covered(b)' /\ ~Fresh(b)' THEN 1 ELSE 0
                      /\ logged'[b] \in {0, 1}
    BY DEF LoggedInv
  <2>1. logged[b] = IF Covered(b) /\ ~Fresh(b) THEN 1 ELSE 0
    BY Zenon DEF LoggedInv
  <2>2. logged'[b] = IF b \in gap THEN logged[b] + 1 ELSE logged[b]
    BY Zenon
  <2>3. CASE b \in gap
    <3>1. ~Covered(b) /\ Covered(b)' /\ ~Fresh(b) /\ ~Fresh(b)'
      BY Zenon, <1>2, <1>3, <1>4, <2>3
    <3> QED BY <2>1, <2>2, <2>3, <3>1
  <2>4. CASE b \notin gap
    <3>1. logged'[b] = IF Covered(b)' /\ ~Fresh(b)' THEN 1 ELSE 0
      BY Zenon, <1>2, <1>3, <2>1, <2>2, <2>4
    <3> QED BY <3>1
  <2> QED BY Zenon, <2>3, <2>4
<1>6. TreeInv'
  <2>1. ASSUME NEW f \in tree'
        PROVE  f.size > 0 /\ \E o \in alloc' \cup fresh' : Inside(f, o)
    BY Zenon DEF TreeInv
  <2>2. ASSUME NEW f \in tree', NEW g \in tree'
        PROVE  f = g \/ End(f) <= g.off \/ End(g) <= f.off
    BY Zenon DEF TreeInv
  <2>3. ASSUME NEW o \in fresh'
        PROVE  \E f \in tree' : f.off = o.off /\ f.size = o.size
    <3>1. PICK f \in tree : f.off = o.off /\ f.size = o.size
      BY Zenon DEF TreeInv
    <3> QED BY Zenon, <3>1
  <2> QED BY Zenon, <2>1, <2>2, <2>3 DEF TreeInv, Inside, End
<1> QED BY Zenon, <1>1, <1>2, <1>5, <1>6

\* What the search returns: every other range ends in front of it or starts
\* behind the request.
LEMMA NothingBetween ==
  ASSUME TypeOK, TreeInv, NEW f, Found(f), NEW g \in tree, g # f
  PROVE  End(g) <= f.off \/ g.off >= End(r)
<1>1. f \in tree /\ g \in Range /\ f \in Range /\ r \in Range
  BY DEF TypeOK, Found, Below
<1>2. f.size > 0 /\ g.size > 0 /\ (End(f) <= g.off \/ End(g) <= f.off)
  BY <1>1 DEF TreeInv
<1>3. CASE g.off >= End(r)
  BY <1>3
<1>4. CASE ~(g.off >= End(r))
  <2>1. g.off \in Int /\ End(r) \in Int /\ g.off < End(r) /\ g.off <= End(r)
    BY <1>1, <1>4, RangeFields
  <2>2. g.off <= f.off
    BY <2>1 DEF Found, Below
  <2> QED BY <1>1, <1>2, <2>2, RangeFields
<1> QED BY <1>3, <1>4

\* The search returns something unless no range starts before the end of the
\* request.
LEMMA SearchFinds ==
  ASSUME TypeOK, NEW g \in Below
  PROVE  \E f \in Below : Found(f)
<1> DEFINE T == {f.off : f \in Below}
<1>1. \A f \in Below : f \in Range
  BY DEF TypeOK, Below
<1>2. \A f \in Below : f.off \in 0 .. Heap
  BY <1>1, RangeFields, RangesAssumption
<1>3. T \in SUBSET (0 .. Heap)
  BY Zenon, <1>2
<1>4. T # {}
  BY Zenon
<1>5. PICK x \in T : \A y \in T : y <= x
  <2> HIDE DEF T
  <2> QED BY <1>3, <1>4, Greatest, RangesAssumption
<1>6. PICK f \in Below : x = f.off
  BY Zenon
<1> QED BY Zenon, <1>5, <1>6 DEF Found

\* When the search finds nothing that reaches the request, no range has a
\* byte of it.
LEMMA NothingReaches ==
  ASSUME TypeOK, TreeInv, \A f \in Below : Found(f) => End(f) < r.off,
         NEW g \in tree
  PROVE  End(g) < r.off \/ g.off >= End(r)
<1>1. g \in Range /\ r \in Range
  BY DEF TypeOK
<1>2. CASE g.off >= End(r)
  BY <1>2
<1>3. CASE ~(g.off >= End(r))
  <2>1. g \in Below
    BY <1>1, <1>3, RangeFields DEF Below
  <2>2. PICK f \in Below : Found(f)
    BY Zenon, <2>1, SearchFinds
  <2>3. End(f) < r.off /\ f \in tree /\ f \in Range
    BY <2>2 DEF Below, TypeOK
  <2>4. CASE g = f
    BY Zenon, <2>3, <2>4
  <2>5. CASE g # f
    <3>1. End(g) <= f.off
      BY Zenon, <1>3, <2>2, <2>5, NothingBetween
    <3>2. f.size > 0
      BY Zenon, <2>3 DEF TreeInv
    <3> QED BY <1>1, <2>3, <3>1, <3>2, RangeFields
  <2> QED BY Zenon, <2>4, <2>5
<1> QED BY Zenon, <1>2, <1>3
-----------------------------------------------------------------------------
\* The bookkeeping of an iteration: the request loses bytes that are now in
\* a range.
LEMMA Shrink ==
  ASSUME RangesInv, pc = "add", NEW gap \in SUBSET BytesOf(r),
         \A b : Covered(b)' <=> Covered(b) \/ b \in gap,
         r' \in Range, r'.off = r.off, End(r') <= End(r), r'.noflush = r.noflush,
         \A b \in BytesOf(r) : b \in BytesOf(r') \/ Covered(b)',
         UNCHANGED <<actions, pc, history>>,
         \A f \in tree' : f.noflush \in Flags,
         r'.size > 0 /\ prev' # None => prev' \in tree' /\ prev'.off = End(r'),
         least' = FALSE
  PROVE  ActionsInv' /\ AddInv' /\ CoverInv' /\ FlushInv'
<1>1. r \in Range
  BY DEF RangesInv, TypeOK
<1>2. \A b \in BytesOf(r') : b \in BytesOf(r)
  BY <1>1, RangeFields
<1>3. \A b : Fresh(b)' <=> Fresh(b)
  BY Zenon DEF Fresh, actions
<1>4. ActionsInv'
  BY Zenon DEF RangesInv, ActionsInv, actions
<1>5. AddInv'
  <2>1. PICK o \in Live : Inside(r, o)
    BY Zenon DEF RangesInv, AddInv
  <2>2. o \in Objects
    BY DEF RangesInv, TypeOK, Live
  <2>3. Inside(r', o)
    BY <1>1, <2>1, <2>2, RangeFields, ObjectFields DEF Inside
  <2>4. \E p \in Live' : Inside(r', p)
    BY Zenon, <2>1, <2>3 DEF Live, actions
  <2>5. pc' = "add" /\ pc' # "work"
    OBVIOUS
  <2> QED BY Zenon, <2>4, <2>5 DEF AddInv, Inside, End
<1>6. CoverInv'
  <2>1. \A b \in Bytes : Covered(b)' => b \in added' \/ Fresh(b)'
    BY Zenon, <1>3 DEF RangesInv, CoverInv, history
  <2>2. \A b \in added' : Covered(b)' \/ b \in BytesOf(r')
    BY Zenon DEF RangesInv, CoverInv, history
  <2>3. \A b \in BytesOf(r') : b \in added'
    BY Zenon, <1>2 DEF RangesInv, CoverInv, history
  <2> QED BY Zenon, <2>1, <2>2, <2>3 DEF CoverInv, BytesOf, End
<1>7. FlushInv'
  <2>1. r'.size > 0 => r'.noflush \in Flags
    <3>1. r'.size > 0 => r.size > 0
      BY <1>1, RangeFields
    <3> QED BY Zenon, <3>1 DEF RangesInv, FlushInv
  <2>2. \A b \in toflush' : Covered(b)' \/ b \in BytesOf(r')
    BY Zenon DEF RangesInv, FlushInv, history
  <2>3. toflush' # {} => FALSE \in Flags
    BY Zenon DEF RangesInv, FlushInv, history
  <2> QED BY Zenon, <2>1, <2>2, <2>3 DEF FlushInv, BytesOf, End
<1> QED BY Zenon, <1>4, <1>5, <1>6, <1>7

\* The rest of a request in front of the range found.
LEMMA RestFields ==
  ASSUME TypeOK, NEW f \in Range, f.off <= End(r)
  PROVE  /\ Rest(f) \in Range
         /\ Rest(f).off = r.off /\ Rest(f).noflush = r.noflush
         /\ End(Rest(f)) = IF f.off > r.off THEN f.off ELSE r.off
         /\ End(Rest(f)) <= End(r)
         /\ Rest(f).size > 0 => f.off = End(Rest(f))
<1>1. r \in Range
  BY DEF TypeOK
<1> DEFINE size == (IF f.off > r.off THEN f.off ELSE r.off) - r.off
<1>2. /\ Rest(f).off = r.off /\ Rest(f).noflush = r.noflush
      /\ Rest(f).size = size /\ Rest(f) = RangeDef(r.off, size, r.noflush)
  BY DEF Rest, RangeDef
<1>3. size \in 0 .. Heap
  BY <1>1, RangeFields, RangesAssumption
<1>4. r.off \in Bytes /\ r.noflush \in BOOLEAN
  BY <1>1 DEF Range
<1>5. Rest(f) \in Range
  <2> HIDE DEF size
  <2> QED BY <1>2, <1>3, <1>4 DEF RangeDef, Range
<1> QED BY <1>1, <1>2, <1>5, RangeFields

\* The object of the request, and that of the ranges that touch it.
LEMMA RequestObject ==
  ASSUME Spaced, RangesInv, pc = "add"
  PROVE  \E o \in alloc \cup fresh :
            /\ o \in Objects /\ Inside(r, o)
            /\ \A f \in tree : f.off <= End(r) /\ r.off <= End(f) => Inside(f, o)
<1>1. PICK o \in alloc \cup fresh : o \in Objects /\ Inside(r, o)
  BY Zenon DEF RangesInv, AddInv, Live, TypeOK
<1>2. ASSUME NEW f \in tree, f.off <= End(r), r.off <= End(f)
      PROVE  Inside(f, o)
  <2>1. PICK p \in alloc \cup fresh : Inside(f, p)
    BY Zenon DEF RangesInv, TreeInv
  <2>2. p \in Objects /\ r \in Range /\ f \in Range
    BY DEF RangesInv, TypeOK
  <2>3. r.off \in Int /\ End(r) \in Int /\ f.off \in Int /\ End(f) \in Int
    BY <2>2, RangeFields
  <2>4. o = p
    BY Zenon, <1>1, <1>2, <2>1, <2>2, <2>3, SameObject
  <2> QED BY Zenon, <2>1, <2>4
<1> QED BY Zenon, <1>1, <1>2

\* A fresh object is the object of its range.
LEMMA FreshObject ==
  ASSUME Spaced, RangesInv, NEW f \in tree, NEW q \in fresh, NEW o \in Objects,
         f.off = q.off, f.size = q.size, Inside(f, o)
  PROVE  f.off = o.off /\ End(f) = End(o)
<1>1. f \in Range /\ q \in Objects
  BY DEF RangesInv, TypeOK
<1>2. End(f) = End(q)
  BY DEF End
<1>3. f.off \in Int /\ End(f) \in Int /\ f.off <= End(f) /\ Inside(f, q)
  BY <1>1, <1>2, RangeFields DEF Inside
<1>4. q = o
  BY Zenon, <1>1, <1>3, SameObject
<1> QED BY Zenon, <1>2, <1>4
-----------------------------------------------------------------------------
\* pmemobj_tx_add_common: the part that a larger range covers is skipped.
LEMMA SkipFoundKeeps ==
  ASSUME Spaced, RangesInv, AddIteration, SkipFound
  PROVE  RangesInv'
<1>1. PICK f \in Below : /\ Found(f) /\ End(f) > End(r)
                         /\ r' = Rest(f) /\ prev' = f /\ UNCHANGED <<tree, logged>>
  BY Zenon DEF SkipFound
<1>2. f \in tree /\ f \in Range /\ r \in Range /\ f.off <= End(r)
  <2>1. f \in tree /\ f \in Range /\ r \in Range
    BY DEF Below, RangesInv, TypeOK
  <2> QED BY <2>1, RangeFields DEF Below
<1>3. pc = "add" /\ least' = FALSE /\ UNCHANGED <<actions, pc, history>> /\ TypeOK
  BY Zenon DEF AddIteration, RangesInv
<1>4. /\ r' \in Range /\ r'.off = r.off /\ End(r') <= End(r) /\ r'.noflush = r.noflush
      /\ End(r') = IF f.off > r.off THEN f.off ELSE r.off
      /\ r'.size > 0 => f.off = End(r')
  BY Zenon, <1>1, <1>2, <1>3, RestFields
<1>5. \A b : Covered(b)' <=> Covered(b) \/ b \in {}
  BY Zenon, <1>1 DEF Covered
<1>6. \A b \in BytesOf(r) : b \in BytesOf(r') \/ Covered(b)'
  <2>1. \A b \in BytesOf(r) : b \in BytesOf(r') \/ b \in BytesOf(f)
    BY <1>1, <1>2, <1>4, RangeFields
  <2> QED BY Zenon, <1>1, <1>2, <2>1 DEF Covered
<1>7. r'.size > 0 /\ prev' # None => prev' \in tree' /\ prev'.off = End(r')
  BY Zenon, <1>1, <1>2, <1>4
<1>8. \A g \in tree' : g.noflush \in Flags
  BY Zenon, <1>1 DEF RangesInv, FlushInv
<1>9. {} \in SUBSET BytesOf(r)
  OBVIOUS
<1>10. ActionsInv' /\ AddInv' /\ CoverInv' /\ FlushInv'
  BY Zenon, <1>3, <1>4, <1>5, <1>6, <1>7, <1>8, <1>9, Shrink
<1>11. TypeOK'
  BY Zenon, <1>1, <1>2, <1>3, <1>4 DEF TypeOK, actions, history
<1>12. TreeInv' /\ LoggedInv'
  BY Zenon, <1>1, <1>3 DEF RangesInv, TreeInv, LoggedInv, Covered, Fresh, actions
<1> QED BY Zenon, <1>10, <1>11, <1>12 DEF RangesInv

\* The bytes on the right of the range found, up to the end of the request,
\* are in no range.
LEMMA ExtendFoundKeeps ==
  ASSUME Spaced, RangesInv, AddIteration, ExtendFound
  PROVE  RangesInv'
<1> DEFINE right == IF prev = None THEN 0 ELSE prev.size
           New(f) == RangeDef(f.off, End(r) + right - f.off, f.noflush)
<1>1. PICK f \in Below : /\ Found(f) /\ End(f) >= r.off /\ End(f) <= End(r)
                         /\ tree' = (tree \ {f, prev}) \cup {New(f)}
                         /\ Snapshot(End(f), End(r) - 1)
                         /\ r' = Rest(f) /\ prev' = New(f)
  BY Zenon DEF ExtendFound
<1> DEFINE new == New(f)
           gap == End(f) .. End(r) - 1
           S == {f, prev} \cap tree
<1>2. f \in tree /\ f \in Range /\ r \in Range /\ f.off <= End(r) /\ f.size > 0
  <2>1. f \in tree /\ f \in Range /\ r \in Range /\ f.size > 0
    BY DEF Below, RangesInv, TypeOK, TreeInv
  <2> QED BY <2>1, RangeFields DEF Below
<1>3. /\ pc = "add" /\ r.size > 0 /\ least' = FALSE /\ UNCHANGED <<actions, pc, history>>
      /\ TypeOK /\ TreeInv /\ LoggedInv /\ alloc' = alloc /\ fresh' = fresh
  <2>1. r.size # 0
    BY Zenon DEF AddIteration
  <2>2. r.size > 0
    BY <1>2, <2>1, RangeFields
  <2> QED BY Zenon, <2>2 DEF AddIteration, RangesInv, actions
<1>4. /\ r' \in Range /\ r'.off = r.off /\ End(r') <= End(r) /\ r'.noflush = r.noflush
      /\ End(r') = IF f.off > r.off THEN f.off ELSE r.off
      /\ r'.size > 0 => f.off = End(r')
  BY Zenon, <1>1, <1>2, <1>3, RestFields
<1>5. PICK o \in alloc \cup fresh :
            /\ o \in Objects /\ Inside(r, o)
            /\ \A g \in tree : g.off <= End(r) /\ r.off <= End(g) => Inside(g, o)
  BY Zenon, <1>3, RequestObject
<1>6. prev # None => prev \in tree /\ prev.off = End(r) /\ prev.size > 0 /\ prev \in Range
  BY Zenon, <1>3 DEF RangesInv, AddInv, TreeInv, TypeOK
<1>7. prev # None => Inside(prev, o)
  <2>1. prev # None => prev.off <= End(r) /\ r.off <= End(prev)
    BY <1>2, <1>6, RangeFields
  <2> QED BY Zenon, <1>5, <1>6, <2>1
<1>8. Inside(f, o)
  BY Zenon, <1>1, <1>2, <1>5
<1>9. /\ right \in Int /\ right >= 0
      /\ prev # None => right = prev.size /\ End(prev) = End(r) + right
      /\ prev = None => right = 0
  BY <1>6, RangeFields
<1>10. new.off = f.off /\ new.size = End(r) + right - f.off /\ new.noflush = f.noflush
  BY DEF RangeDef
<1> HIDE DEF right
<1>11. End(new) = End(r) + right /\ new.size > 0 /\ new.size \in Int
  <2> HIDE DEF new
  <2>1. End(new) = new.off + new.size
    BY DEF End
  <2> QED BY <1>1, <1>2, <1>9, <1>10, <2>1, RangeFields
<1>12. End(r) + right <= End(o)
  <2>1. CASE prev = None
    BY <1>2, <1>5, <1>9, <2>1, RangeFields DEF Inside
  <2>2. CASE prev # None
    BY <1>7, <1>9, <2>2 DEF Inside
  <2> QED BY Zenon, <2>1, <2>2
<1>13. Inside(new, o)
  BY Zenon, <1>8, <1>10, <1>11, <1>12 DEF Inside
<1>14. new \in Range
  <2>1. /\ f.off \in Int /\ new.size \in Int /\ f.noflush \in BOOLEAN /\ 0 <= new.size
        /\ o.off <= f.off /\ f.off + new.size <= End(o) /\ f.off < End(o)
    <3>1. f.off + new.size = End(new)
      BY Zenon, <1>10 DEF End
    <3> HIDE DEF new
    <3> QED BY <1>2, <1>5, <1>8, <1>11, <1>12, <3>1, RangeFields, ObjectFields DEF Inside
  <2>2. new = RangeDef(f.off, new.size, f.noflush)
    BY Zenon, <1>10
  <2> QED BY Zenon, <1>5, <2>1, <2>2, PartIsRange
<1> HIDE DEF New
<1>15. S \in SUBSET tree /\ tree' = (tree \ S) \cup {new} /\ f \in S /\ S \subseteq {f, prev}
  BY Zenon, <1>1, <1>2
<1>16. prev # None => prev \in S
  BY Zenon, <1>6
<1> HIDE DEF S
<1>17. ASSUME NEW g \in tree \ S PROVE End(g) <= new.off \/ End(new) <= g.off
  <2>1. g # f /\ g \in Range /\ g.size > 0
    BY Zenon, <1>3, <1>15 DEF TypeOK, TreeInv
  <2>2. End(g) <= f.off \/ g.off >= End(r)
    BY Zenon, <1>1, <1>3, <2>1, NothingBetween
  <2>3. CASE End(g) <= f.off
    BY Zenon, <1>10, <2>3
  <2>4. CASE g.off >= End(r) /\ prev = None
    BY <1>2, <1>9, <1>11, <2>4, RangeFields
  <2>5. CASE g.off >= End(r) /\ prev # None
    <3>1. End(g) <= prev.off \/ End(prev) <= g.off
      BY Zenon, <1>3, <1>6, <1>16, <2>5 DEF TreeInv
    <3> QED BY <1>2, <1>6, <1>9, <1>11, <2>1, <2>5, <3>1, RangeFields
  <2> QED BY Zenon, <2>2, <2>3, <2>4, <2>5
<1>18. \A b : b \in gap <=> b \in Int /\ End(f) <= b /\ b < End(r)
  BY <1>2, RangeFields
<1>19. gap \in SUBSET BytesOf(r) /\ gap \in SUBSET Bytes
  <2>1. gap \in SUBSET BytesOf(r)
    BY <1>1, <1>2, <1>18, RangeFields
  <2>2. gap \in SUBSET Bytes
    BY <1>1, <1>2, <1>5, <1>18, RangeFields, ObjectFields, RangesAssumption DEF Bytes, Inside
  <2> QED BY Zenon, <2>1, <2>2
<1>20. logged' = [b \in Bytes |-> IF b \in gap THEN logged[b] + 1 ELSE logged[b]]
  BY Zenon, <1>1 DEF Snapshot
<1> HIDE DEF gap
<1>21. \A b : b \in BytesOf(new) <=> b \in gap \/ \E s \in S : b \in BytesOf(s)
  <2>1. \A b : b \in BytesOf(new) <=> b \in Int /\ f.off <= b /\ b < End(r) + right
    BY <1>10, <1>11, <1>14, RangeFields
  <2>2. CASE prev = None
    <3>1. \A b : b \in BytesOf(new) <=> b \in gap \/ b \in BytesOf(f)
      BY <1>1, <1>2, <1>9, <1>18, <2>1, <2>2, RangeFields
    <3>2. prev \notin S
      BY Zenon, <1>3, <1>15, <2>2, RangesAssumption DEF TypeOK
    <3> QED BY Zenon, <1>15, <3>1, <3>2
  <2>3. CASE prev # None
    <3>1. \A b : b \in BytesOf(new) <=> b \in gap \/ b \in BytesOf(f) \/ b \in BytesOf(prev)
      BY <1>1, <1>2, <1>6, <1>9, <1>18, <2>1, <2>3, RangeFields
    <3> QED BY Zenon, <1>15, <1>16, <2>3, <3>1
  <2> QED BY Zenon, <2>2, <2>3
<1>22. \A b \in gap : ~Covered(b)
  <2> SUFFICES ASSUME NEW b \in gap, NEW g \in tree, b \in BytesOf(g) PROVE FALSE
    BY Zenon DEF Covered
  <2>1. g \in Range
    BY DEF RangesInv, TypeOK
  <2>2. g = f \/ End(g) <= f.off \/ g.off >= End(r)
    BY Zenon, <1>1, <1>3, NothingBetween
  <2> QED BY <1>2, <1>18, <2>1, <2>2, RangeFields
<1>23. ASSUME NEW q \in fresh, NEW s \in S, s.off = q.off, s.size = q.size
       PROVE  new.off = q.off /\ new.size = q.size
  <2>1. s \in tree /\ s \in Range /\ Inside(s, o) /\ (s = f \/ s = prev)
    BY Zenon, <1>3, <1>6, <1>7, <1>8, <1>15, RangesAssumption DEF TypeOK
  <2>2. s.off = o.off /\ End(s) = End(o)
    BY Zenon, <1>5, <1>23, <2>1, FreshObject
  <2>3. CASE s = f
    <3>1. End(r) + right = End(f)
      BY <1>1, <1>2, <1>9, <1>12, <2>2, <2>3, RangeFields
    <3>2. new.size = f.size
      <4> HIDE DEF new
      <4> QED BY <1>2, <1>9, <1>10, <3>1, RangeFields
    <3> QED BY Zenon, <1>10, <1>23, <2>3, <3>2
  <2>4. CASE s = prev
    <3>1. prev # None
      BY Zenon, <2>1, <2>4, RangesAssumption
    <3>2. prev.off = End(r) /\ o.off <= r.off
      BY Zenon, <1>5, <1>6, <3>1 DEF Inside
    <3> QED BY <1>2, <1>3, <1>5, <2>2, <2>4, <3>2, RangeFields, ObjectFields
  <2> QED BY Zenon, <2>1, <2>3, <2>4
<1>24. /\ TreeInv' /\ LoggedInv' /\ tree' \subseteq Range /\ logged' \in [Bytes -> {0, 1}]
       /\ \A b : Covered(b)' <=> Covered(b) \/ b \in gap
  <2>1. \E p \in alloc \cup fresh : Inside(new, p)
    BY Zenon, <1>5, <1>13
  <2> HIDE DEF new
  <2>2. \A g \in tree \ S : End(g) <= new.off \/ End(new) <= g.off
    BY Zenon, <1>17
  <2>3. \A q \in fresh, s \in S : s.off = q.off /\ s.size = q.size
                                   => new.off = q.off /\ new.size = q.size
    BY Zenon, <1>23
  <2>4. new \in Range /\ new.size > 0 /\ S \in SUBSET tree /\ gap \in SUBSET Bytes
    BY Zenon, <1>11, <1>14, <1>15, <1>19
  <2>5. tree' = (tree \ S) \cup {new}
    BY Zenon, <1>15
  <2>6. Grows(S, new, gap)
    BY Zenon, <1>3, <1>20, <1>21, <1>22, <2>1, <2>2, <2>3, <2>4, <2>5 DEF Grows
  <2> QED BY Zenon, <1>3, <2>6, Grow
<1>25. \A b \in BytesOf(r) : b \in BytesOf(r') \/ Covered(b)'
  <2>1. \A b \in BytesOf(r) : b \in BytesOf(r') \/ b \in BytesOf(f) \/ b \in gap
    BY <1>1, <1>2, <1>4, <1>18, RangeFields
  <2> QED BY Zenon, <1>2, <1>24, <2>1 DEF Covered
<1>26. r'.size > 0 /\ prev' # None => prev' \in tree' /\ prev'.off = End(r')
  BY Zenon, <1>1, <1>4, <1>10
<1>27. \A g \in tree' : g.noflush \in Flags
  BY Zenon, <1>2, <1>10, <1>15 DEF RangesInv, FlushInv
<1>28. ActionsInv' /\ AddInv' /\ CoverInv' /\ FlushInv'
  BY Zenon, <1>3, <1>4, <1>19, <1>24, <1>25, <1>26, <1>27, Shrink
<1>29. TypeOK'
  <2>1. prev' \in Range
    BY Zenon, <1>1, <1>14
  <2> QED BY Zenon, <1>3, <1>4, <1>24, <2>1 DEF TypeOK, actions, history
<1> QED BY Zenon, <1>24, <1>28, <1>29 DEF RangesInv

\* No range has a byte of the request: all of it is snapshotted, in a range
\* of its own or in front of its right neighbour.
LEMMA AddWholeKeeps ==
  ASSUME Spaced, RangesInv, AddIteration, AddWhole
  PROVE  RangesInv'
<1> DEFINE new == IF prev = None
                    THEN r
                    ELSE RangeDef(prev.off - r.size, prev.size + r.size, prev.noflush)
           S == {prev} \cap tree
           gap == BytesOf(r)
<1>1. r \in Range
  BY DEF RangesInv, TypeOK
<1>2. /\ pc = "add" /\ r.size > 0 /\ least' = FALSE /\ UNCHANGED <<actions, pc, history>>
      /\ TypeOK /\ TreeInv /\ LoggedInv /\ alloc' = alloc /\ fresh' = fresh
  <2>1. r.size # 0
    BY Zenon DEF AddIteration
  <2>2. r.size > 0
    BY <1>1, <2>1, RangeFields
  <2> QED BY Zenon, <2>2 DEF AddIteration, RangesInv, actions
<1>3. r' = RangeDef(r.off, 0, r.noflush) /\ prev' = prev
  BY Zenon DEF AddWhole
<1>4. /\ r' \in Range /\ r'.off = r.off /\ End(r') <= End(r) /\ r'.noflush = r.noflush
      /\ r'.size = 0
  <2>1. r'.off = r.off /\ r'.noflush = r.noflush /\ r'.size = 0
    BY <1>3 DEF RangeDef
  <2>2. r.off \in Bytes /\ r.noflush \in BOOLEAN /\ 0 \in 0 .. Heap
    BY <1>1, RangesAssumption DEF Range
  <2>3. r' \in Range
    BY <1>3, <2>2 DEF RangeDef, Range
  <2> QED BY <1>1, <1>2, <2>1, <2>3, RangeFields
<1>5. PICK o \in alloc \cup fresh :
            /\ o \in Objects /\ Inside(r, o)
            /\ \A g \in tree : g.off <= End(r) /\ r.off <= End(g) => Inside(g, o)
  BY Zenon, <1>2, RequestObject
<1>6. prev # None => prev \in tree /\ prev.off = End(r) /\ prev.size > 0 /\ prev \in Range
  BY Zenon, <1>2 DEF RangesInv, AddInv, TreeInv, TypeOK
<1>7. prev # None => Inside(prev, o)
  <2>1. prev # None => prev.off <= End(r) /\ r.off <= End(prev)
    BY <1>1, <1>6, RangeFields
  <2> QED BY Zenon, <1>5, <1>6, <2>1
<1>8. \A g \in tree : End(g) < r.off \/ g.off >= End(r)
  BY Zenon, <1>2, NothingReaches DEF AddWhole
<1>9. /\ new \in Range /\ new.off = r.off /\ new.size > 0
      /\ End(new) = IF prev = None THEN End(r) ELSE End(prev)
  <2>1. CASE prev = None
    BY Zenon, <1>1, <1>2, <2>1
  <2>2. CASE prev # None
    <3>1. new = RangeDef(prev.off - r.size, prev.size + r.size, prev.noflush)
      BY Zenon, <2>2
    <3>2. new.off = prev.off - r.size /\ new.size = prev.size + r.size
      BY <3>1 DEF RangeDef
    <3> HIDE DEF new
    <3>3. prev.off - r.size = r.off
      BY <1>1, <1>6, <2>2, RangeFields
    <3>4. new.size > 0 /\ new.size \in Int /\ r.off + new.size = End(prev)
      BY <1>1, <1>2, <1>6, <2>2, <3>2, <3>3, RangeFields
    <3>5. End(new) = End(prev)
      BY Zenon, <3>2, <3>3, <3>4 DEF End
    <3>6. new = RangeDef(r.off, new.size, prev.noflush)
      BY Zenon, <3>1, <3>2, <3>3
    <3>7. /\ r.off \in Int /\ prev.noflush \in BOOLEAN /\ 0 <= new.size
          /\ o.off <= r.off /\ r.off + new.size <= End(o) /\ r.off < End(o)
      BY <1>1, <1>2, <1>5, <1>6, <1>7, <2>2, <3>4, RangeFields, ObjectFields DEF Inside
    <3>8. new \in Range
      BY Zenon, <1>5, <3>4, <3>6, <3>7, PartIsRange
    <3> QED BY Zenon, <2>2, <3>2, <3>3, <3>4, <3>5, <3>8
  <2> QED BY Zenon, <2>1, <2>2
<1>10. new.noflush \in Flags
  <2>1. CASE prev = None
    BY Zenon, <1>2, <2>1 DEF RangesInv, FlushInv
  <2>2. CASE prev # None
    <3>1. new.noflush = prev.noflush
      BY <2>2 DEF RangeDef
    <3> QED BY Zenon, <1>6, <2>2, <3>1 DEF RangesInv, FlushInv
  <2> QED BY Zenon, <2>1, <2>2
<1>11. S \in SUBSET tree /\ S \subseteq {prev} /\ tree' = (tree \ S) \cup {new}
  <2>1. CASE prev = None
    <3>1. None \notin tree
      BY Zenon, <1>2, RangesAssumption DEF TypeOK
    <3> QED BY Zenon, <2>1, <3>1 DEF AddWhole
  <2>2. CASE prev # None
    BY Zenon, <2>2 DEF AddWhole
  <2> QED BY Zenon, <2>1, <2>2
<1>12. prev # None => prev \in S
  BY Zenon, <1>6
<1>13. prev = None => S = {}
  <2>1. None \notin tree
    BY Zenon, <1>2, RangesAssumption DEF TypeOK
  <2> QED BY Zenon, <1>11, <2>1
<1> HIDE DEF new, S
<1>14. Inside(new, o)
  BY Zenon, <1>5, <1>7, <1>9 DEF Inside
<1>15. ASSUME NEW g \in tree \ S PROVE End(g) <= new.off \/ End(new) <= g.off
  <2>1. g \in Range /\ g.size > 0 /\ (End(g) < r.off \/ g.off >= End(r))
    BY Zenon, <1>2, <1>8 DEF TypeOK, TreeInv
  <2>2. CASE End(g) < r.off
    BY <1>1, <1>9, <2>1, <2>2, RangeFields
  <2>3. CASE g.off >= End(r) /\ prev = None
    BY <1>1, <1>9, <2>1, <2>3, RangeFields
  <2>4. CASE g.off >= End(r) /\ prev # None
    <3>1. End(g) <= prev.off \/ End(prev) <= g.off
      BY Zenon, <1>2, <1>6, <1>12, <2>4 DEF TreeInv
    <3> QED BY <1>1, <1>6, <1>9, <2>1, <2>4, <3>1, RangeFields
  <2> QED BY Zenon, <2>1, <2>2, <2>3, <2>4
<1>16. \A b : b \in BytesOf(new) <=> b \in gap \/ \E s \in S : b \in BytesOf(s)
  <2>1. CASE prev = None
    <3>1. BytesOf(new) = BytesOf(r)
      BY Zenon, <1>9, <2>1 DEF BytesOf
    <3> QED BY Zenon, <1>13, <2>1, <3>1
  <2>2. CASE prev # None
    <3>1. \A b : b \in BytesOf(new) <=> b \in BytesOf(r) \/ b \in BytesOf(prev)
      BY <1>1, <1>6, <1>9, <2>2, RangeFields
    <3> QED BY Zenon, <1>11, <1>12, <2>2, <3>1
  <2> QED BY Zenon, <2>1, <2>2
<1>17. \A b \in gap : ~Covered(b)
  <2> SUFFICES ASSUME NEW b \in gap, NEW g \in tree, b \in BytesOf(g) PROVE FALSE
    BY Zenon DEF Covered
  <2>1. g \in Range
    BY DEF RangesInv, TypeOK
  <2> QED BY <1>1, <1>8, <2>1, RangeFields
<1>18. ASSUME NEW q \in fresh, NEW s \in S, s.off = q.off, s.size = q.size
       PROVE  new.off = q.off /\ new.size = q.size
  <2>1. s = prev /\ prev # None
    BY Zenon, <1>11, <1>13
  <2>2. s.off = o.off
    BY Zenon, <1>5, <1>6, <1>7, <1>18, <2>1, FreshObject
  <2>3. o.off <= r.off /\ s.off = End(r)
    BY Zenon, <1>5, <1>6, <2>1 DEF Inside
  <2> QED BY <1>1, <1>2, <1>5, <2>2, <2>3, RangeFields, ObjectFields
<1>19. gap \in SUBSET Bytes
  BY <1>1, <1>5, RangeFields, ObjectFields, RangesAssumption DEF Bytes, Inside
<1>20. logged' = [b \in Bytes |-> IF b \in gap THEN logged[b] + 1 ELSE logged[b]]
  BY Zenon DEF AddWhole, Snapshot, BytesOf
<1>21. Grows(S, new, gap)
  BY Zenon, <1>2, <1>5, <1>9, <1>11, <1>14, <1>15, <1>16, <1>17, <1>18, <1>19, <1>20
  DEF Grows
<1>22. /\ TreeInv' /\ LoggedInv' /\ tree' \subseteq Range /\ logged' \in [Bytes -> {0, 1}]
       /\ \A b : Covered(b)' <=> Covered(b) \/ b \in gap
  BY Zenon, <1>2, <1>21, Grow
<1>23. \A b \in BytesOf(r) : b \in BytesOf(r') \/ Covered(b)'
  BY Zenon, <1>22
<1>24. r'.size > 0 /\ prev' # None => prev' \in tree' /\ prev'.off = End(r')
  BY <1>4
<1>25. \A g \in tree' : g.noflush \in Flags
  BY Zenon, <1>10, <1>11 DEF RangesInv, FlushInv
<1>26. ActionsInv' /\ AddInv' /\ CoverInv' /\ FlushInv'
  <2>1. gap \in SUBSET BytesOf(r)
    OBVIOUS
  <2> QED BY Zenon, <1>2, <1>4, <1>22, <1>23, <1>24, <1>25, <2>1, Shrink
<1>27. TypeOK'
  BY Zenon, <1>2, <1>3, <1>4, <1>22 DEF TypeOK, actions, history
<1> QED BY Zenon, <1>22, <1>26, <1>27 DEF RangesInv
-----------------------------------------------------------------------------
\* The range of a finished addition holds no byte.
LEMMA NoRangeEmpty == NoRange.size = 0 /\ BytesOf(NoRange) = {} /\ NoRange \in Range
<1>1. NoRange.size = 0 /\ NoRange.off = 1
  BY DEF NoRange, RangeDef
<1>2. BytesOf(NoRange) = {}
  BY <1>1 DEF BytesOf, End
<1>3. NoRange \in Range
  BY RangesAssumption DEF NoRange, RangeDef, Range, Bytes
<1> QED BY <1>1, <1>2, <1>3

\* The state of a transaction that has just begun.
LEMMA BeginSound ==
  ASSUME alloc \subseteq Objects,
         tree = {}, logged = [b \in Bytes |-> 0], fresh = {}, freed = {},
         pc = "work", r = NoRange, prev = None, least = TRUE,
         added = {}, toflush = {}, quiet = {}
  PROVE  RangesInv
<1>1. TypeOK
  BY NoRangeEmpty DEF TypeOK
<1>2. \A b : ~Covered(b) /\ ~Fresh(b)
  BY Zenon DEF Covered, Fresh
<1>3. LoggedInv
  BY <1>2 DEF LoggedInv
<1>4. TreeInv /\ ActionsInv
  BY Zenon DEF TreeInv, ActionsInv
<1>5. AddInv
  BY NoRangeEmpty DEF AddInv
<1>6. CoverInv
  BY Zenon, <1>2, NoRangeEmpty DEF CoverInv
<1>7. FlushInv
  BY NoRangeEmpty DEF FlushInv
<1> QED BY <1>1, <1>3, <1>4, <1>5, <1>6, <1>7 DEF RangesInv

\* The end of a transaction leaves nothing of its ranges.
LEMMA RestartKeeps ==
  ASSUME alloc' \subseteq Objects, Restart
  PROVE  RangesInv'
<1>1. TypeOK'
  BY NoRangeEmpty DEF TypeOK, Restart
<1>2. \A b : ~Covered(b)' /\ ~Fresh(b)'
  BY Zenon DEF Covered, Fresh, Restart
<1>3. LoggedInv'
  BY <1>2 DEF LoggedInv, Restart
<1>4. TreeInv' /\ ActionsInv'
  BY Zenon DEF TreeInv, ActionsInv, Restart
<1>5. r' = NoRange /\ r'.size = 0 /\ BytesOf(r') = {}
  BY Zenon, NoRangeEmpty DEF Restart
<1>6. AddInv'
  BY <1>5 DEF AddInv, Restart
<1>7. CoverInv'
  BY Zenon, <1>2, <1>5 DEF CoverInv, Restart, BytesOf, End
<1>8. FlushInv'
  BY <1>5 DEF FlushInv, Restart
<1> QED BY <1>1, <1>3, <1>4, <1>6, <1>7, <1>8 DEF RangesInv

\* pmemobj_tx_add_range starts.
LEMMA TxAddRangeKeeps ==
  ASSUME RangesInv, TxAddRange
  PROVE  RangesInv'
<1>0. PICK o \in Live, noflush \in Flags : \E first, last \in BytesOf(o) :
            /\ first <= last
            /\ r' = RangeDef(first, last + 1 - first, noflush)
            /\ added' = added \cup first .. last
            /\ AskFlush(first .. last, noflush)
  BY Zenon DEF TxAddRange
<1>1. PICK first \in BytesOf(o), last \in BytesOf(o) :
            /\ first <= last
            /\ r' = RangeDef(first, last + 1 - first, noflush)
            /\ added' = added \cup first .. last
            /\ AskFlush(first .. last, noflush)
  BY Zenon, <1>0
<1>2. /\ pc = "work" /\ pc' = "add" /\ prev' = None /\ least' = TRUE
      /\ UNCHANGED <<tree, logged, actions>>
  BY Zenon DEF TxAddRange
<1>3. o \in Objects /\ noflush \in BOOLEAN
  BY RangesAssumption DEF RangesInv, TypeOK, Live
<1>4. /\ first \in Int /\ last \in Int /\ o.off <= first /\ last < End(o)
      /\ first <= last /\ End(o) \in Int /\ o.off \in Int
  BY <1>1, <1>3, ObjectFields
<1>5. r'.off = first /\ r'.size = last + 1 - first /\ r'.noflush = noflush
  BY <1>1 DEF RangeDef
<1>6. /\ first \in Int /\ last + 1 - first \in Int /\ 0 <= last + 1 - first
      /\ first + (last + 1 - first) <= End(o) /\ first < End(o)
  BY <1>4
<1>7. r' \in Range
  BY Zenon, <1>1, <1>3, <1>4, <1>6, PartIsRange
<1>8. End(r') = last + 1 /\ r'.size > 0
  BY <1>4, <1>5 DEF End
<1>9. BytesOf(r') = first .. last
  <2>1. \A b : b \in BytesOf(r') <=> b \in first .. last
    BY <1>4, <1>5, <1>7, <1>8, RangeFields
  <2> QED BY Zenon, <2>1
<1>10. first .. last \subseteq Bytes
  BY <1>3, <1>4, ObjectFields, RangesAssumption DEF Bytes
<1>11. \A b : /\ Covered(b)' <=> Covered(b)
              /\ Fresh(b)' <=> Fresh(b)
  BY Zenon, <1>2 DEF Covered, Fresh, actions
<1>12. BytesOf(r) = {}
  <2>1. r \in Range /\ r.size = 0
    BY Zenon, <1>2 DEF RangesInv, TypeOK, AddInv
  <2>2. \A b : b \notin BytesOf(r)
    BY <2>1, RangeFields
  <2> QED BY Zenon, <2>2
<1>13. /\ \A b \in toflush' : b \in toflush \/ b \in first .. last
       /\ toflush' # {} => toflush # {} \/ noflush = FALSE
       /\ toflush' \subseteq toflush \cup first .. last /\ quiet' \subseteq quiet \cup first .. last
  BY <1>1, <1>3 DEF AskFlush
<1>14. TypeOK'
  BY <1>1, <1>2, <1>7, <1>10, <1>13 DEF RangesInv, TypeOK, actions
<1>15. TreeInv' /\ LoggedInv' /\ ActionsInv'
  BY Zenon, <1>2, <1>11 DEF RangesInv, TreeInv, LoggedInv, ActionsInv, actions
<1>16. AddInv'
  <2>1. Inside(r', o)
    BY <1>4, <1>5, <1>8 DEF Inside
  <2>2. \E p \in Live' : Inside(r', p)
    BY Zenon, <1>2, <2>1 DEF Live, actions
  <2> QED BY <1>2, <2>2 DEF AddInv, Inside, End
<1>17. CoverInv'
  <2>1. \A b \in Bytes : Covered(b)' => b \in added' \/ Fresh(b)'
    BY Zenon, <1>1, <1>11 DEF RangesInv, CoverInv
  <2>2. \A b \in added' : Covered(b)' \/ b \in BytesOf(r')
    BY Zenon, <1>1, <1>9, <1>11, <1>12 DEF RangesInv, CoverInv
  <2>3. \A b \in BytesOf(r') : b \in added'
    BY Zenon, <1>1, <1>9
  <2> QED BY Zenon, <2>1, <2>2, <2>3 DEF CoverInv, BytesOf, End
<1>18. FlushInv'
  <2>1. \A f \in tree' : f.noflush \in Flags
    BY Zenon, <1>2 DEF RangesInv, FlushInv
  <2>2. r'.noflush \in Flags
    BY Zenon, <1>5
  <2>3. \A b \in toflush' : Covered(b)' \/ b \in BytesOf(r')
    BY Zenon, <1>9, <1>11, <1>12, <1>13 DEF RangesInv, FlushInv
  <2>4. toflush' # {} => FALSE \in Flags
    BY Zenon, <1>13 DEF RangesInv, FlushInv
  <2> QED BY Zenon, <2>1, <2>2, <2>3, <2>4 DEF FlushInv, BytesOf, End
<1> QED BY Zenon, <1>14, <1>15, <1>16, <1>17, <1>18 DEF RangesInv

\* pmemobj_tx_add_common has added all of its range.
LEMMA AddReturnsKeeps ==
  ASSUME RangesInv, AddReturns
  PROVE  RangesInv'
<1>1. /\ r.size = 0 /\ pc' = "work" /\ r' = NoRange /\ prev' = None /\ least' = TRUE
      /\ UNCHANGED <<tree, logged, actions, history>>
  BY Zenon DEF AddReturns
<1>2. BytesOf(r) = {}
  <2>1. r \in Range
    BY Zenon DEF RangesInv, TypeOK
  <2>2. \A b : b \notin BytesOf(r)
    BY <1>1, <2>1, RangeFields
  <2> QED BY Zenon, <2>2
<1>3. r'.size = 0 /\ BytesOf(r') = {}
  BY Zenon, <1>1, NoRangeEmpty
<1>4. \A b : /\ Covered(b)' <=> Covered(b)
             /\ Fresh(b)' <=> Fresh(b)
  BY Zenon, <1>1 DEF Covered, Fresh, actions
<1>5. TypeOK'
  BY <1>1, NoRangeEmpty DEF RangesInv, TypeOK, actions, history
<1>6. TreeInv' /\ LoggedInv' /\ ActionsInv'
  BY Zenon, <1>1, <1>4 DEF RangesInv, TreeInv, LoggedInv, ActionsInv, actions
<1>7. AddInv'
  BY <1>1, <1>3 DEF AddInv
<1>8. CoverInv'
  BY Zenon, <1>1, <1>2, <1>3, <1>4 DEF RangesInv, CoverInv, history, BytesOf, End
<1>9. FlushInv'
  <2>1. \A b \in toflush' : Covered(b)' \/ b \in BytesOf(r')
    BY Zenon, <1>1, <1>2, <1>4 DEF RangesInv, FlushInv, history
  <2>2. toflush' # {} => FALSE \in Flags
    BY Zenon, <1>1 DEF RangesInv, FlushInv, history
  <2>3. \A f \in tree' : f.noflush \in Flags
    BY Zenon, <1>1 DEF RangesInv, FlushInv
  <2>4. ~(r'.size > 0)
    BY <1>3
  <2> QED BY Zenon, <2>1, <2>2, <2>3, <2>4 DEF FlushInv, BytesOf, End
<1> QED BY Zenon, <1>5, <1>6, <1>7, <1>8, <1>9 DEF RangesInv

\* The space of the object had no range: its bytes need no snapshot.
LEMMA TxAllocKeeps ==
  ASSUME Spaced, RangesInv, NEW o \in Objects, TxAlloc(o)
  PROVE  RangesInv'
<1>1. PICK noflush \in Flags : /\ tree' = tree \cup {RangeDef(o.off, o.size, noflush)}
                               /\ AskFlush(BytesOf(o), noflush)
  BY Zenon DEF TxAlloc
<1> DEFINE new == RangeDef(o.off, o.size, noflush)
<1>2. /\ pc = "work" /\ o \notin alloc /\ o \notin fresh /\ fresh' = fresh \cup {o}
      /\ UNCHANGED <<logged, alloc, freed, pc, r, prev, least, added>>
  BY Zenon DEF TxAlloc
<1>3. new.off = o.off /\ new.size = o.size /\ new.noflush = noflush /\ noflush \in BOOLEAN
  BY RangesAssumption DEF RangeDef
<1>4. new \in Range
  <2>1. /\ o.off \in Int /\ o.size \in Int /\ 0 <= o.size /\ o.off <= o.off
        /\ o.off + o.size <= End(o) /\ o.off < End(o)
    BY ObjectFields
  <2> QED BY Zenon, <1>3, <2>1, PartIsRange
<1>5. tree' = tree \cup {new}
  BY Zenon, <1>1
<1> HIDE DEF new
<1>6. BytesOf(new) = BytesOf(o) /\ End(new) = End(o)
  BY Zenon, <1>3 DEF BytesOf, End
<1>7. BytesOf(o) \subseteq Bytes
  BY Zenon, RangesAssumption
<1>8. ASSUME NEW g \in tree
      PROVE  /\ End(g) <= new.off \/ End(new) <= g.off
             /\ \A b : b \in BytesOf(g) => b \notin BytesOf(o)
  <2>1. PICK p \in alloc \cup fresh : Inside(g, p)
    BY Zenon DEF RangesInv, TreeInv
  <2>2. p \in Objects /\ p # o /\ g \in Range
    BY Zenon, <1>2 DEF RangesInv, TypeOK
  <2>3. End(o) < p.off \/ End(p) < o.off
    BY Zenon, <2>2 DEF Spaced
  <2>4. End(g) <= o.off \/ End(o) <= g.off
    BY <2>1, <2>2, <2>3, RangeFields, ObjectFields DEF Inside
  <2>5. \A b : b \in BytesOf(g) => b \notin BytesOf(o)
    BY <2>2, <2>4, RangeFields, ObjectFields
  <2> QED BY Zenon, <1>3, <1>6, <2>4, <2>5
<1>9. \A b : /\ Covered(b)' <=> Covered(b) \/ b \in BytesOf(o)
             /\ Fresh(b)' <=> Fresh(b) \/ b \in BytesOf(o)
             /\ b \in BytesOf(o) => ~Covered(b)
  BY Zenon, <1>2, <1>5, <1>6, <1>8 DEF Covered, Fresh
<1>10. /\ \A b \in toflush' : b \in toflush \/ b \in BytesOf(o)
       /\ toflush' # {} => toflush # {} \/ noflush = FALSE
       /\ toflush' \subseteq Bytes /\ quiet' \subseteq Bytes
  BY <1>1, <1>3, <1>7 DEF AskFlush, RangesInv, TypeOK
<1>11. TypeOK'
  BY <1>2, <1>4, <1>5, <1>10 DEF RangesInv, TypeOK
<1>12. TreeInv'
  <2>1. Inside(new, o) /\ new.size > 0
    BY <1>3, <1>6, ObjectFields DEF Inside
  <2>2. \A f \in tree' : f.size > 0 /\ \E p \in alloc' \cup fresh' : Inside(f, p)
    BY Zenon, <1>2, <1>5, <2>1 DEF RangesInv, TreeInv
  <2>3. \A f, g \in tree' : f = g \/ End(f) <= g.off \/ End(g) <= f.off
    BY Zenon, <1>5, <1>8 DEF RangesInv, TreeInv
  <2>4. \A p \in fresh' : \E f \in tree' : f.off = p.off /\ f.size = p.size
    BY Zenon, <1>2, <1>3, <1>5 DEF RangesInv, TreeInv
  <2> QED BY Zenon, <2>2, <2>3, <2>4 DEF TreeInv, Inside, End
<1>13. LoggedInv'
  <2> SUFFICES ASSUME NEW b \in Bytes
               PROVE  logged[b] = IF Covered(b)' /\ ~Fresh(b)' THEN 1 ELSE 0
    BY Zenon, <1>2 DEF LoggedInv
  <2>1. logged[b] = IF Covered(b) /\ ~Fresh(b) THEN 1 ELSE 0
    BY Zenon DEF RangesInv, LoggedInv
  <2>2. Covered(b)' /\ ~Fresh(b)' <=> Covered(b) /\ ~Fresh(b)
    BY Zenon, <1>9
  <2> QED BY Zenon, <2>1, <2>2
<1>14. ActionsInv'
  BY Zenon, <1>2 DEF RangesInv, ActionsInv
<1>15. AddInv'
  BY Zenon, <1>2 DEF RangesInv, AddInv
<1>16. CoverInv'
  BY Zenon, <1>2, <1>9 DEF RangesInv, CoverInv, BytesOf, End
<1>17. FlushInv'
  <2>1. \A f \in tree' : f.noflush \in Flags
    BY Zenon, <1>3, <1>5 DEF RangesInv, FlushInv
  <2>2. \A b \in toflush' : Covered(b)' \/ b \in BytesOf(r')
    BY Zenon, <1>2, <1>9, <1>10 DEF RangesInv, FlushInv
  <2>3. toflush' # {} => FALSE \in Flags
    BY Zenon, <1>10 DEF RangesInv, FlushInv
  <2>4. r'.size > 0 => r'.noflush \in Flags
    BY Zenon, <1>2 DEF RangesInv, FlushInv
  <2> QED BY Zenon, <2>1, <2>2, <2>3, <2>4 DEF FlushInv, BytesOf, End
<1> QED BY Zenon, <1>11, <1>12, <1>13, <1>14, <1>15, <1>16, <1>17 DEF RangesInv

\* The object of a reservation is exactly one range, which leaves the tree
\* with it.
LEMMA CancelKeeps ==
  ASSUME Spaced, RangesInv, pc = "work", NEW o \in fresh, NEW f \in tree, f.off = o.off,
         tree' = tree \ {f}, fresh' = fresh \ {o}, added' = added \ BytesOf(o),
         toflush' = toflush \ BytesOf(o), quiet' = quiet \ BytesOf(o),
         UNCHANGED <<logged, alloc, freed, pc, r, prev, least>>
  PROVE  RangesInv'
<1>1. o \in Objects /\ f \in Range /\ f.size > 0 /\ r \in Range /\ r.size = 0
  BY Zenon DEF RangesInv, TypeOK, TreeInv, AddInv
<1>2. BytesOf(r) = {}
  <2>1. \A b : b \notin BytesOf(r)
    BY <1>1, RangeFields
  <2> QED BY Zenon, <2>1
<1>3. f.size = o.size
  <2>1. PICK h \in tree : h.off = o.off /\ h.size = o.size
    BY Zenon DEF RangesInv, TreeInv
  <2>2. h \in Range /\ h.size > 0 /\ (f = h \/ End(f) <= h.off \/ End(h) <= f.off)
    BY Zenon DEF RangesInv, TypeOK, TreeInv
  <2>3. f = h
    BY <1>1, <2>1, <2>2, RangeFields
  <2> QED BY Zenon, <2>1, <2>3
<1>4. BytesOf(f) = BytesOf(o) /\ End(f) = End(o)
  BY Zenon, <1>3 DEF BytesOf, End
<1>5. ASSUME NEW g \in tree'
      PROVE  g \in Range /\ g.size > 0 /\ (End(g) <= o.off \/ End(o) <= g.off)
  BY Zenon, <1>4 DEF RangesInv, TypeOK, TreeInv
<1>6. \A b : Covered(b)' <=> Covered(b) /\ b \notin BytesOf(o)
  <2>1. \A g \in tree' : \A b : b \in BytesOf(g) => b \notin BytesOf(o)
    BY <1>1, <1>5, RangeFields, ObjectFields
  <2> QED BY Zenon, <1>4, <2>1 DEF Covered
<1>7. \A b : Fresh(b)' <=> Fresh(b) /\ b \notin BytesOf(o)
  <2>1. \A p \in fresh' : \A b : b \in BytesOf(p) => b \notin BytesOf(o)
    BY Zenon, <1>1, RangesAssumption DEF RangesInv, TypeOK
  <2> QED BY Zenon, <2>1 DEF Fresh
<1>8. TypeOK'
  BY DEF RangesInv, TypeOK
<1>9. TreeInv'
  <2>1. ASSUME NEW g \in tree'
        PROVE  g.size > 0 /\ \E p \in alloc' \cup fresh' : Inside(g, p)
    <3>1. PICK p \in alloc \cup fresh : Inside(g, p)
      BY Zenon DEF RangesInv, TreeInv
    <3>2. p # o
      BY <1>1, <1>5, <3>1, RangeFields, ObjectFields DEF Inside
    <3> QED BY Zenon, <1>5, <3>1, <3>2
  <2>2. \A g, h \in tree' : g = h \/ End(g) <= h.off \/ End(h) <= g.off
    BY Zenon DEF RangesInv, TreeInv
  <2>3. ASSUME NEW p \in fresh' PROVE \E g \in tree' : g.off = p.off /\ g.size = p.size
    <3>1. PICK g \in tree : g.off = p.off /\ g.size = p.size
      BY Zenon DEF RangesInv, TreeInv
    <3>2. p \in Objects /\ p # o
      BY Zenon DEF RangesInv, TypeOK
    <3>3. End(p) < o.off \/ End(o) < p.off
      BY Zenon, <1>1, <3>2 DEF Spaced
    <3>4. p.off # o.off
      BY <1>1, <3>2, <3>3, ObjectFields
    <3> QED BY Zenon, <3>1, <3>4
  <2> QED BY Zenon, <2>1, <2>2, <2>3 DEF TreeInv, Inside, End
<1>10. LoggedInv'
  <2> SUFFICES ASSUME NEW b \in Bytes
               PROVE  logged[b] = IF Covered(b)' /\ ~Fresh(b)' THEN 1 ELSE 0
    BY Zenon DEF LoggedInv
  <2>1. logged[b] = IF Covered(b) /\ ~Fresh(b) THEN 1 ELSE 0
    BY Zenon DEF RangesInv, LoggedInv
  <2>2. Covered(b)' /\ ~Fresh(b)' <=> Covered(b) /\ ~Fresh(b)
    BY Zenon, <1>6, <1>7 DEF Fresh
  <2> QED BY Zenon, <2>1, <2>2
<1>11. ActionsInv'
  BY Zenon DEF RangesInv, ActionsInv
<1>12. AddInv'
  BY Zenon DEF RangesInv, AddInv
<1>13. CoverInv'
  <2>1. \A b \in Bytes : Covered(b)' => b \in added' \/ Fresh(b)'
    BY Zenon, <1>6, <1>7 DEF RangesInv, CoverInv
  <2>2. \A b \in added' : Covered(b)' \/ b \in BytesOf(r')
    BY Zenon, <1>2, <1>6 DEF RangesInv, CoverInv
  <2>3. \A b \in BytesOf(r') : b \in added'
    BY Zenon, <1>2
  <2> QED BY Zenon, <2>1, <2>2, <2>3 DEF CoverInv, BytesOf, End
<1>14. FlushInv'
  <2>1. \A g \in tree' : g.noflush \in Flags
    BY Zenon DEF RangesInv, FlushInv
  <2>2. \A b \in toflush' : Covered(b)' \/ b \in BytesOf(r')
    BY Zenon, <1>2, <1>6 DEF RangesInv, FlushInv
  <2>3. toflush' # {} => FALSE \in Flags
    BY Zenon DEF RangesInv, FlushInv
  <2>4. r'.size > 0 => r'.noflush \in Flags
    BY Zenon DEF RangesInv, FlushInv
  <2> QED BY Zenon, <2>1, <2>2, <2>3, <2>4 DEF FlushInv, BytesOf, End
<1> QED BY Zenon, <1>8, <1>9, <1>10, <1>11, <1>12, <1>13, <1>14 DEF RangesInv

\* pmemobj_tx_free of an object, new in this transaction or old.
LEMMA TxFreeKeeps ==
  ASSUME Spaced, RangesInv, NEW o \in Objects, TxFree(o)
  PROVE  RangesInv'
<1>1. /\ pc = "work" /\ o \in Live
      /\ toflush' = toflush \ BytesOf(o) /\ quiet' = quiet \ BytesOf(o)
      /\ UNCHANGED <<logged, alloc, pc, r, prev, least>>
  BY Zenon DEF TxFree
<1>2. CASE /\ o \in fresh
           /\ \E f \in tree : f.off = o.off /\ tree' = tree \ {f}
           /\ fresh' = fresh \ {o}
           /\ added' = added \ BytesOf(o)
           /\ UNCHANGED freed
  BY Zenon, <1>1, <1>2, CancelKeeps
<1>3. CASE /\ o \in fresh => \A f \in tree : f.off # o.off
           /\ freed' = freed \cup {o}
           /\ UNCHANGED <<tree, fresh, added>>
  <2>1. o \in alloc
    BY Zenon, <1>1, <1>3 DEF RangesInv, TreeInv, Live
  <2>2. \A b : /\ Covered(b)' <=> Covered(b)
               /\ Fresh(b)' <=> Fresh(b)
    BY Zenon, <1>3 DEF Covered, Fresh
  <2>3. TypeOK'
    BY <1>1, <1>3 DEF RangesInv, TypeOK
  <2>4. TreeInv' /\ LoggedInv' /\ ActionsInv'
    BY Zenon, <1>1, <1>3, <2>1, <2>2 DEF RangesInv, TreeInv, LoggedInv, ActionsInv
  <2>5. AddInv'
    BY Zenon, <1>1, <1>3 DEF RangesInv, AddInv
  <2>6. CoverInv' /\ FlushInv'
    BY Zenon, <1>1, <1>3, <2>2 DEF RangesInv, CoverInv, FlushInv, BytesOf, End
  <2> QED BY Zenon, <2>3, <2>4, <2>5, <2>6 DEF RangesInv
<1> QED BY Zenon, <1>2, <1>3 DEF TxFree
-----------------------------------------------------------------------------
\* Every call of the transaction, and every iteration of the loop of
\* pmemobj_tx_add_common, keeps the tree, the undo log and the history of
\* requests in step.
THEOREM RangesInvariant == ASSUME Spaced PROVE Spec => []RangesInv
<1>1. Init => RangesInv
  BY Zenon, BeginSound DEF Init
<1>2. RangesInv /\ [Next]_vars => RangesInv'
  <2> SUFFICES ASSUME RangesInv, [Next]_vars PROVE RangesInv'
    OBVIOUS
  <2>1. CASE TxAddRange
    BY Zenon, <2>1, TxAddRangeKeeps
  <2>2. CASE AddIteration
    <3>1. AddWhole \/ ExtendFound \/ SkipFound
      BY Zenon, <2>2 DEF AddIteration
    <3> QED BY Zenon, <2>2, <3>1, AddWholeKeeps, ExtendFoundKeeps, SkipFoundKeeps
  <2>3. CASE AddReturns
    BY Zenon, <2>3, AddReturnsKeeps
  <2>4. CASE TxCommit
    <3>1. alloc' \subseteq Objects
      BY <2>4 DEF TxCommit, RangesInv, TypeOK
    <3> QED BY Zenon, <2>4, <3>1, RestartKeeps DEF TxCommit
  <2>5. CASE TxAbort
    <3>1. alloc' \subseteq Objects
      BY <2>5 DEF TxAbort, RangesInv, TypeOK
    <3> QED BY Zenon, <2>5, <3>1, RestartKeeps DEF TxAbort
  <2>6. CASE \E o \in Objects : TxAlloc(o) \/ TxFree(o)
    BY Zenon, <2>6, TxAllocKeeps, TxFreeKeeps
  <2>7. CASE UNCHANGED vars
    <3>1. /\ UNCHANGED <<tree, logged, alloc, fresh, freed, pc, r, prev, least>>
          /\ UNCHANGED <<added, toflush, quiet>>
      BY Zenon, <2>7 DEF vars, actions, history
    <3> QED BY Zenon, <3>1 DEF RangesInv, TypeOK, TreeInv, LoggedInv, ActionsInv, AddInv,
               CoverInv, FlushInv, Covered, Fresh, Live, BytesOf, End, Inside
  <2> QED BY Zenon, <2>1, <2>2, <2>3, <2>4, <2>5, <2>6, <2>7 DEF Next
<1> QED BY <1>1, <1>2, PTL DEF Spec

\* The ranges of the tree never overlap, in the middle of an add included, none
\* starts where an allocation may insert another (tx_lane_ranges_insert_def),
\* and the assertion of pmemobj_tx_add_common on its right neighbour holds.
THEOREM RangesNeverOverlap == ASSUME Spaced PROVE Spec => []TreeSound
<1>1. RangesInv => TreeSound
  <2> SUFFICES ASSUME RangesInv, NEW o \in Objects \ (alloc \cup fresh), NEW f \in tree
               PROVE  f.off # o.off
    BY Zenon DEF RangesInv, TreeSound, TreeInv, AddInv
  <2>1. PICK p \in alloc \cup fresh : Inside(f, p)
    BY Zenon DEF RangesInv, TreeInv
  <2>2. p \in Objects /\ p # o /\ f \in Range /\ f.size > 0
    BY Zenon DEF RangesInv, TypeOK, TreeInv
  <2>3. End(o) < p.off \/ End(p) < o.off
    BY Zenon, <2>2 DEF Spaced
  <2> QED BY <2>1, <2>2, <2>3, RangeFields, ObjectFields DEF Inside
<1> QED BY <1>1, RangesInvariant, PTL

\* When an add returns, the undo log holds every byte added exactly once, and
\* no byte of an object allocated in the transaction: the requests may
\* overlap, touch and come in any order (pmemobj_tx_add_common).
THEOREM AddedSnapshottedOnce == ASSUME Spaced PROVE Spec => []SnapshottedOnce
<1>1. RangesInv => SnapshottedOnce
  <2> SUFFICES ASSUME RangesInv, pc = "work", NEW b \in Bytes
               PROVE  logged[b] = IF b \in added \ FreshBytes THEN 1 ELSE 0
    BY Zenon DEF SnapshottedOnce
  <2>1. b \notin BytesOf(r)
    <3>1. r \in Range /\ r.size = 0
      BY Zenon DEF RangesInv, TypeOK, AddInv
    <3> QED BY <3>1, RangeFields
  <2>2. Fresh(b) <=> b \in FreshBytes
    BY Zenon DEF Fresh, FreshBytes
  <2>3. Covered(b) /\ ~Fresh(b) <=> b \in added \ FreshBytes
    BY Zenon, <2>1, <2>2 DEF RangesInv, CoverInv
  <2> QED BY Zenon, <2>3 DEF RangesInv, LoggedInv
<1> QED BY <1>1, RangesInvariant, PTL

\* An object allocated and freed in the same transaction is cancelled: it is
\* never in both lists of actions of a commit (pmemobj_tx_free).
THEOREM FreshNeverFreed == ASSUME Spaced PROVE Spec => []FreshFreeCancels
<1>1. RangesInv => FreshFreeCancels
  BY Zenon DEF RangesInv, ActionsInv, FreshFreeCancels
<1> QED BY <1>1, RangesInvariant, PTL

\* A program that gives the flag POBJ_XADD_NO_FLUSH to all requests or to
\* none: commit flushes every byte that was added or allocated.
THEOREM CommitFlushesAll ==
  ASSUME Spaced, TRUE \notin Flags \/ FALSE \notin Flags
  PROVE  Spec => []FlushCovered
<1>1. RangesInv => FlushCovered
  <2> SUFFICES ASSUME RangesInv, pc = "work", NEW b \in toflush \ quiet
               PROVE  \E f \in tree : ~f.noflush /\ b \in BytesOf(f)
    BY Zenon DEF FlushCovered
  <2>1. b \notin BytesOf(r)
    <3>1. r \in Range /\ r.size = 0
      BY Zenon DEF RangesInv, TypeOK, AddInv
    <3> QED BY <3>1, RangeFields
  <2>2. PICK f \in tree : b \in BytesOf(f)
    BY Zenon, <2>1 DEF RangesInv, FlushInv, Covered
  <2>3. TRUE \notin Flags /\ f.noflush \in Flags /\ f \in Range
    BY Zenon DEF RangesInv, FlushInv, TypeOK
  <2>4. f.noflush = FALSE
    BY Zenon, <2>3, RangeFields
  <2> QED BY Zenon, <2>2, <2>4
<1> QED BY <1>1, RangesInvariant, PTL
=============================================================================
