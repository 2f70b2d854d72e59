----------------------------- MODULE Btt_proofs -----------------------------
(***************************************************************************)
(* Proofs about the block translation table, for any number of lanes,      *)
(* blocks and crashes: a power failure at any moment leaves an arena that  *)
(* recovery makes consistent, and a write never fills a block that is      *)
(* being read.                                                             *)
(*                                                                         *)
(* The argument.  A block is shown by the map, owned by a lane, or on its  *)
(* way between them in an exchange that the lane's flog records (Owned).   *)
(* A step changes the map, a flog or neither; what a lane remembers of     *)
(* both stays true because the map lock and the lane are its own.          *)
(***************************************************************************)
EXTENDS Btt, TLAPS

-----------------------------------------------------------------------------
(* Who owns which block.  m is a map and c gives the current flog entry of *)
(* every lane.                                                             *)

\* The block the map shows for l.
Blk(m, l) == Norm(l, m[l]).blk

\* The exchange logged in f has not reached the map m (Incomplete).
Pend(m, f) == f.old # f.new /\ Norm(f.lba, m[f.lba]) = f.old

(* Blocks on the media.  The map shows distinct blocks and the lanes own   *)
(* distinct blocks.  A block in both places belongs to an exchange that is *)
(* logged and has not reached the map; the block such an exchange brings   *)
(* into the map is in neither place and in no other exchange.              *)
Owned(m, c) ==
    /\ \A n, k \in Lanes : c[n].old.blk = c[k].old.blk => n = k
    /\ \A l, j \in Lba : Blk(m, l) = Blk(m, j) => l = j
    /\ \A l \in Lba, n \in Lanes :
          Blk(m, l) = c[n].old.blk => Pend(m, c[n]) /\ c[n].lba = l
    /\ \A n \in Lanes : Pend(m, c[n]) =>
          /\ \A l \in Lba : c[n].new.blk # Blk(m, l)
          /\ \A k \in Lanes : c[n].new.blk # c[k].old.blk
          /\ \A k \in Lanes :
                Pend(m, c[k]) /\ c[n].new.blk = c[k].new.blk => n = k

-----------------------------------------------------------------------------
(* Map entries, map locks and flog pairs.                                  *)

\* Lanes, logical blocks and physical blocks are numbers, in this order of size.
LEMMA LanesInNat ==
    /\ 0 \in Lba /\ Lanes \subseteq Nat /\ Lba \subseteq Nat /\ NoLane \notin Lanes
    /\ \A n \in Lanes : n \in Lba /\ NLba + n \in Blocks
    /\ \A l \in Lba : l \in Blocks /\ MapLock(l) \in Lanes
<1>1. 0 \in Lba /\ Lanes \subseteq Nat /\ Lba \subseteq Nat /\ NoLane \notin Lanes
  BY BttAssumption DEF Lanes, Lba, NoLane
<1>2. \A n \in Lanes : n \in Lba /\ NLba + n \in Blocks
  BY BttAssumption DEF Lanes, Lba, Blocks
<1>3. \A l \in Lba : l \in Blocks
  BY BttAssumption DEF Lba, Blocks
<1>4. \A l \in Lba : MapLock(l) \in Lanes
  BY BttAssumption DEF MapLock, Lanes, Lba
<1> QED BY Zenon, <1>1, <1>2, <1>3, <1>4

\* Numbers of the contents written on the lanes stay in their range.
LEMMA ProductBound ==
    ASSUME NEW a \in Nat, NEW b \in Nat, NEW c \in Nat, NEW d \in Nat, a < b, d < c
    PROVE  a * c + d + 1 \in 1 .. b * c
<1>1. b - a - 1 \in Nat /\ b = a + 1 + (b - a - 1)
  OBVIOUS
<1>2. PICK k \in Nat : b = a + 1 + k
  BY <1>1, Zenon
<1>3. b * c = a * c + c + k * c /\ k * c \in Nat /\ a * c \in Nat
  BY <1>2
<1> HIDE <1>2
<1> QED BY <1>3

\* The fields of a map entry.
LEMMA EntryFields ==
    ASSUME NEW b, NEW s
    PROVE  /\ Entry(b, s).blk = b /\ Entry(b, s).st = s
           /\ b \in Blocks /\ s \in {"initial", "normal", "zero", "error"}
                => Entry(b, s) \in Entries
  BY Zenon DEF Entry, Entries

\* The fields of a flog entry.
LEMMA FlogFields ==
    ASSUME NEW l, NEW o, NEW e, NEW s
    PROVE  LET f == Flog(l, o, e, s)
           IN  /\ f.lba = l /\ f.old = o /\ f.new = e /\ f.seq = s
               /\ l \in Lba /\ o \in Entries /\ e \in Entries /\ s \in 0 .. 3
                    => f \in FlogEntries
  BY Zenon DEF Flog, FlogEntries

\* btt_flog_get_valid names one of the two slots.
LEMMA CurrentSlot ==
    ASSUME NEW pair \in [0 .. 1 -> FlogEntries]
    PROVE  /\ NextSlot(pair) \in 0 .. 1 /\ 1 - NextSlot(pair) \in 0 .. 1
           /\ Current(pair) \in FlogEntries
           /\ Runtime(pair) \in Runtimes
           /\ Runtime(pair).next = NextSlot(pair)
           /\ Runtime(pair).old = Current(pair).old
           /\ Runtime(pair).seq = Current(pair).seq
<1>1. NextSlot(pair) = 0 \/ NextSlot(pair) = 1
  BY Zenon DEF NextSlot
<1>2. NextSlot(pair) \in 0 .. 1 /\ 1 - NextSlot(pair) \in 0 .. 1
  BY <1>1
<1>3. Current(pair) \in FlogEntries
  BY <1>2, Zenon DEF Current
<1>4. Current(pair).old \in Entries /\ Current(pair).seq \in 0 .. 3
  BY <1>3, Zenon DEF FlogEntries
<1> QED BY <1>2, <1>3, <1>4, Zenon DEF Runtime, Runtimes

-----------------------------------------------------------------------------
(* The inductive invariant.                                                *)

\* The current flog entry of every lane.
Cur == [n \in Lanes |-> Current(flog[n])]

\* Positions a lane can be at before the namespace has a layout, inside
\* write_layout, and with its map lock.
Unlaid == {"idle", "begin", "return", "wait", "layout", "info", "arenas"}
InLayout == {"layout", "info", "arenas"}
WithLock == {"flog", "seq", "map", "unlock", "set"}

(* What lane n knows at position p with the locals o: pair and r are its   *)
(* flog pair and its run-time state, e is the map entry of the block it    *)
(* works on, h the holder of that entry's lock and t its place in the read *)
(* tracking table.                                                         *)
LaneOK(n, p, o, pair, r, e, h, t) ==
    /\ p \in {"check", "again", "block", "clear"} => o.kind = "read"
    /\ p \in {"scan", "fill", "flog", "seq", "map"} => o.kind = "write"
    /\ p = "set" => o.kind \in {"zero", "error"}
    /\ p \in {"lock", "unlock"} => o.kind \in {"write", "zero", "error"}
    /\ p \in Unlaid \ {"return"} => o.scan = 0
    /\ o.kind = "write" => o.val \in Values
    /\ p \in {"again", "block"} => t = o.entry /\ o.entry.st = "normal"
    /\ o.kind = "write" /\ p \in {"scan", "fill", "lock", "flog", "seq"} =>
          o.new = Entry(Current(pair).old.blk, "normal")
    /\ p \in WithLock => h = n
    /\ p \in {"flog", "seq", "map", "set"} => e = o.entry
    /\ p = "seq" =>
          pair[r.next].lba = o.lba /\ pair[r.next].old = Norm(o.lba, o.entry)
    /\ p = "map" \/ (p = "unlock" /\ o.kind = "write") =>
          /\ Current(pair).lba = o.lba /\ Current(pair).old = Norm(o.lba, o.entry)
          /\ Current(pair).new = o.new /\ o.new.st = "normal"
    /\ p = "map" => o.new # Norm(o.lba, o.entry)
    /\ p = "unlock" =>
          e = IF o.kind = "write" THEN o.new
                                  ELSE Entry(Norm(o.lba, o.entry).blk, o.kind)

LaneInv(n) == LaneOK(n, pc[n], loc[n], flog[n], rt[n], map[loc[n].lba],
                     map_locks[MapLock(loc[n].lba)], rtt[n])

\* write_layout runs under its mutex and once.
FreshMedia == /\ \A n \in Lanes : flog[n] = FirstFlog(n)
              /\ \A l \in Lba : map[l] = Initial

LayoutInv(n) ==
    /\ ~laidout => pc[n] \in Unlaid
    /\ pc[n] \in InLayout => layout_lock = n
    /\ pc[n] \in {"info", "arenas"} => ~laidout /\ FreshMedia
    /\ pc[n] = "arenas" => info
    /\ pc[n] = "info" => ~info

PhaseInv ==
    /\ phase # "up" => ~laidout /\ \A n \in Lanes : pc[n] = "idle"
    /\ phase = "down" => rlane = 0
    /\ phase = "recover" \/ laidout => info
    /\ phase = "up" /\ ~laidout /\ info => \E n \in Lanes : pc[n] = "arenas"
    /\ ~info /\ NsIsZeroed => \A l \in Lba : map[l] = Initial

\* The flogs: who may have an exchange pending, and what is loaded of them.
FlogOK(n) ==
    /\ Cur[n].seq \in 1 .. 3 /\ Cur[n].new.st # "initial"
    /\ Pend(map, Cur[n]) => /\ phase = "up" => pc[n] = "map"
                            /\ phase = "recover" => n >= rlane
    /\ (phase = "up" /\ laidout) \/ (phase = "recover" /\ n < rlane) =>
          rt[n] = Runtime(flog[n])

FlogInv == info => Owned(map, Cur) /\ \A n \in Lanes : FlogOK(n)

\* Writer n, once it has passed reader m in the table, has another block.
Apart(n, m) ==
    /\ pc[m] = "block"
    /\ pc[n] = "fill" \/ (pc[n] = "scan" /\ loc[n].scan > m)
    => loc[n].new.blk # loc[m].entry.blk

BttInv ==
    /\ TypeOK
    /\ PhaseInv
    /\ FlogInv
    /\ \A n \in Lanes : LaneInv(n) /\ LayoutInv(n)
    /\ \A n, m \in Lanes : Apart(n, m)

\* The invariant holds before the layout is written.
LEMMA InitBtt == Init => BttInv
<1> SUFFICES ASSUME Init PROVE BttInv
  BY Zenon
<1>1. Initial \in Entries /\ Entry(0, "normal") \in Entries /\ None \in Entries
  BY LanesInNat, EntryFields, Zenon DEF Initial, None, Entries
<1>2. Zflog \in FlogEntries
  BY <1>1, LanesInNat, FlogFields DEF Zflog
<1>3. NoOp \in Operations /\ NoOp.kind = "idle" /\ NoOp.scan = 0
  BY <1>1, LanesInNat, BttAssumption DEF NoOp, Operation, Operations, Contents
<1>4. [next |-> 0, old |-> Initial, seq |-> 0] \in Runtimes
  BY <1>1 DEF Runtimes
<1>5. TypeOK
  <2>1. flog \in [Lanes -> [0 .. 1 -> FlogEntries]]
    BY <1>2, Zenon DEF Init
  <2>2. map \in [Lba -> Entries]
    BY <1>1, Zenon DEF Init
  <2>3. rlane \in 0 .. NLane /\ crashes \in Nat /\ ops \in [Lanes -> Nat]
    BY BttAssumption DEF Init
  <2>4. pc \in [Lanes -> Positions]
    BY Zenon DEF Init, Positions
  <2>5. loc \in [Lanes -> Operations] /\ out \in [Lanes -> Contents \cup {Junk}]
    BY <1>3, Zenon DEF Init, Contents
  <2>6. /\ rt \in [Lanes -> Runtimes] /\ rtt \in [Lanes -> Entries]
        /\ map_locks \in [Lanes -> Lanes \cup {NoLane}]
    BY <1>1, <1>4, Zenon DEF Init
  <2> QED BY <2>1, <2>2, <2>3, <2>4, <2>5, <2>6, Zenon DEF Init, TypeOK
<1>6. ~info /\ phase = "up" /\ ~laidout /\ \A n \in Lanes : pc[n] = "idle" /\ loc[n] = NoOp
  BY Zenon DEF Init
<1>7. NsIsZeroed => \A l \in Lba : map[l] = Initial
  BY Zenon DEF Init
<1>8. \A n \in Lanes : LaneInv(n)
  BY <1>3, <1>6, Zenon DEF LaneInv, LaneOK, WithLock
<1> QED BY <1>5, <1>6, <1>7, <1>8, Zenon DEF BttInv, PhaseInv, FlogInv, LayoutInv, Apart, Unlaid, InLayout

-----------------------------------------------------------------------------
(* Steps that leave the map, the flogs and what is loaded of them alone.   *)

OthersKeep(n) ==
    \A m \in Lanes : m # n =>
        /\ pc'[m] = pc[m] /\ loc'[m] = loc[m] /\ rtt'[m] = rtt[m]
        /\ pc[m] \in WithLock =>
              map_locks'[MapLock(loc[m].lba)] = map_locks[MapLock(loc[m].lba)]
        /\ pc[m] \in InLayout => layout_lock' = layout_lock

Quiet(n) ==
    /\ phase = "up" /\ UNCHANGED <<map, flog, info, phase, rlane, laidout, rt>>
    /\ pc[n] \notin {"map", "arenas"} /\ OthersKeep(n)

\* A step of one lane that leaves map, flog and blocks alone.
LEMMA QuietKeeps ==
    ASSUME BttInv, TypeOK', NEW n \in Lanes, Quiet(n), LaneInv(n)', LayoutInv(n)',
           \A m \in Lanes : Apart(n, m)' /\ Apart(m, n)'
    PROVE  BttInv'
<1>0. /\ map' = map /\ flog' = flog /\ info' = info /\ phase' = phase /\ rlane' = rlane
      /\ laidout' = laidout /\ rt' = rt /\ phase = "up"
      /\ pc[n] # "map" /\ pc[n] # "arenas"
  BY Zenon DEF Quiet
<1>1. Cur' = Cur
  BY Zenon, <1>0 DEF Cur
<1>2. \A m \in Lanes : pc'[m] = pc[m] \/ m = n
  BY Zenon DEF Quiet, OthersKeep
<1>3. PhaseInv'
  <2>1. PhaseInv
    BY Zenon DEF BttInv
  <2>2. laidout' => info'
    BY Zenon, <2>1, <1>0 DEF PhaseInv
  <2>3. ~laidout' /\ info' => \E m \in Lanes : pc'[m] = "arenas"
    <3> HAVE ~laidout' /\ info'
    <3>1. PICK m \in Lanes : pc[m] = "arenas"
      BY Zenon, <2>1, <1>0 DEF PhaseInv
    <3> QED BY Zenon, <3>1, <1>0, <1>2
  <2>4. ~info' /\ NsIsZeroed => \A l \in Lba : map'[l] = Initial
    BY Zenon, <2>1, <1>0 DEF PhaseInv
  <2> QED BY Zenon, <2>2, <2>3, <2>4, <1>0 DEF PhaseInv
<1>4. FlogInv'
  <2> SUFFICES ASSUME info PROVE Owned(map, Cur) /\ \A m \in Lanes : FlogOK(m)'
    BY Zenon, <1>0, <1>1 DEF FlogInv
  <2>1. Owned(map, Cur) /\ \A m \in Lanes : FlogOK(m)
    BY Zenon DEF BttInv, FlogInv
  <2>2. ASSUME NEW m \in Lanes PROVE FlogOK(m)'
    <3>1. FlogOK(m)
      BY Zenon, <2>1
    <3>2. Pend(map, Cur[m]) => pc'[m] = "map"
      BY Zenon, <3>1, <1>0, <1>2 DEF FlogOK
    <3> QED BY Zenon, <3>1, <3>2, <1>0, <1>1 DEF FlogOK
  <2> QED BY Zenon, <2>1, <2>2
<1>5. ASSUME NEW m \in Lanes, m # n
      PROVE  LaneInv(m)' /\ LayoutInv(m)'
  <2>1. /\ pc'[m] = pc[m] /\ loc'[m] = loc[m] /\ rtt'[m] = rtt[m]
        /\ pc[m] \in WithLock =>
              map_locks'[MapLock(loc[m].lba)] = map_locks[MapLock(loc[m].lba)]
        /\ pc[m] \in InLayout => layout_lock' = layout_lock
    BY Zenon, <1>5 DEF Quiet, OthersKeep
  <2>2. LaneInv(m) /\ LayoutInv(m)
    BY Zenon DEF BttInv
  <2>3. LayoutInv(m)'
    BY Zenon, <2>1, <2>2, <1>0 DEF LayoutInv, FreshMedia
  <2>4. CASE pc[m] \in WithLock
    BY Zenon, <2>1, <2>2, <2>3, <2>4, <1>0 DEF LaneInv
  <2>5. CASE pc[m] \notin WithLock
    <3>1. pc[m] \notin {"flog", "seq", "map", "unlock", "set"}
      BY Zenon, <2>5 DEF WithLock
    <3>2. LaneInv(m)'
      BY ZenonT(30), <2>1, <2>2, <2>5, <3>1, <1>0 DEF LaneInv, LaneOK
    <3> QED BY Zenon, <2>3, <3>2
  <2> QED BY Zenon, <2>4, <2>5
<1>6. ASSUME NEW i \in Lanes, NEW m \in Lanes
      PROVE  Apart(i, m)'
  <2>1. CASE i # n /\ m # n
    <3>1. Apart(i, m)
      BY Zenon DEF BttInv
    <3>2. pc'[i] = pc[i] /\ loc'[i] = loc[i] /\ pc'[m] = pc[m] /\ loc'[m] = loc[m]
      BY Zenon, <2>1 DEF Quiet, OthersKeep
    <3> QED BY Zenon, <3>1, <3>2 DEF Apart
  <2> QED BY Zenon, <2>1
<1>7. \A m \in Lanes : LaneInv(m)' /\ LayoutInv(m)'
  BY Zenon, <1>5
<1> QED BY Zenon, <1>3, <1>4, <1>6, <1>7 DEF BttInv

\* Most of them end neither in a read nor before the data of a write.
LEMMA PlainKeeps ==
    ASSUME BttInv, TypeOK', NEW n \in Lanes, Quiet(n), LaneInv(n)', LayoutInv(n)',
           pc'[n] \notin {"block", "scan", "fill"}
    PROVE  BttInv'
<1>1. \A m \in Lanes : Apart(n, m)' /\ Apart(m, n)'
  BY Zenon DEF Apart
<1> QED BY <1>1, QuietKeeps, Zenon

\* A call of btt_read, btt_write, btt_set_zero or btt_set_error starts.
LEMMA CallKeeps ==
    ASSUME BttInv, NEW n \in Lanes, Calls(n)
    PROVE  BttInv'
<1>1. PICK c \in Kinds[n] :
         Call(n, c[1], c[2], IF c[1] = "write" THEN n * MaxOps + ops[n] + 1 ELSE Zero)
  BY Zenon DEF Calls
<1> DEFINE v == IF c[1] = "write" THEN n * MaxOps + ops[n] + 1 ELSE Zero
           o == Operation(c[1], c[2], v)
<1>2. c[1] \in {"read", "write", "zero", "error"} /\ c[2] \in Lba
  BY BttAssumption DEF Lanes, Lba
<1>3. TypeOK /\ LayoutInv(n)
  BY Zenon DEF BttInv
<1>4. v \in Values \cup {Zero} /\ (c[1] = "write" => v \in Values)
  <2>1. ops[n] \in Nat /\ ops[n] < MaxOps /\ n \in Nat /\ n < NLane /\ NLane \in Nat /\ MaxOps \in Nat
    BY <1>1, <1>3, BttAssumption DEF Call, TypeOK, Lanes
  <2>2. n * MaxOps + ops[n] + 1 \in 1 .. NLane * MaxOps
    BY <2>1, ProductBound, Zenon
  <2> QED BY <2>2, Zenon DEF Values
<1> HIDE DEF v
<1>5. Initial \in Entries
  BY LanesInNat, EntryFields, Zenon DEF Initial
<1>6. o \in Operations /\ o.kind = c[1] /\ o.lba = c[2] /\ o.val = v /\ o.scan = 0
  BY <1>2, <1>4, <1>5, BttAssumption DEF Operation, Operations, Contents
<1> HIDE DEF o
<1>7. /\ phase = "up" /\ pc[n] = "idle"
      /\ ops' = [ops EXCEPT ![n] = @ + 1]
      /\ loc' = [loc EXCEPT ![n] = o] /\ pc' = [pc EXCEPT ![n] = "begin"]
      /\ UNCHANGED <<media, run, out, crashes>>
  BY Zenon, <1>1 DEF Call, At, Goto, o, v
<1>8. TypeOK'
  <2>1. loc' \in [Lanes -> Operations]
    BY Zenon, <1>3, <1>6, <1>7 DEF TypeOK
  <2>2. pc' \in [Lanes -> Positions]
    BY <1>3, <1>7, Zenon DEF TypeOK, Positions
  <2>3. ops' \in [Lanes -> Nat]
    BY <1>3, <1>7 DEF TypeOK
  <2> QED BY Zenon, <2>1, <2>2, <2>3, <1>3, <1>7 DEF TypeOK, media, run
<1>9. Quiet(n)
  BY <1>3, <1>7, Zenon DEF TypeOK, Quiet, OthersKeep, media, run
<1>10. pc'[n] = "begin" /\ loc'[n] = o
  BY <1>3, <1>7, Zenon DEF TypeOK
<1>11. LaneInv(n)'
  BY <1>6, <1>10, <1>4, Zenon DEF LaneInv, LaneOK, WithLock
<1>12. LayoutInv(n)'
  BY <1>10, Zenon DEF LayoutInv, Unlaid, InLayout
<1> QED BY <1>8, <1>9, <1>10, <1>11, <1>12, PlainKeeps, Zenon

\* The locals after an assignment to one of them.
LEMMA ValSet ==
    ASSUME NEW o \in Operations, NEW v \in Contents \cup {Junk}
    PROVE  LET q == [o EXCEPT !.val = v]
           IN  /\ q \in Operations
               /\ q.kind = o.kind /\ q.lba = o.lba /\ q.val = v
               /\ q.scan = o.scan /\ q.entry = o.entry /\ q.new = o.new
  BY Zenon DEF Operations

\* An operation with another map entry read.
LEMMA EntrySet ==
    ASSUME NEW o \in Operations, NEW v \in Entries
    PROVE  LET q == [o EXCEPT !.entry = v]
           IN  /\ q \in Operations
               /\ q.kind = o.kind /\ q.lba = o.lba /\ q.val = o.val
               /\ q.scan = o.scan /\ q.entry = v /\ q.new = o.new
  BY Zenon DEF Operations

\* An operation with another entry to write.
LEMMA NewSet ==
    ASSUME NEW o \in Operations, NEW v \in Entries
    PROVE  LET q == [o EXCEPT !.new = v]
           IN  /\ q \in Operations
               /\ q.kind = o.kind /\ q.lba = o.lba /\ q.val = o.val
               /\ q.scan = o.scan /\ q.entry = o.entry /\ q.new = v
  BY Zenon DEF Operations

\* An operation further in its scan of the read tracking table.
LEMMA ScanSet ==
    ASSUME NEW o \in Operations, NEW v \in 0 .. NLane
    PROVE  LET q == [o EXCEPT !.scan = v]
           IN  /\ q \in Operations
               /\ q.kind = o.kind /\ q.lba = o.lba /\ q.val = o.val
               /\ q.scan = v /\ q.entry = o.entry /\ q.new = o.new
  BY Zenon DEF Operations

\* The operation of an idle lane.
LEMMA NoOpType == NoOp \in Operations /\ NoOp.kind = "idle" /\ NoOp.scan = 0 /\ NoOp.lba \in Lba
<1>1. Initial \in Entries
  BY LanesInNat, EntryFields, Zenon DEF Initial
<1> QED BY <1>1, LanesInNat, BttAssumption DEF NoOp, Operation, Operations, Contents

\* Fields of the locals.
LEMMA LocalTypes ==
    ASSUME TypeOK, NEW n \in Lanes
    PROVE  /\ loc[n] \in Operations
           /\ loc[n].lba \in Lba /\ loc[n].val \in Contents \cup {Junk}
           /\ loc[n].scan \in 0 .. NLane
           /\ loc[n].entry \in Entries /\ loc[n].new \in Entries
           /\ loc[n].entry.blk \in Blocks /\ loc[n].new.blk \in Blocks
           /\ map[loc[n].lba] \in Entries
           /\ flog[n] \in [0 .. 1 -> FlogEntries]
           /\ rt[n] \in Runtimes /\ rt[n].old \in Entries /\ rt[n].old.blk \in Blocks
<1>1. loc[n] \in Operations
  BY Zenon DEF TypeOK
<1>2. /\ loc[n].lba \in Lba /\ loc[n].val \in Contents \cup {Junk}
      /\ loc[n].scan \in 0 .. NLane
      /\ loc[n].entry \in Entries /\ loc[n].new \in Entries
  BY <1>1, Zenon DEF Operations
<1>3. loc[n].entry.blk \in Blocks /\ loc[n].new.blk \in Blocks
  BY <1>2, Zenon DEF Entries
<1>4. map[loc[n].lba] \in Entries /\ flog[n] \in [0 .. 1 -> FlogEntries]
  BY Zenon, <1>2 DEF TypeOK
<1>5. rt[n] \in Runtimes
  BY Zenon DEF TypeOK
<1>6. rt[n].old \in Entries
  BY <1>5, Zenon DEF Runtimes
<1>7. rt[n].old.blk \in Blocks
  BY <1>6, Zenon DEF Entries
<1> QED BY Zenon, <1>1, <1>2, <1>3, <1>4, <1>5, <1>6, <1>7

(* A step of lane n alone, to position p with locals o.                    *)
Moves(n, p, o) ==
    /\ phase = "up"
    /\ pc' = [pc EXCEPT ![n] = p] /\ loc' = [loc EXCEPT ![n] = o]
    /\ UNCHANGED <<map, flog, info, phase, rlane, laidout, rt, ops, crashes>>

\* A lane moves on: the types stay.
LEMMA MoveType ==
    ASSUME TypeOK, NEW n \in Lanes, NEW p \in Positions, NEW o \in Operations,
           Moves(n, p, o),
           data' \in [Blocks -> Values \cup {Junk}],
           layout_lock' \in Lanes \cup {NoLane},
           rtt' \in [Lanes -> Entries],
           map_locks' \in [Lanes -> Lanes \cup {NoLane}],
           out' \in [Lanes -> Contents \cup {Junk}]
    PROVE  TypeOK' /\ pc'[n] = p /\ loc'[n] = o
<1>1. pc' \in [Lanes -> Positions] /\ loc' \in [Lanes -> Operations]
  BY Zenon DEF TypeOK, Moves
<1>2. pc'[n] = p /\ loc'[n] = o
  BY Zenon DEF TypeOK, Moves
<1>3. TypeOK'
  BY Zenon, <1>1 DEF TypeOK, Moves
<1> QED BY Zenon, <1>2, <1>3

(* A step that changes nothing else that another lane could look at.       *)
LEMMA MoveAlone ==
    ASSUME TypeOK, NEW n \in Lanes, NEW p \in Positions, NEW o \in Operations,
           Moves(n, p, o), pc[n] # "map", pc[n] # "arenas",
           UNCHANGED <<layout_lock, rtt, map_locks>>,
           data' \in [Blocks -> Values \cup {Junk}],
           out' \in [Lanes -> Contents \cup {Junk}]
    PROVE  TypeOK' /\ pc'[n] = p /\ loc'[n] = o /\ Quiet(n)
<1>0. layout_lock' = layout_lock /\ rtt' = rtt /\ map_locks' = map_locks
  BY Zenon
<1>1. /\ layout_lock' \in Lanes \cup {NoLane} /\ rtt' \in [Lanes -> Entries]
      /\ map_locks' \in [Lanes -> Lanes \cup {NoLane}]
  BY Zenon, <1>0 DEF TypeOK
<1>2. TypeOK' /\ pc'[n] = p /\ loc'[n] = o
  BY Zenon, <1>1, MoveType
<1>3. \A m \in Lanes : m # n => pc'[m] = pc[m] /\ loc'[m] = loc[m]
  BY Zenon DEF TypeOK, Moves
<1>4. Quiet(n)
  BY Zenon, <1>0, <1>3 DEF Moves, Quiet, OthersKeep
<1> QED BY Zenon, <1>2, <1>4

\* loc[n] with one field changed, and loc as it is.
LEMMA SameLocals ==
    ASSUME TypeOK, NEW n \in Lanes
    PROVE  loc = [loc EXCEPT ![n] = loc[n]]
  BY Zenon DEF TypeOK

\* btt_read and btt_set_zero on a namespace without a layout.
LEMMA WithoutLayoutKeeps ==
    ASSUME BttInv, NEW n \in Lanes, WithoutLayout(n)
    PROVE  BttInv'
<1> DEFINE o == [loc[n] EXCEPT !.val = Zero]
<1>1. TypeOK /\ LaneInv(n)
  BY Zenon DEF BttInv
<1>2. /\ phase = "up" /\ pc[n] = "begin" /\ loc[n].kind # "write"
      /\ data' = data /\ out' = out
  BY Zenon DEF WithoutLayout, At, NeedsLayout, media
<1>3. Moves(n, "return", o) /\ UNCHANGED <<layout_lock, rtt, map_locks>>
  BY Zenon DEF WithoutLayout, At, Goto, Moves, media, run
<1>4. o \in Operations /\ o.kind = loc[n].kind /\ o.scan = loc[n].scan
  <2>1. Zero \in Contents \cup {Junk} /\ loc[n] \in Operations
    BY <1>1, LocalTypes, Zenon DEF Contents
  <2> QED BY <2>1, ValSet, Zenon
<1> HIDE DEF o
<1>5. data' \in [Blocks -> Values \cup {Junk}] /\ out' \in [Lanes -> Contents \cup {Junk}]
  BY Zenon, <1>1, <1>2 DEF TypeOK
<1>6. TypeOK' /\ pc'[n] = "return" /\ loc'[n] = o /\ Quiet(n)
  BY <1>1, <1>2, <1>3, <1>4, <1>5, MoveAlone, Zenon DEF Positions
<1>7. LaneInv(n)'
  BY <1>1, <1>2, <1>4, <1>6, Zenon DEF LaneInv, LaneOK, WithLock, Unlaid
<1>8. LayoutInv(n)'
  BY <1>6, Zenon DEF LayoutInv, Unlaid, InLayout
<1> QED BY <1>6, <1>7, <1>8, PlainKeeps, Zenon

\* The return of a call that holds nothing.
LEMMA ReturnKeeps ==
    ASSUME BttInv, NEW n \in Lanes, Return(n)
    PROVE  BttInv'
<1>1. TypeOK
  BY Zenon DEF BttInv
<1>2. phase = "up" /\ pc[n] = "return" /\ data' = data
  BY Zenon DEF Return, At, media
<1>3. Moves(n, "idle", NoOp) /\ UNCHANGED <<layout_lock, rtt, map_locks>>
  BY Zenon DEF Return, At, Leave, Goto, Moves, media, run
<1>4. data' \in [Blocks -> Values \cup {Junk}]
  BY Zenon, <1>1, <1>2 DEF TypeOK
<1>5. out' \in [Lanes -> Contents \cup {Junk}]
  <2>1. out \in [Lanes -> Contents \cup {Junk}] /\ loc[n].val \in Contents \cup {Junk}
    BY Zenon, <1>1, LocalTypes DEF TypeOK
  <2> QED BY <2>1, Zenon DEF Return
<1>6. TypeOK' /\ pc'[n] = "idle" /\ loc'[n] = NoOp /\ Quiet(n)
  BY <1>1, <1>2, <1>3, <1>4, <1>5, NoOpType, MoveAlone, Zenon DEF Positions
<1>7. LaneInv(n)'
  BY <1>6, NoOpType, Zenon DEF LaneInv, LaneOK, WithLock
<1>8. LayoutInv(n)'
  BY <1>6, Zenon DEF LayoutInv, Unlaid, InLayout
<1> QED BY <1>6, <1>7, <1>8, PlainKeeps, Zenon

\* The look at laidout before the lock.
LEMMA LayoutMissingKeeps ==
    ASSUME BttInv, NEW n \in Lanes, LayoutMissing(n)
    PROVE  BttInv'
<1>1. TypeOK /\ LaneInv(n)
  BY Zenon DEF BttInv
<1>2. phase = "up" /\ pc[n] = "begin" /\ data' = data /\ out' = out /\ loc' = loc
  BY Zenon DEF LayoutMissing, At, media
<1>3. Moves(n, "wait", loc[n]) /\ UNCHANGED <<layout_lock, rtt, map_locks>>
  BY <1>1, SameLocals, Zenon DEF LayoutMissing, At, Goto, Moves, media, run
<1>4. data' \in [Blocks -> Values \cup {Junk}] /\ out' \in [Lanes -> Contents \cup {Junk}]
  BY Zenon, <1>1, <1>2 DEF TypeOK
<1>5. TypeOK' /\ pc'[n] = "wait" /\ loc'[n] = loc[n] /\ Quiet(n)
  BY <1>1, <1>2, <1>3, <1>4, LocalTypes, MoveAlone, Zenon DEF Positions
<1>6. LaneInv(n)'
  BY <1>1, <1>2, <1>5, Zenon DEF LaneInv, LaneOK, WithLock, Unlaid
<1>7. LayoutInv(n)'
  BY <1>5, Zenon DEF LayoutInv, Unlaid, InLayout
<1> QED BY <1>5, <1>6, <1>7, PlainKeeps, Zenon

\* layout_write_mutex is taken, ...
LEMMA LayoutLockKeeps ==
    ASSUME BttInv, NEW n \in Lanes, LayoutLock(n)
    PROVE  BttInv'
<1>1. TypeOK /\ LaneInv(n) /\ \A m \in Lanes : LayoutInv(m)
  BY Zenon DEF BttInv
<1>2. /\ phase = "up" /\ pc[n] = "wait" /\ data' = data /\ out' = out /\ loc' = loc
      /\ layout_lock = NoLane /\ layout_lock' = n /\ rtt' = rtt /\ map_locks' = map_locks
  BY Zenon DEF LayoutLock, At, media
<1>3. Moves(n, "layout", loc[n])
  BY <1>1, SameLocals, Zenon DEF LayoutLock, At, Goto, Moves, media
<1>4. /\ data' \in [Blocks -> Values \cup {Junk}] /\ out' \in [Lanes -> Contents \cup {Junk}]
      /\ layout_lock' \in Lanes \cup {NoLane} /\ rtt' \in [Lanes -> Entries]
      /\ map_locks' \in [Lanes -> Lanes \cup {NoLane}]
  BY <1>1, <1>2, Zenon DEF TypeOK
<1>5. TypeOK' /\ pc'[n] = "layout" /\ loc'[n] = loc[n]
  BY <1>1, <1>3, <1>4, LocalTypes, MoveType, Zenon DEF Positions
<1>6. \A m \in Lanes : m # n => pc'[m] = pc[m] /\ loc'[m] = loc[m]
  BY Zenon, <1>1, <1>3 DEF TypeOK, Moves
<1>7. \A m \in Lanes : pc[m] \notin InLayout
  BY Zenon, <1>1, <1>2, LanesInNat DEF LayoutInv
<1>8. Quiet(n)
  BY Zenon, <1>2, <1>3, <1>6, <1>7 DEF Quiet, OthersKeep, Moves
<1>9. LaneInv(n)'
  BY <1>1, <1>2, <1>3, <1>5, Zenon DEF LaneInv, LaneOK, WithLock, Unlaid, Moves
<1>10. LayoutInv(n)'
  BY <1>2, <1>5, Zenon DEF LayoutInv, Unlaid, InLayout
<1> QED BY <1>5, <1>8, <1>9, <1>10, PlainKeeps, Zenon

\* ... and given back by a lane that finds the layout there.
LEMMA LayoutThereKeeps ==
    ASSUME BttInv, NEW n \in Lanes, LayoutThere(n)
    PROVE  BttInv'
<1>1. TypeOK /\ LaneInv(n) /\ \A m \in Lanes : LayoutInv(m)
  BY Zenon DEF BttInv
<1>2. /\ phase = "up" /\ pc[n] = "layout" /\ data' = data /\ out' = out /\ loc' = loc
      /\ layout_lock' = NoLane /\ rtt' = rtt /\ map_locks' = map_locks
  BY Zenon DEF LayoutThere, At, media
<1>3. Moves(n, "begin", loc[n])
  BY <1>1, SameLocals, Zenon DEF LayoutThere, At, Goto, Moves, media
<1>4. /\ data' \in [Blocks -> Values \cup {Junk}] /\ out' \in [Lanes -> Contents \cup {Junk}]
      /\ layout_lock' \in Lanes \cup {NoLane} /\ rtt' \in [Lanes -> Entries]
      /\ map_locks' \in [Lanes -> Lanes \cup {NoLane}]
  BY <1>1, <1>2, Zenon DEF TypeOK
<1>5. TypeOK' /\ pc'[n] = "begin" /\ loc'[n] = loc[n]
  BY <1>1, <1>3, <1>4, LocalTypes, MoveType, Zenon DEF Positions
<1>6. \A m \in Lanes : m # n => pc'[m] = pc[m] /\ loc'[m] = loc[m]
  BY Zenon, <1>1, <1>3 DEF TypeOK, Moves
<1>7. \A m \in Lanes : m # n => pc[m] \notin InLayout
  BY <1>1, <1>2, Zenon DEF LayoutInv, InLayout
<1>8. Quiet(n)
  BY Zenon, <1>2, <1>3, <1>6, <1>7 DEF Quiet, OthersKeep, Moves
<1>9. LaneInv(n)'
  BY <1>1, <1>2, <1>3, <1>5, Zenon DEF LaneInv, LaneOK, WithLock, Unlaid, Moves
<1>10. LayoutInv(n)'
  BY <1>5, Zenon DEF LayoutInv, Unlaid, InLayout
<1> QED BY <1>5, <1>8, <1>9, <1>10, PlainKeeps, Zenon

-----------------------------------------------------------------------------
(* btt_read.                                                               *)

\* Past the first look at laidout the layout is there and loaded.
LEMMA LaidOut ==
    ASSUME BttInv, NEW n \in Lanes, laidout \/ pc[n] \notin Unlaid
    PROVE  /\ phase = "up" /\ laidout /\ info /\ Owned(map, Cur)
           /\ \A m \in Lanes : FlogOK(m) /\ rt[m] = Runtime(flog[m]) /\ Cur[m] = Current(flog[m])
<1>1. laidout
  BY Zenon DEF BttInv, LayoutInv
<1>2. phase = "up" /\ info
  BY Zenon, <1>1 DEF BttInv, PhaseInv
<1>3. Owned(map, Cur) /\ \A m \in Lanes : FlogOK(m)
  BY Zenon, <1>2 DEF BttInv, FlogInv
<1>4. \A m \in Lanes : rt[m] = Runtime(flog[m])
  BY Zenon, <1>1, <1>2, <1>3 DEF FlogOK
<1>5. \A m \in Lanes : Cur[m] = Current(flog[m])
  BY Zenon DEF Cur
<1> QED BY Zenon, <1>1, <1>2, <1>3, <1>4, <1>5

\* The block a writer is about to fill is not one the map shows.
LEMMA FreeNotShown ==
    ASSUME BttInv, NEW n \in Lanes, pc[n] \in {"scan", "fill"},
           NEW l \in Lba, map[l].st = "normal"
    PROVE  map[l].blk # loc[n].new.blk
<1>1. pc[n] \notin Unlaid /\ pc[n] # "map"
  BY Zenon DEF Unlaid
<1>2. Owned(map, Cur) /\ FlogOK(n) /\ phase = "up" /\ Cur[n] = Current(flog[n])
  BY Zenon, <1>1, LaidOut
<1>3. ~Pend(map, Cur[n])
  BY Zenon, <1>1, <1>2 DEF FlogOK
<1>4. Blk(map, l) # Cur[n].old.blk
  BY Zenon, <1>2, <1>3 DEF Owned
<1>5. Blk(map, l) = map[l].blk
  BY Zenon DEF Blk, Norm
<1>6. loc[n].new = Entry(Cur[n].old.blk, "normal")
  BY <1>2, Zenon DEF BttInv, LaneInv, LaneOK
<1>7. Entry(Cur[n].old.blk, "normal").blk = Cur[n].old.blk
  BY Zenon, EntryFields
<1> QED BY Zenon, <1>4, <1>5, <1>6, <1>7

\* btt_read: the map entry is read.
LEMMA ReadEntryKeeps ==
    ASSUME BttInv, NEW n \in Lanes, ReadEntry(n)
    PROVE  BttInv'
<1> DEFINE o == [loc[n] EXCEPT !.entry = map[loc[n].lba]]
<1>1. TypeOK /\ LaneInv(n)
  BY Zenon DEF BttInv
<1>2. /\ phase = "up" /\ pc[n] = "begin" /\ loc[n].kind = "read" /\ laidout
      /\ data' = data /\ out' = out /\ laidout' = laidout
  BY Zenon DEF ReadEntry, At, media, run
<1>3. Moves(n, "check", o) /\ UNCHANGED <<layout_lock, rtt, map_locks>>
  BY Zenon DEF ReadEntry, At, Goto, Moves, media, run
<1>4. o \in Operations /\ o.kind = loc[n].kind
  BY <1>1, LocalTypes, EntrySet, Zenon
<1> HIDE DEF o
<1>5. data' \in [Blocks -> Values \cup {Junk}] /\ out' \in [Lanes -> Contents \cup {Junk}]
  BY Zenon, <1>1, <1>2 DEF TypeOK
<1>6. TypeOK' /\ pc'[n] = "check" /\ loc'[n] = o /\ Quiet(n)
  BY <1>1, <1>2, <1>3, <1>4, <1>5, MoveAlone, Zenon DEF Positions
<1>7. LaneInv(n)'
  BY <1>2, <1>4, <1>6, Zenon DEF LaneInv, LaneOK, WithLock, Unlaid
<1>8. LayoutInv(n)'
  BY <1>2, <1>6, Zenon DEF LayoutInv, InLayout
<1> QED BY <1>6, <1>7, <1>8, PlainKeeps, Zenon

\* btt_read: a block flagged zero or error is not read.
LEMMA ReadFlaggedKeeps ==
    ASSUME BttInv, NEW n \in Lanes, ReadFlagged(n)
    PROVE  BttInv'
<1> DEFINE v == IF loc[n].entry.st = "error" THEN Error ELSE Zero
           o == [loc[n] EXCEPT !.val = v]
<1>1. TypeOK /\ LaneInv(n)
  BY Zenon DEF BttInv
<1>2. phase = "up" /\ pc[n] = "check" /\ data' = data /\ out' = out
  BY Zenon DEF ReadFlagged, At, media
<1>3. Moves(n, "return", o) /\ UNCHANGED <<layout_lock, rtt, map_locks>>
  BY Zenon DEF ReadFlagged, At, Goto, Moves, media, run
<1>4. o \in Operations /\ o.kind = loc[n].kind /\ o.scan = loc[n].scan
  <2>1. v \in Contents \cup {Junk} /\ loc[n] \in Operations
    BY <1>1, LocalTypes, Zenon DEF Contents
  <2> HIDE DEF v
  <2> QED BY <2>1, ValSet, Zenon
<1> HIDE DEF o
<1>5. data' \in [Blocks -> Values \cup {Junk}] /\ out' \in [Lanes -> Contents \cup {Junk}]
  BY Zenon, <1>1, <1>2 DEF TypeOK
<1>6. TypeOK' /\ pc'[n] = "return" /\ loc'[n] = o /\ Quiet(n)
  BY <1>1, <1>2, <1>3, <1>4, <1>5, MoveAlone, Zenon DEF Positions
<1>7. LaneInv(n)'
  BY <1>1, <1>2, <1>4, <1>6, Zenon DEF LaneInv, LaneOK, WithLock, Unlaid
<1>8. LayoutInv(n)'
  BY <1>6, Zenon DEF LayoutInv, Unlaid, InLayout
<1> QED BY <1>6, <1>7, <1>8, PlainKeeps, Zenon

\* btt_read: the block is entered in the read tracking table.
LEMMA ReadTrackKeeps ==
    ASSUME BttInv, NEW n \in Lanes, ReadTrack(n)
    PROVE  BttInv'
<1>1. TypeOK /\ LaneInv(n) /\ LayoutInv(n)
  BY Zenon DEF BttInv
<1>2. /\ phase = "up" /\ pc[n] = "check" /\ data' = data /\ out' = out /\ loc' = loc
      /\ layout_lock' = layout_lock /\ map_locks' = map_locks /\ laidout' = laidout
      /\ rtt' = [rtt EXCEPT ![n] = loc[n].entry] /\ loc[n].entry.st = "normal"
  BY Zenon DEF ReadTrack, At, media
<1>3. Moves(n, "again", loc[n])
  BY <1>1, SameLocals, Zenon DEF ReadTrack, At, Goto, Moves, media
<1>4. /\ data' \in [Blocks -> Values \cup {Junk}] /\ out' \in [Lanes -> Contents \cup {Junk}]
      /\ layout_lock' \in Lanes \cup {NoLane}
      /\ map_locks' \in [Lanes -> Lanes \cup {NoLane}]
  BY Zenon, <1>1, <1>2 DEF TypeOK
<1>5. rtt' \in [Lanes -> Entries]
  BY Zenon, <1>1, <1>2, LocalTypes DEF TypeOK
<1>6. TypeOK' /\ pc'[n] = "again" /\ loc'[n] = loc[n]
  BY <1>1, <1>3, <1>4, <1>5, LocalTypes, MoveType, Zenon DEF Positions
<1>7. \A m \in Lanes : m # n => pc'[m] = pc[m] /\ loc'[m] = loc[m] /\ rtt'[m] = rtt[m]
  BY Zenon, <1>1, <1>2, <1>3 DEF TypeOK, Moves
<1>8. rtt'[n] = loc[n].entry
  BY Zenon, <1>1, <1>2 DEF TypeOK
<1>9. Quiet(n)
  BY <1>2, <1>3, <1>7, Zenon DEF Quiet, OthersKeep, Moves
<1>10. LaneInv(n)'
  BY <1>1, <1>2, <1>6, <1>8, Zenon DEF LaneInv, LaneOK, WithLock, Unlaid
<1>11. LayoutInv(n)'
  BY <1>1, <1>2, <1>6, Zenon DEF LayoutInv, Unlaid, InLayout
<1> QED BY <1>6, <1>9, <1>10, <1>11, PlainKeeps, Zenon

\* btt_read: the map entry is read again, now that the block is tracked.
LEMMA ReadAgainKeeps ==
    ASSUME BttInv, NEW n \in Lanes, ReadAgain(n)
    PROVE  BttInv'
<1> DEFINE e == map[loc[n].lba]
           o == [loc[n] EXCEPT !.entry = e]
           p == IF e = loc[n].entry THEN "block" ELSE "check"
<1>1. TypeOK /\ LaneInv(n) /\ LayoutInv(n)
  BY Zenon DEF BttInv
<1>2. phase = "up" /\ pc[n] = "again" /\ data' = data /\ out' = out /\ laidout' = laidout
  BY Zenon DEF ReadAgain, At, media, run
<1>3. Moves(n, p, o) /\ UNCHANGED <<layout_lock, rtt, map_locks>>
  BY Zenon DEF ReadAgain, At, Goto, Moves, media, run
<1>4. o \in Operations /\ o.kind = loc[n].kind /\ o.entry = e
  BY <1>1, LocalTypes, EntrySet
<1>5. p \in {"block", "check"} /\ (p = "block" => e = loc[n].entry)
  BY Zenon
<1> HIDE DEF o, p
<1>6. data' \in [Blocks -> Values \cup {Junk}] /\ out' \in [Lanes -> Contents \cup {Junk}]
  BY Zenon, <1>1, <1>2 DEF TypeOK
<1>7. TypeOK' /\ pc'[n] = p /\ loc'[n] = o /\ Quiet(n)
  BY <1>1, <1>2, <1>3, <1>4, <1>5, <1>6, MoveAlone DEF Positions
<1>8. LaneInv(n)'
  BY <1>1, <1>2, <1>3, <1>4, <1>5, <1>7, Zenon DEF LaneInv, LaneOK, WithLock, Unlaid
<1>9. LayoutInv(n)'
  BY <1>1, <1>2, <1>5, <1>7, Zenon DEF LayoutInv, Unlaid, InLayout
<1>10. ASSUME NEW m \in Lanes
       PROVE  Apart(n, m)' /\ Apart(m, n)'
  <2>1. Apart(n, m)'
    BY <1>5, <1>7, Zenon DEF Apart
  <2>2. ASSUME p = "block", pc'[m] \in {"scan", "fill"}
        PROVE  loc'[m].new.blk # o.entry.blk
    <3>1. m # n
      BY <2>2, <1>7, Zenon
    <3>2. pc'[m] = pc[m] /\ loc'[m] = loc[m]
      BY Zenon, <3>1, <1>7 DEF Quiet, OthersKeep
    <3>3. loc[n].entry.st = "normal" /\ e = loc[n].entry
      BY <2>2, <1>1, <1>2, <1>5, Zenon DEF LaneInv, LaneOK
    <3>4. e.blk # loc[m].new.blk
      BY Zenon, <2>2, <3>2, <3>3, <1>1, LocalTypes, FreeNotShown
    <3> QED BY Zenon, <3>2, <3>4, <1>4
  <2>3. Apart(m, n)'
    BY Zenon, <2>2, <1>7 DEF Apart
  <2> QED BY Zenon, <2>1, <2>3
<1> QED BY <1>7, <1>8, <1>9, <1>10, QuietKeeps, Zenon

\* btt_read: the block is read; no writer has it.
LEMMA ReadBlockKeeps ==
    ASSUME BttInv, NEW n \in Lanes, ReadBlock(n)
    PROVE  BttInv'
<1> DEFINE v == data[loc[n].entry.blk]
           o == [loc[n] EXCEPT !.val = v]
<1>1. TypeOK /\ LaneInv(n) /\ LayoutInv(n)
  BY Zenon DEF BttInv
<1>2. phase = "up" /\ pc[n] = "block" /\ data' = data /\ out' = out /\ laidout' = laidout
  BY Zenon DEF ReadBlock, At, media, run
<1>3. Moves(n, "clear", o) /\ UNCHANGED <<layout_lock, rtt, map_locks>>
  BY Zenon DEF ReadBlock, At, Goto, Moves, media, run
<1>4. o \in Operations /\ o.kind = loc[n].kind
  <2>1. v \in Values \cup {Junk} /\ loc[n] \in Operations
    BY Zenon, <1>1, LocalTypes DEF TypeOK
  <2> HIDE DEF v
  <2>2. v \in Contents \cup {Junk}
    BY Zenon, <2>1 DEF Contents
  <2> QED BY <2>1, <2>2, ValSet, Zenon
<1> HIDE DEF o
<1>5. data' \in [Blocks -> Values \cup {Junk}] /\ out' \in [Lanes -> Contents \cup {Junk}]
  BY Zenon, <1>1, <1>2 DEF TypeOK
<1>6. TypeOK' /\ pc'[n] = "clear" /\ loc'[n] = o /\ Quiet(n)
  BY <1>1, <1>2, <1>3, <1>4, <1>5, MoveAlone, Zenon DEF Positions
<1>7. LaneInv(n)'
  BY <1>1, <1>2, <1>4, <1>6, Zenon DEF LaneInv, LaneOK, WithLock, Unlaid
<1>8. LayoutInv(n)'
  BY <1>1, <1>2, <1>6, Zenon DEF LayoutInv, Unlaid, InLayout
<1> QED BY <1>6, <1>7, <1>8, PlainKeeps, Zenon

\* btt_read: the block is no longer tracked.
LEMMA ReadClearKeeps ==
    ASSUME BttInv, NEW n \in Lanes, ReadClear(n)
    PROVE  BttInv'
<1>1. TypeOK
  BY Zenon DEF BttInv
<1>2. /\ phase = "up" /\ pc[n] = "clear" /\ data' = data
      /\ layout_lock' = layout_lock /\ map_locks' = map_locks
      /\ rtt' = [rtt EXCEPT ![n] = None] /\ out' = [out EXCEPT ![n] = loc[n].val]
  BY Zenon DEF ReadClear, At, media
<1>3. Moves(n, "idle", NoOp)
  BY Zenon DEF ReadClear, At, Leave, Goto, Moves, media
<1>4. /\ data' \in [Blocks -> Values \cup {Junk}]
      /\ layout_lock' \in Lanes \cup {NoLane}
      /\ map_locks' \in [Lanes -> Lanes \cup {NoLane}]
  BY Zenon, <1>1, <1>2 DEF TypeOK
<1>5. rtt' \in [Lanes -> Entries] /\ out' \in [Lanes -> Contents \cup {Junk}]
  <2>1. None \in Entries
    BY LanesInNat, Zenon DEF None, Entries
  <2> QED BY Zenon, <2>1, <1>1, <1>2, LocalTypes DEF TypeOK
<1>6. TypeOK' /\ pc'[n] = "idle" /\ loc'[n] = NoOp
  BY <1>1, <1>3, <1>4, <1>5, NoOpType, MoveType, Zenon DEF Positions
<1>7. \A m \in Lanes : m # n => pc'[m] = pc[m] /\ loc'[m] = loc[m] /\ rtt'[m] = rtt[m]
  BY Zenon, <1>1, <1>2, <1>3 DEF TypeOK, Moves
<1>8. Quiet(n)
  BY <1>2, <1>3, <1>7, Zenon DEF Quiet, OthersKeep, Moves
<1>9. LaneInv(n)'
  BY <1>6, NoOpType, Zenon DEF LaneInv, LaneOK, WithLock
<1>10. LayoutInv(n)'
  BY <1>6, Zenon DEF LayoutInv, Unlaid, InLayout
<1> QED BY <1>6, <1>8, <1>9, <1>10, PlainKeeps, Zenon

-----------------------------------------------------------------------------
(* btt_write up to the flog, and the map locks.                            *)

\* btt_write: the free block of the lane is chosen.
LEMMA WriteBeginKeeps ==
    ASSUME BttInv, NEW n \in Lanes, WriteBegin(n)
    PROVE  BttInv'
<1> DEFINE e == Entry(rt[n].old.blk, "normal")
           o == [loc[n] EXCEPT !.new = e]
<1>1. TypeOK /\ LaneInv(n)
  BY Zenon DEF BttInv
<1>2. /\ phase = "up" /\ pc[n] = "begin" /\ loc[n].kind = "write" /\ laidout
      /\ data' = data /\ out' = out /\ laidout' = laidout /\ flog' = flog
  BY Zenon DEF WriteBegin, At, media, run
<1>3. Moves(n, "scan", o) /\ UNCHANGED <<layout_lock, rtt, map_locks>>
  BY Zenon DEF WriteBegin, At, Goto, Moves, media, run
<1>4. e \in Entries
  BY <1>1, LocalTypes, EntryFields, Zenon
<1>5. e = Entry(Current(flog[n]).old.blk, "normal")
  BY <1>1, <1>2, LaidOut, LocalTypes, CurrentSlot, Zenon
<1> HIDE DEF e
<1>6. /\ o \in Operations /\ o.kind = "write" /\ o.val = loc[n].val /\ o.scan = loc[n].scan
      /\ o.new = e
  BY <1>1, <1>2, <1>4, LocalTypes, NewSet
<1> HIDE DEF o
<1>7. data' \in [Blocks -> Values \cup {Junk}] /\ out' \in [Lanes -> Contents \cup {Junk}]
  BY Zenon, <1>1, <1>2 DEF TypeOK
<1>8. TypeOK' /\ pc'[n] = "scan" /\ loc'[n] = o /\ Quiet(n)
  BY <1>1, <1>2, <1>3, <1>6, <1>7, MoveAlone, Zenon DEF Positions
<1>9. o.val \in Values /\ o.scan = 0
  BY <1>1, <1>2, <1>6, Zenon DEF LaneInv, LaneOK, Unlaid
<1>10. LaneInv(n)'
  BY <1>2, <1>5, <1>6, <1>8, <1>9, Zenon DEF LaneInv, LaneOK, WithLock, Unlaid
<1>11. LayoutInv(n)'
  BY <1>2, <1>8, Zenon DEF LayoutInv, InLayout
<1>12. \A m \in Lanes : Apart(n, m)' /\ Apart(m, n)'
  <2>1. \A m \in Lanes : ~(0 > m)
    BY LanesInNat
  <2> QED BY <2>1, <1>8, <1>9, Zenon DEF Apart
<1> QED BY <1>8, <1>10, <1>11, <1>12, QuietKeeps, Zenon

\* A map entry is its block and its flag.
LEMMA EntrySame ==
    ASSUME NEW d \in Entries, NEW e \in Entries, d.blk = e.blk, d.st = e.st
    PROVE  d = e
  BY DEF Entries

\* A writer passes a place of the table that does not hold its block.
LEMMA WriteScanKeeps ==
    ASSUME BttInv, NEW n \in Lanes, WriteScan(n)
    PROVE  BttInv'
<1> DEFINE i == loc[n].scan
           o == [loc[n] EXCEPT !.scan = i + 1]
<1>1. TypeOK /\ LaneInv(n) /\ LayoutInv(n)
  BY Zenon DEF BttInv
<1>2. /\ phase = "up" /\ pc[n] = "scan" /\ i < NLane /\ rtt[i] # loc[n].new
      /\ data' = data /\ out' = out /\ laidout' = laidout /\ flog' = flog
  BY Zenon DEF WriteScan, At, media, run
<1>3. Moves(n, "scan", o) /\ UNCHANGED <<layout_lock, rtt, map_locks>>
  <2>1. loc' = [loc EXCEPT ![n] = o]
    BY <1>1, Zenon DEF WriteScan, TypeOK
  <2>2. pc' = [pc EXCEPT ![n] = "scan"]
    BY <1>1, <1>2, Zenon DEF WriteScan, TypeOK
  <2> HIDE DEF o
  <2> QED BY <2>1, <2>2, Zenon DEF WriteScan, At, Moves, media, run
<1>4. i \in 0 .. NLane /\ i + 1 \in 0 .. NLane /\ i \in Lanes
  <2>1. i \in 0 .. NLane
    BY Zenon, <1>1, LocalTypes
  <2> HIDE DEF i
  <2> QED BY <2>1, <1>2, BttAssumption DEF Lanes
<1>5. /\ o \in Operations /\ o.kind = loc[n].kind /\ o.val = loc[n].val /\ o.scan = i + 1
      /\ o.new = loc[n].new
  <2>1. loc[n] \in Operations
    BY Zenon, <1>1, LocalTypes
  <2> QED BY Zenon, <1>4, <2>1, ScanSet
<1> HIDE DEF o
<1>6. data' \in [Blocks -> Values \cup {Junk}] /\ out' \in [Lanes -> Contents \cup {Junk}]
  BY Zenon, <1>1, <1>2 DEF TypeOK
<1>7. TypeOK' /\ pc'[n] = "scan" /\ loc'[n] = o /\ Quiet(n)
  BY <1>1, <1>2, <1>3, <1>5, <1>6, MoveAlone, Zenon DEF Positions
<1>8. LaneInv(n)'
  BY <1>1, <1>2, <1>5, <1>7, Zenon DEF LaneInv, LaneOK, WithLock, Unlaid
<1>9. LayoutInv(n)'
  BY <1>1, <1>2, <1>7, Zenon DEF LayoutInv, Unlaid, InLayout
<1>10. ASSUME NEW m \in Lanes
       PROVE  Apart(n, m)' /\ Apart(m, n)'
  <2>1. Apart(m, n)'
    BY <1>7, Zenon DEF Apart
  <2>2. ASSUME pc'[m] = "block", i + 1 > m
        PROVE  loc[n].new.blk # loc'[m].entry.blk
    <3>1. m # n
      BY <2>2, <1>7, Zenon
    <3>2. pc'[m] = pc[m] /\ loc'[m] = loc[m]
      BY Zenon, <3>1, <1>7 DEF Quiet, OthersKeep
    <3>3. i > m \/ i = m
      BY <2>2, <1>4, LanesInNat
    <3>4. CASE i > m
      BY Zenon, <3>2, <3>4, <2>2, <1>2 DEF BttInv, Apart
    <3>5. CASE i = m
      <4>1. rtt[m] = loc[m].entry /\ loc[m].entry.st = "normal"
        BY <2>2, <3>2, Zenon DEF BttInv, LaneInv, LaneOK
      <4>2. loc[n].new.st = "normal"
        BY <1>1, <1>2, EntryFields DEF LaneInv, LaneOK
      <4> QED BY <3>2, <3>5, <4>1, <4>2, <1>1, <1>2, LocalTypes, EntrySame
    <3> QED BY Zenon, <3>3, <3>4, <3>5
  <2>3. Apart(n, m)'
    BY <2>2, <1>5, <1>7, Zenon DEF Apart
  <2> QED BY Zenon, <2>1, <2>3
<1> QED BY <1>7, <1>8, <1>9, <1>10, QuietKeeps, Zenon

\* The whole table has been passed: the block is torn, ...
LEMMA WriteFillKeeps ==
    ASSUME BttInv, NEW n \in Lanes, WriteFill(n)
    PROVE  BttInv'
<1>1. TypeOK /\ LaneInv(n) /\ LayoutInv(n)
  BY Zenon DEF BttInv
<1>2. /\ phase = "up" /\ pc[n] = "scan" /\ loc[n].scan = NLane /\ out' = out /\ loc' = loc
      /\ data' = [data EXCEPT ![loc[n].new.blk] = Junk] /\ laidout' = laidout /\ flog' = flog
  BY Zenon DEF WriteFill, At, run
<1>3. Moves(n, "fill", loc[n]) /\ UNCHANGED <<layout_lock, rtt, map_locks>>
  BY <1>1, SameLocals, Zenon DEF WriteFill, At, Goto, Moves, run
<1>4. data' \in [Blocks -> Values \cup {Junk}] /\ out' \in [Lanes -> Contents \cup {Junk}]
  BY <1>1, <1>2, Zenon DEF TypeOK
<1>5. TypeOK' /\ pc'[n] = "fill" /\ loc'[n] = loc[n] /\ Quiet(n)
  BY <1>1, <1>2, <1>3, <1>4, LocalTypes, MoveAlone, Zenon DEF Positions
<1>6. LaneInv(n)'
  BY <1>1, <1>2, <1>5, Zenon DEF LaneInv, LaneOK, WithLock, Unlaid
<1>7. LayoutInv(n)'
  BY <1>1, <1>2, <1>5, Zenon DEF LayoutInv, Unlaid, InLayout
<1>8. ASSUME NEW m \in Lanes
      PROVE  Apart(n, m)' /\ Apart(m, n)'
  <2>1. Apart(m, n)'
    BY <1>5, Zenon DEF Apart
  <2>2. ASSUME pc'[m] = "block"
        PROVE  loc[n].new.blk # loc'[m].entry.blk
    <3>1. m # n
      BY <2>2, <1>5, Zenon
    <3>2. pc'[m] = pc[m] /\ loc'[m] = loc[m]
      BY Zenon, <3>1, <1>5 DEF Quiet, OthersKeep
    <3>3. loc[n].scan > m
      BY <1>2, BttAssumption DEF Lanes
    <3> QED BY Zenon, <3>2, <3>3, <2>2, <1>2 DEF BttInv, Apart
  <2>3. Apart(n, m)'
    BY Zenon, <2>2, <1>5 DEF Apart
  <2> QED BY Zenon, <2>1, <2>3
<1> QED BY <1>5, <1>6, <1>7, <1>8, QuietKeeps, Zenon

\* ... then it has its contents.
LEMMA WriteFilledKeeps ==
    ASSUME BttInv, NEW n \in Lanes, WriteFilled(n)
    PROVE  BttInv'
<1>1. TypeOK /\ LaneInv(n) /\ LayoutInv(n)
  BY Zenon DEF BttInv
<1>2. /\ phase = "up" /\ pc[n] = "fill" /\ out' = out /\ loc' = loc
      /\ data' = [data EXCEPT ![loc[n].new.blk] = loc[n].val]
      /\ laidout' = laidout /\ flog' = flog
  BY Zenon DEF WriteFilled, At, run
<1>3. Moves(n, "lock", loc[n]) /\ UNCHANGED <<layout_lock, rtt, map_locks>>
  BY <1>1, SameLocals, Zenon DEF WriteFilled, At, Goto, Moves, run
<1>4. loc[n].val \in Values
  BY <1>1, <1>2, Zenon DEF LaneInv, LaneOK
<1>5. data' \in [Blocks -> Values \cup {Junk}] /\ out' \in [Lanes -> Contents \cup {Junk}]
  BY <1>1, <1>2, <1>4, Zenon DEF TypeOK
<1>6. TypeOK' /\ pc'[n] = "lock" /\ loc'[n] = loc[n] /\ Quiet(n)
  BY <1>1, <1>2, <1>3, <1>5, LocalTypes, MoveAlone, Zenon DEF Positions
<1>7. LaneInv(n)'
  BY <1>1, <1>2, <1>6, Zenon DEF LaneInv, LaneOK, WithLock, Unlaid
<1>8. LayoutInv(n)'
  BY <1>1, <1>2, <1>6, Zenon DEF LayoutInv, Unlaid, InLayout
<1> QED BY <1>6, <1>7, <1>8, PlainKeeps, Zenon

\* map_entry_setf goes for the map lock at once.
LEMMA SetBeginKeeps ==
    ASSUME BttInv, NEW n \in Lanes, SetBegin(n)
    PROVE  BttInv'
<1>1. TypeOK /\ LaneInv(n)
  BY Zenon DEF BttInv
<1>2. /\ phase = "up" /\ pc[n] = "begin" /\ out' = out /\ loc' = loc /\ data' = data
      /\ laidout /\ laidout' = laidout /\ loc[n].kind \in {"zero", "error"}
  BY Zenon DEF SetBegin, At, media, run
<1>3. Moves(n, "lock", loc[n]) /\ UNCHANGED <<layout_lock, rtt, map_locks>>
  BY <1>1, SameLocals, Zenon DEF SetBegin, At, Goto, Moves, media, run
<1>4. data' \in [Blocks -> Values \cup {Junk}] /\ out' \in [Lanes -> Contents \cup {Junk}]
  BY Zenon, <1>1, <1>2 DEF TypeOK
<1>5. TypeOK' /\ pc'[n] = "lock" /\ loc'[n] = loc[n] /\ Quiet(n)
  BY <1>1, <1>2, <1>3, <1>4, LocalTypes, MoveAlone, Zenon DEF Positions
<1>6. LaneInv(n)'
  BY <1>2, <1>5, Zenon DEF LaneInv, LaneOK, WithLock, Unlaid
<1>7. LayoutInv(n)'
  BY <1>2, <1>5, Zenon DEF LayoutInv, InLayout
<1> QED BY <1>5, <1>6, <1>7, PlainKeeps, Zenon

\* map_lock.
LEMMA LockMapKeeps ==
    ASSUME BttInv, NEW n \in Lanes, LockMap(n)
    PROVE  BttInv'
<1> DEFINE k == MapLock(loc[n].lba)
           e == map[loc[n].lba]
           o == [loc[n] EXCEPT !.entry = e]
           p == IF loc[n].kind = "write" THEN "flog" ELSE "set"
<1>1. TypeOK /\ LaneInv(n) /\ LayoutInv(n) /\ \A m \in Lanes : LaneInv(m)
  BY Zenon DEF BttInv
<1>2. /\ phase = "up" /\ pc[n] = "lock" /\ data' = data /\ out' = out /\ laidout' = laidout
      /\ layout_lock' = layout_lock /\ rtt' = rtt /\ map' = map /\ flog' = flog
      /\ map_locks[k] = NoLane /\ map_locks' = [map_locks EXCEPT ![k] = n]
  BY Zenon DEF LockMap, At, media
<1>3. Moves(n, p, o)
  BY Zenon DEF LockMap, At, Goto, Moves, media
<1>4. k \in Lanes
  BY Zenon, <1>1, LocalTypes, LanesInNat
<1>5. /\ o \in Operations /\ o.kind = loc[n].kind /\ o.val = loc[n].val /\ o.lba = loc[n].lba
      /\ o.entry = e /\ o.new = loc[n].new
  BY <1>1, LocalTypes, EntrySet
<1>6. /\ p \in {"flog", "set"} /\ (p = "flog" => loc[n].kind = "write")
      /\ (p = "set" => loc[n].kind \in {"zero", "error"})
  BY <1>1, <1>2, Zenon DEF LaneInv, LaneOK
<1>7. p \in Positions
  BY <1>6, Zenon DEF Positions
<1> HIDE DEF o, p
<1>8. /\ data' \in [Blocks -> Values \cup {Junk}] /\ out' \in [Lanes -> Contents \cup {Junk}]
      /\ layout_lock' \in Lanes \cup {NoLane} /\ rtt' \in [Lanes -> Entries]
  BY Zenon, <1>1, <1>2 DEF TypeOK
<1>9. map_locks' \in [Lanes -> Lanes \cup {NoLane}] /\ map_locks'[k] = n
  BY <1>1, <1>2, <1>4, Zenon DEF TypeOK
<1>10. TypeOK' /\ pc'[n] = p /\ loc'[n] = o
  BY Zenon, <1>1, <1>3, <1>5, <1>7, <1>8, <1>9, MoveType
<1>11. \A m \in Lanes : m # n => pc'[m] = pc[m] /\ loc'[m] = loc[m]
  BY Zenon, <1>1, <1>3 DEF TypeOK, Moves
<1>12. ASSUME NEW m \in Lanes, m # n, pc[m] \in WithLock
       PROVE  map_locks'[MapLock(loc[m].lba)] = map_locks[MapLock(loc[m].lba)]
  <2>1. map_locks[MapLock(loc[m].lba)] = m
    BY Zenon, <1>12, <1>1 DEF LaneInv, LaneOK
  <2>2. MapLock(loc[m].lba) # k
    BY Zenon, <2>1, <1>2, LanesInNat
  <2>3. MapLock(loc[m].lba) \in Lanes
    BY Zenon, <1>1, LocalTypes, LanesInNat
  <2> QED BY Zenon, <2>2, <2>3, <1>1, <1>2 DEF TypeOK
<1>13. Quiet(n)
  BY <1>2, <1>3, <1>11, <1>12, Zenon DEF Quiet, OthersKeep, Moves
<1>14. LaneInv(n)'
  BY <1>1, <1>2, <1>5, <1>6, <1>9, <1>10, Zenon DEF LaneInv, LaneOK, WithLock, Unlaid
<1>15. LayoutInv(n)'
  BY <1>1, <1>2, <1>6, <1>10, Zenon DEF LayoutInv, Unlaid, InLayout
<1> QED BY <1>6, <1>10, <1>13, <1>14, <1>15, PlainKeeps, Zenon

\* map_unlock and map_abort give the lock back, and the call returns.
LEMMA LockReleased ==
    ASSUME BttInv, NEW n \in Lanes, pc[n] \in {"unlock", "set"},
           Moves(n, "idle", NoOp),
           map_locks' = [map_locks EXCEPT ![MapLock(loc[n].lba)] = NoLane],
           data' = data, out' = out, layout_lock' = layout_lock, rtt' = rtt
    PROVE  BttInv'
<1> DEFINE k == MapLock(loc[n].lba)
<1>1. TypeOK /\ \A m \in Lanes : LaneInv(m)
  BY Zenon DEF BttInv
<1>2. k \in Lanes /\ map_locks[k] = n
  <2>1. k \in Lanes
    BY Zenon, <1>1, LocalTypes, LanesInNat
  <2> QED BY <2>1, <1>1, Zenon DEF LaneInv, LaneOK, WithLock
<1>3. /\ data' \in [Blocks -> Values \cup {Junk}] /\ out' \in [Lanes -> Contents \cup {Junk}]
      /\ layout_lock' \in Lanes \cup {NoLane} /\ rtt' \in [Lanes -> Entries]
  BY Zenon, <1>1 DEF TypeOK
<1>4. map_locks' \in [Lanes -> Lanes \cup {NoLane}]
  BY <1>1, <1>2, Zenon DEF TypeOK
<1>5. TypeOK' /\ pc'[n] = "idle" /\ loc'[n] = NoOp
  BY <1>1, <1>3, <1>4, NoOpType, MoveType, Zenon DEF Positions
<1>6. \A m \in Lanes : m # n => pc'[m] = pc[m] /\ loc'[m] = loc[m]
  BY Zenon, <1>1 DEF TypeOK, Moves
<1>7. ASSUME NEW m \in Lanes, m # n, pc[m] \in WithLock
      PROVE  map_locks'[MapLock(loc[m].lba)] = map_locks[MapLock(loc[m].lba)]
  <2>1. map_locks[MapLock(loc[m].lba)] = m
    BY Zenon, <1>7, <1>1 DEF LaneInv, LaneOK
  <2>2. MapLock(loc[m].lba) # k
    BY Zenon, <2>1, <1>2, <1>7
  <2>3. MapLock(loc[m].lba) \in Lanes
    BY Zenon, <1>1, LocalTypes, LanesInNat
  <2> QED BY Zenon, <2>2, <2>3, <1>1 DEF TypeOK
<1>8. Quiet(n)
  BY <1>6, <1>7, Zenon DEF Quiet, OthersKeep, Moves
<1>9. LaneInv(n)'
  BY <1>5, NoOpType, Zenon DEF LaneInv, LaneOK, WithLock
<1>10. LayoutInv(n)'
  BY <1>5, Zenon DEF LayoutInv, Unlaid, InLayout
<1> QED BY <1>5, <1>8, <1>9, <1>10, PlainKeeps, Zenon

\* map_unlock and map_abort: the lane is idle again.
LEMMA UnlockKeeps ==
    ASSUME BttInv, NEW n \in Lanes, UnlockMap(n) \/ SetAbort(n)
    PROVE  BttInv'
<1>1. /\ pc[n] \in {"unlock", "set"} /\ Moves(n, "idle", NoOp)
      /\ map_locks' = [map_locks EXCEPT ![MapLock(loc[n].lba)] = NoLane]
      /\ data' = data /\ out' = out /\ layout_lock' = layout_lock /\ rtt' = rtt
  BY Zenon DEF UnlockMap, SetAbort, At, Leave, Goto, Moves, media
<1> QED BY <1>1, LockReleased, Zenon

-----------------------------------------------------------------------------
(* write_layout.                                                           *)

\* What write_layout writes: nothing is pending, every lane owns a block of
\* its own past the mapped ones.
LEMMA FirstEntry ==
    ASSUME NEW n \in Lanes
    PROVE  /\ FirstFlog(n) \in [0 .. 1 -> FlogEntries]
           /\ Current(FirstFlog(n)) =
                Flog(n, Entry(NLba + n, "zero"), Entry(NLba + n, "zero"), 1)
<1> DEFINE free == Entry(NLba + n, "zero")
           f == Flog(n, free, free, 1)
<1>1. free \in Entries /\ Initial \in Entries
  BY LanesInNat, EntryFields, Zenon DEF Initial
<1>2. f \in FlogEntries /\ Zflog \in FlogEntries
  BY <1>1, LanesInNat, FlogFields DEF Zflog
<1>3. f.seq = 1 /\ Zflog.seq = 0
  BY FlogFields DEF Zflog
<1> HIDE DEF f
<1>4. FirstFlog(n) = [i \in 0 .. 1 |-> IF i = 0 THEN f ELSE Zflog]
  BY Zenon DEF FirstFlog, f
<1>5. /\ FirstFlog(n) \in [0 .. 1 -> FlogEntries]
      /\ FirstFlog(n)[0] = f /\ FirstFlog(n)[1] = Zflog
  BY <1>4, <1>2
<1>6. NextSlot(FirstFlog(n)) = 1
  BY <1>5, <1>3, Zenon DEF NextSlot
<1>7. Current(FirstFlog(n)) = f
  BY <1>6, <1>5 DEF Current
<1> QED BY Zenon, <1>5, <1>7 DEF f

\* The first layout: every block is in the map or free in one lane.
LEMMA FirstOwned ==
    ASSUME NEW m, NEW c, \A l \in Lba : m[l] = Initial,
           \A n \in Lanes : c[n] = Flog(n, Entry(NLba + n, "zero"), Entry(NLba + n, "zero"), 1)
    PROVE  Owned(m, c) /\ \A n \in Lanes : ~Pend(m, c[n])
<1>1. \A l \in Lba : Blk(m, l) = l
  BY EntryFields DEF Blk, Norm, Initial
<1>2. \A n \in Lanes : c[n].old.blk = NLba + n /\ c[n].old = c[n].new
  BY FlogFields, EntryFields
<1>3. \A n \in Lanes : ~Pend(m, c[n])
  BY Zenon, <1>2 DEF Pend
<1>4. \A l \in Lba, n \in Lanes : l # NLba + n
  BY BttAssumption DEF Lba, Lanes
<1>5. \A n, k \in Lanes : NLba + n = NLba + k => n = k
  BY BttAssumption DEF Lanes
<1> QED BY <1>1, <1>2, <1>3, <1>4, <1>5 DEF Owned

\* Before there is a layout the lanes know nothing of it.
LEMMA UnlaidLane ==
    ASSUME NEW n, NEW p \in Unlaid, NEW o, o.kind = "write" => o.val \in Values,
           p # "return" => o.scan = 0,
           NEW pair, NEW r, NEW e, NEW h, NEW t
    PROVE  LaneOK(n, p, o, pair, r, e, h, t)
  BY Zenon DEF LaneOK, Unlaid, WithLock

\* A step to q inside write_layout.
LEMMA LayoutAlone ==
    ASSUME BttInv, NEW n \in Lanes, pc[n] \in InLayout, ~laidout,
           NEW q \in Unlaid \ {"return"}, pc' = [pc EXCEPT ![n] = q], loc' = loc
    PROVE  /\ pc'[n] = q /\ \A m \in Lanes : m # n => pc'[m] = pc[m]
           /\ \A m \in Lanes : pc'[m] \in Unlaid /\ LaneInv(m)'
           /\ \A m \in Lanes : m # n => pc[m] \notin InLayout
           /\ \A i, m \in Lanes : Apart(i, m)'
           /\ pc' \in [Lanes -> Positions]
<1>1. TypeOK /\ \A m \in Lanes : LaneInv(m) /\ LayoutInv(m)
  BY Zenon DEF BttInv
<1>2. pc' \in [Lanes -> Positions] /\ pc'[n] = q /\ \A m \in Lanes : m # n => pc'[m] = pc[m]
  BY <1>1, Zenon DEF TypeOK, Positions, Unlaid
<1>3. \A m \in Lanes : pc[m] \in Unlaid
  BY Zenon, <1>1 DEF LayoutInv
<1>4. \A m \in Lanes : pc'[m] \in Unlaid
  BY <1>2, <1>3, Zenon
<1>5. layout_lock = n
  BY Zenon, <1>1 DEF LayoutInv
<1>6. \A m \in Lanes : m # n => pc[m] \notin InLayout
  BY Zenon, <1>1, <1>5 DEF LayoutInv
<1>7. ASSUME NEW m \in Lanes
      PROVE  LaneInv(m)'
  <2>1. loc[m].kind = "write" => loc[m].val \in Values
    BY Zenon, <1>1 DEF LaneInv, LaneOK
  <2>2. pc'[m] # "return" => loc[m].scan = 0
    <3>1. CASE m = n
      BY <3>1, <1>1, Zenon DEF LaneInv, LaneOK, Unlaid, InLayout
    <3>2. CASE m # n
      BY <3>2, <1>1, <1>2, <1>3, Zenon DEF LaneInv, LaneOK
    <3> QED BY Zenon, <3>1, <3>2
  <2> QED BY <2>1, <2>2, <1>4, UnlaidLane, Zenon DEF LaneInv
<1>8. \A i, m \in Lanes : Apart(i, m)'
  BY <1>4, Zenon DEF Apart, Unlaid
<1> QED BY Zenon, <1>2, <1>4, <1>6, <1>7, <1>8

\* The map and the flogs are written, ...
LEMMA LayoutBodyKeeps ==
    ASSUME BttInv, NEW n \in Lanes, LayoutBody(n)
    PROVE  BttInv'
<1>1. TypeOK /\ PhaseInv /\ \A m \in Lanes : LayoutInv(m)
  BY Zenon DEF BttInv
<1>2. /\ phase = "up" /\ pc[n] = "layout" /\ ~laidout /\ loc' = loc
      /\ pc' = [pc EXCEPT ![n] = "info"]
      /\ map' = IF NsIsZeroed THEN map ELSE [l \in Lba |-> Initial]
      /\ flog' = [m \in Lanes |-> FirstFlog(m)]
      /\ UNCHANGED <<data, info, phase, rlane, laidout, layout_lock, rt, rtt, map_locks,
                     loc, out, ops, crashes>>
  BY Zenon DEF LayoutBody, At, Goto, run
<1>3. /\ pc'[n] = "info" /\ \A m \in Lanes : m # n => pc'[m] = pc[m]
      /\ \A m \in Lanes : pc'[m] \in Unlaid /\ LaneInv(m)'
      /\ \A m \in Lanes : m # n => pc[m] \notin InLayout
      /\ \A i, m \in Lanes : Apart(i, m)'
      /\ pc' \in [Lanes -> Positions]
  BY <1>2, LayoutAlone, Zenon DEF InLayout, Unlaid
<1>4. ~info
  BY <1>1, <1>2, <1>3, Zenon DEF PhaseInv, InLayout
<1>5. \A l \in Lba : map'[l] = Initial
  BY <1>1, <1>2, <1>4, Zenon DEF PhaseInv
<1>6. TypeOK'
  <2>1. Initial \in Entries
    BY LanesInNat, EntryFields, Zenon DEF Initial
  <2>2. map' \in [Lba -> Entries]
    BY <2>1, <1>1, <1>2, Zenon DEF TypeOK
  <2>3. flog' \in [Lanes -> [0 .. 1 -> FlogEntries]]
    BY Zenon, <1>2, FirstEntry
  <2> QED BY Zenon, <2>2, <2>3, <1>1, <1>2, <1>3 DEF TypeOK
<1>7. FreshMedia'
  BY Zenon, <1>2, <1>5 DEF FreshMedia
<1>8. \A m \in Lanes : LayoutInv(m)'
  BY <1>1, <1>2, <1>3, <1>4, <1>7, Zenon DEF LayoutInv, InLayout
<1>9. PhaseInv' /\ FlogInv'
  BY <1>2, <1>4, <1>5, Zenon DEF PhaseInv, FlogInv
<1> QED BY Zenon, <1>3, <1>6, <1>8, <1>9 DEF BttInv

\* What the flogs say right after write_layout.
LEMMA FreshFlogs ==
    ASSUME FreshMedia
    PROVE  /\ Owned(map, Cur)
           /\ \A n \in Lanes : /\ ~Pend(map, Cur[n])
                               /\ Cur[n].seq \in 1 .. 3 /\ Cur[n].new.st # "initial"
<1>1. \A n \in Lanes :
         Cur[n] = Flog(n, Entry(NLba + n, "zero"), Entry(NLba + n, "zero"), 1)
  BY Zenon, FirstEntry DEF FreshMedia, Cur
<1>2. Owned(map, Cur) /\ \A n \in Lanes : ~Pend(map, Cur[n])
  BY <1>1, FirstOwned, Zenon DEF FreshMedia
<1>3. ASSUME NEW n \in Lanes
      PROVE  Cur[n].seq \in 1 .. 3 /\ Cur[n].new.st # "initial"
  <2>1. Cur[n].seq = 1 /\ Cur[n].new.st = "zero"
    BY <1>1, FlogFields, EntryFields
  <2> QED BY <2>1
<1> QED BY Zenon, <1>2, <1>3

\* ... the info block makes them valid, ...
LEMMA LayoutInfoKeeps ==
    ASSUME BttInv, NEW n \in Lanes, LayoutInfo(n)
    PROVE  BttInv'
<1>1. TypeOK /\ \A m \in Lanes : LayoutInv(m)
  BY Zenon DEF BttInv
<1>2. /\ phase = "up" /\ pc[n] = "info" /\ loc' = loc /\ info' = TRUE
      /\ pc' = [pc EXCEPT ![n] = "arenas"]
      /\ UNCHANGED <<data, map, flog, phase, rlane, laidout, layout_lock, rt, rtt, map_locks,
                     out, ops, crashes>>
  BY Zenon DEF LayoutInfo, At, Goto, run
<1>3. ~laidout /\ FreshMedia
  BY <1>1, <1>2, Zenon DEF LayoutInv
<1>4. /\ pc'[n] = "arenas" /\ \A m \in Lanes : m # n => pc'[m] = pc[m]
      /\ \A m \in Lanes : pc'[m] \in Unlaid /\ LaneInv(m)'
      /\ \A m \in Lanes : m # n => pc[m] \notin InLayout
      /\ \A i, m \in Lanes : Apart(i, m)'
      /\ pc' \in [Lanes -> Positions]
  BY <1>2, <1>3, LayoutAlone, Zenon DEF InLayout, Unlaid
<1>5. TypeOK'
  BY Zenon, <1>1, <1>2, <1>4 DEF TypeOK
<1>6. FreshMedia' /\ Cur' = Cur
  BY Zenon, <1>2, <1>3 DEF FreshMedia, Cur
<1>7. \A m \in Lanes : LayoutInv(m)'
  BY <1>1, <1>2, <1>3, <1>4, <1>6, Zenon DEF LayoutInv, InLayout
<1>8. PhaseInv'
  BY <1>2, <1>3, <1>4, Zenon DEF PhaseInv
<1>9. FlogInv'
  <2>1. ASSUME NEW m \in Lanes PROVE FlogOK(m)'
    BY <1>2, <1>3, <1>6, FreshFlogs, Zenon DEF FlogOK
  <2> QED BY Zenon, <2>1, <1>2, <1>3, <1>6, FreshFlogs DEF FlogInv
<1> QED BY Zenon, <1>4, <1>5, <1>7, <1>8, <1>9 DEF BttInv

\* ... and read_arenas loads them.
LEMMA LayoutDoneKeeps ==
    ASSUME BttInv, NEW n \in Lanes, LayoutDone(n)
    PROVE  BttInv'
<1>1. TypeOK /\ \A m \in Lanes : LayoutInv(m)
  BY Zenon DEF BttInv
<1>2. /\ phase = "up" /\ pc[n] = "arenas" /\ loc' = loc
      /\ pc' = [pc EXCEPT ![n] = "begin"] /\ laidout' = TRUE /\ layout_lock' = NoLane
      /\ rt' = [m \in Lanes |-> Runtime(flog[m])]
      /\ rtt' = [m \in Lanes |-> None] /\ map_locks' = [k \in Lanes |-> NoLane]
      /\ UNCHANGED <<data, map, flog, info, phase, rlane, out, ops, crashes>>
  BY Zenon DEF LayoutDone, At, Goto, media
<1>3. ~laidout /\ FreshMedia /\ info
  BY <1>1, <1>2, Zenon DEF LayoutInv
<1>4. /\ pc'[n] = "begin" /\ \A m \in Lanes : m # n => pc'[m] = pc[m]
      /\ \A m \in Lanes : pc'[m] \in Unlaid /\ LaneInv(m)'
      /\ \A m \in Lanes : m # n => pc[m] \notin InLayout
      /\ \A i, m \in Lanes : Apart(i, m)'
      /\ pc' \in [Lanes -> Positions]
  BY <1>2, <1>3, LayoutAlone, Zenon DEF InLayout, Unlaid
<1>5. TypeOK'
  <2>1. \A m \in Lanes : Runtime(flog[m]) \in Runtimes
    BY Zenon, <1>1, LocalTypes, CurrentSlot
  <2>2. rt' \in [Lanes -> Runtimes]
    BY Zenon, <2>1, <1>2
  <2>3. None \in Entries
    BY LanesInNat, Zenon DEF None, Entries
  <2>4. rtt' \in [Lanes -> Entries] /\ map_locks' \in [Lanes -> Lanes \cup {NoLane}]
    BY <2>3, <1>2, Zenon
  <2>5. laidout' \in BOOLEAN /\ layout_lock' \in Lanes \cup {NoLane}
    BY <1>2, Zenon
  <2> QED BY Zenon, <2>2, <2>4, <2>5, <1>1, <1>2, <1>4 DEF TypeOK
<1>6. Cur' = Cur
  BY Zenon, <1>2 DEF Cur
<1>7. \A m \in Lanes : LayoutInv(m)'
  BY <1>2, <1>4, Zenon DEF LayoutInv, InLayout
<1>8. PhaseInv'
  BY <1>2, <1>3, Zenon DEF PhaseInv
<1>9. FlogInv'
  <2>1. ASSUME NEW m \in Lanes PROVE FlogOK(m)'
    BY <1>2, <1>3, <1>6, FreshFlogs, Zenon DEF FlogOK
  <2> QED BY Zenon, <2>1, <1>2, <1>3, <1>6, FreshFlogs DEF FlogInv
<1> QED BY Zenon, <1>4, <1>5, <1>7, <1>8, <1>9 DEF BttInv

-----------------------------------------------------------------------------
(* flog_update, map_unlock and map_entry_setf.                             *)

\* The block of a pending exchange is the one the map shows.
LEMMA PendingBlock ==
    ASSUME NEW m, NEW f, Pend(m, f)
    PROVE  Blk(m, f.lba) = f.old.blk
  BY Zenon DEF Pend, Blk

(* flog_update logs the exchange of the block the map shows for l with the *)
(* free block of lane n: nobody else has an exchange of l pending.         *)
LEMMA ExchangeLogged ==
    ASSUME NEW m, NEW c, NEW d, NEW n \in Lanes, NEW l \in Lba,
           Owned(m, c), ~Pend(m, c[n]),
           \A k \in Lanes \ {n} : d[k] = c[k],
           \A k \in Lanes \ {n} : Pend(m, c[k]) => c[k].lba # l,
           d[n].lba = l, d[n].old = Norm(l, m[l]),
           d[n].new.blk = c[n].old.blk
    PROVE  Owned(m, d) /\ Pend(m, d[n])
<1>1. Blk(m, l) = d[n].old.blk
  BY Zenon DEF Blk
<1>2. \A k \in Lanes : Blk(m, l) # c[k].old.blk
  BY DEF Owned
<1>3. \A j \in Lba : Blk(m, j) # c[n].old.blk
  BY Zenon DEF Owned
<1>4. Pend(m, d[n])
  <2>1. d[n].old # d[n].new
    BY Zenon, <1>1, <1>3
  <2> QED BY Zenon, <2>1 DEF Pend
<1>5. \A i, k \in Lanes : d[i].old.blk = d[k].old.blk => i = k
  <2> TAKE i, k \in Lanes
  <2> HAVE d[i].old.blk = d[k].old.blk
  <2>1. CASE i # n /\ k # n
    BY <2>1 DEF Owned
  <2>2. CASE i = n /\ k # n
    BY Zenon, <2>2, <1>1, <1>2
  <2>3. CASE i # n /\ k = n
    BY Zenon, <2>3, <1>1, <1>2
  <2> QED BY Zenon, <2>1, <2>2, <2>3
<1>6. \A j \in Lba, k \in Lanes :
         Blk(m, j) = d[k].old.blk => Pend(m, d[k]) /\ d[k].lba = j
  <2> TAKE j \in Lba, k \in Lanes
  <2> HAVE Blk(m, j) = d[k].old.blk
  <2>1. CASE k = n
    <3>1. j = l
      BY <2>1, <1>1 DEF Owned
    <3> QED BY Zenon, <3>1, <2>1, <1>4
  <2>2. CASE k # n
    BY <2>2 DEF Owned
  <2> QED BY Zenon, <2>1, <2>2
<1>7. ASSUME NEW i \in Lanes, Pend(m, d[i])
      PROVE  /\ \A j \in Lba : d[i].new.blk # Blk(m, j)
             /\ \A k \in Lanes : d[i].new.blk # d[k].old.blk
             /\ \A k \in Lanes : Pend(m, d[k]) /\ d[i].new.blk = d[k].new.blk => i = k
  <2>1. CASE i = n
    <3>1. \A j \in Lba : d[i].new.blk # Blk(m, j)
      BY Zenon, <2>1, <1>3
    <3>2. \A k \in Lanes : d[i].new.blk # d[k].old.blk
      <4> TAKE k \in Lanes
      <4>1. CASE k = n
        BY Zenon, <4>1, <3>1, <1>1, <2>1
      <4>2. CASE k # n
        BY <4>2, <2>1 DEF Owned
      <4> QED BY Zenon, <4>1, <4>2
    <3>3. ASSUME NEW k \in Lanes, Pend(m, d[k]), d[i].new.blk = d[k].new.blk, k # n
          PROVE  FALSE
      BY <3>3, <2>1 DEF Owned
    <3> QED BY Zenon, <3>1, <3>2, <3>3, <2>1
  <2>2. CASE i # n
    <3>1. Pend(m, c[i]) /\ d[i] = c[i]
      BY Zenon, <2>2, <1>7
    <3>2. \A j \in Lba : d[i].new.blk # Blk(m, j)
      BY <3>1 DEF Owned
    <3>3. \A k \in Lanes : d[i].new.blk # d[k].old.blk
      BY <3>1, <3>2, <1>1 DEF Owned
    <3>4. ASSUME NEW k \in Lanes, Pend(m, d[k]), d[i].new.blk = d[k].new.blk
          PROVE  i = k
      <4>1. CASE k = n
        BY <4>1, <3>1, <3>4 DEF Owned
      <4>2. CASE k # n
        BY Zenon, <4>2, <3>1, <3>4 DEF Owned
      <4> QED BY Zenon, <4>1, <4>2
    <3> QED BY Zenon, <3>2, <3>3, <3>4
  <2> QED BY Zenon, <2>1, <2>2
<1>8. \A j, k \in Lba : Blk(m, j) = Blk(m, k) => j = k
  BY Zenon DEF Owned
<1>9. Owned(m, d)
  BY Zenon, <1>5, <1>6, <1>7, <1>8 DEF Owned
<1> QED BY Zenon, <1>4, <1>9

(* The map entry of a pending exchange is stored, by map_unlock or by      *)
(* read_flog_pair: the exchange is complete and no other becomes pending.  *)
LEMMA ExchangeStored ==
    ASSUME NEW m, NEW c, NEW w, NEW n \in Lanes, NEW l \in Lba,
           Owned(m, c), Pend(m, c[n]), c[n].lba = l,
           w[l] = c[n].new, c[n].new.st # "initial",
           \A j \in Lba : j # l => w[j] = m[j],
           \A k \in Lanes : c[k].lba \in Lba
    PROVE  /\ Owned(w, c) /\ ~Pend(w, c[n])
           /\ \A k \in Lanes : Pend(w, c[k]) => Pend(m, c[k])
<1>1. Norm(l, w[l]) = c[n].new /\ Blk(w, l) = c[n].new.blk
  BY Zenon DEF Blk, Norm
<1>2. \A j \in Lba : j # l => Blk(w, j) = Blk(m, j)
  BY Zenon DEF Blk
<1>3. ~Pend(w, c[n])
  BY Zenon, <1>1 DEF Pend
<1>4. ASSUME NEW k \in Lanes, Pend(w, c[k])
      PROVE  Pend(m, c[k]) /\ c[k].lba # l
  <2>1. CASE c[k].lba = l
    <3>1. c[k].old = c[n].new
      BY Zenon, <2>1, <1>1, <1>4 DEF Pend
    <3> QED BY Zenon, <3>1 DEF Owned
  <2>2. CASE c[k].lba # l
    BY Zenon, <2>2, <1>4 DEF Pend
  <2> QED BY Zenon, <2>1, <2>2
<1>5. \A j, k \in Lba : Blk(w, j) = Blk(w, k) => j = k
  <2> TAKE j, k \in Lba
  <2> HAVE Blk(w, j) = Blk(w, k)
  <2>1. CASE j # l /\ k # l
    BY <2>1, <1>2 DEF Owned
  <2>2. CASE j = l /\ k # l
    BY <2>2, <1>1, <1>2 DEF Owned
  <2>3. CASE j # l /\ k = l
    BY <2>3, <1>1, <1>2 DEF Owned
  <2> QED BY Zenon, <2>1, <2>2, <2>3
<1>6. ASSUME NEW j \in Lba, NEW k \in Lanes, Blk(w, j) = c[k].old.blk
      PROVE  Pend(w, c[k]) /\ c[k].lba = j
  <2>1. j # l
    BY <1>1, <1>6 DEF Owned
  <2>2. Pend(m, c[k]) /\ c[k].lba = j
    BY <2>1, <1>2, <1>6 DEF Owned
  <2> QED BY Zenon, <2>1, <2>2 DEF Pend
<1>7. ASSUME NEW i \in Lanes, Pend(w, c[i])
      PROVE  /\ \A j \in Lba : c[i].new.blk # Blk(w, j)
             /\ \A k \in Lanes : c[i].new.blk # c[k].old.blk
             /\ \A k \in Lanes : Pend(w, c[k]) /\ c[i].new.blk = c[k].new.blk => i = k
  <2>1. Pend(m, c[i]) /\ i # n
    BY Zenon, <1>3, <1>4, <1>7
  <2>2. \A j \in Lba : c[i].new.blk # Blk(w, j)
    <3> TAKE j \in Lba
    <3>1. CASE j = l
      BY <3>1, <2>1, <1>1 DEF Owned
    <3>2. CASE j # l
      BY <3>2, <2>1, <1>2 DEF Owned
    <3> QED BY Zenon, <3>1, <3>2
  <2>3. \A k \in Lanes : c[i].new.blk # c[k].old.blk
    BY Zenon, <2>1 DEF Owned
  <2>4. \A k \in Lanes : Pend(w, c[k]) /\ c[i].new.blk = c[k].new.blk => i = k
    BY Zenon, <2>1, <1>4 DEF Owned
  <2> QED BY Zenon, <2>2, <2>3, <2>4
<1>8. \A i, k \in Lanes : c[i].old.blk = c[k].old.blk => i = k
  BY Zenon DEF Owned
<1>9. Owned(w, c)
  BY Zenon, <1>5, <1>6, <1>7, <1>8 DEF Owned
<1> QED BY Zenon, <1>3, <1>4, <1>9

(* Map entries change from m to w: an entry may keep its block and get     *)
(* other flags when no exchange of it is pending, as when map_entry_setf   *)
(* stores a flag or a power failure takes it back, or go back to the       *)
(* entry before a completed exchange, as when a power failure takes the    *)
(* last step of btt_write back.                                            *)
Reflagged(m, w, c, l) ==
    /\ Blk(w, l) = Blk(m, l)
    /\ \A k \in Lanes : Pend(m, c[k]) => c[k].lba # l

Undone(m, w, c, l, n) ==
    /\ c[n].lba = l /\ c[n].old = Norm(l, w[l])
    /\ c[n].new.blk = Blk(m, l) /\ ~Pend(m, c[n])
    /\ \A k \in Lanes : Pend(m, c[k]) => c[k].lba # l

\* Entries may change their flags, and go back to the block before, without a
\* block getting two owners.
LEMMA EntriesRevert ==
    ASSUME NEW m, NEW c, NEW w, Owned(m, c),
           \A k \in Lanes : c[k].lba \in Lba,
           \A l \in Lba : \/ w[l] = m[l]
                          \/ Reflagged(m, w, c, l)
                          \/ \E n \in Lanes : Undone(m, w, c, l, n)
    PROVE  /\ Owned(w, c)
           /\ \A k \in Lanes :
                 Pend(w, c[k]) => \/ Pend(m, c[k])
                                  \/ Undone(m, w, c, c[k].lba, k)
<1> DEFINE U(l, n) == Undone(m, w, c, l, n)
<1>1. \A l \in Lba, n \in Lanes : U(l, n) => Blk(w, l) = c[n].old.blk
  BY Zenon DEF Undone, Blk
<1>2. ASSUME NEW l \in Lba, \A n \in Lanes : ~U(l, n)
      PROVE  Blk(w, l) = Blk(m, l)
  <2>1. w[l] = m[l] \/ Reflagged(m, w, c, l)
    BY Zenon, <1>2
  <2> QED BY Zenon, <2>1 DEF Reflagged, Blk
<1>3. ASSUME NEW l \in Lba, NEW n \in Lanes, U(l, n)
      PROVE  /\ \A j \in Lba : Blk(m, j) # c[n].old.blk
             /\ \A k \in Lanes : Blk(m, l) # c[k].old.blk
  BY Zenon, <1>3 DEF Owned, Undone
<1>4. ASSUME NEW k \in Lanes, Pend(w, c[k])
      PROVE  Pend(m, c[k]) \/ U(c[k].lba, k)
  <2> DEFINE l == c[k].lba
  <2>0. l \in Lba
    BY Zenon
  <2>1. CASE w[l] = m[l]
    BY Zenon, <2>1, <1>4 DEF Pend
  <2>2. CASE Reflagged(m, w, c, l)
    <3>1. Blk(m, l) = c[k].old.blk
      BY Zenon, <2>2, <1>4, PendingBlock DEF Reflagged
    <3> QED BY Zenon, <3>1, <2>0 DEF Owned
  <2>3. ASSUME NEW n \in Lanes, U(l, n)
        PROVE  k = n
    <3>1. c[n].old.blk = c[k].old.blk
      BY <2>0, <2>3, <1>1, <1>4, PendingBlock
    <3> QED BY Zenon, <3>1 DEF Owned
  <2> QED BY Zenon, <2>0, <2>1, <2>2, <2>3
<1>5. ASSUME NEW k \in Lanes, Pend(m, c[k])
      PROVE  Pend(w, c[k])
  <2> DEFINE l == c[k].lba
  <2>1. w[l] = m[l]
    BY Zenon, <1>5 DEF Undone, Reflagged
  <2> QED BY Zenon, <2>1, <1>5 DEF Pend
<1>6. \A i, k \in Lba : Blk(w, i) = Blk(w, k) => i = k
  <2> TAKE i, k \in Lba
  <2> HAVE Blk(w, i) = Blk(w, k)
  <2>1. CASE /\ \A n \in Lanes : ~U(i, n)
             /\ \A n \in Lanes : ~U(k, n)
    BY Zenon, <2>1, <1>2 DEF Owned
  <2>2. ASSUME NEW n \in Lanes, U(i, n), \A p \in Lanes : ~U(k, p)
        PROVE  FALSE
    BY Zenon, <2>2, <1>1, <1>2, <1>3
  <2>3. ASSUME NEW n \in Lanes, U(k, n), \A p \in Lanes : ~U(i, p)
        PROVE  FALSE
    BY <2>3, <1>1, <1>2, <1>3
  <2>4. ASSUME NEW n \in Lanes, U(i, n), NEW p \in Lanes, U(k, p)
        PROVE  i = k
    <3>1. n = p
      BY <2>4, <1>1 DEF Owned
    <3> QED BY Zenon, <3>1, <2>4 DEF Undone
  <2> HIDE DEF U
  <2> QED BY Zenon, <2>1, <2>2, <2>3, <2>4
<1>7. ASSUME NEW l \in Lba, NEW k \in Lanes, Blk(w, l) = c[k].old.blk
      PROVE  Pend(w, c[k]) /\ c[k].lba = l
  <2>1. CASE \A n \in Lanes : ~U(l, n)
    <3>1. Blk(m, l) = c[k].old.blk
      BY Zenon, <2>1, <1>2, <1>7
    <3> QED BY Zenon, <3>1, <1>5 DEF Owned
  <2>2. ASSUME NEW n \in Lanes, U(l, n)
        PROVE  Pend(w, c[k]) /\ c[k].lba = l
    <3>1. n = k
      BY SMTT(20), <2>2, <1>1, <1>7 DEF Owned
    <3>2. c[k].old # c[k].new
      BY <3>1, <2>2, <1>3 DEF Undone
    <3> QED BY Zenon, <3>1, <3>2, <2>2 DEF Undone, Pend
  <2> QED BY Zenon, <2>1, <2>2
<1>8. ASSUME NEW i \in Lanes, Pend(w, c[i])
      PROVE  /\ \A j \in Lba : c[i].new.blk # Blk(w, j)
             /\ \A k \in Lanes : c[i].new.blk # c[k].old.blk
             /\ \A k \in Lanes : Pend(w, c[k]) /\ c[i].new.blk = c[k].new.blk => i = k
  <2>1. CASE Pend(m, c[i])
    <3>1. \A j \in Lba : c[i].new.blk # Blk(m, j)
      BY Zenon, <2>1 DEF Owned
    <3>2. \A k \in Lanes : c[i].new.blk # c[k].old.blk
      BY Zenon, <2>1 DEF Owned
    <3>3. \A j \in Lba : c[i].new.blk # Blk(w, j)
      BY Zenon, <3>1, <3>2, <1>1, <1>2
    <3>4. ASSUME NEW k \in Lanes, Pend(w, c[k]), c[i].new.blk = c[k].new.blk
          PROVE  i = k
      <4>1. CASE Pend(m, c[k])
        BY Zenon, <4>1, <3>4, <2>1 DEF Owned
      <4>2. CASE U(c[k].lba, k)
        BY Zenon, <4>2, <3>1, <3>4 DEF Undone
      <4> QED BY Zenon, <4>1, <4>2, <3>4, <1>4
    <3> QED BY Zenon, <3>2, <3>3, <3>4
  <2>2. CASE U(c[i].lba, i)
    <3> DEFINE l == c[i].lba
    <3>0. l \in Lba /\ c[i].new.blk = Blk(m, l)
      BY Zenon, <2>2 DEF Undone
    <3>1. \A k \in Lanes : c[i].new.blk # c[k].old.blk
      BY Zenon, <3>0, <2>2, <1>3
    <3>2. \A j \in Lba : c[i].new.blk # Blk(w, j)
      <4> SUFFICES ASSUME NEW j \in Lba, Blk(m, l) = Blk(w, j)
                   PROVE  FALSE
        BY Zenon, <3>0
      <4>1. CASE \A n \in Lanes : ~U(j, n)
        <5>1. j = l
          BY Zenon, <4>1, <1>2, <3>0 DEF Owned
        <5> QED BY Zenon, <5>1, <4>1, <2>2
      <4>2. ASSUME NEW n \in Lanes, U(j, n)
            PROVE  FALSE
        BY Zenon, <4>2, <3>0, <3>1, <1>1
      <4> QED BY Zenon, <4>1, <4>2
    <3>3. ASSUME NEW k \in Lanes, Pend(w, c[k]), c[i].new.blk = c[k].new.blk
          PROVE  i = k
      <4>1. CASE Pend(m, c[k])
        <5>1. \A j \in Lba : c[k].new.blk # Blk(m, j)
          BY Zenon, <4>1 DEF Owned
        <5> QED BY Zenon, <5>1, <3>0, <3>3
      <4>2. CASE U(c[k].lba, k)
        <5>1. Blk(m, l) = Blk(m, c[k].lba)
          BY Zenon, <4>2, <3>0, <3>3 DEF Undone
        <5>2. l = c[k].lba
          BY <5>1, <3>0 DEF Owned
        <5>3. c[i].old.blk = c[k].old.blk
          BY Zenon, <5>2, <4>2, <2>2, <3>0, <1>1
        <5> QED BY Zenon, <5>3 DEF Owned
      <4> QED BY Zenon, <4>1, <4>2, <3>3, <1>4
    <3> QED BY Zenon, <3>1, <3>2, <3>3
  <2> QED BY Zenon, <2>1, <2>2, <1>4, <1>8
<1>9. \A i, k \in Lanes : c[i].old.blk = c[k].old.blk => i = k
  BY Zenon DEF Owned
<1>10. Owned(w, c)
  BY Zenon, <1>6, <1>7, <1>8, <1>9 DEF Owned
<1> QED BY Zenon, <1>4, <1>10

\* What map_lock makes of an entry never written.
LEMMA Normalised ==
    ASSUME NEW l \in Lba, NEW e \in Entries
    PROVE  /\ Norm(l, e) \in Entries /\ Norm(l, e).st # "initial"
           /\ Norm(l, Norm(l, e)) = Norm(l, e)
           /\ e.st # "initial" => Norm(l, e) = e
<1>1. Entry(l, "normal") \in Entries /\ Entry(l, "normal").st = "normal"
  BY LanesInNat, Zenon DEF Entry, Entries
<1> QED BY <1>1, Zenon DEF Norm

\* The first write of flog_update leaves the current slot current.
LEMMA SpareSlotWritten ==
    ASSUME NEW pair \in [0 .. 1 -> FlogEntries], NEW q \in [0 .. 1 -> FlogEntries],
           q[1 - NextSlot(pair)] = pair[1 - NextSlot(pair)],
           q[NextSlot(pair)].seq = pair[NextSlot(pair)].seq
    PROVE  NextSlot(q) = NextSlot(pair) /\ Current(q) = Current(pair)
<1>1. NextSlot(pair) = 0 \/ NextSlot(pair) = 1
  BY Zenon DEF NextSlot
<1>2. q[0].seq = pair[0].seq /\ q[1].seq = pair[1].seq
  BY <1>1
<1>3. NextSlot(q) = NextSlot(pair)
  BY Zenon, <1>2 DEF NextSlot
<1> QED BY Zenon, <1>3 DEF Current

\* The second one makes the slot it writes the current one.
LEMMA SlotSwitched ==
    ASSUME NEW pair \in [0 .. 1 -> FlogEntries], NEW q \in [0 .. 1 -> FlogEntries],
           Current(pair).seq \in 1 .. 3,
           q[1 - NextSlot(pair)] = pair[1 - NextSlot(pair)],
           q[NextSlot(pair)].seq = Nseq(Current(pair).seq)
    PROVE  /\ NextSlot(q) = 1 - NextSlot(pair)
           /\ Current(q) = q[NextSlot(pair)]
           /\ Current(q).seq = Nseq(Current(pair).seq)
           /\ Nseq(Current(pair).seq) \in 1 .. 3
<1> DEFINE s == Current(pair).seq
<1>0. s = 1 \/ s = 2 \/ s = 3
  OBVIOUS
<1>1. Nseq(s) \in 1 .. 3 /\ Nseq(s) # 0 /\ s # 0 /\ Nseq(Nseq(s)) # s
  BY <1>0 DEF Nseq
<1>2. NextSlot(pair) = 0 \/ NextSlot(pair) = 1
  BY Zenon DEF NextSlot
<1>3. CASE NextSlot(pair) = 0
  <2>1. q[0].seq = Nseq(s) /\ q[1].seq = s
    BY <1>3 DEF Current
  <2>2. NextSlot(q) = 1
    BY Zenon, <2>1, <1>1 DEF NextSlot
  <2> QED BY <2>1, <2>2, <1>1, <1>3 DEF Current
<1>4. CASE NextSlot(pair) = 1
  <2>1. q[1].seq = Nseq(s) /\ q[0].seq = s
    BY <1>4 DEF Current
  <2>2. NextSlot(q) = 0
    BY Zenon, <2>1, <1>1 DEF NextSlot
  <2> QED BY <2>1, <2>2, <1>1, <1>4 DEF Current
<1> QED BY <1>2, <1>3, <1>4, Zenon

\* Two lanes with a map lock work on different blocks.
LEMMA LocksApart ==
    ASSUME BttInv, NEW n \in Lanes, NEW m \in Lanes, n # m,
           pc[n] \in WithLock, pc[m] \in WithLock
    PROVE  loc[n].lba # loc[m].lba
  BY DEF BttInv, LaneInv, LaneOK

\* Whoever has an exchange pending has logged it and holds the map lock.
LEMMA PendingHolder ==
    ASSUME BttInv, laidout, NEW k \in Lanes, Pend(map, Cur[k])
    PROVE  pc[k] = "map" /\ pc[k] \in WithLock /\ Cur[k].lba = loc[k].lba
<1>1. FlogOK(k) /\ phase = "up" /\ Cur[k] = Current(flog[k])
  BY Zenon, LaidOut
<1>2. pc[k] = "map"
  BY Zenon, <1>1 DEF FlogOK
<1>3. Cur[k].lba = loc[k].lba
  BY <1>1, <1>2, Zenon DEF BttInv, LaneInv, LaneOK
<1> QED BY <1>2, <1>3, Zenon DEF WithLock

\* No exchange is pending of a block that a lane without one has locked.
LEMMA NotPendingElsewhere ==
    ASSUME BttInv, laidout, NEW n \in Lanes, pc[n] \in WithLock,
           NEW k \in Lanes, k # n, Pend(map, Cur[k])
    PROVE  Cur[k].lba # loc[n].lba
  BY Zenon, PendingHolder, LocksApart

\* The current flog entry of a lane.
LEMMA CurType ==
    ASSUME TypeOK, NEW n \in Lanes
    PROVE  Cur[n] \in FlogEntries /\ Cur[n].lba \in Lba /\ Cur[n].new \in Entries
<1>1. Cur[n] \in FlogEntries
  BY Zenon, LocalTypes, CurrentSlot DEF Cur
<1> QED BY <1>1, Zenon DEF FlogEntries

(* A step of lane n to p under its map lock: only its flog pair and the    *)
(* map entry of its block may change.                                      *)
LockedStep(n, p) ==
    /\ pc[n] \in WithLock /\ pc' = [pc EXCEPT ![n] = p] /\ loc' = loc
    /\ UNCHANGED <<info, phase, rlane, laidout, layout_lock, rtt, map_locks>>
    /\ \A m \in Lanes : m # n => flog'[m] = flog[m] /\ rt'[m] = rt[m]
    /\ \A l \in Lba : l # loc[n].lba => map'[l] = map[l]

\* A step with the map lock of its block held.
LEMMA LockedStepKeeps ==
    ASSUME BttInv, NEW n \in Lanes, NEW p \in WithLock, LockedStep(n, p),
           TypeOK', LaneInv(n)', FlogInv'
    PROVE  BttInv'
<1>1. TypeOK /\ \A m \in Lanes : LaneInv(m) /\ LayoutInv(m)
  BY Zenon DEF BttInv
<1>2. pc[n] \notin Unlaid
  BY Zenon DEF LockedStep, WithLock, Unlaid
<1>3. phase = "up" /\ laidout /\ info
  BY Zenon, <1>2, LaidOut
<1>4. pc'[n] = p /\ \A m \in Lanes : m # n => pc'[m] = pc[m]
  BY Zenon, <1>1 DEF TypeOK, LockedStep
<1>5. p \notin {"block", "scan", "fill"} /\ p \notin InLayout
  BY Zenon DEF WithLock, InLayout
<1>6. ASSUME NEW m \in Lanes, m # n
      PROVE  LaneInv(m)'
  <2>1. /\ pc'[m] = pc[m] /\ loc'[m] = loc[m] /\ flog'[m] = flog[m] /\ rt'[m] = rt[m]
        /\ rtt'[m] = rtt[m] /\ map_locks' = map_locks /\ LaneInv(m)
    BY Zenon, <1>1, <1>4, <1>6 DEF LockedStep
  <2>2. pc[m] \in WithLock => map'[loc[m].lba] = map[loc[m].lba]
    BY Zenon, <1>1, <1>6, LocalTypes, LocksApart DEF LockedStep
  <2>3. pc[m] \notin WithLock => pc[m] \notin {"flog", "seq", "map", "set", "unlock"}
    BY Zenon DEF WithLock
  <2>4. CASE pc[m] \in WithLock
    BY Zenon, <2>1, <2>2, <2>4 DEF LaneInv
  <2>5. CASE pc[m] \notin WithLock
    BY ZenonT(30), <2>1, <2>3, <2>5 DEF LaneInv, LaneOK
  <2> QED BY Zenon, <2>4, <2>5
<1>7. ASSUME NEW m \in Lanes
      PROVE  LayoutInv(m)'
  <2>1. LayoutInv(m) /\ laidout' /\ layout_lock' = layout_lock
    BY Zenon, <1>1, <1>3 DEF LockedStep
  <2>2. pc[m] \notin {"info", "arenas"}
    BY Zenon, <2>1, <1>3 DEF LayoutInv
  <2>3. CASE m = n
    BY <2>3, <1>4, <1>5, <2>1, Zenon DEF LayoutInv, InLayout
  <2>4. CASE m # n
    BY <2>1, <2>2, <2>4, <1>4, Zenon DEF LayoutInv
  <2> QED BY Zenon, <2>3, <2>4
<1>8. PhaseInv'
  BY <1>3, Zenon DEF PhaseInv, LockedStep
<1>9. ASSUME NEW i \in Lanes, NEW m \in Lanes
      PROVE  Apart(i, m)'
  <2>1. Apart(i, m) /\ loc' = loc
    BY Zenon DEF BttInv, LockedStep
  <2>2. CASE i = n \/ m = n
    BY <2>2, <1>4, <1>5, Zenon DEF Apart
  <2>3. CASE i # n /\ m # n
    BY Zenon, <2>1, <2>3, <1>4 DEF Apart
  <2> QED BY Zenon, <2>2, <2>3
<1> QED BY Zenon, <1>6, <1>7, <1>8, <1>9 DEF BttInv

\* The first write of flog_update goes to the slot not in use.
LEMMA FlogFirstKeeps ==
    ASSUME BttInv, NEW n \in Lanes, FlogFirst(n)
    PROVE  BttInv'
<1> DEFINE s == rt[n].next
           e == Norm(loc[n].lba, loc[n].entry)
           f == Flog(loc[n].lba, e, flog[n][s].new, flog[n][s].seq)
<1>1. TypeOK /\ LaneInv(n)
  BY Zenon DEF BttInv
<1>2. /\ pc[n] = "flog" /\ pc' = [pc EXCEPT ![n] = "seq"] /\ loc' = loc
      /\ flog' = [flog EXCEPT ![n][s] = f]
      /\ UNCHANGED <<data, map, info, phase, rlane, laidout, layout_lock, rt, rtt, map_locks,
                     out, ops, crashes>>
  BY Zenon DEF FlogFirst, At, Goto, run
<1>3. /\ phase = "up" /\ laidout /\ info /\ Owned(map, Cur)
      /\ \A m \in Lanes : FlogOK(m) /\ rt[m] = Runtime(flog[m]) /\ Cur[m] = Current(flog[m])
  BY <1>2, LaidOut, Zenon DEF Unlaid
<1>4. /\ flog[n] \in [0 .. 1 -> FlogEntries] /\ s = NextSlot(flog[n])
      /\ s \in 0 .. 1 /\ 1 - s \in 0 .. 1 /\ 1 - s # s
  <2>1. s = NextSlot(flog[n]) /\ s \in 0 .. 1 /\ 1 - s \in 0 .. 1
    BY <1>1, <1>3, LocalTypes, CurrentSlot, Zenon
  <2> HIDE DEF s
  <2>2. 1 - s # s
    BY SMTT(20), <2>1
  <2> QED BY Zenon, <2>1, <2>2, <1>1, LocalTypes
<1> HIDE DEF s
<1>5. f \in FlogEntries /\ f.lba = loc[n].lba /\ f.old = e /\ f.seq = flog[n][s].seq
  <2>1. flog[n][s] \in FlogEntries
    BY Zenon, <1>4
  <2>2. flog[n][s].new \in Entries /\ flog[n][s].seq \in 0 .. 3
    BY <2>1, Zenon DEF FlogEntries
  <2>3. e \in Entries /\ loc[n].lba \in Lba
    BY Zenon, <1>1, LocalTypes, Normalised
  <2> HIDE DEF e
  <2> QED BY <2>2, <2>3, FlogFields
<1> HIDE DEF f, e
<1>6. /\ flog'[n] = [flog[n] EXCEPT ![s] = f]
      /\ \A m \in Lanes : m # n => flog'[m] = flog[m]
  BY <1>1, <1>2, Zenon DEF TypeOK
<1>7. /\ flog'[n] \in [0 .. 1 -> FlogEntries] /\ flog'[n][s] = f
      /\ flog'[n][1 - s] = flog[n][1 - s]
  BY <1>4, <1>5, <1>6, Zenon
<1>8. NextSlot(flog'[n]) = s /\ Current(flog'[n]) = Current(flog[n])
  BY <1>4, <1>5, <1>7, SpareSlotWritten, Zenon
<1>9. \A m \in Lanes : Current(flog'[m]) = Current(flog[m]) /\ NextSlot(flog'[m]) = NextSlot(flog[m])
  BY Zenon, <1>4, <1>6, <1>8
<1>10. Cur' = Cur /\ \A m \in Lanes : Runtime(flog'[m]) = Runtime(flog[m])
  BY Zenon, <1>9 DEF Cur, Runtime
<1>11. pc'[n] = "seq" /\ \A m \in Lanes : m # n => pc'[m] = pc[m]
  BY Zenon, <1>1, <1>2 DEF TypeOK
<1>12. TypeOK'
  <2>1. flog' \in [Lanes -> [0 .. 1 -> FlogEntries]]
    BY <1>1, <1>2, <1>6, <1>7, Zenon DEF TypeOK
  <2>2. pc' \in [Lanes -> Positions]
    BY <1>1, <1>2, Zenon DEF TypeOK, Positions
  <2> QED BY Zenon, <2>1, <2>2, <1>1, <1>2 DEF TypeOK
<1>13. LaneInv(n)'
  <2>1. LaneOK(n, "flog", loc[n], flog[n], rt[n], map[loc[n].lba],
               map_locks[MapLock(loc[n].lba)], rtt[n])
    BY Zenon, <1>1, <1>2 DEF LaneInv
  <2>2. flog'[n][rt[n].next].lba = loc[n].lba /\ flog'[n][rt[n].next].old = Norm(loc[n].lba, loc[n].entry)
    BY Zenon, <1>5, <1>7 DEF s, e
  <2>3. LaneOK(n, "seq", loc[n], flog'[n], rt[n], map[loc[n].lba],
               map_locks[MapLock(loc[n].lba)], rtt[n])
    BY <2>1, <2>2, <1>8, Zenon DEF LaneOK, WithLock, Unlaid
  <2> QED BY Zenon, <2>3, <1>2, <1>11 DEF LaneInv
<1>14. FlogInv'
  <2>1. ASSUME NEW m \in Lanes PROVE FlogOK(m)'
    <3>1. ~Pend(map, Cur[n])
      BY <1>2, <1>3, Zenon DEF FlogOK
    <3> QED BY Zenon, <3>1, <1>2, <1>3, <1>10, <1>11 DEF FlogOK
  <2> QED BY Zenon, <2>1, <1>2, <1>3, <1>10 DEF FlogInv
<1>15. LockedStep(n, "seq")
  BY <1>2, <1>6, Zenon DEF LockedStep, WithLock
<1> QED BY <1>12, <1>13, <1>14, <1>15, LockedStepKeeps, Zenon DEF WithLock

\* The second one makes it the current slot: the exchange is logged.
LEMMA FlogSecondKeeps ==
    ASSUME BttInv, NEW n \in Lanes, FlogSecond(n)
    PROVE  BttInv'
<1> DEFINE s == rt[n].next
           l == loc[n].lba
           e == Norm(l, loc[n].entry)
           f == Flog(flog[n][s].lba, flog[n][s].old, loc[n].new, Nseq(rt[n].seq))
           r == [next |-> 1 - s, old |-> e, seq |-> Nseq(rt[n].seq)]
<1>1. TypeOK /\ LaneInv(n)
  BY Zenon DEF BttInv
<1>2. /\ pc[n] = "seq" /\ pc' = [pc EXCEPT ![n] = "map"] /\ loc' = loc
      /\ flog' = [flog EXCEPT ![n][s] = f] /\ rt' = [rt EXCEPT ![n] = r]
      /\ UNCHANGED <<data, map, info, phase, rlane, laidout, layout_lock, rtt, map_locks,
                     out, ops, crashes>>
  BY Zenon DEF FlogSecond, At, Goto
<1>3. /\ phase = "up" /\ laidout /\ info /\ Owned(map, Cur)
      /\ \A m \in Lanes : FlogOK(m) /\ rt[m] = Runtime(flog[m]) /\ Cur[m] = Current(flog[m])
  BY <1>2, LaidOut, Zenon DEF Unlaid
<1>4. /\ flog[n] \in [0 .. 1 -> FlogEntries] /\ s = NextSlot(flog[n])
      /\ s \in 0 .. 1 /\ 1 - s \in 0 .. 1 /\ 1 - s # s
      /\ rt[n].seq = Current(flog[n]).seq /\ Current(flog[n]).seq \in 1 .. 3
  <2>1. s = NextSlot(flog[n]) /\ s \in 0 .. 1 /\ 1 - s \in 0 .. 1 /\ rt[n].seq = Current(flog[n]).seq
    BY <1>1, <1>3, LocalTypes, CurrentSlot, Zenon
  <2> HIDE DEF s
  <2>2. 1 - s # s
    BY <2>1
  <2>3. Current(flog[n]).seq \in 1 .. 3
    BY Zenon, <1>3 DEF FlogOK
  <2> QED BY Zenon, <2>1, <2>2, <2>3, <1>1, LocalTypes
<1>5. flog[n][s].lba = l /\ flog[n][s].old = e
  BY <1>1, <1>2, Zenon DEF LaneInv, LaneOK
<1>6. /\ l \in Lba /\ e \in Entries /\ loc[n].new \in Entries
      /\ map[l] = loc[n].entry /\ loc[n].new = Entry(Cur[n].old.blk, "normal")
      /\ loc[n].kind = "write"
  <2>1. map[l] = loc[n].entry /\ loc[n].new = Entry(Cur[n].old.blk, "normal") /\ loc[n].kind = "write"
    BY <1>1, <1>2, <1>3, Zenon DEF LaneInv, LaneOK
  <2> QED BY Zenon, <2>1, <1>1, LocalTypes, Normalised
<1>7. Nseq(rt[n].seq) \in 0 .. 3
  BY SMTT(20), <1>4 DEF Nseq
<1>8. /\ f \in FlogEntries /\ f.lba = l /\ f.old = e /\ f.new = loc[n].new
      /\ f.seq = Nseq(rt[n].seq)
  BY <1>5, <1>6, <1>7, FlogFields
<1>9. r \in Runtimes
  <2> HIDE DEF s, e
  <2> QED BY <1>4, <1>6, <1>7, Zenon DEF Runtimes
<1> HIDE DEF s, l, e, f
<1>10. /\ flog'[n] = [flog[n] EXCEPT ![s] = f]
       /\ \A m \in Lanes : m # n => flog'[m] = flog[m]
  BY <1>1, <1>2, Zenon DEF TypeOK
<1>11. /\ flog'[n] \in [0 .. 1 -> FlogEntries] /\ flog'[n][s] = f
       /\ flog'[n][1 - s] = flog[n][1 - s]
  BY <1>4, <1>8, <1>10, Zenon
<1>12. /\ NextSlot(flog'[n]) = 1 - s /\ Current(flog'[n]) = f /\ f.seq \in 1 .. 3
  BY <1>4, <1>8, <1>11, SlotSwitched
<1>13. /\ rt'[n] = r /\ \A m \in Lanes : m # n => rt'[m] = rt[m]
       /\ pc'[n] = "map" /\ \A m \in Lanes : m # n => pc'[m] = pc[m]
  BY Zenon, <1>1, <1>2 DEF TypeOK
<1>14. rt'[n] = Runtime(flog'[n])
  BY Zenon, <1>8, <1>12, <1>13 DEF Runtime
<1>15. Cur'[n] = f /\ \A m \in Lanes : m # n => Cur'[m] = Cur[m]
  BY Zenon, <1>10, <1>12 DEF Cur
<1>16. Owned(map, Cur') /\ Pend(map, Cur'[n])
  <2>1. ~Pend(map, Cur[n])
    BY <1>2, <1>3, Zenon DEF FlogOK
  <2>2. \A k \in Lanes : k # n /\ Pend(map, Cur[k]) => Cur[k].lba # l
    BY <1>2, <1>3, NotPendingElsewhere, Zenon DEF WithLock, l
  <2>3. f.old = Norm(l, map[l]) /\ f.new.blk = Cur[n].old.blk
    BY <1>6, <1>8, EntryFields DEF e
  <2> HIDE DEF Cur
  <2> QED BY SMTT(20), <2>1, <2>2, <2>3, <1>3, <1>6, <1>8, <1>15, ExchangeLogged
<1>17. TypeOK'
  <2>1. flog' \in [Lanes -> [0 .. 1 -> FlogEntries]]
    BY <1>1, <1>2, <1>10, <1>11, Zenon DEF TypeOK
  <2>2. pc' \in [Lanes -> Positions]
    BY <1>1, <1>2, Zenon DEF TypeOK, Positions
  <2>3. rt' \in [Lanes -> Runtimes]
    BY Zenon, <1>1, <1>2, <1>9 DEF TypeOK
  <2> QED BY Zenon, <2>1, <2>2, <2>3, <1>1, <1>2 DEF TypeOK
<1>18. LaneInv(n)'
  <2>1. LaneOK(n, "seq", loc[n], flog[n], rt[n], map[loc[n].lba],
               map_locks[MapLock(loc[n].lba)], rtt[n])
    BY Zenon, <1>1, <1>2 DEF LaneInv
  <2>2. /\ Current(flog'[n]).lba = loc[n].lba
        /\ Current(flog'[n]).old = Norm(loc[n].lba, loc[n].entry)
        /\ Current(flog'[n]).new = loc[n].new /\ loc[n].new.st = "normal"
    BY <1>6, <1>8, <1>12, EntryFields DEF l, e
  <2>3. loc[n].new # Norm(loc[n].lba, loc[n].entry)
    BY Zenon, <2>2, <1>12, <1>15, <1>16 DEF Pend
  <2>4. LaneOK(n, "map", loc[n], flog'[n], rt'[n], map[loc[n].lba],
               map_locks[MapLock(loc[n].lba)], rtt[n])
    BY <2>1, <2>2, <2>3, Zenon DEF LaneOK, WithLock, Unlaid
  <2> QED BY Zenon, <2>4, <1>2, <1>13 DEF LaneInv
<1>19. FlogInv'
  <2>1. FlogOK(n)'
    <3>1. Cur'[n].new.st # "initial"
      BY <1>6, <1>8, <1>15, EntryFields
    <3> QED BY <3>1, <1>2, <1>3, <1>12, <1>13, <1>14, <1>15, Zenon DEF FlogOK
  <2>2. ASSUME NEW m \in Lanes, m # n PROVE FlogOK(m)'
    <3>1. FlogOK(m) /\ Cur'[m] = Cur[m] /\ pc'[m] = pc[m] /\ rt'[m] = rt[m] /\ flog'[m] = flog[m]
      BY Zenon, <2>2, <1>3, <1>10, <1>13, <1>15
    <3> QED BY Zenon, <3>1, <1>2, <1>3 DEF FlogOK
  <2> QED BY Zenon, <2>1, <2>2, <1>2, <1>3, <1>16 DEF FlogInv
<1>20. LockedStep(n, "map")
  BY <1>2, <1>10, <1>13, Zenon DEF LockedStep, WithLock
<1> QED BY <1>17, <1>18, <1>19, <1>20, LockedStepKeeps, Zenon DEF WithLock

\* Storing a map entry under the lock: what is left to show of a step that
\* changes nothing else.
LEMMA EntryStored ==
    ASSUME BttInv, NEW n \in Lanes, pc[n] \in {"map", "set"},
           NEW e \in Entries, map' = [map EXCEPT ![loc[n].lba] = e],
           pc' = [pc EXCEPT ![n] = "unlock"], loc' = loc,
           UNCHANGED <<data, flog, info, phase, rlane, laidout, layout_lock, rt, rtt,
                       map_locks, out, ops, crashes>>,
           e = IF loc[n].kind = "write"
                 THEN loc[n].new
                 ELSE Entry(Norm(loc[n].lba, loc[n].entry).blk, loc[n].kind),
           Owned(map', Cur),
           \A k \in Lanes : Pend(map', Cur[k]) => Pend(map, Cur[k]) /\ k # n
    PROVE  BttInv'
<1>1. TypeOK /\ LaneInv(n)
  BY Zenon DEF BttInv
<1>2. /\ phase = "up" /\ laidout /\ info
      /\ \A m \in Lanes : FlogOK(m) /\ rt[m] = Runtime(flog[m]) /\ Cur[m] = Current(flog[m])
  BY LaidOut, Zenon DEF Unlaid
<1>3. loc[n].lba \in Lba
  BY Zenon, <1>1, LocalTypes
<1>4. /\ map' \in [Lba -> Entries] /\ map'[loc[n].lba] = e
      /\ \A l \in Lba : l # loc[n].lba => map'[l] = map[l]
  BY Zenon, <1>1, <1>3 DEF TypeOK
<1>5. /\ pc'[n] = "unlock" /\ \A m \in Lanes : m # n => pc'[m] = pc[m]
      /\ pc' \in [Lanes -> Positions]
  BY <1>1, Zenon DEF TypeOK, Positions
<1>6. Cur' = Cur
  BY Zenon DEF Cur
<1>7. TypeOK'
  BY Zenon, <1>1, <1>4, <1>5 DEF TypeOK
<1>8. LaneInv(n)'
  <2>1. LaneOK(n, pc[n], loc[n], flog[n], rt[n], map[loc[n].lba],
               map_locks[MapLock(loc[n].lba)], rtt[n])
    BY Zenon, <1>1 DEF LaneInv
  <2>2. LaneOK(n, "unlock", loc[n], flog[n], rt[n], e,
               map_locks[MapLock(loc[n].lba)], rtt[n])
    BY <2>1, Zenon DEF LaneOK, WithLock, Unlaid
  <2> QED BY Zenon, <2>2, <1>4, <1>5 DEF LaneInv
<1>9. FlogInv'
  <2>1. ASSUME NEW m \in Lanes PROVE FlogOK(m)'
    <3>1. Pend(map', Cur[m]) => pc'[m] = "map"
      BY Zenon, <1>2, <1>5 DEF FlogOK
    <3> QED BY Zenon, <3>1, <1>2, <1>6 DEF FlogOK
  <2> QED BY Zenon, <2>1, <1>2, <1>6 DEF FlogInv
<1>10. LockedStep(n, "unlock")
  BY <1>4, Zenon DEF LockedStep, WithLock
<1> QED BY <1>7, <1>8, <1>9, <1>10, LockedStepKeeps, Zenon DEF WithLock

\* The exchange reaches the map.
LEMMA StoreMapKeeps ==
    ASSUME BttInv, NEW n \in Lanes, StoreMap(n)
    PROVE  BttInv'
<1> DEFINE l == loc[n].lba
           e == loc[n].new
<1>1. TypeOK /\ LaneInv(n)
  BY Zenon DEF BttInv
<1>2. /\ pc[n] = "map" /\ map' = [map EXCEPT ![l] = e]
      /\ pc' = [pc EXCEPT ![n] = "unlock"] /\ loc' = loc
      /\ UNCHANGED <<data, flog, info, phase, rlane, laidout, layout_lock, rt, rtt,
                     map_locks, out, ops, crashes>>
  BY Zenon DEF StoreMap, At, Goto, run
<1>3. Owned(map, Cur) /\ Cur[n] = Current(flog[n])
  BY <1>2, LaidOut, Zenon DEF Unlaid
<1>4. /\ loc[n].kind = "write" /\ map[l] = loc[n].entry /\ Cur[n].lba = l
      /\ Cur[n].old = Norm(l, loc[n].entry) /\ Cur[n].new = e /\ e.st = "normal"
      /\ e # Norm(l, loc[n].entry)
  BY <1>1, <1>2, <1>3, Zenon DEF LaneInv, LaneOK
<1>5. l \in Lba /\ e \in Entries
  BY Zenon, <1>1, LocalTypes
<1>6. Pend(map, Cur[n])
  BY Zenon, <1>4 DEF Pend
<1>7. map'[l] = e /\ \A j \in Lba : j # l => map'[j] = map[j]
  BY Zenon, <1>1, <1>2, <1>5 DEF TypeOK
<1> HIDE DEF l, e
<1>8. /\ Owned(map', Cur) /\ ~Pend(map', Cur[n])
      /\ \A k \in Lanes : Pend(map', Cur[k]) => Pend(map, Cur[k])
  <2>1. \A k \in Lanes : Cur[k].lba \in Lba
    BY Zenon, <1>1, CurType
  <2>2. Cur[n].new.st # "initial"
    BY <1>4, Zenon
  <2> QED BY <2>1, <2>2, <1>3, <1>4, <1>5, <1>6, <1>7, ExchangeStored
<1>9. \A k \in Lanes : Pend(map', Cur[k]) => Pend(map, Cur[k]) /\ k # n
  BY Zenon, <1>8
<1>10. map' = [map EXCEPT ![loc[n].lba] = e] /\ e = loc[n].new
  BY Zenon, <1>2 DEF l, e
<1>11. e = IF loc[n].kind = "write"
             THEN loc[n].new
             ELSE Entry(Norm(loc[n].lba, loc[n].entry).blk, loc[n].kind)
  BY Zenon, <1>4, <1>10
<1> QED BY <1>2, <1>5, <1>8, <1>9, <1>10, <1>11, EntryStored, Zenon

\* A flag is set on a map entry, which keeps its block.
LEMMA SetFlagKeeps ==
    ASSUME BttInv, NEW n \in Lanes, SetFlag(n)
    PROVE  BttInv'
<1> DEFINE l == loc[n].lba
           b == Norm(l, loc[n].entry).blk
           e == Entry(b, loc[n].kind)
<1>1. TypeOK /\ LaneInv(n)
  BY Zenon DEF BttInv
<1>2. /\ pc[n] = "set" /\ map' = [map EXCEPT ![l] = e]
      /\ pc' = [pc EXCEPT ![n] = "unlock"] /\ loc' = loc
      /\ UNCHANGED <<data, flog, info, phase, rlane, laidout, layout_lock, rt, rtt,
                     map_locks, out, ops, crashes>>
  BY Zenon DEF SetFlag, At, Goto, run
<1>3. Owned(map, Cur) /\ laidout
  BY <1>2, LaidOut, Zenon DEF Unlaid
<1>4. loc[n].kind \in {"zero", "error"} /\ map[l] = loc[n].entry
  BY <1>1, <1>2, Zenon DEF LaneInv, LaneOK
<1>5. l \in Lba /\ e \in Entries
  <2>1. l \in Lba /\ Norm(l, loc[n].entry) \in Entries
    BY Zenon, <1>1, LocalTypes, Normalised
  <2>2. b \in Blocks
    BY <2>1, Zenon DEF Entries
  <2> HIDE DEF b
  <2> QED BY <2>1, <2>2, <1>4, EntryFields, Zenon
<1>6. map'[l] = e /\ \A j \in Lba : j # l => map'[j] = map[j]
  BY Zenon, <1>1, <1>2, <1>5 DEF TypeOK
<1>7. Blk(map', l) = b /\ Blk(map, l) = b
  <2>1. e.st # "initial" /\ e.blk = b
    BY <1>4, EntryFields
  <2> HIDE DEF e
  <2> QED BY Zenon, <2>1, <1>4, <1>6 DEF Blk, Norm
<1> HIDE DEF e, b
<1>8. \A k \in Lanes : Pend(map, Cur[k]) => Cur[k].lba # l /\ k # n
  <2>1. ~Pend(map, Cur[n])
    BY <1>2, <1>3, PendingHolder, Zenon
  <2>2. \A k \in Lanes : k # n /\ Pend(map, Cur[k]) => Cur[k].lba # l
    BY <1>2, <1>3, NotPendingElsewhere, Zenon DEF WithLock
  <2> QED BY Zenon, <2>1, <2>2
<1>9. Reflagged(map, map', Cur, l)
  BY Zenon, <1>7, <1>8 DEF Reflagged
<1>10. \A k \in Lanes : Cur[k].lba \in Lba
  BY Zenon, <1>1, CurType
<1>11. /\ Owned(map', Cur)
       /\ \A k \in Lanes : Pend(map', Cur[k]) => \/ Pend(map, Cur[k])
                                                 \/ Undone(map, map', Cur, Cur[k].lba, k)
  <2>1. \A j \in Lba : \/ map'[j] = map[j]
                       \/ Reflagged(map, map', Cur, j)
                       \/ \E i \in Lanes : Undone(map, map', Cur, j, i)
    BY Zenon, <1>6, <1>9
  <2> QED BY <2>1, <1>3, <1>10, EntriesRevert, Zenon
<1>12. \A j \in Lba : Blk(map', j) = Blk(map, j)
  BY Zenon, <1>6, <1>7 DEF Blk
<1>13. ASSUME NEW k \in Lanes, Undone(map, map', Cur, Cur[k].lba, k)
       PROVE  FALSE
  <2>1. Blk(map', Cur[k].lba) = Cur[k].old.blk
    BY Zenon, <1>13 DEF Undone, Blk
  <2>2. Blk(map, Cur[k].lba) = Cur[k].old.blk
    BY Zenon, <2>1, <1>10, <1>12
  <2> QED BY Zenon, <2>2, <1>3, <1>10, <1>13 DEF Owned, Undone
<1>14. \A k \in Lanes : Pend(map', Cur[k]) => Pend(map, Cur[k]) /\ k # n
  BY Zenon, <1>8, <1>11, <1>13
<1>15. e = IF loc[n].kind = "write"
             THEN loc[n].new
             ELSE Entry(Norm(loc[n].lba, loc[n].entry).blk, loc[n].kind)
  BY <1>4, Zenon DEF e, b
<1> QED BY <1>2, <1>5, <1>11, <1>14, <1>15, EntryStored, Zenon

-----------------------------------------------------------------------------
(* Power failures, and opening the pool after one.                         *)

\* With every lane idle nothing is said of operations.
LEMMA AllIdle ==
    ASSUME \A n \in Lanes : /\ pc'[n] = "idle" /\ loc'[n].scan = 0
                            /\ loc'[n].kind = "write" => loc'[n].val \in Values
    PROVE  /\ \A n \in Lanes : LaneInv(n)' /\ LayoutInv(n)'
           /\ \A n, m \in Lanes : Apart(n, m)'
<1>1. "idle" \in Unlaid /\ "idle" \notin InLayout
  BY Zenon DEF Unlaid, InLayout
<1>2. \A n \in Lanes : LaneInv(n)'
  BY <1>1, UnlaidLane, Zenon DEF LaneInv
<1>3. \A n \in Lanes : LayoutInv(n)'
  BY <1>1, Zenon DEF LayoutInv
<1>4. \A n, m \in Lanes : Apart(n, m)'
  BY Zenon DEF Apart
<1> QED BY Zenon, <1>2, <1>3, <1>4

\* While the pool is not open nothing runs.
LEMMA NotOpen ==
    ASSUME BttInv, phase # "up", pc' = pc, loc' = loc
    PROVE  /\ \A n \in Lanes : pc[n] = "idle"
           /\ \A n \in Lanes : LaneInv(n)' /\ LayoutInv(n)'
           /\ \A n, m \in Lanes : Apart(n, m)'
<1>1. \A n \in Lanes : pc[n] = "idle" /\ LaneInv(n)
  BY Zenon DEF BttInv, PhaseInv
<1>2. \A n \in Lanes : loc[n].scan = 0 /\ (loc[n].kind = "write" => loc[n].val \in Values)
  BY <1>1, Zenon DEF LaneInv, LaneOK, Unlaid
<1> QED BY Zenon, <1>1, <1>2, AllIdle

(* A map entry that a power failure takes back: the lane that stored it is *)
(* still under its lock.  A write becomes pending again, a flag goes back. *)
LEMMA EntryLost ==
    ASSUME BttInv, NEW n \in Lanes, pc[n] = "unlock",
           NEW w, w[loc[n].lba] = loc[n].entry
    PROVE  \/ Reflagged(map, w, Cur, loc[n].lba)
           \/ Undone(map, w, Cur, loc[n].lba, n)
<1> DEFINE l == loc[n].lba
<1>1. TypeOK /\ LaneInv(n)
  BY Zenon DEF BttInv
<1>2. laidout /\ Cur[n] = Current(flog[n])
  BY LaidOut, Zenon DEF Unlaid
<1>3. ~Pend(map, Cur[n])
  BY <1>2, PendingHolder, Zenon
<1>4. \A k \in Lanes : Pend(map, Cur[k]) => Cur[k].lba # l
  BY <1>2, <1>3, NotPendingElsewhere, Zenon DEF WithLock
<1>5. l \in Lba /\ loc[n].entry \in Entries
  BY Zenon, <1>1, LocalTypes
<1>6. loc[n].kind \in {"write", "zero", "error"}
  BY <1>1, Zenon DEF LaneInv, LaneOK
<1>7. CASE loc[n].kind = "write"
  <2>1. /\ map[l] = loc[n].new /\ Cur[n].lba = l /\ Cur[n].old = Norm(l, loc[n].entry)
        /\ Cur[n].new = loc[n].new /\ loc[n].new.st = "normal"
    BY <1>1, <1>2, <1>7, Zenon DEF LaneInv, LaneOK
  <2>2. Blk(map, l) = Cur[n].new.blk
    BY <2>1, Zenon DEF Blk, Norm
  <2> QED BY Zenon, <2>1, <2>2, <1>3, <1>4 DEF Undone
<1>8. CASE loc[n].kind # "write"
  <2>1. map[l] = Entry(Norm(l, loc[n].entry).blk, loc[n].kind)
    BY <1>1, <1>8, Zenon DEF LaneInv, LaneOK
  <2>2. map[l].st # "initial" /\ map[l].blk = Norm(l, loc[n].entry).blk
    BY <2>1, <1>6, EntryFields
  <2>3. Blk(map, l) = Blk(w, l)
    BY Zenon, <2>2 DEF Blk, Norm
  <2> QED BY Zenon, <2>3, <1>4 DEF Reflagged
<1> QED BY Zenon, <1>7, <1>8

\* A failure leaves medium and flog as they are; the tables in memory are gone.
LEMMA CrashKeeps ==
    ASSUME BttInv, Crash
    PROVE  BttInv'
<1>1. TypeOK /\ PhaseInv /\ FlogInv
  BY Zenon DEF BttInv
<1>2. /\ phase' = "down" /\ rlane' = 0 /\ laidout' = FALSE /\ layout_lock' = NoLane
      /\ rt' = [n \in Lanes |-> [next |-> 0, old |-> Initial, seq |-> 0]]
      /\ rtt' = [n \in Lanes |-> None] /\ map_locks' = [k \in Lanes |-> NoLane]
      /\ pc' = [n \in Lanes |-> "idle"] /\ loc' = [n \in Lanes |-> NoOp]
      /\ out' = [n \in Lanes |-> Zero] /\ crashes' \in {crashes, crashes + 1}
      /\ UNCHANGED <<data, flog, info, ops>>
  BY Zenon DEF Crash
<1>3. PICK lost \in SUBSET {n \in Lanes : pc[n] = "unlock"} :
         map' = [l \in Lba |->
                   IF \E n \in lost : loc[n].lba = l
                     THEN loc[CHOOSE n \in lost : loc[n].lba = l].entry
                     ELSE map[l]]
  BY Zenon DEF Crash
<1>4. ASSUME NEW l \in Lba
      PROVE  \/ map'[l] = map[l]
             \/ \E n \in Lanes : pc[n] = "unlock" /\ loc[n].lba = l /\ map'[l] = loc[n].entry
  <2>1. CASE \E n \in lost : loc[n].lba = l
    <3> DEFINE n == CHOOSE n \in lost : loc[n].lba = l
    <3>1. n \in lost /\ loc[n].lba = l
      BY Zenon, <2>1
    <3>2. map'[l] = loc[n].entry
      BY Zenon, <2>1, <1>3
    <3> HIDE DEF n
    <3>3. n \in Lanes /\ pc[n] = "unlock"
      BY Zenon, <3>1, <1>3
    <3> QED BY Zenon, <3>1, <3>2, <3>3
  <2>2. CASE ~ \E n \in lost : loc[n].lba = l
    BY Zenon, <2>2, <1>3
  <2> QED BY Zenon, <2>1, <2>2
<1>5. TypeOK'
  <2>1. Initial \in Entries /\ None \in Entries
    BY LanesInNat, EntryFields, Zenon DEF Initial, None, Entries
  <2>2. [next |-> 0, old |-> Initial, seq |-> 0] \in Runtimes
    BY <2>1 DEF Runtimes
  <2>3. rt' \in [Lanes -> Runtimes]
    BY Zenon, <2>2, <1>2
  <2>4. /\ rtt' \in [Lanes -> Entries] /\ map_locks' \in [Lanes -> Lanes \cup {NoLane}]
        /\ layout_lock' \in Lanes \cup {NoLane} /\ laidout' \in BOOLEAN
    BY <2>1, <1>2, Zenon
  <2>5. pc' \in [Lanes -> Positions] /\ loc' \in [Lanes -> Operations]
    BY <1>2, NoOpType, Zenon DEF Positions
  <2>6. out' \in [Lanes -> Contents \cup {Junk}]
    BY <1>2, Zenon DEF Contents
  <2>7. /\ rlane' \in 0 .. NLane /\ crashes' \in Nat
        /\ phase' \in {"down", "recover", "up"}
    BY <1>1, <1>2, BttAssumption DEF TypeOK
  <2>8. map' \in [Lba -> Entries]
    <3>1. \A l \in Lba : map'[l] \in Entries
      BY Zenon, <1>1, <1>4, LocalTypes DEF TypeOK
    <3> QED BY Zenon, <3>1, <1>3
  <2> QED BY Zenon, <2>3, <2>4, <2>5, <2>6, <2>7, <2>8, <1>1, <1>2 DEF TypeOK
<1>6. /\ \A n \in Lanes : pc'[n] = "idle" /\ LaneInv(n)' /\ LayoutInv(n)'
      /\ \A n, m \in Lanes : Apart(n, m)'
  <2>1. \A n \in Lanes : pc'[n] = "idle" /\ loc'[n] = NoOp
    BY Zenon, <1>2
  <2>2. NoOp.scan = 0 /\ NoOp.kind # "write"
    BY NoOpType, Zenon
  <2> QED BY Zenon, <2>1, <2>2, AllIdle
<1>7. Cur' = Cur
  BY Zenon, <1>2 DEF Cur
<1>8. ~info => map' = map
  <2> HAVE ~info
  <2>1. \A n \in Lanes : pc[n] # "unlock"
    BY LaidOut, Zenon DEF Unlaid
  <2>2. \A l \in Lba : map'[l] = map[l]
    BY Zenon, <2>1, <1>4
  <2> QED BY <2>2, <1>1, <1>3, <1>5 DEF TypeOK
<1>9. PhaseInv'
  BY <1>1, <1>2, <1>6, <1>8, Zenon DEF PhaseInv
<1>10. FlogInv'
  <2> SUFFICES ASSUME info PROVE Owned(map', Cur) /\ \A n \in Lanes : FlogOK(n)'
    BY Zenon, <1>2, <1>7 DEF FlogInv
  <2>1. Owned(map, Cur) /\ \A n \in Lanes : FlogOK(n)
    BY Zenon, <1>1 DEF FlogInv
  <2>2. \A l \in Lba : \/ map'[l] = map[l]
                       \/ Reflagged(map, map', Cur, l)
                       \/ \E n \in Lanes : Undone(map, map', Cur, l, n)
    BY <1>4, EntryLost
  <2>3. \A k \in Lanes : Cur[k].lba \in Lba
    BY Zenon, <1>1, CurType
  <2>4. Owned(map', Cur)
    BY <2>1, <2>2, <2>3, EntriesRevert, Zenon
  <2>5. ASSUME NEW n \in Lanes PROVE FlogOK(n)'
    BY <2>1, <1>2, <1>7, Zenon DEF FlogOK
  <2> QED BY Zenon, <2>4, <2>5
<1> QED BY Zenon, <1>5, <1>6, <1>9, <1>10 DEF BttInv

\* read_layout finds no layout, or one to recover.
LEMMA OpenFreshKeeps ==
    ASSUME BttInv, OpenFresh
    PROVE  BttInv'
<1>1. TypeOK /\ PhaseInv
  BY Zenon DEF BttInv
<1>2. /\ phase = "down" /\ ~info /\ phase' = "up"
      /\ UNCHANGED <<data, map, flog, info, rlane, laidout, layout_lock, rt, rtt, map_locks,
                     pc, loc, out, ops, crashes>>
  BY Zenon DEF OpenFresh, media
<1>3. /\ \A n \in Lanes : LaneInv(n)' /\ LayoutInv(n)'
      /\ \A n, m \in Lanes : Apart(n, m)'
  BY <1>2, NotOpen, Zenon
<1>4. TypeOK'
  <2>1. phase' \in {"down", "recover", "up"}
    BY Zenon, <1>2
  <2> QED BY Zenon, <2>1, <1>1, <1>2 DEF TypeOK
<1>5. PhaseInv' /\ FlogInv'
  BY <1>1, <1>2, Zenon DEF PhaseInv, FlogInv
<1> QED BY Zenon, <1>3, <1>4, <1>5 DEF BttInv

\* btt_init finds a layout: recovery of the lanes starts.
LEMMA OpenLaidOutKeeps ==
    ASSUME BttInv, OpenLaidOut
    PROVE  BttInv'
<1>1. TypeOK /\ PhaseInv /\ FlogInv
  BY Zenon DEF BttInv
<1>2. /\ phase = "down" /\ info /\ phase' = "recover"
      /\ UNCHANGED <<data, map, flog, info, rlane, laidout, layout_lock, rt, rtt, map_locks,
                     pc, loc, out, ops, crashes>>
  BY Zenon DEF OpenLaidOut, media
<1>3. /\ \A n \in Lanes : pc[n] = "idle"
      /\ \A n \in Lanes : LaneInv(n)' /\ LayoutInv(n)'
      /\ \A n, m \in Lanes : Apart(n, m)'
  BY <1>2, NotOpen, Zenon
<1>4. TypeOK'
  <2>1. phase' \in {"down", "recover", "up"}
    BY Zenon, <1>2
  <2> QED BY Zenon, <2>1, <1>1, <1>2 DEF TypeOK
<1>5. PhaseInv'
  BY <1>1, <1>2, <1>3, Zenon DEF PhaseInv
<1>6. Cur' = Cur
  BY Zenon, <1>2 DEF Cur
<1>7. FlogInv'
  <2>1. Owned(map, Cur) /\ \A n \in Lanes : FlogOK(n)
    BY Zenon, <1>1, <1>2 DEF FlogInv
  <2>2. rlane = 0
    BY <1>1, <1>2, Zenon DEF PhaseInv
  <2>3. \A n \in Lanes : n >= 0 /\ ~(n < 0)
    BY LanesInNat
  <2>4. \A n \in Lanes : FlogOK(n)'
    BY <2>1, <2>2, <2>3, <1>2, <1>6, Zenon DEF FlogOK
  <2> QED BY Zenon, <2>1, <2>4, <1>2, <1>6 DEF FlogInv
<1> QED BY Zenon, <1>3, <1>4, <1>5, <1>7 DEF BttInv

\* read_flog_pair completes the exchange that is pending on its lane.
LEMMA RecoverFlogKeeps ==
    ASSUME BttInv, RecoverFlog
    PROVE  BttInv'
<1> DEFINE r == rlane
           f == Cur[r]
           l == f.lba
<1>1. TypeOK /\ PhaseInv /\ FlogInv
  BY Zenon DEF BttInv
<1>2. /\ phase = "recover" /\ r < NLane /\ rlane' = r + 1
      /\ rt' = [rt EXCEPT ![r] = Runtime(flog[r])]
      /\ map' = IF Incomplete(Current(flog[r]))
                  THEN [map EXCEPT ![Current(flog[r]).lba] = Current(flog[r]).new]
                  ELSE map
      /\ UNCHANGED <<data, flog, info, phase, laidout, layout_lock, rtt, map_locks,
                     pc, loc, out, ops, crashes>>
  BY Zenon DEF RecoverFlog
<1>3. r \in Lanes /\ r + 1 \in 0 .. NLane /\ \A n \in Lanes : n \in Nat
  <2>1. r \in 0 .. NLane /\ r < NLane /\ NLane \in Nat
    BY Zenon, <1>1, <1>2, BttAssumption DEF TypeOK
  <2>2. r \in 0 .. NLane - 1 /\ r + 1 \in 0 .. NLane
    BY <2>1
  <2> QED BY Zenon, <2>2, LanesInNat DEF Lanes
<1>4. /\ f = Current(flog[r]) /\ l \in Lba /\ f.new \in Entries
      /\ Pend(map, f) <=> Incomplete(f)
  BY <1>1, <1>3, CurType, Zenon DEF Cur, Pend, Incomplete
<1>5. /\ \A n \in Lanes : pc[n] = "idle"
      /\ \A n \in Lanes : LaneInv(n)' /\ LayoutInv(n)'
      /\ \A n, m \in Lanes : Apart(n, m)'
  BY <1>2, NotOpen, Zenon
<1>6. info /\ Owned(map, Cur) /\ \A n \in Lanes : FlogOK(n)
  BY Zenon, <1>1, <1>2 DEF PhaseInv, FlogInv
<1>7. map' = IF Pend(map, f) THEN [map EXCEPT ![l] = f.new] ELSE map
  BY Zenon, <1>2, <1>4
<1>8. Cur' = Cur
  BY Zenon, <1>2 DEF Cur
<1> HIDE DEF f, l
<1>9. TypeOK'
  <2>1. map' \in [Lba -> Entries]
    BY Zenon, <1>1, <1>4, <1>7 DEF TypeOK
  <2>2. Runtime(flog[r]) \in Runtimes
    BY Zenon, <1>1, <1>3, LocalTypes, CurrentSlot
  <2>3. rt' \in [Lanes -> Runtimes]
    BY Zenon, <2>2, <1>1, <1>2 DEF TypeOK
  <2> QED BY Zenon, <2>1, <2>3, <1>1, <1>2, <1>3 DEF TypeOK
<1>10. PhaseInv'
  BY <1>1, <1>2, <1>5, <1>6, Zenon DEF PhaseInv
<1>11. /\ Owned(map', Cur) /\ ~Pend(map', f)
       /\ \A k \in Lanes : Pend(map', Cur[k]) => Pend(map, Cur[k])
  <2>1. CASE Pend(map, f)
    <3>1. map'[l] = f.new /\ \A j \in Lba : j # l => map'[j] = map[j]
      BY Zenon, <2>1, <1>1, <1>4, <1>7 DEF TypeOK
    <3>2. \A k \in Lanes : Cur[k].lba \in Lba
      BY Zenon, <1>1, CurType
    <3>3. f = Cur[r] /\ f.new.st # "initial" /\ Cur[r].lba = l
      BY Zenon, <1>3, <1>6 DEF FlogOK, f, l
    <3>4. Pend(map, Cur[r]) /\ map'[l] = Cur[r].new /\ Cur[r].new.st # "initial"
      BY Zenon, <3>1, <3>3, <2>1
    <3>5. /\ Owned(map', Cur) /\ ~Pend(map', Cur[r])
          /\ \A k \in Lanes : Pend(map', Cur[k]) => Pend(map, Cur[k])
      <4>1. r \in Lanes /\ l \in Lba /\ Owned(map, Cur)
        BY Zenon, <1>3, <1>4, <1>6
      <4> HIDE DEF r
      <4> QED BY <3>1, <3>2, <3>3, <3>4, <4>1, ExchangeStored
    <3> QED BY Zenon, <3>3, <3>5
  <2>2. CASE ~Pend(map, f)
    BY Zenon, <2>2, <1>6, <1>7
  <2> QED BY Zenon, <2>1, <2>2
<1>12. FlogInv'
  <2>1. ASSUME NEW n \in Lanes PROVE FlogOK(n)'
    <3>1. FlogOK(n)
      BY Zenon, <1>6
    <3>2. Cur[n].seq \in 1 .. 3 /\ Cur[n].new.st # "initial"
      BY Zenon, <3>1 DEF FlogOK
    <3>3. Pend(map', Cur[n]) => n >= r + 1
      <4> HAVE Pend(map', Cur[n])
      <4>1. n >= r
        BY Zenon, <3>1, <1>2, <1>11 DEF FlogOK
      <4>2. n # r
        BY Zenon, <1>11 DEF f
      <4> QED BY <4>1, <4>2, <1>1, <1>3 DEF TypeOK
    <3>4. n < r + 1 => rt'[n] = Runtime(flog[n])
      <4> HAVE n < r + 1
      <4>1. n < r \/ n = r
        BY <1>1, <1>3 DEF TypeOK
      <4>2. CASE n = r
        BY Zenon, <4>2, <1>1, <1>2, <1>3 DEF TypeOK
      <4>3. CASE n # r
        <5>1. rt[n] = Runtime(flog[n])
          BY Zenon, <4>1, <4>3, <3>1, <1>2 DEF FlogOK
        <5> QED BY Zenon, <5>1, <4>3, <1>1, <1>2 DEF TypeOK
      <4> QED BY Zenon, <4>2, <4>3
    <3> QED BY <3>2, <3>3, <3>4, <1>2, <1>8, Zenon DEF FlogOK
  <2> QED BY Zenon, <2>1, <1>8, <1>11 DEF FlogInv
<1> QED BY Zenon, <1>5, <1>9, <1>10, <1>12 DEF BttInv

\* All flogs are read: the pool is open and nothing is pending.
LEMMA OpenDoneKeeps ==
    ASSUME BttInv, OpenDone
    PROVE  BttInv'
<1>1. TypeOK /\ PhaseInv /\ FlogInv
  BY Zenon DEF BttInv
<1>2. /\ phase = "recover" /\ rlane = NLane /\ phase' = "up" /\ laidout' = TRUE
      /\ UNCHANGED <<data, map, flog, info, rlane, layout_lock, rt, rtt, map_locks,
                     pc, loc, out, ops, crashes>>
  BY Zenon DEF OpenDone, media
<1>3. /\ \A n \in Lanes : LaneInv(n)' /\ LayoutInv(n)'
      /\ \A n, m \in Lanes : Apart(n, m)'
  BY <1>2, NotOpen, Zenon
<1>4. info /\ Owned(map, Cur) /\ \A n \in Lanes : FlogOK(n)
  BY Zenon, <1>1, <1>2 DEF PhaseInv, FlogInv
<1>5. TypeOK'
  <2>1. phase' \in {"down", "recover", "up"} /\ laidout' \in BOOLEAN
    BY Zenon, <1>2
  <2> QED BY Zenon, <2>1, <1>1, <1>2 DEF TypeOK
<1>6. PhaseInv'
  BY <1>2, <1>4, Zenon DEF PhaseInv
<1>7. Cur' = Cur
  BY Zenon, <1>2 DEF Cur
<1>8. FlogInv'
  <2>1. \A n \in Lanes : n < rlane /\ ~(n >= rlane)
    BY <1>2, BttAssumption DEF Lanes
  <2>2. \A n \in Lanes : ~Pend(map, Cur[n]) /\ rt[n] = Runtime(flog[n])
    BY Zenon, <2>1, <1>2, <1>4 DEF FlogOK
  <2>3. ASSUME NEW n \in Lanes PROVE FlogOK(n)'
    BY <2>2, <1>2, <1>4, <1>7, Zenon DEF FlogOK
  <2> QED BY Zenon, <2>3, <1>2, <1>4, <1>7 DEF FlogInv
<1> QED BY Zenon, <1>3, <1>5, <1>6, <1>8 DEF BttInv

-----------------------------------------------------------------------------
(* The invariant, and what follows from it.                                *)

\* Nothing changes.
LEMMA StutterKeepsBtt ==
    ASSUME BttInv, UNCHANGED vars
    PROVE  BttInv'
<1>1. UNCHANGED <<data, map, flog, info, phase, rlane, laidout, layout_lock, rt, rtt,
                  map_locks, pc, loc, out, ops, crashes>>
  BY Zenon DEF vars, media, run
<1>2. Cur' = Cur
  BY Zenon, <1>1 DEF Cur
<1>3. TypeOK'
  BY Zenon, <1>1 DEF BttInv, TypeOK
<1>4. PhaseInv'
  BY Zenon, <1>1 DEF BttInv, PhaseInv
<1>5. FlogInv'
  BY Zenon, <1>1, <1>2 DEF BttInv, FlogInv, FlogOK
<1>6. \A n \in Lanes : LaneInv(n)'
  BY Zenon, <1>1 DEF BttInv, LaneInv
<1>7. \A n \in Lanes : LayoutInv(n)'
  BY Zenon, <1>1 DEF BttInv, LayoutInv, FreshMedia
<1>8. \A n, m \in Lanes : Apart(n, m)'
  BY Zenon, <1>1 DEF BttInv, Apart
<1> QED BY Zenon, <1>3, <1>4, <1>5, <1>6, <1>7, <1>8 DEF BttInv

\* Every step keeps the invariant.
LEMMA StepKeepsBtt ==
    ASSUME BttInv, [Next]_vars
    PROVE  BttInv'
<1>1. ASSUME NEW n \in Lanes, Calls(n)
      PROVE  BttInv'
  BY Zenon, <1>1, CallKeeps
<1>2. ASSUME NEW n \in Lanes, Steps(n)
      PROVE  BttInv'
  <2>1. CASE \/ WithoutLayout(n) \/ Return(n) \/ LayoutMissing(n) \/ LayoutLock(n)
             \/ LayoutBody(n) \/ LayoutInfo(n) \/ LayoutDone(n) \/ LayoutThere(n)
    BY Zenon, <2>1, WithoutLayoutKeeps, ReturnKeeps, LayoutMissingKeeps, LayoutLockKeeps,
       LayoutBodyKeeps, LayoutInfoKeeps, LayoutDoneKeeps, LayoutThereKeeps
  <2>2. CASE \/ ReadEntry(n) \/ ReadFlagged(n) \/ ReadTrack(n) \/ ReadAgain(n)
             \/ ReadBlock(n) \/ ReadClear(n)
    BY Zenon, <2>2, ReadEntryKeeps, ReadFlaggedKeeps, ReadTrackKeeps, ReadAgainKeeps,
       ReadBlockKeeps, ReadClearKeeps
  <2>3. CASE \/ WriteBegin(n) \/ WriteScan(n) \/ WriteFill(n) \/ WriteFilled(n)
             \/ LockMap(n) \/ FlogFirst(n) \/ FlogSecond(n) \/ StoreMap(n) \/ UnlockMap(n)
    BY Zenon, <2>3, WriteBeginKeeps, WriteScanKeeps, WriteFillKeeps, WriteFilledKeeps,
       LockMapKeeps, FlogFirstKeeps, FlogSecondKeeps, StoreMapKeeps, UnlockKeeps
  <2>4. CASE SetBegin(n) \/ SetAbort(n) \/ SetFlag(n)
    BY Zenon, <2>4, SetBeginKeeps, UnlockKeeps, SetFlagKeeps
  <2> QED BY Zenon, <2>1, <2>2, <2>3, <2>4, <1>2 DEF Steps
<1>3. CASE Crash
  BY Zenon, <1>3, CrashKeeps
<1>4. CASE Open
  BY Zenon, <1>4, OpenFreshKeeps, OpenLaidOutKeeps, RecoverFlogKeeps, OpenDoneKeeps DEF Open
<1>5. CASE UNCHANGED vars
  BY Zenon, <1>5, StutterKeepsBtt
<1> QED BY Zenon, <1>1, <1>2, <1>3, <1>4, <1>5 DEF Next

(* BttInv holds throughout: every block of the data area is shown by one   *)
(* map entry, owned by one lane, or on its way between the two in an       *)
(* exchange that the flog records; a lane that works on a map entry has    *)
(* its lock and knows the entry; a writer that has passed a reader in the  *)
(* read tracking table has another block.                                  *)
THEOREM BttInvariant == Spec => []BttInv
<1>1. Init => BttInv
  BY InitBtt, Zenon
<1>2. BttInv /\ [Next]_vars => BttInv'
  BY StepKeepsBtt, Zenon
<1> QED BY <1>1, <1>2, PTL DEF Spec

(* What Owned says of the arena.                                           *)
LEMMA OwnedConsistent ==
    ASSUME NEW c, c = [n \in Lanes |-> Current(flog[n])], Owned(map, c)
    PROVE  /\ \A l, k \in Lba : l # k => Recovered(l).blk # Recovered(k).blk
           /\ \A n, k \in Lanes : n # k => FreeBlock(n) # FreeBlock(k)
           /\ \A l \in Lba, n \in Lanes : Recovered(l).blk # FreeBlock(n)
<1>1. \A n \in Lanes : /\ c[n] = Current(flog[n]) /\ FreeBlock(n) = c[n].old.blk
                       /\ Pend(map, c[n]) <=> Incomplete(Current(flog[n]))
  BY Zenon DEF FreeBlock, Pend, Incomplete
<1>2. ASSUME NEW l \in Lba
      PROVE  \/ /\ Recovered(l).blk = Blk(map, l)
                /\ \A n \in Lanes : Pend(map, c[n]) => c[n].lba # l
             \/ \E n \in Lanes : /\ Pend(map, c[n]) /\ c[n].lba = l
                                 /\ Recovered(l).blk = c[n].new.blk
  <2> DEFINE todo == {n \in Lanes : /\ Current(flog[n]).lba = l
                                    /\ Incomplete(Current(flog[n]))}
  <2>1. CASE todo = {}
    <3>1. Recovered(l) = Norm(l, map[l])
      BY Zenon, <2>1 DEF Recovered
    <3>2. \A n \in Lanes : Pend(map, c[n]) => c[n].lba # l
      BY Zenon, <2>1, <1>1
    <3> QED BY Zenon, <3>1, <3>2 DEF Blk
  <2>2. CASE todo # {}
    <3> DEFINE n == CHOOSE n \in todo : TRUE
    <3>1. n \in todo
      BY Zenon, <2>2
    <3>2. Recovered(l) = Current(flog[n]).new
      BY Zenon, <2>2 DEF Recovered
    <3> HIDE DEF n
    <3>3. n \in Lanes /\ Pend(map, c[n]) /\ c[n].lba = l
      BY Zenon, <3>1, <1>1
    <3> QED BY Zenon, <3>2, <3>3, <1>1
  <2> QED BY Zenon, <2>1, <2>2
<1>3. \A l, k \in Lba : l # k => Recovered(l).blk # Recovered(k).blk
  <2> SUFFICES ASSUME NEW l \in Lba, NEW k \in Lba, l # k,
                      Recovered(l).blk = Recovered(k).blk
               PROVE  FALSE
    BY Zenon
  <2>1. CASE Recovered(l).blk = Blk(map, l) /\ Recovered(k).blk = Blk(map, k)
    <3>1. Blk(map, l) = Blk(map, k) => l = k
      BY Zenon DEF Owned
    <3> QED BY Zenon, <2>1, <3>1
  <2>2. ASSUME NEW n \in Lanes, Pend(map, c[n]), Recovered(l).blk = c[n].new.blk
        PROVE  Recovered(k).blk # Blk(map, k)
    BY <2>2 DEF Owned
  <2>3. ASSUME NEW n \in Lanes, Pend(map, c[n]), Recovered(k).blk = c[n].new.blk
        PROVE  Recovered(l).blk # Blk(map, l)
    BY <2>3 DEF Owned
  <2>4. ASSUME NEW n \in Lanes, Pend(map, c[n]), c[n].lba = l, Recovered(l).blk = c[n].new.blk,
               NEW p \in Lanes, Pend(map, c[p]), c[p].lba = k, Recovered(k).blk = c[p].new.blk
        PROVE  FALSE
    <3>1. c[n].new.blk = c[p].new.blk
      BY Zenon, <2>4
    <3>2. n = p
      BY Zenon, <3>1, <2>4 DEF Owned
    <3> QED BY Zenon, <3>2, <2>4
  <2> QED BY Zenon, <2>1, <2>2, <2>3, <2>4, <1>2
<1>4. \A n, k \in Lanes : n # k => FreeBlock(n) # FreeBlock(k)
  BY <1>1 DEF Owned
<1>5. \A l \in Lba, n \in Lanes : Recovered(l).blk # FreeBlock(n)
  <2> SUFFICES ASSUME NEW l \in Lba, NEW n \in Lanes, Recovered(l).blk = c[n].old.blk
               PROVE  FALSE
    BY Zenon, <1>1
  <2>1. CASE /\ Recovered(l).blk = Blk(map, l)
             /\ \A k \in Lanes : Pend(map, c[k]) => c[k].lba # l
    BY <2>1 DEF Owned
  <2>2. ASSUME NEW k \in Lanes, Pend(map, c[k]), Recovered(l).blk = c[k].new.blk
        PROVE  FALSE
    BY <2>2 DEF Owned
  <2> QED BY Zenon, <2>1, <2>2, <1>2
<1> QED BY Zenon, <1>3, <1>4, <1>5

(* For any number of lanes and blocks, with any operations in flight, a    *)
(* power failure at any moment and any number of them during recovery      *)
(* leave an arena that check_arena accepts once recovered.                 *)
THEOREM ArenaStaysConsistent == Spec => []ArenaConsistent
<1>1. BttInv => ArenaConsistent
  <2> SUFFICES ASSUME BttInv PROVE ArenaConsistent
    BY Zenon
  <2>1. TypeOK /\ (info => Owned(map, Cur))
    BY Zenon DEF BttInv, FlogInv
  <2>2. ASSUME info
        PROVE  /\ \A l, k \in Lba : l # k => Recovered(l).blk # Recovered(k).blk
               /\ \A n, m \in Lanes : n # m => FreeBlock(n) # FreeBlock(m)
               /\ \A l \in Lba, n \in Lanes : Recovered(l).blk # FreeBlock(n)
    BY <2>1, <2>2, OwnedConsistent, Zenon DEF Cur
  <2> QED BY Zenon, <2>1, <2>2 DEF ArenaConsistent
<1> QED BY <1>1, BttInvariant, PTL

(* btt_write never fills a block that a btt_read is reading or that the    *)
(* map shows: the announcement in the read tracking table, the second look *)
(* of the reader at the map and the scan of the writer are enough.         *)
THEOREM WritersAvoidReaders == Spec => []NoWriteUnderRead
<1>1. BttInv => NoWriteUnderRead
  <2> SUFFICES ASSUME BttInv, NEW n \in Lanes, pc[n] = "fill"
               PROVE  /\ \A m \in Lanes : pc[m] = "block" =>
                            loc[m].entry.blk # loc[n].new.blk
                      /\ \A l \in Lba : map[l].st = "normal" =>
                            map[l].blk # loc[n].new.blk
    BY Zenon DEF NoWriteUnderRead
  <2>1. \A m \in Lanes : pc[m] = "block" => loc[m].entry.blk # loc[n].new.blk
    BY Zenon DEF BttInv, Apart
  <2>2. \A l \in Lba : map[l].st = "normal" => map[l].blk # loc[n].new.blk
    BY FreeNotShown, Zenon
  <2> QED BY Zenon, <2>1, <2>2
<1> QED BY <1>1, BttInvariant, PTL
=============================================================================
