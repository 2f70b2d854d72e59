--------------------------- MODULE PmemLog_proofs ---------------------------
(***************************************************************************)
(* Proofs about the log pool, for any threads, pool size, appends and      *)
(* crashes: a failure at any moment leaves a pool that opens, readers are  *)
(* given the log as it is, and the pool implements a log to which an       *)
(* append adds all of its data or none.                                    *)
(*                                                                         *)
(* The argument.  Only the holder of the write lock makes the caches and   *)
(* the medium differ, and only behind the write offset until it moves the  *)
(* offset itself; what lies behind the offset is not part of the log.      *)
(***************************************************************************)
EXTENDS PmemLog, TLAPS

Steps == {"idle", "lock", "append", "copy", "offset", "rewind", "meta", "tell",
          "nbyte", "walk", "chunk", "unlock", "return"}
Kinds == {"none", "append", "rewind", "tell", "nbyte", "walk"}
Ops == [kind : Kinds, data : Seq(Nat), bufs : SUBSET Nat, negative : BOOLEAN, chunk : Nat]

Types ==
    /\ cache \in [Locations -> Nat] /\ media \in [Locations -> Nat]
    /\ flushed \subseteq Area /\ is_pmem \in BOOLEAN /\ rdonly \in BOOLEAN
    /\ pool \in {"absent", "creating", "closed", "open"}
    /\ writer \in Threads \cup {NoThread} /\ readers \subseteq Threads
    /\ at \in [Threads -> Steps] /\ op \in [Threads -> Ops]
    /\ loc = [t \in Threads |-> loc[t]]

\* The locals; what a walk has read is left to WalkInv.
LocalsTyped(l) == l.left \subseteq Nat /\ l.old \in Nat /\ l.pos \in Nat /\ l.ok \in BOOLEAN

\* A call o that is at step s, with the locals l.
CallAt(s, o, l) ==
    /\ LocalsTyped(l)
    /\ s = "idle" <=> o.kind = "none"
    /\ s \in {"append", "copy", "offset"} => o.kind = "append"
    /\ s = "meta" => o.kind \in {"append", "rewind"}
    /\ s \in {"rewind", "tell", "nbyte", "walk"} => o.kind = s
    /\ s = "chunk" => o.kind = "walk"
    /\ s \in {"idle", "lock", "append", "rewind", "tell", "nbyte", "walk"} => l = NoLocals
    /\ s \notin {"unlock", "return"} => l.ok = TRUE
    /\ o.bufs \subseteq 1 .. Len(o.data)
    /\ o.data # <<>> => Len(o.data) \in o.bufs
    /\ Len(o.data) < OffWrap
    /\ o.chunk \in ChunkSizes \cup {0}

\* How far an append has come: c, m and f are caches, medium and the bytes
\* flushed.
Copied(o, l, c, m) ==
    /\ m[WriteOffset] = l.old /\ l.old <= l.pos /\ l.old + Len(o.data) <= PoolSize
    /\ \A x \in l.old .. l.pos - 1 : c[x] = o.data[x - l.old + 1]

Copying(o, l, c, m, f) ==
    /\ Copied(o, l, c, m) /\ c[WriteOffset] = l.old
    /\ l.left \subseteq l.pos - l.old + 1 .. Len(o.data)
    /\ l.left = {} => l.pos = l.old + Len(o.data)
    /\ l.left # {} => Len(o.data) \in l.left
    /\ f = IF is_pmem THEN l.old .. l.pos - 1 ELSE {}
    /\ \A x \in Locations : x \notin l.old .. l.pos - 1 => c[x] = m[x]

Moving(o, l, c, m) ==
    /\ \A x \in Locations : x # WriteOffset => c[x] = m[x]
    /\ o.kind = "append" => /\ Copied(o, l, c, m) /\ l.pos = l.old + Len(o.data)
                            /\ c[WriteOffset] = l.pos
    /\ o.kind = "rewind" => c[WriteOffset] = Start

AppendAt(s, o, l, c, m, f) ==
    /\ s = "copy" => Copying(o, l, c, m, f)
    /\ s = "offset" => /\ Copied(o, l, c, m) /\ l.pos = l.old + Len(o.data)
                       /\ c[WriteOffset] = l.old
    /\ s = "meta" => Moving(o, l, c, m)

\* Who has the lock.
WritesAt(s, o) == \/ s \in {"append", "copy", "offset", "meta", "rewind"}
                  \/ s = "unlock" /\ o.kind \in {"append", "rewind"}
ReadsAt(s, o) == \/ s \in {"tell", "nbyte", "walk", "chunk"}
                 \/ s = "unlock" /\ o.kind \notin {"append", "rewind"}

LockInv ==
    /\ \A t \in Threads : /\ writer = t <=> WritesAt(at[t], op[t])
                          /\ t \in readers <=> ReadsAt(at[t], op[t])
                          /\ WritesAt(at[t], op[t]) => ~rdonly
    /\ writer # NoThread => readers = {}

\* A descriptor that log_descr_check accepts.
Descr(m) == m[StartOffset] = Start /\ m[EndOffset] = PoolSize /\ m[WriteOffset] \in Start .. PoolSize

\* Caches and medium agree unless an append or a rewind is on its way.
PoolInv ==
    /\ pool = "absent" => cache = Blank /\ media = Blank
    /\ pool = "creating" => /\ media = Blank /\ Descr(cache) /\ cache[WriteOffset] = Start
                            /\ \A x \in Area : cache[x] = 0
    /\ pool = "closed" => cache = media
    /\ pool = "open" => Descr(cache) /\ Descr(media)
    /\ pool = "open" /\ (\A t \in Threads : at[t] \notin {"copy", "meta"}) => cache = media
    /\ (\A t \in Threads : at[t] # "copy") => flushed = {}

LogInv ==
    /\ Types /\ LockInv /\ PoolInv
    /\ \A t \in Threads : /\ at[t] # "idle" => pool = "open"
                          /\ CallAt(at[t], op[t], loc[t])
                          /\ AppendAt(at[t], op[t], loc[t], cache, media, flushed)
-----------------------------------------------------------------------------
\* Sequences are equal when their elements are.
LEMMA SeqEqual ==
  ASSUME NEW s \in Seq(Nat), NEW r \in Seq(Nat), Len(s) = Len(r),
         \A i \in 1 .. Len(s) : s[i] = r[i]
  PROVE  s = r
<1>1. Len(s) \in Nat /\ DOMAIN s = 1 .. Len(s) /\ DOMAIN r = 1 .. Len(r)
  OBVIOUS
<1>2. s = [i \in 1 .. Len(s) |-> s[i]] /\ r = [i \in 1 .. Len(s) |-> r[i]]
  BY <1>1
<1> QED BY Zenon, <1>2

\* The elements of a concatenation.
LEMMA ConcatProperties ==
  ASSUME NEW s \in Seq(Nat), NEW r \in Seq(Nat)
  PROVE  /\ s \o r \in Seq(Nat) /\ Len(s \o r) = Len(s) + Len(r)
         /\ \A i \in 1 .. Len(s) + Len(r) :
               (s \o r)[i] = IF i <= Len(s) THEN s[i] ELSE r[i - Len(s)]
OBVIOUS

\* No data is shorter than the width.
LEMMA EmptyShort == Len(<<>>) < OffWrap
BY PmemLogAssumption

\* Offsets below the width do not wrap.
LEMMA NoWrap ==
  ASSUME NEW a \in Nat, NEW n \in Nat, a < n
  PROVE  a % n = a
BY SMT

\* The locals before a call has set any.
LEMMA NoLocalsFields ==
  /\ NoLocals.left = {} /\ NoLocals.old = 0 /\ NoLocals.pos = 0 /\ NoLocals.out = <<>>
  /\ NoLocals.ok = TRUE /\ LocalsTyped(NoLocals)
BY DEF NoLocals, Locals, LocalsTyped

\* The others stay where they are.
OthersKeep(t) ==
    \A u \in Threads \ {t} : at'[u] = at[u] /\ op'[u] = op[u] /\ loc'[u] = loc[u]

\* A step of one thread that leaves the pool alone.
LEMMA QuietStep ==
  ASSUME LogInv, NEW t \in Threads, OthersKeep(t), UNCHANGED <<pmem, static>>, Types',
         at[t] \notin {"copy", "meta"}, pool = "open", LockInv',
         CallAt(at'[t], op'[t], loc'[t]),
         AppendAt(at'[t], op'[t], loc'[t], cache, media, flushed)
  PROVE  LogInv'
<1>1. /\ cache' = cache /\ media' = media /\ flushed' = flushed
      /\ is_pmem' = is_pmem /\ pool' = pool /\ rdonly' = rdonly
  BY Zenon DEF pmem, static
<1>2. PoolInv'
  <2>1. Descr(cache') /\ Descr(media')
    BY Zenon, <1>1 DEF LogInv, PoolInv
  <2>2. ASSUME \A u \in Threads : at'[u] \notin {"copy", "meta"} PROVE cache' = media'
    <3>1. \A u \in Threads : at[u] \notin {"copy", "meta"}
      BY Zenon, <2>2 DEF OthersKeep
    <3> QED BY Zenon, <1>1, <3>1 DEF LogInv, PoolInv
  <2>3. ASSUME \A u \in Threads : at'[u] # "copy" PROVE flushed' = {}
    <3>1. \A u \in Threads : at[u] # "copy"
      BY Zenon, <2>3 DEF OthersKeep
    <3> QED BY Zenon, <1>1, <3>1 DEF LogInv, PoolInv
  <2>4. pool' = "open"
    BY Zenon, <1>1
  <2> QED BY Zenon, <2>1, <2>2, <2>3, <2>4 DEF PoolInv, Descr
<1>3. ASSUME NEW u \in Threads
      PROVE  /\ at'[u] # "idle" => pool' = "open"
             /\ CallAt(at'[u], op'[u], loc'[u])
             /\ AppendAt(at'[u], op'[u], loc'[u], cache, media, flushed)
  <2>1. CASE u = t
    BY Zenon, <1>1, <2>1
  <2>2. CASE u # t
    <3>1. at'[u] = at[u] /\ op'[u] = op[u] /\ loc'[u] = loc[u]
      BY Zenon, <2>2 DEF OthersKeep
    <3> QED BY Zenon, <1>1, <3>1 DEF LogInv
  <2> QED BY Zenon, <2>1, <2>2
<1>4. ASSUME NEW u \in Threads
      PROVE  AppendAt(at[u], op[u], loc[u], cache, media, flushed)'
  BY Zenon, <1>1, <1>3 DEF AppendAt, Copying, Copied, Moving
<1>5. ASSUME NEW u \in Threads
      PROVE  CallAt(at[u], op[u], loc[u])'
  BY Zenon, <1>3 DEF CallAt
<1> QED BY Zenon, <1>2, <1>3, <1>4, <1>5 DEF LogInv

\* A thread goes to step s, with the locals l.
LEMMA Goes ==
  ASSUME Types, NEW t \in Threads, NEW s \in Steps, NEW l,
         Goto(t, s), Set(t, l), op' = op
  PROVE  /\ at'[t] = s /\ loc'[t] = l /\ op'[t] = op[t] /\ OthersKeep(t)
         /\ at' \in [Threads -> Steps] /\ op' \in [Threads -> Ops]
         /\ loc' = [u \in Threads |-> loc'[u]]
<1>1. at' = [at EXCEPT ![t] = s] /\ loc' = [loc EXCEPT ![t] = l]
  BY Zenon DEF Goto, Set
<1>2. at \in [Threads -> Steps] /\ op \in [Threads -> Ops] /\ loc = [u \in Threads |-> loc[u]]
  BY Zenon DEF Types
<1> QED BY <1>1, <1>2 DEF OthersKeep

\* Locals that do not change.
LEMMA LocalsStay ==
  ASSUME Types, NEW t \in Threads, loc' = loc
  PROVE  Set(t, loc[t])
<1>1. loc = [u \in Threads |-> loc[u]]
  BY Zenon DEF Types
<1> QED BY <1>1 DEF Set

\* The lock is where it was.
LEMMA LockKept ==
  ASSUME LogInv, NEW t \in Threads, OthersKeep(t), UNCHANGED <<writer, readers, rdonly>>,
         WritesAt(at'[t], op'[t]) <=> WritesAt(at[t], op[t]),
         ReadsAt(at'[t], op'[t]) <=> ReadsAt(at[t], op[t])
  PROVE  LockInv'
<1>1. ASSUME NEW u \in Threads
      PROVE  /\ WritesAt(at'[u], op'[u]) <=> WritesAt(at[u], op[u])
             /\ ReadsAt(at'[u], op'[u]) <=> ReadsAt(at[u], op[u])
  <2>1. CASE u = t
    BY Zenon, <2>1
  <2>2. CASE u # t
    <3>1. at'[u] = at[u] /\ op'[u] = op[u]
      BY Zenon, <2>2 DEF OthersKeep
    <3> QED BY Zenon, <3>1
  <2> QED BY Zenon, <2>1, <2>2
<1>2. ASSUME NEW u \in Threads
      PROVE  /\ writer' = u <=> WritesAt(at'[u], op'[u])
             /\ u \in readers' <=> ReadsAt(at'[u], op'[u])
             /\ WritesAt(at'[u], op'[u]) => ~rdonly'
  BY Zenon, <1>1 DEF LogInv, LockInv
<1>3. writer' # NoThread => readers' = {}
  BY Zenon DEF LogInv, LockInv
<1> QED BY Zenon, <1>2, <1>3 DEF LockInv, WritesAt, ReadsAt

\* A step with the lock as it was and the pool left alone.
LEMMA StaysInside ==
  ASSUME LogInv, NEW t \in Threads, NEW s \in Steps, NEW l,
         Goto(t, s), Set(t, l), UNCHANGED <<pmem, static, writer, readers, op>>,
         at[t] \notin {"idle", "copy", "meta"},
         WritesAt(s, op[t]) <=> WritesAt(at[t], op[t]),
         ReadsAt(s, op[t]) <=> ReadsAt(at[t], op[t]),
         CallAt(s, op[t], l), AppendAt(s, op[t], l, cache, media, flushed)
  PROVE  LogInv'
<1>1. /\ at'[t] = s /\ loc'[t] = l /\ op'[t] = op[t] /\ OthersKeep(t)
      /\ at' \in [Threads -> Steps] /\ op' \in [Threads -> Ops]
      /\ loc' = [u \in Threads |-> loc'[u]]
  BY Zenon, Goes DEF LogInv
<1>2. UNCHANGED <<writer, readers, rdonly>>
  BY Zenon DEF static
<1>3. LockInv'
  BY Zenon, <1>1, <1>2, LockKept
<1>4. Types'
  BY Zenon, <1>1, <1>2 DEF LogInv, Types, pmem, static
<1>5. pool = "open"
  BY Zenon DEF LogInv
<1>6. CallAt(at'[t], op'[t], loc'[t]) /\ AppendAt(at'[t], op'[t], loc'[t], cache, media, flushed)
  BY Zenon, <1>1
<1>7. UNCHANGED <<pmem, static>>
  BY Zenon
<1>8. at[t] \notin {"copy", "meta"}
  BY Zenon
<1> QED BY Zenon, <1>1, <1>3, <1>4, <1>5, <1>6, <1>7, <1>8, QuietStep
-----------------------------------------------------------------------------
\* Steps that leave the pool alone.

\* A call starts.
LEMMA CallKeeps ==
  ASSUME LogInv, NEW t \in Threads, Call(t)
  PROVE  LogInv'
<1>1. PICK c \in {Op("append", v.data, v.ends, FALSE, 0) : v \in Iovs}
             \cup {Op("append", <<>>, {}, TRUE, 0)}
             \cup {Op(k, <<>>, {}, FALSE, 0) : k \in {"rewind", "tell", "nbyte"}}
             \cup {Op("walk", <<>>, {}, FALSE, n) : n \in ChunkSizes} :
           op' = [op EXCEPT ![t] = c]
  BY Zenon DEF Call
<1>2. /\ c \in Ops /\ c.kind # "none" /\ c.bufs \subseteq 1 .. Len(c.data)
      /\ c.data # <<>> => Len(c.data) \in c.bufs
      /\ Len(c.data) < OffWrap
      /\ c.chunk \in ChunkSizes \cup {0}
  <2>1. CASE \E v \in Iovs : c = Op("append", v.data, v.ends, FALSE, 0)
    <3>1. PICK v \in Iovs : c = Op("append", v.data, v.ends, FALSE, 0)
      BY Zenon, <2>1
    <3>2. /\ v.data \in Seq(Nat) /\ v.ends \subseteq 1 .. Len(v.data)
          /\ v.data # <<>> => Len(v.data) \in v.ends
          /\ Len(v.data) < OffWrap
      BY Zenon, PmemLogAssumption
    <3>3. v.ends \subseteq Nat
      BY <3>2
    <3> QED BY <3>1, <3>2, <3>3 DEF Op, Ops, Kinds
  <2>2. CASE c = Op("append", <<>>, {}, TRUE, 0)
    BY <2>2, EmptyShort DEF Op, Ops, Kinds
  <2>3. CASE \E k \in {"rewind", "tell", "nbyte"} : c = Op(k, <<>>, {}, FALSE, 0)
    BY <2>3, EmptyShort DEF Op, Ops, Kinds
  <2>4. CASE \E n \in ChunkSizes : c = Op("walk", <<>>, {}, FALSE, n)
    <3>1. PICK n \in ChunkSizes : c = Op("walk", <<>>, {}, FALSE, n)
      BY Zenon, <2>4
    <3>2. n \in Nat
      BY PmemLogAssumption
    <3> QED BY <3>1, <3>2, EmptyShort DEF Op, Ops, Kinds
  <2> QED BY Zenon, <2>1, <2>2, <2>3, <2>4
<1>3. /\ pool = "open" /\ at[t] = "idle" /\ at' = [at EXCEPT ![t] = "lock"]
      /\ UNCHANGED <<pmem, static, writer, readers, loc>>
  BY Zenon DEF Call, Goto
<1>4. /\ at'[t] = "lock" /\ op'[t] = c /\ loc'[t] = loc[t] /\ OthersKeep(t)
      /\ at' \in [Threads -> Steps] /\ op' \in [Threads -> Ops]
      /\ loc' = [u \in Threads |-> loc'[u]]
  <2>1. at \in [Threads -> Steps] /\ op \in [Threads -> Ops] /\ loc = [u \in Threads |-> loc[u]]
    BY Zenon DEF LogInv, Types
  <2>2. "lock" \in Steps
    BY Zenon DEF Steps
  <2> QED BY <1>1, <1>2, <1>3, <2>1, <2>2 DEF OthersKeep
<1>5. UNCHANGED <<writer, readers, rdonly>>
  BY Zenon, <1>3 DEF static
<1>6. LockInv'
  <2>1. /\ ~WritesAt("lock", c) /\ ~ReadsAt("lock", c)
        /\ ~WritesAt("idle", op[t]) /\ ~ReadsAt("idle", op[t])
    BY Zenon DEF WritesAt, ReadsAt
  <2> QED BY Zenon, <1>3, <1>4, <1>5, <2>1, LockKept
<1>7. Types'
  BY Zenon, <1>3, <1>4, <1>5 DEF LogInv, Types, pmem, static
<1>8. CallAt("lock", c, loc[t])
  <2>1. CallAt("idle", op[t], loc[t])
    BY Zenon, <1>3 DEF LogInv
  <2> QED BY Zenon, <1>2, <2>1 DEF CallAt
<1>9. AppendAt("lock", c, loc[t], cache, media, flushed)
  BY Zenon DEF AppendAt
<1>10. UNCHANGED <<pmem, static>> /\ at[t] \notin {"copy", "meta"}
  BY Zenon, <1>3
<1>11. CallAt(at'[t], op'[t], loc'[t]) /\ AppendAt(at'[t], op'[t], loc'[t], cache, media, flushed)
  BY Zenon, <1>4, <1>8, <1>9
<1> QED BY Zenon, <1>3, <1>4, <1>6, <1>7, <1>10, <1>11, QuietStep

\* A call ends without the lock.
LEMMA GiveUpKeeps ==
  ASSUME LogInv, NEW t \in Threads, GiveUp(t)
  PROVE  LogInv'
<1> DEFINE l == Locals({}, 0, 0, <<>>, FALSE)
<1>1. /\ at[t] = "lock" /\ Set(t, l) /\ Goto(t, "return")
      /\ UNCHANGED <<pmem, static, writer, readers, op>>
  BY Zenon DEF GiveUp
<1>2. LocalsTyped(l)
  BY DEF Locals, LocalsTyped
<1>3. CallAt("lock", op[t], loc[t])
  BY Zenon, <1>1 DEF LogInv
<1> HIDE DEF l
<1>4. CallAt("return", op[t], l) /\ AppendAt("return", op[t], l, cache, media, flushed)
  BY Zenon, <1>2, <1>3 DEF CallAt, AppendAt
<1>5. /\ "return" \in Steps /\ at[t] \notin {"idle", "copy", "meta"}
      /\ ~WritesAt("lock", op[t]) /\ ~WritesAt("return", op[t])
      /\ ~ReadsAt("lock", op[t]) /\ ~ReadsAt("return", op[t])
  BY Zenon, <1>1 DEF Steps, WritesAt, ReadsAt
<1> QED BY Zenon, <1>1, <1>4, <1>5, StaysInside

\* pmemlog_append: is there room?
LEMMA CheckKeeps ==
  ASSUME LogInv, NEW t \in Threads, Check(t)
  PROVE  LogInv'
<1> DEFINE w == cache[WriteOffset]
           l == Locals(op[t].bufs, w, w, <<>>, Room(t))
           s == IF Room(t) THEN "copy" ELSE "unlock"
<1>1. /\ at[t] = "append" /\ Set(t, l) /\ Goto(t, s)
      /\ UNCHANGED <<pmem, static, writer, readers, op>>
  BY Zenon DEF Check
<1>2. /\ l.left = op[t].bufs /\ l.old = w /\ l.pos = w /\ l.ok = Room(t)
  BY DEF Locals
<1>3. CallAt("append", op[t], loc[t]) /\ op[t] \in Ops
  BY Zenon, <1>1 DEF LogInv, Types
<1>4. op[t].data \in Seq(Nat) /\ op[t].bufs \subseteq Nat /\ Len(op[t].data) \in Nat
  BY <1>3 DEF Ops
<1>5. pool = "open" /\ Descr(cache) /\ w \in Nat /\ w \in Start .. PoolSize
  <2>1. pool = "open" /\ Descr(cache)
    BY Zenon, <1>1 DEF LogInv, PoolInv
  <2> QED BY <2>1, PmemLogAssumption DEF Descr
<1>6. Room(t) \in BOOLEAN
  BY Zenon DEF Room
<1>7. \A u \in Threads : at[u] \notin {"copy", "meta"}
  BY Zenon, <1>1 DEF LogInv, LockInv, WritesAt
<1>8. cache = media /\ flushed = {}
  BY Zenon, <1>5, <1>7 DEF LogInv, PoolInv
<1> HIDE DEF l
<1>9. CallAt(s, op[t], l)
  <2>1. LocalsTyped(l)
    BY Zenon, <1>2, <1>4, <1>5, <1>6 DEF LocalsTyped
  <2>2. s \in {"copy", "unlock"} /\ (s = "copy" => l.ok = TRUE)
    BY Zenon, <1>2, <1>6
  <2> HIDE DEF s
  <2> QED BY Zenon, <1>3, <2>1, <2>2 DEF CallAt
<1>10. AppendAt(s, op[t], l, cache, media, flushed)
  <2>1. CASE Room(t)
    <3>1. w + Len(op[t].data) <= PoolSize
      <4>1. Len(op[t].data) < OffWrap /\ OffWrap \in Nat
        BY Zenon, <1>3, PmemLogAssumption DEF CallAt
      <4>2. Len(op[t].data) % OffWrap = Len(op[t].data)
        BY Zenon, <1>4, <4>1, NoWrap
      <4>3. Len(op[t].data) <= PoolSize - w
        BY Zenon, <1>5, <2>1, <4>2 DEF Room, Descr
      <4>4. PoolSize \in Nat
        BY SMTT(20), PmemLogAssumption
      <4> HIDE DEF w
      <4> QED BY <1>4, <1>5, <4>3, <4>4
    <3>2. w .. w - 1 = {} /\ w <= w
      BY <1>5
    <3>3. Copied(op[t], l, cache, media)
      BY Zenon, <1>2, <1>8, <3>1, <3>2 DEF Copied
    <3>4. op[t].bufs \subseteq w - w + 1 .. Len(op[t].data)
      <4>1. w - w + 1 = 1
        BY <1>5
      <4> QED BY Zenon, <1>3, <4>1 DEF CallAt
    <3>5. op[t].bufs = {} => w = w + Len(op[t].data)
      <4>1. op[t].data = <<>> => Len(op[t].data) = 0
        OBVIOUS
      <4>2. op[t].bufs = {} => Len(op[t].data) = 0
        BY Zenon, <1>3, <4>1 DEF CallAt
      <4> QED BY <1>5, <4>2
    <3>6. op[t].bufs # {} => Len(op[t].data) \in op[t].bufs
      <4>1. op[t].data = <<>> => 1 .. Len(op[t].data) = {}
        OBVIOUS
      <4> QED BY Zenon, <1>3, <4>1 DEF CallAt
    <3>7. Copying(op[t], l, cache, media, flushed)
      BY Zenon, <1>2, <1>8, <3>2, <3>3, <3>4, <3>5, <3>6 DEF Copying
    <3>8. s = "copy"
      BY Zenon, <2>1
    <3> HIDE DEF s
    <3> QED BY Zenon, <3>7, <3>8 DEF AppendAt
  <2>2. CASE ~Room(t)
    <3>1. s = "unlock"
      BY Zenon, <2>2
    <3> HIDE DEF s
    <3> QED BY Zenon, <3>1 DEF AppendAt
  <2> QED BY Zenon, <2>1, <2>2
<1>11. s \in {"copy", "unlock"}
  BY Zenon
<1> HIDE DEF s
<1>12. /\ s \in Steps /\ at[t] \notin {"idle", "copy", "meta"}
       /\ WritesAt("append", op[t]) /\ WritesAt(s, op[t])
       /\ ~ReadsAt("append", op[t]) /\ ~ReadsAt(s, op[t])
  BY Zenon, <1>1, <1>3, <1>11 DEF Steps, WritesAt, ReadsAt, CallAt
<1> QED BY Zenon, <1>1, <1>9, <1>10, <1>12, StaysInside

\* A call returns.
LEMMA ReturnKeeps ==
  ASSUME LogInv, NEW t \in Threads, Return(t)
  PROVE  LogInv'
<1>1. /\ at[t] = "return" /\ at' = [at EXCEPT ![t] = "idle"] /\ op' = [op EXCEPT ![t] = NoOp]
      /\ loc' = [loc EXCEPT ![t] = NoLocals]
      /\ UNCHANGED <<pmem, static, writer, readers>>
  BY Zenon DEF Return, Goto, Set
<1>2. /\ NoOp \in Ops /\ NoOp.kind = "none" /\ NoOp.bufs \subseteq 1 .. Len(NoOp.data)
      /\ NoOp.data = <<>> /\ NoOp.chunk = 0
  BY DEF NoOp, Op, Ops, Kinds
<1>3. /\ at'[t] = "idle" /\ op'[t] = NoOp /\ loc'[t] = NoLocals /\ OthersKeep(t)
      /\ at' \in [Threads -> Steps] /\ op' \in [Threads -> Ops]
      /\ loc' = [u \in Threads |-> loc'[u]]
  <2>1. at \in [Threads -> Steps] /\ op \in [Threads -> Ops] /\ loc = [u \in Threads |-> loc[u]]
    BY Zenon DEF LogInv, Types
  <2>2. "idle" \in Steps
    BY Zenon DEF Steps
  <2> QED BY Zenon, <1>1, <1>2, <2>1, <2>2 DEF OthersKeep
<1>4. UNCHANGED <<writer, readers, rdonly>>
  BY Zenon, <1>1 DEF static
<1>5. LockInv'
  <2>1. /\ ~WritesAt("return", op[t]) /\ ~ReadsAt("return", op[t])
        /\ ~WritesAt("idle", NoOp) /\ ~ReadsAt("idle", NoOp)
    BY Zenon DEF WritesAt, ReadsAt
  <2> QED BY Zenon, <1>1, <1>3, <1>4, <2>1, LockKept
<1>6. Types'
  BY Zenon, <1>1, <1>3, <1>4 DEF LogInv, Types, pmem, static
<1>7. CallAt("idle", NoOp, NoLocals)
  BY Zenon, <1>2, NoLocalsFields, EmptyShort DEF CallAt
<1>8. AppendAt("idle", NoOp, NoLocals, cache, media, flushed)
  BY Zenon DEF AppendAt
<1>9. UNCHANGED <<pmem, static>> /\ at[t] \notin {"copy", "meta"} /\ pool = "open"
  BY Zenon, <1>1 DEF LogInv
<1>10. CallAt(at'[t], op'[t], loc'[t]) /\ AppendAt(at'[t], op'[t], loc'[t], cache, media, flushed)
  BY Zenon, <1>3, <1>7, <1>8
<1> QED BY Zenon, <1>3, <1>5, <1>6, <1>9, <1>10, QuietStep

\* While a reader has the lock, caches and medium agree.
LEMMA ReaderSees ==
  ASSUME LogInv, NEW t \in Threads, ReadsAt(at[t], op[t])
  PROVE  /\ pool = "open" /\ Descr(cache) /\ cache = media /\ cache[WriteOffset] \in Nat
         /\ writer = NoThread
<1>1. at[t] # "idle"
  BY Zenon DEF ReadsAt
<1>2. pool = "open" /\ t \in readers
  BY Zenon, <1>1 DEF LogInv, LockInv
<1>3. writer = NoThread
  BY Zenon, <1>2 DEF LogInv, LockInv
<1>4. \A u \in Threads : at[u] \notin {"copy", "meta"}
  <2>1. \A u \in Threads : ~WritesAt(at[u], op[u])
    <3>1. \A u \in Threads : writer # u
      BY <1>3, PmemLogAssumption
    <3> QED BY Zenon, <3>1 DEF LogInv, LockInv
  <2> QED BY Zenon, <2>1 DEF WritesAt
<1>5. cache = media /\ Descr(cache)
  BY Zenon, <1>2, <1>4 DEF LogInv, PoolInv
<1>6. cache[WriteOffset] \in Nat
  BY <1>5, PmemLogAssumption DEF Descr
<1> QED BY Zenon, <1>2, <1>3, <1>5, <1>6

\* A step of a reader.
LEMMA ReaderStep ==
  ASSUME LogInv, NEW t \in Threads, ReadsAt(at[t], op[t]), NEW s \in {"chunk", "unlock"}, NEW l,
         Goto(t, s), Set(t, l), UNCHANGED <<pmem, static, writer, readers, op>>,
         LocalsTyped(l), s = "chunk" => op[t].kind = "walk" /\ l.ok = TRUE
  PROVE  LogInv'
<1>1. /\ CallAt(at[t], op[t], loc[t]) /\ at[t] \notin {"idle", "copy", "meta"}
      /\ op[t].kind \notin {"none", "append", "rewind"}
  <2>1. CallAt(at[t], op[t], loc[t])
    BY Zenon DEF LogInv
  <2> QED BY Zenon, <2>1 DEF CallAt, ReadsAt
<1>2. CallAt(s, op[t], l)
  BY Zenon, <1>1 DEF CallAt
<1>3. s \in Steps /\ AppendAt(s, op[t], l, cache, media, flushed)
  BY Zenon DEF Steps, AppendAt
<1>4. ReadsAt(s, op[t]) /\ ~WritesAt(s, op[t]) /\ ~WritesAt(at[t], op[t])
  BY Zenon, <1>1 DEF ReadsAt, WritesAt
<1> QED BY Zenon, <1>1, <1>2, <1>3, <1>4, StaysInside

\* pmemlog_tell and pmemlog_nbyte.
LEMMA TellKeeps ==
  ASSUME LogInv, NEW t \in Threads, Tell(t)
  PROVE  LogInv'
<1> DEFINE end == IF at[t] = "tell" THEN cache[WriteOffset] ELSE cache[EndOffset]
           l == Locals({}, 0, end - cache[StartOffset], <<>>, TRUE)
<1>1. /\ at[t] \in {"tell", "nbyte"} /\ Set(t, l) /\ Goto(t, "unlock")
      /\ UNCHANGED <<pmem, static, writer, readers, op>>
  BY Zenon DEF Tell
<1>2. ReadsAt(at[t], op[t])
  BY Zenon, <1>1 DEF ReadsAt
<1>3. Descr(cache) /\ cache[WriteOffset] \in Nat
  BY Zenon, <1>2, ReaderSees
<1>4. end - cache[StartOffset] \in Nat
  BY <1>3, PmemLogAssumption DEF Descr
<1> HIDE DEF end
<1>5. LocalsTyped(l)
  BY <1>4 DEF Locals, LocalsTyped
<1> HIDE DEF l
<1> QED BY Zenon, <1>1, <1>2, <1>5, ReaderStep

\* pmemlog_walk starts.
LEMMA WalkKeeps ==
  ASSUME LogInv, NEW t \in Threads, Walk(t)
  PROVE  LogInv'
<1> DEFINE l == Locals({}, cache[WriteOffset], cache[StartOffset], <<>>, TRUE)
<1>1. /\ at[t] = "walk" /\ Set(t, l) /\ Goto(t, "chunk")
      /\ UNCHANGED <<pmem, static, writer, readers, op>>
  BY Zenon DEF Walk
<1>2. ReadsAt(at[t], op[t])
  BY Zenon, <1>1 DEF ReadsAt
<1>3. cache[WriteOffset] \in Nat /\ cache[StartOffset] \in Nat
  <2>1. cache[WriteOffset] \in Nat /\ Descr(cache)
    BY Zenon, <1>2, ReaderSees
  <2> QED BY <2>1, PmemLogAssumption DEF Descr
<1>4. LocalsTyped(l) /\ l.ok = TRUE
  BY <1>3 DEF Locals, LocalsTyped
<1>5. op[t].kind = "walk"
  BY Zenon, <1>1 DEF LogInv, CallAt
<1> HIDE DEF l
<1> QED BY Zenon, <1>1, <1>2, <1>4, <1>5, ReaderStep

\* pmemlog_walk: one chunk.
LEMMA ChunkKeeps ==
  ASSUME LogInv, NEW t \in Threads, Chunk(t)
  PROVE  LogInv'
<1>1. PICK out : Set(t, Locals({}, loc[t].old, (loc[t].pos + op[t].chunk) % OffWrap, out, TRUE))
  BY Zenon DEF Chunk
<1> DEFINE l == Locals({}, loc[t].old, (loc[t].pos + op[t].chunk) % OffWrap, out, TRUE)
<1>2. /\ at[t] = "chunk" /\ (at' = at \/ Goto(t, "unlock"))
      /\ UNCHANGED <<pmem, static, writer, readers, op>>
  BY Zenon DEF Chunk
<1>3. ReadsAt(at[t], op[t])
  BY Zenon, <1>2 DEF ReadsAt
<1>4. CallAt("chunk", op[t], loc[t]) /\ op[t] \in Ops
  BY Zenon, <1>2 DEF LogInv, Types
<1>5. loc[t].old \in Nat /\ loc[t].pos \in Nat /\ op[t].chunk \in Nat /\ op[t].kind = "walk"
  <2>1. op[t].chunk \in Nat
    BY <1>4 DEF Ops
  <2> QED BY Zenon, <1>4, <2>1 DEF CallAt, LocalsTyped
<1>6. (loc[t].pos + op[t].chunk) % OffWrap \in Nat
  <2>1. OffWrap \in Nat \ {0}
    BY PmemLogAssumption
  <2> QED BY <1>5, <2>1
<1>7. LocalsTyped(l) /\ l.ok = TRUE
  BY <1>5, <1>6 DEF Locals, LocalsTyped
<1> HIDE DEF l
<1>8. Set(t, l)
  BY Zenon, <1>1 DEF l
<1>9. Goto(t, "chunk") \/ Goto(t, "unlock")
  <2>1. at \in [Threads -> Steps]
    BY Zenon DEF LogInv, Types
  <2> QED BY <1>2, <2>1 DEF Goto
<1> QED BY Zenon, <1>2, <1>3, <1>5, <1>7, <1>8, <1>9, ReaderStep

\* pmemlog_walk has come to the end.
LEMMA WalkedKeeps ==
  ASSUME LogInv, NEW t \in Threads, Walked(t)
  PROVE  LogInv'
<1>1. /\ at[t] = "chunk" /\ Goto(t, "unlock")
      /\ UNCHANGED <<pmem, static, writer, readers, op, loc>>
  BY Zenon DEF Walked
<1>2. ReadsAt(at[t], op[t])
  BY Zenon, <1>1 DEF ReadsAt
<1>3. Set(t, loc[t])
  BY Zenon, <1>1, LocalsStay DEF LogInv
<1>4. LocalsTyped(loc[t])
  BY Zenon, <1>1 DEF LogInv, CallAt
<1> QED BY Zenon, <1>1, <1>2, <1>3, <1>4, ReaderStep
-----------------------------------------------------------------------------
\* The lock.

\* The lock changes hands; t holds it after the step iff its step says so.
LEMMA LockMoves ==
  ASSUME LogInv, NEW t \in Threads, NEW s \in Steps,
         Goto(t, s), UNCHANGED <<pmem, static, op, loc>>,
         writer' \in Threads \cup {NoThread}, readers' \subseteq Threads,
         \A u \in Threads \ {t} : (writer' = u <=> writer = u) /\ (u \in readers' <=> u \in readers),
         writer' = t <=> WritesAt(s, op[t]), t \in readers' <=> ReadsAt(s, op[t]),
         WritesAt(s, op[t]) => ~rdonly, writer' # NoThread => readers' = {},
         at[t] \notin {"idle", "copy", "meta"}, CallAt(s, op[t], loc[t]),
         s \notin {"copy", "offset", "meta"}
  PROVE  LogInv'
<1>1. Set(t, loc[t])
  BY Zenon, LocalsStay DEF LogInv
<1>2. /\ at'[t] = s /\ loc'[t] = loc[t] /\ op'[t] = op[t] /\ OthersKeep(t)
      /\ at' \in [Threads -> Steps] /\ op' \in [Threads -> Ops]
      /\ loc' = [u \in Threads |-> loc'[u]]
  BY Zenon, <1>1, Goes DEF LogInv
<1>3. LockInv'
  <2>1. ASSUME NEW u \in Threads, u # t
        PROVE  /\ writer' = u <=> WritesAt(at'[u], op'[u])
               /\ u \in readers' <=> ReadsAt(at'[u], op'[u])
               /\ WritesAt(at'[u], op'[u]) => ~rdonly'
    <3>1. at'[u] = at[u] /\ op'[u] = op[u] /\ u \in Threads \ {t}
      BY Zenon, <1>2, <2>1 DEF OthersKeep
    <3>2. rdonly' = rdonly
      BY Zenon DEF static
    <3>3. /\ writer = u <=> WritesAt(at[u], op[u])
          /\ u \in readers <=> ReadsAt(at[u], op[u])
          /\ WritesAt(at[u], op[u]) => ~rdonly
      BY Zenon DEF LogInv, LockInv
    <3>4. (writer' = u <=> writer = u) /\ (u \in readers' <=> u \in readers)
      BY Zenon, <3>1
    <3> QED BY Zenon, <3>1, <3>2, <3>3, <3>4
  <2>2. /\ writer' = t <=> WritesAt(at'[t], op'[t])
        /\ t \in readers' <=> ReadsAt(at'[t], op'[t])
        /\ WritesAt(at'[t], op'[t]) => ~rdonly'
    BY Zenon, <1>2 DEF static
  <2>3. writer' # NoThread => readers' = {}
    BY Zenon
  <2>4. ASSUME NEW u \in Threads
        PROVE  /\ writer' = u <=> WritesAt(at'[u], op'[u])
               /\ u \in readers' <=> ReadsAt(at'[u], op'[u])
               /\ WritesAt(at'[u], op'[u]) => ~rdonly'
    BY Zenon, <2>1, <2>2
  <2> QED BY Zenon, <2>3, <2>4 DEF LockInv, WritesAt, ReadsAt
<1>4. Types'
  BY Zenon, <1>2 DEF LogInv, Types, pmem, static
<1>5. AppendAt(s, op[t], loc[t], cache, media, flushed)
  BY Zenon DEF AppendAt
<1>6. CallAt(at'[t], op'[t], loc'[t]) /\ AppendAt(at'[t], op'[t], loc'[t], cache, media, flushed)
  BY Zenon, <1>2, <1>5
<1>7. UNCHANGED <<pmem, static>> /\ at[t] \notin {"copy", "meta"} /\ pool = "open"
  BY Zenon DEF LogInv
<1> QED BY Zenon, <1>2, <1>3, <1>4, <1>6, <1>7, QuietStep

\* os_rwlock_wrlock and os_rwlock_rdlock.
LEMMA LockKeeps ==
  ASSUME LogInv, NEW t \in Threads, Lock(t)
  PROVE  LogInv'
<1> DEFINE s == op[t].kind
<1>1. /\ at[t] = "lock" /\ ~Refused(t) /\ writer = NoThread /\ Goto(t, s)
      /\ UNCHANGED <<pmem, static, op, loc>>
  BY Zenon DEF Lock
<1>2. CallAt("lock", op[t], loc[t]) /\ op[t] \in Ops
  BY Zenon, <1>1 DEF LogInv, Types
<1>3. s \in {"append", "rewind", "tell", "nbyte", "walk"}
  <2>1. s \in Kinds
    BY <1>2 DEF Ops
  <2> QED BY Zenon, <1>2, <2>1 DEF CallAt, Kinds
<1>4. CallAt(s, op[t], loc[t])
  BY Zenon, <1>2, <1>3 DEF CallAt
<1>5. NoThread # t /\ \A u \in Threads : NoThread # u
  BY Zenon, PmemLogAssumption
<1>6. /\ s \in Steps /\ s \notin {"copy", "offset", "meta"}
      /\ at[t] \notin {"idle", "copy", "meta"}
  BY Zenon, <1>1, <1>3 DEF Steps
<1>7. readers \subseteq Threads /\ t \notin readers
  <2>1. ~ReadsAt("lock", op[t])
    BY Zenon DEF ReadsAt
  <2> QED BY Zenon, <1>1, <2>1 DEF LogInv, Types, LockInv
<1>8. CASE Writes(t)
  <2>1. readers = {} /\ writer' = t /\ readers' = readers
    BY Zenon, <1>8 DEF Lock
  <2>2. WritesAt(s, op[t]) /\ ~ReadsAt(s, op[t]) /\ ~rdonly
    BY Zenon, <1>1, <1>8 DEF Writes, Refused, WritesAt, ReadsAt
  <2>3. \A u \in Threads \ {t} :
           (writer' = u <=> writer = u) /\ (u \in readers' <=> u \in readers)
    BY Zenon, <1>1, <1>5, <2>1
  <2> HIDE DEF s
  <2> QED BY Zenon, <1>1, <1>4, <1>6, <1>7, <2>1, <2>2, <2>3, LockMoves
<1>9. CASE ~Writes(t)
  <2>1. readers' = readers \cup {t} /\ writer' = writer
    BY Zenon, <1>9 DEF Lock
  <2>2. ReadsAt(s, op[t]) /\ ~WritesAt(s, op[t])
    BY Zenon, <1>3, <1>9 DEF Writes, WritesAt, ReadsAt
  <2>3. \A u \in Threads \ {t} :
           (writer' = u <=> writer = u) /\ (u \in readers' <=> u \in readers)
    BY Zenon, <2>1
  <2>4. readers' \subseteq Threads /\ t \in readers' /\ writer' = NoThread /\ writer' # t
    BY Zenon, <1>1, <1>5, <1>7, <2>1
  <2> HIDE DEF s
  <2> QED BY Zenon, <1>1, <1>4, <1>6, <2>2, <2>3, <2>4, LockMoves
<1> QED BY Zenon, <1>8, <1>9

\* util_rwlock_unlock.
LEMMA UnlockKeeps ==
  ASSUME LogInv, NEW t \in Threads, Unlock(t)
  PROVE  LogInv'
<1>1. /\ at[t] = "unlock" /\ writer' = (IF writer = t THEN NoThread ELSE writer)
      /\ readers' = readers \ {t} /\ Goto(t, "return")
      /\ UNCHANGED <<pmem, static, op, loc>>
  BY Zenon DEF Unlock
<1>2. CallAt("unlock", op[t], loc[t])
  BY Zenon, <1>1 DEF LogInv
<1>3. CallAt("return", op[t], loc[t])
  BY Zenon, <1>2 DEF CallAt
<1>4. \A u \in Threads : NoThread # u
  BY Zenon, PmemLogAssumption
<1>5. /\ "return" \in Steps /\ "return" \notin {"copy", "offset", "meta"}
      /\ at[t] \notin {"idle", "copy", "meta"}
      /\ ~WritesAt("return", op[t]) /\ ~ReadsAt("return", op[t])
  BY Zenon, <1>1 DEF Steps, WritesAt, ReadsAt
<1>6. readers \subseteq Threads /\ writer \in Threads \cup {NoThread}
  BY Zenon DEF LogInv, Types
<1>7. /\ writer' \in Threads \cup {NoThread} /\ readers' \subseteq Threads
      /\ writer' # t /\ t \notin readers'
  BY Zenon, <1>1, <1>4, <1>6
<1>8. \A u \in Threads \ {t} :
         (writer' = u <=> writer = u) /\ (u \in readers' <=> u \in readers)
  BY Zenon, <1>1, <1>4
<1>9. writer' # NoThread => readers' = {}
  <2>1. writer # NoThread => readers = {}
    BY Zenon DEF LogInv, LockInv
  <2> QED BY Zenon, <1>1, <2>1
<1> QED BY Zenon, <1>1, <1>3, <1>5, <1>7, <1>8, <1>9, LockMoves
-----------------------------------------------------------------------------
\* Steps of the writer.

\* The writer changes the pool; nobody else is inside the lock.
LEMMA WriterStep ==
  ASSUME LogInv, NEW t \in Threads, WritesAt(at[t], op[t]), NEW s \in Steps, NEW l,
         Goto(t, s), Set(t, l), UNCHANGED <<static, writer, readers, op>>,
         WritesAt(s, op[t]), CallAt(s, op[t], l),
         cache' \in [Locations -> Nat], media' \in [Locations -> Nat], flushed' \subseteq Area,
         Descr(cache'), Descr(media'), s \notin {"copy", "meta"} => cache' = media',
         s # "copy" => flushed' = {},
         AppendAt(s, op[t], l, cache', media', flushed')
  PROVE  LogInv'
<1>1. /\ at'[t] = s /\ loc'[t] = l /\ op'[t] = op[t] /\ OthersKeep(t)
      /\ at' \in [Threads -> Steps] /\ op' \in [Threads -> Ops]
      /\ loc' = [u \in Threads |-> loc'[u]]
  BY Zenon, Goes DEF LogInv
<1>2. UNCHANGED <<writer, readers, rdonly, is_pmem, pool>>
  BY Zenon DEF static
<1>3. at[t] # "idle" /\ s # "idle" /\ ~ReadsAt(s, op[t]) /\ ~ReadsAt(at[t], op[t])
  BY Zenon DEF WritesAt, ReadsAt
<1>4. pool = "open" /\ writer = t
  BY Zenon, <1>3 DEF LogInv, LockInv
<1>5. LockInv'
  BY Zenon, <1>1, <1>2, <1>3, LockKept
<1>6. Types'
  BY Zenon, <1>1, <1>2 DEF LogInv, Types
<1>7. PoolInv'
  <2>1. pool' = "open" /\ "open" \notin {"absent", "creating", "closed"}
    BY Zenon, <1>2, <1>4
  <2>2. (\A u \in Threads : at'[u] \notin {"copy", "meta"}) => cache' = media'
    BY Zenon, <1>1
  <2>3. (\A u \in Threads : at'[u] # "copy") => flushed' = {}
    BY Zenon, <1>1
  <2> QED BY Zenon, <2>1, <2>2, <2>3 DEF PoolInv, Descr
<1>8. ASSUME NEW u \in Threads
      PROVE  /\ at'[u] # "idle" => pool' = "open"
             /\ CallAt(at'[u], op'[u], loc'[u])
             /\ AppendAt(at[u], op[u], loc[u], cache, media, flushed)'
  <2>1. CASE u = t
    <3>1. AppendAt(at'[t], op'[t], loc'[t], cache', media', flushed')
      BY Zenon, <1>1
    <3>2. AppendAt(at[t], op[t], loc[t], cache, media, flushed)'
      BY Zenon, <1>2, <3>1 DEF AppendAt, Copying, Moving, Copied
    <3> QED BY Zenon, <1>1, <1>2, <1>4, <2>1, <3>2
  <2>2. CASE u # t
    <3>1. at'[u] = at[u] /\ op'[u] = op[u] /\ loc'[u] = loc[u]
      BY Zenon, <1>1, <2>2 DEF OthersKeep
    <3>2. ~WritesAt(at[u], op[u])
      BY Zenon, <1>4, <2>2 DEF LogInv, LockInv
    <3>3. at'[u] \notin {"copy", "offset", "meta"}
      BY Zenon, <3>1, <3>2 DEF WritesAt
    <3>4. CallAt(at[u], op[u], loc[u])
      BY Zenon DEF LogInv
    <3>5. AppendAt(at[u], op[u], loc[u], cache, media, flushed)'
      BY Zenon, <3>3 DEF AppendAt
    <3> QED BY Zenon, <1>2, <1>4, <3>1, <3>4, <3>5
  <2> QED BY Zenon, <2>1, <2>2
<1> QED BY Zenon, <1>5, <1>6, <1>7, <1>8 DEF LogInv, CallAt

\* What is known of an append or rewind under way.
LEMMA WriterSees ==
  ASSUME LogInv, NEW t \in Threads, at[t] \in {"copy", "offset", "rewind", "meta"}
  PROVE  /\ pool = "open" /\ Descr(cache) /\ Descr(media)
         /\ cache \in [Locations -> Nat] /\ media \in [Locations -> Nat] /\ flushed \subseteq Area
         /\ CallAt(at[t], op[t], loc[t]) /\ op[t].data \in Seq(Nat)
         /\ AppendAt(at[t], op[t], loc[t], cache, media, flushed)
         /\ at[t] # "copy" => flushed = {}
         /\ at[t] \in {"offset", "rewind"} => cache = media
         /\ WritesAt(at[t], op[t])
<1>1. pool = "open" /\ WritesAt(at[t], op[t])
  BY Zenon DEF LogInv, WritesAt
<1>2. \A u \in Threads : u # t => ~WritesAt(at[u], op[u])
  BY Zenon, <1>1 DEF LogInv, LockInv
<1>3. \A u \in Threads : u # t => at[u] \notin {"copy", "meta"}
  BY Zenon, <1>2 DEF WritesAt
<1>4. at[t] # "copy" => flushed = {}
  BY Zenon, <1>3 DEF LogInv, PoolInv
<1>5. at[t] \in {"offset", "rewind"} => cache = media
  BY Zenon, <1>1, <1>3 DEF LogInv, PoolInv
<1>6. op[t].data \in Seq(Nat)
  <2>1. op[t] \in Ops
    BY Zenon DEF LogInv, Types
  <2> QED BY <2>1 DEF Ops
<1> QED BY Zenon, <1>1, <1>4, <1>5, <1>6 DEF LogInv, Types, PoolInv

\* The words of the descriptor are apart and before the log.
LEMMA Places ==
  /\ StartOffset \in Locations /\ EndOffset \in Locations /\ WriteOffset \in Locations
  /\ StartOffset # WriteOffset /\ EndOffset # WriteOffset
  /\ Area \subseteq Locations /\ Start \in Nat /\ PoolSize \in Nat /\ Start <= PoolSize
  /\ \A x \in Area : x \in Nat /\ x # StartOffset /\ x # EndOffset /\ x # WriteOffset
  /\ Locations \subseteq Nat
BY PmemLogAssumption DEF Locations, Words, Area, StartOffset, EndOffset, WriteOffset

\* pmemlog_append: the next buffer is copied behind what was.
LEMMA CopyKeeps ==
  ASSUME LogInv, NEW t \in Threads, Copy(t)
  PROVE  LogInv'
<1> DEFINE o == op[t]
           old == loc[t].old
           pos == loc[t].pos
           n == Len(o.data)
<1>1. PICK end \in loc[t].left :
         /\ \A e \in loc[t].left : end <= e
         /\ cache' = [x \in Locations |->
                        IF x \in pos .. old + end - 1 THEN o.data[x - old + 1] ELSE cache[x]]
         /\ flushed' = IF is_pmem THEN flushed \cup (pos .. old + end - 1) ELSE flushed
         /\ Set(t, Locals(loc[t].left \ {end}, old, old + end, <<>>, TRUE))
  BY Zenon DEF Copy
<1> DEFINE l == Locals(loc[t].left \ {end}, old, old + end, <<>>, TRUE)
<1>2. /\ at[t] = "copy" /\ UNCHANGED <<media, static, writer, readers, op>> /\ at' = at
  BY Zenon DEF Copy
<1>3. /\ pool = "open" /\ Descr(cache) /\ Descr(media)
      /\ cache \in [Locations -> Nat] /\ media \in [Locations -> Nat] /\ flushed \subseteq Area
      /\ CallAt("copy", o, loc[t]) /\ o.data \in Seq(Nat)
      /\ AppendAt("copy", o, loc[t], cache, media, flushed) /\ WritesAt(at[t], op[t])
  <2>1. at[t] \in {"copy", "offset", "rewind", "meta"}
    BY Zenon, <1>2
  <2> QED BY Zenon, <1>2, <2>1, WriterSees
<1>4. LocalsTyped(loc[t]) /\ Copying(o, loc[t], cache, media, flushed)
  BY Zenon, <1>3 DEF CallAt, AppendAt
<1>5. /\ old \in Nat /\ pos \in Nat /\ end \in Nat /\ n \in Nat /\ old <= pos
      /\ pos - old + 1 <= end /\ end <= n /\ Start <= old /\ old + n <= PoolSize
  <2>1. old \in Nat /\ pos \in Nat /\ end \in Nat /\ n \in Nat
    BY <1>3, <1>4 DEF LocalsTyped
  <2>2. old <= pos /\ end \in pos - old + 1 .. n /\ old + n <= PoolSize
    BY Zenon, <1>4 DEF Copying, Copied
  <2>3. Start <= old
    <3>1. cache[WriteOffset] = old /\ cache[WriteOffset] \in Start .. PoolSize
      BY Zenon, <1>3, <1>4 DEF Copying, Descr
    <3> QED BY <3>1, PmemLogAssumption
  <2> QED BY <2>1, <2>2, <2>3
<1>6. /\ l.left = loc[t].left \ {end} /\ l.old = old /\ l.pos = old + end /\ l.ok = TRUE
      /\ LocalsTyped(l)
  <2>1. loc[t].left \subseteq Nat
    BY Zenon, <1>4 DEF LocalsTyped
  <2> QED BY <1>5, <2>1 DEF Locals, LocalsTyped
<1>7. \A x \in pos .. old + end - 1 : x \in Area /\ x - old + 1 \in 1 .. n
  <2> HIDE DEF old, pos, n
  <2> QED BY <1>5, PmemLogAssumption DEF Area
<1>8. cache' \in [Locations -> Nat]
  <2>1. ASSUME NEW x \in pos .. old + end - 1
        PROVE  o.data[x - old + 1] \in Nat
    <3>1. x - old + 1 \in 1 .. Len(o.data)
      BY Zenon, <1>7
    <3> HIDE DEF o, old
    <3> QED BY <1>3, <3>1
  <2> HIDE DEF o, old, pos
  <2> QED BY <1>1, <1>3, <2>1
<1>9. \A x \in Locations : cache'[x] = IF x \in pos .. old + end - 1 THEN o.data[x - old + 1] ELSE cache[x]
  BY Zenon, <1>1
<1>10. /\ cache'[StartOffset] = cache[StartOffset] /\ cache'[EndOffset] = cache[EndOffset]
       /\ cache'[WriteOffset] = cache[WriteOffset]
  BY Zenon, <1>7, <1>9, Places
<1>11. Descr(cache') /\ Descr(media') /\ media' = media
  <2>1. media' = media
    BY Zenon, <1>2
  <2> QED BY Zenon, <1>3, <1>10, <2>1 DEF Descr
<1>12. flushed' = IF is_pmem THEN old .. old + end - 1 ELSE {}
  <2>1. flushed = IF is_pmem THEN old .. pos - 1 ELSE {}
    BY Zenon, <1>4 DEF Copying
  <2>2. (old .. pos - 1) \cup (pos .. old + end - 1) = old .. old + end - 1
    <3> HIDE DEF old, pos, n
    <3> QED BY <1>5
  <2> HIDE DEF old, pos
  <2> QED BY Zenon, <1>1, <2>1, <2>2
<1>13. old .. old + end - 1 \subseteq Area /\ flushed' \subseteq Area
  <2>1. old .. old + end - 1 \subseteq Area
    <3> HIDE DEF old, pos, n
    <3> QED BY <1>5, PmemLogAssumption DEF Area
  <2> HIDE DEF old
  <2> QED BY Zenon, <1>12, <2>1
<1>14. Copying(o, l, cache', media', flushed')
  <2>1. media'[WriteOffset] = old /\ cache'[WriteOffset] = old
    BY Zenon, <1>4, <1>10, <1>11 DEF Copying, Copied
  <2>2. \A x \in old .. old + end - 1 : cache'[x] = o.data[x - old + 1]
    <3>1. ASSUME NEW x \in old .. old + end - 1
          PROVE  cache'[x] = o.data[x - old + 1]
      <4>1. x \in pos .. old + end - 1 \/ x \in old .. pos - 1
        <5> HIDE DEF old, pos, n
        <5> QED BY <1>5
      <4>2. x \in Locations
        BY Zenon, <1>13, Places
      <4>3. x \in old .. pos - 1 => cache[x] = o.data[x - old + 1]
        BY Zenon, <1>4 DEF Copying, Copied
      <4> QED BY Zenon, <1>9, <4>1, <4>2, <4>3
    <3> QED BY Zenon, <3>1
  <2>3. \A x \in Locations : x \notin old .. old + end - 1 => cache'[x] = media'[x]
    <3>1. ASSUME NEW x \in Locations, x \notin old .. old + end - 1
          PROVE  cache'[x] = media'[x]
      <4>1. x \notin pos .. old + end - 1 /\ x \notin old .. pos - 1
        <5>1. x \in Nat
          BY Zenon, Places
        <5> HIDE DEF old, pos, n
        <5> QED BY <1>5, <3>1, <5>1
      <4>2. cache[x] = media[x]
        BY Zenon, <1>4, <4>1 DEF Copying
      <4> QED BY Zenon, <1>9, <1>11, <4>1, <4>2
    <3> QED BY Zenon, <3>1
  <2>4. loc[t].left \subseteq pos - old + 1 .. n /\ (loc[t].left # {} => n \in loc[t].left)
    BY Zenon, <1>4 DEF Copying
  <2>5. loc[t].left \ {end} \subseteq old + end - old + 1 .. n
    <3>1. ASSUME NEW e \in loc[t].left, e # end
          PROVE  e \in old + end - old + 1 .. n
      <4>1. e \in pos - old + 1 .. n /\ end <= e
        BY Zenon, <1>1, <2>4
      <4> HIDE DEF old, pos, n
      <4> QED BY <1>5, <3>1, <4>1
    <3> QED BY Zenon, <3>1
  <2>6. loc[t].left \ {end} = {} => old + end = old + n
    <3>1. loc[t].left \ {end} = {} => end = n
      BY Zenon, <2>4
    <3> QED BY Zenon, <3>1
  <2>7. loc[t].left \ {end} # {} => n \in loc[t].left \ {end}
    <3>1. ASSUME NEW e \in loc[t].left \ {end}
          PROVE  n # end
      <4>1. e \in old + end - old + 1 .. n
        BY Zenon, <2>5
      <4> HIDE DEF old, n
      <4> QED BY <1>5, <4>1
    <3> QED BY Zenon, <2>4, <3>1
  <2>8. old <= old + end /\ old + n <= PoolSize
    <3> HIDE DEF old, pos, n
    <3> QED BY <1>5
  <2> HIDE DEF l, old, pos, n, o
  <2>9. l.old .. l.pos - 1 = old .. old + end - 1 /\ l.pos - l.old + 1 = old + end - old + 1
    BY <1>5, <1>6
  <2>10. n = Len(o.data)
    BY DEF n
  <2>11. Copied(o, l, cache', media')
    BY Zenon, <1>6, <2>1, <2>2, <2>8, <2>9, <2>10 DEF Copied
  <2> QED BY Zenon, <1>6, <1>12, <2>1, <2>3, <2>5, <2>6, <2>7, <2>9, <2>10, <2>11 DEF Copying
<1>15. CallAt("copy", o, l) /\ "copy" \in Steps
  <2> HIDE DEF l
  <2> QED BY Zenon, <1>3, <1>6 DEF CallAt, Steps
<1>16. AppendAt("copy", o, l, cache', media', flushed')
  <2> HIDE DEF l
  <2> QED BY Zenon, <1>14 DEF AppendAt
<1>17. Goto(t, "copy") /\ Set(t, l)
  <2>1. at \in [Threads -> Steps]
    BY Zenon DEF LogInv, Types
  <2>2. at' = [at EXCEPT ![t] = "copy"]
    BY <1>2, <2>1
  <2> QED BY Zenon, <1>1, <2>2 DEF Goto
<1>18. /\ UNCHANGED <<static, writer, readers, op>> /\ media' \in [Locations -> Nat]
       /\ WritesAt("copy", o)
  BY Zenon, <1>2, <1>3, <1>11 DEF WritesAt
<1> HIDE DEF l
<1> QED BY Zenon, <1>3, <1>8, <1>11, <1>13, <1>15, <1>16, <1>17, <1>18, WriterStep

\* log_persist: the data is durable, and so is everything.
LEMMA PersistDataKeeps ==
  ASSUME LogInv, NEW t \in Threads, PersistData(t)
  PROVE  LogInv' /\ media' = cache
<1> DEFINE o == op[t]
           l == loc[t]
<1>1. /\ at[t] = "copy" /\ l.left = {} /\ Persist(l.old .. l.pos - 1) /\ Goto(t, "offset")
      /\ UNCHANGED <<cache, static, writer, readers, op, loc>>
  BY Zenon DEF PersistData
<1>2. /\ Descr(cache) /\ cache \in [Locations -> Nat] /\ media \in [Locations -> Nat]
      /\ CallAt("copy", o, l) /\ AppendAt("copy", o, l, cache, media, flushed)
      /\ WritesAt(at[t], op[t])
  <2>1. at[t] \in {"copy", "offset", "rewind", "meta"}
    BY Zenon, <1>1
  <2> QED BY Zenon, <1>1, <2>1, WriterSees
<1>3. Copying(o, l, cache, media, flushed)
  BY Zenon, <1>2 DEF AppendAt
<1>4. /\ Copied(o, l, cache, media) /\ cache[WriteOffset] = l.old
      /\ l.pos = l.old + Len(o.data)
      /\ is_pmem => flushed = l.old .. l.pos - 1
      /\ \A x \in Locations : x \notin l.old .. l.pos - 1 => cache[x] = media[x]
  BY Zenon, <1>1, <1>3 DEF Copying
<1>5. media' = Durable(l.old .. l.pos - 1) /\ flushed' = {}
  BY Zenon, <1>1, <1>4 DEF Persist
<1>6. media' = cache
  <2>1. \A x \in Locations : (IF x \in l.old .. l.pos - 1 THEN cache[x] ELSE media[x]) = cache[x]
    BY Zenon, <1>4
  <2>2. media' = [x \in Locations |-> cache[x]]
    <3> DEFINE r == l.old .. l.pos - 1
    <3>1. media' = [x \in Locations |-> IF x \in r THEN cache[x] ELSE media[x]]
      BY Zenon, <1>5 DEF Durable
    <3>2. \A x \in Locations : (IF x \in r THEN cache[x] ELSE media[x]) = cache[x]
      BY Zenon, <2>1
    <3> HIDE DEF r
    <3> QED BY <3>1, <3>2
  <2> QED BY <1>2, <2>2
<1>7. cache' = cache
  BY Zenon, <1>1
<1>8. Copied(o, l, cache', media')
  BY Zenon, <1>4, <1>6, <1>7 DEF Copied
<1>9. AppendAt("offset", o, l, cache', media', flushed')
  BY Zenon, <1>4, <1>7, <1>8 DEF AppendAt
<1>10. CallAt("offset", o, l) /\ "offset" \in Steps /\ WritesAt("offset", o)
  BY Zenon, <1>2 DEF CallAt, Steps, WritesAt
<1>11. Set(t, l) /\ UNCHANGED <<static, writer, readers, op>>
  BY Zenon, <1>1, LocalsStay DEF LogInv
<1>12. flushed' \subseteq Area /\ Descr(cache') /\ Descr(media') /\ cache' = media'
  BY Zenon, <1>2, <1>5, <1>6, <1>7
<1>13. cache' \in [Locations -> Nat] /\ media' \in [Locations -> Nat]
  BY Zenon, <1>2, <1>6, <1>7
<1> QED BY Zenon, <1>1, <1>2, <1>5, <1>6, <1>9, <1>10, <1>11, <1>12, <1>13, WriterStep

\* The store of the write offset, by an append or a rewind.
LEMMA OffsetStored ==
  ASSUME LogInv, NEW t \in Threads, at[t] \in {"offset", "rewind"},
         NEW w \in Start .. PoolSize, cache' = [cache EXCEPT ![WriteOffset] = w],
         Goto(t, "meta"), UNCHANGED <<media, flushed, static, writer, readers, op, loc>>,
         at[t] = "offset" => w = loc[t].pos, at[t] = "rewind" => w = Start
  PROVE  LogInv'
<1> DEFINE o == op[t]
           l == loc[t]
<1>1. /\ Descr(cache) /\ Descr(media) /\ cache \in [Locations -> Nat] /\ media \in [Locations -> Nat]
      /\ CallAt(at[t], o, l) /\ AppendAt(at[t], o, l, cache, media, flushed)
      /\ flushed = {} /\ cache = media /\ WritesAt(at[t], op[t])
  <2>1. at[t] \in {"copy", "offset", "rewind", "meta"} /\ at[t] # "copy"
    BY Zenon
  <2> QED BY Zenon, <2>1, WriterSees
<1>2. /\ cache' \in [Locations -> Nat] /\ cache'[WriteOffset] = w
      /\ \A x \in Locations : x # WriteOffset => cache'[x] = media[x]
  <2>1. w \in Nat
    BY PmemLogAssumption
  <2> QED BY <1>1, <2>1, Places
<1>3. Descr(cache')
  <2>1. cache'[StartOffset] = media[StartOffset] /\ cache'[EndOffset] = media[EndOffset]
    BY Zenon, <1>2, Places
  <2> QED BY Zenon, <1>1, <1>2, <2>1 DEF Descr
<1>4. media' = media /\ flushed' = flushed
  BY Zenon
<1>5. Moving(o, l, cache', media')
  <2>1. CASE at[t] = "offset"
    <3>1. /\ Copied(o, l, cache, media) /\ l.pos = l.old + Len(o.data) /\ o.kind = "append"
      BY Zenon, <1>1, <2>1 DEF AppendAt, CallAt
    <3>2. ASSUME NEW x \in l.old .. l.pos - 1
          PROVE  cache'[x] = cache[x]
      <4>1. Len(o.data) \in Nat
        <5>1. op[t] \in Ops
          BY Zenon DEF LogInv, Types
        <5> QED BY <5>1 DEF Ops
      <4>2. l.old \in Start .. PoolSize /\ l.old + Len(o.data) <= PoolSize /\ l.pos \in Nat
        BY Zenon, <1>1, <3>1 DEF Copied, Descr, CallAt, LocalsTyped
      <4>3. l.old \in Nat /\ Start <= l.old
        BY <4>2, PmemLogAssumption
      <4> HIDE DEF l, o
      <4>4. x \in Area
        BY <3>1, <3>2, <4>1, <4>2, <4>3, PmemLogAssumption DEF Area
      <4>5. x \in Locations /\ x # WriteOffset
        BY Zenon, <4>4, Places
      <4> QED BY Zenon, <1>1, <1>2, <4>5
    <3>3. Copied(o, l, cache', media')
      BY Zenon, <1>4, <3>1, <3>2 DEF Copied
    <3> QED BY Zenon, <1>2, <1>4, <2>1, <3>1, <3>3 DEF Moving
  <2>2. CASE at[t] = "rewind"
    <3>1. o.kind = "rewind"
      BY Zenon, <1>1, <2>2 DEF CallAt
    <3> QED BY Zenon, <1>2, <1>4, <2>2, <3>1 DEF Moving
  <2> QED BY Zenon, <2>1, <2>2
<1>6. AppendAt("meta", o, l, cache', media', flushed')
  BY Zenon, <1>5 DEF AppendAt
<1>7. CallAt("meta", o, l) /\ "meta" \in Steps /\ WritesAt("meta", o)
  <2>1. o.kind \in {"append", "rewind"}
    BY Zenon, <1>1 DEF CallAt
  <2>2. l.ok = TRUE
    BY Zenon, <1>1 DEF CallAt
  <2> QED BY Zenon, <1>1, <2>1, <2>2 DEF CallAt, Steps, WritesAt
<1>8. Set(t, l) /\ UNCHANGED <<static, writer, readers, op>>
  BY Zenon, LocalsStay DEF LogInv
<1>9. /\ flushed' \subseteq Area /\ flushed' = {} /\ Descr(media')
      /\ media' \in [Locations -> Nat]
  BY Zenon, <1>1, <1>4
<1> QED BY Zenon, <1>1, <1>2, <1>3, <1>6, <1>7, <1>8, <1>9, WriterStep

\* log_persist: the write offset is moved behind the data.
LEMMA SetOffsetKeeps ==
  ASSUME LogInv, NEW t \in Threads, SetOffset(t)
  PROVE  LogInv'
<1>1. /\ at[t] = "offset" /\ cache' = [cache EXCEPT ![WriteOffset] = loc[t].pos]
      /\ Goto(t, "meta") /\ UNCHANGED <<media, flushed, static, writer, readers, op, loc>>
  BY Zenon DEF SetOffset
<1>2. /\ Descr(media) /\ AppendAt("offset", op[t], loc[t], cache, media, flushed)
      /\ CallAt("offset", op[t], loc[t]) /\ op[t].data \in Seq(Nat)
  <2>1. at[t] \in {"copy", "offset", "rewind", "meta"}
    BY Zenon, <1>1
  <2> QED BY Zenon, <1>1, <2>1, WriterSees
<1>3. loc[t].pos \in Start .. PoolSize
  <2>1. /\ loc[t].old \in Start .. PoolSize /\ loc[t].old + Len(op[t].data) <= PoolSize
        /\ loc[t].pos = loc[t].old + Len(op[t].data)
    BY Zenon, <1>2 DEF AppendAt, Copied, Descr
  <2>2. Len(op[t].data) \in Nat
    BY <1>2
  <2> QED BY <2>1, <2>2, PmemLogAssumption
<1> QED BY Zenon, <1>1, <1>3, OffsetStored

\* pmemlog_rewind: the write offset is moved to the start.
LEMMA RewindKeeps ==
  ASSUME LogInv, NEW t \in Threads, Rewind(t)
  PROVE  LogInv'
<1>1. /\ at[t] = "rewind" /\ cache' = [cache EXCEPT ![WriteOffset] = cache[StartOffset]]
      /\ Goto(t, "meta") /\ UNCHANGED <<media, flushed, static, writer, readers, op, loc>>
  BY Zenon DEF Rewind
<1>2. Descr(cache)
  <2>1. at[t] \in {"copy", "offset", "rewind", "meta"}
    BY Zenon, <1>1
  <2> QED BY Zenon, <2>1, WriterSees
<1>3. cache[StartOffset] = Start /\ Start \in Start .. PoolSize
  BY <1>2, PmemLogAssumption DEF Descr
<1> QED BY Zenon, <1>1, <1>3, OffsetStored

\* log_persist and pmemlog_rewind: the write offset is durable, and so is
\* everything.
LEMMA PersistOffsetKeeps ==
  ASSUME LogInv, NEW t \in Threads, PersistOffset(t)
  PROVE  LogInv' /\ media' = cache
<1> DEFINE o == op[t]
           l == loc[t]
<1>1. /\ at[t] = "meta" /\ media' = Durable({WriteOffset}) /\ Goto(t, "unlock")
      /\ UNCHANGED <<cache, flushed, static, writer, readers, op, loc>>
  BY Zenon DEF PersistOffset
<1>2. /\ Descr(cache) /\ cache \in [Locations -> Nat] /\ CallAt("meta", o, l)
      /\ AppendAt("meta", o, l, cache, media, flushed) /\ flushed = {}
      /\ WritesAt(at[t], op[t])
  <2>1. at[t] \in {"copy", "offset", "rewind", "meta"} /\ at[t] # "copy"
    BY Zenon, <1>1
  <2> QED BY Zenon, <1>1, <2>1, WriterSees
<1>3. media' = cache
  <2>1. \A x \in Locations : x # WriteOffset => cache[x] = media[x]
    BY Zenon, <1>2 DEF AppendAt, Moving
  <2>2. media' = [x \in Locations |-> cache[x]]
    BY <1>1, <2>1 DEF Durable
  <2> QED BY <1>2, <2>2
<1>4. CallAt("unlock", o, l) /\ "unlock" \in Steps /\ WritesAt("unlock", o)
  BY Zenon, <1>2 DEF CallAt, Steps, WritesAt
<1>5. AppendAt("unlock", o, l, cache', media', flushed')
  BY Zenon DEF AppendAt
<1>6. Set(t, l) /\ UNCHANGED <<static, writer, readers, op>>
  BY Zenon, <1>1, LocalsStay DEF LogInv
<1>7. /\ flushed' = {} /\ flushed' \subseteq Area /\ Descr(media') /\ Descr(cache')
      /\ cache' \in [Locations -> Nat] /\ media' \in [Locations -> Nat] /\ cache' = media'
  BY Zenon, <1>1, <1>2, <1>3
<1> QED BY Zenon, <1>1, <1>2, <1>3, <1>4, <1>5, <1>6, <1>7, WriterStep
-----------------------------------------------------------------------------
\* The pool, with no call under way.

\* A new file.
LEMMA BlankTyped == Blank \in [Locations -> Nat] /\ \A x \in Locations : Blank[x] = 0
BY DEF Blank

\* The call of an idle thread.
LEMMA NoOpFields ==
  /\ NoOp \in Ops /\ NoOp.kind = "none" /\ NoOp.bufs \subseteq 1 .. Len(NoOp.data)
  /\ NoOp.data = <<>> /\ NoOp.chunk = 0
BY DEF NoOp, Op, Ops, Kinds

\* Everything at rest: the invariant is that of the pool.
LEMMA AtRest ==
  ASSUME Types, PoolInv, writer = NoThread, readers = {},
         \A t \in Threads : at[t] = "idle" /\ CallAt(at[t], op[t], loc[t])
  PROVE  LogInv
<1>1. \A t \in Threads : writer # t /\ t \notin readers
  BY Zenon, PmemLogAssumption
<1>2. \A t \in Threads : ~WritesAt(at[t], op[t]) /\ ~ReadsAt(at[t], op[t])
  BY Zenon DEF WritesAt, ReadsAt
<1>3. LockInv
  BY Zenon, <1>1, <1>2 DEF LockInv
<1>4. \A t \in Threads : AppendAt(at[t], op[t], loc[t], cache, media, flushed)
  BY Zenon DEF AppendAt
<1> QED BY Zenon, <1>3, <1>4 DEF LogInv

\* The same of the next state.
LEMMA AtRestNext ==
  ASSUME Types', PoolInv', writer' = NoThread, readers' = {},
         \A t \in Threads : at'[t] = "idle" /\ CallAt(at'[t], op'[t], loc'[t])
  PROVE  LogInv'
<1>1. \A t \in Threads : writer' # t /\ t \notin readers'
  BY Zenon, PmemLogAssumption
<1>2. \A t \in Threads : ~WritesAt(at'[t], op'[t]) /\ ~ReadsAt(at'[t], op'[t])
  BY Zenon DEF WritesAt, ReadsAt
<1>3. LockInv'
  BY Zenon, <1>1, <1>2 DEF LockInv, WritesAt, ReadsAt
<1>4. \A t \in Threads : AppendAt(at[t], op[t], loc[t], cache, media, flushed)'
  BY Zenon DEF AppendAt
<1>5. \A t \in Threads : CallAt(at[t], op[t], loc[t])'
  BY Zenon DEF CallAt
<1> QED BY Zenon, <1>3, <1>4, <1>5 DEF LogInv

\* The invariant holds before the pool is created.
LEMMA InitLog ==
  ASSUME Init
  PROVE  LogInv
<1>1. /\ cache = Blank /\ media = Blank /\ flushed = {} /\ is_pmem \in BOOLEAN
      /\ pool = "absent" /\ rdonly = FALSE /\ writer = NoThread /\ readers = {}
      /\ at = [t \in Threads |-> "idle"]
      /\ op = [t \in Threads |-> NoOp] /\ loc = [t \in Threads |-> NoLocals]
  BY Zenon DEF Init
<1>2. \A t \in Threads : at[t] = "idle" /\ op[t] = NoOp /\ loc[t] = NoLocals
  BY Zenon, <1>1
<1>3. at \in [Threads -> Steps] /\ op \in [Threads -> Ops] /\ loc = [t \in Threads |-> loc[t]]
  <2>1. "idle" \in Steps
    BY Zenon DEF Steps
  <2> QED BY <1>1, <2>1, NoOpFields
<1>4. Types
  BY Zenon, <1>1, <1>3, BlankTyped DEF Types
<1>5. PoolInv
  BY Zenon, <1>1 DEF PoolInv
<1>6. CallAt("idle", NoOp, NoLocals)
  BY Zenon, NoOpFields, NoLocalsFields, EmptyShort DEF CallAt
<1>7. \A t \in Threads : at[t] = "idle" /\ CallAt(at[t], op[t], loc[t])
  BY Zenon, <1>2, <1>6
<1> QED BY Zenon, <1>1, <1>4, <1>5, <1>7, AtRest

\* Nobody is in a call, and nobody has the lock.
Resting == /\ \A t \in Threads : at[t] = "idle"
           /\ writer = NoThread /\ readers = {} /\ flushed = {}

\* With no call under way nobody has the lock and nothing is to be drained.
LEMMA IdleRests ==
  ASSUME LogInv, \A t \in Threads : at[t] = "idle"
  PROVE  Resting
<1>1. \A t \in Threads : ~WritesAt(at[t], op[t]) /\ ~ReadsAt(at[t], op[t])
  BY Zenon DEF WritesAt, ReadsAt
<1>2. \A t \in Threads : writer # t /\ t \notin readers
  BY Zenon, <1>1 DEF LogInv, LockInv
<1>3. writer = NoThread /\ readers = {}
  BY Zenon, <1>2 DEF LogInv, Types
<1>4. flushed = {}
  BY Zenon DEF LogInv, PoolInv
<1> QED BY Zenon, <1>3, <1>4 DEF Resting

\* A step of the pool with everything at rest.
LEMMA PoolStep ==
  ASSUME LogInv, \A t \in Threads : at[t] = "idle",
         UNCHANGED <<flushed, is_pmem, writer, readers, at, op, loc>>,
         cache' \in [Locations -> Nat], media' \in [Locations -> Nat], rdonly' \in BOOLEAN,
         pool' \in {"absent", "creating", "closed", "open"},
         pool' = "absent" => cache' = Blank /\ media' = Blank,
         pool' = "creating" => /\ media' = Blank /\ Descr(cache') /\ cache'[WriteOffset] = Start
                               /\ \A x \in Area : cache'[x] = 0,
         pool' \in {"closed", "open"} => cache' = media',
         pool' = "open" => Descr(cache')
  PROVE  LogInv'
<1>1. Resting
  BY Zenon, IdleRests
<1>2. Types'
  BY Zenon DEF LogInv, Types
<1>3. PoolInv'
  <2>1. flushed' = {}
    BY Zenon, <1>1 DEF Resting
  <2>2. pool' = "open" => Descr(cache') /\ Descr(media') /\ cache' = media'
    BY Zenon
  <2> QED BY Zenon, <2>1, <2>2 DEF PoolInv, Descr
<1>4. writer' = NoThread /\ readers' = {}
  BY Zenon, <1>1 DEF Resting
<1>5. \A t \in Threads : at'[t] = "idle" /\ CallAt(at'[t], op'[t], loc'[t])
  BY Zenon DEF LogInv
<1> QED BY Zenon, <1>2, <1>3, <1>4, <1>5, AtRestNext

\* log_descr_create: the stores.
LEMMA CreateKeeps ==
  ASSUME LogInv, Create
  PROVE  LogInv'
<1>1. /\ pool = "absent" /\ pool' = "creating"
      /\ cache' = [x \in Locations |-> CASE x = StartOffset -> Start
                                         [] x = EndOffset -> PoolSize
                                         [] x = WriteOffset -> Start
                                         [] OTHER -> cache[x]]
      /\ UNCHANGED <<media, flushed, is_pmem, rdonly, writer, readers, at, op, loc>>
  BY Zenon DEF Create
<1>2. \A t \in Threads : at[t] = "idle"
  BY Zenon, <1>1 DEF LogInv
<1>3. cache = Blank /\ media = Blank
  BY Zenon, <1>1 DEF LogInv, PoolInv
<1>4. /\ cache' \in [Locations -> Nat] /\ cache'[StartOffset] = Start
      /\ cache'[EndOffset] = PoolSize /\ cache'[WriteOffset] = Start
      /\ \A x \in Area : cache'[x] = 0
  BY <1>1, <1>3, BlankTyped, PmemLogAssumption
     DEF Locations, Words, Area, StartOffset, EndOffset, WriteOffset
<1>5. Descr(cache')
  BY <1>4, PmemLogAssumption DEF Descr
<1>6. media' \in [Locations -> Nat] /\ media' = Blank /\ rdonly' \in BOOLEAN
  BY Zenon, <1>1, <1>3, BlankTyped DEF LogInv, Types
<1> QED BY Zenon, <1>1, <1>2, <1>4, <1>5, <1>6, PoolStep

\* log_descr_create: the descriptor is durable, or the file is deleted.
LEMMA CreatedKeeps ==
  ASSUME LogInv, Created
  PROVE  LogInv'
<1>1. /\ pool = "creating"
      /\ \/ pool' = "open" /\ media' = Durable(Words) /\ UNCHANGED cache
         \/ pool' = "absent" /\ media' = Blank /\ cache' = Blank
      /\ UNCHANGED <<flushed, is_pmem, rdonly, writer, readers, at, op, loc>>
  BY Zenon DEF Created
<1>2. \A t \in Threads : at[t] = "idle"
  BY Zenon, <1>1 DEF LogInv
<1>3. /\ media = Blank /\ Descr(cache) /\ cache \in [Locations -> Nat]
      /\ \A x \in Area : cache[x] = 0
  BY Zenon, <1>1 DEF LogInv, PoolInv, Types
<1>4. rdonly' \in BOOLEAN
  BY Zenon, <1>1 DEF LogInv, Types
<1>5. CASE pool' = "open" /\ media' = Durable(Words) /\ UNCHANGED cache
  <2>1. media' = cache
    <3>1. media' = [x \in Locations |-> cache[x]]
      BY <1>3, <1>5, BlankTyped DEF Durable, Locations
    <3> QED BY <1>3, <3>1
  <2> QED BY Zenon, <1>1, <1>2, <1>3, <1>4, <1>5, <2>1, PoolStep
<1>6. CASE pool' = "absent" /\ media' = Blank /\ cache' = Blank
  BY Zenon, <1>1, <1>2, <1>4, <1>6, BlankTyped, PoolStep
<1> QED BY Zenon, <1>1, <1>5, <1>6

\* log_open_common.
LEMMA OpenKeeps ==
  ASSUME LogInv, Open
  PROVE  LogInv'
<1>1. /\ pool = "closed" /\ DescrCheck(cache) /\ pool' = "open" /\ rdonly' \in BOOLEAN
      /\ UNCHANGED <<cache, media, flushed, is_pmem, writer, readers, at, op, loc>>
  BY Zenon DEF Open, pmem
<1>2. \A t \in Threads : at[t] = "idle"
  BY Zenon, <1>1 DEF LogInv
<1>3. cache = media /\ cache \in [Locations -> Nat]
  BY Zenon, <1>1 DEF LogInv, PoolInv, Types
<1>4. Descr(cache)
  BY Zenon, <1>1 DEF Descr, DescrCheck
<1> QED BY Zenon, <1>1, <1>2, <1>3, <1>4, PoolStep

\* pmemlog_close.
LEMMA CloseKeeps ==
  ASSUME LogInv, Close
  PROVE  LogInv'
<1>1. /\ pool = "open" /\ \A t \in Threads : at[t] = "idle"
      /\ pool' = "closed"
      /\ UNCHANGED <<cache, media, flushed, is_pmem, rdonly, writer, readers, at, op, loc>>
  BY Zenon DEF Close, pmem
<1>2. cache = media /\ cache \in [Locations -> Nat] /\ rdonly \in BOOLEAN
  BY Zenon, <1>1 DEF LogInv, PoolInv, Types
<1> QED BY Zenon, <1>1, <1>2, PoolStep

\* A failure: the caches are what is on the medium.
LEMMA CrashKeeps ==
  ASSUME LogInv, Crash
  PROVE  LogInv'
<1>1. /\ flushed' = {} /\ pool' = "closed" /\ writer' = NoThread /\ readers' = {}
      /\ at' = [t \in Threads |-> "idle"]
      /\ op' = [t \in Threads |-> NoOp] /\ loc' = [t \in Threads |-> NoLocals]
      /\ is_pmem' = is_pmem /\ rdonly' = rdonly
  BY Zenon DEF Crash
<1>2. PICK kept \in SUBSET Dirty : media' = Durable(kept) /\ cache' = Durable(kept)
  BY Zenon DEF Crash
<1>3. Durable(kept) \in [Locations -> Nat]
  <2>1. cache \in [Locations -> Nat] /\ media \in [Locations -> Nat]
    BY Zenon DEF LogInv, Types
  <2> QED BY <2>1 DEF Durable
<1>4. at' \in [Threads -> Steps] /\ op' \in [Threads -> Ops] /\ loc' = [t \in Threads |-> loc'[t]]
  <2>1. "idle" \in Steps
    BY Zenon DEF Steps
  <2> QED BY <1>1, <2>1, NoOpFields
<1>5. \A t \in Threads : at'[t] = "idle" /\ op'[t] = NoOp /\ loc'[t] = NoLocals
  BY <1>1
<1>6. Types'
  BY Zenon, <1>1, <1>2, <1>3, <1>4 DEF LogInv, Types
<1>7. PoolInv'
  BY Zenon, <1>1, <1>2 DEF PoolInv
<1>8. CallAt("idle", NoOp, NoLocals)
  BY Zenon, NoOpFields, NoLocalsFields, EmptyShort DEF CallAt
<1>9. \A t \in Threads : at'[t] = "idle" /\ CallAt(at'[t], op'[t], loc'[t])
  BY Zenon, <1>5, <1>8
<1> QED BY Zenon, <1>1, <1>6, <1>7, <1>9, AtRestNext

\* Every step keeps the invariant.
LEMMA StepKeeps ==
  ASSUME LogInv, [LogNext]_vars
  PROVE  LogInv'
<1>1. CASE UNCHANGED vars
  <2>1. /\ UNCHANGED <<cache, media, flushed, is_pmem, pool, rdonly, writer, readers>>
        /\ UNCHANGED <<at, op, loc>>
    BY Zenon, <1>1 DEF vars
  <2>2. Types'
    BY Zenon, <2>1 DEF LogInv, Types
  <2>3. LockInv'
    BY Zenon, <2>1 DEF LogInv, LockInv, WritesAt, ReadsAt
  <2>4. PoolInv'
    BY Zenon, <2>1 DEF LogInv, PoolInv, Descr
  <2>5. ASSUME NEW t \in Threads
        PROVE  /\ at'[t] # "idle" => pool' = "open"
               /\ CallAt(at[t], op[t], loc[t])'
               /\ AppendAt(at[t], op[t], loc[t], cache, media, flushed)'
    <3>1. /\ at[t] # "idle" => pool = "open"
          /\ CallAt(at[t], op[t], loc[t])
          /\ AppendAt(at[t], op[t], loc[t], cache, media, flushed)
      BY Zenon DEF LogInv
    <3>2. CallAt(at[t], op[t], loc[t])'
      BY Zenon, <2>1, <3>1 DEF CallAt, LocalsTyped
    <3>3. AppendAt(at[t], op[t], loc[t], cache, media, flushed)'
      BY Zenon, <2>1, <3>1 DEF AppendAt, Copying, Copied, Moving
    <3> QED BY Zenon, <2>1, <3>1, <3>2, <3>3
  <2> QED BY Zenon, <2>2, <2>3, <2>4, <2>5 DEF LogInv
<1>2. ASSUME NEW t \in Threads, Call(t) \/ LockFails(t) \/ Step(t)
      PROVE  LogInv'
  <2>1. CASE Call(t)
    BY Zenon, <2>1, CallKeeps
  <2>2. CASE LockFails(t) \/ Refuse(t)
    <3>1. GiveUp(t)
      BY Zenon, <2>2 DEF LockFails, Refuse
    <3> QED BY Zenon, <3>1, GiveUpKeeps
  <2>3. CASE Lock(t) \/ Unlock(t) \/ Return(t) \/ Check(t)
    BY Zenon, <2>3, LockKeeps, UnlockKeeps, ReturnKeeps, CheckKeeps
  <2>4. CASE Copy(t) \/ PersistData(t) \/ SetOffset(t) \/ Rewind(t) \/ PersistOffset(t)
    BY Zenon, <2>4, CopyKeeps, PersistDataKeeps, SetOffsetKeeps, RewindKeeps, PersistOffsetKeeps
  <2>5. CASE Tell(t) \/ Walk(t) \/ Chunk(t) \/ Walked(t)
    BY Zenon, <2>5, TellKeeps, WalkKeeps, ChunkKeeps, WalkedKeeps
  <2> QED BY Zenon, <1>2, <2>1, <2>2, <2>3, <2>4, <2>5 DEF Step
<1>3. CASE Create \/ Created \/ Open \/ Close \/ Crash
  BY Zenon, <1>3, CreateKeeps, CreatedKeeps, OpenKeeps, CloseKeeps, CrashKeeps
<1> QED BY Zenon, <1>1, <1>2, <1>3 DEF LogNext

\* The descriptors in the caches and on the medium are both accepted, and so is
\* any mixture.
LEMMA LogInvOpenable ==
  ASSUME LogInv
  PROVE  Openable
<1>1. TypeOK
  <2>1. ASSUME NEW t \in Threads, at[t] \in {"copy", "offset", "meta"}
        PROVE  writer = t /\ ~rdonly
    <3>1. WritesAt(at[t], op[t])
      BY Zenon, <2>1 DEF WritesAt
    <3> QED BY Zenon, <3>1 DEF LogInv, LockInv
  <2> QED BY Zenon, <2>1 DEF LogInv, Types, TypeOK
<1>2. ASSUME pool = "open", NEW kept \in SUBSET Dirty
      PROVE  DescrCheck(Durable(kept))
  <2>1. Descr(cache) /\ Descr(media)
    BY Zenon, <1>2 DEF LogInv, PoolInv
  <2>2. \A x \in Locations : Durable(kept)[x] = cache[x] \/ Durable(kept)[x] = media[x]
    BY DEF Durable
  <2>3. Descr(Durable(kept))
    BY Zenon, <2>1, <2>2, Places DEF Descr
  <2> QED BY Zenon, <2>3 DEF Descr, DescrCheck
<1>3. ASSUME pool = "creating", NEW kept \in SUBSET Dirty, DescrCheck(Durable(kept))
      PROVE  Durable(kept)[WriteOffset] = Start
  <2>1. media = Blank /\ cache[WriteOffset] = Start
    BY Zenon, <1>3 DEF LogInv, PoolInv
  <2>2. Durable(kept)[WriteOffset] = cache[WriteOffset] \/ Durable(kept)[WriteOffset] = 0
    BY <2>1, Places DEF Durable, Blank
  <2>3. Durable(kept)[StartOffset] = Start /\ Durable(kept)[WriteOffset] >= Durable(kept)[StartOffset]
    BY <1>3, PmemLogAssumption DEF DescrCheck
  <2> QED BY <2>1, <2>2, <2>3, PmemLogAssumption DEF WriteOffset
<1> QED BY Zenon, <1>1, <1>2, <1>3 DEF Openable

-----------------------------------------------------------------------------
\* The inductive invariant: who has the lock and is where in a call, and where
\* caches and medium may differ.
THEOREM LogInvariant == Spec => []LogInv
<1>1. Init => LogInv
  BY InitLog
<1>2. LogInv /\ [LogNext]_vars => LogInv'
  BY StepKeeps
<1> QED BY <1>1, <1>2, PTL DEF Spec

\* A failure at any moment leaves an open pool in a state that the next open
\* accepts and one being created refused or empty, and only the holder of the
\* write lock is inside an append
\* (log_descr_create, pmemlog_append, log_descr_check).
THEOREM AlwaysOpenable == Spec => []Openable
<1>1. LogInv => Openable
  BY LogInvOpenable
<1> QED BY <1>1, LogInvariant, PTL
-----------------------------------------------------------------------------
\* The log that the pool implements.

Status == [t \in Threads |-> StatusOf(at[t], loc[t].ok)]

After(c) == CASE c.kind = "append" -> Contents(media) \o c.data
              [] c.kind = "rewind" -> <<>>
              [] OTHER             -> Contents(media)

\* The steps of AtomicLog, in the variables of the pool.
Stutter == Status' = Status /\ Contents(media') = Contents(media)
OutsideStep(t) ==
    /\ \/ Status[t] = "none" /\ Status' = [Status EXCEPT ![t] = "pending"]
       \/ Status[t] \in {"done", "failed"} /\ Status' = [Status EXCEPT ![t] = "none"]
    /\ Contents(media') = Contents(media)
SucceedStep(t) ==
    /\ Status[t] = "pending" /\ Status' = [Status EXCEPT ![t] = "done"]
    /\ Len(After(op[t])) <= PoolSize - Start
    /\ Contents(media') = After(op[t])
FailStep(t) ==
    /\ Status[t] = "pending" /\ Status' = [Status EXCEPT ![t] = "failed"]
    /\ Contents(media') = Contents(media)
EndStep ==
    /\ Status' = [t \in Threads |-> "none"]
    /\ \/ Contents(media') = Contents(media)
       \/ \E t \in Threads : Status[t] = "pending" /\ Contents(media') = After(op[t])

\* The status of a call, by its step.
LEMMA StatusValues ==
  ASSUME NEW ok \in BOOLEAN
  PROVE  /\ StatusOf("idle", ok) = "none"
         /\ \A s \in {"unlock", "return"} : StatusOf(s, ok) = IF ok THEN "done" ELSE "failed"
         /\ \A s \in Steps \ {"idle", "unlock", "return"} : StatusOf(s, ok) = "pending"
BY DEF StatusOf, Steps

\* The status of the others stays.
LEMMA StatusStep ==
  ASSUME NEW t \in Threads, OthersKeep(t)
  PROVE  /\ Status[t] = StatusOf(at[t], loc[t].ok)
         /\ Status' = [Status EXCEPT ![t] = StatusOf(at'[t], loc'[t].ok)]
         /\ StatusOf(at'[t], loc'[t].ok) = StatusOf(at[t], loc[t].ok) => Status' = Status
<1>1. \A u \in Threads : u # t => at'[u] = at[u] /\ loc'[u] = loc[u]
  BY Zenon DEF OthersKeep
<1>2. \A u \in Threads : u # t => StatusOf(at'[u], loc'[u].ok) = StatusOf(at[u], loc[u].ok)
  BY Zenon, <1>1
<1>3. /\ Status = [u \in Threads |-> StatusOf(at[u], loc[u].ok)]
      /\ Status' = [u \in Threads |-> StatusOf(at'[u], loc'[u].ok)]
  BY Zenon DEF Status, StatusOf
<1> QED BY <1>2, <1>3

\* The log of a pool that can be opened.
LEMMA ContentsOpen ==
  ASSUME NEW m \in [Locations -> Nat], Descr(m)
  PROVE  /\ Contents(m) \in Seq(Nat) /\ Len(Contents(m)) = m[WriteOffset] - Start
         /\ m[WriteOffset] - Start \in Nat /\ m[WriteOffset] - Start <= PoolSize - Start
         /\ \A i \in 1 .. m[WriteOffset] - Start :
               Contents(m)[i] = m[Start + i - 1] /\ Start + i - 1 \in Area
<1> DEFINE n == m[WriteOffset] - Start
<1>1. Contents(m) = [i \in 1 .. n |-> m[Start + i - 1]]
  <2>1. DescrCheck(m)
    BY Zenon DEF Descr, DescrCheck
  <2> QED BY Zenon, <2>1 DEF Contents
<1>2. n \in Nat /\ n <= PoolSize - Start
  BY PmemLogAssumption DEF Descr
<1> HIDE DEF n
<1>3. \A i \in 1 .. n : Start + i - 1 \in Area
  BY <1>2, PmemLogAssumption DEF Area
<1>4. \A i \in 1 .. n : m[Start + i - 1] \in Nat
  BY Zenon, <1>3, Places
<1>5. Contents(m) \in Seq(Nat) /\ Len(Contents(m)) = n
  BY <1>1, <1>2, <1>4
<1>6. \A i \in 1 .. n : Contents(m)[i] = m[Start + i - 1]
  BY Zenon, <1>1
<1> QED BY Zenon, <1>2, <1>3, <1>5, <1>6 DEF n

\* Only what lies before the write offset is part of the log.
LEMMA SameContents ==
  ASSUME NEW m \in [Locations -> Nat], NEW k \in [Locations -> Nat], Descr(m),
         k[StartOffset] = m[StartOffset], k[EndOffset] = m[EndOffset],
         k[WriteOffset] = m[WriteOffset],
         \A x \in Area : x < m[WriteOffset] => k[x] = m[x]
  PROVE  Contents(k) = Contents(m)
<1>1. Descr(k)
  BY Zenon DEF Descr
<1>2. m[WriteOffset] \in Nat
  BY PmemLogAssumption DEF Descr
<1> DEFINE n == m[WriteOffset] - Start
<1>3. /\ Contents(m) \in Seq(Nat) /\ Len(Contents(m)) = n
      /\ \A i \in 1 .. n : Contents(m)[i] = m[Start + i - 1] /\ Start + i - 1 \in Area
  BY Zenon, ContentsOpen
<1>4. /\ Contents(k) \in Seq(Nat) /\ Len(Contents(k)) = n
      /\ \A i \in 1 .. n : Contents(k)[i] = k[Start + i - 1]
  BY Zenon, <1>1, ContentsOpen
<1>5. \A i \in 1 .. n : Contents(k)[i] = Contents(m)[i]
  <2>1. ASSUME NEW i \in 1 .. n
        PROVE  Start + i - 1 < m[WriteOffset]
    BY <1>2, PmemLogAssumption
  <2> QED BY Zenon, <1>3, <1>4, <2>1
<1> HIDE DEF n
<1> QED BY Zenon, <1>3, <1>4, <1>5, SeqEqual

\* The data behind the old write offset, with the offset moved behind it.
LEMMA AppendedContents ==
  ASSUME NEW m \in [Locations -> Nat], NEW k \in [Locations -> Nat], Descr(m), Descr(k),
         NEW data \in Seq(Nat), k[WriteOffset] = m[WriteOffset] + Len(data),
         \A x \in Area : x < m[WriteOffset] => k[x] = m[x],
         \A x \in m[WriteOffset] .. k[WriteOffset] - 1 : k[x] = data[x - m[WriteOffset] + 1]
  PROVE  Contents(k) = Contents(m) \o data
<1>1. m[WriteOffset] \in Nat /\ Start <= m[WriteOffset] /\ Len(data) \in Nat
  BY PmemLogAssumption DEF Descr
<1> DEFINE w == m[WriteOffset]
           n == w - Start
           d == Len(data)
<1>2. /\ Contents(m) \in Seq(Nat) /\ Len(Contents(m)) = n
      /\ \A i \in 1 .. n : Contents(m)[i] = m[Start + i - 1] /\ Start + i - 1 \in Area
  BY Zenon, ContentsOpen
<1>3. /\ Contents(k) \in Seq(Nat) /\ Len(Contents(k)) = k[WriteOffset] - Start
      /\ \A i \in 1 .. k[WriteOffset] - Start : Contents(k)[i] = k[Start + i - 1]
  BY Zenon, ContentsOpen
<1>4. /\ Contents(m) \o data \in Seq(Nat) /\ Len(Contents(m) \o data) = Len(Contents(m)) + Len(data)
      /\ \A i \in 1 .. Len(Contents(m)) + Len(data) : (Contents(m) \o data)[i] =
            IF i <= Len(Contents(m)) THEN Contents(m)[i] ELSE data[i - Len(Contents(m))]
  BY Zenon, <1>2, ConcatProperties
<1>5. k[WriteOffset] - Start = n + d /\ n \in Nat /\ k[WriteOffset] = w + d
  BY <1>1, PmemLogAssumption
<1>6. ASSUME NEW i \in 1 .. n + d
      PROVE  Contents(k)[i] = (Contents(m) \o data)[i]
  <2>1. Contents(k)[i] = k[Start + i - 1]
    BY Zenon, <1>3, <1>5
  <2>2. (Contents(m) \o data)[i] = IF i <= n THEN Contents(m)[i] ELSE data[i - n]
    BY Zenon, <1>2, <1>4
  <2>3. CASE i <= n
    <3>1. i \in 1 .. n /\ Start + i - 1 < w
      BY <1>1, <1>5, <2>3, PmemLogAssumption
    <3> QED BY Zenon, <1>2, <2>1, <2>2, <2>3, <3>1
  <2>4. CASE ~(i <= n)
    <3> DEFINE x == Start + i - 1
    <3>1. w \in Nat /\ Start \in Nat /\ d \in Nat /\ n = w - Start /\ Start <= w
      BY <1>1, PmemLogAssumption
    <3>2. x \in w .. w + d - 1 /\ x - w + 1 = i - n
      <4> HIDE DEF w, d, n
      <4> QED BY <2>4, <3>1
    <3>3. k[x] = data[x - w + 1]
      <4>1. x \in w .. k[WriteOffset] - 1
        <5>1. k[WriteOffset] = w + d
          BY Zenon, <1>5
        <5> HIDE DEF x, d, w, n
        <5> QED BY <3>1, <3>2, <5>1
      <4> QED BY Zenon, <4>1
    <3> QED BY Zenon, <2>1, <2>2, <2>4, <3>2, <3>3
  <2> QED BY Zenon, <2>3, <2>4
<1> HIDE DEF n, d
<1>7. Len(Contents(k)) = n + d /\ Len(Contents(m) \o data) = n + d
  BY Zenon, <1>2, <1>3, <1>4, <1>5 DEF d
<1> QED BY Zenon, <1>3, <1>4, <1>6, <1>7, SeqEqual

\* The write offset of a call at "meta" has reached the medium.
LEMMA Taken ==
  ASSUME LogInv, NEW t \in Threads, at[t] = "meta", NEW k \in [Locations -> Nat],
         k[WriteOffset] = cache[WriteOffset],
         \A x \in Locations : x # WriteOffset => k[x] = media[x]
  PROVE  Contents(k) = After(op[t]) /\ Len(After(op[t])) <= PoolSize - Start
<1> DEFINE o == op[t]
           l == loc[t]
<1>1. /\ Descr(cache) /\ Descr(media) /\ media \in [Locations -> Nat]
      /\ CallAt("meta", o, l) /\ o.data \in Seq(Nat)
      /\ AppendAt("meta", o, l, cache, media, flushed)
  <2>1. at[t] \in {"copy", "offset", "rewind", "meta"}
    BY Zenon
  <2> QED BY Zenon, <2>1, WriterSees
<1>2. Moving(o, l, cache, media) /\ o.kind \in {"append", "rewind"}
  BY Zenon, <1>1 DEF AppendAt, CallAt
<1>3. k[StartOffset] = media[StartOffset] /\ k[EndOffset] = media[EndOffset]
  BY Zenon, Places
<1>4. Descr(k)
  BY Zenon, <1>1, <1>3 DEF Descr
<1>5. Contents(k) \in Seq(Nat) /\ Len(Contents(k)) <= PoolSize - Start
      /\ Len(Contents(k)) = k[WriteOffset] - Start
  BY Zenon, <1>4, ContentsOpen
<1>6. Contents(k) = After(o)
  <2>1. CASE o.kind = "append"
    <3>1. /\ Copied(o, l, cache, media) /\ l.pos = l.old + Len(o.data) /\ cache[WriteOffset] = l.pos
          /\ \A x \in Locations : x # WriteOffset => cache[x] = media[x]
      BY Zenon, <1>2, <2>1 DEF Moving
    <3>2. /\ media[WriteOffset] = l.old /\ k[WriteOffset] = media[WriteOffset] + Len(o.data)
      BY Zenon, <3>1 DEF Copied
    <3>3. \A x \in Area : k[x] = media[x] /\ k[x] = cache[x]
      BY Zenon, <3>1, Places
    <3>4. ASSUME NEW x \in media[WriteOffset] .. k[WriteOffset] - 1
          PROVE  k[x] = o.data[x - media[WriteOffset] + 1]
      <4>1. x \in Area
        BY <1>1, <1>4, PmemLogAssumption DEF Descr, Area
      <4>2. x \in l.old .. l.pos - 1
        BY Zenon, <3>1, <3>2
      <4>3. cache[x] = o.data[x - l.old + 1]
        BY Zenon, <3>1, <4>2 DEF Copied
      <4> QED BY Zenon, <3>2, <3>3, <4>1, <4>3
    <3>5. Contents(k) = Contents(media) \o o.data
      <4> HIDE DEF o
      <4> QED BY Zenon, <1>1, <1>4, <3>2, <3>3, <3>4, AppendedContents
    <3> QED BY Zenon, <2>1, <3>5 DEF After
  <2>2. CASE o.kind = "rewind"
    <3>1. k[WriteOffset] = Start
      BY Zenon, <1>2, <2>2 DEF Moving
    <3>2. Contents(k) = <<>>
      BY <1>5, <3>1, PmemLogAssumption
    <3>3. After(o) = <<>>
      BY <2>2 DEF After
    <3> QED BY Zenon, <3>2, <3>3
  <2> QED BY Zenon, <1>2, <2>1, <2>2
<1> QED BY Zenon, <1>5, <1>6

\* A reader, or any call that leaves the log alone, ends.
LEMMA Read ==
  ASSUME LogInv, NEW t \in Threads, pool = "open", op[t].kind \notin {"append", "rewind"}
  PROVE  After(op[t]) = Contents(media) /\ Len(After(op[t])) <= PoolSize - Start
<1>1. media \in [Locations -> Nat] /\ Descr(media)
  BY Zenon DEF LogInv, Types, PoolInv
<1>2. Len(Contents(media)) <= PoolSize - Start
  BY Zenon, <1>1, ContentsOpen
<1>3. After(op[t]) = Contents(media)
  BY DEF After
<1> QED BY Zenon, <1>2, <1>3
-----------------------------------------------------------------------------
\* What each step does to the log.

OkTyped(l) == l.ok \in BOOLEAN

\* The call of a thread.
LEMMA CallTyped ==
  ASSUME LogInv, NEW t \in Threads
  PROVE  CallAt(at[t], op[t], loc[t]) /\ loc[t].ok \in BOOLEAN
BY Zenon DEF LogInv, CallAt, LocalsTyped

\* A pending call stays pending, and the log stays.
LEMMA StaysPending ==
  ASSUME LogInv, NEW t \in Threads, NEW s \in Steps, NEW l, OkTyped(l),
         Goto(t, s), Set(t, l), op' = op, at[t] \notin {"idle", "unlock", "return"},
         s \notin {"idle", "unlock", "return"}, Contents(media') = Contents(media)
  PROVE  Stutter
<1>1. at[t] \in Steps
  BY Zenon DEF LogInv, Types
<1>2. StatusOf(s, l.ok) = "pending" /\ StatusOf(at[t], loc[t].ok) = "pending"
  <2>1. s \in Steps \ {"idle", "unlock", "return"} /\ at[t] \in Steps \ {"idle", "unlock", "return"}
    BY Zenon, <1>1
  <2>2. loc[t].ok \in BOOLEAN /\ l.ok \in BOOLEAN
    BY Zenon, CallTyped DEF OkTyped
  <2> QED BY Zenon, <2>1, <2>2, StatusValues
<1>3. at'[t] = s /\ loc'[t] = l /\ OthersKeep(t)
  BY Zenon, Goes DEF LogInv
<1>4. Status' = Status
  BY Zenon, <1>2, <1>3, StatusStep
<1> QED BY Zenon, <1>4 DEF Stutter

\* A pending call ends, with success or without.
LEMMA Ends ==
  ASSUME LogInv, NEW t \in Threads, NEW s \in {"unlock", "return"}, NEW l, OkTyped(l),
         Goto(t, s), Set(t, l), op' = op, at[t] \notin {"idle", "unlock", "return"}
  PROVE  /\ Status[t] = "pending"
         /\ Status' = [Status EXCEPT ![t] = IF l.ok THEN "done" ELSE "failed"]
<1>1. at[t] \in Steps /\ s \in Steps
  BY Zenon DEF LogInv, Types, Steps
<1>2. StatusOf(s, l.ok) = (IF l.ok THEN "done" ELSE "failed") /\ StatusOf(at[t], loc[t].ok) = "pending"
  <2>1. at[t] \in Steps \ {"idle", "unlock", "return"}
    BY Zenon, <1>1
  <2>2. loc[t].ok \in BOOLEAN /\ l.ok \in BOOLEAN
    BY Zenon, CallTyped DEF OkTyped
  <2> QED BY Zenon, <2>1, <2>2, StatusValues
<1>3. /\ Status[t] = StatusOf(at[t], loc[t].ok)
      /\ Status' = [Status EXCEPT ![t] = StatusOf(s, l.ok)]
  <2>1. at'[t] = s /\ loc'[t] = l /\ OthersKeep(t)
    BY Zenon, <1>1, Goes DEF LogInv
  <2> QED BY Zenon, <2>1, StatusStep
<1> QED BY Zenon, <1>2, <1>3

\* A call becomes pending.
LEMMA CallRefines ==
  ASSUME LogInv, NEW t \in Threads, Call(t)
  PROVE  OutsideStep(t)
<1>1. /\ at[t] = "idle" /\ at' = [at EXCEPT ![t] = "lock"] /\ loc' = loc /\ media' = media
      /\ \E c : op' = [op EXCEPT ![t] = c]
  BY Zenon DEF Call, Goto, pmem
<1>2. /\ at'[t] = "lock" /\ loc'[t] = loc[t] /\ OthersKeep(t)
  <2>1. at \in [Threads -> Steps] /\ op \in [Threads -> Ops]
    BY Zenon DEF LogInv, Types
  <2> QED BY <1>1, <2>1 DEF OthersKeep
<1>3. StatusOf("idle", loc[t].ok) = "none" /\ StatusOf("lock", loc[t].ok) = "pending"
  <2>1. "lock" \in Steps \ {"idle", "unlock", "return"}
    BY Zenon DEF Steps
  <2>2. loc[t].ok \in BOOLEAN
    BY Zenon, CallTyped
  <2> QED BY Zenon, <2>1, <2>2, StatusValues
<1>4. /\ Status[t] = StatusOf(at[t], loc[t].ok)
      /\ Status' = [Status EXCEPT ![t] = StatusOf(at'[t], loc'[t].ok)]
  BY Zenon, <1>2, StatusStep
<1>5. Status[t] = "none" /\ Status' = [Status EXCEPT ![t] = "pending"]
  BY Zenon, <1>1, <1>2, <1>3, <1>4
<1> QED BY Zenon, <1>1, <1>5 DEF OutsideStep

\* A call that is done or failed is over.
LEMMA ReturnRefines ==
  ASSUME LogInv, NEW t \in Threads, Return(t)
  PROVE  OutsideStep(t)
<1>1. /\ at[t] = "return" /\ at' = [at EXCEPT ![t] = "idle"] /\ op' = [op EXCEPT ![t] = NoOp]
      /\ loc' = [loc EXCEPT ![t] = NoLocals] /\ media' = media
  BY Zenon DEF Return, Goto, Set, pmem
<1>2. /\ at'[t] = "idle" /\ loc'[t] = NoLocals /\ OthersKeep(t)
  <2>1. at \in [Threads -> Steps] /\ op \in [Threads -> Ops] /\ loc = [u \in Threads |-> loc[u]]
    BY Zenon DEF LogInv, Types
  <2> QED BY <1>1, <2>1 DEF OthersKeep
<1>3. StatusOf("return", loc[t].ok) \in {"done", "failed"}
  <2>1. loc[t].ok \in BOOLEAN
    BY Zenon, CallTyped
  <2> QED BY Zenon, <2>1, StatusValues
<1>4. StatusOf("idle", NoLocals.ok) = "none"
  BY Zenon, NoLocalsFields, StatusValues
<1>5. /\ Status[t] = StatusOf(at[t], loc[t].ok)
      /\ Status' = [Status EXCEPT ![t] = StatusOf(at'[t], loc'[t].ok)]
  BY Zenon, <1>2, StatusStep
<1>6. Status[t] \in {"done", "failed"} /\ Status' = [Status EXCEPT ![t] = "none"]
  BY Zenon, <1>1, <1>2, <1>3, <1>4, <1>5
<1> QED BY Zenon, <1>1, <1>6 DEF OutsideStep

\* A call without the lock fails.
LEMMA GiveUpRefines ==
  ASSUME LogInv, NEW t \in Threads, GiveUp(t)
  PROVE  FailStep(t)
<1> DEFINE l == Locals({}, 0, 0, <<>>, FALSE)
<1>1. /\ at[t] = "lock" /\ Set(t, l) /\ Goto(t, "return") /\ media' = media /\ op' = op
  BY Zenon DEF GiveUp, pmem
<1>2. l.ok = FALSE
  BY DEF Locals
<1> HIDE DEF l
<1>3. /\ Status[t] = "pending"
      /\ Status' = [Status EXCEPT ![t] = IF l.ok THEN "done" ELSE "failed"]
  <2>1. OkTyped(l) /\ at[t] \notin {"idle", "unlock", "return"}
    BY Zenon, <1>1, <1>2 DEF OkTyped
  <2> QED BY Zenon, <1>1, <2>1, Ends
<1> QED BY Zenon, <1>1, <1>2, <1>3 DEF FailStep

\* Taking the lock is not seen in the log.
LEMMA LockRefines ==
  ASSUME LogInv, NEW t \in Threads, Lock(t)
  PROVE  Stutter
<1>1. /\ at[t] = "lock" /\ Goto(t, op[t].kind) /\ loc' = loc /\ media' = media /\ op' = op
  BY Zenon DEF Lock, pmem
<1>2. op[t].kind \in {"append", "rewind", "tell", "nbyte", "walk"}
  <2>1. CallAt("lock", op[t], loc[t]) /\ op[t] \in Ops
    BY Zenon, <1>1 DEF LogInv, Types
  <2>2. op[t].kind \in Kinds
    BY <2>1 DEF Ops
  <2> QED BY Zenon, <2>1, <2>2 DEF CallAt, Kinds
<1>3. op[t].kind \in Steps /\ op[t].kind \notin {"idle", "unlock", "return"}
  BY Zenon, <1>2 DEF Steps
<1>4. Set(t, loc[t]) /\ OkTyped(loc[t])
  BY Zenon, <1>1, LocalsStay, CallTyped DEF LogInv, OkTyped
<1> QED BY Zenon, <1>1, <1>3, <1>4, StaysPending

\* Nor is releasing it.
LEMMA UnlockRefines ==
  ASSUME LogInv, NEW t \in Threads, Unlock(t)
  PROVE  Stutter
<1>1. /\ at[t] = "unlock" /\ Goto(t, "return") /\ loc' = loc /\ media' = media /\ op' = op
  BY Zenon DEF Unlock, pmem
<1>2. Set(t, loc[t]) /\ loc[t].ok \in BOOLEAN
  BY Zenon, <1>1, LocalsStay, CallTyped DEF LogInv
<1>3. StatusOf("return", loc[t].ok) = StatusOf(at[t], loc[t].ok)
  <2>1. \A s \in {"unlock", "return"} : StatusOf(s, loc[t].ok) = IF loc[t].ok THEN "done" ELSE "failed"
    BY Zenon, <1>2, StatusValues
  <2> QED BY Zenon, <1>1, <2>1
<1>4. "return" \in Steps
  BY Zenon DEF Steps
<1>5. at'[t] = "return" /\ loc'[t] = loc[t] /\ OthersKeep(t)
  BY Zenon, <1>1, <1>2, <1>4, Goes DEF LogInv
<1>6. Status' = Status
  BY Zenon, <1>3, <1>5, StatusStep
<1> QED BY Zenon, <1>1, <1>6 DEF Stutter

\* An append without room fails.
LEMMA CheckRefines ==
  ASSUME LogInv, NEW t \in Threads, Check(t)
  PROVE  Stutter \/ FailStep(t)
<1> DEFINE l == Locals(op[t].bufs, cache[WriteOffset], cache[WriteOffset], <<>>, Room(t))
<1>1. /\ at[t] = "append" /\ Set(t, l) /\ Goto(t, IF Room(t) THEN "copy" ELSE "unlock")
      /\ media' = media /\ op' = op
  BY Zenon DEF Check, pmem
<1>2. l.ok = Room(t) /\ Room(t) \in BOOLEAN
  BY DEF Locals, Room
<1>3. at[t] \notin {"idle", "unlock", "return"} /\ "copy" \in Steps
  BY Zenon, <1>1 DEF Steps
<1> HIDE DEF l
<1>4. CASE Room(t)
  <2>1. Goto(t, "copy") /\ OkTyped(l)
    BY Zenon, <1>1, <1>2, <1>4 DEF OkTyped
  <2> QED BY Zenon, <1>1, <1>3, <2>1, StaysPending
<1>5. CASE ~Room(t)
  <2>1. Goto(t, "unlock") /\ l.ok = FALSE
    BY Zenon, <1>1, <1>2, <1>5
  <2>2. OkTyped(l)
    BY Zenon, <2>1 DEF OkTyped
  <2>3. /\ Status[t] = "pending"
        /\ Status' = [Status EXCEPT ![t] = IF l.ok THEN "done" ELSE "failed"]
    BY Zenon, <1>1, <1>3, <2>1, <2>2, Ends
  <2> QED BY Zenon, <1>1, <2>1, <2>3 DEF FailStep
<1> QED BY Zenon, <1>4, <1>5

\* What is copied is not seen in the log.
LEMMA CopyRefines ==
  ASSUME LogInv, NEW t \in Threads, Copy(t)
  PROVE  Stutter
<1>1. PICK left, old, pos : Set(t, Locals(left, old, pos, <<>>, TRUE))
  BY Zenon DEF Copy
<1> DEFINE l == Locals(left, old, pos, <<>>, TRUE)
<1>2. at[t] = "copy" /\ at' = at /\ op' = op /\ media' = media
  BY Zenon DEF Copy
<1>3. Goto(t, "copy") /\ "copy" \in Steps
  <2>1. at \in [Threads -> Steps]
    BY Zenon DEF LogInv, Types
  <2> QED BY <1>2, <2>1 DEF Goto, Steps
<1>4. OkTyped(l)
  BY DEF Locals, OkTyped
<1>5. Set(t, l)
  BY Zenon, <1>1
<1> HIDE DEF l
<1>6. Contents(media') = Contents(media) /\ at[t] \notin {"idle", "unlock", "return"}
  BY Zenon, <1>2
<1> QED BY Zenon, <1>2, <1>3, <1>4, <1>5, <1>6, StaysPending

\* Until the offset moves, what an append writes is not part of the log.
LEMMA PersistDataRefines ==
  ASSUME LogInv, NEW t \in Threads, PersistData(t)
  PROVE  Stutter
<1>1. /\ at[t] = "copy" /\ Goto(t, "offset") /\ loc' = loc /\ op' = op /\ media' = cache
  BY Zenon, PersistDataKeeps DEF PersistData
<1>2. /\ Descr(cache) /\ Descr(media) /\ cache \in [Locations -> Nat] /\ media \in [Locations -> Nat]
      /\ AppendAt("copy", op[t], loc[t], cache, media, flushed)
  <2>1. at[t] \in {"copy", "offset", "rewind", "meta"}
    BY Zenon, <1>1
  <2> QED BY Zenon, <1>1, <2>1, WriterSees
<1>3. /\ cache[WriteOffset] = loc[t].old /\ media[WriteOffset] = loc[t].old
      /\ \A x \in Locations : x \notin loc[t].old .. loc[t].pos - 1 => cache[x] = media[x]
  BY Zenon, <1>2 DEF AppendAt, Copying, Copied
<1>4. \A x \in Area : x < media[WriteOffset] => cache[x] = media[x]
  <2>1. ASSUME NEW x \in Area, x < media[WriteOffset]
        PROVE  x \in Locations /\ x \notin loc[t].old .. loc[t].pos - 1
    <3>1. x \in Nat /\ x \in Locations /\ media[WriteOffset] \in Nat
      BY <1>2, Places
    <3> QED BY <1>3, <2>1, <3>1
  <2> QED BY Zenon, <1>3, <2>1
<1>5. cache[StartOffset] = media[StartOffset] /\ cache[EndOffset] = media[EndOffset]
  BY Zenon, <1>2 DEF Descr
<1>6. Contents(media') = Contents(media)
  BY Zenon, <1>1, <1>2, <1>3, <1>4, <1>5, SameContents
<1>7. Set(t, loc[t]) /\ OkTyped(loc[t]) /\ "offset" \in Steps
  BY Zenon, <1>1, LocalsStay, CallTyped DEF LogInv, OkTyped, Steps
<1>8. at[t] \notin {"idle", "unlock", "return"}
  BY Zenon, <1>1
<1> QED BY Zenon, <1>1, <1>6, <1>7, <1>8, StaysPending

\* Nor is a write offset that is not durable.
LEMMA StoreRefines ==
  ASSUME LogInv, NEW t \in Threads, SetOffset(t) \/ Rewind(t)
  PROVE  Stutter
<1>1. /\ at[t] \in {"offset", "rewind"} /\ Goto(t, "meta") /\ loc' = loc /\ op' = op
      /\ media' = media
  BY Zenon DEF SetOffset, Rewind
<1>2. Set(t, loc[t]) /\ OkTyped(loc[t]) /\ "meta" \in Steps
  BY Zenon, <1>1, LocalsStay, CallTyped DEF LogInv, OkTyped, Steps
<1>3. Contents(media') = Contents(media) /\ at[t] \notin {"idle", "unlock", "return"}
  BY Zenon, <1>1
<1> QED BY Zenon, <1>1, <1>2, <1>3, StaysPending

\* The durable offset is the moment an append or a rewind happens.
LEMMA PersistOffsetRefines ==
  ASSUME LogInv, NEW t \in Threads, PersistOffset(t)
  PROVE  SucceedStep(t)
<1>1. /\ at[t] = "meta" /\ Goto(t, "unlock") /\ loc' = loc /\ op' = op /\ media' = cache
  BY Zenon, PersistOffsetKeeps DEF PersistOffset
<1>2. /\ cache \in [Locations -> Nat] /\ CallAt("meta", op[t], loc[t])
      /\ AppendAt("meta", op[t], loc[t], cache, media, flushed)
  <2>1. at[t] \in {"copy", "offset", "rewind", "meta"}
    BY Zenon, <1>1
  <2> QED BY Zenon, <1>1, <2>1, WriterSees
<1>3. \A x \in Locations : x # WriteOffset => cache[x] = media[x]
  BY Zenon, <1>2 DEF AppendAt, Moving
<1>4. Contents(media') = After(op[t]) /\ Len(After(op[t])) <= PoolSize - Start
  BY Zenon, <1>1, <1>2, <1>3, Taken
<1>5. Set(t, loc[t]) /\ OkTyped(loc[t]) /\ loc[t].ok = TRUE
  BY Zenon, <1>1, <1>2, LocalsStay, CallTyped DEF LogInv, OkTyped, CallAt
<1>6. at[t] \notin {"idle", "unlock", "return"}
  BY Zenon, <1>1
<1>7. /\ Status[t] = "pending"
      /\ Status' = [Status EXCEPT ![t] = IF loc[t].ok THEN "done" ELSE "failed"]
  BY Zenon, <1>1, <1>5, <1>6, Ends
<1> QED BY Zenon, <1>4, <1>5, <1>7 DEF SucceedStep

\* A reader ends.
LEMMA ReaderEnds ==
  ASSUME LogInv, NEW t \in Threads, ReadsAt(at[t], op[t]), at[t] # "unlock", NEW l, l.ok = TRUE,
         Goto(t, "unlock"), Set(t, l), op' = op, media' = media
  PROVE  SucceedStep(t)
<1>1. /\ pool = "open" /\ at[t] \notin {"idle", "unlock", "return"} /\ OkTyped(l)
      /\ op[t].kind \notin {"append", "rewind"}
  <2>1. CallAt(at[t], op[t], loc[t]) /\ pool = "open"
    BY Zenon, CallTyped, ReaderSees
  <2> QED BY Zenon, <2>1 DEF OkTyped, ReadsAt, CallAt
<1>2. After(op[t]) = Contents(media) /\ Len(After(op[t])) <= PoolSize - Start
  BY Zenon, <1>1, Read
<1>3. /\ Status[t] = "pending"
      /\ Status' = [Status EXCEPT ![t] = IF l.ok THEN "done" ELSE "failed"]
  BY Zenon, <1>1, Ends
<1>4. Contents(media') = After(op[t])
  BY Zenon, <1>2
<1> QED BY Zenon, <1>2, <1>3, <1>4 DEF SucceedStep

\* Readers succeed and leave the log alone.
LEMMA ReadRefines ==
  ASSUME LogInv, NEW t \in Threads, Tell(t) \/ Walk(t) \/ Chunk(t) \/ Walked(t)
  PROVE  Stutter \/ SucceedStep(t)
<1>1. CASE Tell(t)
  <2>1. PICK pos : Set(t, Locals({}, 0, pos, <<>>, TRUE))
    BY Zenon, <1>1 DEF Tell
  <2>2. at[t] \in {"tell", "nbyte"} /\ Goto(t, "unlock") /\ op' = op /\ media' = media
    BY Zenon, <1>1 DEF Tell, pmem
  <2>3. ReadsAt(at[t], op[t]) /\ at[t] # "unlock"
    BY Zenon, <2>2 DEF ReadsAt
  <2>4. Locals({}, 0, pos, <<>>, TRUE).ok = TRUE
    BY DEF Locals
  <2> QED BY Zenon, <2>1, <2>2, <2>3, <2>4, ReaderEnds
<1>2. CASE Walk(t)
  <2>1. PICK old, pos : Set(t, Locals({}, old, pos, <<>>, TRUE))
    BY Zenon, <1>2 DEF Walk
  <2>2. at[t] = "walk" /\ Goto(t, "chunk") /\ op' = op /\ media' = media
    BY Zenon, <1>2 DEF Walk, pmem
  <2>3. OkTyped(Locals({}, old, pos, <<>>, TRUE))
    BY DEF Locals, OkTyped
  <2>4. /\ "chunk" \in Steps /\ Contents(media') = Contents(media)
        /\ at[t] \notin {"idle", "unlock", "return"}
    BY Zenon, <2>2 DEF Steps
  <2> QED BY Zenon, <2>1, <2>2, <2>3, <2>4, StaysPending
<1>3. CASE Chunk(t)
  <2>1. PICK old, pos, out : Set(t, Locals({}, old, pos, out, TRUE))
    BY Zenon, <1>3 DEF Chunk
  <2> DEFINE l == Locals({}, old, pos, out, TRUE)
  <2>2. at[t] = "chunk" /\ (at' = at \/ Goto(t, "unlock")) /\ op' = op /\ media' = media
    BY Zenon, <1>3 DEF Chunk, pmem
  <2>3. l.ok = TRUE /\ OkTyped(l)
    BY DEF Locals, OkTyped
  <2>4. Set(t, l)
    BY Zenon, <2>1
  <2> HIDE DEF l
  <2>5. CASE Goto(t, "unlock")
    <3>1. ReadsAt(at[t], op[t]) /\ at[t] # "unlock"
      BY Zenon, <2>2 DEF ReadsAt
    <3> QED BY Zenon, <2>2, <2>3, <2>4, <2>5, <3>1, ReaderEnds
  <2>6. CASE at' = at
    <3>1. Goto(t, "chunk")
      <4>1. at \in [Threads -> Steps]
        BY Zenon DEF LogInv, Types
      <4> QED BY <2>2, <2>6, <4>1 DEF Goto
    <3>2. /\ "chunk" \in Steps /\ Contents(media') = Contents(media)
          /\ at[t] \notin {"idle", "unlock", "return"}
      BY Zenon, <2>2 DEF Steps
    <3> QED BY Zenon, <2>2, <2>3, <2>4, <3>1, <3>2, StaysPending
  <2> QED BY Zenon, <2>2, <2>5, <2>6
<1>4. CASE Walked(t)
  <2>1. at[t] = "chunk" /\ Goto(t, "unlock") /\ op' = op /\ media' = media /\ loc' = loc
    BY Zenon, <1>4 DEF Walked, pmem
  <2>2. ReadsAt(at[t], op[t]) /\ at[t] # "unlock"
    BY Zenon, <2>1 DEF ReadsAt
  <2>3. Set(t, loc[t]) /\ loc[t].ok = TRUE
    BY Zenon, <2>1, LocalsStay, CallTyped DEF LogInv, CallAt
  <2> QED BY Zenon, <2>1, <2>2, <2>3, ReaderEnds
<1> QED BY Zenon, <1>1, <1>2, <1>3, <1>4

\* A pool without a descriptor, or with nothing appended, is an empty log.
LEMMA NoContents ==
  ASSUME NEW m, m[StartOffset] # Start \/ m[WriteOffset] = Start
  PROVE  Contents(m) = <<>>
<1>1. CASE DescrCheck(m)
  <2>1. m[WriteOffset] = Start
    BY Zenon, <1>1 DEF DescrCheck
  <2>2. Contents(m) = [i \in 1 .. Start - Start |-> m[Start + i - 1]]
    BY Zenon, <1>1, <2>1 DEF Contents
  <2>3. 1 .. Start - Start = {}
    BY PmemLogAssumption
  <2> QED BY <2>2, <2>3
<1>2. CASE ~DescrCheck(m)
  BY Zenon, <1>2 DEF Contents
<1> QED BY Zenon, <1>1, <1>2

\* A new file is an empty log.
LEMMA BlankContents ==
  Contents(Blank) = <<>> /\ Blank[StartOffset] # Start
<1>1. Blank[StartOffset] = 0 /\ 0 # Start
  BY BlankTyped, Places, PmemLogAssumption DEF WriteOffset
<1> QED BY Zenon, <1>1, NoContents

\* Creating, opening and closing leave the log alone.
LEMMA PoolRefines ==
  ASSUME LogInv, Create \/ Created \/ Open \/ Close
  PROVE  Stutter
<1>1. at' = at /\ loc' = loc
  BY Zenon DEF Create, Created, Open, Close
<1>2. Status' = Status
  BY Zenon, <1>1 DEF Status, StatusOf
<1>3. Contents(media') = Contents(media)
  <2>1. CASE media' = media
    BY Zenon, <2>1
  <2>2. CASE media' # media
    <3>1. Created
      BY Zenon, <2>2 DEF Create, Open, Close, pmem
    <3>2. media = Blank /\ cache[WriteOffset] = Start
      BY Zenon, <3>1 DEF Created, LogInv, PoolInv
    <3>3. CASE media' = Blank
      BY Zenon, <3>2, <3>3
    <3>4. CASE media' = Durable(Words)
      <4>1. media'[WriteOffset] = Start
        BY <3>2, <3>4, Places DEF Durable, Words
      <4> QED BY Zenon, <3>2, <4>1, NoContents, BlankContents
    <3> QED BY Zenon, <3>1, <3>3, <3>4 DEF Created
  <2> QED BY Zenon, <2>1, <2>2
<1> QED BY Zenon, <1>2, <1>3 DEF Stutter

\* A failure: what was not durable has reached the medium or not.
LEMMA CrashRefines ==
  ASSUME LogInv, Crash
  PROVE  EndStep
<1>1. PICK kept \in SUBSET Dirty : media' = Durable(kept)
  BY Zenon DEF Crash
<1>2. Status' = [t \in Threads |-> "none"]
  <2>1. at' = [t \in Threads |-> "idle"] /\ loc' = [t \in Threads |-> NoLocals]
    BY Zenon DEF Crash
  <2>2. \A t \in Threads : StatusOf(at'[t], loc'[t].ok) = "none"
    BY <2>1 DEF StatusOf
  <2>3. Status' = [t \in Threads |-> StatusOf(at'[t], loc'[t].ok)]
    BY Zenon DEF Status, StatusOf
  <2> QED BY <2>2, <2>3
<1>3. cache \in [Locations -> Nat] /\ media \in [Locations -> Nat]
  BY Zenon DEF LogInv, Types
<1>4. /\ media' \in [Locations -> Nat]
      /\ \A x \in Locations : media'[x] = IF x \in kept THEN cache[x] ELSE media[x]
  BY <1>1, <1>3 DEF Durable
<1>5. \A x \in Locations : cache[x] = media[x] => media'[x] = media[x]
  BY Zenon, <1>4
<1>6. CASE pool = "creating"
  <2>1. media = Blank /\ cache[WriteOffset] = Start
    BY Zenon, <1>6 DEF LogInv, PoolInv
  <2>2. media'[WriteOffset] \in {0, Start}
    BY Zenon, <1>4, <2>1, BlankTyped, Places
  <2>3. Contents(media') = <<>>
    <3>1. CASE media'[WriteOffset] = Start
      BY Zenon, <3>1, NoContents
    <3>2. CASE media'[WriteOffset] = 0
      <4>1. ~DescrCheck(media')
        BY <3>2, PmemLogAssumption DEF DescrCheck, WriteOffset
      <4> QED BY Zenon, <4>1 DEF Contents
    <3> QED BY Zenon, <2>2, <3>1, <3>2
  <2> QED BY Zenon, <1>2, <2>1, <2>3, BlankContents DEF EndStep
<1>7. CASE pool = "open"
  <2>1. Descr(media) /\ Descr(cache)
    BY Zenon, <1>7 DEF LogInv, PoolInv
  <2>2. media'[StartOffset] = media[StartOffset] /\ media'[EndOffset] = media[EndOffset]
    BY Zenon, <1>5, <2>1, Places DEF Descr
  <2>3. CASE \E t \in Threads : at[t] = "meta"
    <3>1. PICK t \in Threads : at[t] = "meta"
      BY Zenon, <2>3
    <3>2. CallAt("meta", op[t], loc[t]) /\ AppendAt("meta", op[t], loc[t], cache, media, flushed)
      BY Zenon, <3>1 DEF LogInv
    <3>3. \A x \in Locations : x # WriteOffset => media'[x] = media[x]
      BY Zenon, <1>5, <3>2 DEF AppendAt, Moving
    <3>4. CASE WriteOffset \in kept
      <4>1. media'[WriteOffset] = cache[WriteOffset]
        BY Zenon, <1>4, <3>4, Places
      <4>2. Contents(media') = After(op[t])
        BY Zenon, <1>4, <3>1, <3>3, <4>1, Taken
      <4>3. Status[t] = "pending"
        <5>1. Status[t] = StatusOf("meta", loc[t].ok)
          BY Zenon, <3>1 DEF Status
        <5>2. "meta" \in Steps \ {"idle", "unlock", "return"} /\ loc[t].ok \in BOOLEAN
          BY Zenon, CallTyped DEF Steps
        <5> QED BY Zenon, <5>1, <5>2, StatusValues
      <4> QED BY Zenon, <1>2, <4>2, <4>3 DEF EndStep
    <3>5. CASE WriteOffset \notin kept
      <4>1. media'[WriteOffset] = media[WriteOffset]
        BY Zenon, <1>4, <3>5, Places
      <4>2. \A x \in Area : x < media[WriteOffset] => media'[x] = media[x]
        BY Zenon, <3>3, Places
      <4>3. Contents(media') = Contents(media)
        BY Zenon, <1>3, <1>4, <2>1, <2>2, <4>1, <4>2, SameContents
      <4> QED BY Zenon, <1>2, <4>3 DEF EndStep
    <3> QED BY Zenon, <3>4, <3>5
  <2>4. CASE \A t \in Threads : at[t] # "meta"
    <3>1. /\ media[WriteOffset] = cache[WriteOffset]
          /\ \A x \in Area : x < media[WriteOffset] => cache[x] = media[x]
      <4>1. CASE \E t \in Threads : at[t] = "copy"
        <5>1. PICK t \in Threads : at[t] = "copy"
          BY Zenon, <4>1
        <5>2. AppendAt("copy", op[t], loc[t], cache, media, flushed)
          BY Zenon, <5>1 DEF LogInv
        <5>3. /\ cache[WriteOffset] = loc[t].old /\ media[WriteOffset] = loc[t].old
              /\ \A x \in Locations : x \notin loc[t].old .. loc[t].pos - 1 => cache[x] = media[x]
          BY Zenon, <5>2 DEF AppendAt, Copying, Copied
        <5>4. ASSUME NEW x \in Area, x < media[WriteOffset]
              PROVE  x \in Locations /\ x \notin loc[t].old .. loc[t].pos - 1
          <6>1. x \in Nat /\ x \in Locations /\ media[WriteOffset] \in Nat
            BY <1>3, Places
          <6> QED BY <5>3, <5>4, <6>1
        <5> QED BY Zenon, <5>3, <5>4
      <4>2. CASE \A t \in Threads : at[t] # "copy"
        <5>1. cache = media
          BY Zenon, <1>7, <2>4, <4>2 DEF LogInv, PoolInv
        <5> QED BY Zenon, <5>1
      <4> QED BY Zenon, <4>1, <4>2
    <3>2. /\ media'[WriteOffset] = media[WriteOffset]
          /\ \A x \in Area : x < media[WriteOffset] => media'[x] = media[x]
      BY Zenon, <1>5, <3>1, Places
    <3>3. Contents(media') = Contents(media)
      BY Zenon, <1>3, <1>4, <2>1, <2>2, <3>2, SameContents
    <3> QED BY Zenon, <1>2, <3>3 DEF EndStep
  <2> QED BY Zenon, <2>3, <2>4
<1>8. pool \in {"creating", "open"}
  BY Zenon DEF Crash
<1> QED BY Zenon, <1>6, <1>7, <1>8

\* Through crashes and interleavings the pool is a log to which an append adds
\* all of its data or none, a rewind removes all, and which a failure leaves as
\* it was or with the one call applied that was about to return
\* (pmemlog_append, pmemlog_appendv, pmemlog_rewind, log_persist).
THEOREM LogRefinement == Spec => ImplementsAtomicLog
<1>1. Init => Abstract!LInit
  <2> SUFFICES ASSUME Init PROVE Abstract!LInit
    OBVIOUS
  <2>1. media = Blank /\ at = [t \in Threads |-> "idle"]
    BY Zenon DEF Init
  <2>2. [t \in Threads |-> StatusOf(at[t], loc[t].ok)] = [t \in Threads |-> "none"]
    BY <2>1 DEF StatusOf
  <2>3. Contents(media) = <<>>
    BY Zenon, <2>1, BlankContents
  <2> QED BY Zenon, <2>2, <2>3 DEF Abstract!LInit
<1>2. ASSUME LogInv, [LogNext]_vars PROVE [Abstract!LNext]_(Abstract!lvars)
  <2>1. Stutter \/ EndStep \/ \E t \in Threads : OutsideStep(t) \/ SucceedStep(t) \/ FailStep(t)
    <3>1. CASE UNCHANGED vars
      <4>1. at' = at /\ loc' = loc /\ media' = media
        BY Zenon, <3>1 DEF vars
      <4> QED BY Zenon, <4>1 DEF Stutter, Status, StatusOf
    <3>2. ASSUME NEW t \in Threads, Call(t) \/ LockFails(t) \/ Step(t)
          PROVE  Stutter \/ OutsideStep(t) \/ SucceedStep(t) \/ FailStep(t)
      <4>1. CASE Call(t) \/ Return(t)
        BY Zenon, <1>2, <4>1, CallRefines, ReturnRefines
      <4>2. CASE LockFails(t) \/ Refuse(t)
        <5>1. GiveUp(t)
          BY Zenon, <4>2 DEF LockFails, Refuse
        <5> QED BY Zenon, <1>2, <5>1, GiveUpRefines
      <4>3. CASE Lock(t) \/ Unlock(t) \/ Check(t)
        BY Zenon, <1>2, <4>3, LockRefines, UnlockRefines, CheckRefines
      <4>4. CASE Copy(t) \/ PersistData(t) \/ SetOffset(t) \/ Rewind(t) \/ PersistOffset(t)
        BY Zenon, <1>2, <4>4, CopyRefines, PersistDataRefines, StoreRefines, PersistOffsetRefines
      <4>5. CASE Tell(t) \/ Walk(t) \/ Chunk(t) \/ Walked(t)
        BY Zenon, <1>2, <4>5, ReadRefines
      <4> QED BY Zenon, <3>2, <4>1, <4>2, <4>3, <4>4, <4>5 DEF Step
    <3>3. CASE Create \/ Created \/ Open \/ Close \/ Crash
      BY Zenon, <1>2, <3>3, PoolRefines, CrashRefines
    <3> QED BY Zenon, <1>2, <3>1, <3>2, <3>3 DEF LogNext
  <2>2. CASE Stutter
    BY Zenon, <2>2 DEF Stutter, Status, Contents, DescrCheck, Abstract!lvars
  <2>3. CASE EndStep
    BY Zenon, <2>3 DEF EndStep, After, Status, Contents, DescrCheck,
       Abstract!LNext, Abstract!End, Abstract!After
  <2>4. ASSUME NEW t \in Threads, OutsideStep(t) PROVE Abstract!LNext
    <3>1. Abstract!Outside(t)
      BY Zenon, <2>4 DEF OutsideStep, Status, Contents, DescrCheck, Abstract!Outside
    <3> QED BY Zenon, <3>1 DEF Abstract!LNext
  <2>5. ASSUME NEW t \in Threads, SucceedStep(t) PROVE Abstract!LNext
    <3>1. Abstract!Succeed(t)
      BY Zenon, <2>5 DEF SucceedStep, After, Status, Contents, DescrCheck,
         Abstract!Succeed, Abstract!After
    <3> QED BY Zenon, <3>1 DEF Abstract!LNext
  <2>6. ASSUME NEW t \in Threads, FailStep(t) PROVE Abstract!LNext
    <3>1. Abstract!Fail(t)
      BY Zenon, <2>6 DEF FailStep, Status, Contents, DescrCheck, Abstract!Fail
    <3> QED BY Zenon, <3>1 DEF Abstract!LNext
  <2> QED BY Zenon, <2>1, <2>2, <2>3, <2>4, <2>5, <2>6
<1> QED
  BY <1>1, <1>2, LogInvariant, PTL DEF Spec, ImplementsAtomicLog, Abstract!LSpec
-----------------------------------------------------------------------------
\* What readers are given.

\* The end of the pool and a chunk behind it are still below the width of an
\* offset: pos += chunksize in pmemlog_walk does not wrap.
ShortWalks == \A n \in ChunkSizes : PoolSize + n <= OffWrap

\* The walk has read the log, from the start and up to pos.
ReadSoFar(l, c) ==
    /\ l.out \in Seq(Nat) /\ Len(l.out) <= c[WriteOffset] - Start
    /\ \A i \in 1 .. Len(l.out) : l.out[i] = c[Start + i - 1]

WalkAt(s, o, l, c) ==
    /\ o.kind = "walk" /\ s \in {"chunk", "unlock"} => ReadSoFar(l, c)
    /\ s = "chunk" => /\ l.old = c[WriteOffset] /\ Start <= l.pos
                      /\ Len(l.out) = (IF l.pos < l.old THEN l.pos ELSE l.old) - Start
                      /\ o.chunk = 0 => l.pos = Start
    /\ o.kind = "tell" /\ s = "unlock" => l.pos = c[WriteOffset] - Start

WalkInv == \A t \in Threads : WalkAt(at[t], op[t], loc[t], cache)

\* Where WalkAt says nothing.
LEMMA NotReading ==
  ASSUME NEW s, NEW o, NEW l, NEW c,
         s # "chunk", s = "unlock" => o.kind \notin {"walk", "tell"}
  PROVE  WalkAt(s, o, l, c)
BY Zenon DEF WalkAt

\* A step of a call is one of its thread alone.
LEMMA OthersStay ==
  ASSUME LogInv, NEW t \in Threads, Call(t) \/ LockFails(t) \/ Step(t)
  PROVE  OthersKeep(t)
<1>1. at' = at \/ \E s : at' = [at EXCEPT ![t] = s]
  BY Zenon DEF Step, Call, LockFails, Refuse, GiveUp, Lock, Unlock, Return, Check, Copy, PersistData,
     SetOffset, Rewind, PersistOffset, Tell, Walk, Chunk, Walked, Goto
<1>2. loc' = loc \/ \E l : loc' = [loc EXCEPT ![t] = l]
  BY Zenon DEF Step, Call, LockFails, Refuse, GiveUp, Lock, Unlock, Return, Check, Copy, PersistData,
     SetOffset, Rewind, PersistOffset, Tell, Walk, Chunk, Walked, Set
<1>3. op' = op \/ \E c : op' = [op EXCEPT ![t] = c]
  BY Zenon DEF Step, Call, LockFails, Refuse, GiveUp, Lock, Unlock, Return, Check, Copy, PersistData,
     SetOffset, Rewind, PersistOffset, Tell, Walk, Chunk, Walked
<1>4. at \in [Threads -> Steps] /\ op \in [Threads -> Ops] /\ loc = [u \in Threads |-> loc[u]]
  BY Zenon DEF LogInv, Types
<1>5. ASSUME NEW u \in Threads \ {t} PROVE at'[u] = at[u]
  BY <1>1, <1>4
<1>6. ASSUME NEW u \in Threads \ {t} PROVE op'[u] = op[u]
  BY <1>3, <1>4
<1>7. ASSUME NEW u \in Threads \ {t} PROVE loc'[u] = loc[u]
  BY <1>2, <1>4
<1> QED BY Zenon, <1>5, <1>6, <1>7 DEF OthersKeep

\* Nobody but the writer changes the pool, and while it has the lock nobody
\* reads.
LEMMA OthersRead ==
  ASSUME LogInv, WalkInv, NEW t \in Threads, OthersKeep(t),
         cache' = cache \/ WritesAt(at[t], op[t]), WalkAt(at'[t], op'[t], loc'[t], cache')
  PROVE  WalkInv'
<1>1. ASSUME NEW u \in Threads
      PROVE  WalkAt(at'[u], op'[u], loc'[u], cache')
  <2>1. CASE u = t
    BY Zenon, <2>1
  <2>2. CASE u # t
    <3>1. at'[u] = at[u] /\ op'[u] = op[u] /\ loc'[u] = loc[u]
      BY Zenon, <2>2 DEF OthersKeep
    <3>2. CASE cache' = cache
      BY Zenon, <3>1, <3>2 DEF WalkInv
    <3>3. CASE WritesAt(at[t], op[t])
      <4>1. writer = t /\ readers = {}
        <5>1. writer = t /\ writer # NoThread
          BY Zenon, <3>3, PmemLogAssumption DEF LogInv, LockInv
        <5> QED BY Zenon, <5>1 DEF LogInv, LockInv
      <4>2. ~ReadsAt(at[u], op[u])
        BY Zenon, <4>1 DEF LogInv, LockInv
      <4>3. at[u] # "chunk" /\ (at[u] = "unlock" => op[u].kind \notin {"walk", "tell"})
        BY Zenon, <4>2 DEF ReadsAt
      <4> QED BY Zenon, <3>1, <4>3, NotReading
    <3> QED BY Zenon, <3>2, <3>3
  <2> QED BY Zenon, <2>1, <2>2
<1>2. ASSUME NEW u \in Threads
      PROVE  WalkAt(at[u], op[u], loc[u], cache)'
  BY Zenon, <1>1 DEF WalkAt, ReadSoFar
<1> QED BY Zenon, <1>2 DEF WalkInv

\* Steps of a call that are not those of a reader at work.
LEMMA OutsideWalk ==
  ASSUME LogInv, NEW t \in Threads,
         \/ Call(t) \/ LockFails(t) \/ Refuse(t) \/ Lock(t) \/ Unlock(t) \/ Return(t)
         \/ Check(t) \/ Copy(t) \/ PersistData(t) \/ SetOffset(t) \/ Rewind(t) \/ PersistOffset(t)
  PROVE  /\ WalkAt(at'[t], op'[t], loc'[t], cache')
         /\ cache' = cache \/ WritesAt(at[t], op[t])
<1>1. CallAt(at[t], op[t], loc[t]) /\ op[t] \in Ops
  BY Zenon DEF LogInv, Types
<1>2. at \in [Threads -> Steps]
  BY Zenon DEF LogInv, Types
<1>3. cache' = cache \/ WritesAt(at[t], op[t])
  BY Zenon DEF Call, LockFails, Refuse, GiveUp, Lock, Unlock, Return, Check, Copy, PersistData,
     SetOffset, Rewind, PersistOffset, pmem, WritesAt
<1>4. at'[t] # "chunk" /\ (at'[t] = "unlock" => op'[t].kind \notin {"walk", "tell"})
  <2>1. CASE Call(t) \/ LockFails(t) \/ Refuse(t) \/ Unlock(t) \/ Return(t) \/ PersistData(t)
             \/ SetOffset(t) \/ Rewind(t)
    <3>1. \E s \in {"lock", "return", "idle", "offset", "meta"} : at' = [at EXCEPT ![t] = s]
      BY Zenon, <2>1 DEF Call, LockFails, Refuse, GiveUp, Unlock, Return, PersistData,
         SetOffset, Rewind, Goto
    <3>2. at'[t] \in {"lock", "return", "idle", "offset", "meta"}
      BY <1>2, <3>1
    <3> QED BY Zenon, <3>2
  <2>2. CASE Check(t) \/ PersistOffset(t)
    <3>1. at[t] \in {"append", "meta"} /\ op' = op /\ \E s : at' = [at EXCEPT ![t] = s]
              /\ s \in {"copy", "unlock"}
      BY Zenon, <2>2 DEF Check, PersistOffset, Goto
    <3>2. at'[t] \in {"copy", "unlock"}
      BY <1>2, <3>1
    <3>3. op[t].kind \notin {"walk", "tell"}
      BY Zenon, <1>1, <3>1 DEF CallAt
    <3> QED BY Zenon, <3>1, <3>2, <3>3
  <2>3. CASE Copy(t)
    BY Zenon, <2>3 DEF Copy
  <2>4. CASE Lock(t)
    <3>1. at' = [at EXCEPT ![t] = op[t].kind]
      BY Zenon, <2>4 DEF Lock, Goto
    <3>2. op[t].kind \in Kinds
      BY <1>1 DEF Ops
    <3>3. at'[t] = op[t].kind
      BY <1>2, <3>1
    <3> QED BY Zenon, <3>2, <3>3 DEF Kinds
  <2> QED BY Zenon, <2>1, <2>2, <2>3, <2>4
<1>5. WalkAt(at'[t], op'[t], loc'[t], cache')
  BY Zenon, <1>4, NotReading
<1> QED BY Zenon, <1>3, <1>5

\* len more bytes, from pos.
LEMMA ReadOn ==
  ASSUME cache \in [Locations -> Nat], Descr(cache), NEW pos \in Nat, NEW len \in Nat,
         Start <= pos, pos + len <= cache[WriteOffset], NEW out \in Seq(Nat),
         Len(out) = pos - Start, \A i \in 1 .. Len(out) : out[i] = cache[Start + i - 1]
  PROVE  /\ out \o Bytes(pos, len) \in Seq(Nat)
         /\ Len(out \o Bytes(pos, len)) = pos + len - Start
         /\ \A i \in 1 .. Len(out \o Bytes(pos, len)) :
               (out \o Bytes(pos, len))[i] = cache[Start + i - 1]
<1> DEFINE b == Bytes(pos, len)
<1>1. \A i \in 1 .. len : pos + i - 1 \in Area
  BY PmemLogAssumption DEF Area, Descr
<1>2. \A i \in 1 .. len : cache[pos + i - 1] \in Nat
  BY Zenon, <1>1, Places
<1>3. b \in Seq(Nat) /\ Len(b) = len /\ \A i \in 1 .. len : b[i] = cache[pos + i - 1]
  BY <1>2 DEF Bytes
<1> HIDE DEF b
<1>4. /\ out \o b \in Seq(Nat) /\ Len(out \o b) = Len(out) + Len(b)
      /\ \A i \in 1 .. Len(out) + Len(b) :
            (out \o b)[i] = IF i <= Len(out) THEN out[i] ELSE b[i - Len(out)]
  BY Zenon, <1>3, ConcatProperties
<1>5. Len(out) \in Nat /\ Start \in Nat
  BY PmemLogAssumption
<1>6. Len(out \o b) = pos + len - Start
  BY <1>3, <1>4, <1>5
<1>7. ASSUME NEW i \in 1 .. Len(out \o b)
      PROVE  (out \o b)[i] = cache[Start + i - 1]
  <2>1. i \in 1 .. Len(out) + Len(b)
    BY Zenon, <1>4
  <2>2. CASE i <= Len(out)
    <3>1. i \in 1 .. Len(out)
      BY <1>5, <2>1, <2>2
    <3> QED BY Zenon, <1>4, <2>1, <2>2, <3>1
  <2>3. CASE ~(i <= Len(out))
    <3>1. i - Len(out) \in 1 .. len /\ pos + (i - Len(out)) - 1 = Start + i - 1
      BY <1>3, <1>5, <2>1, <2>3
    <3>2. b[i - Len(out)] = cache[pos + (i - Len(out)) - 1]
      BY Zenon, <1>3, <3>1
    <3> QED BY Zenon, <1>4, <2>1, <2>3, <3>1, <3>2
  <2> QED BY Zenon, <2>2, <2>3
<1> QED BY Zenon, <1>4, <1>6, <1>7 DEF b

\* process_chunk is given what follows what it was given before.
LEMMA ChunkReads ==
  ASSUME ShortWalks, LogInv, WalkInv, NEW t \in Threads, Chunk(t)
  PROVE  WalkAt(at'[t], op'[t], loc'[t], cache')
<1> DEFINE l == loc[t]
           size == op[t].chunk
           rest == l.old - l.pos
           len == IF size = 0 \/ rest < size THEN rest ELSE size
           out == l.out \o Bytes(l.pos, len)
           pos == (l.pos + size) % OffWrap
           w == cache[WriteOffset]
<1>1. /\ at[t] = "chunk" /\ (l.pos < l.old \/ size = 0) /\ Set(t, Locals({}, l.old, pos, out, TRUE))
      /\ (size # 0 /\ at' = at) \/ Goto(t, "unlock")
      /\ op' = op /\ cache' = cache
  BY Zenon DEF Chunk, pmem
<1>2. CallAt("chunk", op[t], l) /\ op[t] \in Ops
  BY Zenon, <1>1 DEF LogInv, Types
<1>3. /\ l.old \in Nat /\ l.pos \in Nat /\ size \in ChunkSizes \cup {0} /\ op[t].kind = "walk"
  BY Zenon, <1>2 DEF CallAt, LocalsTyped
<1>4. size \in Nat
  BY <1>2 DEF Ops
<1>5. /\ ReadSoFar(l, cache) /\ l.old = w /\ Start <= l.pos
      /\ Len(l.out) = (IF l.pos < l.old THEN l.pos ELSE l.old) - Start
      /\ size = 0 => l.pos = Start
  <2>1. WalkAt("chunk", op[t], l, cache)
    BY Zenon, <1>1 DEF WalkInv
  <2> QED BY Zenon, <1>3, <2>1 DEF WalkAt
<1>6. /\ Descr(cache) /\ cache \in [Locations -> Nat] /\ w \in Nat
  <2>1. ReadsAt(at[t], op[t])
    BY Zenon, <1>1 DEF ReadsAt
  <2> QED BY Zenon, <2>1, ReaderSees DEF LogInv, Types
<1>7. Start \in Nat /\ Start <= w /\ w <= PoolSize /\ PoolSize \in Nat
  BY <1>6, PmemLogAssumption DEF Descr
<1>8. l.pos <= l.old /\ len \in Nat /\ Len(l.out) = l.pos - Start /\ l.pos + len <= w
  <2> HIDE DEF l, size, w
  <2> QED BY <1>1, <1>3, <1>4, <1>5, <1>6, <1>7
<1>9. size # 0 => /\ pos = l.pos + size /\ Start <= pos
                  /\ l.pos + len = IF pos < l.old THEN pos ELSE l.old
  <2>1. ASSUME size # 0 PROVE pos = l.pos + size
    <3>1. size \in ChunkSizes /\ PoolSize + size <= OffWrap
      BY Zenon, <1>3, <2>1 DEF ShortWalks
    <3>2. l.pos < l.old
      BY Zenon, <1>1, <2>1
    <3>3. l.pos + size \in Nat /\ OffWrap \in Nat /\ l.pos + size < OffWrap
      <4> HIDE DEF l, size, w
      <4> QED BY SMTT(20), <1>3, <1>4, <1>5, <1>6, <1>7, <3>1, <3>2, PmemLogAssumption
    <3> HIDE DEF l, size
    <3> QED BY Zenon, <3>3, NoWrap DEF pos
  <2>2. ASSUME size # 0 PROVE l.pos < l.old
    BY Zenon, <1>1, <2>2
  <2> HIDE DEF l, size, w, pos
  <2> QED BY <1>3, <1>4, <1>5, <1>7, <2>1, <2>2
<1>10. /\ out \in Seq(Nat) /\ Len(out) = l.pos + len - Start
       /\ \A i \in 1 .. Len(out) : out[i] = cache[Start + i - 1]
  <2>1. l.out \in Seq(Nat) /\ \A i \in 1 .. Len(l.out) : l.out[i] = cache[Start + i - 1]
    BY Zenon, <1>5 DEF ReadSoFar
  <2> HIDE DEF l, len
  <2> QED BY ZenonT(30), <1>3, <1>5, <1>6, <1>8, <2>1, ReadOn DEF w
<1> DEFINE k == Locals({}, l.old, pos, out, TRUE)
<1>11. k.old = l.old /\ k.pos = pos /\ k.out = out
  BY Zenon DEF Locals
<1>12. Len(out) <= w - Start
  <2> HIDE DEF l, len, w, out
  <2> QED BY <1>3, <1>6, <1>7, <1>8, <1>10
<1>13. ReadSoFar(k, cache)
  <2> HIDE DEF k, out, l, pos
  <2> QED BY Zenon, <1>10, <1>11, <1>12 DEF ReadSoFar
<1>14. ASSUME size # 0 PROVE WalkAt("chunk", op[t], k, cache)
  <2>1. /\ k.old = w /\ Start <= k.pos
        /\ Len(k.out) = (IF k.pos < k.old THEN k.pos ELSE k.old) - Start
    <3>1. k.old = l.old /\ k.pos = pos /\ Len(k.out) = l.pos + len - Start
      BY Zenon, <1>10, <1>11
    <3>2. Start <= pos /\ l.pos + len = IF pos < l.old THEN pos ELSE l.old
      BY Zenon, <1>9, <1>14
    <3>3. l.old = w
      BY Zenon, <1>5
    <3> HIDE DEF k, out, l, pos, len, w, size
    <3>4. Len(k.out) = (IF k.pos < k.old THEN k.pos ELSE k.old) - Start
      BY SMTT(20), <1>3, <1>4, <1>7, <1>8, <1>9, <1>14, <3>1, <3>2
    <3> QED BY Zenon, <3>1, <3>2, <3>3, <3>4
  <2> HIDE DEF k
  <2> QED BY Zenon, <1>3, <1>13, <1>14, <2>1 DEF WalkAt
<1>15. WalkAt("unlock", op[t], k, cache)
  <2> HIDE DEF k
  <2> QED BY Zenon, <1>3, <1>13 DEF WalkAt
<1>16. loc'[t] = k /\ ((size # 0 /\ at'[t] = "chunk") \/ at'[t] = "unlock")
  <2>1. at \in [Threads -> Steps] /\ loc = [u \in Threads |-> loc[u]]
    BY Zenon DEF LogInv, Types
  <2>2. loc' = [loc EXCEPT ![t] = k]
    BY Zenon, <1>1 DEF Set
  <2>3. (size # 0 /\ at' = at) \/ at' = [at EXCEPT ![t] = "unlock"]
    BY Zenon, <1>1 DEF Goto
  <2> HIDE DEF k, size
  <2> QED BY <1>1, <2>1, <2>2, <2>3
<1> HIDE DEF k, size
<1> QED BY Zenon, <1>1, <1>14, <1>15, <1>16

\* Every step of a reader keeps what is said of it.
LEMMA ReaderReads ==
  ASSUME ShortWalks, LogInv, WalkInv, NEW t \in Threads,
         Tell(t) \/ Walk(t) \/ Chunk(t) \/ Walked(t)
  PROVE  WalkAt(at'[t], op'[t], loc'[t], cache') /\ cache' = cache
<1>1. cache' = cache /\ op' = op
  BY Zenon DEF Tell, Walk, Chunk, Walked, pmem
<1>2. at \in [Threads -> Steps] /\ loc = [u \in Threads |-> loc[u]]
  BY Zenon DEF LogInv, Types
<1>3. at[t] \in {"tell", "nbyte", "walk", "chunk"}
  BY Zenon DEF Tell, Walk, Chunk, Walked
<1>4. /\ CallAt(at[t], op[t], loc[t]) /\ Descr(cache) /\ cache[WriteOffset] \in Nat
  <2>1. ReadsAt(at[t], op[t])
    BY Zenon, <1>3 DEF ReadsAt
  <2> QED BY Zenon, <2>1, ReaderSees, CallTyped
<1>5. CASE Tell(t)
  <2> DEFINE end == IF at[t] = "tell" THEN cache[WriteOffset] ELSE cache[EndOffset]
             k == Locals({}, 0, end - cache[StartOffset], <<>>, TRUE)
  <2>1. at[t] \in {"tell", "nbyte"} /\ loc' = [loc EXCEPT ![t] = k] /\ at' = [at EXCEPT ![t] = "unlock"]
    BY Zenon, <1>5 DEF Tell, Goto, Set
  <2>2. k.pos = end - cache[StartOffset]
    BY DEF Locals
  <2>3. op[t].kind = at[t]
    BY Zenon, <1>4, <2>1 DEF CallAt
  <2>4. at[t] = "tell" => k.pos = cache[WriteOffset] - Start
    BY Zenon, <1>4, <2>2 DEF Descr
  <2> HIDE DEF k
  <2>5. loc'[t] = k /\ at'[t] = "unlock"
    BY <1>2, <2>1
  <2>6. WalkAt("unlock", op[t], k, cache)
    BY Zenon, <2>1, <2>3, <2>4 DEF WalkAt
  <2> QED BY Zenon, <1>1, <2>5, <2>6
<1>6. CASE Walk(t)
  <2> DEFINE k == Locals({}, cache[WriteOffset], cache[StartOffset], <<>>, TRUE)
  <2>1. at[t] = "walk" /\ loc' = [loc EXCEPT ![t] = k] /\ at' = [at EXCEPT ![t] = "chunk"]
    BY ZenonT(30), <1>6 DEF Walk, Goto, Set
  <2>2. k.old = cache[WriteOffset] /\ k.pos = Start /\ k.out = <<>>
    BY <1>4 DEF Locals, Descr
  <2> HIDE DEF k
  <2>3. loc'[t] = k /\ at'[t] = "chunk"
    BY SMTT(20), <1>2, <2>1
  <2>4. Start \in Nat /\ Start <= cache[WriteOffset]
    BY SMTT(20), <1>4, PmemLogAssumption DEF Descr
  <2>5. ReadSoFar(k, cache)
    BY <1>4, <2>2, <2>4 DEF ReadSoFar
  <2>6. Start <= k.pos /\ Len(k.out) = (IF k.pos < k.old THEN k.pos ELSE k.old) - Start
    BY <1>4, <2>2, <2>4
  <2>7. WalkAt("chunk", op[t], k, cache)
    BY Zenon, <2>2, <2>5, <2>6 DEF WalkAt
  <2> QED BY Zenon, <1>1, <2>3, <2>7
<1>7. CASE Walked(t)
  <2>1. at[t] = "chunk" /\ loc' = loc /\ at' = [at EXCEPT ![t] = "unlock"]
    BY Zenon, <1>7 DEF Walked, Goto
  <2>2. at'[t] = "unlock"
    BY <1>2, <2>1
  <2>3. WalkAt("chunk", op[t], loc[t], cache) /\ op[t].kind = "walk"
    BY Zenon, <1>4, <2>1 DEF WalkInv, CallAt
  <2>4. WalkAt("unlock", op[t], loc[t], cache)
    BY Zenon, <2>3 DEF WalkAt
  <2> QED BY Zenon, <1>1, <2>1, <2>2, <2>4
<1> QED BY Zenon, <1>1, <1>5, <1>6, <1>7, ChunkReads

\* Every step keeps what is said of readers.
LEMMA WalkKept ==
  ASSUME ShortWalks, LogInv, WalkInv, [LogNext]_vars
  PROVE  WalkInv'
<1>1. CASE UNCHANGED vars
  <2>1. UNCHANGED <<cache, at, op, loc>>
    BY Zenon, <1>1 DEF vars
  <2> QED BY Zenon, <2>1 DEF WalkInv, WalkAt, ReadSoFar
<1>2. ASSUME NEW t \in Threads, Call(t) \/ LockFails(t) \/ Step(t)
      PROVE  WalkInv'
  <2>1. OthersKeep(t)
    BY Zenon, <1>2, OthersStay
  <2>2. /\ WalkAt(at'[t], op'[t], loc'[t], cache')
        /\ cache' = cache \/ WritesAt(at[t], op[t])
    <3>1. CASE Tell(t) \/ Walk(t) \/ Chunk(t) \/ Walked(t)
      BY Zenon, <3>1, ReaderReads
    <3>2. CASE \/ Call(t) \/ LockFails(t) \/ Refuse(t) \/ Lock(t) \/ Unlock(t) \/ Return(t)
               \/ Check(t) \/ Copy(t) \/ PersistData(t) \/ SetOffset(t) \/ Rewind(t)
               \/ PersistOffset(t)
      BY Zenon, <3>2, OutsideWalk
    <3> QED BY Zenon, <1>2, <3>1, <3>2 DEF Step
  <2> QED BY Zenon, <2>1, <2>2, OthersRead
<1>3. CASE Create \/ Created \/ Open \/ Close \/ Crash
  <2>1. \A t \in Threads : at'[t] = "idle"
    <3>1. CASE Crash
      <4>1. at' = [t \in Threads |-> "idle"]
        BY Zenon, <3>1 DEF Crash
      <4> QED BY <4>1
    <3>2. CASE Create \/ Created \/ Open \/ Close
      <4>1. at' = at /\ (pool # "open" \/ \A t \in Threads : at[t] = "idle")
        BY Zenon, <3>2 DEF Create, Created, Open, Close
      <4> QED BY Zenon, <4>1 DEF LogInv
    <3> QED BY Zenon, <1>3, <3>1, <3>2
  <2>2. \A t \in Threads : at'[t] # "chunk" /\ at'[t] # "unlock"
    BY Zenon, <2>1
  <2> QED BY Zenon, <2>2 DEF WalkInv, WalkAt
<1> QED BY Zenon, <1>1, <1>2, <1>3 DEF LogNext

\* What readers are given, from the invariants.
LEMMA GivenLog ==
  ASSUME LogInv, WalkInv, NEW t \in readers
  PROVE  /\ op[t].kind = "walk" =>
              /\ Len(loc[t].out) <= Len(Contents(media))
              /\ loc[t].out = SubSeq(Contents(media), 1, Len(loc[t].out))
         /\ op[t].kind = "walk" /\ at[t] = "chunk" /\ loc[t].pos >= loc[t].old
               => loc[t].out = Contents(media)
         /\ op[t].kind = "tell" /\ at[t] = "unlock" => loc[t].pos = Len(Contents(media))
<1> DEFINE out == loc[t].out
           C == Contents(media)
           n == cache[WriteOffset] - Start
<1>1. t \in Threads /\ ReadsAt(at[t], op[t])
  BY Zenon DEF LogInv, Types, LockInv
<1>2. Descr(cache) /\ cache = media /\ cache \in [Locations -> Nat] /\ CallAt(at[t], op[t], loc[t])
  BY Zenon, <1>1, ReaderSees, CallTyped DEF LogInv, Types
<1>3. /\ C \in Seq(Nat) /\ Len(C) = n /\ n \in Nat
      /\ \A i \in 1 .. n : C[i] = cache[Start + i - 1]
  BY Zenon, <1>2, ContentsOpen
<1>4. WalkAt(at[t], op[t], loc[t], cache)
  BY Zenon, <1>1 DEF WalkInv
<1>5. op[t].kind = "walk" => ReadSoFar(loc[t], cache)
  <2>1. CASE op[t].kind = "walk" /\ at[t] = "walk"
    <3>1. out = <<>>
      BY Zenon, <1>2, <2>1, NoLocalsFields DEF CallAt
    <3> HIDE DEF out
    <3>2. out \in Seq(Nat) /\ Len(out) <= n /\ \A i \in 1 .. Len(out) : out[i] = cache[Start + i - 1]
      <4> HIDE DEF n
      <4> QED BY <1>3, <3>1
    <3> QED BY Zenon, <3>2 DEF ReadSoFar, out
  <2>2. CASE op[t].kind = "walk" /\ at[t] # "walk"
    <3>1. at[t] \in {"chunk", "unlock"}
      BY Zenon, <1>1, <1>2, <2>2 DEF ReadsAt, CallAt
    <3> QED BY Zenon, <1>4, <2>2, <3>1 DEF WalkAt
  <2> QED BY Zenon, <2>1, <2>2
<1>6. ASSUME op[t].kind = "walk"
      PROVE  /\ Len(out) <= Len(C) /\ out = SubSeq(C, 1, Len(out))
             /\ Len(out) = Len(C) => out = C
  <2>1. out \in Seq(Nat) /\ Len(out) <= n /\ \A i \in 1 .. Len(out) : out[i] = cache[Start + i - 1]
    BY Zenon, <1>5, <1>6 DEF ReadSoFar
  <2> HIDE DEF out, C, n
  <2>2. \A i \in 1 .. Len(out) : i \in 1 .. n /\ C[i] \in Nat
    BY <1>3, <2>1
  <2>3. \A i \in 1 .. Len(out) : out[i] = C[i]
    BY Zenon, <1>3, <2>1, <2>2
  <2> DEFINE s == SubSeq(C, 1, Len(out))
  <2>4. Len(out) \in Nat
    BY <2>1
  <2>5. s \in Seq(Nat) /\ Len(s) = Len(out) /\ \A i \in 1 .. Len(out) : s[i] = C[i]
    BY SMTT(20), <1>3, <2>1, <2>4
  <2> HIDE DEF s
  <2>6. out = s
    BY Zenon, <2>1, <2>3, <2>5, SeqEqual
  <2>7. Len(out) = Len(C) => out = C
    BY Zenon, <1>3, <2>1, <2>3, SeqEqual
  <2> QED BY Zenon, <1>3, <2>1, <2>6, <2>7 DEF s
<1>7. ASSUME op[t].kind = "walk", at[t] = "chunk", loc[t].pos >= loc[t].old
      PROVE  Len(out) = Len(C)
  <2>1. /\ loc[t].old = cache[WriteOffset]
        /\ Len(out) = (IF loc[t].pos < loc[t].old THEN loc[t].pos ELSE loc[t].old) - Start
    BY Zenon, <1>4, <1>7 DEF WalkAt
  <2>2. ~(loc[t].pos < loc[t].old)
    <3>1. loc[t].pos \in Nat /\ loc[t].old \in Nat
      BY Zenon, <1>2 DEF CallAt, LocalsTyped
    <3> QED BY <1>7, <3>1
  <2> QED BY Zenon, <1>3, <2>1, <2>2
<1>8. op[t].kind = "tell" /\ at[t] = "unlock" => loc[t].pos = Len(C)
  BY Zenon, <1>3, <1>4 DEF WalkAt
<1> QED BY Zenon, <1>6, <1>7, <1>8

\* A walk is given the log from its beginning and without gaps, and all of it
\* unless the callback ends it, and tell is its length (pmemlog_walk,
\* pmemlog_tell), for chunk sizes with which pos += chunksize does not wrap.
THEOREM ReadersGivenLog ==
  ASSUME ShortWalks
  PROVE  Spec => []ReadersSeeLog
<1>1. Init => WalkInv
  <2> SUFFICES ASSUME Init PROVE WalkInv
    OBVIOUS
  <2>1. \A t \in Threads : at[t] = "idle"
    BY Zenon DEF Init
  <2>2. \A t \in Threads : at[t] # "chunk" /\ at[t] # "unlock"
    BY Zenon, <2>1
  <2> QED BY Zenon, <2>2 DEF WalkInv, WalkAt
<1>2. LogInv /\ WalkInv /\ [LogNext]_vars => WalkInv'
  BY WalkKept
<1>3. LogInv /\ WalkInv => ReadersSeeLog
  <2> SUFFICES ASSUME LogInv, WalkInv PROVE ReadersSeeLog
    OBVIOUS
  <2> QED BY Zenon, GivenLog DEF ReadersSeeLog
<1> QED BY <1>1, <1>2, <1>3, LogInvariant, PTL DEF Spec
=============================================================================
