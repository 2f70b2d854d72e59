-------------------------- MODULE TxStages_proofs --------------------------
(***************************************************************************)
(* Proofs that the stage machine of tx.c keeps what its callers rely on,   *)
(* for any number of threads, locks and lanes, any nesting, and failures   *)
(* of any call: uncommitted writes stay locked, an abort reaches the       *)
(* outermost level, the callback sees the stages in order, and a lane is   *)
(* held exactly while a transaction is open.                               *)
(***************************************************************************)
EXTENDS TxStages, FiniteSetTheorems, TLAPS

(* The writes of the transaction are neither committed nor rolled back.    *)
Open(x) == x.stage = "WORK" \/ x.level > 1

(* The ends that the entries of the struct x ask for.                      *)
Due(x, p) == x.level + (IF p = "release" THEN 1 ELSE 0)

(* How the struct x of a thread at p, the ends c that its caller owes and  *)
(* the abort a of some level fit together.  The caller owes one end too    *)
(* many after a begin that made no entry, and then the transaction is      *)
(* aborted and never works again.                                          *)
Nested(x, p, c, a) ==
    /\ c \in {Due(x, p), Due(x, p) + 1}
    /\ c > Due(x, p) => x.stage # "WORK" /\ (x.level > 0 => a)
    /\ c = Due(x, p) => (x.lane <=> Open(x))
    /\ x.stage = "WORK" => x.level > 0
    /\ p \in {"begin", "lock"} => x.stage = "WORK"
    /\ p = "release" => x.level = 0
    /\ a /\ x.level > 0 => x.err /\ x.stage \notin {"WORK", "ONCOMMIT"}

(* The calls of the callback when the stages are over but for NONE.        *)
ToFinally == {<<"WORK", "ONCOMMIT", "FINALLY">>, <<"ONABORT", "FINALLY">>}

(* What the callback of the struct x has been called with: nothing while a *)
(* level is open, and then what the stage of the outermost level says.     *)
Heard(x, p, s) ==
    /\ Open(x) => s = <<>>
    /\ ~x.cb /\ (x.level > 0 \/ p = "release") => s = <<>>
    /\ x.cb /\ x.level = 1 /\ x.stage = "ONCOMMIT" => s = <<"WORK", "ONCOMMIT">>
    /\ x.cb /\ x.level = 1 /\ x.stage = "ONABORT" => s = <<"ONABORT">>
    /\ x.cb /\ x.level = 1 /\ x.stage \in {"FINALLY", "NONE"} => s \in ToFinally
    /\ x.cb /\ p = "release" => s \in ToFinally
    /\ x.level = 0 /\ p # "release" => ~x.cb /\ s \in CallbackRuns \cup {<<>>}

(* Only a transaction that is open has uncommitted writes, ...             *)
WritersOpen == \A l \in Locks : dirty[l] # NoThread => Open(tx[dirty[l]])

(* ... and, unless a lock call has failed, the locks on a list are its     *)
(* thread's.                                                               *)
ListsOwned ==
    fails = 0 => \A t \in Threads : \A l \in Range(tx[t].locks) : owner[l] = t

StagesInv ==
    /\ TypeOK
    /\ \A t \in Threads : /\ Nested(tx[t], pc[t], calls[t], aborted[t])
                          /\ Heard(tx[t], pc[t], seen[t])
    /\ WritersOpen /\ ListsOwned /\ Isolation

-----------------------------------------------------------------------------
(* The list of locks.                                                      *)

(* A lock that is not on the list goes to its front, ...                   *)
LEMMA ListGrows ==
    ASSUME NEW s \in Seq(Locks), NEW l \in Locks, IsInjective(s), l \notin Range(s)
    PROVE  /\ <<l>> \o s \in Seq(Locks) /\ IsInjective(<<l>> \o s)
           /\ Range(<<l>> \o s) = Range(s) \cup {l}
<1> DEFINE r == <<l>> \o s
<1>1. r \in Seq(Locks) /\ Len(r) = Len(s) + 1 /\ Len(s) \in Nat /\ r[1] = l
  OBVIOUS
<1>2. DOMAIN s = 1 .. Len(s) /\ DOMAIN r = 1 .. Len(s) + 1
  BY <1>1
<1>3. \A i \in 1 .. Len(s) : r[i + 1] = s[i]
  OBVIOUS
<1>4. \A i \in 2 .. Len(s) + 1 : i - 1 \in 1 .. Len(s) /\ r[i] = s[i - 1]
  BY <1>1, <1>3
<1> HIDE DEF r
<1>5. \A i \in 1 .. Len(s) : s[i] # l
  BY <1>2, Zenon DEF Range
<1>6. IsInjective(r)
  <2> SUFFICES ASSUME NEW i \in 1 .. Len(s) + 1, NEW j \in 1 .. Len(s) + 1, r[i] = r[j]
               PROVE  i = j
    BY <1>2, Zenon DEF IsInjective
  <2>1. CASE i = 1 \/ j = 1
    BY <1>1, <1>4, <1>5, <2>1
  <2>2. CASE i # 1 /\ j # 1
    <3>1. i - 1 \in 1 .. Len(s) /\ j - 1 \in 1 .. Len(s) /\ s[i - 1] = s[j - 1]
      BY <1>1, <1>4, <2>2
    <3> QED BY <1>1, <1>2, <3>1 DEF IsInjective
  <2> QED BY <2>1, <2>2, Zenon
<1>7. Range(r) \subseteq Range(s) \cup {l}
  BY <1>1, <1>2, <1>4 DEF Range
<1>8. Range(s) \cup {l} \subseteq Range(r)
  <2>1. l \in Range(r)
    BY <1>1, <1>2 DEF Range
  <2>2. ASSUME NEW k \in Range(s) PROVE k \in Range(r)
    <3>1. PICK i \in 1 .. Len(s) : k = s[i]
      BY <1>2, Zenon DEF Range
    <3> QED BY SMTT(20), <1>1, <1>2, <1>3, <3>1 DEF Range
  <2> QED BY <2>1, <2>2, Zenon
<1> QED
  BY <1>1, <1>6, <1>7, <1>8, Zenon DEF r

(* ... and the one at the front leaves it.                                 *)
LEMMA ListShrinks ==
    ASSUME NEW s \in Seq(Locks), s # <<>>, IsInjective(s)
    PROVE  /\ Tail(s) \in Seq(Locks) /\ IsInjective(Tail(s))
           /\ Head(s) \in Range(s) /\ Head(s) \in Locks
           /\ Range(Tail(s)) \subseteq Range(s) \ {Head(s)}
<1> DEFINE r == Tail(s)
<1>1. /\ r \in Seq(Locks) /\ Len(r) = Len(s) - 1 /\ Len(s) \in Nat \ {0}
      /\ Head(s) = s[1] /\ s[1] \in Locks
  OBVIOUS
<1>2. DOMAIN s = 1 .. Len(s) /\ DOMAIN r = 1 .. Len(s) - 1
  BY <1>1
<1>3. \A i \in 1 .. Len(s) - 1 : r[i] = s[i + 1]
  BY <1>1
<1> HIDE DEF r
<1>4. IsInjective(r)
  <2> SUFFICES ASSUME NEW i \in 1 .. Len(s) - 1, NEW j \in 1 .. Len(s) - 1, r[i] = r[j]
               PROVE  i = j
    BY <1>2, Zenon DEF IsInjective
  <2>1. i + 1 \in 1 .. Len(s) /\ j + 1 \in 1 .. Len(s) /\ s[i + 1] = s[j + 1]
    BY <1>1, <1>3
  <2> QED BY SMTT(20), <1>1, <1>2, <2>1 DEF IsInjective
<1>5. Head(s) \in Range(s)
  BY <1>1, <1>2 DEF Range
<1>6. ASSUME NEW k \in Range(r) PROVE k \in Range(s) /\ k # Head(s)
  <2>1. PICK i \in 1 .. Len(s) - 1 : k = r[i]
    BY <1>2, Zenon DEF Range
  <2>2. k = s[i + 1] /\ i + 1 \in 1 .. Len(s) /\ i + 1 # 1 /\ 1 \in 1 .. Len(s)
    BY <1>1, <1>3, <2>1
  <2> QED BY <1>1, <1>2, <2>2, Zenon DEF Range, IsInjective
<1> QED
  BY <1>1, <1>4, <1>5, <1>6, Zenon DEF r

-----------------------------------------------------------------------------
(* Short sequences, for the calls of the callback.                         *)

\* Sequences are equal when their elements are.
LEMMA SameSequence ==
    ASSUME NEW S, NEW r \in Seq(S), NEW s \in Seq(S), Len(r) = Len(s),
           \A i \in 1 .. Len(r) : r[i] = s[i]
    PROVE  r = s
OBVIOUS

\* Two stages.
LEMMA AppendToPair ==
    ASSUME NEW S, NEW a \in S, NEW b \in S
    PROVE  Append(<<a>>, b) = <<a, b>>
<1> DEFINE r == Append(<<a>>, b)
           s == <<a, b>>
<1>1. r \in Seq(S) /\ Len(r) = 2 /\ r[1] = a /\ r[2] = b
  OBVIOUS
<1>2. s \in Seq(S) /\ Len(s) = 2 /\ s[1] = a /\ s[2] = b
  OBVIOUS
<1> HIDE DEF r, s
<1>3. r = s
  BY <1>1, <1>2, SameSequence
<1> QED
  BY <1>3, Zenon DEF r, s

\* Three stages.
LEMMA AppendToTriple ==
    ASSUME NEW S, NEW a \in S, NEW b \in S, NEW c \in S
    PROVE  Append(<<a, b>>, c) = <<a, b, c>>
<1> DEFINE r == Append(<<a, b>>, c)
           s == <<a, b, c>>
<1>1. r \in Seq(S) /\ Len(r) = 3 /\ r[1] = a /\ r[2] = b /\ r[3] = c
  OBVIOUS
<1>2. s \in Seq(S) /\ Len(s) = 3 /\ s[1] = a /\ s[2] = b /\ s[3] = c
  OBVIOUS
<1> HIDE DEF r, s
<1>3. \A i \in 1 .. 3 : r[i] = s[i]
  BY <1>1, <1>2
<1>4. r = s
  BY <1>1, <1>2, <1>3, SameSequence, Zenon
<1> QED
  BY <1>4, Zenon DEF r, s

\* Four stages.
LEMMA AppendToQuadruple ==
    ASSUME NEW S, NEW a \in S, NEW b \in S, NEW c \in S, NEW d \in S
    PROVE  Append(<<a, b, c>>, d) = <<a, b, c, d>>
<1> DEFINE r == Append(<<a, b, c>>, d)
           s == <<a, b, c, d>>
<1>1. r \in Seq(S) /\ Len(r) = 4 /\ r[1] = a /\ r[2] = b /\ r[3] = c /\ r[4] = d
  OBVIOUS
<1>2. s \in Seq(S) /\ Len(s) = 4 /\ s[1] = a /\ s[2] = b /\ s[3] = c /\ s[4] = d
  OBVIOUS
<1> HIDE DEF r, s
<1>3. \A i \in 1 .. 4 : r[i] = s[i]
  BY <1>1, <1>2
<1>4. r = s
  BY <1>1, <1>2, <1>3, SameSequence, Zenon
<1> QED
  BY <1>4, Zenon DEF r, s

(* The callback is called with the next stage of its run.                  *)
LEMMA RunsGrow ==
    /\ Append(Append(<<>>, "WORK"), "ONCOMMIT") = <<"WORK", "ONCOMMIT">>
    /\ Append(<<"WORK", "ONCOMMIT">>, "FINALLY") \in ToFinally
    /\ Append(<<"ONABORT">>, "FINALLY") \in ToFinally
    /\ \A s \in ToFinally : Append(s, "NONE") \in CallbackRuns
<1>1. /\ "WORK" \in Stages /\ "ONCOMMIT" \in Stages /\ "ONABORT" \in Stages
      /\ "FINALLY" \in Stages /\ "NONE" \in Stages
  BY Zenon DEF Stages
<1>2. Append(<<>>, "WORK") = <<"WORK">>
  OBVIOUS
<1>3. Append(<<"WORK">>, "ONCOMMIT") = <<"WORK", "ONCOMMIT">>
  BY <1>1, AppendToPair, Zenon
<1>4. Append(<<"WORK", "ONCOMMIT">>, "FINALLY") = <<"WORK", "ONCOMMIT", "FINALLY">>
  BY <1>1, AppendToTriple, Zenon
<1>5. Append(<<"WORK", "ONCOMMIT", "FINALLY">>, "NONE") = <<"WORK", "ONCOMMIT", "FINALLY", "NONE">>
  BY <1>1, AppendToQuadruple
<1>6. Append(<<"ONABORT">>, "FINALLY") = <<"ONABORT", "FINALLY">>
  BY <1>1, AppendToPair, Zenon
<1>7. Append(<<"ONABORT", "FINALLY">>, "NONE") = <<"ONABORT", "FINALLY", "NONE">>
  BY <1>1, AppendToTriple, Zenon
<1> QED
  BY <1>2, <1>3, <1>4, <1>5, <1>6, <1>7, Zenon DEF ToFinally, CallbackRuns

\* The runs of stages that the invariant speaks of are sequences of stages.
LEMMA RunsAreStages ==
    ToFinally \cup CallbackRuns \cup {<<>>, <<"ONABORT">>, <<"WORK", "ONCOMMIT">>} \subseteq Seq(Stages)
<1>1. /\ <<>> \in Seq(Stages) /\ <<"ONABORT">> \in Seq(Stages)
      /\ <<"WORK", "ONCOMMIT">> \in Seq(Stages)
  BY DEF Stages
<1>2. <<"WORK", "ONCOMMIT", "FINALLY">> \in Seq(Stages) /\ <<"ONABORT", "FINALLY">> \in Seq(Stages)
  BY DEF Stages
<1>3. /\ <<"WORK", "ONCOMMIT", "FINALLY", "NONE">> \in Seq(Stages)
      /\ <<"ONABORT", "FINALLY", "NONE">> \in Seq(Stages)
  BY DEF Stages
<1> QED
  BY <1>1, <1>2, <1>3, Zenon DEF ToFinally, CallbackRuns

-----------------------------------------------------------------------------
(* What a step of one thread leaves alone.                                 *)

(* The fields of a struct.                                                 *)
LEMMA StructFields ==
    ASSUME NEW x \in Structs
    PROVE  /\ x.stage \in Stages /\ x.level \in 0 .. MaxDepth /\ x.lane \in BOOLEAN
           /\ x.err \in BOOLEAN /\ x.locks \in Seq(Locks) /\ x.cb \in BOOLEAN
BY Zenon DEF Structs

(* A caller never owes more ends than the bound on its count.              *)
LEMMA CallsBound ==
    ASSUME NEW x \in Structs, NEW p, NEW c, NEW a, Nested(x, p, c, a)
    PROVE  c \in 0 .. MaxDepth + 1
BY StructFields, StagesAssumption DEF Nested, Due

OthersKeep(t) ==
    \A u \in Threads \ {t} :
        /\ tx'[u] = tx[u] /\ pc'[u] = pc[u] /\ calls'[u] = calls[u]
        /\ seen'[u] = seen[u] /\ aborted'[u] = aborted[u]

(* No write is added, and those that stay of this thread are of a          *)
(* transaction that stays open.                                            *)
DirtKept(t) ==
    \A l \in Locks : dirty'[l] # NoThread =>
        dirty'[l] = dirty[l] /\ (dirty[l] = t => Open(tx'[t]))

(* No lock is added to the list, and none changes its owner; or a lock     *)
(* call fails.                                                             *)
LocksKept(t) ==
    \/ fails' # 0
    \/ owner' = owner /\ fails' = fails /\ Range(tx'[t].locks) \subseteq Range(tx[t].locks)

(* The thread takes a lane only if one is free.                            *)
LaneStep(t) == OthersKeep(t) /\ (LaneFree \/ (tx'[t].lane => tx[t].lane))

Kept(t) == StagesInv' /\ LaneStep(t)

(* The invariant, thread by thread.                                        *)
LEMMA ThreadStep ==
    ASSUME StagesInv, NEW t \in Threads, TypeOK', OthersKeep(t), LaneStep(t),
           WritersOpen', ListsOwned', Isolation',
           Nested(tx'[t], pc'[t], calls'[t], aborted'[t]),
           Heard(tx'[t], pc'[t], seen'[t])
    PROVE  Kept(t)
<1>1. \A u \in Threads : /\ Nested(tx'[u], pc'[u], calls'[u], aborted'[u])
                         /\ Heard(tx'[u], pc'[u], seen'[u])
  BY Zenon DEF StagesInv, OthersKeep
<1> QED
  BY <1>1, Zenon DEF StagesInv, Kept

\* What others have written stays theirs.
LEMMA WritersKept ==
    ASSUME StagesInv, NEW t \in Threads, OthersKeep(t), DirtKept(t)
    PROVE  WritersOpen'
<1> SUFFICES ASSUME NEW l \in Locks, dirty'[l] # NoThread PROVE Open(tx'[dirty'[l]])
  BY Zenon DEF WritersOpen
<1>1. dirty'[l] = dirty[l] /\ (dirty[l] = t => Open(tx'[t]))
  BY Zenon DEF DirtKept
<1>2. dirty[l] \in Threads /\ Open(tx[dirty[l]])
  BY <1>1, Zenon DEF StagesInv, TypeOK, WritersOpen
<1> QED
  BY <1>1, <1>2, Zenon DEF OthersKeep

(* A step that takes no lock and writes nothing.                           *)
LEMMA StageStep ==
    ASSUME StagesInv, NEW t \in Threads, TypeOK', OthersKeep(t), LaneStep(t),
           DirtKept(t), LocksKept(t),
           Nested(tx'[t], pc'[t], calls'[t], aborted'[t]),
           Heard(tx'[t], pc'[t], seen'[t])
    PROVE  Kept(t)
<1>1. WritersOpen'
  BY WritersKept, Zenon
<1>2. ListsOwned'
  BY DEF StagesInv, ListsOwned, LocksKept, OthersKeep
<1>3. Isolation'
  BY Zenon DEF StagesInv, Isolation, LocksKept, DirtKept
<1> QED
  BY <1>1, <1>2, <1>3, ThreadStep, Zenon

-----------------------------------------------------------------------------
(* Init.                                                                   *)

\* The transaction structure of a thread outside any transaction.
LEMMA IdleIsStruct == Idle \in Structs
BY StagesAssumption DEF Idle, Structs, Stages

\* The invariant holds at the start.
LEMMA InitStages == Init => StagesInv
<1> SUFFICES ASSUME Init PROVE StagesInv
  BY Zenon
<1>1. Idle \in Structs /\ IsInjective(Idle.locks)
  BY StagesAssumption DEF Idle, Structs, Stages, IsInjective
<1>2. TypeOK
  <2>1. tx \in [Threads -> Structs] /\ \A t \in Threads : IsInjective(tx[t].locks)
    BY <1>1, Zenon DEF Init
  <2>2. /\ pc \in [Threads -> {"run", "begin", "lock", "release"}]
        /\ todo \in [Threads -> Seq(Locks)] /\ seen \in [Threads -> Seq(Stages)]
        /\ aborted \in [Threads -> BOOLEAN]
    BY DEF Init
  <2>3. /\ calls \in [Threads -> 0..MaxDepth + 1] /\ begins \in [Threads -> Nat]
        /\ \A t \in Threads : begins[t] <= MaxBegins[t]
        /\ fails \in 0..MaxFails /\ lost \in 0..MaxFails /\ dead \in BOOLEAN
    <3>1. \A t \in Threads : 0 <= MaxBegins[t]
      BY StagesAssumption
    <3>2. 0 \in 0..MaxDepth + 1 /\ 0 \in 0..MaxFails /\ 0 \in Nat
      BY StagesAssumption
    <3> QED BY <3>1, <3>2, Zenon DEF Init
  <2>4. /\ owner \in [Locks -> Threads \cup {NoThread}]
        /\ dirty \in [Locks -> Threads \cup {NoThread}]
    BY Zenon DEF Init
  <2> QED BY <2>1, <2>2, <2>3, <2>4, Zenon DEF TypeOK
<1>3. \A t \in Threads : /\ Nested(tx[t], pc[t], calls[t], aborted[t])
                         /\ Heard(tx[t], pc[t], seen[t])
  BY DEF Init, Idle, Nested, Heard, Open, Due
<1>4. WritersOpen /\ Isolation
  BY Zenon DEF Init, WritersOpen, Isolation
<1>5. ListsOwned
  BY DEF Init, Idle, ListsOwned, Range
<1> QED
  BY <1>2, <1>3, <1>4, <1>5, Zenon DEF StagesInv

-----------------------------------------------------------------------------
(* obj_tx_abort.                                                           *)

\* obj_tx_abort, from whichever call: to ONABORT, on every level.
LEMMA Aborts ==
    ASSUME StagesInv, NEW t \in Threads, NEW x \in Structs, x.level > 0,
           AbortLevel(t, x, <<>>), pc'[t] = "run",
           calls'[t] \in {x.level, x.level + 1}, calls'[t] = x.level => x.lane
    PROVE  /\ tx' \in [Threads -> Structs]
           /\ tx'[t].locks = x.locks /\ (tx'[t].lane => x.lane)
           /\ \A u \in Threads \ {t} :
                 tx'[u] = tx[u] /\ seen'[u] = seen[u] /\ aborted'[u] = aborted[u]
           /\ seen' \in [Threads -> Seq(Stages)] /\ aborted' \in [Threads -> BOOLEAN]
           /\ dirty' \in [Locks -> Threads \cup {NoThread}]
           /\ DirtKept(t)
           /\ Nested(tx'[t], pc'[t], calls'[t], aborted'[t])
           /\ Heard(tx'[t], pc'[t], seen'[t])
<1> DEFINE y == [x EXCEPT !.stage = "ONABORT", !.err = TRUE, !.lane = x.lane /\ ~Outermost(x)]
<1>1. /\ tx \in [Threads -> Structs] /\ seen \in [Threads -> Seq(Stages)]
      /\ aborted \in [Threads -> BOOLEAN] /\ dirty \in [Locks -> Threads \cup {NoThread}]
  BY Zenon DEF StagesInv, TypeOK
<1>2. /\ y \in Structs /\ y.stage = "ONABORT" /\ y.level = x.level /\ y.err
      /\ y.lane = (x.lane /\ ~Outermost(x)) /\ y.locks = x.locks /\ y.cb = x.cb
  BY Zenon DEF Structs, Stages
<1> HIDE DEF y
<1>3. tx' = [tx EXCEPT ![t] = y]
  BY Zenon DEF AbortLevel, y
<1>4. tx' \in [Threads -> Structs] /\ tx'[t] = y /\ \A u \in Threads \ {t} : tx'[u] = tx[u]
  BY <1>1, <1>2, <1>3, Zenon
<1>5. Called(x, <<>>, "ONABORT") = IF x.cb /\ x.level = 1 THEN <<"ONABORT">> ELSE <<>>
  BY DEF Called, Outermost
<1>6. Called(x, <<>>, "ONABORT") \in Seq(Stages)
  BY <1>5, RunsAreStages, Zenon
<1>7. seen' = [seen EXCEPT ![t] = Called(x, <<>>, "ONABORT")] /\ aborted' = [aborted EXCEPT ![t] = TRUE]
  BY Zenon DEF AbortLevel
<1>8. /\ seen' \in [Threads -> Seq(Stages)] /\ seen'[t] = Called(x, <<>>, "ONABORT")
      /\ \A u \in Threads \ {t} : seen'[u] = seen[u]
  BY <1>1, <1>6, <1>7, Zenon
<1>9. /\ aborted' \in [Threads -> BOOLEAN] /\ aborted'[t] = TRUE
      /\ \A u \in Threads \ {t} : aborted'[u] = aborted[u]
  BY <1>1, <1>7, Zenon
<1>10. dirty' \in [Locks -> Threads \cup {NoThread}] /\ DirtKept(t)
  <2>1. CASE Outermost(x)
    <3>1. dirty' = [l \in Locks |-> IF dirty[l] = t THEN NoThread ELSE dirty[l]]
      BY <2>1, Zenon DEF AbortLevel
    <3> QED BY <1>1, <3>1, Zenon DEF DirtKept
  <2>2. CASE ~Outermost(x)
    <3>1. dirty' = dirty
      BY <2>2, Zenon DEF AbortLevel
    <3>2. Open(y)
      BY <1>2, <2>2, StructFields DEF Open, Outermost
    <3> QED BY <1>1, <1>4, <3>1, <3>2, Zenon DEF DirtKept
  <2> QED BY <2>1, <2>2, Zenon
<1>11. Nested(y, "run", calls'[t], TRUE)
  BY <1>2, StructFields DEF Nested, Due, Open, Outermost
<1>12. Heard(y, "run", Called(x, <<>>, "ONABORT"))
  BY <1>2, <1>5, StructFields DEF Heard, Open
<1>13. tx'[t].locks = x.locks /\ (tx'[t].lane => x.lane)
  BY <1>2, <1>4, Zenon
<1> QED
  BY <1>4, <1>8, <1>9, <1>10, <1>11, <1>12, <1>13, Zenon

-----------------------------------------------------------------------------
(* pmemobj_tx_begin.                                                       *)

(* The locks that a begin names are locks.                                 *)
LEMMA ParamsAreLocks ==
    ASSUME StagesInv, NEW t \in Threads
    PROVE  Params(t) \subseteq Seq(Locks)
<1> DEFINE named == NewLocks(t) \cup Range(tx[t].locks)
<1>1. tx[t].locks \in Seq(Locks)
  BY StructFields, Zenon DEF StagesInv, TypeOK
<1>2. named \subseteq Locks
  BY <1>1 DEF NewLocks, Range
<1>3. Params(t) = {<<>>} \cup {<<l>> : l \in named} \cup {p \in named \X named : p[1] < p[2]}
  BY Zenon DEF Params
<1> HIDE DEF named
<1> SUFFICES ASSUME NEW p \in Params(t) PROVE p \in Seq(Locks)
  BY Zenon
<1>4. p = <<>> \/ (\E l \in named : p = <<l>>) \/ p \in named \X named
  BY <1>3, Zenon
<1>5. CASE p = <<>>
  BY <1>5
<1>6. ASSUME NEW l \in named, p = <<l>> PROVE p \in Seq(Locks)
  BY <1>2, <1>6
<1>7. CASE p \in named \X named
  <2>1. PICK k \in named, l \in named : p = <<k, l>>
    BY <1>7
  <2>2. k \in Locks /\ l \in Locks
    BY <1>2, Zenon
  <2> QED BY <2>1, <2>2
<1> QED
  BY <1>4, <1>5, <1>6, <1>7, Zenon

(* An empty list.                                                          *)
LEMMA EmptyList == Range(<<>>) = {} /\ IsInjective(<<>>)
BY DEF Range, IsInjective

(* A begin is counted.                                                     *)
LEMMA BeginCounted ==
    ASSUME TypeOK, NEW t \in Threads, begins[t] < MaxBegins[t],
           begins' = [begins EXCEPT ![t] = begins[t] + 1]
    PROVE  begins' \in [Threads -> Nat] /\ \A u \in Threads : begins'[u] <= MaxBegins[u]
<1>1. begins \in [Threads -> Nat] /\ \A u \in Threads : begins[u] <= MaxBegins[u]
  BY Zenon DEF TypeOK
<1>2. begins[t] \in Nat /\ MaxBegins[t] \in Nat
  BY <1>1, StagesAssumption, Zenon
<1>3. begins[t] + 1 \in Nat /\ begins[t] + 1 <= MaxBegins[t]
  BY <1>2
<1> QED
  BY <1>1, <1>3, Zenon

\* pmemobj_tx_begin of the outermost level.
LEMMA BeginOuterKeeps ==
    ASSUME StagesInv, NEW t \in Threads, BeginOuter(t)
    PROVE  Kept(t)
<1>1. PICK cb \in BOOLEAN, ps \in Params(t) :
          /\ tx' = [tx EXCEPT ![t] = [Idle EXCEPT !.stage = "WORK", !.lane = TRUE,
                                       !.level = 1, !.cb = cb /\ t \in Observed]]
          /\ todo' = [todo EXCEPT ![t] = ps]
  BY Zenon DEF BeginOuter
<1> DEFINE y == [Idle EXCEPT !.stage = "WORK", !.lane = TRUE, !.level = 1,
                             !.cb = cb /\ t \in Observed]
<1>2. y \in Structs /\ y.stage = "WORK" /\ y.level = 1 /\ y.lane /\ y.locks = <<>>
  <2>1. 1 \in 0..MaxDepth /\ (cb /\ t \in Observed) \in BOOLEAN
    BY StagesAssumption
  <2>2. y \in Structs
    BY IdleIsStruct, <2>1, Zenon DEF Structs, Stages
  <2>3. y.stage = "WORK" /\ y.level = 1 /\ y.lane /\ y.locks = <<>>
    BY Zenon DEF Idle
  <2> QED BY <2>2, <2>3, Zenon
<1>3. tx' = [tx EXCEPT ![t] = y]
  BY <1>1, Zenon
<1> HIDE DEF y
<1>4. TypeOK
  BY Zenon DEF StagesInv
<1>5. tx' \in [Threads -> Structs] /\ tx'[t] = y /\ \A u \in Threads \ {t} : tx'[u] = tx[u]
  BY <1>2, <1>3, <1>4, Zenon DEF TypeOK
<1>6. /\ pc' \in [Threads -> {"run", "begin", "lock", "release"}] /\ pc'[t] = "begin"
      /\ \A u \in Threads \ {t} : pc'[u] = pc[u]
  BY <1>4, Zenon DEF TypeOK, BeginOuter
<1>7. /\ calls' \in [Threads -> 0..MaxDepth + 1] /\ calls'[t] = 1
      /\ \A u \in Threads \ {t} : calls'[u] = calls[u]
  <2>1. 1 \in 0..MaxDepth + 1
    BY StagesAssumption
  <2> QED BY <1>4, <2>1, Zenon DEF TypeOK, BeginOuter
<1>8. /\ seen' \in [Threads -> Seq(Stages)] /\ seen'[t] = <<>>
      /\ \A u \in Threads \ {t} : seen'[u] = seen[u]
  BY <1>4 DEF TypeOK, BeginOuter
<1>9. /\ aborted' \in [Threads -> BOOLEAN] /\ aborted'[t] = FALSE
      /\ \A u \in Threads \ {t} : aborted'[u] = aborted[u]
  BY <1>4, Zenon DEF TypeOK, BeginOuter
<1>10. OthersKeep(t)
  BY <1>5, <1>6, <1>7, <1>8, <1>9, Zenon DEF OthersKeep
<1>11. TypeOK'
  <2>1. todo' \in [Threads -> Seq(Locks)]
    <3>1. ps \in Seq(Locks)
      BY <1>1, ParamsAreLocks, Zenon
    <3> QED BY <1>1, <1>4, <3>1, Zenon DEF TypeOK
  <2>2. begins' \in [Threads -> Nat] /\ \A u \in Threads : begins'[u] <= MaxBegins[u]
    BY <1>4, BeginCounted, Zenon DEF BeginOuter
  <2>3. \A u \in Threads : IsInjective(tx'[u].locks)
    <3>1. IsInjective(y.locks)
      BY <1>2, EmptyList, Zenon
    <3> QED BY <1>4, <1>5, <3>1, Zenon DEF TypeOK
  <2> QED BY <1>4, <1>5, <1>6, <1>7, <1>8, <1>9, <2>1, <2>2, <2>3, Zenon DEF TypeOK, BeginOuter
<1>12. Nested(y, "begin", 1, FALSE) /\ Heard(y, "begin", <<>>)
  BY <1>2, StructFields DEF Nested, Heard, Open, Due
<1>13. LaneStep(t)
  BY <1>10, Zenon DEF LaneStep, BeginOuter
<1>14. DirtKept(t)
  BY <1>2, <1>5, Zenon DEF DirtKept, Open, BeginOuter
<1>15. LocksKept(t)
  BY <1>2, <1>5, EmptyList, Zenon DEF LocksKept, BeginOuter
<1> QED
  BY <1>5, <1>6, <1>7, <1>8, <1>9, <1>10, <1>11, <1>12, <1>13, <1>14, <1>15, StageStep, Zenon

\* pmemobj_tx_begin of the outermost level fails.
LEMMA BeginOuterFailsKeeps ==
    ASSUME StagesInv, NEW t \in Threads, BeginOuterFails(t)
    PROVE  Kept(t)
<1> DEFINE y == [Idle EXCEPT !.stage = "ONABORT", !.lane = TRUE, !.err = tx[t].err]
<1>1. TypeOK
  BY Zenon DEF StagesInv
<1>2. tx[t] \in Structs
  BY <1>1, Zenon DEF TypeOK
<1>3. y \in Structs /\ y.stage = "ONABORT" /\ y.level = 0 /\ y.lane /\ y.locks = <<>> /\ ~y.cb
  <2>1. tx[t].err \in BOOLEAN
    BY <1>2, StructFields, Zenon
  <2>2. y \in Structs
    BY IdleIsStruct, <2>1, Zenon DEF Structs, Stages
  <2>3. y.stage = "ONABORT" /\ y.level = 0 /\ y.lane /\ y.locks = <<>> /\ ~y.cb
    BY Zenon DEF Idle
  <2> QED BY <2>2, <2>3, Zenon
<1>4. tx' = [tx EXCEPT ![t] = y]
  BY Zenon DEF BeginOuterFails
<1> HIDE DEF y
<1>5. tx' \in [Threads -> Structs] /\ tx'[t] = y /\ \A u \in Threads \ {t} : tx'[u] = tx[u]
  BY <1>1, <1>3, <1>4, Zenon DEF TypeOK
<1>6. /\ calls' \in [Threads -> 0..MaxDepth + 1] /\ calls'[t] = 1
      /\ \A u \in Threads \ {t} : calls'[u] = calls[u]
  <2>1. 1 \in 0..MaxDepth + 1
    BY StagesAssumption
  <2> QED BY <1>1, <2>1, Zenon DEF TypeOK, BeginOuterFails
<1>7. /\ seen' \in [Threads -> Seq(Stages)] /\ seen'[t] = <<>>
      /\ \A u \in Threads \ {t} : seen'[u] = seen[u]
  BY <1>1 DEF TypeOK, BeginOuterFails
<1>8. /\ aborted' \in [Threads -> BOOLEAN] /\ aborted'[t] = FALSE
      /\ \A u \in Threads \ {t} : aborted'[u] = aborted[u]
  BY <1>1, Zenon DEF TypeOK, BeginOuterFails
<1>9. pc' = pc /\ pc[t] = "run"
  BY Zenon DEF BeginOuterFails, Running
<1>10. OthersKeep(t)
  BY <1>5, <1>6, <1>7, <1>8, <1>9, Zenon DEF OthersKeep
<1>11. TypeOK'
  <2>1. begins' \in [Threads -> Nat] /\ \A u \in Threads : begins'[u] <= MaxBegins[u]
    BY <1>1, BeginCounted, Zenon DEF BeginOuterFails
  <2>2. lost' \in 0..MaxFails
    BY SMTT(20), <1>1, StagesAssumption DEF TypeOK, BeginOuterFails
  <2>3. \A u \in Threads : IsInjective(tx'[u].locks)
    <3>1. IsInjective(y.locks)
      BY <1>3, EmptyList, Zenon
    <3> QED BY <1>1, <1>5, <3>1, Zenon DEF TypeOK
  <2> QED BY <1>1, <1>5, <1>6, <1>7, <1>8, <2>1, <2>2, <2>3, Zenon DEF TypeOK, BeginOuterFails
<1>12. Nested(y, "run", 1, FALSE) /\ Heard(y, "run", <<>>)
  BY <1>3, StructFields DEF Nested, Heard, Open, Due
<1>13. LaneStep(t)
  BY <1>10, Zenon DEF LaneStep, BeginOuterFails
<1>14. DirtKept(t)
  <2>1. ~Open(tx[t])
    BY <1>2, StructFields DEF StagesInv, Nested, Due, Open, BeginOuterFails, Running
  <2> QED BY <2>1, Zenon DEF StagesInv, WritersOpen, DirtKept, BeginOuterFails
<1>15. LocksKept(t)
  BY <1>3, <1>5, EmptyList, Zenon DEF LocksKept, BeginOuterFails
<1> QED
  BY <1>5, <1>6, <1>7, <1>8, <1>9, <1>10, <1>11, <1>12, <1>13, <1>14, <1>15, StageStep, Zenon

(* A thread in stage WORK.                                                 *)
LEMMA AtWork ==
    ASSUME StagesInv, NEW t \in Threads, tx[t].stage = "WORK"
    PROVE  /\ tx[t] \in Structs /\ tx[t].level \in 1 .. MaxDepth /\ tx[t].lane
           /\ calls[t] = tx[t].level /\ pc[t] # "release" /\ aborted[t] = FALSE
           /\ seen[t] = <<>> /\ Open(tx[t])
<1>1. tx[t] \in Structs /\ pc[t] \in {"run", "begin", "lock", "release"} /\ aborted[t] \in BOOLEAN
  BY Zenon DEF StagesInv, TypeOK
<1>2. Nested(tx[t], pc[t], calls[t], aborted[t]) /\ Heard(tx[t], pc[t], seen[t])
  BY Zenon DEF StagesInv
<1>3. tx[t].level \in 1 .. MaxDepth
  BY <1>1, <1>2, StructFields DEF Nested
<1>4. pc[t] # "release"
  BY <1>2, <1>3 DEF Nested
<1>5. calls[t] = tx[t].level
  BY <1>2, <1>3, <1>4 DEF Nested, Due
<1>6. tx[t].lane
  BY <1>2, <1>4, <1>5, <1>3 DEF Nested, Due, Open
<1>7. aborted[t] = FALSE
  BY <1>1, <1>2, <1>3, Zenon DEF Nested
<1>8. seen[t] = <<>> /\ Open(tx[t])
  BY <1>2, Zenon DEF Heard, Open
<1> QED
  BY <1>1, <1>3, <1>4, <1>5, <1>6, <1>7, <1>8, Zenon

\* pmemobj_tx_begin of an inner level.
LEMMA BeginInnerKeeps ==
    ASSUME StagesInv, NEW t \in Threads, BeginInner(t)
    PROVE  Kept(t)
<1>1. PICK cb \in BOOLEAN, ps \in Params(t) :
          /\ tx' = [tx EXCEPT ![t].level = @ + 1, ![t].err = FALSE,
                              ![t].cb = @ \/ (cb /\ t \in Observed)]
          /\ todo' = [todo EXCEPT ![t] = ps]
  BY Zenon DEF BeginInner
<1>2. TypeOK
  BY Zenon DEF StagesInv
<1>3. /\ tx[t].stage = "WORK" /\ tx[t].level < MaxDepth /\ pc[t] = "run"
      /\ tx[t] \in Structs /\ tx[t].level \in 1 .. MaxDepth /\ tx[t].lane
      /\ calls[t] = tx[t].level /\ aborted[t] = FALSE /\ seen[t] = <<>>
  BY AtWork, Zenon DEF BeginInner, Running
<1> DEFINE y == [tx[t] EXCEPT !.level = tx[t].level + 1, !.err = FALSE,
                              !.cb = tx[t].cb \/ (cb /\ t \in Observed)]
<1>4. y \in Structs
  <2>1. tx[t].level + 1 \in 0..MaxDepth
    BY <1>3, StagesAssumption
  <2>2. (tx[t].cb \/ (cb /\ t \in Observed)) \in BOOLEAN
    BY Zenon
  <2> QED BY <1>3, <2>1, <2>2, Zenon DEF Structs
<1>5. y.stage = "WORK" /\ y.level = tx[t].level + 1 /\ y.lane /\ y.locks = tx[t].locks
  BY <1>3, Zenon DEF Structs
<1>6. tx' = [tx EXCEPT ![t] = y]
  BY <1>1, <1>2, <1>3, Zenon DEF TypeOK, Structs
<1> HIDE DEF y
<1>7. tx' \in [Threads -> Structs] /\ tx'[t] = y /\ \A u \in Threads \ {t} : tx'[u] = tx[u]
  BY <1>2, <1>4, <1>6, Zenon DEF TypeOK
<1>8. /\ pc' \in [Threads -> {"run", "begin", "lock", "release"}] /\ pc'[t] = "begin"
      /\ \A u \in Threads \ {t} : pc'[u] = pc[u]
  BY <1>2, Zenon DEF TypeOK, BeginInner
<1>9. /\ calls' \in [Threads -> 0..MaxDepth + 1] /\ calls'[t] = tx[t].level + 1
      /\ \A u \in Threads \ {t} : calls'[u] = calls[u]
  <2>1. calls[t] + 1 \in 0..MaxDepth + 1
    BY <1>3, StagesAssumption
  <2> QED BY <1>2, <1>3, <2>1, Zenon DEF TypeOK, BeginInner
<1>10. seen' = seen /\ aborted' = aborted
  BY Zenon DEF BeginInner
<1>11. OthersKeep(t)
  BY <1>7, <1>8, <1>9, <1>10, Zenon DEF OthersKeep
<1>12. TypeOK'
  <2>1. todo' \in [Threads -> Seq(Locks)]
    <3>1. ps \in Seq(Locks)
      BY <1>1, ParamsAreLocks, Zenon
    <3> QED BY <1>1, <1>2, <3>1, Zenon DEF TypeOK
  <2>2. begins' \in [Threads -> Nat] /\ \A u \in Threads : begins'[u] <= MaxBegins[u]
    BY <1>2, BeginCounted, Zenon DEF BeginInner
  <2>3. \A u \in Threads : IsInjective(tx'[u].locks)
    BY <1>2, <1>5, <1>7, Zenon DEF TypeOK
  <2> QED BY <1>2, <1>7, <1>8, <1>9, <2>1, <2>2, <2>3, Zenon DEF TypeOK, BeginInner
<1>13. Nested(y, "begin", tx[t].level + 1, FALSE) /\ Heard(y, "begin", <<>>)
  BY <1>3, <1>5 DEF Nested, Heard, Open, Due
<1>14. LaneStep(t)
  BY <1>3, <1>11, Zenon DEF LaneStep
<1>15. DirtKept(t)
  BY <1>5, <1>7, Zenon DEF DirtKept, Open, BeginInner
<1>16. LocksKept(t)
  BY <1>5, <1>7, Zenon DEF LocksKept, BeginInner
<1> QED
  BY <1>3, <1>7, <1>8, <1>9, <1>10, <1>11, <1>12, <1>13, <1>14, <1>15, <1>16, StageStep, Zenon

\* pmemobj_tx_begin of an inner level fails.
LEMMA BeginInnerFailsKeeps ==
    ASSUME StagesInv, NEW t \in Threads, BeginInnerFails(t)
    PROVE  Kept(t)
<1>1. TypeOK
  BY Zenon DEF StagesInv
<1>2. /\ pc[t] = "run" /\ tx[t] \in Structs /\ tx[t].level \in 1 .. MaxDepth /\ tx[t].lane
      /\ calls[t] = tx[t].level /\ seen[t] = <<>>
  BY AtWork, Zenon DEF BeginInnerFails, Running
<1>3. /\ calls' \in [Threads -> 0..MaxDepth + 1]
      /\ calls'[t] \in {tx[t].level, tx[t].level + 1}
      /\ \A u \in Threads \ {t} : calls'[u] = calls[u]
  <2>1. PICK env \in BOOLEAN : calls' = [calls EXCEPT ![t] = IF env THEN @ ELSE @ + 1]
    BY Zenon DEF BeginInnerFails
  <2>2. calls[t] + 1 \in 0..MaxDepth + 1
    BY <1>2, StagesAssumption
  <2> QED BY <1>1, <1>2, <2>1, <2>2, Zenon DEF TypeOK
<1>4. pc' = pc /\ AbortLevel(t, tx[t], <<>>)
  BY <1>2, Zenon DEF BeginInnerFails
<1>5. tx[t].level > 0
  BY <1>2, StagesAssumption
<1>6. /\ tx' \in [Threads -> Structs]
      /\ tx'[t].locks = tx[t].locks /\ (tx'[t].lane => tx[t].lane)
      /\ \A u \in Threads \ {t} :
            tx'[u] = tx[u] /\ seen'[u] = seen[u] /\ aborted'[u] = aborted[u]
      /\ seen' \in [Threads -> Seq(Stages)] /\ aborted' \in [Threads -> BOOLEAN]
      /\ dirty' \in [Locks -> Threads \cup {NoThread}]
      /\ DirtKept(t)
      /\ Nested(tx'[t], pc'[t], calls'[t], aborted'[t])
      /\ Heard(tx'[t], pc'[t], seen'[t])
  BY <1>2, <1>3, <1>4, <1>5, Aborts, Zenon
<1>7. OthersKeep(t)
  BY <1>3, <1>4, <1>6, Zenon DEF OthersKeep
<1>8. TypeOK'
  <2>1. begins' \in [Threads -> Nat] /\ \A u \in Threads : begins'[u] <= MaxBegins[u]
    BY <1>1, BeginCounted, Zenon DEF BeginInnerFails
  <2>2. lost' \in 0..MaxFails
    BY <1>1, StagesAssumption DEF TypeOK, BeginInnerFails
  <2>3. \A u \in Threads : IsInjective(tx'[u].locks)
    BY <1>1, <1>6, Zenon DEF TypeOK
  <2> QED BY <1>1, <1>3, <1>6, <2>1, <2>2, <2>3, Zenon DEF TypeOK, BeginInnerFails
<1>9. LaneStep(t)
  BY <1>6, <1>7, Zenon DEF LaneStep
<1>10. LocksKept(t)
  BY <1>6, Zenon DEF LocksKept, BeginInnerFails
<1> QED
  BY <1>6, <1>7, <1>8, <1>9, <1>10, StageStep, Zenon

-----------------------------------------------------------------------------
(* add_to_tx_and_lock.                                                     *)

(* In stage WORK a thread may enter and leave the calls that lock.         *)
LEMMA WorkAnywhere ==
    ASSUME StagesInv, NEW t \in Threads, tx[t].stage = "WORK",
           NEW p \in {"run", "begin", "lock"}
    PROVE  Nested(tx[t], p, calls[t], aborted[t]) /\ Heard(tx[t], p, seen[t])
<1>1. /\ tx[t].level \in 1 .. MaxDepth /\ tx[t].lane /\ Open(tx[t])
      /\ calls[t] = tx[t].level /\ aborted[t] = FALSE /\ seen[t] = <<>>
  BY AtWork, Zenon
<1> QED
  BY <1>1 DEF Nested, Heard, Due

(* A step that changes only where the thread is and what it has to lock.   *)
LEMMA LockingStep ==
    ASSUME StagesInv, NEW t \in Threads, tx[t].stage = "WORK",
           NEW p \in {"run", "begin", "lock"}, pc' = [pc EXCEPT ![t] = p],
           todo' \in [Threads -> Seq(Locks)],
           UNCHANGED <<tx, owner, dirty, calls, begins, fails, lost, dead, seen, aborted>>
    PROVE  Kept(t)
<1>1. TypeOK
  BY Zenon DEF StagesInv
<1>2. /\ pc' \in [Threads -> {"run", "begin", "lock", "release"}] /\ pc'[t] = p
      /\ \A u \in Threads \ {t} : pc'[u] = pc[u]
  BY <1>1, Zenon DEF TypeOK
<1>3. TypeOK'
  BY <1>1, <1>2, Zenon DEF TypeOK
<1>4. OthersKeep(t)
  BY <1>2, Zenon DEF OthersKeep
<1>5. Nested(tx'[t], pc'[t], calls'[t], aborted'[t]) /\ Heard(tx'[t], pc'[t], seen'[t])
  BY <1>2, WorkAnywhere, Zenon
<1>6. LaneStep(t)
  BY <1>4, Zenon DEF LaneStep
<1>7. DirtKept(t) /\ LocksKept(t)
  BY Zenon DEF DirtKept, LocksKept, Open
<1> QED
  BY <1>3, <1>4, <1>5, <1>6, <1>7, StageStep, Zenon

\* pmemobj_tx_lock starts.
LEMMA TxLockKeeps ==
    ASSUME StagesInv, NEW t \in Threads, TxLock(t)
    PROVE  Kept(t)
<1>1. PICK l \in NewLocks(t) : todo' = [todo EXCEPT ![t] = <<l>>]
  BY Zenon DEF TxLock
<1>2. <<l>> \in Seq(Locks)
  BY DEF NewLocks
<1>3. todo' \in [Threads -> Seq(Locks)]
  BY <1>1, <1>2, Zenon DEF StagesInv, TypeOK
<1> QED
  BY <1>3, LockingStep, Zenon DEF TxLock

(* A thread inside a call that locks is in stage WORK.                     *)
LEMMA LockingAtWork ==
    ASSUME StagesInv, NEW t \in Threads, Locking(t)
    PROVE  tx[t].stage = "WORK" /\ pc[t] \in {"begin", "lock"}
BY Zenon DEF StagesInv, Nested, Locking

\* add_to_tx_and_lock of a lock that the transaction has.
LEMMA SkipLockKeeps ==
    ASSUME StagesInv, NEW t \in Threads, SkipLock(t)
    PROVE  Kept(t)
<1>1. TypeOK
  BY Zenon DEF StagesInv
<1>2. pc[t] \in {"run", "begin", "lock"} /\ tx[t].stage = "WORK"
  BY LockingAtWork, Zenon DEF SkipLock
<1>3. pc' = [pc EXCEPT ![t] = pc[t]]
  BY <1>1, Zenon DEF TypeOK, SkipLock
<1>4. todo' \in [Threads -> Seq(Locks)]
  <2>1. todo[t] \in Seq(Locks) /\ todo[t] # <<>>
    BY <1>1, Zenon DEF TypeOK, SkipLock
  <2>2. Tail(todo[t]) \in Seq(Locks)
    BY <2>1
  <2> QED BY <1>1, <2>2, Zenon DEF TypeOK, SkipLock
<1> QED
  BY <1>2, <1>3, <1>4, LockingStep, Zenon DEF SkipLock

\* All locks that were asked for are taken.
LEMMA LockedKeeps ==
    ASSUME StagesInv, NEW t \in Threads, Locked(t)
    PROVE  Kept(t)
<1>1. tx[t].stage = "WORK" /\ "run" \in {"run", "begin", "lock"}
  BY LockingAtWork, Zenon DEF Locked
<1>2. todo' \in [Threads -> Seq(Locks)]
  BY Zenon DEF StagesInv, TypeOK, Locked
<1> QED
  BY <1>1, <1>2, LockingStep, Zenon DEF Locked

(* The struct with the next lock on its list.                              *)
LEMMA LockOnList ==
    ASSUME StagesInv, NEW t \in Threads, NextIsNew(t),
           NEW y, y = [tx[t] EXCEPT !.locks = <<Head(todo[t])>> \o tx[t].locks]
    PROVE  /\ Head(todo[t]) \in Locks /\ Tail(todo[t]) \in Seq(Locks)
           /\ y \in Structs /\ IsInjective(y.locks)
           /\ Range(y.locks) = Range(tx[t].locks) \cup {Head(todo[t])}
           /\ y.stage = tx[t].stage /\ y.level = tx[t].level /\ y.lane = tx[t].lane
           /\ y.err = tx[t].err /\ y.cb = tx[t].cb
<1>1. tx[t] \in Structs /\ IsInjective(tx[t].locks) /\ todo[t] \in Seq(Locks)
  BY Zenon DEF StagesInv, TypeOK
<1>2. Head(todo[t]) \in Locks /\ Tail(todo[t]) \in Seq(Locks)
  BY <1>1 DEF NextIsNew
<1>3. tx[t].locks \in Seq(Locks)
  BY <1>1, StructFields, Zenon
<1> DEFINE r == <<Head(todo[t])>> \o tx[t].locks
<1>4. r \in Seq(Locks) /\ IsInjective(r) /\ Range(r) = Range(tx[t].locks) \cup {Head(todo[t])}
  BY <1>1, <1>2, <1>3, ListGrows, Zenon DEF NextIsNew
<1>5. y = [tx[t] EXCEPT !.locks = r]
  BY Zenon
<1> HIDE DEF r
<1>6. y \in Structs /\ y.locks = r
  BY <1>1, <1>4, <1>5, Zenon DEF Structs
<1>7. /\ y.stage = tx[t].stage /\ y.level = tx[t].level /\ y.lane = tx[t].lane
      /\ y.err = tx[t].err /\ y.cb = tx[t].cb
  BY <1>1, <1>5, Zenon DEF Structs
<1> QED
  BY <1>2, <1>4, <1>6, <1>7, Zenon

(* Nested and Heard do not look at the list.                               *)
LEMMA ListUnseen ==
    ASSUME NEW x, NEW y, NEW p, NEW c, NEW a, NEW s, Nested(x, p, c, a), Heard(x, p, s),
           y.stage = x.stage, y.level = x.level, y.lane = x.lane, y.err = x.err, y.cb = x.cb
    PROVE  Nested(y, p, c, a) /\ Heard(y, p, s)
<1>1. Open(y) <=> Open(x)
  BY Zenon DEF Open
<1>2. Due(y, p) = Due(x, p)
  BY Zenon DEF Due
<1>3. Nested(y, p, c, a)
  BY <1>1, <1>2, Zenon DEF Nested
<1>4. Heard(y, p, s)
  BY <1>1, Zenon DEF Heard
<1> QED
  BY <1>3, <1>4, Zenon

\* add_to_tx_and_lock takes a lock.
LEMMA TakeLockKeeps ==
    ASSUME StagesInv, NEW t \in Threads, TakeLock(t)
    PROVE  Kept(t)
<1> DEFINE y == [tx[t] EXCEPT !.locks = <<Head(todo[t])>> \o tx[t].locks]
           l == Head(todo[t])
<1>1. TypeOK
  BY Zenon DEF StagesInv
<1>2. /\ l \in Locks /\ Tail(todo[t]) \in Seq(Locks)
      /\ y \in Structs /\ IsInjective(y.locks) /\ Range(y.locks) = Range(tx[t].locks) \cup {l}
      /\ y.stage = tx[t].stage /\ y.level = tx[t].level /\ y.lane = tx[t].lane
      /\ y.err = tx[t].err /\ y.cb = tx[t].cb
  BY LockOnList, Zenon DEF TakeLock
<1>3. tx' = [tx EXCEPT ![t] = y]
  BY <1>1, Zenon DEF TypeOK, Structs, TakeLock
<1>4. owner[l] = NoThread /\ owner' = [owner EXCEPT ![l] = t]
  BY Zenon DEF TakeLock
<1>5. todo' \in [Threads -> Seq(Locks)]
  BY <1>1, <1>2, Zenon DEF TypeOK, TakeLock
<1> HIDE DEF y, l
<1>6. tx' \in [Threads -> Structs] /\ tx'[t] = y /\ \A u \in Threads \ {t} : tx'[u] = tx[u]
  BY <1>1, <1>2, <1>3, Zenon DEF TypeOK
<1>7. /\ owner' \in [Locks -> Threads \cup {NoThread}] /\ owner'[l] = t
      /\ \A k \in Locks \ {l} : owner'[k] = owner[k]
  BY <1>1, <1>2, <1>4, Zenon DEF TypeOK
<1>8. TypeOK'
  <2>1. \A u \in Threads : IsInjective(tx'[u].locks)
    BY <1>1, <1>2, <1>6, Zenon DEF TypeOK
  <2> QED BY <1>1, <1>5, <1>6, <1>7, <2>1, Zenon DEF TypeOK, TakeLock
<1>9. OthersKeep(t)
  BY <1>6, Zenon DEF OthersKeep, TakeLock
<1>10. LaneStep(t)
  BY <1>2, <1>6, <1>9, Zenon DEF LaneStep
<1>11. WritersOpen'
  <2>1. DirtKept(t)
    <3>1. Open(y)
      BY <1>2, LockingAtWork, Zenon DEF Open, TakeLock
    <3> QED BY <1>6, <3>1, Zenon DEF DirtKept, TakeLock
  <2> QED BY <1>9, <2>1, WritersKept, Zenon
<1>12. ListsOwned'
  <2> SUFFICES ASSUME fails = 0, NEW u \in Threads, NEW k \in Range(tx'[u].locks)
               PROVE  owner'[k] = u
    BY Zenon DEF ListsOwned, TakeLock
  <2>1. k \in Locks
    <3>1. tx'[u].locks \in Seq(Locks)
      BY <1>6, StructFields, Zenon
    <3> QED BY <3>1 DEF Range
  <2>2. CASE k = l /\ u = t
    BY <1>7, <2>2, Zenon
  <2>3. CASE k # l \/ u # t
    <3>1. k \in Range(tx[u].locks)
      BY <1>2, <1>6, <2>3, Zenon
    <3>2. owner[k] = u
      BY <3>1, Zenon DEF StagesInv, ListsOwned
    <3>3. k # l
      BY <1>4, <3>2, StagesAssumption, Zenon
    <3> QED BY <1>7, <2>1, <3>2, <3>3, Zenon
  <2> QED BY <2>2, <2>3, Zenon
<1>13. Isolation'
  BY <1>4, <1>7, Zenon DEF StagesInv, Isolation, TakeLock
<1>14. Nested(y, pc[t], calls[t], aborted[t]) /\ Heard(y, pc[t], seen[t])
  BY <1>2, ListUnseen, Zenon DEF StagesInv
<1>15. Nested(tx'[t], pc'[t], calls'[t], aborted'[t]) /\ Heard(tx'[t], pc'[t], seen'[t])
  BY <1>6, <1>14, Zenon DEF TakeLock
<1> QED
  BY <1>8, <1>9, <1>10, <1>11, <1>12, <1>13, <1>15, ThreadStep, Zenon

\* add_to_tx_and_lock fails, in begin or in a transaction.
LEMMA LockErrorKeeps ==
    ASSUME StagesInv, NEW t \in Threads, Locking(t), NEW x \in Structs, IsInjective(x.locks),
           x.stage = tx[t].stage, x.level = tx[t].level, x.lane = tx[t].lane,
           x.err = tx[t].err, x.cb = tx[t].cb, LockError(t, x)
    PROVE  Kept(t)
<1>1. TypeOK
  BY Zenon DEF StagesInv
<1>2. tx[t].stage = "WORK" /\ pc[t] \in {"begin", "lock"}
  BY LockingAtWork, Zenon
<1>3. /\ tx[t].level \in 1 .. MaxDepth /\ tx[t].lane /\ calls[t] = tx[t].level
      /\ seen[t] = <<>> /\ Open(tx[t])
  BY <1>2, AtWork, Zenon
<1>4. /\ pc' \in [Threads -> {"run", "begin", "lock", "release"}] /\ pc'[t] = "run"
      /\ \A u \in Threads \ {t} : pc'[u] = pc[u]
  BY <1>1, Zenon DEF TypeOK, LockError
<1>5. fails' \in 0..MaxFails /\ fails' # 0
  BY <1>1, StagesAssumption DEF TypeOK, LockError
<1>6. todo' \in [Threads -> Seq(Locks)]
  BY <1>1 DEF TypeOK, LockError
<1>7. UNCHANGED <<owner, calls, begins, lost, dead>>
  BY Zenon DEF LockError
<1> DEFINE Struct ==
             /\ tx' \in [Threads -> Structs]
             /\ tx'[t].locks = x.locks /\ (tx'[t].lane => tx[t].lane)
             /\ \A u \in Threads \ {t} :
                   tx'[u] = tx[u] /\ seen'[u] = seen[u] /\ aborted'[u] = aborted[u]
             /\ seen' \in [Threads -> Seq(Stages)] /\ aborted' \in [Threads -> BOOLEAN]
             /\ dirty' \in [Locks -> Threads \cup {NoThread}]
             /\ DirtKept(t)
             /\ Nested(tx'[t], pc'[t], calls'[t], aborted'[t])
             /\ Heard(tx'[t], pc'[t], seen'[t])
<1>8. Struct
  <2>1. CASE pc[t] = "begin"
    <3>1. AbortLevel(t, x, <<>>)
      BY <1>3, <2>1, Zenon DEF LockError
    <3>2. x.level > 0 /\ x.lane /\ calls'[t] \in {x.level, x.level + 1}
      BY <1>3, <1>7, StagesAssumption
    <3> QED BY <1>4, <3>1, <3>2, Aborts, Zenon
  <2>2. CASE pc[t] # "begin"
    <3>1. tx' = [tx EXCEPT ![t] = x] /\ UNCHANGED <<dirty, seen, aborted>>
      BY <2>2, Zenon DEF LockError
    <3>2. tx' \in [Threads -> Structs] /\ tx'[t] = x /\ \A u \in Threads \ {t} : tx'[u] = tx[u]
      BY <1>1, <3>1, Zenon DEF TypeOK
    <3>3. Nested(x, "run", calls[t], aborted[t]) /\ Heard(x, "run", seen[t])
      BY <1>2, WorkAnywhere, ListUnseen, Zenon
    <3>4. DirtKept(t)
      BY <1>2, <3>1, <3>2, Zenon DEF DirtKept, Open
    <3>5. Nested(tx'[t], pc'[t], calls'[t], aborted'[t]) /\ Heard(tx'[t], pc'[t], seen'[t])
      BY <1>4, <1>7, <3>1, <3>2, <3>3, Zenon
    <3> QED BY <1>1, <3>1, <3>2, <3>4, <3>5, Zenon DEF TypeOK
  <2> QED BY <2>1, <2>2, Zenon
<1>9. TypeOK'
  <2>1. \A u \in Threads : IsInjective(tx'[u].locks)
    BY <1>1, <1>8, Zenon DEF TypeOK
  <2> QED BY <1>1, <1>4, <1>5, <1>6, <1>7, <1>8, <2>1, Zenon DEF TypeOK
<1>10. OthersKeep(t)
  BY <1>4, <1>7, <1>8, Zenon DEF OthersKeep
<1>11. LaneStep(t)
  BY <1>8, <1>10, Zenon DEF LaneStep
<1>12. LocksKept(t)
  BY <1>5, Zenon DEF LocksKept
<1> QED
  BY <1>8, <1>9, <1>10, <1>11, <1>12, StageStep, Zenon

\* add_to_tx_and_lock has no memory for the lock.
LEMMA LockNoMemoryKeeps ==
    ASSUME StagesInv, NEW t \in Threads, LockNoMemory(t)
    PROVE  Kept(t)
<1>1. tx[t] \in Structs /\ IsInjective(tx[t].locks)
  BY Zenon DEF StagesInv, TypeOK
<1> QED
  BY <1>1, LockErrorKeeps, Zenon DEF LockNoMemory

\* add_to_tx_and_lock cannot take the lock.
LEMMA LockFailsKeeps ==
    ASSUME StagesInv, NEW t \in Threads, LockFails(t)
    PROVE  Kept(t)
<1> DEFINE y == [tx[t] EXCEPT !.locks = <<Head(todo[t])>> \o tx[t].locks]
<1>1. Locking(t) /\ NextIsNew(t) /\ LockError(t, y)
  BY Zenon DEF LockFails
<1>2. /\ y \in Structs /\ IsInjective(y.locks)
      /\ y.stage = tx[t].stage /\ y.level = tx[t].level /\ y.lane = tx[t].lane
      /\ y.err = tx[t].err /\ y.cb = tx[t].cb
  BY <1>1, LockOnList, Zenon
<1> HIDE DEF y
<1> QED
  BY <1>1, <1>2, LockErrorKeeps, Zenon

-----------------------------------------------------------------------------
(* The work, and the stages after it.                                      *)

\* The transaction writes under its locks.
LEMMA WriteKeeps ==
    ASSUME StagesInv, NEW t \in Threads, Write(t)
    PROVE  Kept(t)
<1>1. PICK l \in Range(tx[t].locks) : dirty' = [dirty EXCEPT ![l] = t]
  BY Zenon DEF Write
<1>2. TypeOK
  BY Zenon DEF StagesInv
<1>3. UNCHANGED <<tx, pc, todo, owner, calls, begins, fails, lost, dead, seen, aborted>>
  BY Zenon DEF Write
<1>4. l \in Locks
  <2>1. tx[t].locks \in Seq(Locks)
    BY <1>2, StructFields, Zenon DEF TypeOK
  <2> QED BY <2>1 DEF Range
<1>5. /\ dirty' \in [Locks -> Threads \cup {NoThread}] /\ dirty'[l] = t
      /\ \A k \in Locks \ {l} : dirty'[k] = dirty[k]
  BY <1>1, <1>2, <1>4, Zenon DEF TypeOK
<1>6. TypeOK'
  BY <1>2, <1>3, <1>5, Zenon DEF TypeOK
<1>7. OthersKeep(t)
  BY <1>3, Zenon DEF OthersKeep
<1>8. LaneStep(t)
  BY <1>3, <1>7, Zenon DEF LaneStep
<1>9. WritersOpen'
  <2>1. Open(tx[t])
    BY Zenon DEF Write, Open
  <2> QED BY <1>3, <1>5, <2>1, Zenon DEF StagesInv, WritersOpen
<1>10. ListsOwned'
  BY <1>3, Zenon DEF StagesInv, ListsOwned
<1>11. Isolation'
  <2>1. fails = 0 => owner[l] = t
    BY Zenon DEF StagesInv, ListsOwned
  <2> QED BY <1>3, <1>5, <2>1, Zenon DEF StagesInv, Isolation
<1>12. Nested(tx'[t], pc'[t], calls'[t], aborted'[t]) /\ Heard(tx'[t], pc'[t], seen'[t])
  BY <1>3, Zenon DEF StagesInv
<1> QED
  BY <1>6, <1>7, <1>8, <1>9, <1>10, <1>11, <1>12, ThreadStep, Zenon

\* pmemobj_tx_abort.
LEMMA AbortKeeps ==
    ASSUME StagesInv, NEW t \in Threads, Abort(t)
    PROVE  Kept(t)
<1>1. TypeOK
  BY Zenon DEF StagesInv
<1>2. /\ pc[t] = "run" /\ tx[t] \in Structs /\ tx[t].level \in 1 .. MaxDepth /\ tx[t].lane
      /\ calls[t] = tx[t].level /\ seen[t] = <<>>
  BY AtWork, Zenon DEF Abort, Running
<1>3. UNCHANGED <<pc, todo, owner, calls, begins, fails, lost, dead>>
  BY Zenon DEF Abort
<1>4. AbortLevel(t, tx[t], <<>>)
  BY <1>2, Zenon DEF Abort
<1>5. tx[t].level > 0 /\ calls'[t] \in {tx[t].level, tx[t].level + 1}
  BY <1>2, <1>3, StagesAssumption
<1>6. /\ tx' \in [Threads -> Structs]
      /\ tx'[t].locks = tx[t].locks /\ (tx'[t].lane => tx[t].lane)
      /\ \A u \in Threads \ {t} :
            tx'[u] = tx[u] /\ seen'[u] = seen[u] /\ aborted'[u] = aborted[u]
      /\ seen' \in [Threads -> Seq(Stages)] /\ aborted' \in [Threads -> BOOLEAN]
      /\ dirty' \in [Locks -> Threads \cup {NoThread}]
      /\ DirtKept(t)
      /\ Nested(tx'[t], pc'[t], calls'[t], aborted'[t])
      /\ Heard(tx'[t], pc'[t], seen'[t])
  BY <1>2, <1>3, <1>4, <1>5, Aborts, Zenon
<1>7. OthersKeep(t)
  BY <1>3, <1>6, Zenon DEF OthersKeep
<1>8. TypeOK'
  <2>1. \A u \in Threads : IsInjective(tx'[u].locks)
    BY <1>1, <1>6, Zenon DEF TypeOK
  <2> QED BY <1>1, <1>3, <1>6, <2>1, Zenon DEF TypeOK
<1>9. LaneStep(t)
  BY <1>6, <1>7, Zenon DEF LaneStep
<1>10. LocksKept(t)
  BY <1>3, <1>6, Zenon DEF LocksKept
<1> QED
  BY <1>6, <1>7, <1>8, <1>9, <1>10, StageStep, Zenon

\* pmemobj_tx_commit.
LEMMA CommitKeeps ==
    ASSUME StagesInv, NEW t \in Threads, Commit(t)
    PROVE  Kept(t)
<1> DEFINE y == [tx[t] EXCEPT !.stage = "ONCOMMIT", !.lane = tx[t].lane /\ ~Outermost(tx[t])]
           s == Called(tx[t], Called(tx[t], <<>>, "WORK"), "ONCOMMIT")
<1>1. TypeOK
  BY Zenon DEF StagesInv
<1>2. /\ pc[t] = "run" /\ tx[t] \in Structs /\ tx[t].level \in 1 .. MaxDepth /\ tx[t].lane
      /\ calls[t] = tx[t].level /\ aborted[t] = FALSE /\ seen[t] = <<>> /\ Open(tx[t])
  BY AtWork, Zenon DEF Commit, Running
<1>3. UNCHANGED <<pc, todo, owner, calls, begins, fails, lost, dead, aborted>>
  BY Zenon DEF Commit
<1>4. y \in Structs
  <2>1. "ONCOMMIT" \in Stages /\ (tx[t].lane /\ ~Outermost(tx[t])) \in BOOLEAN
    BY Zenon DEF Stages
  <2> QED BY <1>2, <2>1, Zenon DEF Structs
<1>5. /\ y.stage = "ONCOMMIT" /\ y.level = tx[t].level /\ y.locks = tx[t].locks
      /\ y.cb = tx[t].cb /\ (y.lane <=> tx[t].level # 1)
  BY <1>2, Zenon DEF Structs, Outermost
<1>6. tx' = [tx EXCEPT ![t] = y]
  BY <1>1, <1>2, Zenon DEF TypeOK, Structs, Commit
<1>7. s = IF tx[t].cb /\ tx[t].level = 1 THEN <<"WORK", "ONCOMMIT">> ELSE <<>>
  BY RunsGrow, Zenon DEF Called, Outermost
<1>8. seen' = [seen EXCEPT ![t] = s]
  BY <1>2, Zenon DEF Commit
<1> HIDE DEF y, s
<1>9. s \in Seq(Stages)
  BY <1>7, RunsAreStages, Zenon
<1>10. tx' \in [Threads -> Structs] /\ tx'[t] = y /\ \A u \in Threads \ {t} : tx'[u] = tx[u]
  BY <1>1, <1>4, <1>6, Zenon DEF TypeOK
<1>11. /\ seen' \in [Threads -> Seq(Stages)] /\ seen'[t] = s
       /\ \A u \in Threads \ {t} : seen'[u] = seen[u]
  BY <1>1, <1>8, <1>9, Zenon DEF TypeOK
<1>12. dirty' \in [Locks -> Threads \cup {NoThread}] /\ DirtKept(t)
  <2>1. CASE Outermost(tx[t])
    <3>1. dirty' = [l \in Locks |-> IF dirty[l] = t THEN NoThread ELSE dirty[l]]
      BY <2>1, Zenon DEF Commit
    <3> QED BY <1>1, <3>1, Zenon DEF DirtKept, TypeOK
  <2>2. CASE ~Outermost(tx[t])
    <3>1. dirty' = dirty
      BY <2>2, Zenon DEF Commit
    <3>2. Open(y)
      BY <1>2, <1>5, <2>2, StagesAssumption DEF Open, Outermost
    <3> QED BY <1>1, <1>10, <3>1, <3>2, Zenon DEF DirtKept, TypeOK
  <2> QED BY <2>1, <2>2, Zenon
<1>13. TypeOK'
  <2>1. \A u \in Threads : IsInjective(tx'[u].locks)
    BY <1>1, <1>5, <1>10, Zenon DEF TypeOK
  <2> QED BY <1>1, <1>3, <1>10, <1>11, <1>12, <2>1, Zenon DEF TypeOK
<1>14. OthersKeep(t)
  BY <1>3, <1>10, <1>11, Zenon DEF OthersKeep
<1>15. LaneStep(t)
  BY <1>2, <1>14, Zenon DEF LaneStep
<1>16. LocksKept(t)
  BY <1>3, <1>5, <1>10, Zenon DEF LocksKept
<1>17. Nested(y, "run", calls[t], FALSE) /\ Heard(y, "run", s)
  <2>1. Nested(y, "run", calls[t], FALSE)
    BY <1>2, <1>5, StagesAssumption DEF Nested, Due, Open
  <2>2. Open(y) => y.level # 1
    BY <1>2, <1>5, StagesAssumption DEF Open
  <2>3. y.level # 0
    BY <1>2, <1>5, StagesAssumption
  <2>4. Heard(y, "run", s)
    BY <1>5, <1>7, <2>2, <2>3, Zenon DEF Heard
  <2> QED BY <2>1, <2>4, Zenon
<1>18. Nested(tx'[t], pc'[t], calls'[t], aborted'[t]) /\ Heard(tx'[t], pc'[t], seen'[t])
  BY <1>2, <1>3, <1>10, <1>11, <1>17, Zenon
<1> QED
  BY <1>12, <1>13, <1>14, <1>15, <1>16, <1>18, StageStep, Zenon

(* A thread between its calls, after the work.                             *)
LEMMA AfterWork ==
    ASSUME StagesInv, NEW t \in Threads, pc[t] = "run", tx[t].stage # "WORK"
    PROVE  /\ tx[t] \in Structs /\ tx[t].level \in 0 .. MaxDepth
           /\ calls[t] \in {tx[t].level, tx[t].level + 1}
           /\ (calls[t] > tx[t].level /\ tx[t].level > 0 => aborted[t])
           /\ (calls[t] = tx[t].level => (tx[t].lane <=> tx[t].level > 1))
           /\ (aborted[t] /\ tx[t].level > 0 => tx[t].err /\ tx[t].stage # "ONCOMMIT")
           /\ (tx[t].level > 1 => seen[t] = <<>>)
<1>1. tx[t] \in Structs
  BY Zenon DEF StagesInv, TypeOK
<1>2. tx[t].level \in 0 .. MaxDepth
  BY <1>1, StructFields, Zenon
<1>3. Nested(tx[t], "run", calls[t], aborted[t]) /\ Heard(tx[t], "run", seen[t])
  BY Zenon DEF StagesInv
<1>4. Due(tx[t], "run") = tx[t].level
  BY <1>2 DEF Due
<1>5. Open(tx[t]) <=> tx[t].level > 1
  BY Zenon DEF Open
<1> QED
  BY <1>1, <1>2, <1>3, <1>4, <1>5, Zenon DEF Nested, Heard

(* A thread that only goes to a later stage.                               *)
LEMMA LaterStage ==
    ASSUME StagesInv, NEW t \in Threads, pc[t] = "run", tx[t].stage # "WORK",
           NEW st \in {"FINALLY", "NONE"}, NEW s \in Seq(Stages),
           tx' = [tx EXCEPT ![t].stage = st], seen' = [seen EXCEPT ![t] = s],
           Heard([tx[t] EXCEPT !.stage = st], "run", s),
           UNCHANGED <<pc, todo, owner, dirty, calls, begins, fails, lost, dead, aborted>>
    PROVE  Kept(t)
<1> DEFINE y == [tx[t] EXCEPT !.stage = st]
<1>1. TypeOK
  BY Zenon DEF StagesInv
<1>2. /\ tx[t] \in Structs /\ tx[t].level \in 0 .. MaxDepth
      /\ calls[t] \in {tx[t].level, tx[t].level + 1}
      /\ (calls[t] > tx[t].level /\ tx[t].level > 0 => aborted[t])
      /\ (calls[t] = tx[t].level => (tx[t].lane <=> tx[t].level > 1))
      /\ (aborted[t] /\ tx[t].level > 0 => tx[t].err)
  BY AfterWork, Zenon
<1>3. y \in Structs
  BY <1>2, Zenon DEF Structs, Stages
<1>4. /\ y.stage = st /\ y.level = tx[t].level /\ y.lane = tx[t].lane /\ y.err = tx[t].err
      /\ y.locks = tx[t].locks
  BY <1>2, Zenon DEF Structs
<1>5. tx' = [tx EXCEPT ![t] = y]
  BY <1>1, Zenon DEF TypeOK
<1>6. Heard(y, "run", s)
  BY Zenon
<1> HIDE DEF y
<1>7. tx' \in [Threads -> Structs] /\ tx'[t] = y /\ \A u \in Threads \ {t} : tx'[u] = tx[u]
  BY <1>1, <1>3, <1>5, Zenon DEF TypeOK
<1>8. /\ seen' \in [Threads -> Seq(Stages)] /\ seen'[t] = s
      /\ \A u \in Threads \ {t} : seen'[u] = seen[u]
  BY <1>1, Zenon DEF TypeOK
<1>9. Open(y) <=> tx[t].level > 1
  BY <1>4, Zenon DEF Open
<1>10. Nested(y, "run", calls[t], aborted[t])
  <2>1. Due(y, "run") = tx[t].level
    BY <1>2, <1>4 DEF Due
  <2> QED BY <1>2, <1>4, <1>9, <2>1, Zenon DEF Nested
<1>11. TypeOK'
  <2>1. \A u \in Threads : IsInjective(tx'[u].locks)
    BY <1>1, <1>4, <1>7, Zenon DEF TypeOK
  <2> QED BY <1>1, <1>7, <1>8, <2>1, Zenon DEF TypeOK
<1>12. OthersKeep(t)
  BY <1>7, <1>8, Zenon DEF OthersKeep
<1>13. LaneStep(t)
  BY <1>4, <1>7, <1>12, Zenon DEF LaneStep
<1>14. DirtKept(t)
  <2>1. Open(tx[t]) => Open(y)
    BY <1>9, Zenon DEF Open
  <2> QED BY <1>7, <2>1, Zenon DEF DirtKept, StagesInv, WritersOpen
<1>15. LocksKept(t)
  BY <1>4, <1>7, Zenon DEF LocksKept
<1>16. Nested(tx'[t], pc'[t], calls'[t], aborted'[t]) /\ Heard(tx'[t], pc'[t], seen'[t])
  BY <1>6, <1>7, <1>8, <1>10, Zenon
<1> QED
  BY <1>11, <1>12, <1>13, <1>14, <1>15, <1>16, StageStep, Zenon

(* The callback sees FINALLY, if there is one.                             *)
LEMMA FinallySeen ==
    ASSUME NEW x \in Structs, x.stage \in {"ONCOMMIT", "ONABORT"}, NEW s, Heard(x, "run", s)
    PROVE  /\ Called(x, s, "FINALLY") \in Seq(Stages)
           /\ (x.cb /\ x.level = 1 => Called(x, s, "FINALLY") \in ToFinally)
           /\ (~x.cb /\ x.level > 0 => Called(x, s, "FINALLY") = <<>>)
           /\ (x.level > 1 => Called(x, s, "FINALLY") = <<>>)
           /\ (x.level = 0 => ~x.cb /\ Called(x, s, "FINALLY") \in CallbackRuns \cup {<<>>})
<1>1. x.level > 1 => x.level # 1
  BY StructFields
<1>2. x.level = 0 => x.level # 1
  OBVIOUS
<1>3. x.level \in 0 .. MaxDepth
  BY StructFields, Zenon
<1>4. x.level = 0 \/ x.level = 1 \/ x.level > 1
  BY <1>3, StagesAssumption
<1>5. x.cb /\ x.level = 1 => Called(x, s, "FINALLY") \in ToFinally
  BY RunsGrow, Zenon DEF Heard, Called, Outermost
<1>6. ~x.cb /\ x.level > 0 => Called(x, s, "FINALLY") = <<>>
  BY Zenon DEF Heard, Called
<1>7. x.level > 1 => Called(x, s, "FINALLY") = <<>>
  BY <1>1, Zenon DEF Heard, Called, Outermost, Open
<1>8. x.level = 0 => ~x.cb /\ Called(x, s, "FINALLY") \in CallbackRuns \cup {<<>>}
  BY <1>2, Zenon DEF Heard, Called, Outermost
<1>9. x.level = 1 => x.level > 0
  OBVIOUS
<1>10. Called(x, s, "FINALLY") \in Seq(Stages)
  BY <1>4, <1>5, <1>6, <1>7, <1>8, <1>9, RunsAreStages, Zenon
<1> QED
  BY <1>5, <1>6, <1>7, <1>8, <1>10, Zenon

\* pmemobj_tx_process.
LEMMA ProcessKeeps ==
    ASSUME StagesInv, NEW t \in Threads, Process(t)
    PROVE  Kept(t)
<1>1. pc[t] = "run" /\ UNCHANGED <<pc, todo, owner, dirty, calls, begins, fails, lost, dead, aborted>>
  BY Zenon DEF Process, Running
<1>2. tx[t] \in Structs /\ tx \in [Threads -> Structs] /\ seen \in [Threads -> Seq(Stages)]
  BY Zenon DEF StagesInv, TypeOK
<1>3. Heard(tx[t], "run", seen[t])
  BY <1>1, Zenon DEF StagesInv
<1>4. CASE tx[t].stage \in {"ONCOMMIT", "ONABORT"}
  <2> DEFINE y == [tx[t] EXCEPT !.stage = "FINALLY"]
             s == Called(tx[t], seen[t], "FINALLY")
  <2>1. tx' = [tx EXCEPT ![t].stage = "FINALLY"] /\ seen' = [seen EXCEPT ![t] = s]
    BY <1>4, Zenon DEF Process
  <2>2. y.stage = "FINALLY" /\ y.level = tx[t].level /\ y.cb = tx[t].cb
    BY <1>2, Zenon DEF Structs
  <2>3. /\ s \in Seq(Stages) /\ (tx[t].cb /\ tx[t].level = 1 => s \in ToFinally)
        /\ (~tx[t].cb /\ tx[t].level > 0 => s = <<>>) /\ (tx[t].level > 1 => s = <<>>)
        /\ (tx[t].level = 0 => ~tx[t].cb /\ s \in CallbackRuns \cup {<<>>})
    BY <1>2, <1>3, <1>4, FinallySeen, Zenon
  <2>4. Heard(y, "run", s)
    <3> HIDE DEF y, s
    <3> QED BY <2>2, <2>3, Zenon DEF Heard, Open
  <2>5. tx[t].stage # "WORK"
    BY <1>4, Zenon
  <2> HIDE DEF s
  <2> QED BY <1>1, <2>1, <2>3, <2>4, <2>5, LaterStage, Zenon
<1>5. CASE tx[t].stage = "FINALLY"
  <2> DEFINE y == [tx[t] EXCEPT !.stage = "NONE"]
  <2>1. tx' = [tx EXCEPT ![t].stage = "NONE"] /\ seen' = seen
    BY <1>5, Zenon DEF Process
  <2>2. y.stage = "NONE" /\ y.level = tx[t].level /\ y.cb = tx[t].cb
    BY <1>2, Zenon DEF Structs
  <2>3. Heard(y, "run", seen[t])
    <3> HIDE DEF y
    <3> QED BY <1>3, <1>5, <2>2, Zenon DEF Heard, Open
  <2>4. seen' = [seen EXCEPT ![t] = seen[t]] /\ seen[t] \in Seq(Stages)
    BY <1>2, <2>1, Zenon
  <2>5. tx[t].stage # "WORK"
    BY <1>5, Zenon
  <2> QED BY <1>1, <2>1, <2>3, <2>4, <2>5, LaterStage, Zenon
<1> QED
  BY <1>4, <1>5, Zenon DEF Process

-----------------------------------------------------------------------------
(* pmemobj_tx_end.                                                         *)

\* pmemobj_tx_end of an inner level.
LEMMA EndInnerKeeps ==
    ASSUME StagesInv, NEW t \in Threads, EndInner(t)
    PROVE  Kept(t)
<1> DEFINE x == [tx[t] EXCEPT !.stage = "WORK", !.level = tx[t].level - 1]
<1>1. TypeOK
  BY Zenon DEF StagesInv
<1>2. pc[t] = "run" /\ tx[t].stage # "WORK" /\ tx[t].level > 1
  BY Zenon DEF EndInner, Ending, Running
<1>3. /\ tx[t] \in Structs /\ tx[t].level \in 0 .. MaxDepth
      /\ calls[t] \in {tx[t].level, tx[t].level + 1}
      /\ (calls[t] > tx[t].level /\ tx[t].level > 0 => aborted[t])
      /\ (calls[t] = tx[t].level => (tx[t].lane <=> tx[t].level > 1))
      /\ (aborted[t] /\ tx[t].level > 0 => tx[t].err)
      /\ seen[t] = <<>>
  BY <1>2, AfterWork, Zenon
<1>4. tx[t].level - 1 \in 0 .. MaxDepth /\ tx[t].level - 1 > 0 /\ tx[t].level # 1 /\ tx[t].level > 0
  BY <1>2, <1>3, StagesAssumption
<1>5. x \in Structs
  BY <1>3, <1>4, Zenon DEF Structs, Stages
<1>6. /\ x.stage = "WORK" /\ x.level = tx[t].level - 1 /\ x.lane = tx[t].lane
      /\ x.err = tx[t].err /\ x.locks = tx[t].locks
  BY <1>3, Zenon DEF Structs
<1>7. Finally(t) = <<>>
  BY <1>3, <1>4, Zenon DEF Finally, Called, Outermost
<1>8. /\ calls' = [calls EXCEPT ![t] = calls[t] - 1]
      /\ UNCHANGED <<pc, todo, owner, begins, fails, lost, dead>>
      /\ IF x.err THEN AbortLevel(t, x, <<>>)
         ELSE tx' = [tx EXCEPT ![t] = x] /\ seen' = [seen EXCEPT ![t] = <<>>]
              /\ UNCHANGED <<dirty, aborted>>
  BY <1>7, Zenon DEF EndInner
<1> HIDE DEF x
<1>9. /\ calls' \in [Threads -> 0..MaxDepth + 1] /\ calls'[t] = calls[t] - 1
      /\ \A u \in Threads \ {t} : calls'[u] = calls[u]
  <2>1. calls[t] - 1 \in 0..MaxDepth + 1
    BY SMTT(20), <1>2, <1>3, StagesAssumption
  <2> QED BY <1>1, <1>8, <2>1, Zenon DEF TypeOK
<1>10. calls'[t] \in {x.level, x.level + 1} /\ (calls'[t] = x.level => x.lane)
  BY <1>2, <1>3, <1>6, <1>9
<1> DEFINE Struct ==
             /\ tx' \in [Threads -> Structs]
             /\ tx'[t].locks = x.locks /\ (tx'[t].lane => x.lane)
             /\ \A u \in Threads \ {t} :
                   tx'[u] = tx[u] /\ seen'[u] = seen[u] /\ aborted'[u] = aborted[u]
             /\ seen' \in [Threads -> Seq(Stages)] /\ aborted' \in [Threads -> BOOLEAN]
             /\ dirty' \in [Locks -> Threads \cup {NoThread}]
             /\ DirtKept(t)
             /\ Nested(tx'[t], pc'[t], calls'[t], aborted'[t])
             /\ Heard(tx'[t], pc'[t], seen'[t])
<1>11. Struct
  <2>1. CASE x.err
    <3>1. AbortLevel(t, x, <<>>) /\ x.level > 0 /\ pc'[t] = "run"
      BY <1>2, <1>4, <1>6, <1>8, <2>1, Zenon
    <3> QED BY <1>5, <1>10, <3>1, Aborts, Zenon
  <2>2. CASE ~x.err
    <3>1. /\ tx' = [tx EXCEPT ![t] = x] /\ seen' = [seen EXCEPT ![t] = <<>>]
          /\ UNCHANGED <<dirty, aborted>>
      BY <1>8, <2>2, Zenon
    <3>2. tx' \in [Threads -> Structs] /\ tx'[t] = x /\ \A u \in Threads \ {t} : tx'[u] = tx[u]
      BY <1>1, <1>5, <3>1, Zenon DEF TypeOK
    <3>3. /\ seen' \in [Threads -> Seq(Stages)] /\ seen'[t] = <<>>
          /\ \A u \in Threads \ {t} : seen'[u] = seen[u]
      BY <1>1, <3>1 DEF TypeOK
    <3>4. ~aborted[t]
      BY <1>3, <1>4, <1>6, <2>2, Zenon
    <3>5. calls[t] = tx[t].level
      BY SMTT(20), <1>3, <1>4, <3>4
    <3>6. Due(x, "run") = calls'[t] /\ Open(x)
      BY <1>4, <1>6, <1>9, <3>5 DEF Due, Open
    <3>7. Nested(x, "run", calls'[t], aborted[t])
      <4>1. x.level > 0 /\ x.lane
        BY <1>2, <1>3, <1>4, <1>6, <3>5, Zenon
      <4>2. ~(calls'[t] > calls'[t])
        BY <1>9
      <4> QED BY <1>6, <3>4, <3>6, <4>1, <4>2, Zenon DEF Nested
    <3>8. Heard(x, "run", <<>>)
      <4>1. x.level # 0
        BY <1>4, <1>6
      <4> QED BY <1>6, <4>1, Zenon DEF Heard
    <3>9. DirtKept(t)
      BY <3>1, <3>2, <3>6, Zenon DEF DirtKept
    <3>10. Nested(tx'[t], pc'[t], calls'[t], aborted'[t]) /\ Heard(tx'[t], pc'[t], seen'[t])
      BY <1>2, <1>8, <3>1, <3>2, <3>3, <3>7, <3>8, Zenon
    <3> QED BY <1>1, <3>1, <3>2, <3>3, <3>9, <3>10, Zenon DEF TypeOK
  <2> QED BY <2>1, <2>2, Zenon
<1>12. TypeOK'
  <2>1. \A u \in Threads : IsInjective(tx'[u].locks)
    BY <1>1, <1>6, <1>11, Zenon DEF TypeOK
  <2> QED BY <1>1, <1>8, <1>9, <1>11, <2>1, Zenon DEF TypeOK
<1>13. OthersKeep(t)
  BY <1>8, <1>9, <1>11, Zenon DEF OthersKeep
<1>14. LaneStep(t)
  BY <1>6, <1>11, <1>13, Zenon DEF LaneStep
<1>15. LocksKept(t)
  BY <1>6, <1>8, <1>11, Zenon DEF LocksKept
<1> QED
  BY <1>11, <1>12, <1>13, <1>14, <1>15, StageStep, Zenon

\* pmemobj_tx_end of the outermost level.
LEMMA EndOuterKeeps ==
    ASSUME StagesInv, NEW t \in Threads, EndOuter(t)
    PROVE  Kept(t)
<1> DEFINE y == [tx[t] EXCEPT !.level = 0]
           s == Finally(t)
<1>1. TypeOK
  BY Zenon DEF StagesInv
<1>2. pc[t] = "run" /\ tx[t].stage # "WORK" /\ tx[t].level = 1
  BY Zenon DEF EndOuter, Ending, Running
<1>3. /\ tx[t] \in Structs /\ calls[t] \in {1, 2}
      /\ (calls[t] = 1 => ~tx[t].lane) /\ Heard(tx[t], "run", seen[t])
  <2>1. /\ tx[t] \in Structs /\ calls[t] \in {tx[t].level, tx[t].level + 1}
        /\ (calls[t] = tx[t].level => (tx[t].lane <=> tx[t].level > 1))
    BY <1>2, AfterWork, Zenon
  <2>2. Heard(tx[t], "run", seen[t])
    BY <1>2, Zenon DEF StagesInv
  <2> QED BY <1>2, <2>1, <2>2
<1>4. y \in Structs
  <2>1. 0 \in 0 .. MaxDepth
    BY StagesAssumption
  <2> QED BY <1>3, <2>1, Zenon DEF Structs
<1>5. /\ y.stage = tx[t].stage /\ y.level = 0 /\ y.lane = tx[t].lane /\ y.locks = tx[t].locks
      /\ y.cb = tx[t].cb
  BY <1>3, Zenon DEF Structs
<1>6. s \in Seq(Stages) /\ (tx[t].cb => s \in ToFinally) /\ (~tx[t].cb => s = <<>>)
  <2>1. 1 > 0
    OBVIOUS
  <2>2. ~tx[t].cb => seen[t] = <<>>
    BY <1>2, <1>3, <2>1, Zenon DEF Heard
  <2>3. CASE tx[t].cb /\ tx[t].stage \in {"ONCOMMIT", "ONABORT"}
    <3>1. s = Called(tx[t], seen[t], "FINALLY")
      BY <2>3, Zenon DEF Finally
    <3> HIDE DEF s
    <3> QED BY <1>2, <1>3, <2>3, <3>1, FinallySeen, Zenon
  <2>4. CASE ~(tx[t].cb /\ tx[t].stage \in {"ONCOMMIT", "ONABORT"})
    <3>1. s = seen[t]
      BY <2>4, Zenon DEF Finally
    <3>2. seen[t] \in Seq(Stages)
      BY <1>1, Zenon DEF TypeOK
    <3>3. tx[t].cb => tx[t].stage \in {"FINALLY", "NONE"}
      BY <1>2, <1>3, <2>4, StructFields, Zenon DEF Stages
    <3>4. tx[t].cb => seen[t] \in ToFinally
      BY <1>2, <1>3, <3>3, Zenon DEF Heard
    <3> HIDE DEF s
    <3> QED BY <2>2, <3>1, <3>2, <3>4, Zenon
  <2> QED BY <2>3, <2>4, Zenon
<1>7. tx' = [tx EXCEPT ![t] = y] /\ seen' = [seen EXCEPT ![t] = s]
  BY <1>1, Zenon DEF EndOuter, TypeOK
<1>8. UNCHANGED <<todo, owner, dirty, calls, begins, fails, lost, dead, aborted>>
  BY Zenon DEF EndOuter
<1> HIDE DEF y, s
<1>9. tx' \in [Threads -> Structs] /\ tx'[t] = y /\ \A u \in Threads \ {t} : tx'[u] = tx[u]
  BY <1>1, <1>4, <1>7, Zenon DEF TypeOK
<1>10. /\ seen' \in [Threads -> Seq(Stages)] /\ seen'[t] = s
       /\ \A u \in Threads \ {t} : seen'[u] = seen[u]
  BY <1>1, <1>6, <1>7, Zenon DEF TypeOK
<1>11. /\ pc' \in [Threads -> {"run", "begin", "lock", "release"}] /\ pc'[t] = "release"
       /\ \A u \in Threads \ {t} : pc'[u] = pc[u]
  BY <1>1, Zenon DEF TypeOK, EndOuter
<1>12. ~Open(y) /\ ~Open(tx[t])
  BY SMTT(20), <1>2, <1>5 DEF Open
<1>13. Nested(y, "release", calls[t], aborted[t])
  BY <1>2, <1>3, <1>5, <1>12 DEF Nested, Due
<1>14. Heard(y, "release", s)
  <2>1. y.level # 1
    BY <1>5
  <2> QED BY <1>5, <1>6, <1>12, <2>1, Zenon DEF Heard
<1>15. TypeOK'
  <2>1. \A u \in Threads : IsInjective(tx'[u].locks)
    BY <1>1, <1>5, <1>9, Zenon DEF TypeOK
  <2> QED BY <1>1, <1>8, <1>9, <1>10, <1>11, <2>1, Zenon DEF TypeOK
<1>16. OthersKeep(t)
  BY <1>8, <1>9, <1>10, <1>11, Zenon DEF OthersKeep
<1>17. LaneStep(t)
  BY <1>5, <1>9, <1>16, Zenon DEF LaneStep
<1>18. DirtKept(t)
  BY <1>8, <1>12, Zenon DEF DirtKept, StagesInv, WritersOpen
<1>19. LocksKept(t)
  BY <1>5, <1>8, <1>9, Zenon DEF LocksKept
<1>20. Nested(tx'[t], pc'[t], calls'[t], aborted'[t]) /\ Heard(tx'[t], pc'[t], seen'[t])
  BY <1>8, <1>9, <1>10, <1>11, <1>13, <1>14, Zenon
<1> QED
  BY <1>15, <1>16, <1>17, <1>18, <1>19, <1>20, StageStep, Zenon

(* A thread that is about to release its locks has no uncommitted write.   *)
LEMMA AtRelease ==
    ASSUME StagesInv, NEW t \in Threads, pc[t] = "release"
    PROVE  /\ tx[t] \in Structs /\ tx[t].level = 0 /\ tx[t].stage # "WORK" /\ ~Open(tx[t])
           /\ calls[t] \in {1, 2} /\ (calls[t] = 1 => ~tx[t].lane)
           /\ (tx[t].cb => seen[t] \in ToFinally) /\ (~tx[t].cb => seen[t] = <<>>)
           /\ \A l \in Locks : dirty[l] # t
<1>1. tx[t] \in Structs /\ dirty \in [Locks -> Threads \cup {NoThread}]
  BY Zenon DEF StagesInv, TypeOK
<1>2. Nested(tx[t], "release", calls[t], aborted[t]) /\ Heard(tx[t], "release", seen[t])
  BY Zenon DEF StagesInv
<1>3. tx[t].level = 0
  BY <1>2, Zenon DEF Nested
<1>4. tx[t].stage # "WORK"
  BY <1>2, <1>3 DEF Nested
<1>5. ~Open(tx[t])
  BY SMTT(20), <1>3, <1>4 DEF Open
<1>6. calls[t] \in {1, 2} /\ (calls[t] = 1 => ~tx[t].lane)
  BY <1>2, <1>3, <1>5 DEF Nested, Due
<1>7. (tx[t].cb => seen[t] \in ToFinally) /\ (~tx[t].cb => seen[t] = <<>>)
  BY <1>2, Zenon DEF Heard
<1>8. \A l \in Locks : dirty[l] # t
  BY <1>5, StagesAssumption, ZenonT(30) DEF StagesInv, WritersOpen
<1> QED
  BY <1>1, <1>3, <1>4, <1>5, <1>6, <1>7, <1>8, Zenon

\* release_and_free_tx_locks releases a lock.
LEMMA ReleaseStepKeeps ==
    ASSUME StagesInv, NEW t \in Threads, Release(t)
    PROVE  Kept(t)
<1> DEFINE y == [tx[t] EXCEPT !.locks = Tail(tx[t].locks)]
           l == Head(tx[t].locks)
<1>1. TypeOK
  BY Zenon DEF StagesInv
<1>2. tx[t] \in Structs /\ \A k \in Locks : dirty[k] # t
  BY AtRelease, Zenon DEF Release
<1>3. tx[t].locks \in Seq(Locks) /\ tx[t].locks # <<>> /\ IsInjective(tx[t].locks)
  BY <1>1, <1>2, StructFields, Zenon DEF TypeOK, Release
<1>4. /\ Tail(tx[t].locks) \in Seq(Locks) /\ IsInjective(Tail(tx[t].locks))
      /\ l \in Range(tx[t].locks) /\ l \in Locks
      /\ Range(Tail(tx[t].locks)) \subseteq Range(tx[t].locks) \ {l}
  BY <1>3, ListShrinks, Zenon
<1>5. y \in Structs
  BY <1>2, <1>4, Zenon DEF Structs
<1>6. /\ y.stage = tx[t].stage /\ y.level = tx[t].level /\ y.lane = tx[t].lane
      /\ y.err = tx[t].err /\ y.cb = tx[t].cb /\ y.locks = Tail(tx[t].locks)
  BY <1>2, Zenon DEF Structs
<1>7. tx' = [tx EXCEPT ![t] = y] /\ owner' = [owner EXCEPT ![l] = NoThread]
  BY <1>1, Zenon DEF Release, TypeOK
<1>8. UNCHANGED <<pc, todo, dirty, calls, begins, fails, lost, dead, seen, aborted>>
  BY Zenon DEF Release
<1> HIDE DEF y, l
<1>9. tx' \in [Threads -> Structs] /\ tx'[t] = y /\ \A u \in Threads \ {t} : tx'[u] = tx[u]
  BY <1>1, <1>5, <1>7, Zenon DEF TypeOK
<1>10. /\ owner' \in [Locks -> Threads \cup {NoThread}]
       /\ \A k \in Locks \ {l} : owner'[k] = owner[k]
  BY <1>1, <1>4, <1>7, Zenon DEF TypeOK
<1>11. TypeOK'
  <2>1. \A u \in Threads : IsInjective(tx'[u].locks)
    BY <1>1, <1>4, <1>6, <1>9, Zenon DEF TypeOK
  <2> QED BY <1>1, <1>8, <1>9, <1>10, <2>1, Zenon DEF TypeOK
<1>12. OthersKeep(t)
  BY <1>8, <1>9, Zenon DEF OthersKeep
<1>13. LaneStep(t)
  BY <1>6, <1>9, <1>12, Zenon DEF LaneStep
<1>14. WritersOpen'
  <2>1. DirtKept(t)
    BY <1>2, <1>8, Zenon DEF DirtKept
  <2> QED BY <1>12, <2>1, WritersKept, Zenon
<1>15. fails = 0 => owner[l] = t
  BY <1>4, Zenon DEF StagesInv, ListsOwned
<1>16. ListsOwned'
  <2> SUFFICES ASSUME fails = 0, NEW u \in Threads, NEW k \in Range(tx'[u].locks)
               PROVE  owner'[k] = u
    BY <1>8, Zenon DEF ListsOwned
  <2>1. k \in Range(tx[u].locks) /\ (u = t => k # l)
    BY <1>4, <1>6, <1>9, Zenon
  <2>2. k \in Locks
    <3>1. tx[u].locks \in Seq(Locks)
      BY <1>1, StructFields, Zenon DEF TypeOK
    <3> QED BY <2>1, <3>1 DEF Range
  <2>3. owner[k] = u
    BY <2>1, Zenon DEF StagesInv, ListsOwned
  <2>4. k # l
    BY <1>15, <2>1, <2>3, Zenon
  <2> QED BY <1>10, <2>2, <2>3, <2>4, Zenon
<1>17. Isolation'
  BY <1>2, <1>8, <1>10, <1>15, Zenon DEF StagesInv, Isolation
<1>18. Nested(y, pc[t], calls[t], aborted[t]) /\ Heard(y, pc[t], seen[t])
  BY <1>6, ListUnseen, Zenon DEF StagesInv
<1>19. Nested(tx'[t], pc'[t], calls'[t], aborted'[t]) /\ Heard(tx'[t], pc'[t], seen'[t])
  BY <1>8, <1>9, <1>18, ZenonT(30)
<1> QED
  BY <1>11, <1>12, <1>13, <1>14, <1>16, <1>17, <1>19, ThreadStep, Zenon

\* pmemobj_tx_end has released all locks.
LEMMA EndedKeeps ==
    ASSUME StagesInv, NEW t \in Threads, Ended(t)
    PROVE  Kept(t)
<1> DEFINE y == [tx[t] EXCEPT !.stage = "NONE", !.cb = FALSE]
           s == IF tx[t].cb THEN Append(seen[t], "NONE") ELSE seen[t]
<1>1. TypeOK
  BY Zenon DEF StagesInv
<1>2. /\ tx[t] \in Structs /\ tx[t].level = 0 /\ tx[t].stage # "WORK" /\ ~Open(tx[t])
      /\ calls[t] \in {1, 2} /\ (calls[t] = 1 => ~tx[t].lane)
      /\ (tx[t].cb => seen[t] \in ToFinally) /\ (~tx[t].cb => seen[t] = <<>>)
      /\ \A l \in Locks : dirty[l] # t
  BY AtRelease, Zenon DEF Ended
<1>3. y \in Structs
  <2>1. FALSE \in BOOLEAN
    BY Zenon
  <2> QED BY <1>2, <2>1, Zenon DEF Structs, Stages
<1>4. /\ y.stage = "NONE" /\ y.level = 0 /\ y.lane = tx[t].lane /\ ~y.cb
      /\ y.locks = tx[t].locks
  BY <1>2, Zenon DEF Structs
<1>5. s \in CallbackRuns \cup {<<>>}
  BY <1>2, RunsGrow, Zenon
<1>6. tx' = [tx EXCEPT ![t] = y] /\ seen' = [seen EXCEPT ![t] = s]
  BY <1>1, Zenon DEF Ended, TypeOK
<1>7. UNCHANGED <<todo, owner, dirty, begins, fails, lost, dead, aborted>>
  BY Zenon DEF Ended
<1> HIDE DEF y, s
<1>8. tx' \in [Threads -> Structs] /\ tx'[t] = y /\ \A u \in Threads \ {t} : tx'[u] = tx[u]
  BY <1>1, <1>3, <1>6, Zenon DEF TypeOK
<1>9. /\ seen' \in [Threads -> Seq(Stages)] /\ seen'[t] = s
      /\ \A u \in Threads \ {t} : seen'[u] = seen[u]
  <2>1. s \in Seq(Stages)
    BY <1>5, RunsAreStages, Zenon
  <2> QED BY <1>1, <1>6, <2>1, Zenon DEF TypeOK
<1>10. /\ pc' \in [Threads -> {"run", "begin", "lock", "release"}] /\ pc'[t] = "run"
       /\ \A u \in Threads \ {t} : pc'[u] = pc[u]
  BY <1>1, Zenon DEF TypeOK, Ended
<1>11. /\ calls' \in [Threads -> 0..MaxDepth + 1] /\ calls'[t] = calls[t] - 1
       /\ \A u \in Threads \ {t} : calls'[u] = calls[u]
  <2>1. calls[t] - 1 \in 0..MaxDepth + 1
    BY <1>2, StagesAssumption
  <2> QED BY <1>1, <2>1, Zenon DEF TypeOK, Ended
<1>12. ~Open(y)
  BY <1>4 DEF Open
<1>13. Nested(y, "run", calls[t] - 1, aborted[t])
  BY <1>2, <1>4, <1>12 DEF Nested, Due
<1>14. Heard(y, "run", s)
  <2>1. y.level # 1 /\ ~(y.level > 0)
    BY <1>4
  <2> QED BY <1>4, <1>5, <1>12, <2>1, Zenon DEF Heard
<1>15. TypeOK'
  <2>1. \A u \in Threads : IsInjective(tx'[u].locks)
    BY <1>1, <1>4, <1>8, Zenon DEF TypeOK
  <2> QED BY <1>1, <1>7, <1>8, <1>9, <1>10, <1>11, <2>1, Zenon DEF TypeOK
<1>16. OthersKeep(t)
  BY <1>7, <1>8, <1>9, <1>10, <1>11, Zenon DEF OthersKeep
<1>17. LaneStep(t)
  BY <1>4, <1>8, <1>16, Zenon DEF LaneStep
<1>18. DirtKept(t)
  BY <1>2, <1>7, Zenon DEF DirtKept
<1>19. LocksKept(t)
  BY <1>4, <1>7, <1>8, Zenon DEF LocksKept
<1>20. Nested(tx'[t], pc'[t], calls'[t], aborted'[t]) /\ Heard(tx'[t], pc'[t], seen'[t])
  BY <1>7, <1>8, <1>9, <1>10, <1>11, <1>13, <1>14, Zenon
<1> QED
  BY <1>15, <1>16, <1>17, <1>18, <1>19, <1>20, StageStep, Zenon

\* pmemobj_tx_end in the stage WORK ends the program.
LEMMA EndDiesKeeps ==
    ASSUME StagesInv, NEW t \in Threads, EndDies(t)
    PROVE  Kept(t)
<1>1. dead' = TRUE /\ UNCHANGED <<tx, pc, todo, owner, dirty, calls, begins, fails, lost, seen, aborted>>
  BY Zenon DEF EndDies
<1>2. TypeOK'
  <2>1. dead' \in BOOLEAN
    BY <1>1, Zenon
  <2> QED BY <1>1, <2>1, Zenon DEF StagesInv, TypeOK
<1>3. OthersKeep(t)
  BY <1>1, Zenon DEF OthersKeep
<1>4. LaneStep(t)
  BY <1>1, <1>3, Zenon DEF LaneStep
<1>5. DirtKept(t) /\ LocksKept(t)
  BY <1>1, Zenon DEF StagesInv, WritersOpen, DirtKept, LocksKept
<1>6. Nested(tx'[t], pc'[t], calls'[t], aborted'[t]) /\ Heard(tx'[t], pc'[t], seen'[t])
  BY <1>1, Zenon DEF StagesInv
<1> QED
  BY <1>2, <1>3, <1>4, <1>5, <1>6, StageStep, Zenon

-----------------------------------------------------------------------------
(* The theorems.                                                           *)

(* A step of the system is one of some thread, ...                         *)
LEMMA NextKeeps ==
    ASSUME StagesInv, Next
    PROVE  \E t \in Threads : Kept(t)
<1>1. PICK t \in Threads :
          \/ BeginOuter(t) \/ BeginOuterFails(t) \/ BeginInner(t) \/ BeginInnerFails(t)
          \/ TxLock(t) \/ LockNoMemory(t) \/ LockFails(t) \/ Write(t) \/ Inside(t)
  BY Zenon DEF Next
<1> SUFFICES Kept(t)
  BY Zenon
<1>2. CASE BeginOuter(t)
  BY <1>2, BeginOuterKeeps, Zenon
<1>3. CASE BeginOuterFails(t)
  BY <1>3, BeginOuterFailsKeeps, ZenonT(30)
<1>4. CASE BeginInner(t)
  BY <1>4, BeginInnerKeeps, Zenon
<1>5. CASE BeginInnerFails(t)
  BY <1>5, BeginInnerFailsKeeps, Zenon
<1>6. CASE TxLock(t)
  BY <1>6, TxLockKeeps, Zenon
<1>7. CASE LockNoMemory(t)
  BY <1>7, LockNoMemoryKeeps, Zenon
<1>8. CASE LockFails(t)
  BY <1>8, LockFailsKeeps, Zenon
<1>9. CASE Write(t)
  BY <1>9, WriteKeeps, Zenon
<1>10. CASE SkipLock(t)
  BY <1>10, SkipLockKeeps, Zenon
<1>11. CASE TakeLock(t)
  BY <1>11, TakeLockKeeps, Zenon
<1>12. CASE Locked(t)
  BY <1>12, LockedKeeps, Zenon
<1>13. CASE Commit(t)
  BY <1>13, CommitKeeps, Zenon
<1>14. CASE Abort(t)
  BY <1>14, AbortKeeps, Zenon
<1>15. CASE Process(t)
  BY <1>15, ProcessKeeps, Zenon
<1>16. CASE EndInner(t)
  BY <1>16, EndInnerKeeps, Zenon
<1>17. CASE EndOuter(t)
  BY <1>17, EndOuterKeeps, Zenon
<1>18. CASE Release(t)
  BY <1>18, ReleaseStepKeeps, Zenon
<1>19. CASE Ended(t)
  BY <1>19, EndedKeeps, Zenon
<1>20. CASE EndDies(t)
  BY <1>20, EndDiesKeeps, Zenon
<1>21. CASE Inside(t)
  BY ZenonT(30), <1>10, <1>11, <1>12, <1>13, <1>14, <1>15, <1>16, <1>17, <1>18, <1>19, <1>20, <1>21,
     Zenon DEF Inside
<1> QED
  BY <1>1, <1>2, <1>3, <1>4, <1>5, <1>6, <1>7, <1>8, <1>9, <1>21, Zenon

(* ... or changes nothing.                                                 *)
LEMMA StutterKeeps ==
    ASSUME StagesInv, UNCHANGED vars
    PROVE  StagesInv'
<1>1. TypeOK'
  BY Zenon DEF vars, StagesInv, TypeOK
<1>2. \A t \in Threads : /\ Nested(tx'[t], pc'[t], calls'[t], aborted'[t])
                         /\ Heard(tx'[t], pc'[t], seen'[t])
  BY Zenon DEF vars, StagesInv
<1>3. WritersOpen' /\ ListsOwned' /\ Isolation'
  BY Zenon DEF vars, StagesInv, WritersOpen, ListsOwned, Isolation
<1> QED
  BY <1>1, <1>2, <1>3, Zenon DEF StagesInv

\* Every step keeps the invariant.
LEMMA StepKeepsStages == StagesInv /\ [Next]_vars => StagesInv'
BY NextKeeps, StutterKeeps, Zenon DEF Kept

(* The inductive invariant of the stage machine holds in every behaviour   *)
(* of pmemobj_tx_begin, _lock, _commit, _abort, _process and _end.         *)
THEOREM StagesInvariant == Spec => []StagesInv
<1> QED BY InitStages, StepKeepsStages, PTL DEF Spec

(* While no lock call has failed, a cell with an uncommitted write is      *)
(* locked by the thread that wrote it: pmemobj_tx_end unlocks only after   *)
(* the outermost commit or abort.                                          *)
THEOREM WritesIsolated == Spec => []Isolation
<1>1. StagesInv => Isolation
  BY Zenon DEF StagesInv
<1> QED BY <1>1, StagesInvariant, PTL

(* A transaction of which some level was aborted is never committed as a   *)
(* whole: the error code reaches the outermost pmemobj_tx_end.             *)
THEOREM AbortNeverCommitted == Spec => []AbortReachesOutermost
<1>1. StagesInv => AbortReachesOutermost
  <2> SUFFICES ASSUME StagesInv, NEW t \in Threads, tx[t].stage = "ONCOMMIT", tx[t].level = 1, aborted[t]
               PROVE  FALSE
    BY Zenon DEF AbortReachesOutermost, Outermost
  <2>1. tx[t].level > 0
    OBVIOUS
  <2> QED BY <2>1, Zenon DEF StagesInv, Nested
<1> QED BY <1>1, StagesInvariant, PTL

(* What a sequence starts with.                                            *)
LEMMA StartOf ==
    ASSUME NEW S, NEW r \in Seq(S), NEW s \in Seq(S), Len(s) <= Len(r),
           \A i \in 1 .. Len(s) : s[i] = r[i]
    PROVE  \E n \in 0 .. Len(r) : s = SubSeq(r, 1, n)
<1> DEFINE q == SubSeq(r, 1, Len(s))
<1>1. q \in Seq(S) /\ Len(q) = Len(s) /\ \A i \in 1 .. Len(s) : q[i] = r[i]
  OBVIOUS
<1> HIDE DEF q
<1>2. s = q
  BY <1>1, SameSequence, Zenon
<1>3. Len(s) \in 0 .. Len(r)
  OBVIOUS
<1> QED
  BY <1>2, <1>3, Zenon DEF q

Started(s) == \E r \in CallbackRuns : \E n \in 0 .. Len(r) : s = SubSeq(r, 1, n)

\* Every run of stages begins where a transaction begins.
LEMMA RunsStarted ==
    \A s \in ToFinally \cup CallbackRuns \cup {<<>>, <<"ONABORT">>, <<"WORK", "ONCOMMIT">>} : Started(s)
<1> DEFINE c == <<"WORK", "ONCOMMIT", "FINALLY", "NONE">>
           a == <<"ONABORT", "FINALLY", "NONE">>
<1>1. /\ c \in Seq(Stages) /\ Len(c) = 4 /\ c[1] = "WORK" /\ c[2] = "ONCOMMIT" /\ c[3] = "FINALLY"
  BY DEF Stages
<1>2. a \in Seq(Stages) /\ Len(a) = 3 /\ a[1] = "ONABORT" /\ a[2] = "FINALLY"
  BY DEF Stages
<1>3. c \in CallbackRuns /\ a \in CallbackRuns /\ CallbackRuns = {c, a}
  BY Zenon DEF CallbackRuns
<1> HIDE DEF c, a
<1>4. ASSUME NEW s \in Seq(Stages), Len(s) <= 4, \A i \in 1 .. Len(s) : s[i] = c[i]
      PROVE  Started(s)
  BY SMTT(20), <1>1, <1>3, <1>4, StartOf DEF Started
<1>5. ASSUME NEW s \in Seq(Stages), Len(s) <= 3, \A i \in 1 .. Len(s) : s[i] = a[i]
      PROVE  Started(s)
  BY <1>2, <1>3, <1>5, StartOf DEF Started
<1>6. Started(<<>>)
  <2>1. <<>> \in Seq(Stages) /\ Len(<<>>) = 0
    OBVIOUS
  <2>2. Len(<<>>) <= 4 /\ \A i \in 1 .. Len(<<>>) : <<>>[i] = c[i]
    BY <2>1
  <2> QED BY <1>4, <2>1, <2>2, Zenon
<1>7. Started(<<"WORK", "ONCOMMIT">>) /\ Started(<<"WORK", "ONCOMMIT", "FINALLY">>)
  <2>1. Started(<<"WORK", "ONCOMMIT">>)
    <3> DEFINE s == <<"WORK", "ONCOMMIT">>
    <3>1. s \in Seq(Stages) /\ Len(s) = 2 /\ s[1] = "WORK" /\ s[2] = "ONCOMMIT"
      BY DEF Stages
    <3> HIDE DEF s
    <3>2. Len(s) <= Len(c) /\ \A i \in 1 .. Len(s) : s[i] = c[i]
      BY <1>1, <3>1
    <3>3. Started(s)
      BY <1>1, <1>4, <3>1, <3>2, Zenon
    <3> QED BY <3>3, Zenon DEF s
  <2>2. Started(<<"WORK", "ONCOMMIT", "FINALLY">>)
    <3> DEFINE s == <<"WORK", "ONCOMMIT", "FINALLY">>
    <3>1. s \in Seq(Stages) /\ Len(s) = 3 /\ s[1] = "WORK" /\ s[2] = "ONCOMMIT" /\ s[3] = "FINALLY"
      BY DEF Stages
    <3> HIDE DEF s
    <3>2. Len(s) <= Len(c) /\ \A i \in 1 .. Len(s) : s[i] = c[i]
      BY <1>1, <3>1
    <3>3. Started(s)
      BY <1>1, <1>4, <3>1, <3>2, Zenon
    <3> QED BY <3>3, Zenon DEF s
  <2> QED BY <2>1, <2>2, Zenon
<1>8. Started(<<"ONABORT">>) /\ Started(<<"ONABORT", "FINALLY">>)
  <2>1. Started(<<"ONABORT">>)
    <3> DEFINE s == <<"ONABORT">>
    <3>1. s \in Seq(Stages) /\ Len(s) = 1 /\ s[1] = "ONABORT"
      BY DEF Stages
    <3> HIDE DEF s
    <3>2. Len(s) <= Len(a) /\ \A i \in 1 .. Len(s) : s[i] = a[i]
      BY <1>2, <3>1
    <3>3. Started(s)
      BY <1>2, <1>5, <3>1, <3>2, Zenon
    <3> QED BY <3>3, Zenon DEF s
  <2>2. Started(<<"ONABORT", "FINALLY">>)
    <3> DEFINE s == <<"ONABORT", "FINALLY">>
    <3>1. s \in Seq(Stages) /\ Len(s) = 2 /\ s[1] = "ONABORT" /\ s[2] = "FINALLY"
      BY DEF Stages
    <3> HIDE DEF s
    <3>2. Len(s) <= Len(a) /\ \A i \in 1 .. Len(s) : s[i] = a[i]
      BY <1>2, <3>1
    <3>3. Started(s)
      BY <1>2, <1>5, <3>1, <3>2, Zenon
    <3> QED BY <3>3, Zenon DEF s
  <2> QED BY <2>1, <2>2, Zenon
<1>9. Started(c)
  <2>1. Len(c) <= 4
    BY <1>1
  <2> QED BY <1>1, <1>4, <2>1, Zenon
<1>10. Started(a)
  <2>1. Len(a) <= 3
    BY <1>2
  <2> QED BY <1>2, <1>5, <2>1, Zenon
<1> QED
  BY <1>3, <1>6, <1>7, <1>8, <1>9, <1>10, Zenon DEF ToFinally

(* The stage callback is called once for every stage of the outermost      *)
(* level, in order, whichever level registered it and whichever of         *)
(* pmemobj_tx_process and pmemobj_tx_end makes the transition.             *)
THEOREM CallbackCalledInOrder == Spec => []CallbackInOrder
<1>1. StagesInv => CallbackInOrder
  <2> SUFFICES ASSUME StagesInv, NEW t \in Threads
               PROVE  /\ Started(seen[t])
                      /\ calls[t] = 0 => seen[t] \in CallbackRuns \cup {<<>>}
    BY Zenon DEF CallbackInOrder, Started
  <2>1. tx[t] \in Structs /\ Nested(tx[t], pc[t], calls[t], aborted[t]) /\ Heard(tx[t], pc[t], seen[t])
    BY Zenon DEF StagesInv, TypeOK
  <2>2. tx[t].level \in 0 .. MaxDepth /\ tx[t].stage \in Stages
    BY <2>1, StructFields, Zenon
  <2>3. tx[t].level = 0 \/ (tx[t].level = 1 /\ tx[t].level > 0) \/ tx[t].level > 1
    BY <2>2
  <2>4. CASE tx[t].level = 0
    <3>1. seen[t] \in ToFinally \cup CallbackRuns \cup {<<>>}
      BY <2>1, <2>4, Zenon DEF Heard
    <3>2. calls[t] = 0 => pc[t] # "release"
      BY <2>1, <2>4 DEF Nested, Due
    <3>3. calls[t] = 0 => seen[t] \in CallbackRuns \cup {<<>>}
      BY <2>1, <2>4, <3>2, Zenon DEF Heard
    <3> QED BY <3>1, <3>3, RunsStarted, Zenon
  <2>5. CASE tx[t].level # 0
    <3>1. calls[t] # 0
      BY <2>1, <2>2, <2>5 DEF Nested, Due
    <3>2. seen[t] \in ToFinally \cup {<<>>, <<"ONABORT">>, <<"WORK", "ONCOMMIT">>}
      BY <2>1, <2>2, <2>3, <2>5, Zenon DEF Heard, Open, Stages
    <3> QED BY <3>1, <3>2, RunsStarted, Zenon
  <2> QED BY <2>4, <2>5, Zenon
<1> QED BY <1>1, StagesInvariant, PTL
-----------------------------------------------------------------------------
\* Counting the holders of lanes, step by step.

(* The lanes that are held are no more than there are.                     *)
Holders == {t \in Threads : tx[t].lane}
LanesInv == IsFiniteSet(Holders) /\ Cardinality(Holders) <= NLanes

(* A lane is taken when one is free, ...                                   *)
LEMMA LaneTaken ==
    ASSUME LanesInv, NEW t \in Threads, OthersKeep(t), LaneFree
    PROVE  LanesInv'
<1>1. IsFiniteSet(Holders) /\ Cardinality(Holders) < NLanes /\ Cardinality(Holders) \in Nat
  BY FS_CardinalityType, Zenon DEF LanesInv, LaneFree, Holders
<1>2. /\ IsFiniteSet(Holders \cup {t}) /\ Cardinality(Holders \cup {t}) <= NLanes
      /\ Cardinality(Holders \cup {t}) \in Nat
  <2>1. IsFiniteSet(Holders \cup {t})
    BY <1>1, FS_AddElement, Zenon
  <2>2. Cardinality(Holders \cup {t}) \in {Cardinality(Holders), Cardinality(Holders) + 1}
    BY <1>1, FS_AddElement, Zenon
  <2> QED BY <1>1, <2>1, <2>2, StagesAssumption
<1>3. Holders' \in SUBSET (Holders \cup {t})
  BY Zenon DEF Holders, OthersKeep
<1>4. IsFiniteSet(Holders') /\ Cardinality(Holders') <= Cardinality(Holders \cup {t})
  BY <1>2, <1>3, FS_Subset, Zenon
<1>5. Cardinality(Holders') \in Nat
  BY <1>4, FS_CardinalityType, Zenon
<1> QED
  BY <1>2, <1>4, <1>5, StagesAssumption DEF LanesInv

(* ... and otherwise only given away.                                      *)
LEMMA LaneKept ==
    ASSUME LanesInv, NEW t \in Threads, OthersKeep(t), tx'[t].lane => tx[t].lane
    PROVE  LanesInv'
<1>1. IsFiniteSet(Holders) /\ Cardinality(Holders) <= NLanes /\ Cardinality(Holders) \in Nat
  BY FS_CardinalityType, Zenon DEF LanesInv
<1>2. Holders' \in SUBSET Holders
  BY Zenon DEF Holders, OthersKeep
<1>3. IsFiniteSet(Holders') /\ Cardinality(Holders') <= Cardinality(Holders)
  BY <1>1, <1>2, FS_Subset, Zenon
<1>4. Cardinality(Holders') \in Nat
  BY <1>3, FS_CardinalityType, Zenon
<1> QED
  BY <1>1, <1>3, <1>4, StagesAssumption DEF LanesInv

\* Every step keeps a lane with each open transaction.
LEMMA LanesStep ==
    ASSUME StagesInv, LanesInv, [Next]_vars
    PROVE  LanesInv'
<1>1. CASE Next
  <2>1. PICK t \in Threads : OthersKeep(t) /\ (LaneFree \/ (tx'[t].lane => tx[t].lane))
    BY <1>1, NextKeeps, Zenon DEF Kept, LaneStep
  <2> QED BY <2>1, LaneTaken, LaneKept, Zenon
<1>2. CASE UNCHANGED vars
  <2>1. Holders' = Holders
    BY <1>2, Zenon DEF vars, Holders
  <2> QED BY <2>1, Zenon DEF LanesInv
<1> QED
  BY <1>1, <1>2, Zenon

\* No transaction is open at the start.
LEMMA LanesInit == Init => LanesInv
<1> SUFFICES ASSUME Init PROVE LanesInv
  OBVIOUS
<1>1. Holders = {}
  BY Zenon DEF Init, Idle, Holders
<1> QED
  BY <1>1, FS_EmptySet, StagesAssumption DEF LanesInv

(* A transaction holds its lane exactly while it is open, and there are    *)
(* never more holders than lanes: the ASSERTs on tx->lane of obj_tx_abort, *)
(* pmemobj_tx_commit and pmemobj_tx_end hold for every nesting.            *)
THEOREM LaneHeldWhileOpen == Spec => []LaneWhileOpen
<1>1. LanesInv => Cardinality({t \in Threads : tx[t].lane}) <= NLanes
  BY DEF LanesInv, Holders
<1>2. StagesInv => \A t \in Threads : Paired(t) =>
          (tx[t].lane <=> (tx[t].stage = "WORK" \/ tx[t].level > 1))
  BY Zenon DEF StagesInv, Nested, Due, Open, Paired
<1>3. StagesInv /\ LanesInv => LaneWhileOpen
  BY <1>1, <1>2, Zenon DEF StagesInv, LaneWhileOpen
<1> QED
  BY <1>3, LanesInit, LanesStep, StagesInvariant, PTL DEF Spec

=============================================================================
