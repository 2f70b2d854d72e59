---------------------------- MODULE BlockDevice ----------------------------
(***************************************************************************)
(* What libpmemblk promises (doc/libpmemblk/pmemblk_read.3.md): an array   *)
(* of blocks, each written atomically.  An operation takes effect at one   *)
(* moment between its call and its return; a crash leaves every block as   *)
(* it was or as an operation in flight made it, never as a mixture.        *)
(***************************************************************************)
EXTENDS Naturals

CONSTANTS
    Lanes,          \* operations that can be in flight at once
    Lba,            \* block numbers
    Values,         \* contents a caller writes
    Zero, Error     \* a block of zeros, and a block that reads as EIO

VARIABLES
    disk,           \* the contents of each block
    op,             \* the operation in flight on each lane
    out,            \* what the last read of a lane returned
    up              \* the pool is open

vars == <<disk, op, out, up>>

Contents == Values \cup {Zero, Error}

\* The contents an operation leaves in its block.
Effect(o) == CASE o.kind = "write" -> o.val
               [] o.kind = "zero" -> Zero
               [] o.kind = "error" -> Error

Idle == [kind |-> "idle"]

\* An operation that takes effect: val is what a read returns, was is what
\* a set_zero or set_error replaced.
Started(k, l, v) == [kind |-> k, lba |-> l, val |-> v, was |-> Zero,
                     st |-> "started"]

Init ==
    /\ disk = [l \in Lba |-> Zero]
    /\ op = [n \in Lanes |-> Idle]
    /\ out = [n \in Lanes |-> Zero]
    /\ up = TRUE

Calls == {Started("write", l, v) : l \in Lba, v \in Values}
           \cup {Started(k, l, Zero) : l \in Lba, k \in {"read", "zero", "error"}}

Call(n) ==
    /\ up /\ op[n] = Idle
    /\ op'[n] \in Calls
    /\ op' = [op EXCEPT ![n] = op'[n]]
    /\ UNCHANGED <<disk, out, up>>

ReadEffect(n) ==
    /\ up /\ op[n].kind = "read" /\ op[n].st = "started"
    /\ op' = [op EXCEPT ![n].st = "applied", ![n].val = disk[op[n].lba]]
    /\ UNCHANGED <<disk, out, up>>

WriteEffect(n) ==
    /\ up /\ op[n].kind \in {"write", "zero", "error"}
    /\ op[n].st = "started"
    /\ op' = [op EXCEPT ![n].st = "applied",
                        ![n].was = IF op[n].kind = "write"
                                     THEN Zero ELSE disk[op[n].lba]]
    /\ disk' = [disk EXCEPT ![op[n].lba] = Effect(op[n])]
    /\ UNCHANGED <<out, up>>

Return(n) ==
    /\ up /\ op[n].kind # "idle" /\ op[n].st = "applied"
    /\ out' = IF op[n].kind = "read" THEN [out EXCEPT ![n] = op[n].val] ELSE out
    /\ op' = [op EXCEPT ![n] = Idle]
    /\ UNCHANGED <<disk, up>>

\* A write in flight happens or not; a set_zero or set_error that has not
\* returned may be undone.
Outcomes(l) ==
    {disk[l]}
      \cup {op[n].val : n \in {m \in Lanes : /\ op[m].kind = "write"
                                             /\ op[m].lba = l}}
      \cup {op[n].was : n \in {m \in Lanes : /\ op[m].kind \in {"zero", "error"}
                                             /\ op[m].lba = l
                                             /\ op[m].st = "applied"}}

Crash ==
    /\ up /\ up' = FALSE
    /\ disk' \in [Lba -> Contents] /\ \A l \in Lba : disk'[l] \in Outcomes(l)
    /\ op' = [n \in Lanes |-> Idle]
    /\ out' = [n \in Lanes |-> Zero]

Reopen == ~up /\ up' = TRUE /\ UNCHANGED <<disk, op, out>>

Next == \/ \E n \in Lanes : Call(n) \/ ReadEffect(n) \/ WriteEffect(n) \/ Return(n)
        \/ Crash \/ Reopen

Spec == Init /\ [][Next]_vars
=============================================================================
